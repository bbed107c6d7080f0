------------------------------ MODULE Diagnosis ------------------------------
(***************************************************************************)
(* A k8s_diagnose call from the name the client gives to the answer it     *)
(* gets: runDiag of internal/mcp/handlers.go, Engine.diagnose of           *)
(* internal/diagnostic/engine.go, over the Resolver and the analysis of    *)
(* each kind.                                                              *)
(*                                                                         *)
(* After the object has been fetched, each read is a step; a Builder's     *)
(* requests are one, and so is the diagnosis of one pod or job, whose      *)
(* interleaving is in DiagnosisFanout.                                     *)
(***************************************************************************)
EXTENDS Resolver, KindAnalysis

CONSTANT Objects   \* the objects the name may turn out to be

\* The kinds diagnose tells apart; all others are diagnosed from their conditions.
Kinds ==
  {"Pod", "Deployment", "StatefulSet", "DaemonSet", "Job", "CronJob", "Service", "Ingress",
   "PersistentVolumeClaim", "Node", "Generic"}

\* What the API server stores: every pod is in a phase and refers to things of these sorts,
\* a list is a sequence, and the pods of one namespace (a Node's are of all) differ in name.
IsPod(p) ==
  /\ p.phase \in {"Pending", "Running", "Succeeded", "Failed", "Unknown"}
  /\ p.containers \in Seq(Elements(p.containers))
  /\ \A r \in Elements(p.refs) : r.of \in {"configmap", "secret", "pull", "account", "pvc"}
HasLists(o) ==
  /\ \A what \in {"events", "pods", "jobs", "replicasets"} :
       The(what) \in DOMAIN o.there => o.there[The(what)] \in Seq(Elements(o.there[The(what)]))
  /\ The("pods") \in DOMAIN o.there => \A p \in Elements(o.there[The("pods")]) : IsPod(p)
  /\ The("pods") \in DOMAIN o.there /\ o.kind # "Node" =>
       \A i, j \in DOMAIN o.there[The("pods")] :
         o.there[The("pods")][i].name = o.there[The("pods")][j].name => i = j

ASSUME ObjectAssumption ==
  \A o \in Objects :
    /\ o.kind \in Kinds /\ HasLists(o)
    /\ o.kind = "Pod" => IsPod(o)
    /\ o.kind = "Deployment" => The("replicasets") \in DOMAIN o.there
    /\ o.kind = "CronJob" => \A j \in Elements(o.there[The("jobs")]) : j.kind = "Job" /\ HasLists(j)

VARIABLES
  stage,   \* "resolve", "read" or "answered"
  object,  \* the object fetched, or Nobody
  over,    \* whether the call's context is done
  got,     \* what has been read: read -> [kind, value]
  answer   \* the DiagnosticResponse, or Nobody

diagnosisVars == <<stage, object, over, got, answer>>
vars == <<resolverVars, diagnosisVars>>

Nobody == [kind |-> "none"]
Nowhere == [p \in Places |-> {}]

ClusterScoped(o) == o.kind = "Node" \/ (o.kind = "Generic" /\ o.cluster)

Init ==
  /\ ResolverInit
  /\ stage = "resolve" /\ object = Nobody /\ over = FALSE /\ got = <<>> /\ answer = Nobody

\* The resolution, the second Get, and the answers that need no diagnosis.
Resolve ==
  /\ stage = "resolve"
  /\ ResolverStep
  /\ UNCHANGED diagnosisVars

\* The switch on the kind.  What the resolution used goes out of scope: it keeps
\* the match and how it was found.
Dispatch ==
  /\ stage = "resolve" /\ reply = "diagnosing"
  /\ \E o \in Objects :
       /\ ClusterScoped(o) = (query.kind = "cluster") /\ (query.custom => o.kind = "Generic")
       /\ object' = o
  /\ stage' = "read"
  /\ query' = (CHOOSE q \in Queries : TRUE) /\ objects' = Nowhere /\ changes' = 0
  /\ found' = [found EXCEPT !.match = {}]
  /\ seen' = [failed |-> FALSE, forbidden |-> FALSE, exact |-> FALSE]
  /\ UNCHANGED <<at, todo, hits, reply, over, got, answer>>

\* The first set of the plan with something that has not been read.
Unread == {i \in DOMAIN Plan(object, got) : ~(Plan(object, got)[i] \subseteq DOMAIN got)}
NextReads ==
  (UNION {Plan(object, got)[i] : i \in {j \in Unread : \A k \in Unread : j <= k}}) \ DOMAIN got

\* The next request, or the diagnosis of the next pod or job.
Read ==
  /\ stage = "read"
  /\ \E read \in NextReads : \E a \in Answers(object, read, got, over) :
       got' = [r \in DOMAIN got \cup {read} |-> IF r = read THEN a ELSE got[r]]
  /\ UNCHANGED <<resolverVars, stage, object, over, answer>>

\* The analysis of what was read, and the way it was resolved.
Analyze ==
  /\ stage = "read" /\ Unread = {}
  /\ \E r \in Responses(object, got) :
       answer' = IF found.how = "prefix" THEN DemoteConfirmed(r) ELSE r
  /\ stage' = "answered"
  /\ UNCHANGED <<resolverVars, object, over, got>>

\* kube.WithTimeout, or the client gives up: from now on every request fails.
ContextEnds ==
  /\ stage = "read" /\ ~over
  /\ over' = TRUE
  /\ UNCHANGED <<resolverVars, stage, object, got, answer>>

Call == Resolve \/ Dispatch \/ Read \/ Analyze
Environment == ContextEnds \/ (OtherClient /\ UNCHANGED diagnosisVars)
Next == Call \/ Environment

Spec == Init /\ [][Next]_vars
=============================================================================
