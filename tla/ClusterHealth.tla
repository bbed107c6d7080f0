---------------------------- MODULE ClusterHealth ----------------------------
(***************************************************************************)
(* One cluster health report: internal/health/cluster.go, Cluster.         *)
(*                                                                         *)
(* The handler lists seven kinds of objects, one request each, and any of  *)
(* them may fail.  Every unhealthy object becomes an issue, as long as     *)
(* there is room, and a candidate for a deep diagnosis.  The candidates    *)
(* are sorted, capped, and diagnosed by goroutines that a gate admits; the *)
(* results come back through a channel, in any order, and each is matched  *)
(* to its issue by kind, namespace and name.                               *)
(*                                                                         *)
(* The cluster may change between two lists, so a list shows any state.    *)
(***************************************************************************)
EXTENDS Health, Sequences, FiniteSets

CONSTANTS
  Objects,        \* what may exist in the scope of the call
  Shows,          \* object -> the statuses a list may show it in
  Rank,           \* object -> its place in the order of kind, namespace and name
  Categories,     \* root cause categories of a deep diagnosis
  MaxProblems, IncludeHealthy,   \* arguments of the tool
  MaxDeep,        \* Config.MaxClusterDeepDiagnoses; 0 is "not configured"
  MaxConcurrent,  \* Config.MaxConcurrentK8s; 0 is "not configured"
  MaxFailures,    \* bound: how many lists fail
  None

VARIABLES
  pc,          \* "list", "rank", "launch", "done"
  listed,      \* the number of lists asked for
  failed,      \* the kinds whose list failed
  shown,       \* object -> its health as listed, or None
  rep,         \* the report
  candidates,  \* the objects to diagnose, in the end those within the cap
  todo,        \* candidates with no goroutine yet
  worker,      \* object -> where the goroutine that diagnoses it is
  result,      \* object -> what its diagnosis returned
  ch,          \* the channel of results
  received,    \* how many results the handler has taken
  enriched,    \* the results taken, one for each key
  over         \* the context is done

vars == <<pc, listed, failed, shown, rep, candidates, todo, worker, result, ch,
          received, enriched, over>>
deepVars == <<candidates, todo, worker, result, ch, received, enriched>>

Lists == <<"Node", "Pod", "Deployment", "StatefulSet", "DaemonSet", "Job",
           "PersistentVolumeClaim">>
KindNames == {Lists[i] : i \in 1 .. 7}
Workloads == {"Deployment", "StatefulSet", "DaemonSet", "Job"}

\* max_problems, and the cap and the gate when they are not configured.
Room == IF MaxProblems = 0 THEN 50 ELSE MaxProblems
Cap == IF MaxDeep = 0 THEN 8 ELSE MaxDeep
Gate == IF MaxConcurrent = 0 THEN 4 ELSE MaxConcurrent

\* The health of an object: FromNode and FromPod evaluate the severities of its
\* status signals; the others go by counts, conditions or the phase.
HealthOf(kind, s) ==
  CASE kind \in {"Node", "Pod"} -> Evaluate(s.severities, FALSE)
    [] kind \in {"Deployment", "StatefulSet", "DaemonSet"} ->
         FromCounts(s.desired, s.ready, FALSE)
    [] kind = "Job" -> JobHealth(s.failedCondition, s.succeeded, s.failed)
    [] OTHER -> IF s.bound THEN "healthy" ELSE "critical"

Listable == {"healthy", "degraded", "critical"}

Result == [obj: Objects, cat: Categories \cup {None}]
Report == [critical: SUBSET Objects, warnings: SUBSET Objects, healthy: SUBSET Objects,
           truncated: BOOLEAN, health: Healths, status: {"success", "partial"},
           deepTruncated: BOOLEAN, deepSkipped: Nat,
           cause: [Objects -> Categories \cup {None}]]

ASSUME ClusterAssumption ==
  /\ IsFiniteSet(Objects)
  /\ \A o \in Objects : o.kind \in KindNames
  /\ \A o, p \in Objects :
       o.kind = p.kind /\ o.ns = p.ns /\ o.name = p.name => o = p
  /\ \A o \in Objects : \A s \in Shows[o] : HealthOf(o.kind, s) \in Listable
  /\ Rank \in [Objects -> Nat]
  /\ \A o, p \in Objects : Rank[o] = Rank[p] => o = p
  /\ MaxProblems \in Nat /\ MaxDeep \in Nat /\ MaxConcurrent \in Nat
  /\ MaxFailures \in Nat /\ IncludeHealthy \in BOOLEAN
  /\ None \notin Listable \cup Result \cup Categories

Init ==
  /\ pc = "list" /\ listed = 0 /\ failed = {}
  /\ shown = [o \in Objects |-> None]
  /\ rep = [critical |-> {}, warnings |-> {}, healthy |-> {}, truncated |-> FALSE,
            health |-> "unknown", status |-> "success",
            deepTruncated |-> FALSE, deepSkipped |-> 0,
            cause |-> [o \in Objects |-> None]]
  /\ candidates = {} /\ todo = {}
  /\ worker = [o \in Objects |-> "none"]
  /\ result = [o \in Objects |-> None]
  /\ ch = <<>> /\ received = 0 /\ enriched = {}
  /\ over = FALSE

----------------------------------------------------------------------------
(* The inventory.                                                          *)

\* A kind is listed, in any order: the first that fit are taken, and Truncated
\* says that some did not.
Fits(room, items, taken) ==
  /\ taken \subseteq items
  /\ Cardinality(taken) = IF Cardinality(items) <= room THEN Cardinality(items) ELSE room

\* The items a list shows, of those in set s with a health in set hs.
Having(seen, s, hs) == {o \in s : seen[o] \in hs}

OfKind(kind) == {o \in Objects : o.kind = kind}

\* Mutant of Truncates: an issue that does not fit is dropped without a word.
TruncatesHealthyOnly(issues, taken, good, listedGood) == good # listedGood

\* pushIssue and pushHealthy set Truncated for what they do not take.
Truncates(issues, taken, good, listedGood) == issues # taken \/ good # listedGood

\* A list fails: Visibility is limited and the part is unknown.
ListError(kind) ==
  /\ Cardinality(failed) < MaxFailures
  /\ failed' = failed \cup {kind}
  /\ rep' = [rep EXCEPT !.status = "partial"]
  /\ UNCHANGED <<shown, candidates>>

\* A list is walked: pushIssue, pushHealthy, and the candidates.
Walk(kind) ==
  \E seen \in [OfKind(kind) -> Listable \cup {None}] :
    /\ \A o \in OfKind(kind) :
         seen[o] # None => \E s \in Shows[o] : seen[o] = HealthOf(kind, s)
    /\ shown' = [o \in Objects |-> IF o \in OfKind(kind) THEN seen[o] ELSE shown[o]]
    /\ LET issues == Having(seen, OfKind(kind), {"degraded", "critical"})
           good == IF IncludeHealthy /\ kind \in {"Node", "Pod", "Deployment"}
                     THEN Having(seen, OfKind(kind), {"healthy"}) ELSE {}
       IN \E taken \in SUBSET issues, listedGood \in SUBSET good :
            /\ Fits(Room - Cardinality(rep.critical \cup rep.warnings), issues, taken)
            /\ Fits(Room - Cardinality(rep.healthy), good, listedGood)
            /\ rep' = [rep EXCEPT
                 !.critical = @ \cup Having(seen, taken, {"critical"}),
                 !.warnings = @ \cup Having(seen, taken, {"degraded"}),
                 !.healthy = @ \cup listedGood,
                 !.truncated = @ \/ Truncates(issues, taken, good, listedGood)]
            /\ candidates' = candidates \cup issues
    /\ UNCHANGED failed

ListNext ==
  /\ pc = "list"
  /\ ListError(Lists[listed + 1]) \/ Walk(Lists[listed + 1])
  /\ listed' = listed + 1
  /\ pc' = IF listed + 1 = Len(Lists) THEN "rank" ELSE "list"
  /\ UNCHANGED <<todo, worker, result, ch, received, enriched, over>>

----------------------------------------------------------------------------
(* The combined health, and the cap on deep diagnoses.                     *)

\* A part's health, from its counts.
Part(kinds, listedOK) ==
  PartHealth(Cardinality({o \in Objects : o.kind \in kinds /\ shown[o] # None}),
             Cardinality({o \in Objects : o.kind \in kinds /\ shown[o] = "healthy"}),
             listedOK)

\* Mutant of WorkloadsRead: the list of Jobs is forgotten.
WorkloadsReadButJobs == failed \cap (Workloads \ {"Job"}) = {}

\* The workloads count as read when each of their four lists was.
WorkloadsRead == failed \cap Workloads = {}

Overall ==
  Combine({Part({"Node"}, "Node" \notin failed), Part({"Pod"}, "Pod" \notin failed),
           Part(Workloads, WorkloadsRead),
           Part({"PersistentVolumeClaim"}, "PersistentVolumeClaim" \notin failed)})

Priority(o) ==
  CASE o.kind = "Node" -> IF shown[o] = "critical" THEN 2 ELSE 3
    [] o.kind \in {"Deployment", "StatefulSet", "DaemonSet"} ->
         IF shown[o] = "critical" THEN 0 ELSE 3
    [] o.kind = "Job" -> IF shown[o] = "critical" THEN 1 ELSE 3
    [] o.kind = "PersistentVolumeClaim" -> 4
    [] OTHER -> 5

\* The order of the candidates: priority, then kind, namespace and name.
Before(o, p) ==
  Priority(o) < Priority(p) \/ (Priority(o) = Priority(p) /\ Rank[o] < Rank[p])

\* Mutant of Chosen: the cap is put on before the sort, in listing order.
ChosenAsListed(S) ==
  {c \in S : Cardinality({d \in S : \E i, j \in DOMAIN Lists :
                             /\ Lists[i] = d.kind /\ Lists[j] = c.kind
                             /\ i < j \/ (i = j /\ Rank[d] < Rank[c])}) < Cap}

\* The first candidates in that order, up to the cap.
Chosen(S) == {c \in S : Cardinality({d \in S : Before(d, c)}) < Cap}

\* Mutant of RankAll: what was skipped is counted outside the test.
RankAllCounting ==
  /\ pc = "rank"
  /\ rep' = [rep EXCEPT !.health = Overall,
                        !.deepTruncated = Cardinality(candidates) > Cap,
                        !.deepSkipped = Cardinality(candidates) - Cap]
  /\ candidates' = Chosen(candidates)
  /\ todo' = Chosen(candidates)
  /\ pc' = IF candidates = {} THEN "done" ELSE "launch"
  /\ UNCHANGED <<listed, failed, shown, worker, result, ch, received, enriched, over>>

RankAll ==
  /\ pc = "rank"
  /\ rep' = [rep EXCEPT !.health = Overall,
                        !.deepTruncated = Cardinality(candidates) > Cap,
                        !.deepSkipped = IF Cardinality(candidates) > Cap
                                          THEN Cardinality(candidates) - Cap ELSE 0]
  /\ candidates' = Chosen(candidates)
  /\ todo' = Chosen(candidates)
  /\ pc' = IF candidates = {} THEN "done" ELSE "launch"
  /\ UNCHANGED <<listed, failed, shown, worker, result, ch, received, enriched, over>>

----------------------------------------------------------------------------
(* The deep diagnoses.                                                     *)

\* The goroutines that hold a place in the gate.
InGate == {o \in Objects : worker[o] \in {"run", "send", "release"}}

\* The handler waits for a place in the gate and starts the next goroutine.
Launch(o) ==
  /\ pc = "launch" /\ o \in todo
  /\ \A p \in todo \ {o} : Before(o, p)
  /\ Cardinality(InGate) < Gate
  /\ todo' = todo \ {o}
  /\ worker' = [worker EXCEPT ![o] = "run"]
  /\ UNCHANGED <<pc, listed, failed, shown, rep, candidates, result, ch, received,
                 enriched, over>>

\* The goroutine diagnoses, unless the context is done.
Deep(o) ==
  /\ worker[o] = "run"
  /\ worker' = [worker EXCEPT ![o] = "send"]
  /\ \E cat \in Categories \cup {None} :
       /\ over => cat = None
       /\ result' = [result EXCEPT ![o] = [obj |-> o, cat |-> cat]]
  /\ UNCHANGED <<pc, listed, failed, shown, rep, candidates, todo, ch, received,
                 enriched, over>>

\* Mutant of Send: the channel has no buffer.
SendUnbuffered(o) ==
  /\ worker[o] = "send"
  /\ pc = "launch" /\ todo = {} /\ ch = <<>>
  /\ ch' = Append(ch, result[o])
  /\ worker' = [worker EXCEPT ![o] = "release"]
  /\ UNCHANGED <<pc, listed, failed, shown, rep, candidates, todo, result, received,
                 enriched, over>>

\* The channel has room for every candidate.
Send(o) ==
  /\ worker[o] = "send"
  /\ Len(ch) < Cardinality(candidates)
  /\ ch' = Append(ch, result[o])
  /\ worker' = [worker EXCEPT ![o] = "release"]
  /\ UNCHANGED <<pc, listed, failed, shown, rep, candidates, todo, result, received,
                 enriched, over>>

Release(o) ==
  /\ worker[o] = "release"
  /\ worker' = [worker EXCEPT ![o] = "gone"]
  /\ UNCHANGED <<pc, listed, failed, shown, rep, candidates, todo, result, ch, received,
                 enriched, over>>

\* Mutant of Key: the namespace is left out.
KeyNoNamespace(kind, ns, name) == <<kind, name>>

Key(kind, ns, name) == <<kind, ns, name>>

\* A result is kept under the kind of its candidate; it is looked up under the
\* kind of the issue, which for a claim is "PVC".
ResultKey(o) == Key(o.kind, o.ns, o.name)
IssueKey(o) ==
  Key(IF o.kind = "PersistentVolumeClaim" THEN "PVC" ELSE o.kind, o.ns, o.name)

\* The handler takes a result; one of the same key is replaced.
Receive ==
  /\ pc = "launch" /\ todo = {} /\ ch # <<>>
  /\ enriched' = {r \in enriched : ResultKey(r.obj) # ResultKey(Head(ch).obj)}
                   \cup {Head(ch)}
  /\ ch' = Tail(ch)
  /\ received' = received + 1
  /\ UNCHANGED <<pc, listed, failed, shown, rep, candidates, todo, worker, result, over>>

\* The category an issue is given, or None.
CauseOf(o) ==
  LET found == {r \in enriched : ResultKey(r.obj) = IssueKey(o)}
  IN IF found = {} THEN None ELSE (CHOOSE r \in found : TRUE).cat

\* All results are in: the critical issues are enriched and the report returned.
Enrich ==
  /\ pc = "launch" /\ todo = {} /\ received = Cardinality(candidates)
  /\ rep' = [rep EXCEPT !.cause =
       [o \in Objects |-> IF o \in rep.critical THEN CauseOf(o) ELSE None]]
  /\ pc' = "done"
  /\ UNCHANGED <<listed, failed, shown, deepVars, over>>

ContextEnds ==
  /\ ~over /\ over' = TRUE
  /\ UNCHANGED <<pc, listed, failed, shown, rep, deepVars>>

Handler == ListNext \/ RankAll \/ (\E o \in Objects : Launch(o)) \/ Receive \/ Enrich
Worker(o) == Deep(o) \/ Send(o) \/ Release(o)

Next == Handler \/ (\E o \in Objects : Worker(o)) \/ ContextEnds

Spec == Init /\ [][Next]_vars

\* Lists and diagnoses return: each request runs under the call's timeout.
FairSpec == Spec /\ WF_vars(Handler) /\ \A o \in Objects : WF_vars(Worker(o))
=============================================================================
