---------------------------- MODULE ResourceGraph ----------------------------
(***************************************************************************)
(* The graph of what an object owns and uses: internal/graph/graph.go,     *)
(* dependencies.go and owners.go.                                          *)
(*                                                                         *)
(* An object is a record with kind, name and `there', what the API server  *)
(* has for each read that is about it.  What belongs to it says so in its  *)
(* `owner', which is a name here and a UID in the code.  A Builder makes   *)
(* several requests; `lost' is the set of those that failed.               *)
(***************************************************************************)
EXTENDS PodAnalysis, SequencesExt

CONSTANTS MaxGraphDepth, MaxGraphNodes   \* graph.Limits; 0 is "no limit"

ASSUME GraphAssumption == MaxGraphDepth \in Nat /\ MaxGraphNodes \in Nat

\* Those that belong to the owner.
Owned(seq, owner) == {x \in Elements(seq) : x.owner = owner}

\* A node that has a UID, and one that is only named.
Known(kind, name) == [kind |-> kind, name |-> name, uid |-> TRUE]
Named(kind, name) == [kind |-> kind, name |-> name, uid |-> FALSE]

\* New: `truncation' is the reason of the first truncation, or "".
NewGraph(root) == [root |-> root, nodes |-> {root}, edges |-> {}, truncation |-> ""]

\* AddEdge of each of the edges, with AddNode of their ends: what is only named is not added
\* beside one of that name.
AddEdges(g, edges) ==
  [g EXCEPT
     !.nodes = @ \cup {n \in {e[2] : e \in edges} \cup {e[3] : e \in edges} :
                         n.uid \/ ~\E m \in g.nodes : m.kind = n.kind /\ m.name = n.name},
     !.edges = @ \cup edges]

\* capReachedAt: whether a limit stands in the way at this depth, and the mark it leaves.
TooDeep(depth) == MaxGraphDepth > 0 /\ depth > MaxGraphDepth
Capped(g, depth) ==
  TooDeep(depth) \/ (MaxGraphNodes > 0 /\ Cardinality(g.nodes) >= MaxGraphNodes)
Truncate(g, depth) ==
  IF g.truncation # "" THEN g
  ELSE [g EXCEPT !.truncation = IF TooDeep(depth) THEN "max_depth" ELSE "max_nodes"]

----------------------------------------------------------------------------
(* Pods.                                                                   *)

RefNode(r) ==
  Named(CASE r.of = "configmap" -> "ConfigMap" [] r.of \in {"secret", "pull"} -> "Secret"
          [] r.of = "account" -> "ServiceAccount" [] r.of = "pvc" -> "PersistentVolumeClaim", r.name)

\* fromPodSpec.
SpecEdges(owner, spec) ==
  {<<"USES", owner, n>> :
     n \in When(spec.assigned, {Named("Node", "node")}) \cup {RefNode(r) : r \in Elements(spec.refs)}}

Own(owner, node) == {<<"OWNS", owner, node>>, <<"OWNED_BY", node, owner>>}
PodEdges(owner, p) ==
  LET pod == Known("Pod", p.name) IN Own(owner, pod) \cup SpecEdges(pod, p)

\* Mutant of AddPods: the loop ends at the cap without a mark.
AddPodsSilently(g, owner, pods, depth) ==
  LET mine == {i \in DOMAIN pods : pods[i].owner = owner.name}
      Adding(those) == AddEdges(g, UNION {PodEdges(owner, pods[i]) : i \in those})
  IN Adding({i \in mine : ~Capped(Adding({j \in mine : j < i}), depth)})

\* addPodsByOwner: the loop ends before the first pod that meets the cap.
AddPods(g, owner, pods, depth) ==
  LET mine == {i \in DOMAIN pods : pods[i].owner = owner.name}
      Adding(those) == AddEdges(g, UNION {PodEdges(owner, pods[i]) : i \in those})
      added == {i \in mine : ~Capped(Adding({j \in mine : j < i}), depth)}
  IN IF added = mine THEN Adding(mine) ELSE Truncate(Adding(added), depth)

----------------------------------------------------------------------------
(* The builders: the graph, and whether they ended early, with an error or *)
(* without.                                                                *)

Root(o) == Known(o.kind, o.name)
Fresh(o, failed) == [graph |-> NewGraph(Root(o)), failed |-> failed, ended |-> failed]
Ended(b, failed) == [b EXCEPT !.ended = TRUE, !.failed = failed]
Goes(b, graph) == [b EXCEPT !.graph = graph]

\* linkHPA and linkPDB: those that are about the object.
Link(b, o, what, kind, lost) ==
  IF what \in lost THEN b
  ELSE Goes(b, AddEdges(b.graph, {<<"LINKED", Root(o), Known(kind, n)>> : n \in Elements(o.there[what])}))

\* One turn of the loop over the ReplicaSets.
AddSet(b, o, set, lost) ==
  LET node == Known("ReplicaSet", set.name)
      with == AddEdges(b.graph, Own(Root(o), node))
  IN IF b.ended \/ set.owner # o.name THEN b
     ELSE IF Capped(b.graph, 1) THEN Ended(Goes(b, Truncate(b.graph, 1)), FALSE)
     ELSE IF <<"pods", set.name>> \in lost THEN Ended(Goes(b, with), TRUE)
     ELSE Goes(b, AddPods(with, node, o.there[The("pods")], 2))

\* The builder before the loop and after each turn of it.
SetsLoop(o, lost) ==
  LET sets == o.there[The("replicasets")]
      turn[i \in 0 .. Len(sets)] ==
        IF i = 0 THEN Fresh(o, The("replicasets") \in lost) ELSE AddSet(turn[i - 1], o, sets[i], lost)
  IN turn

\* Builder.Deployment: the cap ends it, and so does a failed list, except that of the HPAs.
DeploymentGraph(o, lost) ==
  LET b == SetsLoop(o, lost)[Len(o.there[The("replicasets")])]
      used == Link(Goes(b, AddEdges(b.graph, SpecEdges(Root(o), o.template))), o, The("hpas"),
                   "HorizontalPodAutoscaler", lost)
  IN IF b.ended THEN b
     ELSE IF The("pdbs") \in lost THEN Ended(used, TRUE)
     ELSE Link(used, o, The("pdbs"), "PodDisruptionBudget", lost)

\* A claim of a StatefulSet, with the volume and the class it names.
ClaimEdges(o, claim) ==
  LET node == Known("PersistentVolumeClaim", claim.name)
      backed == When(claim.volume # "", {Named("PersistentVolume", claim.volume)})
                \cup When(claim.class # "", {Named("StorageClass", claim.class)})
  IN {<<"USES", Root(o), node>>} \cup {<<"BACKED_BY", node, n>> : n \in backed}

\* Builder.StatefulSet: only the pods' list ends it.
StatefulSetGraph(o, lost) ==
  LET b == Fresh(o, The("pods") \in lost)
      pods == AddPods(b.graph, Root(o), o.there[The("pods")], 1)
      spec == AddEdges(pods, SpecEdges(Root(o), o.template))
      claims == IF The("claims") \in lost THEN spec
                ELSE AddEdges(spec, UNION {ClaimEdges(o, c) : c \in Owned(o.there[The("claims")], o.name)})
  IN IF b.ended THEN b ELSE Link(Goes(b, claims), o, The("hpas"), "HorizontalPodAutoscaler", lost)

\* Builder.DaemonSet and Builder.Job, which has no template to look at.
PodOwnerGraph(o, lost) ==
  LET b == Fresh(o, The("pods") \in lost)
      pods == AddPods(b.graph, Root(o), o.there[The("pods")], 1)
  IN IF b.ended THEN b
     ELSE Goes(b, IF o.kind = "DaemonSet" THEN AddEdges(pods, SpecEdges(Root(o), o.template)) ELSE pods)

\* Builder.CronJob: its jobs are added without a look at the cap.
AddJob(b, o, job, lost) ==
  LET with == AddEdges(b.graph, {<<"OWNS", Root(o), Root(job)>>})
  IN IF b.ended \/ job.owner # o.name THEN b
     ELSE IF <<"pods", job.name>> \in lost THEN Ended(Goes(b, with), TRUE)
     ELSE Goes(b, AddPods(with, Root(job), job.there[The("pods")], 2))
CronJobGraph(o, lost) ==
  LET jobs == o.there[The("jobs")]
      turn[i \in 0 .. Len(jobs)] ==
        IF i = 0 THEN Fresh(o, The("jobs") \in lost) ELSE AddJob(turn[i - 1], o, jobs[i], lost)
  IN turn[Len(jobs)]

\* Builder.Service: its pods and slices are added without a look at the cap.
ServiceGraph(o, lost) ==
  LET b == Fresh(o, o.selects /\ The("pods") \in lost)
      Pod(p) == Known("Pod", p.name)
      pods == AddEdges(b.graph, UNION {{<<"SELECTS", Root(o), Pod(p)>>, <<"EXPOSED_BY", Pod(p), Root(o)>>}
                                       \cup SpecEdges(Pod(p), p) : p \in Elements(o.there[The("pods")])})
  IN IF b.ended \/ ~o.selects THEN b
     ELSE IF The("slices") \in lost THEN Ended(Goes(b, pods), TRUE)
     ELSE Goes(b, AddEdges(pods, {<<"HAS_ENDPOINT", Root(o), Known("EndpointSlice", s.name)>> :
                                    s \in Elements(o.there[The("slices")])}))

\* Builder.Ingress makes no request.  (Nor does Builder.Pod, whose graph tells of no cap.)
IngressGraph(o) ==
  [Fresh(o, FALSE) EXCEPT !.graph =
     AddEdges(@, {<<"ROUTED_BY", Named("Service", k.service), Root(o)>> : k \in Elements(o.backends)})]

----------------------------------------------------------------------------
\* The requests of the builder of an object, and what it builds without some of them.
GraphRequests(o) ==
  CASE o.kind = "Deployment" ->
         {The("replicasets"), The("hpas"), The("pdbs")}
         \cup {<<"pods", s.name>> : s \in Owned(o.there[The("replicasets")], o.name)}
    [] o.kind = "StatefulSet" -> {The("pods"), The("claims"), The("hpas")}
    [] o.kind \in {"DaemonSet", "Job"} -> {The("pods")}
    [] o.kind = "CronJob" ->
         {The("jobs")} \cup {<<"pods", j.name>> : j \in Owned(o.there[The("jobs")], o.name)}
    [] o.kind = "Service" -> IF o.selects THEN {The("pods"), The("slices")} ELSE {}
    [] o.kind = "Ingress" -> {}

GraphOf(o, lost) ==
  CASE o.kind = "Deployment" -> DeploymentGraph(o, lost)
    [] o.kind = "StatefulSet" -> StatefulSetGraph(o, lost)
    [] o.kind \in {"DaemonSet", "Job"} -> PodOwnerGraph(o, lost)
    [] o.kind = "CronJob" -> CronJobGraph(o, lost)
    [] o.kind = "Service" -> ServiceGraph(o, lost)
    [] o.kind = "Ingress" -> IngressGraph(o)

GraphAnswer(o, lost) ==
  LET b == GraphOf(o, lost)
  IN [kind |-> IF b.failed THEN "failed" ELSE "found", value |-> b.graph]
=============================================================================
