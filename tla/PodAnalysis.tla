---------------------------- MODULE PodAnalysis ----------------------------
(***************************************************************************)
(* What a diagnosis reads about a pod and what it makes of it:             *)
(* internal/diagnostic/pod.go, and diagnosePod and loadPodDeps of          *)
(* engine.go.                                                              *)
(*                                                                         *)
(* A pod is a record:                                                      *)
(*   name, owner (the name of what owns it), phase, assigned (whether it    *)
(*   has a node), containers (a sequence of them, the init containers       *)
(*   first), conditions (a set of [type, status, text]), ports (a set of    *)
(*   [name, number]), refs (a sequence of [of, name, key, projected], what  *)
(*   its spec refers to), requests ([cpu, memory]), selector (a set of     *)
(*   <<label, value>>), terms (the sequence of those of its node affinity; *)
(*   none, no affinity), tolerations, unsupported (the texts about the      *)
(*   constraints the analysis does not evaluate), and `there', what the API *)
(*   server has for each of the reads.                                      *)
(* A container is [waiting, text, exited, failed, lastOOM, restarts,       *)
(* ready, init, probes]; waiting and exited are reasons, or "".            *)
(***************************************************************************)
EXTENDS Evidence

Elements(seq) == {seq[i] : i \in DOMAIN seq}

\* A function, and beside it what another says of the rest.  (`@@' is the same, and the
\* provers do not know it.)
Beside(f, g) == [x \in DOMAIN f \cup DOMAIN g |-> IF x \in DOMAIN f THEN f[x] ELSE g[x]]

\* A read is a pair: of what, and of which one, if there are several.
The(what) == <<what, "">>

----------------------------------------------------------------------------
(* The pod's own status.                                                   *)

ContainerSignals(p, c) ==
  LET Tell(reason, text, severity) ==
        Signal("STATUS", reason, text \cup {"container"}, severity, p.name)
  IN When(c.waiting # "", {Tell(c.waiting, c.text \cup KeywordsOf(c.waiting), "critical")})
     \cup When(c.failed,
            {Tell(IF c.exited = "" THEN "Error" ELSE c.exited, KeywordsOf(c.exited), "critical")})
     \cup When(c.lastOOM, {Tell("OOMKilled", {"oomkill"}, "critical")})
     \cup When(c.restarts > 0,
            {Tell("Restarts", {}, IF c.restarts > 5 THEN "critical" ELSE "warning")})

StatusSignals(p) ==
  (UNION {ContainerSignals(p, c) : c \in Elements(p.containers)}) \cup
  {Signal("CONDITION", c.type, c.text \cup KeywordsOf(c.type) \cup {"false"}, "warning", p.name) :
     c \in {d \in p.conditions : d.status = "False"}}

\* probeSignals: a probe that is not configured has not failed, and one is
\* only said to have if the status tells so.
ProbeSignals(p) ==
  LET hints == UNION {c.text : c \in p.conditions}
      failed == {k \in {"readiness", "liveness", "startup"} :
        \E c \in Elements(p.containers) :
          /\ ~c.init /\ k \in c.probes
          /\ IF k = "readiness" THEN p.phase = "Running" /\ ~c.ready ELSE k \in hints}
      Reason == [readiness |-> "READINESS_PROBE_FAILED", liveness |-> "LIVENESS_PROBE_FAILED",
                 startup |-> "STARTUP_PROBE_FAILED"]
  IN {Signal("STATUS", Reason[k], {"container", "probe", k}, "warning", p.name) : k \in failed}

\* SelectFailingContainer: the one whose logs are read, or none.
FailingContainer(p) ==
  LET bad == {i \in DOMAIN p.containers :
                p.containers[i].waiting \notin {"", "PodInitializing"} \/ p.containers[i].failed}
      main == {i \in DOMAIN p.containers : ~p.containers[i].init}
      FirstOf(I) == {p.containers[i] : i \in {j \in I : \A k \in I : j <= k}}
  IN IF bad # {} THEN FirstOf(bad) ELSE FirstOf(main)

----------------------------------------------------------------------------
(* scheduleSignals: why no node takes the pod.                             *)

\* labelsMatch.
LabelsMatch(selector, labels) == selector \subseteq labels

\* nodeAffinityMatches, of one expression: Gt and Lt match nothing.
ExprMatches(e, n) ==
  CASE e.op = "In" -> \E v \in e.values : <<e.key, v>> \in n.labels
    [] e.op = "NotIn" -> ~\E v \in e.values : <<e.key, v>> \in n.labels
    [] e.op = "Exists" -> \E l \in n.labels : l[1] = e.key
    [] e.op = "DoesNotExist" -> ~\E l \in n.labels : l[1] = e.key
    [] e.op \in {"Gt", "Lt"} -> FALSE
\* A term: its expressions, the node names it allows (all of them if it says
\* nothing) and whether it tests another field.
TermMatches(t, n) ==
  (\A e \in t.exprs : ExprMatches(e, n)) /\ n.name \in t.nodes /\ ~t.otherField
\* Whether a term that tests another field comes before the first that matches;
\* the node then counts as unsupported even if a term matches.
Undecided(p, n) ==
  \E i \in DOMAIN p.terms :
    p.terms[i].otherField /\ \A j \in 1..(i - 1) : ~TermMatches(p.terms[j], n)
Affine(p, n) == p.terms = <<>> \/ \E i \in DOMAIN p.terms : TermMatches(p.terms[i], n)

\* tolerates: a toleration without an operator asks for the key only.
Tolerates(tol, t) ==
  /\ tol.key \in {"", t.key} /\ tol.effect \in {"", t.effect}
  /\ tol.op = "Equal" => tol.value = t.value
\* taintBlocks.
TaintBlocks(p, n) ==
  \E t \in n.taints : /\ t.effect \in {"NoSchedule", "NoExecute"}
                      /\ ~\E tol \in p.tolerations : Tolerates(tol, t)

\* The reasons a node is not eligible for, those that name a cause first, in
\* the order a tie is decided by.
Obstacles ==
  <<"INSUFFICIENT_CPU", "INSUFFICIENT_MEMORY", "NODE_AFFINITY_MISMATCH",
    "NODE_SELECTOR_MISMATCH", "TAINT_NOT_TOLERATED",
    "UNSUPPORTED_SCHEDULER_CONSTRAINT", "NO_ELIGIBLE_NODE">>
Class(i) == IF i <= 5 THEN 2 ELSE IF i = 6 THEN 1 ELSE 0

\* How often node n counts for the obstacle.
Blocks(p, n, obstacle) ==
  CASE obstacle = "INSUFFICIENT_CPU" -> IF p.requests.cpu > n.cpu THEN 1 ELSE 0
    [] obstacle = "INSUFFICIENT_MEMORY" -> IF p.requests.memory > n.memory THEN 1 ELSE 0
    [] obstacle = "NODE_SELECTOR_MISMATCH" -> IF LabelsMatch(p.selector, n.labels) THEN 0 ELSE 1
    [] obstacle = "NODE_AFFINITY_MISMATCH" ->
         IF ~Affine(p, n) /\ ~Undecided(p, n) THEN 1 ELSE 0
    [] obstacle = "UNSUPPORTED_SCHEDULER_CONSTRAINT" ->
         IF Undecided(p, n) THEN 1 ELSE 0
    [] obstacle = "TAINT_NOT_TOLERATED" -> IF TaintBlocks(p, n) THEN 1 ELSE 0
    [] obstacle = "NO_ELIGIBLE_NODE" ->
         (IF n.conditions.Ready = "False" THEN 1 ELSE 0) + (IF n.cordoned THEN 1 ELSE 0)

Count(p, nodes, obstacle) ==
  Cardinality({n \in nodes : Blocks(p, n, obstacle) >= 1})
    + Cardinality({n \in nodes : Blocks(p, n, obstacle) = 2})

Eligible(p, n) == \A i \in DOMAIN Obstacles : Blocks(p, n, Obstacles[i]) = 0

\* The reason given when no node is eligible: of the best class, then of the
\* most nodes, then the first.
Dominant(p, nodes) ==
  LET N(i) == Count(p, nodes, Obstacles[i])
      met == {i \in DOMAIN Obstacles : N(i) > 0}
      Before(i, j) == \/ Class(i) > Class(j)
                      \/ Class(i) = Class(j) /\ (N(i) > N(j) \/ (N(i) = N(j) /\ i <= j))
  IN IF met = {} THEN "NO_ELIGIBLE_NODE"
     ELSE Obstacles[CHOOSE i \in met : \A j \in met : Before(i, j)]

Unscheduled(p) == p.phase = "Pending" /\ ~p.assigned

ScheduleSignals(p, answer) ==
  IF ~Unscheduled(p) THEN {}
  ELSE {Signal("SCHEDULER", "UNSUPPORTED_SCHEDULER_CONSTRAINT", text, "critical", p.name) :
          text \in p.unsupported} \cup
       (IF answer.kind # "found"
          THEN {Signal("SCHEDULER", "NO_ELIGIBLE_NODE", {"schedul"}, "critical", p.name)}
        ELSE {Signal("SCHEDULER", r, KeywordsOf(r), "critical", p.name) :
                r \in IF \E n \in answer.value : Eligible(p, n) THEN {}
                      ELSE {Dominant(p, answer.value)}})

----------------------------------------------------------------------------
(* What it depends on.                                                     *)

Dependency(p, reason, text) == Signal("DEPENDENCY", reason, text, "critical", p.name)

\* Mutant of RefSignals: what could not be read is taken for missing.
RefSignalsUnread(p, r, answer) ==
  IF answer.kind = "found" THEN {} ELSE {Dependency(p, "MISSING_CONFIGMAP", {})}

\* loadPodDeps and depSignals, of one thing the pod refers to: what could not be
\* read is not missing.  A projected volume is read and not judged.
RefSignals(p, r, answer) ==
  IF answer.kind = "failed" \/ r.projected THEN {}
  ELSE IF r.of = "pvc"
    THEN IF answer.kind = "absent" THEN {Dependency(p, "PVC_NOT_FOUND", {"pvc", "not found"})}
         ELSE IF answer.value # "Bound" THEN {Dependency(p, "PVC_PENDING", {"pvc", "pending"})}
         ELSE {}
  ELSE IF answer.kind = "absent" \/ (r.key # "" /\ r.key \notin answer.value)
    THEN {CASE r.of = "configmap" -> Dependency(p, "MISSING_CONFIGMAP", {"not found"})
            [] r.of = "secret" -> Dependency(p, "MISSING_SECRET", {"secret", "not found"})
            [] r.of = "pull" -> Dependency(p, "MISSING_SECRET",
                                  {"secret", "imagepull", "image", "not found"})
            [] r.of = "account" -> Dependency(p, "MISSING_SERVICE_ACCOUNT", {"not found"})}
  ELSE {}

\* nodeConditionSignals, and a cordoned node.
NodeSignals(p, n) ==
  {Signal("CONDITION", t, KeywordsOf(t) \cup n.text \cup {"node"}
            \cup (IF n.conditions[t] = "False" THEN {"false"} ELSE {}), "critical", p.name) :
     t \in {u \in DOMAIN n.conditions : (u = "Ready") # (n.conditions[u] = "True")
                                        \/ n.conditions[u] = "Unknown"}} \cup
  When(n.cordoned, {Signal("SCHEDULER", "unschedulable", {"node", "schedul"}, "warning", p.name)})

----------------------------------------------------------------------------
(* diagnosePod.                                                            *)

\* What is read: set after set, and what is in one set in any order.  The graph of a
\* pod is built without reading.
PodPlan(p) ==
  <<{The("events")},
    When(p.assigned, {The("node")}),
    When(p.assigned, {The("node_events")}),
    When(Unscheduled(p), {The("nodes")}),
    {<<r.of, r.name>> : r \in Elements(p.refs)},
    When(FailingContainer(p) # {}, {The("logs")}),
    When(\E c \in FailingContainer(p) : ~c.init /\ c.restarts > 0, {The("previous_logs")}),
    {The("metrics")}>>
PodReads(p) == UNION Elements(PodPlan(p))

\* Mutant of PodRecorded: a dependency that could not be read is not recorded.
PodRecordedNodes(p) == {The("node"), The("nodes")}
\* The reads whose failure the visibility records.
PodRecorded(p) ==
  {The("node"), The("nodes")} \cup {<<r.of, r.name>> : r \in Elements(p.refs)}

\* The signals, of what was read.
PodSignals(p, got) ==
  LET Found(read) == read \in DOMAIN got /\ got[read].kind = "found"
  IN StatusSignals(p) \cup ProbeSignals(p)
     \cup When(Unscheduled(p), ScheduleSignals(p, got[The("nodes")]))
     \cup (UNION {RefSignals(p, r, got[<<r.of, r.name>>]) : r \in Elements(p.refs)})
     \cup When(Found(The("node")), NodeSignals(p, got[The("node")].value))
     \cup EventsOrWarning(got[The("events")], p.name)
     \cup When(p.assigned, EventsOrWarning(got[The("node_events")], "node"))
     \cup (UNION {LogSignals(got[l].value, p.name) :
                    l \in {m \in {The("logs"), The("previous_logs")} : Found(m)}})
     \cup When(Found(The("metrics")) /\ got[The("metrics")].value,
            {Signal("METRIC", "high_memory", {}, "warning", p.name)})

----------------------------------------------------------------------------
(* Answers.  An object carries `there', what the API server has for each   *)
(* read of its diagnosis; another key is of an object that is not there.   *)

AnswerTo(o, read, fails) ==
  IF fails THEN [kind |-> "failed", value |-> {}]
  ELSE IF read \in DOMAIN o.there THEN [kind |-> "found", value |-> o.there[read]]
  ELSE [kind |-> "absent", value |-> {}]

\* What a diagnosis of p may have read: any of its reads may fail.
PodReadings(p) ==
  {[r \in PodReads(p) |-> AnswerTo(p, r, r \in F)] : F \in SUBSET PodReads(p)}

----------------------------------------------------------------------------
(* Pods as the workloads see them.                                         *)

\* UnhealthyPod looks at the containers, not at the init containers.
UnhealthyPod(p) ==
  /\ p.phase # "Succeeded"
  /\ \/ p.phase # "Running"
     \/ \E c \in Elements(p.containers) :
          ~c.init /\ (~c.ready \/ c.restarts > 5 \/ c.waiting # "")

\* DominantWaiting.
DominantWaiting(p) ==
  LET told == {i \in DOMAIN p.containers : p.containers[i].waiting # "" \/ p.containers[i].exited # ""}
      c == p.containers[CHOOSE i \in told : \A j \in told : i <= j]
  IN IF told = {} THEN p.phase
     ELSE IF c.waiting # "" THEN c.waiting ELSE c.exited

\* waitingMessage: what the first container that waits says of it.
WaitingMessage(p) ==
  LET waiting == {i \in DOMAIN p.containers : p.containers[i].waiting # ""}
  IN UNION {p.containers[i].text \cup KeywordsOf(p.containers[i].waiting) :
              i \in {j \in waiting : \A k \in waiting : j <= k}}

\* sigsFromResp: the evidence of a pod's diagnosis, in that of what owns it:
\* every piece is a warning, without its reason, and its category is Pod.
Nested(signals) == {Signal(s.source, "", s.text \ {"Job"}, "warning", s.about) : s \in signals}

\* The diagnosis of a pod among those of a workload.
DeepSignals(p, got) == Nested(PodSignals(p, got))
=============================================================================
