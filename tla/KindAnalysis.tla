---------------------------- MODULE KindAnalysis ----------------------------
(***************************************************************************)
(* What a diagnosis reads about an object of each kind and what it answers: *)
(* the diagnose functions of internal/diagnostic/engine.go with the        *)
(* analyzers they call.                                                    *)
(*                                                                         *)
(* `got' is what has been read: read -> [kind, value], in the order of     *)
(* Plan.  "graph" is all of a Builder's requests, and a diagnosis of one   *)
(* of its pods (or jobs) is a read whose value is the evidence it gives.   *)
(***************************************************************************)
EXTENDS ResourceGraph

CONSTANT MaxDeepPods   \* Config.MaxDeepPods

ASSUME KindAssumption == MaxDeepPods \in Nat

\* deepPodSignals: a cap of zero becomes eight.
DeepCap == IF MaxDeepPods = 0 THEN 8 ELSE MaxDeepPods

Found(got, read) == read \in DOMAIN got /\ got[read].kind = "found"
ListOf(got, what) == IF Found(got, The(what)) THEN got[The(what)].value ELSE <<>>

----------------------------------------------------------------------------
(* The pods and jobs that are diagnosed with what owns them.               *)

\* CurrentReplicaSets: those of the highest revision.
CurrentSets(o, sets) ==
  {s \in Owned(sets, o.name) : \A t \in Owned(sets, o.name) : t.revision <= s.revision}

\* The pods an object is judged by.
Judges(o, got, p) ==
  CASE o.kind = "Deployment" ->
         \E s \in CurrentSets(o, ListOf(got, "replicasets")) : s.name = p.owner
    [] o.kind \in {"StatefulSet", "DaemonSet"} -> p.owner = o.name
    [] o.kind \in {"Job", "Service"} -> TRUE
Pods(o, got) == {p \in Elements(ListOf(got, "pods")) : Judges(o, got, p)}
UnhealthyOf(o, got) == {p \in Pods(o, got) : UnhealthyPod(p)}

\* Of those items of the list, the first n.
UpTo(n, list, those) ==
  {list[i] : i \in {j \in DOMAIN list :
     list[j] \in those /\ Cardinality({k \in 1..(j - 1) : list[k] \in those}) < n}}

\* deepPodSignals: the first of the unhealthy pods; of a Job, of all of them.  Of a
\* CronJob, diagnoseCron: the first of its jobs.
Deep(o, got) ==
  CASE o.kind = "CronJob" -> LET jobs == ListOf(got, "jobs") IN UpTo(DeepCap, jobs, Owned(jobs, o.name))
    [] o.kind = "Job" -> UpTo(DeepCap, ListOf(got, "pods"), Pods(o, got))
    [] OTHER -> UpTo(DeepCap, ListOf(got, "pods"), UnhealthyOf(o, got))
Diagnosis(item) == <<"diagnosis", item.name>>

----------------------------------------------------------------------------
(* Signals.                                                                *)

Tell(o, source, reason, text, severity) ==
  Signal(source, reason, text, severity, o.name)

\* The evidence of those of the pods that the analyzer looks at.
DeepOf(pods, got) ==
  UNION {IF Diagnosis(p) \in DOMAIN got THEN got[Diagnosis(p)].value ELSE {} : p \in pods}

Short(o, reason, text) ==
  When(o.ready < o.desired,
    {Tell(o, "STATUS", reason, text, IF o.ready = 0 THEN "critical" ELSE "warning")})

\* DiagnoseDeployment: how often each reason is given for an unhealthy pod.  Nested
\* evidence has lost its reason.
ReasonOf(p, got) == IF DeepOf({p}, got) = {} THEN DominantWaiting(p) ELSE ""
Sharing(o, got, reason) == {p \in UnhealthyOf(o, got) : ReasonOf(p, got) = reason}

\* Mutant of Majorities: no reason is aggregated.
MajoritiesNone(o, got) == {""}

\* The reasons that may come out as that of most pods: a tie is decided by the
\* iteration of a map.
Majorities(o, got) ==
  LET reasons == {ReasonOf(p, got) : p \in UnhealthyOf(o, got)}
  IN IF reasons = {} THEN {""}
     ELSE {r \in reasons : \A q \in reasons :
             Cardinality(Sharing(o, got, q)) <= Cardinality(Sharing(o, got, r))}

\* waitingMessageFor: of the pods, the first whose dominant reason it is, unhealthy or not.
WaitingMessageFor(o, got, reason) ==
  LET pods == ListOf(got, "pods")
      those == {i \in DOMAIN pods : Judges(o, got, pods[i]) /\ DominantWaiting(pods[i]) = reason}
  IN UNION {WaitingMessage(pods[i]) : i \in {j \in those : \A k \in those : j <= k}}

DeploymentSignals(o, got, majority) ==
  {Tell(o, "STATUS", "replica_status", {}, "info")}
  \cup Short(o, "InsufficientReplicas", {})
  \cup {Tell(o, "STATUS", c.reason, c.text \cup {"false"}, "critical") :
          c \in {d \in o.conditions : d.status = "False"}}
  \cup {Tell(o, "STATUS", c.reason, c.text, "critical") :
          c \in {d \in o.conditions : d.reason = "ProgressDeadlineExceeded"}}
  \cup DeepOf(UnhealthyOf(o, got), got)
  \cup When(majority # "", {Tell(o, "STATUS", majority, WaitingMessageFor(o, got, majority), "critical")})

\* DiagnoseStatefulSet.
StatefulSetSignals(o, got) ==
  {Tell(o, "STATUS", "replica_status", {}, "info")}
  \cup Short(o, "InsufficientReplicas", {})
  \cup When(o.updating /\ o.ready < o.desired,
         {Tell(o, "STATUS", "revision_mismatch", {}, "warning")})
  \cup When(\E c \in Owned(ListOf(got, "claims"), o.name) : c.phase # "Bound",
         {Tell(o, "STATUS", "PVC_PENDING", {}, "critical")})
  \cup DeepOf(UnhealthyOf(o, got), got)

\* DiagnoseDaemonSet.
DaemonSetSignals(o, got) ==
  {Tell(o, "STATUS", "daemonset_status", {"schedul"}, "info")}
  \cup Short(o, "InsufficientNodes", {})
  \cup When(o.misscheduled, {Tell(o, "STATUS", "Misscheduled", {"schedul"}, "warning")})
  \cup DeepOf(UnhealthyOf(o, got), got)

\* DiagnoseJob; `failures' are the reasons of its conditions Failed.
JobReason(reason) ==
  CASE reason = "BackoffLimitExceeded" -> "BACKOFF_LIMIT_EXCEEDED"
    [] reason = "DeadlineExceeded" -> "JOB_TIMEOUT"
    [] OTHER -> "JOB_POD_FAILED"
JobSignals(o, got) ==
  LET Say(reason, text, severity) == Tell(o, "STATUS", reason, text \cup {"Job"}, severity)
  IN {Say("job_status", {"failed", "backofflimit"}, "info")}
     \cup {Say(JobReason(r), {}, "critical") : r \in o.failures}
     \cup When(o.failed > 0 /\ o.failures = {}, {Say("JOB_POD_FAILED", {"failed"}, "critical")})
     \cup DeepOf(Pods(o, got), got)

\* DiagnoseCronJob.
CronJobSignals(o, got) ==
  LET jobs == Owned(ListOf(got, "jobs"), o.name)
      failed == {j \in jobs : j.failures # {}}
      Say(reason, text, severity) == Tell(o, "STATUS", reason, text, severity)
  IN {Say("cronjob_status", {"schedul"}, "info")}
     \cup When(o.forbid /\ o.active > 1, {Say("concurrency_policy", {}, "warning")})
     \cup When(o.suspended, {Say("Suspended", {}, "warning")})
     \cup When(failed # {}, {Say("JOB_POD_FAILED", {"failed"}, "critical")})
     \cup DeepOf(jobs, got)
     \cup When(failed = {} /\ ~o.suspended /\ o.never, {Say("never_scheduled", {"schedul"}, "warning")})

\* EndpointReadyCount over the slices, or if they have none, the Endpoints.
Sum(seq, field) == FoldLeft(LAMBDA n, e : n + e[field], 0, seq)
Endpoints(slices, got) ==
  LET sliced == [total |-> Sum(slices, "total"), ready |-> Sum(slices, "ready")]
  IN IF sliced.total = 0 /\ Found(got, The("endpoints")) THEN got[The("endpoints")].value ELSE sliced

\* DiagnoseService: its idea of a ready pod.
Serving(p) ==
  LET main == {c \in Elements(p.containers) : ~c.init}
  IN p.phase = "Running" /\ main # {} /\ \A c \in main : c.ready

\* portMismatch, of one target port: a name, or else a number.
TargetMissing(o, t, p) ==
  IF t.name # ""
    THEN When(~\E q \in p.ports : q.name = t.name,
           {Tell(o, "NETWORK", "TARGET_PORT_NOT_FOUND", {"not found"}, "warning")})
    ELSE When(t.number # 0 /\ p.ports # {} /\ ~\E q \in p.ports : q.number = t.number,
           {Tell(o, "NETWORK", "SERVICE_PORT_MISMATCH", {}, "warning")})

ServiceSignals(o, got) ==
  LET pods == Pods(o, got)
      ends == Endpoints(ListOf(got, "slices"), got)
      Say(reason, severity) == Tell(o, "NETWORK", reason, {}, severity)
      none == Found(got, The("slices")) /\ ends.total = 0 /\ o.selects
  IN {Say("service_spec", "info")} \cup
     When(~o.external,
       When(~o.selects /\ ~o.headless, {Say("SERVICE_NO_SELECTOR", "warning")})
       \cup When(o.selects /\ pods = {}, {Say("SERVICE_NO_MATCHING_PODS", "critical")})
       \cup When(o.selects /\ pods # {} /\ ~\E p \in pods : Serving(p),
              {Say("SERVICE_NO_READY_PODS", "critical")})
       \cup When(o.selects, DeepOf({p \in pods : ~Serving(p)}, got)
              \cup UNION {TargetMissing(o, t, p) : t \in o.targets, p \in pods})
       \cup When(none, {Say("SERVICE_NO_ENDPOINTS", "critical")})
       \cup When(~none /\ ends.total > 0 /\ ends.ready = 0,
              {Say("SERVICE_NO_READY_ENDPOINTS", "critical")}))

\* DiagnoseIngress: of one backend, a Service and the port of it, by number or name.
\* What could not be read is not there.
BackendSignals(o, k, got) ==
  LET service == <<"service", k.service>>
      slices == <<"slices", k.service>>
      Say(reason) == {Tell(o, "NETWORK", reason, {}, "critical")}
      listed == IF Found(got, slices) THEN got[slices].value ELSE <<>>
  IN IF ~Found(got, service) THEN {Tell(o, "NETWORK", "INGRESS_BACKEND_MISSING", {"not found"}, "critical")}
     ELSE When(k.number # 0 /\ ~\E q \in got[service].value : q.number = k.number,
            Say("INGRESS_BACKEND_PORT_INVALID"))
          \cup When(k.port # "" /\ ~\E q \in got[service].value : q.name = k.port,
            Say("INGRESS_BACKEND_PORT_INVALID"))
          \cup When(Sum(listed, "ready") = 0, Say("INGRESS_NO_READY_ENDPOINTS"))
IngressSignals(o, got) ==
  {Tell(o, "NETWORK", "ingress_spec", {}, "info")}
  \cup When(o.class # "" /\ ~Found(got, The("class")),
         {Tell(o, "NETWORK", "INGRESS_CLASS_MISSING", {"not found"}, "warning")})
  \cup (UNION {BackendSignals(o, k, got) : k \in Elements(o.backends)})
  \cup {Tell(o, "NETWORK", "INGRESS_TLS_SECRET_MISSING", {"not found", "secret"}, "critical") :
          s \in {t \in Elements(o.tls) : ~Found(got, <<"tls", t>>)}}

\* DiagnosePVC: `gone' are the reads that left no object.
ClaimSignals(o, gone) ==
  {Tell(o, "STORAGE", "pvc_status", {"pvc", "storageclass"}, "info")}
  \cup When(o.phase = "Pending", {Tell(o, "STORAGE", "PVC_PENDING", {}, "critical")})
  \cup When(o.phase = "Lost", {Tell(o, "STORAGE", "PV_NOT_FOUND", {"not found"}, "critical")})
  \cup When(The("class") \in gone,
         {Tell(o, "STORAGE", "STORAGE_CLASS_NOT_FOUND", {"storageclass", "not", "not found"}, "critical")})
  \cup When(The("volume") \in gone, {Tell(o, "STORAGE", "PV_NOT_FOUND", {"not found"}, "warning")})

\* DiagnoseNode.
NodeStatusSignals(o) ==
  LET n == o.node
      fine == {t \in DOMAIN n.conditions : n.conditions[t] = (IF t = "Ready" THEN "True" ELSE "False")}
      Say(t, text, severity) ==
        Tell(o, "CONDITION", t, {"node"} \cup text
               \cup When(n.conditions[t] = "False", {"false"})
               \cup When(t = "Ready" /\ n.conditions[t] = "True", {"ready=true"}), severity)
  IN {Say(t, {}, "info") : t \in fine}
     \cup {Say(t, n.text, "critical") : t \in DOMAIN n.conditions \ fine}
     \cup When(n.cordoned, {Tell(o, "STATUS", "Cordoned", {"node", "unschedulable", "schedul"}, "warning")})
     \cup {Tell(o, "STATUS", "resources", {"node"}, "info")}

\* genericDiagnose.
GenericSignals(o) ==
  {Tell(o, "CONDITION", c.reason, c.text \cup When(c.status = "False", {"false"}), "warning") :
     c \in {d \in o.conditions : d.status = "False" \/ d.type = "Degraded"}}

----------------------------------------------------------------------------
(* Reading.                                                                *)

\* What is read, as far as it is known when `got' has been read: set after set, and what
\* is in one set in any order.
Plan(o, got) ==
  LET deep == {Diagnosis(i) : i \in Deep(o, got)}
      services == {k.service : k \in Elements(o.backends)}
      there == {s \in services : Found(got, <<"service", s>>)}
      events == {The("events")}
  IN CASE o.kind = "Pod" -> PodPlan(o)
       [] o.kind = "Deployment" -> <<{The("graph")}, {The("replicasets")}, {The("pods")}, deep, events>>
       [] o.kind = "StatefulSet" -> <<{The("graph")}, {The("pods")}, {The("claims")}, deep, events>>
       [] o.kind \in {"DaemonSet", "Job"} -> <<{The("graph")}, {The("pods")}, deep, events>>
       [] o.kind = "CronJob" -> <<{The("graph")}, {The("jobs")}, deep, events>>
       [] o.kind = "Service" ->
            <<{The("graph")}, When(o.selects, {The("pods")}), {The("slices")}, {The("endpoints")}, deep, events>>
       [] o.kind = "Ingress" ->
            <<{The("graph")}, {<<"service", s>> : s \in services}, {<<"slices", s>> : s \in there},
              {<<"tls", t>> : t \in Elements(o.tls)}, When(o.class # "", {The("class")}), events>>
       [] o.kind = "PersistentVolumeClaim" ->
            <<When(o.volume # "", {The("volume")}), When(o.class # "", {The("class")}), events>>
       [] o.kind = "Node" -> <<{The("pods")}, events, {The("metrics")}>>
       [] OTHER -> <<>>
Reads(o, got) == UNION Elements(Plan(o, got))

\* The evidence a pod's diagnosis may come to; with `late' the context of the call
\* is done, and every read fails.
PodEvidence(p, late) ==
  {DeepSignals(p, g) : g \in {h \in PodReadings(p) : late => \A r \in DOMAIN h : h[r].kind = "failed"}}

\* runBounded: of several items, one may still wait when the context ends, and gives
\* no evidence.
Skipped(items) == When(Cardinality(items) > 1, {{}})

\* diagnoseJob of a job of a CronJob: its two lists, and the diagnoses of its pods.
JobReadings(j, late) ==
  UNION {LET base == [r \in {The("pods"), The("events")} |-> AnswerTo(j, r, r \in F)]
             deep == Deep(j, base)
             told == [d \in {Diagnosis(p) : p \in deep} |->
                        (UNION {PodEvidence(p, late) : p \in {q \in deep : Diagnosis(q) = d}})
                        \cup Skipped(deep)]
         IN {Beside(base, [d \in DOMAIN told |-> [kind |-> "found", value |-> f[d]]]) :
               f \in {g \in [DOMAIN told -> UNION {told[d] : d \in DOMAIN told}] :
                        \A d \in DOMAIN told : g[d] \in told[d]}} :
         F \in {G \in SUBSET {The("pods"), The("events")} : late => Cardinality(G) = 2}}
JobEvidence(j, late) ==
  {Nested(JobSignals(j, g) \cup EventsOrWarning(g[The("events")], j.name)) : g \in JobReadings(j, late)}

\* The answers to a read: it may fail, and after the end of the context it must.
Answers(o, read, got, late) ==
  CASE read = The("graph") ->
         {GraphAnswer(o, lost) : lost \in {L \in SUBSET GraphRequests(o) : late => L = GraphRequests(o)}}
    [] read[1] = "diagnosis" ->
         {[kind |-> "found", value |-> e] :
            e \in (UNION {IF o.kind = "CronJob" THEN JobEvidence(i, late) ELSE PodEvidence(i, late) :
                           i \in {d \in Deep(o, got) : Diagnosis(d) = read}})
                 \cup When(late, Skipped(Deep(o, got)))}
    [] OTHER -> {AnswerTo(o, read, fails) : fails \in {TRUE, late}}

----------------------------------------------------------------------------
(* Answering.                                                              *)

\* The reads whose failure the visibility records.
Recorded(o) ==
  CASE o.kind = "Pod" -> PodRecorded(o)
    [] o.kind = "Deployment" -> {The("graph"), The("replicasets"), The("pods")}
    [] o.kind = "StatefulSet" -> {The("graph"), The("pods"), The("claims")}
    [] o.kind = "DaemonSet" -> {The("graph"), The("pods")}
    [] o.kind = "Service" -> {The("graph"), The("pods"), The("slices"), The("endpoints")}
    [] o.kind = "Ingress" -> {The("graph")} \cup {<<"service", k.service>> : k \in Elements(o.backends)}
    [] o.kind \in {"Job", "CronJob", "PersistentVolumeClaim", "Node", "Generic"} -> {}

Failed(got) == {r \in DOMAIN got : got[r].kind = "failed"}
LimitedBy(o, got) == Failed(got) \cap Recorded(o) # {}

\* The workloads are evaluated first and marked partial afterwards; for some of them
\* healthy then becomes unknown.
Partial(limited, r) == IF limited THEN [r EXCEPT !.status = "partial", !.limited = TRUE] ELSE r
Doubted(limited, r) ==
  IF limited /\ r.health = "healthy" THEN [r EXCEPT !.health = "unknown"] ELSE r
\* An analyzer that knows better: the root cause goes, the hypotheses stay.
Fine(known, r) == IF known THEN [r EXCEPT !.health = "healthy", !.causes = {}] ELSE r

\* diagnoseDeployment: pods left out by the graph, or by the cap on diagnoses.
DeploymentTruncated(o, got) ==
  \/ got[The("graph")].value.truncation # ""
  \/ /\ Cardinality(Deep(o, got)) >= MaxDeepPods
     /\ Cardinality(UnhealthyOf(o, got)) > Cardinality(Deep(o, got))
Cut(truncated, r) == [r EXCEPT !.truncated = truncated]

\* The answers the diagnosis of o may come to, with what was read.
Responses(o, got) ==
  LET events == EventsOrWarning(got[The("events")], o.name)
      limited == LimitedBy(o, got)
      cut == got[The("graph")].value.truncation # ""
      Plain(signals) == Assemble(signals \cup events, FALSE)
  IN CASE o.kind = "Pod" -> {Assemble(PodSignals(o, got), limited)}
       [] o.kind = "Deployment" ->
            {Cut(DeploymentTruncated(o, got),
               Doubted(limited, Partial(limited, Plain(DeploymentSignals(o, got, m))))) :
               m \in Majorities(o, got)}
       [] o.kind = "StatefulSet" -> {Partial(limited, Cut(cut, Plain(StatefulSetSignals(o, got))))}
       [] o.kind = "DaemonSet" -> {Partial(limited, Cut(cut, Plain(DaemonSetSignals(o, got))))}
       [] o.kind = "Job" ->
            {Fine(o.succeeded > 0 /\ o.failed = 0 /\ o.failures = {}, Plain(JobSignals(o, got)))}
       [] o.kind = "CronJob" -> {Plain(CronJobSignals(o, got))}
       [] o.kind = "Service" ->
            {Doubted(limited, Partial(limited, Cut(cut,
               IF o.external THEN Assemble(ServiceSignals(o, got), FALSE)
               ELSE Plain(ServiceSignals(o, got)))))}
       [] o.kind = "Ingress" -> {Partial(limited, Cut(cut, Plain(IngressSignals(o, got))))}
       [] o.kind = "PersistentVolumeClaim" ->
            \* The client returns an empty object or none beside an error.
            {LET r == Plain(ClaimSignals(o, gone)) IN Fine(o.phase = "Bound" /\ r.health # "critical", r) :
               gone \in SUBSET {k \in {The("volume"), The("class")} \cap DOMAIN got : ~Found(got, k)}}
       [] o.kind = "Node" -> {Plain(NodeStatusSignals(o))}
       [] OTHER ->
            {Doubted(GenericSignals(o) = {}, Assemble(GenericSignals(o), FALSE))}

\* demoteConfirmed: what was found by a prefix confirms nothing.
DemoteConfirmed(r) ==
  LET Demote(hyps) == {[h EXCEPT !.confidence = IF @ = "confirmed" THEN "high" ELSE @] : h \in hyps}
  IN [r EXCEPT !.causes = Demote(@), !.hypotheses = Demote(@)]
=============================================================================
