--------------------------- MODULE DiagnosisProps ---------------------------
(***************************************************************************)
(* What is checked of Diagnosis.                                           *)
(***************************************************************************)
EXTENDS Diagnosis

Confidences == {"confirmed", "high", "medium", "low"}

ResolverTypeOK ==
  /\ query \in Query
  /\ objects \in [Places -> SUBSET Names]
  /\ at \in {"scope", "cluster", "cluster_list", "everywhere", "namespace", "namespace_list",
             "priority", "search", "search_known", "prefix", "resolved", "replied"}
  /\ todo \in Seq(Namespaces) /\ hits \subseteq Hit
  /\ found \in [status: Statuses \cup {"none"}, match: SUBSET Ref, how: {"", "exact", "prefix"}]
  /\ reply \in Statuses \cup {"none", "diagnosing", "error"}
  /\ changes \in 0 .. MaxChanges
  /\ seen \in [failed: BOOLEAN, forbidden: BOOLEAN, exact: BOOLEAN]

DiagnosisTypeOK ==
  /\ ResolverTypeOK
  /\ stage \in {"resolve", "read", "answered"}
  /\ object \in Objects \cup {Nobody} /\ (stage = "resolve") = (object = Nobody)
  /\ over \in BOOLEAN
  /\ \A r \in DOMAIN got : got[r].kind \in {"found", "absent", "failed"}
  /\ stage = "answered" =>
       /\ answer.status \in {"success", "partial"} /\ answer.health \in Healths
       /\ answer.truncated \in BOOLEAN
       /\ \A h \in answer.hypotheses : h.confidence \in Confidences

----------------------------------------------------------------------------
(* The name.                                                               *)

InScope(q) ==
  IF q.kind = "cluster" THEN {Cluster}
  ELSE IF q.all \/ q.namespace = Empty THEN Namespaces ELSE {q.namespace}

\* What a name stands for in a world that does not change, all at once: the object
\* of the name in the context's namespace, or else in "default"; without them, all
\* those of the name; without them, all whose name begins with it.
Candidates(q, world) ==
  LET refs == {r \in RefsIn(InScope(q)) : r.name \in world[r.place]}
      exact == {r \in refs : r.name = q.name}
      In(ns) == {r \in exact : r.place = ns}
      preferred == IF In(ContextNamespace(q)) # {} THEN In(ContextNamespace(q)) ELSE In(Default)
  IN IF q.name = Empty THEN {}
     ELSE IF q.kind = "namespaced" /\ ~q.all /\ q.namespace = Empty /\ preferred # {} THEN preferred
     ELSE IF exact # {} THEN exact
     ELSE {r \in refs : q.prefixMatch /\ q.name \in Long /\ <<r.name, q.name>> \in Extends}

\* A result that says so of those objects.
Says(result, those) ==
  CASE Cardinality(those) = 0 -> result.status = "not_found"
    [] Cardinality(those) = 1 -> result.status = "found" /\ result.match = those
    [] OTHER -> result.status = "ambiguous"

\* The requests of a resolution, made one after another through up to six states
\* of ResolveFilter, come to what the name stands for: the one object, or
\* "ambiguous" for several, or "not_found" for none, whenever they are answered
\* and no other client gets in between.
AnswerTrue ==
  stage = "resolve" /\ found # Nothing /\ ~seen.failed /\ ~seen.forbidden /\ changes = 0 =>
    Says(found, Candidates(query, objects))

\* A namespace the caller may not read is never passed over, whichever request of the
\* resolution meets it, and whatever was found before: the client is told
\* permission_denied.  And it is told so only if a request did not come through.
RefusalIsTold ==
  found # Nothing =>
    /\ seen.forbidden => found.status = "permission_denied"
    /\ found.status = "permission_denied" => seen.forbidden \/ seen.failed

----------------------------------------------------------------------------
(* The diagnosis, against what it would be with everything read.           *)

Answered == stage = "answered"

\* What there is to read for o, but for the diagnoses of its pods or jobs.  A graph says
\* nothing about health.
Full(o, reads) ==
  [r \in reads |-> IF r = The("graph") THEN [kind |-> "found", value |-> NewGraph(Root(o))]
                   ELSE AnswerTo(o, r, FALSE)]

\* And with these, each of a pod or a job in full.
With(lists, evidence) ==
  Beside(lists, [d \in {Diagnosis(i) : i \in DOMAIN evidence} |->
    [kind |-> "found", value |-> UNION {evidence[i] : i \in {j \in DOMAIN evidence : Diagnosis(j) = d}}]])
FullPod(p) == DeepSignals(p, Full(p, PodReads(p)))
FullJob(j) ==
  LET lists == Full(j, {The("pods"), The("events")})
  IN Nested(JobSignals(j, With(lists, [p \in Deep(j, lists) |-> FullPod(p)]))
            \cup EventsOrWarning(lists[The("events")], j.name))
\* What the diagnosis has asked for, and of an Ingress, what it would have asked for of
\* the services it could not read.
Everything(o, read) ==
  LET asked == {r \in DOMAIN read : r[1] # "diagnosis"}
      lists == Full(o, asked)
  IN CASE o.kind = "CronJob" -> With(lists, [j \in Deep(o, lists) |-> FullJob(j)])
       [] o.kind \in {"Deployment", "StatefulSet", "DaemonSet", "Job", "Service"} ->
            With(lists, [p \in Deep(o, lists) |-> FullPod(p)])
       [] o.kind = "Ingress" -> Full(o, asked \cup {<<"slices", k.service>> : k \in Elements(o.backends)})
       [] OTHER -> lists

\* Logs and metrics are no part of the visibility, and of a Service neither is what its
\* pods' diagnoses could not see: they stay as they were read.
Unjudged(o, read) ==
  {r \in DOMAIN read : \/ r \in {The("logs"), The("previous_logs"), The("metrics")}
                       \/ o.kind = "Service" /\ r[1] = "diagnosis"}
AllElse(o, read) == Beside([r \in Unjudged(o, read) |-> read[r]], Everything(o, read))

HealthyWith(o, read) == \E r \in Responses(o, read) : r.health = "healthy"
SignalsWith(o, read) == UNION {r.signals : r \in Responses(o, read)}

\* docs/architecture.md: health "is not promoted to healthy" for want of signals.  Of a
\* Pod, a Deployment and a Service, whichever of its many reads failed and whenever
\* the context ended, "healthy" is said only if it would be with all of them read.
HealthyIsTrue ==
  Answered /\ object.kind \in {"Pod", "Deployment", "Service"} /\ answer.health = "healthy" =>
    HealthyWith(object, AllElse(object, got))

\* The same of every kind, logs included, unless the status is partial.
\* docs/diagnostic-engine.md: "The system must not report healthy merely because it
\* could not see Events, logs, or child Pods."
NotHealthyForLackOfSight ==
  Answered /\ answer.health = "healthy" /\ answer.status = "success" =>
    HealthyWith(object, Everything(object, got))

\* A failed read never becomes a finding: what is said of a container, of something
\* a pod depends on, of a workload's status, is what would be said with everything
\* read.  Events and scheduling are left out: there a failure has a signal of its own.
\* That a CronJob was never scheduled is read from the CronJob, and kept from a client
\* who is told of a failed job.
NothingInvented ==
  Answered /\ object.kind \in {"Pod", "StatefulSet", "DaemonSet", "Job", "CronJob"} =>
    {s \in answer.signals : s.source \notin {"EVENT", "SCHEDULER"} /\ s.reason # "never_scheduled"}
      \subseteq SignalsWith(object, Everything(object, got))

Owns(graph, from, to) == <<"OWNS", from, to>> \in graph.edges

\* A cap on the graph, on its depth or on the diagnoses is announced: without
\* `truncated' every pod, of a Deployment through its ReplicaSets, is in the graph,
\* and every unhealthy pod of a Deployment was diagnosed.
TruncationTold ==
  Answered /\ object.kind \in {"Deployment", "StatefulSet", "DaemonSet"} /\ ~answer.truncated
    /\ Found(got, The("graph")) =>
      LET graph == got[The("graph")].value
          pods == object.there[The("pods")]
          Holds(owner) == \A p \in Owned(pods, owner.name) : Owns(graph, owner, Known("Pod", p.name))
      IN IF object.kind # "Deployment" THEN Holds(Root(object))
         ELSE /\ \A s \in Owned(object.there[The("replicasets")], object.name) :
                   Owns(graph, Root(object), Known("ReplicaSet", s.name)) /\ Holds(Known("ReplicaSet", s.name))
              /\ \A p \in UnhealthyOf(object, got) : Diagnosis(p) \in DOMAIN got

\* An unhealthy pod of a Deployment is never without effect: not beyond the cap on
\* diagnoses, not when its diagnosis was skipped or found nothing, and not
\* when its reason is in the minority or tied.
UnhealthyPodSurfaces ==
  Answered /\ object.kind = "Deployment" /\ UnhealthyOf(object, got) # {} =>
    answer.health \in {"degraded", "critical"}

\* What the classification and the ranking make of the signals: a root cause is given
\* exactly for what is unhealthy, and no hypothesis is above it.
UnhealthyIsExplained ==
  Answered =>
    /\ (answer.health \in {"degraded", "critical"}) <=> (answer.causes # {})
    /\ answer.causes \subseteq answer.hypotheses

\* The reasons the API server gives for the containers of a pod.
SaidOf(p) ==
  UNION {{c.waiting, c.exited} \cup When(c.lastOOM, {"OOMKilled"}) : c \in Elements(p.containers)}
Proof ==
  [OOM_KILLED |-> {"OOMKilled"}, CRASH_LOOP |-> {"CrashLoopBackOff"},
   IMAGE_PULL_FAILURE |-> {"ImagePullBackOff", "ErrImagePull"}]

\* The pods a diagnosis of o may look at.
Below(o) ==
  IF o.kind = "Pod" THEN {o}
  ELSE UNION {Elements(i.there[The("pods")]) :
         i \in {j \in {o} \cup (IF o.kind = "CronJob" THEN Elements(o.there[The("jobs")]) ELSE {}) :
                 The("pods") \in DOMAIN j.there}}

\* Only the API server's own word confirms: not an Event beside it, not a log, and not
\* a workload's count of it.  A confirmed crash loop, OOM kill or pull failure is in
\* the status of the pod, or of a pod below, and the object was named in full.
ConfirmedHasProof ==
  Answered =>
    \A h \in answer.hypotheses :
      h.confidence = "confirmed" =>
        /\ found.how = "exact"
        /\ h.category \in DOMAIN Proof =>
             \E p \in Below(object) : SaidOf(p) \cap Proof[h.category] # {}

\* What the API server words freely: messages, and the types and reasons of conditions.
NodeWording(n) == n.text \cup UNION {KeywordsOf(t) : t \in DOMAIN n.conditions}
PodWording(p) ==
  (UNION {c.text : c \in Elements(p.containers)})
  \cup (UNION {c.text \cup KeywordsOf(c.type) : c \in p.conditions})
  \cup UNION {NodeWording(p.there[r]) : r \in {The("node")} \cap DOMAIN p.there}
OwnWording(o) ==
  CASE o.kind = "Node" -> NodeWording(o.node)
    [] o.kind \in {"Deployment", "Generic"} -> UNION {c.text \cup KeywordsOf(c.reason) : c \in o.conditions}
    [] OTHER -> {}

\* The words that confirm are said of nothing else: in what is worded freely they stand for a
\* container whose status gives a reason for them.  (A container that is named "crashloop"
\* may be in any message.)
PlainlyWorded(o) ==
  LET worded == OwnWording(o) \cup UNION {PodWording(p) : p \in Below(o)}
  IN \A c \in DOMAIN Proof :
       worded \cap UNION Confirming[c] # {} => \E p \in Below(o) : SaidOf(p) \cap Proof[c] # {}

\* What has just happened is never crowded out: however many Events there are, and in
\* whatever order they were listed, the newest has its signal if it is a warning.  Of a
\* Service of type ExternalName no Event is told.
LatestEventTold ==
  Answered /\ Found(got, The("events")) /\ (object.kind = "Service" => ~object.external) =>
    LET events == got[The("events")].value
    IN events # <<>> /\ events[Len(events)].type = "Warning" =>
         \E s \in answer.signals : s.source = "EVENT" /\ s.reason = events[Len(events)].reason
=============================================================================
