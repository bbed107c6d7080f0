-------------------------- MODULE ExplanationProofs --------------------------
(***************************************************************************)
(* Proofs that what is unhealthy is explained: from its signals, through   *)
(* their categories and the ranking, to a root cause; and that what is     *)
(* confirmed is what a status says.                                        *)
(***************************************************************************)
EXTENDS DiagnosisProofs

----------------------------------------------------------------------------
(* The ranking.                                                            *)

\* Lemma: no bonus is above eighty.
LEMMA BonusIn == \A c \in DOMAIN Bonus : Bonus[c] \in 0 .. 80
  BY DEF Bonus

\* Lemma: the scores, and the weight of a hypothesis about so many resources.
LEMMA WeightIn ==
  ASSUME NEW h, h.confidence \in Confidences, h.affected \in Nat
  PROVE  /\ Score[h.confidence] \in 1 .. 4
         /\ WeightedScore(h) \in Nat /\ WeightedScore(h) <= h.affected + 120
  <1>1. Score[h.confidence] \in 1 .. 4
    BY DEF Score, Confidences
  <1> DEFINE bonus == IF h.category \in DOMAIN Bonus THEN Bonus[h.category] ELSE 0
  <1>2. bonus \in 0 .. 80
    BY BonusIn
  <1>3. WeightedScore(h) = h.affected + Score[h.confidence] * 10 + bonus
    BY DEF WeightedScore
  <1> HIDE DEF bonus
  <1> QED
    BY <1>1, <1>2, <1>3

\* Lemma: of hypotheses about a bounded number of resources, one leads.
LEMMA OneLeads ==
  ASSUME NEW H, H # {}, NEW n \in Nat,
         \A h \in H : h.confidence \in Confidences /\ h.affected \in 0 .. n
  PROVE  Leading(H) # {}
  <1> DEFINE Rank(h) == 4 - Score[h.confidence]
             Lack(h) == n + 120 - WeightedScore(h)
  <1>1. \A h \in H : /\ Score[h.confidence] \in Nat /\ WeightedScore(h) \in Nat
                     /\ Rank(h) \in Nat /\ Lack(h) \in Nat
    <2> SUFFICES ASSUME NEW h \in H
                 PROVE  /\ Score[h.confidence] \in Nat /\ WeightedScore(h) \in Nat
                        /\ Rank(h) \in Nat /\ Lack(h) \in Nat
      OBVIOUS
    <2>1. h.confidence \in Confidences /\ h.affected \in Nat /\ h.affected <= n
      OBVIOUS
    <2>2. /\ Score[h.confidence] \in 1 .. 4
          /\ WeightedScore(h) \in Nat /\ WeightedScore(h) <= h.affected + 120
      BY <2>1, WeightIn
    <2> QED
      BY <2>1, <2>2
  <1>2. PICK top \in H : \A h \in H : Rank(top) <= Rank(h)
    <2> DEFINE ranks == {Rank(h) : h \in H}
    <2>1. ranks \in SUBSET Nat /\ ranks # {}
      BY <1>1, Zenon
    <2> HIDE DEF ranks
    <2>2. PICK i \in ranks : \A j \in ranks : i <= j
      BY <2>1, LeastOf
    <2> HIDE DEF Rank
    <2> QED
      BY <2>2 DEF ranks
  <1> DEFINE tops == {h \in H : Rank(h) = Rank(top)}
  <1>3. PICK h \in tops : \A k \in tops : Lack(h) <= Lack(k)
    <2> DEFINE shorts == {Lack(k) : k \in tops}
    <2>1. shorts \in SUBSET Nat /\ shorts # {}
      BY <1>1, Zenon
    <2> HIDE DEF shorts
    <2>2. PICK i \in shorts : \A j \in shorts : i <= j
      BY <2>1, LeastOf
    <2> HIDE DEF Lack, tops
    <2> QED
      BY <2>2 DEF shorts
  <1>4. ASSUME NEW k \in H PROVE ~Above(k, h)
    <2>1. CASE k \in tops
      <3>1. Score[k.confidence] = Score[h.confidence] /\ WeightedScore(k) <= WeightedScore(h)
        BY <1>1, <1>3, <2>1
      <3> QED
        BY <1>1, <3>1 DEF Above
    <2>2. CASE k \notin tops
      <3>1. Score[k.confidence] < Score[h.confidence]
        BY <1>1, <1>2, <1>3, <2>2
      <3> QED
        BY <1>1, <3>1 DEF Above
    <2> QED
      BY <2>1, <2>2
  <1> QED
    BY <1>4 DEF Leading

----------------------------------------------------------------------------
(* The classification.                                                     *)

\* Lemma: what is no mere information has a category.
LEMMA BadHasCategory ==
  ASSUME NEW s, s.severity # "info" PROVE Category(s) # {}
  <1>1. When(s.severity # "info", {s.reason}) # {}
    BY DEF When
  <1> QED
    BY <1>1 DEF Category

\* Signals with nothing worse than information, and those about finitely many resources.
AboutFew(S) == IsFiniteSet({s.about : s \in S})

Explained(r) ==
  /\ (r.health \in {"degraded", "critical"}) <=> (r.causes # {})
  /\ r.causes \subseteq r.hypotheses

\* Lemma: what is assembled from signals about finitely many resources is explained.
LEMMA AssembleExplains ==
  ASSUME NEW S, AboutFew(S), NEW limited \in BOOLEAN
  PROVE  Explained(Assemble(S, limited))
  <1> DEFINE health == Evaluate({s.severity : s \in S}, limited)
             H == Hypotheses(S)
             category == [s \in S |-> Category(s)]
             Bucket(c) == {s \in S : c \in category[s]}
             abouts == {s.about : s \in S}
             n == Cardinality(abouts)
             r == Assemble(S, limited)
  <1>1. r.health = health /\ r.hypotheses = H /\ r.causes = (IF health = "healthy" THEN {} ELSE Leading(H))
    BY DEF Assemble
  <1>2. H = {Hypothesis(c, Bucket(c), S) : c \in UNION {category[s] : s \in S}}
    BY Zenon DEF Hypotheses
  <1> HIDE DEF H, r, category
  <1>3. n \in Nat
    BY FS_CardinalityType DEF AboutFew
  <1>4. \A h \in H : h.confidence \in Confidences /\ h.affected \in 0 .. n
    <2> SUFFICES ASSUME NEW h \in H PROVE h.confidence \in Confidences /\ h.affected \in 0 .. n
      OBVIOUS
    <2>1. PICK c : h = Hypothesis(c, Bucket(c), S)
      BY <1>2
    <2> DEFINE some == {s.about : s \in Bucket(c)}
    <2>2. h.confidence = Confidence(c, Bucket(c), S) /\ h.affected = Cardinality(some)
      BY <2>1 DEF Hypothesis
    <2>3. some \subseteq abouts
      OBVIOUS
    <2> HIDE DEF some, abouts
    <2>4. Cardinality(some) \in Nat /\ Cardinality(some) <= n
      <3>1. IsFiniteSet(some) /\ Cardinality(some) <= Cardinality(abouts)
        BY <2>3, FS_Subset DEF AboutFew, abouts
      <3> QED
        BY <3>1, FS_CardinalityType
    <2> QED
      BY <1>3, <2>2, <2>4, ConfidenceType
  <1>5. ASSUME H = {} PROVE Leading(H) = {}
    BY <1>5 DEF Leading
  <1>6. ASSUME H # {} PROVE Leading(H) # {}
    BY <1>3, <1>4, <1>6, OneLeads
  <1>7. Leading(H) \subseteq H
    BY DEF Leading
  <1>8. ASSUME health \in {"degraded", "critical"} PROVE H # {}
    <2>1. PICK s \in S : s.severity # "info"
      BY <1>8 DEF Evaluate
    <2>2. PICK c \in Category(s) : TRUE
      BY <2>1, BadHasCategory
    <2>3. c \in UNION {category[t] : t \in S}
      BY <2>2 DEF category
    <2>4. Hypothesis(c, Bucket(c), S) \in H
      <3> HIDE DEF Bucket
      <3> QED
        BY <1>2, <2>3
    <2> QED
      BY <2>4
  <1>9. ASSUME health = "unknown" PROVE H = {}
    <2>1. S = {}
      BY <1>9 DEF Evaluate
    <2> QED
      BY <1>2, <2>1
  <1>10. health \in Healths
    BY EvaluateType
  <1> HIDE DEF health
  <1>11. Explained(r)
    BY <1>1, <1>5, <1>6, <1>7, <1>8, <1>9, <1>10 DEF Explained, Healths
  <1> QED
    BY <1>11 DEF r

\* Lemma: neither a mark nor a demotion takes an explanation away.
LEMMA StillExplained ==
  ASSUME NEW r, NEW q, Marked(r, q), Explained(r)
  PROVE  Explained(q) /\ Explained(DemoteConfirmed(q))
  <1>1. Explained(q)
    BY DEF Marked, Explained
  <1> DEFINE Lower(h) == [h EXCEPT !.confidence = IF @ = "confirmed" THEN "high" ELSE @]
             Demote(hyps) == {Lower(h) : h \in hyps}
             d == DemoteConfirmed(q)
  <1>2. d = [q EXCEPT !.causes = Demote(q.causes), !.hypotheses = Demote(q.hypotheses)]
    BY DEF DemoteConfirmed, Marked, IsAnswer
  <1> HIDE DEF d, Lower
  <1>3. d.health = q.health /\ d.causes = Demote(q.causes) /\ d.hypotheses = Demote(q.hypotheses)
    BY <1>2 DEF Marked, IsAnswer
  <1>4. Explained(d)
    BY <1>1, <1>3 DEF Explained
  <1> QED
    BY <1>1, <1>4 DEF d

----------------------------------------------------------------------------
(* What the signals are about.                                             *)

\* Lemma: a signal is about what it is made for.
LEMMA SignalIs ==
  \A source, reason, text, severity, about :
    /\ Signal(source, reason, text, severity, about).source = source
    /\ Signal(source, reason, text, severity, about).reason = reason
    /\ Signal(source, reason, text, severity, about).text = text
    /\ Signal(source, reason, text, severity, about).severity = severity
    /\ Signal(source, reason, text, severity, about).about = about
  BY DEF Signal

\* Lemma: what an object tells is about itself.
LEMMA TellIs ==
  \A o, source, reason, text, severity :
    /\ Tell(o, source, reason, text, severity).source = source
    /\ Tell(o, source, reason, text, severity).reason = reason
    /\ Tell(o, source, reason, text, severity).severity = severity
    /\ Tell(o, source, reason, text, severity).about = o.name
  BY SignalIs DEF Tell

Bad == {"warning", "critical"}

\* Lemma: Events and logs are about what they are read for, and what is told of them is bad.
LEMMA AboutEvents ==
  ASSUME NEW a, NEW about
  PROVE  /\ \A s \in EventsOrWarning(a, about) : s.source = "EVENT" /\ s.about = about /\ s.severity \in Bad
         /\ \A s \in LogSignals(a, about) : s.source = "LOG" /\ s.about = about /\ s.severity \in Bad
  <1>1. \A events : \A s \in EventSignals(events, about) :
          s.source = "EVENT" /\ s.about = about /\ s.severity \in Bad
    <2> SUFFICES ASSUME NEW events, NEW s \in EventSignals(events, about)
                 PROVE  s.source = "EVENT" /\ s.about = about /\ s.severity \in Bad
      OBVIOUS
    <2>1. \E e : s = Signal("EVENT", e.reason, e.text \cup KeywordsOf(e.reason),
                       IF Severity(e.reason, e.text) = "critical" THEN "critical" ELSE "warning", about)
      BY Zenon DEF EventSignals
    <2> QED
      BY <2>1, SignalIs DEF Bad
  <1>2. \A s \in EventsOrWarning(a, about) : s.source = "EVENT" /\ s.about = about /\ s.severity \in Bad
    BY <1>1, SignalIs DEF EventsOrWarning, Bad
  <1>3. \A s \in LogSignals(a, about) : s.source = "LOG" /\ s.about = about /\ s.severity \in Bad
    <2> SUFFICES ASSUME NEW s \in LogSignals(a, about)
                 PROVE  s.source = "LOG" /\ s.about = about /\ s.severity \in Bad
      OBVIOUS
    <2>1. \E r : s = Signal("LOG", r, KeywordsOf(r), IF r \in CriticalPatterns THEN "critical" ELSE "warning", about)
      BY Zenon DEF LogSignals
    <2> QED
      BY <2>1, SignalIs DEF Bad
  <1> QED
    BY <1>2, <1>3

\* A bad signal about p.
OfPod(p, s) == s.about = p.name /\ s.severity \in Bad

\* Lemma: what a pod's status says.
LEMMA StatusIs ==
  ASSUME NEW p
  PROVE  /\ \A s \in StatusSignals(p) : OfPod(p, s) /\ s.source \in {"STATUS", "CONDITION"}
         /\ \A s \in ProbeSignals(p) : OfPod(p, s) /\ s.source = "STATUS"
  <1>1. \A c : \A s \in ContainerSignals(p, c) : OfPod(p, s) /\ s.source = "STATUS"
    <2> SUFFICES ASSUME NEW c, NEW s \in ContainerSignals(p, c) PROVE OfPod(p, s) /\ s.source = "STATUS"
      OBVIOUS
    <2>1. \E reason, text : \/ s = Signal("STATUS", reason, text, "critical", p.name)
                           \/ s = Signal("STATUS", reason, text, IF c.restarts > 5 THEN "critical" ELSE "warning", p.name)
      BY Zenon DEF ContainerSignals, When
    <2> QED
      BY <2>1, SignalIs DEF OfPod, Bad
  <1>2. \A s \in StatusSignals(p) : OfPod(p, s) /\ s.source \in {"STATUS", "CONDITION"}
    <2> SUFFICES ASSUME NEW s \in StatusSignals(p) PROVE OfPod(p, s) /\ s.source \in {"STATUS", "CONDITION"}
      OBVIOUS
    <2>1. \/ \E c : s \in ContainerSignals(p, c)
          \/ \E reason, text : s = Signal("CONDITION", reason, text, "warning", p.name)
      BY Zenon DEF StatusSignals
    <2> QED
      BY <1>1, <2>1, SignalIs DEF OfPod, Bad
  <1>3. \A s \in ProbeSignals(p) : OfPod(p, s) /\ s.source = "STATUS"
    <2> SUFFICES ASSUME NEW s \in ProbeSignals(p) PROVE OfPod(p, s) /\ s.source = "STATUS"
      OBVIOUS
    <2>1. \E reason, text : s = Signal("STATUS", reason, text, "warning", p.name)
      BY Zenon DEF ProbeSignals
    <2> QED
      BY <2>1, SignalIs DEF OfPod, Bad
  <1> QED
    BY <1>2, <1>3

\* Lemma: what is made of what was read for a pod.
LEMMA ReadSignalsAre ==
  ASSUME NEW p, NEW a
  PROVE  /\ \A s \in ScheduleSignals(p, a) : OfPod(p, s) /\ s.source = "SCHEDULER"
         /\ \A s \in NodeSignals(p, a) : OfPod(p, s) /\ s.source \in {"CONDITION", "SCHEDULER"}
  <1>1. \A s \in ScheduleSignals(p, a) : OfPod(p, s) /\ s.source = "SCHEDULER"
    <2> SUFFICES ASSUME NEW s \in ScheduleSignals(p, a) PROVE OfPod(p, s) /\ s.source = "SCHEDULER"
      OBVIOUS
    <2>1. \E reason, text : s = Signal("SCHEDULER", reason, text, "critical", p.name)
      BY Zenon DEF ScheduleSignals
    <2> QED
      BY <2>1, SignalIs DEF OfPod, Bad
  <1>2. \A s \in NodeSignals(p, a) : OfPod(p, s) /\ s.source \in {"CONDITION", "SCHEDULER"}
    <2> SUFFICES ASSUME NEW s \in NodeSignals(p, a) PROVE OfPod(p, s) /\ s.source \in {"CONDITION", "SCHEDULER"}
      OBVIOUS
    <2>1. \/ \E reason, text : s = Signal("CONDITION", reason, text, "critical", p.name)
          \/ s = Signal("SCHEDULER", "unschedulable", {"node", "schedul"}, "warning", p.name)
      BY DEF NodeSignals, When
    <2> QED
      BY <2>1, SignalIs DEF OfPod, Bad
  <1> QED
    BY <1>1, <1>2

\* Lemma: and of what a pod refers to.
LEMMA RefSignalsAre ==
  ASSUME NEW p, IsPod(p), NEW r \in Elements(p.refs), NEW a, NEW s \in RefSignals(p, r, a)
  PROVE  OfPod(p, s) /\ s.source = "DEPENDENCY"
  <1>1. r.of \in {"configmap", "secret", "pull", "account", "pvc"}
    BY DEF IsPod
  <1>2. \E reason, text : s = Dependency(p, reason, text)
    BY <1>1 DEF RefSignals
  <1> QED
    BY <1>2, SignalIs DEF Dependency, OfPod, Bad

\* Lemma: where a pod's signals come from.
LEMMA PodSignalFrom ==
  ASSUME NEW p, NEW g, NEW s
  PROVE  LET Told(read) == read \in DOMAIN g /\ g[read].kind = "found"
         IN s \in PodSignals(p, g) <=>
              \/ s \in StatusSignals(p) \/ s \in ProbeSignals(p)
              \/ Unscheduled(p) /\ s \in ScheduleSignals(p, g[The("nodes")])
              \/ \E r \in Elements(p.refs) : s \in RefSignals(p, r, g[<<r.of, r.name>>])
              \/ Told(The("node")) /\ s \in NodeSignals(p, g[The("node")].value)
              \/ s \in EventsOrWarning(g[The("events")], p.name)
              \/ p.assigned /\ s \in EventsOrWarning(g[The("node_events")], "node")
              \/ \E l \in {The("logs"), The("previous_logs")} : Told(l) /\ s \in LogSignals(g[l].value, p.name)
              \/ /\ Told(The("metrics")) /\ g[The("metrics")].value
                 /\ s = Signal("METRIC", "high_memory", {}, "warning", p.name)
  <1> DEFINE Told(read) == read \in DOMAIN g /\ g[read].kind = "found"
             refs == UNION {RefSignals(p, r, g[<<r.of, r.name>>]) : r \in Elements(p.refs)}
             logs == UNION {LogSignals(g[l].value, p.name) : l \in {m \in {The("logs"), The("previous_logs")} : Told(m)}}
             high == Signal("METRIC", "high_memory", {}, "warning", p.name)
  <1>1. PodSignals(p, g) =
          StatusSignals(p) \cup ProbeSignals(p) \cup When(Unscheduled(p), ScheduleSignals(p, g[The("nodes")]))
          \cup refs \cup When(Told(The("node")), NodeSignals(p, g[The("node")].value))
          \cup EventsOrWarning(g[The("events")], p.name)
          \cup When(p.assigned, EventsOrWarning(g[The("node_events")], "node"))
          \cup logs \cup When(Told(The("metrics")) /\ g[The("metrics")].value, {high})
    BY Zenon DEF PodSignals
  <1>2. s \in refs <=> \E r \in Elements(p.refs) : s \in RefSignals(p, r, g[<<r.of, r.name>>])
    BY Zenon
  <1>3. s \in logs <=> \E l \in {The("logs"), The("previous_logs")} : Told(l) /\ s \in LogSignals(g[l].value, p.name)
    BY Zenon
  <1> HIDE DEF refs, logs, high
  <1>4. s \in PodSignals(p, g) <=>
              \/ s \in StatusSignals(p) \/ s \in ProbeSignals(p)
              \/ Unscheduled(p) /\ s \in ScheduleSignals(p, g[The("nodes")])
              \/ s \in refs
              \/ Told(The("node")) /\ s \in NodeSignals(p, g[The("node")].value)
              \/ s \in EventsOrWarning(g[The("events")], p.name)
              \/ p.assigned /\ s \in EventsOrWarning(g[The("node_events")], "node")
              \/ s \in logs
              \/ Told(The("metrics")) /\ g[The("metrics")].value /\ s = high
    BY <1>1 DEF When
  <1> QED
    BY <1>2, <1>3, <1>4 DEF high

\* Lemma: of a pod's signals, those of the node's Events are about the node; and all are bad.
LEMMA AboutPod ==
  ASSUME NEW p, IsPod(p), NEW g, NEW s \in PodSignals(p, g)
  PROVE  s.about \in {p.name, "node"} /\ s.severity \in Bad
  <1> DEFINE Fits(t) == t.about \in {p.name, "node"} /\ t.severity \in Bad
             high == Signal("METRIC", "high_memory", {}, "warning", p.name)
  <1>1. \A t : OfPod(p, t) => Fits(t)
    BY DEF OfPod
  <1>2. \A a : \A t \in ScheduleSignals(p, a) \cup NodeSignals(p, a) : Fits(t)
    BY <1>1, ReadSignalsAre
  <1>3. \A t \in StatusSignals(p) \cup ProbeSignals(p) : Fits(t)
    BY <1>1, StatusIs
  <1>4. \A a : \A r \in Elements(p.refs) : \A t \in RefSignals(p, r, a) : Fits(t)
    BY <1>1, RefSignalsAre
  <1>5. \A a : \A t \in EventsOrWarning(a, p.name) \cup EventsOrWarning(a, "node") \cup LogSignals(a, p.name) : Fits(t)
    BY AboutEvents
  <1>6. Fits(high)
    BY SignalIs DEF Bad
  <1> HIDE DEF Fits, high
  <1>7. Fits(s)
    BY <1>2, <1>3, <1>4, <1>5, <1>6, PodSignalFrom, Zenon DEF high
  <1> QED
    BY <1>7 DEF Fits

\* Lemma: what a Service's analyzer says itself is about the network.
LEMMA ServiceTells ==
  ASSUME NEW o, NEW g, NEW s \in ServiceSignals(o, g)
  PROVE  \/ \E reason, text, severity : s = Tell(o, "NETWORK", reason, text, severity)
         \/ \E p : Diagnosis(p) \in DOMAIN g /\ s \in g[Diagnosis(p)].value
  <1> DEFINE Told == \E reason, text, severity : s = Tell(o, "NETWORK", reason, text, severity)
             Deeply == \E p : Diagnosis(p) \in DOMAIN g /\ s \in g[Diagnosis(p)].value
             pods == Pods(o, g)
             targets == UNION {TargetMissing(o, t, p) : t \in o.targets, p \in pods}
             ends == Endpoints(ListOf(g, "slices"), g)
             Say(reason, severity) == Tell(o, "NETWORK", reason, {}, severity)
             none == Found(g, The("slices")) /\ ends.total = 0 /\ o.selects
             serves == \E p \in pods : Serving(p)
  <1>1. ServiceSignals(o, g) =
          {Say("service_spec", "info")} \cup
          When(~o.external,
            When(~o.selects /\ ~o.headless, {Say("SERVICE_NO_SELECTOR", "warning")})
            \cup When(o.selects /\ pods = {}, {Say("SERVICE_NO_MATCHING_PODS", "critical")})
            \cup When(o.selects /\ pods # {} /\ ~serves, {Say("SERVICE_NO_READY_PODS", "critical")})
            \cup When(o.selects, DeepOf({p \in pods : ~Serving(p)}, g) \cup targets)
            \cup When(none, {Say("SERVICE_NO_ENDPOINTS", "critical")})
            \cup When(~none /\ ends.total > 0 /\ ends.ready = 0,
                   {Say("SERVICE_NO_READY_ENDPOINTS", "critical")}))
    BY SMT DEF ServiceSignals
  <1>2. \A those : s \in DeepOf(those, g) => Deeply
    BY DEF DeepOf
  <1>3. s \in targets => Told
    <2>1. \A t, p : s \in TargetMissing(o, t, p) =>
            \E reason, text, severity : s = Tell(o, "NETWORK", reason, text, severity)
      BY Zenon DEF TargetMissing, When
    <2>2. (\E t, p : s \in TargetMissing(o, t, p)) => Told
      BY <2>1
    <2> HIDE DEF Told
    <2> QED
      BY <2>2
  <1>4. \A reason, severity : s = Say(reason, severity) => Told
    BY Zenon
  <1> HIDE DEF Told, Deeply, targets, ends, none, serves, pods, Say
  <1>5. Told \/ Deeply
    BY <1>1, <1>2, <1>3, <1>4 DEF When
  <1> QED
    BY <1>5 DEF Told, Deeply

\* A signal of o's own, or one of those a diagnosis has given.
OwnOrDeep(o, g, s) ==
  s.about = o.name \/ \E p : Diagnosis(p) \in DOMAIN g /\ s \in g[Diagnosis(p)].value

\* Lemma: what an object's analyzer says is about it, or of what was diagnosed with it.
LEMMA AboutKinds ==
  ASSUME NEW o, NEW g, NEW s
  PROVE  /\ \A m : s \in DeploymentSignals(o, g, m) => OwnOrDeep(o, g, s)
         /\ s \in StatefulSetSignals(o, g) => OwnOrDeep(o, g, s)
         /\ s \in DaemonSetSignals(o, g) => OwnOrDeep(o, g, s)
         /\ s \in JobSignals(o, g) => OwnOrDeep(o, g, s)
         /\ s \in CronJobSignals(o, g) => OwnOrDeep(o, g, s)
         /\ s \in ServiceSignals(o, g) => OwnOrDeep(o, g, s)
         /\ s \in IngressSignals(o, g) => s.about = o.name
         /\ \A gone : s \in ClaimSignals(o, gone) => s.about = o.name
         /\ s \in NodeStatusSignals(o) => s.about = o.name
         /\ s \in GenericSignals(o) => s.about = o.name
  <1>1. \A pods : s \in DeepOf(pods, g) => OwnOrDeep(o, g, s)
    BY DEF DeepOf, OwnOrDeep
  <1>2. \A source, reason, text, severity :
          s = Tell(o, source, reason, text, severity) => s.about = o.name /\ OwnOrDeep(o, g, s)
    BY TellIs DEF OwnOrDeep
  <1>3. \A reason, text : s \in Short(o, reason, text) => s.about = o.name /\ OwnOrDeep(o, g, s)
    BY <1>2 DEF Short, When
  <1>4. ASSUME NEW m, s \in DeploymentSignals(o, g, m) PROVE OwnOrDeep(o, g, s)
    BY <1>1, <1>2, <1>3, <1>4, Zenon DEF DeploymentSignals, When
  <1>5. ASSUME s \in StatefulSetSignals(o, g) PROVE OwnOrDeep(o, g, s)
    BY <1>1, <1>2, <1>3, <1>5, Zenon DEF StatefulSetSignals, When
  <1>6. ASSUME s \in DaemonSetSignals(o, g) PROVE OwnOrDeep(o, g, s)
    BY <1>1, <1>2, <1>3, <1>6, Zenon DEF DaemonSetSignals, When
  <1>7. ASSUME s \in JobSignals(o, g) PROVE OwnOrDeep(o, g, s)
    BY <1>1, <1>2, <1>7, Zenon DEF JobSignals, When
  <1>8. ASSUME s \in CronJobSignals(o, g) PROVE OwnOrDeep(o, g, s)
    BY <1>1, <1>2, <1>8, Zenon DEF CronJobSignals, When
  <1>9. ASSUME s \in ServiceSignals(o, g) PROVE OwnOrDeep(o, g, s)
    BY <1>2, <1>9, ServiceTells DEF OwnOrDeep
  <1>10. ASSUME s \in IngressSignals(o, g) PROVE s.about = o.name
    <2>1. \A k : s \in BackendSignals(o, k, g) => s.about = o.name
      BY <1>2, Zenon DEF BackendSignals, When
    <2> QED
      BY <1>2, <1>10, <2>1, Zenon DEF IngressSignals, When
  <1>11. ASSUME NEW gone, s \in ClaimSignals(o, gone) PROVE s.about = o.name
    BY <1>2, <1>11, Zenon DEF ClaimSignals, When
  <1>12. ASSUME s \in NodeStatusSignals(o) PROVE s.about = o.name
    BY <1>2, <1>12, Zenon DEF NodeStatusSignals, When
  <1>13. ASSUME s \in GenericSignals(o) PROVE s.about = o.name
    <2>1. \E reason, text : s = Tell(o, "CONDITION", reason, text, "warning")
      BY <1>13, Zenon DEF GenericSignals
    <2> QED
      BY <1>2, <2>1
  <1> QED
    BY <1>4, <1>5, <1>6, <1>7, <1>8, <1>9, <1>10, <1>11, <1>12, <1>13

----------------------------------------------------------------------------
(* There are finitely many of them.                                        *)

\* Lemma: a function has finitely many values on a finite set.
LEMMA FiniteRange ==
  ASSUME NEW f, IsFiniteSet(DOMAIN f), f = [x \in DOMAIN f |-> f[x]]
  PROVE  IsFiniteSet({f[x] : x \in DOMAIN f})
  <1> DEFINE T == {f[x] : x \in DOMAIN f}
  <1>1. f \in Surjection(DOMAIN f, T)
    BY DEF Surjection
  <1> QED
    BY <1>1, FS_Surjection

\* Lemma: a list has finitely many elements.
LEMMA FiniteList ==
  ASSUME NEW X, NEW s \in Seq(X)
  PROVE  IsFiniteSet(Elements(s))
  <1>1. DOMAIN s = 1 .. Len(s) /\ Len(s) \in Nat /\ s = [i \in DOMAIN s |-> s[i]]
    OBVIOUS
  <1>2. IsFiniteSet(DOMAIN s)
    <2>1. \A n \in Nat : IsFiniteSet(1 .. n)
      BY FS_Interval
    <2> QED
      BY <1>1, <2>1
  <1>3. IsFiniteSet({s[i] : i \in DOMAIN s})
    BY <1>1, <1>2, FiniteRange
  <1> QED
    BY <1>3, Zenon DEF Elements

\* The names an object and its pods go by.
NamesAt(i) ==
  {i.name, "node"} \cup
  When(The("pods") \in DOMAIN i.there, {p.name : p \in Elements(i.there[The("pods")])})
\* With those of its jobs and of their pods.
NamesAbout(o) ==
  NamesAt(o) \cup When(o.kind = "CronJob" /\ The("jobs") \in DOMAIN o.there,
                     UNION {NamesAt(j) : j \in Elements(o.there[The("jobs")])})

\* Lemma: an object's pods have finitely many names.
LEMMA FiniteNames ==
  ASSUME NEW i, HasLists(i)
  PROVE  IsFiniteSet(NamesAt(i))
  <1>1. ASSUME The("pods") \in DOMAIN i.there
        PROVE  IsFiniteSet({p.name : p \in Elements(i.there[The("pods")])})
    <2> DEFINE pods == Elements(i.there[The("pods")])
               f == [p \in pods |-> p.name]
    <2>1. IsFiniteSet(pods)
      BY <1>1, FiniteList DEF HasLists
    <2> HIDE DEF pods
    <2>2. DOMAIN f = pods /\ f = [x \in DOMAIN f |-> f[x]] /\ {f[x] : x \in DOMAIN f} = {p.name : p \in pods}
      OBVIOUS
    <2> HIDE DEF f
    <2>3. IsFiniteSet({p.name : p \in pods})
      BY <2>1, <2>2, FiniteRange
    <2> QED
      BY <2>3 DEF pods
  <1>2. IsFiniteSet({i.name, "node"})
    <2>1. IsFiniteSet({i.name} \cup {"node"})
      BY FS_Singleton, FS_AddElement
    <2>2. {i.name, "node"} = {i.name} \cup {"node"}
      OBVIOUS
    <2> QED
      BY <2>1, <2>2
  <1>3. IsFiniteSet({i.name, "node"} \cup {})
    BY <1>2
  <1> QED
    BY <1>1, <1>2, <1>3, FS_Union DEF NamesAt, When

\* Lemma: and so have its jobs with theirs.
LEMMA FiniteAbout ==
  ASSUME NEW o \in Objects
  PROVE  IsFiniteSet(NamesAbout(o))
  <1>1. IsFiniteSet(NamesAt(o))
    BY ObjectAssumption, FiniteNames
  <1>2. CASE o.kind = "CronJob" /\ The("jobs") \in DOMAIN o.there
    <2> DEFINE jobs == Elements(o.there[The("jobs")])
               f == [j \in jobs |-> NamesAt(j)]
    <2>1. IsFiniteSet(jobs)
      BY <1>2, ObjectAssumption, FiniteList DEF HasLists
    <2>2. \A j \in jobs : IsFiniteSet(NamesAt(j))
      BY <1>2, ObjectAssumption, FiniteNames
    <2> HIDE DEF jobs
    <2>3. DOMAIN f = jobs /\ f = [x \in DOMAIN f |-> f[x]] /\ {f[x] : x \in DOMAIN f} = {NamesAt(j) : j \in jobs}
      OBVIOUS
    <2> HIDE DEF f
    <2>4. IsFiniteSet({NamesAt(j) : j \in jobs})
      BY <2>1, <2>3, FiniteRange
    <2>5. IsFiniteSet(UNION {NamesAt(j) : j \in jobs})
      BY <2>2, <2>4, FS_UNION
    <2>6. NamesAbout(o) = NamesAt(o) \cup UNION {NamesAt(j) : j \in jobs}
      BY <1>2, Zenon DEF NamesAbout, When, jobs
    <2> QED
      BY <1>1, <2>5, <2>6, FS_Union
  <1>3. CASE ~(o.kind = "CronJob" /\ The("jobs") \in DOMAIN o.there)
    <2>1. NamesAbout(o) = NamesAt(o)
      BY <1>3 DEF NamesAbout, When
    <2> QED
      BY <1>1, <2>1
  <1> QED
    BY <1>2, <1>3

----------------------------------------------------------------------------
(* The evidence of what is diagnosed with an object.                       *)

\* Lemma: nested evidence is of what it is made of, and about the same.
LEMMA NestedIs ==
  ASSUME NEW S, NEW s \in Nested(S)
  PROVE  \E t \in S : s = Signal(t.source, "", t.text \ {"Job"}, "warning", t.about)
  BY DEF Nested

\* Lemma: a pod's evidence is about the pod, or its node.
LEMMA AboutPodEvidence ==
  ASSUME NEW p, IsPod(p), NEW late, NEW e \in PodEvidence(p, late), NEW s \in e
  PROVE  s.about \in {p.name, "node"}
  <1>1. PICK g : e = Nested(PodSignals(p, g))
    BY DEF PodEvidence, DeepSignals
  <1>2. PICK t \in PodSignals(p, g) : s = Signal(t.source, "", t.text \ {"Job"}, "warning", t.about)
    BY <1>1, NestedIs
  <1>3. s.about = t.about
    BY <1>2 DEF Signal
  <1>4. t \in PodSignals(p, g)
    BY <1>2
  <1>5. t.about \in {p.name, "node"}
    BY <1>4, AboutPod, Zenon
  <1> QED
    BY <1>3, <1>5

\* A job's two lists, when the reads of F fail.
JobLists(j, F) == [r \in {The("pods"), The("events")} |-> AnswerTo(j, r, r \in F)]

\* Lemma: what a job reads is its two lists, and the diagnoses of some of its pods.
LEMMA JobReadingsAre ==
  ASSUME NEW j, NEW late, NEW g \in JobReadings(j, late)
  PROVE  \E F \in SUBSET {The("pods"), The("events")} :
           /\ late => The("pods") \in F
           /\ \A r \in {The("pods"), The("events")} : r \in DOMAIN g /\ g[r] = JobLists(j, F)[r]
           /\ \A r \in DOMAIN g : r \in {The("pods"), The("events")} \/ r[1] = "diagnosis"
           /\ \A r \in DOMAIN g : r[1] = "diagnosis" =>
                /\ g[r].kind = "found"
                /\ \/ g[r].value = {}
                   \/ \E p \in Deep(j, JobLists(j, F)) : r = Diagnosis(p) /\ g[r].value \in PodEvidence(p, late)
  <1> DEFINE base(F) == JobLists(j, F)
             deep(F) == Deep(j, base(F))
             told(F) == [d \in {Diagnosis(p) : p \in deep(F)} |->
                          (UNION {PodEvidence(p, late) : p \in {q \in deep(F) : Diagnosis(q) = d}})
                          \cup Skipped(deep(F))]
             Some(F) == {f \in [DOMAIN told(F) -> UNION {told(F)[d] : d \in DOMAIN told(F)}] :
                           \A d \in DOMAIN told(F) : f[d] \in told(F)[d]}
             lists == {The("pods"), The("events")}
  <1>1. PICK F \in SUBSET lists : /\ late => Cardinality(F) = 2
                                  /\ \E f \in Some(F) :
                                       g = Beside(base(F), [d \in DOMAIN told(F) |-> [kind |-> "found", value |-> f[d]]])
    BY Zenon DEF JobReadings, JobLists
  <1>2. PICK f \in Some(F) : g = Beside(base(F), [d \in DOMAIN told(F) |-> [kind |-> "found", value |-> f[d]]])
    BY <1>1
  <1> DEFINE diags == [d \in DOMAIN told(F) |-> [kind |-> "found", value |-> f[d]]]
  <1>3. DOMAIN told(F) = {Diagnosis(p) : p \in deep(F)}
    OBVIOUS
  <1>4. \A d \in DOMAIN told(F) :
          \/ f[d] = {}
          \/ \E p \in deep(F) : d = Diagnosis(p) /\ f[d] \in PodEvidence(p, late)
    <2> SUFFICES ASSUME NEW d \in DOMAIN told(F)
                 PROVE  f[d] = {} \/ \E p \in deep(F) : d = Diagnosis(p) /\ f[d] \in PodEvidence(p, late)
      OBVIOUS
    <2>1. f[d] \in told(F)[d]
      BY <1>2
    <2>2. told(F)[d] = (UNION {PodEvidence(p, late) : p \in {q \in deep(F) : Diagnosis(q) = d}})
                       \cup Skipped(deep(F))
      OBVIOUS
    <2> HIDE DEF told, deep, Some
    <2> QED
      BY <2>1, <2>2 DEF Skipped, When
  <1>5. late => The("pods") \in F
    <2> SUFFICES ASSUME late, The("pods") \notin F PROVE FALSE
      OBVIOUS
    <2>1. F \subseteq {The("events")}
      OBVIOUS
    <2>2. IsFiniteSet({The("events")}) /\ Cardinality({The("events")}) = 1
      BY FS_Singleton
    <2>3. Cardinality(F) <= 1 /\ Cardinality(F) = 2
      BY <1>1, <2>1, <2>2, FS_Subset
    <2> QED
      BY <2>3
  <1>6. g = Beside(base(F), diags)
    BY <1>2
  <1>7. DOMAIN base(F) = lists /\ DOMAIN diags = {Diagnosis(p) : p \in deep(F)}
    BY <1>3 DEF JobLists
  <1>8. \A d \in DOMAIN diags : diags[d] = [kind |-> "found", value |-> f[d]]
    OBVIOUS
  <1>9. (\A r \in lists : r[1] # "diagnosis") /\ \A p : Diagnosis(p)[1] = "diagnosis"
    BY TheNames DEF Diagnosis
  <1> HIDE DEF base, deep, told, diags, Some, lists
  <1>10. /\ \A r \in lists : r \in DOMAIN g /\ g[r] = base(F)[r]
         /\ \A r \in DOMAIN g : r \in lists \/ r[1] = "diagnosis"
         /\ \A r \in DOMAIN g : r[1] = "diagnosis" => r \in DOMAIN diags /\ g[r] = diags[r]
    BY <1>6, <1>7, <1>9 DEF Beside
  <1>11. \A r \in DOMAIN g : r[1] = "diagnosis" =>
           /\ g[r].kind = "found"
           /\ \/ g[r].value = {}
              \/ \E p \in Deep(j, base(F)) : r = Diagnosis(p) /\ g[r].value \in PodEvidence(p, late)
    <2> SUFFICES ASSUME NEW r \in DOMAIN g, r[1] = "diagnosis"
                 PROVE  /\ g[r].kind = "found"
                        /\ \/ g[r].value = {}
                           \/ \E p \in deep(F) : r = Diagnosis(p) /\ g[r].value \in PodEvidence(p, late)
      BY DEF deep
    <2>1. r \in DOMAIN diags /\ g[r] = diags[r] /\ r \in DOMAIN told(F)
      BY <1>3, <1>7, <1>10
    <2>2. g[r].kind = "found" /\ g[r].value = f[r]
      BY <1>8, <2>1
    <2> QED
      BY <1>4, <2>1, <2>2
  <1> QED
    BY <1>5, <1>10, <1>11 DEF base, lists

\* Lemma: a job's evidence is about the job and its pods, or their nodes.
LEMMA AboutJobEvidence ==
  ASSUME NEW j, j.kind = "Job", HasLists(j), NEW late, NEW e \in JobEvidence(j, late), NEW s \in e
  PROVE  s.about \in NamesAt(j)
  <1>1. PICK g \in JobReadings(j, late) :
          e = Nested(JobSignals(j, g) \cup EventsOrWarning(g[The("events")], j.name))
    BY DEF JobEvidence
  <1>2. PICK t \in JobSignals(j, g) \cup EventsOrWarning(g[The("events")], j.name) :
          s = Signal(t.source, "", t.text \ {"Job"}, "warning", t.about)
    BY <1>1, NestedIs
  <1>3. s.about = t.about
    BY <1>2 DEF Signal
  <1>4. CASE t.about = j.name
    BY <1>3, <1>4 DEF NamesAt
  <1>5. CASE t.about # j.name
    <2>0. t \in JobSignals(j, g)
      BY <1>2, <1>5, AboutEvents
    <2>1. PICK q : Diagnosis(q) \in DOMAIN g /\ t \in g[Diagnosis(q)].value
      BY <1>5, <2>0, AboutKinds DEF OwnOrDeep
    <2>2. PICK F \in SUBSET {The("pods"), The("events")} :
            \A r \in DOMAIN g : r[1] = "diagnosis" =>
              \/ g[r].value = {}
              \/ \E p \in Deep(j, JobLists(j, F)) : r = Diagnosis(p) /\ g[r].value \in PodEvidence(p, late)
      BY JobReadingsAre
    <2> DEFINE base == JobLists(j, F)
    <2>3. Diagnosis(q)[1] = "diagnosis"
      BY DEF Diagnosis
    <2>4. PICK p \in Deep(j, base) : g[Diagnosis(q)].value \in PodEvidence(p, late)
      BY <2>1, <2>2, <2>3
    <2>5. p \in Elements(ListOf(base, "pods"))
      BY <2>4, DeepIn DEF Owners, Pods
    <2>6. The("pods") \in DOMAIN j.there /\ ListOf(base, "pods") = j.there[The("pods")]
      <3>1. Found(base, The("pods"))
        <4> HIDE DEF base
        <4> QED
          BY <2>5, EmptyHasNone DEF ListOf
      <3>2. base[The("pods")] = AnswerTo(j, The("pods"), The("pods") \in F)
        BY DEF JobLists
      <3> HIDE DEF base
      <3> QED
        BY <3>1, <3>2 DEF Found, ListOf, AnswerTo
    <2>7. p \in Elements(j.there[The("pods")]) /\ IsPod(p)
      BY <2>5, <2>6 DEF HasLists
    <2>8. t.about \in {p.name, "node"}
      BY <2>1, <2>4, <2>7, AboutPodEvidence
    <2> QED
      BY <1>3, <2>6, <2>7, <2>8 DEF NamesAt, When
  <1> QED
    BY <1>4, <1>5

\* Lemma: what was diagnosed with an object gives evidence of the names about it.
LEMMA AboutDeep ==
  ASSUME ReadingInv, DeepInv, stage # "resolve", NEW r \in DOMAIN got, r[1] = "diagnosis", NEW s \in got[r].value
  PROVE  s.about \in NamesAbout(object)
  <1>0. object \in Objects
    BY DEF ReadingInv
  <1>1. object.kind \in Owners
    BY DEF DeepInv
  <1>2. PICK i \in Deep(object, got), late \in BOOLEAN : got[r].value \in EvidenceOf(object, i, late)
    BY DEF DeepInv
  <1>3. \A what : Found(got, The(what)) /\ what # "diagnosis" /\ what # "graph" =>
          The(what) \in DOMAIN object.there /\ ListOf(got, what) = object.there[The(what)]
    BY FoundIsThere, TheNames DEF ListOf
  <1>4. CASE object.kind = "CronJob"
    <2>1. i \in Elements(ListOf(got, "jobs")) /\ Found(got, The("jobs"))
      BY <1>1, <1>2, <1>4, DeepIn, DeepNeeds DEF Owned
    <2>2. The("jobs") \in DOMAIN object.there /\ i \in Elements(object.there[The("jobs")])
      BY <1>3, <2>1
    <2>3. got[r].value \in JobEvidence(i, late)
      BY <1>2, <1>4 DEF EvidenceOf
    <2>4. i.kind = "Job" /\ HasLists(i)
      BY <1>0, <1>4, <2>2, ObjectAssumption
    <2>5. s.about \in NamesAt(i)
      BY <2>3, <2>4, AboutJobEvidence
    <2> QED
      BY <1>4, <2>2, <2>5 DEF NamesAbout, When
  <1>5. CASE object.kind # "CronJob"
    <2>1. i \in Elements(ListOf(got, "pods")) /\ Found(got, The("pods"))
      BY <1>1, <1>2, <1>5, DeepIn, DeepNeeds DEF Pods
    <2>2. The("pods") \in DOMAIN object.there /\ i \in Elements(object.there[The("pods")])
      BY <1>3, <2>1
    <2>3. got[r].value \in PodEvidence(i, late)
      BY <1>2, <1>5 DEF EvidenceOf
    <2>4. IsPod(i)
      BY <1>0, <2>2, ObjectAssumption DEF HasLists
    <2>5. s.about \in {i.name, "node"}
      BY <2>3, <2>4, AboutPodEvidence
    <2> QED
      BY <2>2, <2>5 DEF NamesAbout, NamesAt, When
  <1> QED
    BY <1>4, <1>5

\* Lemma: the signals of an answer are about the object and what is below it.
LEMMA AnswerIsAbout ==
  ASSUME ReadingInv, DeepInv, stage # "resolve", NEW r \in Responses(object, got)
  PROVE  \E S : MadeOf(S, r) /\ \A s \in S : s.about \in NamesAbout(object)
  <1> DEFINE events == EventsOrWarning(got[The("events")], object.name)
             About(S) == \A s \in S : s.about \in NamesAbout(object)
  <1>0. object \in Objects /\ object.kind \in Kinds
    BY ObjectFacts DEF ReadingInv
  <1>1. object.name \in NamesAbout(object) /\ "node" \in NamesAbout(object)
    BY DEF NamesAbout, NamesAt
  <1>2. About(events)
    BY <1>1, AboutEvents
  <1>3. \A s : OwnOrDeep(object, got, s) => s.about \in NamesAbout(object)
    <2>1. \A p : Diagnosis(p)[1] = "diagnosis"
      BY DEF Diagnosis
    <2> QED
      BY <1>1, <2>1, AboutDeep DEF OwnOrDeep
  <1> HIDE DEF events
  <1>4. \A S : About(S) => About(S \cup events)
    BY <1>2
  <1>5. /\ \A m : About(DeploymentSignals(object, got, m))
        /\ About(StatefulSetSignals(object, got)) /\ About(DaemonSetSignals(object, got))
        /\ About(JobSignals(object, got)) /\ About(CronJobSignals(object, got))
        /\ About(ServiceSignals(object, got)) /\ About(IngressSignals(object, got))
        /\ \A gone : About(ClaimSignals(object, gone))
        /\ About(NodeStatusSignals(object)) /\ About(GenericSignals(object))
    BY <1>1, <1>3, AboutKinds
  <1>6. object.kind = "Pod" => About(PodSignals(object, got))
    BY <1>0, <1>1, ObjectAssumption, AboutPod
  <1> HIDE DEF About
  <1>7. \E S : MadeOf(S, r) /\ About(S)
    BY <1>0, <1>4, <1>5, <1>6, ResponsesTell DEF Kinds, events
  <1> QED
    BY <1>7 DEF About

\* A root cause is given exactly for what is unhealthy, and no hypothesis is above it: whatever
\* was read of whatever objects, and however they are classified, the signals of an unhealthy
\* object have a category, and the ranking of the hypotheses has a first.
THEOREM UnhealthyIsExplainedHolds == Spec => []UnhealthyIsExplained
  <1>1. ReadingInv /\ AnswerInv /\ DeepInv => UnhealthyIsExplained
    <2> SUFFICES ASSUME ReadingInv, AnswerInv, DeepInv, stage = "answered" PROVE Explained(answer)
      BY DEF UnhealthyIsExplained, Answered, Explained
    <2>1. PICK r \in Responses(object, got) : answer \in {r, DemoteConfirmed(r)}
      BY DEF AnswerInv
    <2>2. PICK S : MadeOf(S, r) /\ \A s \in S : s.about \in NamesAbout(object)
      BY AnswerIsAbout
    <2>3. AboutFew(S)
      <3>1. IsFiniteSet(NamesAbout(object))
        BY FiniteAbout DEF ReadingInv
      <3> QED
        BY <2>2, <3>1, FS_Subset DEF AboutFew
    <2>4. PICK limited \in BOOLEAN : Marked(Assemble(S, limited), r)
      BY <2>2 DEF MadeOf
    <2>5. Explained(Assemble(S, limited))
      BY <2>3, AssembleExplains
    <2> QED
      BY <2>1, <2>4, <2>5, StillExplained
  <1> QED
    BY <1>1, ReadingInvHolds, SeenInvHolds, PTL

----------------------------------------------------------------------------
(* What confirms.                                                          *)

\* Lemma: the confirmations that name what happened to a container, and their words.
LEMMA ProofIs ==
  /\ DOMAIN Proof = {"OOM_KILLED", "CRASH_LOOP", "IMAGE_PULL_FAILURE"}
  /\ Proof["OOM_KILLED"] = {"OOMKilled"} /\ UNION Confirming["OOM_KILLED"] = {"oomkill"}
  /\ Proof["CRASH_LOOP"] = {"CrashLoopBackOff"} /\ UNION Confirming["CRASH_LOOP"] = {"crashloop"}
  /\ Proof["IMAGE_PULL_FAILURE"] = {"ImagePullBackOff", "ErrImagePull"}
  /\ UNION Confirming["IMAGE_PULL_FAILURE"] = {"imagepull", "errimagepull"}
  /\ \A c \in DOMAIN Proof : \A words \in Confirming[c] : words # {}
  <1>1. DOMAIN Proof = {"OOM_KILLED", "CRASH_LOOP", "IMAGE_PULL_FAILURE"}
    BY DEF Proof
  <1>2. /\ Proof["OOM_KILLED"] = {"OOMKilled"} /\ Proof["CRASH_LOOP"] = {"CrashLoopBackOff"}
        /\ Proof["IMAGE_PULL_FAILURE"] = {"ImagePullBackOff", "ErrImagePull"}
    BY DEF Proof
  <1>3. /\ Confirming["OOM_KILLED"] = {{"oomkill"}} /\ Confirming["CRASH_LOOP"] = {{"crashloop"}}
        /\ Confirming["IMAGE_PULL_FAILURE"] = {{"imagepull"}, {"errimagepull"}}
    BY DEF Confirming
  <1>4. UNION {{"oomkill"}} = {"oomkill"} /\ UNION {{"crashloop"}} = {"crashloop"}
    OBVIOUS
  <1>5. UNION {{"imagepull"}, {"errimagepull"}} = {"imagepull", "errimagepull"}
    OBVIOUS
  <1> QED
    BY <1>1, <1>2, <1>3, <1>4, <1>5

\* Words that confirm the category.
Confirms(c, words) == words \cap UNION Confirming[c] # {}

\* Lemma: of the reasons, those that confirm a category are the ones it is proved by.
LEMMA ReasonProves ==
  ASSUME NEW c \in DOMAIN Proof, NEW r, Confirms(c, KeywordsOf(r))
  PROVE  r \in Proof[c]
  <1> DEFINE words == {"oomkill", "crashloop", "imagepull", "errimagepull"}
             Mute(x) == ReasonText[x] \cap words = {}
             others == {"CreateContainerConfigError", "auth_failure", "unschedulable",
                       "FailedScheduling", "FailedMount", "Failed", "ProgressDeadlineExceeded",
                       "BACKOFF_LIMIT_EXCEEDED", "READINESS_PROBE_FAILED",
                       "LIVENESS_PROBE_FAILED", "STARTUP_PROBE_FAILED", "MISSING_CONFIGMAP",
                       "MISSING_SECRET", "PVC_NOT_FOUND", "PVC_PENDING", "JOB_POD_FAILED",
                       "UNSUPPORTED_SCHEDULER_CONSTRAINT", "TARGET_PORT_NOT_FOUND",
                       "INSUFFICIENT_CPU", "INSUFFICIENT_MEMORY",
                       "TAINT_NOT_TOLERATED", "NODE_AFFINITY_MISMATCH", "NO_ELIGIBLE_NODE",
                       "SERVICE_NO_SELECTOR", "SERVICE_NO_MATCHING_PODS",
                       "SERVICE_NO_READY_PODS", "SERVICE_NO_READY_ENDPOINTS",
                       "SERVICE_NO_ENDPOINTS", "SERVICE_PORT_MISMATCH",
                       "INGRESS_BACKEND_MISSING", "INGRESS_BACKEND_PORT_INVALID",
                       "INGRESS_NO_READY_ENDPOINTS", "INGRESS_TLS_SECRET_MISSING",
                       "INGRESS_CLASS_MISSING", "Ready", "DiskPressure", "MemoryPressure",
                       "PIDPressure"}
  <1>1. DOMAIN ReasonText =
          {"OOMKilled", "CrashLoopBackOff", "ImagePullBackOff", "ErrImagePull"} \cup others
    BY DEF ReasonText
  <1>2. /\ Mute("CreateContainerConfigError") /\ Mute("auth_failure") /\ Mute("unschedulable")
        /\ Mute("FailedScheduling") /\ Mute("FailedMount") /\ Mute("Failed")
        /\ Mute("ProgressDeadlineExceeded") /\ Mute("BACKOFF_LIMIT_EXCEEDED")
        /\ Mute("TARGET_PORT_NOT_FOUND") /\ Mute("READINESS_PROBE_FAILED") /\ Mute("LIVENESS_PROBE_FAILED")
        /\ Mute("STARTUP_PROBE_FAILED") /\ Mute("MISSING_CONFIGMAP") /\ Mute("MISSING_SECRET")
        /\ Mute("PVC_NOT_FOUND") /\ Mute("PVC_PENDING") /\ Mute("JOB_POD_FAILED")
        /\ Mute("UNSUPPORTED_SCHEDULER_CONSTRAINT") /\ Mute("INSUFFICIENT_CPU") /\ Mute("INSUFFICIENT_MEMORY")
        /\ Mute("TAINT_NOT_TOLERATED") /\ Mute("NODE_AFFINITY_MISMATCH")
        /\ Mute("NO_ELIGIBLE_NODE") /\ Mute("SERVICE_NO_SELECTOR")
        /\ Mute("SERVICE_NO_MATCHING_PODS") /\ Mute("SERVICE_NO_READY_PODS")
        /\ Mute("SERVICE_NO_READY_ENDPOINTS") /\ Mute("SERVICE_NO_ENDPOINTS")
        /\ Mute("SERVICE_PORT_MISMATCH") /\ Mute("INGRESS_BACKEND_MISSING")
        /\ Mute("INGRESS_BACKEND_PORT_INVALID") /\ Mute("INGRESS_NO_READY_ENDPOINTS")
        /\ Mute("INGRESS_TLS_SECRET_MISSING") /\ Mute("INGRESS_CLASS_MISSING") /\ Mute("Ready")
        /\ Mute("DiskPressure") /\ Mute("MemoryPressure") /\ Mute("PIDPressure")
    BY DEF ReasonText
  <1>3. /\ ReasonText["OOMKilled"] = {"oomkill"} /\ ReasonText["CrashLoopBackOff"] = {"crashloop"}
        /\ ReasonText["ImagePullBackOff"] = {"imagepull", "image"}
        /\ ReasonText["ErrImagePull"] = {"imagepull", "errimagepull", "image"}
    BY DEF ReasonText
  <1>4. \A x \in others : Mute(x)
    BY <1>2
  <1> HIDE DEF others
  <1>5. \A k \in KeywordsOf(r) \cap words :
          /\ k = "oomkill" => r = "OOMKilled"
          /\ k = "crashloop" => r = "CrashLoopBackOff"
          /\ k \in {"imagepull", "errimagepull"} => r \in {"ImagePullBackOff", "ErrImagePull"}
    BY <1>1, <1>3, <1>4 DEF KeywordsOf
  <1> QED
    BY <1>5, ProofIs DEF Confirms

\* Lemma: a union of words confirms what one of its parts does.
LEMMA ConfirmsEither ==
  ASSUME NEW c, NEW a, NEW b, Confirms(c, a \cup b)
  PROVE  Confirms(c, a) \/ Confirms(c, b)
  BY DEF Confirms

\* The status of a pod below o has one of the category's reasons.
Borne(o, c) == \E p \in Below(o) : SaidOf(p) \cap Proof[c] # {}

\* These words confirm nothing that is not borne.
Bears(o, words) == \A c \in DOMAIN Proof : Confirms(c, words) => Borne(o, c)

\* A status or condition that confirms nothing that is not borne.
Backed(o, s) == s.source \in {"STATUS", "CONDITION"} => Bears(o, Words(s))

\* Lemma: words that are borne, one set or both.
LEMMA BearsBoth ==
  ASSUME NEW o, NEW a, NEW b
  PROVE  /\ Bears(o, a) /\ Bears(o, b) => Bears(o, a \cup b)
         /\ Bears(o, a \cup b) => Bears(o, b)
         /\ a \subseteq b /\ Bears(o, b) => Bears(o, a)
  BY ConfirmsEither DEF Bears, Confirms

\* Lemma: a reason that a pod below gives is borne, and so is one that proves nothing.
LEMMA ReasonBorne ==
  ASSUME NEW o, NEW r,
         \/ \E p \in Below(o) : r \in SaidOf(p)
         \/ r \notin {"OOMKilled", "CrashLoopBackOff", "ImagePullBackOff", "ErrImagePull"}
  PROVE  Bears(o, KeywordsOf(r))
  <1> SUFFICES ASSUME NEW c \in DOMAIN Proof, Confirms(c, KeywordsOf(r)) PROVE Borne(o, c)
    BY DEF Bears
  <1>1. r \in Proof[c]
    BY ReasonProves
  <1>2. r \in {"OOMKilled", "CrashLoopBackOff", "ImagePullBackOff", "ErrImagePull"}
    BY <1>1, ProofIs
  <1> QED
    BY <1>1, <1>2 DEF Borne

\* Lemma: words without those that confirm are borne.
LEMMA PlainBorne ==
  ASSUME NEW o, NEW words, words \cap {"oomkill", "crashloop", "imagepull", "errimagepull"} = {}
  PROVE  Bears(o, words)
  BY ProofIs DEF Bears, Confirms

\* Lemma: a signal is backed when its reason and its text are borne.
LEMMA BackedSignal ==
  ASSUME NEW o, NEW source, NEW reason, NEW text, NEW severity, NEW about,
         source \in {"STATUS", "CONDITION"} => Bears(o, KeywordsOf(reason)) /\ Bears(o, text)
  PROVE  Backed(o, Signal(source, reason, text, severity, about))
  BY SignalIs, BearsBoth DEF Backed, Words

----------------------------------------------------------------------------
(* The pods below.                                                         *)

\* Lemma: which pods a diagnosis may look at.
LEMMA BelowHas ==
  ASSUME NEW o
  PROVE  /\ o.kind = "Pod" => Below(o) = {o}
         /\ o.kind # "Pod" /\ The("pods") \in DOMAIN o.there =>
              \A p \in Elements(o.there[The("pods")]) : p \in Below(o)
         /\ o.kind = "CronJob" =>
              \A j \in Elements(o.there[The("jobs")]) : The("pods") \in DOMAIN j.there =>
                \A p \in Elements(j.there[The("pods")]) : p \in Below(o)
  <1>1. CASE o.kind = "Pod"
    BY <1>1, Zenon DEF Below
  <1>2. CASE o.kind # "Pod"
    <2> DEFINE listing == {j \in {o} \cup (IF o.kind = "CronJob" THEN Elements(o.there[The("jobs")]) ELSE {}) :
                             The("pods") \in DOMAIN j.there}
    <2>1. Below(o) = UNION {Elements(i.there[The("pods")]) : i \in listing}
      BY <1>2, Zenon DEF Below
    <2>2. \A i \in listing : \A p \in Elements(i.there[The("pods")]) : p \in Below(o)
      BY <2>1, Zenon
    <2>3. The("pods") \in DOMAIN o.there => o \in listing
      OBVIOUS
    <2>4. o.kind = "CronJob" =>
            \A j \in Elements(o.there[The("jobs")]) : The("pods") \in DOMAIN j.there => j \in listing
      OBVIOUS
    <2> HIDE DEF listing
    <2> QED
      BY <1>2, <2>2, <2>3, <2>4
  <1> QED
    BY <1>1, <1>2

\* Lemma: what a container's status says is said of its pod.
LEMMA SaidIs ==
  ASSUME NEW p, NEW c \in Elements(p.containers)
  PROVE  /\ c.waiting \in SaidOf(p) /\ c.exited \in SaidOf(p)
         /\ c.lastOOM => "OOMKilled" \in SaidOf(p)
  <1> DEFINE Said(d) == {d.waiting, d.exited} \cup When(d.lastOOM, {"OOMKilled"})
  <1>1. SaidOf(p) = UNION {Said(d) : d \in Elements(p.containers)}
    BY Zenon DEF SaidOf
  <1>2. c.waiting \in Said(c) /\ c.exited \in Said(c) /\ (c.lastOOM => "OOMKilled" \in Said(c))
    BY DEF When
  <1> HIDE DEF Said
  <1> QED
    BY <1>1, <1>2

\* Lemma: what is worded freely about a pod below is borne.
LEMMA WordingBorne ==
  ASSUME NEW o, PlainlyWorded(o)
  PROVE  /\ Bears(o, OwnWording(o))
         /\ \A p \in Below(o) : Bears(o, PodWording(p))
  <1> DEFINE worded == OwnWording(o) \cup UNION {PodWording(p) : p \in Below(o)}
  <1>1. \A c \in DOMAIN Proof :
          worded \cap UNION Confirming[c] # {} => \E p \in Below(o) : SaidOf(p) \cap Proof[c] # {}
    BY Zenon DEF PlainlyWorded
  <1>2. OwnWording(o) \subseteq worded /\ \A p \in Below(o) : PodWording(p) \subseteq worded
    OBVIOUS
  <1> HIDE DEF worded
  <1>3. Bears(o, worded)
    BY <1>1 DEF Bears, Confirms, Borne
  <1> QED
    BY <1>2, <1>3, BearsBoth
----------------------------------------------------------------------------
(* Every status and condition is backed.                                   *)

\* Lemma: the same of three parts of a text.
LEMMA BearsThree ==
  ASSUME NEW o, NEW a, NEW b, NEW c, Bears(o, a), Bears(o, b), Bears(o, c)
  PROVE  Bears(o, a \cup b \cup c)
  BY BearsBoth

\* Lemma: what a container's status says is backed.
LEMMA ContainerBacked ==
  ASSUME NEW o, PlainlyWorded(o), NEW p \in Below(o), NEW c \in Elements(p.containers),
         NEW s \in ContainerSignals(p, c)
  PROVE  Backed(o, s)
  <1> DEFINE Say(reason, text, severity) == Signal("STATUS", reason, text \cup {"container"}, severity, p.name)
             often == IF c.restarts > 5 THEN "critical" ELSE "warning"
  <1>1. ContainerSignals(p, c) =
          When(c.waiting # "", {Say(c.waiting, c.text \cup KeywordsOf(c.waiting), "critical")})
          \cup When(c.failed, {Say(IF c.exited = "" THEN "Error" ELSE c.exited, KeywordsOf(c.exited), "critical")})
          \cup When(c.lastOOM, {Say("OOMKilled", {"oomkill"}, "critical")})
          \cup When(c.restarts > 0, {Say("Restarts", {}, often)})
    BY Zenon DEF ContainerSignals
  <1>2. ASSUME NEW reason, NEW text, NEW severity, Bears(o, KeywordsOf(reason)), Bears(o, text)
        PROVE  Backed(o, Say(reason, text, severity))
    <2>1. Bears(o, {"container"})
      BY PlainBorne
    <2>2. Bears(o, text \cup {"container"})
      BY <1>2, <2>1, BearsBoth
    <2> QED
      BY <1>2, <2>2, BackedSignal
  <1> HIDE DEF Say, often
  <1>3. Bears(o, KeywordsOf(c.waiting)) /\ Bears(o, KeywordsOf(c.exited))
    BY SaidIs, ReasonBorne
  <1>4. Bears(o, c.text)
    <2>1. c.text \subseteq PodWording(p)
      BY Zenon DEF PodWording
    <2> QED
      BY <2>1, WordingBorne, BearsBoth
  <1>5. Bears(o, c.text \cup KeywordsOf(c.waiting))
    BY <1>3, <1>4, BearsBoth
  <1>6. Bears(o, KeywordsOf("Error")) /\ Bears(o, KeywordsOf("Restarts")) /\ Bears(o, {})
    BY ReasonBorne, PlainBorne
  <1>7. c.lastOOM => Bears(o, KeywordsOf("OOMKilled")) /\ Bears(o, {"oomkill"})
    <2>1. KeywordsOf("OOMKilled") = {"oomkill"}
      BY DEF KeywordsOf, ReasonText
    <2> QED
      BY <2>1, SaidIs, ReasonBorne
  <1>8. \/ s = Say(c.waiting, c.text \cup KeywordsOf(c.waiting), "critical")
        \/ s = Say(IF c.exited = "" THEN "Error" ELSE c.exited, KeywordsOf(c.exited), "critical")
        \/ c.lastOOM /\ s = Say("OOMKilled", {"oomkill"}, "critical")
        \/ s = Say("Restarts", {}, often)
    BY <1>1 DEF When
  <1> QED
    BY <1>2, <1>3, <1>5, <1>6, <1>7, <1>8

\* Lemma: so are the conditions of a pod, and what is said of its probes.
LEMMA StatusBacked ==
  ASSUME NEW o, PlainlyWorded(o), NEW p \in Below(o)
  PROVE  \A s \in StatusSignals(p) \cup ProbeSignals(p) : Backed(o, s)
  <1>1. ASSUME NEW s \in StatusSignals(p) PROVE Backed(o, s)
    <2>1. \/ \E c \in Elements(p.containers) : s \in ContainerSignals(p, c)
          \/ \E c \in p.conditions :
               s = Signal("CONDITION", c.type, c.text \cup KeywordsOf(c.type) \cup {"false"}, "warning", p.name)
      BY Zenon DEF StatusSignals
    <2>2. ASSUME NEW c \in p.conditions,
                 s = Signal("CONDITION", c.type, c.text \cup KeywordsOf(c.type) \cup {"false"}, "warning", p.name)
          PROVE  Backed(o, s)
      <3>1. c.text \cup KeywordsOf(c.type) \subseteq PodWording(p)
        BY Zenon DEF PodWording
      <3>2. Bears(o, c.text) /\ Bears(o, KeywordsOf(c.type)) /\ Bears(o, {"false"})
        BY <3>1, WordingBorne, BearsBoth, PlainBorne
      <3>3. Bears(o, c.text \cup KeywordsOf(c.type) \cup {"false"})
        BY <3>2, BearsThree
      <3> QED
        BY <2>2, <3>2, <3>3, BackedSignal
    <2> QED
      BY <2>1, <2>2, ContainerBacked
  <1>2. ASSUME NEW s \in ProbeSignals(p) PROVE Backed(o, s)
    <2> DEFINE Reason == [readiness |-> "READINESS_PROBE_FAILED", liveness |-> "LIVENESS_PROBE_FAILED",
                          startup |-> "STARTUP_PROBE_FAILED"]
    <2>1. PICK k \in {"readiness", "liveness", "startup"} :
            s = Signal("STATUS", Reason[k], {"container", "probe", k}, "warning", p.name)
      BY Zenon DEF ProbeSignals
    <2>2. Reason[k] \in {"READINESS_PROBE_FAILED", "LIVENESS_PROBE_FAILED", "STARTUP_PROBE_FAILED"}
      OBVIOUS
    <2> HIDE DEF Reason
    <2>3. Bears(o, KeywordsOf(Reason[k])) /\ Bears(o, {"container", "probe", k})
      BY <2>2, ReasonBorne, PlainBorne
    <2> QED
      BY <2>1, <2>3, BackedSignal
  <1> QED
    BY <1>1, <1>2

\* Lemma: and of a node, when it may be worded so.
LEMMA NodeBacked ==
  ASSUME NEW o, NEW p, NEW n, Bears(o, NodeWording(n)), NEW s \in NodeSignals(p, n)
  PROVE  Backed(o, s)
  <1>1. \/ \E t \in DOMAIN n.conditions :
             s = Signal("CONDITION", t, KeywordsOf(t) \cup n.text \cup {"node"}
                          \cup (IF n.conditions[t] = "False" THEN {"false"} ELSE {}), "critical", p.name)
        \/ s = Signal("SCHEDULER", "unschedulable", {"node", "schedul"}, "warning", p.name)
    BY DEF NodeSignals, When
  <1>2. ASSUME NEW t \in DOMAIN n.conditions,
               s = Signal("CONDITION", t, KeywordsOf(t) \cup n.text \cup {"node"}
                          \cup (IF n.conditions[t] = "False" THEN {"false"} ELSE {}), "critical", p.name)
        PROVE  Backed(o, s)
    <2> DEFINE false == IF n.conditions[t] = "False" THEN {"false"} ELSE {}
    <2>1. KeywordsOf(t) \cup n.text \subseteq NodeWording(n)
      BY Zenon DEF NodeWording
    <2>2. Bears(o, KeywordsOf(t)) /\ Bears(o, n.text)
      BY <2>1, BearsBoth
    <2>3. Bears(o, {"node"}) /\ Bears(o, false)
      BY PlainBorne
    <2> HIDE DEF false
    <2>4. Bears(o, KeywordsOf(t) \cup n.text \cup {"node"} \cup false)
      BY <2>2, <2>3, BearsThree, BearsBoth
    <2> QED
      BY <1>2, <2>2, <2>4, BackedSignal DEF false
  <1>3. ASSUME s = Signal("SCHEDULER", "unschedulable", {"node", "schedul"}, "warning", p.name)
        PROVE  Backed(o, s)
    BY <1>3, SignalIs DEF Backed
  <1> QED
    BY <1>1, <1>2, <1>3

\* Lemma: so all that is said of a pod below is.
LEMMA PodBacked ==
  ASSUME NEW o, PlainlyWorded(o), NEW p \in Below(o), IsPod(p), NEW g,
         The("node") \in DOMAIN g /\ g[The("node")].kind = "found" =>
           The("node") \in DOMAIN p.there /\ g[The("node")].value = p.there[The("node")],
         NEW s \in PodSignals(p, g)
  PROVE  Backed(o, s)
  <1>1. \A t : t.source \notin {"STATUS", "CONDITION"} => Backed(o, t)
    BY DEF Backed
  <1>2. \A t \in StatusSignals(p) \cup ProbeSignals(p) : Backed(o, t)
    BY StatusBacked
  <1>3. \A a : \A t \in ScheduleSignals(p, a) : Backed(o, t)
    BY <1>1, ReadSignalsAre
  <1>4. \A a : \A r \in Elements(p.refs) : \A t \in RefSignals(p, r, a) : Backed(o, t)
    BY <1>1, RefSignalsAre
  <1>5. \A a : \A t \in EventsOrWarning(a, p.name) \cup EventsOrWarning(a, "node") \cup LogSignals(a, p.name) :
          Backed(o, t)
    BY <1>1, AboutEvents
  <1> DEFINE high == Signal("METRIC", "high_memory", {}, "warning", p.name)
             there == The("node") \in DOMAIN g /\ g[The("node")].kind = "found"
  <1>6. Backed(o, high)
    BY <1>1, SignalIs
  <1>7. ASSUME there PROVE \A t \in NodeSignals(p, g[The("node")].value) : Backed(o, t)
    <2> DEFINE n == p.there[The("node")]
    <2>1. g[The("node")].value = n /\ The("node") \in DOMAIN p.there
      BY <1>7
    <2>2. NodeWording(n) \subseteq PodWording(p)
      BY <2>1, Zenon DEF PodWording
    <2>3. Bears(o, NodeWording(n))
      BY <2>2, WordingBorne, BearsBoth
    <2> HIDE DEF n
    <2> QED
      BY <2>1, <2>3, NodeBacked
  <1> HIDE DEF high
  <1> QED
    BY <1>2, <1>3, <1>4, <1>5, <1>6, <1>7, PodSignalFrom, Zenon DEF high

\* Lemma: nested evidence is backed as what it is made of.
LEMMA NestedBacked ==
  ASSUME NEW o, NEW S, \A t \in S : Backed(o, t)
  PROVE  \A s \in Nested(S) : Backed(o, s)
  <1> SUFFICES ASSUME NEW s \in Nested(S) PROVE Backed(o, s)
    OBVIOUS
  <1>1. PICK t \in S : s = Signal(t.source, "", t.text \ {"Job"}, "warning", t.about)
    BY NestedIs
  <1>2. Bears(o, KeywordsOf(""))
    BY ReasonBorne
  <1> DEFINE rest == t.text \ {"Job"}
  <1>3. t.source \in {"STATUS", "CONDITION"} => Bears(o, rest)
    <2>1. Backed(o, t)
      OBVIOUS
    <2>2. t.source \in {"STATUS", "CONDITION"} => Bears(o, t.text)
      BY <2>1, BearsBoth DEF Backed, Words
    <2>3. rest \subseteq t.text
      OBVIOUS
    <2> HIDE DEF rest
    <2> QED
      BY <2>2, <2>3, BearsBoth
  <1> QED
    BY <1>1, <1>2, <1>3, BackedSignal

\* Lemma: so is the evidence of a pod below.
LEMMA PodEvidenceBacked ==
  ASSUME NEW o, PlainlyWorded(o), NEW p \in Below(o), IsPod(p), NEW late, NEW e \in PodEvidence(p, late)
  PROVE  \A s \in e : Backed(o, s)
  <1>1. PICK g \in PodReadings(p) : e = Nested(PodSignals(p, g))
    BY Zenon DEF PodEvidence, DeepSignals
  <1>2. PICK F : g = [r \in PodReads(p) |-> AnswerTo(p, r, r \in F)]
    BY Zenon DEF PodReadings
  <1>3. The("node") \in DOMAIN g /\ g[The("node")].kind = "found" =>
          The("node") \in DOMAIN p.there /\ g[The("node")].value = p.there[The("node")]
    <2> SUFFICES ASSUME The("node") \in DOMAIN g, g[The("node")].kind = "found"
                 PROVE  The("node") \in DOMAIN p.there /\ g[The("node")].value = p.there[The("node")]
      OBVIOUS
    <2>1. g[The("node")] = AnswerTo(p, The("node"), The("node") \in F)
      BY <1>2
    <2> HIDE <1>2
    <2> QED
      BY <2>1 DEF AnswerTo
  <1>4. \A t \in PodSignals(p, g) : Backed(o, t)
    BY <1>3, PodBacked
  <1> QED
    BY <1>1, <1>4, NestedBacked
----------------------------------------------------------------------------
(* What an owner says of itself, and of what it was diagnosed with.        *)

\* Lemma: what an object tells is backed when the words are.
LEMMA TellBacked ==
  ASSUME NEW x, NEW o, NEW source, NEW reason, NEW text, NEW severity,
         Bears(x, KeywordsOf(reason)), Bears(x, text)
  PROVE  Backed(x, Tell(o, source, reason, text, severity))
  BY BearsBoth, BackedSignal DEF Tell

\* Lemma: so is what proves nothing, or is no status and no condition.
LEMMA PlainTell ==
  ASSUME NEW x, NEW o, NEW source, NEW reason, NEW text, NEW severity,
         \/ source \notin {"STATUS", "CONDITION"}
         \/ /\ reason \notin {"OOMKilled", "CrashLoopBackOff", "ImagePullBackOff", "ErrImagePull"}
            /\ text \cap {"oomkill", "crashloop", "imagepull", "errimagepull"} = {}
  PROVE  Backed(x, Tell(o, source, reason, text, severity))
  <1>1. CASE source \notin {"STATUS", "CONDITION"}
    BY <1>1, TellIs DEF Backed
  <1>2. CASE /\ reason \notin {"OOMKilled", "CrashLoopBackOff", "ImagePullBackOff", "ErrImagePull"}
             /\ text \cap {"oomkill", "crashloop", "imagepull", "errimagepull"} = {}
    BY <1>2, ReasonBorne, PlainBorne, TellBacked
  <1> QED
    BY <1>1, <1>2

\* One of the signals a diagnosis has given.
Deeper(g, s) == \E p : Diagnosis(p) \in DOMAIN g /\ s \in g[Diagnosis(p)].value

\* The signals are backed, but for those a diagnosis has given.
BackedOrDeep(x, g, S) == \A s \in S : Backed(x, s) \/ Deeper(g, s)

\* Lemma: so it is with the parts a kind's signals are put together from.
LEMMA PartsBacked ==
  ASSUME NEW x, NEW o, NEW g
  PROVE  /\ \A S, T : BackedOrDeep(x, g, S) /\ BackedOrDeep(x, g, T) => BackedOrDeep(x, g, S \cup T)
         /\ \A b, S : BackedOrDeep(x, g, S) => BackedOrDeep(x, g, When(b, S))
         /\ \A pods : BackedOrDeep(x, g, DeepOf(pods, g))
         /\ \A reason \in {"InsufficientReplicas", "InsufficientNodes"} : BackedOrDeep(x, g, Short(o, reason, {}))
  <1>1. \A S, T : BackedOrDeep(x, g, S) /\ BackedOrDeep(x, g, T) => BackedOrDeep(x, g, S \cup T)
    BY DEF BackedOrDeep
  <1>2. \A b, S : BackedOrDeep(x, g, S) => BackedOrDeep(x, g, When(b, S))
    BY DEF BackedOrDeep, When
  <1>3. \A pods : BackedOrDeep(x, g, DeepOf(pods, g))
    BY DEF BackedOrDeep, DeepOf, Deeper
  <1>4. ASSUME NEW reason \in {"InsufficientReplicas", "InsufficientNodes"}
        PROVE  BackedOrDeep(x, g, Short(o, reason, {}))
    <2> DEFINE lack == Tell(o, "STATUS", reason, {}, IF o.ready = 0 THEN "critical" ELSE "warning")
    <2>1. Backed(x, lack)
      BY PlainTell
    <2>2. Short(o, reason, {}) = When(o.ready < o.desired, {lack})
      BY Zenon DEF Short
    <2> HIDE DEF lack
    <2> QED
      BY <1>2, <2>1, <2>2 DEF BackedOrDeep
  <1> QED
    BY <1>1, <1>2, <1>3, <1>4

\* Lemma: the kinds whose own words are all the program's.
LEMMA PlainKindsBacked ==
  ASSUME NEW x, NEW o, NEW g
  PROVE  /\ BackedOrDeep(x, g, StatefulSetSignals(o, g)) /\ BackedOrDeep(x, g, DaemonSetSignals(o, g))
         /\ BackedOrDeep(x, g, JobSignals(o, g)) /\ BackedOrDeep(x, g, CronJobSignals(o, g))
         /\ BackedOrDeep(x, g, ServiceSignals(o, g)) /\ BackedOrDeep(x, g, IngressSignals(o, g))
         /\ \A gone : BackedOrDeep(x, g, ClaimSignals(o, gone))
  <1> DEFINE Fits(S) == BackedOrDeep(x, g, S)
             plain == {"replica_status", "revision_mismatch", "PVC_PENDING", "daemonset_status", "Misscheduled",
                       "job_status", "BACKOFF_LIMIT_EXCEEDED", "JOB_TIMEOUT", "JOB_POD_FAILED",
                       "cronjob_status", "concurrency_policy", "Suspended", "never_scheduled"}
  <1>1. /\ \A S, T : Fits(S) /\ Fits(T) => Fits(S \cup T)
        /\ \A b, S : Fits(S) => Fits(When(b, S))
        /\ \A pods : Fits(DeepOf(pods, g))
        /\ Fits(Short(o, "InsufficientReplicas", {})) /\ Fits(Short(o, "InsufficientNodes", {}))
    BY PartsBacked
  <1>2. \A reason \in plain : \A text \in {{}, {"schedul"}, {"failed"}} : \A severity :
          Fits({Tell(o, "STATUS", reason, text, severity)})
    BY PlainTell DEF BackedOrDeep
  <1>3. \A source \in {"NETWORK", "STORAGE"} : \A reason, text, severity :
          Backed(x, Tell(o, source, reason, text, severity))
    BY PlainTell
  <1> HIDE DEF Fits
  <1>4. Fits(StatefulSetSignals(o, g))
    BY <1>1, <1>2, Zenon DEF StatefulSetSignals
  <1>5. Fits(DaemonSetSignals(o, g))
    BY <1>1, <1>2, Zenon DEF DaemonSetSignals
  <1>6. Fits(JobSignals(o, g))
    <2> DEFINE Say(reason, text, severity) == Tell(o, "STATUS", reason, text \cup {"Job"}, severity)
               told == {Say(JobReason(r), {}, "critical") : r \in o.failures}
    <2>1. \A r : JobReason(r) \in plain
      BY Zenon DEF JobReason
    <2>2. Fits(told)
      <3>1. \A r : Backed(x, Say(JobReason(r), {}, "critical"))
        <4> SUFFICES ASSUME NEW r PROVE Backed(x, Say(JobReason(r), {}, "critical"))
          OBVIOUS
        <4>1. JobReason(r) \notin {"OOMKilled", "CrashLoopBackOff", "ImagePullBackOff", "ErrImagePull"}
          BY <2>1
        <4> QED
          BY <4>1, PlainTell
      <3> QED
        BY <3>1 DEF Fits, BackedOrDeep
    <2> DEFINE status == {Say("job_status", {"failed", "backofflimit"}, "info")}
               one == {Say("JOB_POD_FAILED", {"failed"}, "critical")}
               failed == When(o.failed > 0 /\ o.failures = {}, one)
               deep == DeepOf(Pods(o, g), g)
    <2>3. JobSignals(o, g) = status \cup told \cup failed \cup deep
      BY Zenon DEF JobSignals
    <2>4. Fits(status) /\ Fits(one)
      <3>1. /\ Backed(x, Say("job_status", {"failed", "backofflimit"}, "info"))
            /\ Backed(x, Say("JOB_POD_FAILED", {"failed"}, "critical"))
        BY PlainTell
      <3> HIDE DEF Say
      <3> QED
        BY <3>1 DEF Fits, BackedOrDeep
    <2> HIDE DEF one
    <2>7. Fits(failed) /\ Fits(deep)
      BY <1>1, <2>4
    <2> HIDE DEF status, told, failed, deep
    <2>5. Fits(status \cup told)
      BY <1>1, <2>2, <2>4
    <2>6. Fits(status \cup told \cup failed)
      BY <1>1, <2>5, <2>7
    <2> QED
      BY <1>1, <2>3, <2>6, <2>7
  <1>7. Fits(CronJobSignals(o, g))
    BY <1>1, <1>2, Zenon DEF CronJobSignals
  <1>8. Fits(ServiceSignals(o, g))
    BY <1>3, ServiceTells DEF Fits, BackedOrDeep, Deeper
  <1>9. Fits(IngressSignals(o, g))
    <2>1. \A s, reason, text, severity : s = Tell(o, "NETWORK", reason, text, severity) => Backed(x, s)
      BY <1>3
    <2>2. \A k : \A s \in BackendSignals(o, k, g) : Backed(x, s)
      BY <2>1, Zenon DEF BackendSignals, When
    <2>3. \A s \in IngressSignals(o, g) : Backed(x, s)
      BY <2>1, <2>2, Zenon DEF IngressSignals, When
    <2> QED
      BY <2>3, Zenon DEF Fits, BackedOrDeep
  <1>10. ASSUME NEW gone PROVE Fits(ClaimSignals(o, gone))
    <2>1. \A s : (\E reason, text, severity : s = Tell(o, "STORAGE", reason, text, severity)) => Backed(x, s)
      BY <1>3
    <2>2. \A s \in ClaimSignals(o, gone) :
            \E reason, text, severity : s = Tell(o, "STORAGE", reason, text, severity)
      BY Zenon DEF ClaimSignals, When
    <2> QED
      BY <2>1, <2>2, Zenon DEF Fits, BackedOrDeep
  <1> QED
    BY <1>4, <1>5, <1>6, <1>7, <1>8, <1>9, <1>10 DEF Fits

\* Lemma: what a Node and an object of any other kind say.
LEMMA WordedKindsBacked ==
  ASSUME NEW o, PlainlyWorded(o), NEW g
  PROVE  /\ o.kind = "Node" => BackedOrDeep(o, g, NodeStatusSignals(o))
         /\ o.kind = "Generic" => BackedOrDeep(o, g, GenericSignals(o))
  <1>1. ASSUME o.kind = "Node", NEW s \in NodeStatusSignals(o) PROVE Backed(o, s)
    <2> DEFINE n == o.node
               Text(t, text) == {"node"} \cup text \cup When(n.conditions[t] = "False", {"false"})
                                  \cup When(t = "Ready" /\ n.conditions[t] = "True", {"ready=true"})
    <2>1. OwnWording(o) = NodeWording(n)
      BY <1>1, Zenon DEF OwnWording
    <2>2. \A t \in DOMAIN n.conditions : KeywordsOf(t) \subseteq NodeWording(n)
      BY Zenon DEF NodeWording
    <2>3. n.text \subseteq NodeWording(n)
      BY Zenon DEF NodeWording
    <2>4. /\ Bears(o, n.text) /\ Bears(o, {})
          /\ \A t \in DOMAIN n.conditions : Bears(o, KeywordsOf(t))
      BY <2>1, <2>2, <2>3, WordingBorne, BearsBoth, PlainBorne
    <2>5. \/ \E t \in DOMAIN n.conditions : \E text \in {{}, n.text} : \E severity :
               s = Tell(o, "CONDITION", t, Text(t, text), severity)
          \/ s = Tell(o, "STATUS", "Cordoned", {"node", "unschedulable", "schedul"}, "warning")
          \/ s = Tell(o, "STATUS", "resources", {"node"}, "info")
      BY Zenon DEF NodeStatusSignals, When
    <2>6. \A t, text : Bears(o, text) => Bears(o, Text(t, text))
      <3> SUFFICES ASSUME NEW t, NEW text, Bears(o, text) PROVE Bears(o, Text(t, text))
        OBVIOUS
      <3> DEFINE false == When(n.conditions[t] = "False", {"false"})
                 ready == When(t = "Ready" /\ n.conditions[t] = "True", {"ready=true"})
      <3>1. Bears(o, {"node"}) /\ Bears(o, false) /\ Bears(o, ready)
        BY PlainBorne DEF When
      <3> HIDE DEF false, ready
      <3>2. Bears(o, {"node"} \cup text \cup false \cup ready)
        BY <3>1, BearsThree, BearsBoth
      <3> QED
        BY <3>2 DEF false, ready
    <2> HIDE DEF Text, n
    <2> QED
      BY <2>4, <2>5, <2>6, TellBacked, PlainTell
  <1>2. ASSUME o.kind = "Generic", NEW s \in GenericSignals(o) PROVE Backed(o, s)
    <2>1. PICK c \in o.conditions :
            s = Tell(o, "CONDITION", c.reason, c.text \cup When(c.status = "False", {"false"}), "warning")
      BY Zenon DEF GenericSignals
    <2>2. OwnWording(o) = UNION {d.text \cup KeywordsOf(d.reason) : d \in o.conditions}
      BY <1>2, Zenon DEF OwnWording
    <2>3. c.text \cup KeywordsOf(c.reason) \subseteq OwnWording(o)
      BY <2>2, Zenon
    <2>4. Bears(o, c.text) /\ Bears(o, KeywordsOf(c.reason))
      BY <2>3, WordingBorne, BearsBoth
    <2>5. Bears(o, When(c.status = "False", {"false"}))
      BY PlainBorne DEF When
    <2>6. Bears(o, c.text \cup When(c.status = "False", {"false"}))
      BY <2>4, <2>5, BearsBoth
    <2> QED
      BY <2>1, <2>4, <2>6, TellBacked
  <1> QED
    BY <1>1, <1>2 DEF BackedOrDeep

\* Lemma: the reason of an unhealthy pod is its phase, or its status says it.
LEMMA DominantSaid ==
  ASSUME NEW p, IsPod(p)
  PROVE  DominantWaiting(p) = p.phase \/ DominantWaiting(p) \in SaidOf(p)
  <1> DEFINE told == {i \in DOMAIN p.containers : p.containers[i].waiting # "" \/ p.containers[i].exited # ""}
             first == CHOOSE i \in told : \A j \in told : i <= j
  <1>1. CASE told = {}
    BY <1>1, Zenon DEF DominantWaiting
  <1>2. CASE told # {}
    <2>1. told \in SUBSET Nat
      <3>1. DOMAIN p.containers = 1 .. Len(p.containers) /\ Len(p.containers) \in Nat
        BY LenProperties DEF IsPod
      <3> QED
        BY <3>1, IndicesAreNat, Zenon
    <2>2. first \in told
      <3> HIDE DEF told
      <3> QED
        BY <1>2, <2>1, LeastOf
    <2>3. DominantWaiting(p) =
            IF p.containers[first].waiting # "" THEN p.containers[first].waiting ELSE p.containers[first].exited
      BY <1>2, Zenon DEF DominantWaiting
    <2>4. p.containers[first] \in Elements(p.containers)
      BY <2>2 DEF Elements
    <2> HIDE DEF first, told
    <2> QED
      BY <2>3, <2>4, SaidIs
  <1> QED
    BY <1>1, <1>2

\* Lemma: words are borne when each part of them is.
LEMMA BearsAll ==
  ASSUME NEW o, NEW S, \A words \in S : Bears(o, words)
  PROVE  Bears(o, UNION S)
  BY DEF Bears, Confirms

\* Lemma: what is quoted of a waiting container is borne by the status of its pod.
LEMMA MessageBorne ==
  ASSUME NEW o, PlainlyWorded(o), NEW g, NEW m, \A p \in Elements(ListOf(g, "pods")) : p \in Below(o)
  PROVE  Bears(o, WaitingMessageFor(o, g, m))
  <1>1. ASSUME NEW p \in Below(o) PROVE Bears(o, WaitingMessage(p))
    <2> DEFINE waiting == {i \in DOMAIN p.containers : p.containers[i].waiting # ""}
               first == {j \in waiting : \A k \in waiting : j <= k}
               parts == {p.containers[i].text \cup KeywordsOf(p.containers[i].waiting) : i \in first}
    <2>1. WaitingMessage(p) = UNION parts
      BY Zenon DEF WaitingMessage
    <2>2. first \subseteq DOMAIN p.containers
      OBVIOUS
    <2>3. ASSUME NEW i \in first PROVE Bears(o, p.containers[i].text \cup KeywordsOf(p.containers[i].waiting))
      <3> DEFINE c == p.containers[i]
      <3>1. c \in Elements(p.containers)
        BY <2>2, <2>3 DEF Elements
      <3> HIDE DEF c, first
      <3>2. Bears(o, KeywordsOf(c.waiting))
        BY <3>1, SaidIs, ReasonBorne
      <3>3. c.text \subseteq PodWording(p)
        BY <3>1, Zenon DEF PodWording
      <3>4. Bears(o, c.text)
        BY <1>1, <3>3, WordingBorne, BearsBoth
      <3>5. Bears(o, c.text \cup KeywordsOf(c.waiting))
        BY <3>2, <3>4, BearsBoth
      <3> QED
        BY <3>5, Zenon DEF c
    <2> HIDE DEF first
    <2>4. \A words \in parts : Bears(o, words)
      BY <2>3
    <2> HIDE DEF parts
    <2> QED
      BY <2>1, <2>4, BearsAll
  <1> DEFINE pods == ListOf(g, "pods")
             those == {i \in DOMAIN pods : Judges(o, g, pods[i]) /\ DominantWaiting(pods[i]) = m}
             first == {j \in those : \A k \in those : j <= k}
             parts == {WaitingMessage(pods[i]) : i \in first}
  <1>2. WaitingMessageFor(o, g, m) = UNION parts
    BY Zenon DEF WaitingMessageFor
  <1>3. ASSUME NEW i \in first PROVE pods[i] \in Below(o)
    <2>1. i \in DOMAIN pods
      OBVIOUS
    <2> HIDE DEF first, those
    <2>2. pods[i] \in Elements(pods)
      BY <2>1, Zenon DEF Elements
    <2> QED
      BY <2>2
  <1> HIDE DEF first, those, pods
  <1>4. \A words \in parts : Bears(o, words)
    BY <1>1, <1>3
  <1> HIDE DEF parts
  <1> QED
    BY <1>2, <1>4, BearsAll

\* Lemma: what a Deployment says: its conditions, and what most of its pods give as a reason.
LEMMA DeploymentBacked ==
  ASSUME NEW o, o.kind = "Deployment", PlainlyWorded(o), NEW g, NEW m \in Majorities(o, g),
         \A p \in Elements(ListOf(g, "pods")) : p \in Below(o) /\ IsPod(p)
  PROVE  BackedOrDeep(o, g, DeploymentSignals(o, g, m))
  <1> DEFINE Fits(S) == BackedOrDeep(o, g, S)
             message == WaitingMessageFor(o, g, m)
             false == {Tell(o, "STATUS", c.reason, c.text \cup {"false"}, "critical") :
                         c \in {d \in o.conditions : d.status = "False"}}
             late == {Tell(o, "STATUS", c.reason, c.text, "critical") :
                        c \in {d \in o.conditions : d.reason = "ProgressDeadlineExceeded"}}
             most == {Tell(o, "STATUS", m, message, "critical")}
  <1>1. /\ \A S, T : Fits(S) /\ Fits(T) => Fits(S \cup T)
        /\ \A b, S : Fits(S) => Fits(When(b, S))
        /\ \A pods : Fits(DeepOf(pods, g)) /\ Fits(Short(o, "InsufficientReplicas", {}))
    BY PartsBacked
  <1>2. Fits({Tell(o, "STATUS", "replica_status", {}, "info")})
    BY PlainTell DEF BackedOrDeep
  <1>3. \A c \in o.conditions :
          Bears(o, KeywordsOf(c.reason)) /\ Bears(o, c.text) /\ Bears(o, c.text \cup {"false"})
    <2> SUFFICES ASSUME NEW c \in o.conditions
                 PROVE  Bears(o, KeywordsOf(c.reason)) /\ Bears(o, c.text) /\ Bears(o, c.text \cup {"false"})
      OBVIOUS
    <2>1. OwnWording(o) = UNION {d.text \cup KeywordsOf(d.reason) : d \in o.conditions}
      BY Zenon DEF OwnWording
    <2>2. c.text \cup KeywordsOf(c.reason) \subseteq OwnWording(o)
      BY <2>1, Zenon
    <2>3. Bears(o, c.text) /\ Bears(o, KeywordsOf(c.reason)) /\ Bears(o, {"false"})
      BY <2>2, WordingBorne, BearsBoth, PlainBorne
    <2> QED
      BY <2>3, BearsBoth
  <1>4. Fits(false) /\ Fits(late)
    <2>1. \A s \in false : Backed(o, s)
      BY <1>3, TellBacked
    <2>2. \A s \in late : Backed(o, s)
      BY <1>3, TellBacked
    <2> QED
      BY <2>1, <2>2 DEF BackedOrDeep
  <1>5. Fits(most)
    <2>1. m = "" \/ \E p \in UnhealthyOf(o, g) : m = ReasonOf(p, g)
      BY DEF Majorities
    <2>2. \A p \in UnhealthyOf(o, g) : p \in Elements(ListOf(g, "pods"))
      BY DEF UnhealthyOf, Pods
    <2>3. \/ m \in {"", "Pending", "Running", "Succeeded", "Failed", "Unknown"}
          \/ \E p \in Below(o) : m \in SaidOf(p)
      BY <2>1, <2>2, DominantSaid DEF ReasonOf, IsPod
    <2>4. Bears(o, KeywordsOf(m))
      <3>1. CASE \E p \in Below(o) : m \in SaidOf(p)
        BY <3>1, ReasonBorne
      <3>2. CASE m \in {"", "Pending", "Running", "Succeeded", "Failed", "Unknown"}
        <4>1. m \notin {"OOMKilled", "CrashLoopBackOff", "ImagePullBackOff", "ErrImagePull"}
          BY <3>2
        <4> QED
          BY <4>1, ReasonBorne
      <3> QED
        BY <2>3, <3>1, <3>2
    <2>5. Bears(o, message)
      BY MessageBorne
    <2> HIDE DEF message
    <2> QED
      BY <2>4, <2>5, TellBacked DEF BackedOrDeep
  <1> DEFINE status == {Tell(o, "STATUS", "replica_status", {}, "info")}
             short == Short(o, "InsufficientReplicas", {})
             deep == DeepOf(UnhealthyOf(o, g), g)
             shared == When(m # "", most)
  <1>6. DeploymentSignals(o, g, m) = status \cup short \cup false \cup late \cup deep \cup shared
    BY Zenon DEF DeploymentSignals
  <1>7. Fits(status) /\ Fits(short) /\ Fits(deep) /\ Fits(shared)
    BY <1>1, <1>2, <1>5
  <1> HIDE DEF status, short, false, late, deep, shared, Fits
  <1>8. Fits(status \cup short \cup false)
    BY <1>1, <1>4, <1>7
  <1>9. Fits(status \cup short \cup false \cup late \cup deep)
    BY <1>1, <1>4, <1>7, <1>8
  <1>10. Fits(DeploymentSignals(o, g, m))
    BY <1>1, <1>6, <1>7, <1>9
  <1> QED
    BY <1>10 DEF Fits
\* Lemma: the evidence of a job of a CronJob is backed.
LEMMA JobEvidenceBacked ==
  ASSUME NEW o, o.kind = "CronJob", PlainlyWorded(o),
         NEW j \in Elements(o.there[The("jobs")]), j.kind = "Job", HasLists(j),
         NEW late, NEW e \in JobEvidence(j, late)
  PROVE  \A s \in e : Backed(o, s)
  <1>1. PICK g \in JobReadings(j, late) :
          e = Nested(JobSignals(j, g) \cup EventsOrWarning(g[The("events")], j.name))
    BY DEF JobEvidence
  <1>2. \A t \in EventsOrWarning(g[The("events")], j.name) : Backed(o, t)
    BY AboutEvents DEF Backed
  <1>3. \A q, t : Diagnosis(q) \in DOMAIN g /\ t \in g[Diagnosis(q)].value => Backed(o, t)
    <2> SUFFICES ASSUME NEW q, Diagnosis(q) \in DOMAIN g, NEW t \in g[Diagnosis(q)].value PROVE Backed(o, t)
      OBVIOUS
    <2>1. PICK F \in SUBSET {The("pods"), The("events")} :
            \A r \in DOMAIN g : r[1] = "diagnosis" =>
              \/ g[r].value = {}
              \/ \E p \in Deep(j, JobLists(j, F)) : r = Diagnosis(p) /\ g[r].value \in PodEvidence(p, late)
      BY JobReadingsAre
    <2> DEFINE base == JobLists(j, F)
    <2>2. Diagnosis(q)[1] = "diagnosis"
      BY DEF Diagnosis
    <2>3. PICK p \in Deep(j, base) : g[Diagnosis(q)].value \in PodEvidence(p, late)
      BY <2>1, <2>2
    <2>4. p \in Elements(ListOf(base, "pods"))
      BY <2>3, DeepIn DEF Owners, Pods
    <2>5. The("pods") \in DOMAIN j.there /\ ListOf(base, "pods") = j.there[The("pods")]
      <3>1. Found(base, The("pods"))
        <4> HIDE DEF base
        <4> QED
          BY <2>4, EmptyHasNone DEF ListOf
      <3>2. base[The("pods")] = AnswerTo(j, The("pods"), The("pods") \in F)
        BY DEF JobLists
      <3> HIDE DEF base
      <3> QED
        BY <3>1, <3>2 DEF Found, ListOf, AnswerTo
    <2>6. p \in Below(o) /\ IsPod(p)
      BY <2>4, <2>5, BelowHas DEF HasLists
    <2> QED
      BY <2>3, <2>6, PodEvidenceBacked
  <1>4. \A t \in JobSignals(j, g) : Backed(o, t)
    BY <1>3, PlainKindsBacked DEF BackedOrDeep, Deeper
  <1> QED
    BY <1>1, <1>2, <1>4, NestedBacked

\* Lemma: a list that was found, of what there is.
LEMMA ListIsThere ==
  ASSUME ReadingInv, NEW what \in {"pods", "jobs"}, NEW i \in Elements(ListOf(got, what))
  PROVE  The(what) \in DOMAIN object.there /\ i \in Elements(object.there[The(what)])
  <1>1. Found(got, The(what))
    BY EmptyHasNone DEF ListOf
  <1>2. The(what)[1] # "diagnosis" /\ The(what) # The("graph")
    BY TheNames
  <1> QED
    BY <1>1, <1>2, FoundIsThere DEF ListOf

\* Lemma: what was diagnosed with an object is backed.
LEMMA DeepBacked ==
  ASSUME ReadingInv, DeepInv, stage # "resolve", PlainlyWorded(object),
         NEW s, Deeper(got, s)
  PROVE  Backed(object, s)
  <1>0. object \in Objects
    BY DEF ReadingInv
  <1>1. PICK r \in DOMAIN got : r[1] = "diagnosis" /\ s \in got[r].value
    BY DEF Deeper, Diagnosis
  <1>2. object.kind \in Owners
    BY <1>1 DEF DeepInv
  <1>3. PICK i \in Deep(object, got), late \in BOOLEAN : got[r].value \in EvidenceOf(object, i, late)
    BY <1>1 DEF DeepInv
  <1>4. CASE object.kind = "CronJob"
    <2>1. i \in Elements(ListOf(got, "jobs"))
      BY <1>2, <1>3, <1>4, DeepIn DEF Owned
    <2>2. i \in Elements(object.there[The("jobs")])
      BY <2>1, ListIsThere
    <2>3. got[r].value \in JobEvidence(i, late)
      BY <1>1, <1>3, <1>4 DEF EvidenceOf
    <2>4. i.kind = "Job" /\ HasLists(i)
      BY <1>0, <1>4, <2>2, ObjectAssumption
    <2> QED
      BY <1>1, <1>4, <2>2, <2>3, <2>4, JobEvidenceBacked
  <1>5. CASE object.kind # "CronJob"
    <2>1. i \in Elements(ListOf(got, "pods"))
      BY <1>2, <1>3, <1>5, DeepIn DEF Pods
    <2>2. The("pods") \in DOMAIN object.there /\ i \in Elements(object.there[The("pods")])
      BY <2>1, ListIsThere
    <2>3. got[r].value \in PodEvidence(i, late)
      BY <1>1, <1>3, <1>5 DEF EvidenceOf
    <2>4. i \in Below(object) /\ IsPod(i)
      BY <1>0, <1>2, <2>2, BelowHas, ObjectAssumption DEF HasLists, Owners
    <2> QED
      BY <1>1, <2>3, <2>4, PodEvidenceBacked
  <1> QED
    BY <1>4, <1>5

\* Lemma: the signals of an answer are backed.
LEMMA AnswerIsBacked ==
  ASSUME ReadingInv, DeepInv, stage # "resolve", PlainlyWorded(object), NEW r \in Responses(object, got)
  PROVE  \E S : MadeOf(S, r) /\ \A s \in S : Backed(object, s)
  <1> DEFINE events == EventsOrWarning(got[The("events")], object.name)
             Fits(S) == \A s \in S : Backed(object, s)
  <1>0. object \in Objects /\ object.kind \in Kinds
    BY ObjectFacts DEF ReadingInv
  <1>1. Fits(events)
    BY AboutEvents DEF Backed
  <1>2. \A S : BackedOrDeep(object, got, S) => Fits(S)
    BY DeepBacked DEF BackedOrDeep
  <1> HIDE DEF events
  <1>3. \A S : Fits(S) => Fits(S \cup events)
    BY <1>1
  <1>4. /\ Fits(StatefulSetSignals(object, got)) /\ Fits(DaemonSetSignals(object, got))
        /\ Fits(JobSignals(object, got)) /\ Fits(CronJobSignals(object, got))
        /\ Fits(ServiceSignals(object, got)) /\ Fits(IngressSignals(object, got))
        /\ \A gone : Fits(ClaimSignals(object, gone))
    BY <1>2, PlainKindsBacked
  <1>5. /\ object.kind = "Node" => Fits(NodeStatusSignals(object))
        /\ object.kind = "Generic" => Fits(GenericSignals(object))
    BY <1>2, WordedKindsBacked
  <1>6. ASSUME object.kind = "Deployment", NEW m \in Majorities(object, got)
        PROVE  Fits(DeploymentSignals(object, got, m))
    <2>1. \A p \in Elements(ListOf(got, "pods")) : p \in Below(object) /\ IsPod(p)
      <3> SUFFICES ASSUME NEW p \in Elements(ListOf(got, "pods")) PROVE p \in Below(object) /\ IsPod(p)
        OBVIOUS
      <3>1. The("pods") \in DOMAIN object.there /\ p \in Elements(object.there[The("pods")])
        BY ListIsThere
      <3> QED
        BY <1>0, <1>6, <3>1, BelowHas, ObjectAssumption DEF HasLists
    <2> QED
      BY <1>2, <1>6, <2>1, DeploymentBacked
  <1>7. object.kind = "Pod" => Fits(PodSignals(object, got))
    <2> SUFFICES ASSUME object.kind = "Pod", NEW s \in PodSignals(object, got) PROVE Backed(object, s)
      OBVIOUS
    <2>1. IsPod(object) /\ object \in Below(object)
      BY <1>0, BelowHas, ObjectAssumption
    <2>2. The("node")[1] # "diagnosis" /\ The("node") # The("graph")
      BY TheNames
    <2>3. The("node") \in DOMAIN got /\ got[The("node")].kind = "found" =>
            The("node") \in DOMAIN object.there /\ got[The("node")].value = object.there[The("node")]
      BY <2>2, FoundIsThere DEF Found
    <2> QED
      BY <2>1, <2>3, PodBacked
  <1> HIDE DEF Fits
  <1>8. \E S : MadeOf(S, r) /\ Fits(S)
    BY <1>0, <1>3, <1>4, <1>5, <1>6, <1>7, ResponsesTell DEF Kinds, events
  <1> QED
    BY <1>8 DEF Fits

----------------------------------------------------------------------------
(* A confirmation, and how the object was found.                           *)

\* An object that is diagnosed was found by its name or by a prefix, and what was found by
\* a prefix is answered with what is left of the confirmations.
HowInv ==
  /\ found.status = "found" => found.how \in {"exact", "prefix"}
  /\ stage # "resolve" => found.status = "found"
  /\ stage = "answered" /\ found.how = "prefix" =>
       \E r \in Responses(object, got) : answer = DemoteConfirmed(r)

\* Lemma: what the resolution may come to in a step.
LEMMA FoundSteps ==
  ASSUME ResolverStep
  PROVE  \/ found' = found \/ found' = Missing \/ found' = Denied
         \/ \E ref : found' = Exactly(ref)
         \/ \E hs : found' = BuildResult(query, hs)
  <1>1. CASE Scope
    BY <1>1, Zenon DEF Scope, Resolved, Onward
  <1>2. ASSUME NEW where, NEW then, NEW ns, GetThere(where, then, ns)
        PROVE  found' = found \/ found' = Missing \/ found' = Denied \/ \E ref : found' = Exactly(ref)
    BY <1>2 DEF GetThere, Resolved, Onward, Errors, GetAnswers
  <1>3. ASSUME NEW where, NEW ns, ListThere(where, ns)
        PROVE  found' = Denied \/ \E hs : found' = BuildResult(query, hs)
    BY <1>3, Zenon DEF ListThere, Resolved
  <1>4. CASE ListEverywhere
    BY <1>4, Zenon DEF ListEverywhere, Resolved
  <1>5. CASE TryPriority
    BY <1>5 DEF TryPriority, Resolved, Onward, Errors, GetAnswers
  <1>6. CASE ListNamespaces
    BY <1>6 DEF ListNamespaces, Resolved, Onward, Errors, ListAnswers
  <1>7. CASE Search
    BY <1>7, Zenon DEF Search, Resolved
  <1>8. CASE Searched
    BY <1>8, Zenon DEF Searched, Resolved, Onward
  <1>9. CASE SearchPrefix
    BY <1>9, Zenon DEF SearchPrefix, Resolved
  <1>10. CASE PrefixSearched \/ Refused \/ Fetch
    BY <1>10, Zenon DEF PrefixSearched, Resolved, Refused, Fetch
  <1> QED
    BY <1>1, <1>2, <1>3, <1>4, <1>5, <1>6, <1>7, <1>8, <1>9, <1>10 DEF ResolverStep

\* Lemma: every step keeps it.
LEMMA HowInvNext == ResolverInv /\ ReadingInv /\ HowInv /\ [Next]_vars => HowInv'
  <1> SUFFICES ASSUME ResolverInv, ReadingInv, HowInv, [Next]_vars PROVE HowInv'
    OBVIOUS
  <1>1. CASE Resolve
    <2>1. stage' = "resolve" /\ stage = "resolve"
      BY <1>1 DEF Resolve, diagnosisVars
    <2>2. \A r : r \in {Missing, Denied} => r.status # "found"
      BY ResultTypes
    <2>3. \A ref : Exactly(ref).how = "exact"
      BY DEF Exactly
    <2>4. \A q, hs : BuildResult(q, hs).status = "found" => BuildResult(q, hs).how \in {"exact", "prefix"}
      BY DEF BuildResult, Nothing
    <2>5. found'.status = "found" => found'.how \in {"exact", "prefix"}
      BY <1>1, <2>2, <2>3, <2>4, FoundSteps DEF Resolve, HowInv
    <2> QED
      BY <2>1, <2>5 DEF HowInv
  <1>2. CASE Dispatch
    <2>1. found' = [found EXCEPT !.match = {}] /\ stage' = "read" /\ reply = "diagnosing"
      BY <1>2 DEF Dispatch
    <2>2. found.status = "found" /\ found \in [status: Statuses \cup {"none"}, match: SUBSET Ref, how: {"", "exact", "prefix"}]
      BY <2>1 DEF ResolverInv, ResolverTypeOK
    <2>3. found'.status = found.status /\ found'.how = found.how
      BY <2>1, <2>2
    <2> QED
      BY <2>1, <2>2, <2>3 DEF HowInv
  <1>3. CASE Read
    BY <1>3 DEF Read, HowInv, resolverVars
  <1>4. CASE Analyze
    <2>1. /\ object' = object /\ got' = got /\ found' = found /\ stage = "read" /\ stage' = "answered"
          /\ \E r \in Responses(object, got) : answer' = IF found.how = "prefix" THEN DemoteConfirmed(r) ELSE r
      BY <1>4 DEF Analyze, resolverVars
    <2> QED
      BY <2>1 DEF HowInv
  <1>5. CASE ContextEnds
    BY <1>5 DEF ContextEnds, HowInv, resolverVars
  <1>6. CASE OtherClient /\ UNCHANGED diagnosisVars
    BY <1>6 DEF OtherClient, diagnosisVars, HowInv
  <1>7. CASE UNCHANGED vars
    BY <1>7 DEF vars, diagnosisVars, resolverVars, HowInv
  <1> QED
    BY <1>1, <1>2, <1>3, <1>4, <1>5, <1>6, <1>7 DEF Next, Call, Environment

\* What is diagnosed was found, in full or by a prefix; found by a prefix, its answer is demoted.
THEOREM HowInvHolds == Spec => []HowInv
  <1>1. Init => HowInv
    <2> SUFFICES ASSUME Init PROVE HowInv
      OBVIOUS
    <2>1. stage = "resolve" /\ found = Nothing
      BY DEF Init, ResolverInit
    <2>2. found.status # "found"
      BY <2>1 DEF Nothing
    <2> QED
      BY <2>1, <2>2 DEF HowInv
  <1> QED
    BY <1>1, HowInvNext, ResolverInvHolds, ReadingInvHolds, PTL DEF Spec

\* Lemma: a hypothesis is confirmed by a status or a condition among the signals.
LEMMA ConfirmedBy ==
  ASSUME NEW S, NEW h \in Hypotheses(S), h.confidence = "confirmed"
  PROVE  \E s \in S : Authoritative(h.category, s)
  <1> DEFINE category == [s \in S |-> Category(s)]
             bucket(c) == {s \in S : c \in category[s]}
  <1>1. PICK c : h = Hypothesis(c, bucket(c), S)
    BY Zenon DEF Hypotheses
  <1>2. h.category = c /\ Confidence(c, bucket(c), S) = "confirmed"
    BY <1>1 DEF Hypothesis
  <1>3. \A s \in bucket(c) : s \in S
    OBVIOUS
  <1> HIDE DEF bucket
  <1>4. \E s \in bucket(c) : Authoritative(c, s)
    <2>1. \A d : Demoted(d) # "confirmed"
      BY DEF Demoted
    <2> QED
      BY <1>2, <2>1 DEF Confidence
  <1> QED
    BY <1>2, <1>3, <1>4

\* Lemma: the signals and hypotheses of what is made of signals.
LEMMA MadeOfIs ==
  ASSUME NEW S, NEW r, MadeOf(S, r)
  PROVE  r.signals = S /\ r.hypotheses = Hypotheses(S)
  <1>1. PICK limited \in BOOLEAN : Marked(Assemble(S, limited), r)
    BY DEF MadeOf
  <1>2. Assemble(S, limited).hypotheses = Hypotheses(S) /\ Assemble(S, limited).signals = S
    BY DEF Assemble
  <1> QED
    BY <1>1, <1>2 DEF Marked

\* Lemma: a demoted answer confirms nothing.
LEMMA NoneConfirmed ==
  ASSUME NEW r, IsAnswer(r), NEW h \in DemoteConfirmed(r).hypotheses
  PROVE  h.confidence # "confirmed"
  <1> DEFINE Lower(k) == [k EXCEPT !.confidence = IF @ = "confirmed" THEN "high" ELSE @]
             Demote(hyps) == {Lower(k) : k \in hyps}
             d == DemoteConfirmed(r)
  <1>1. d = [r EXCEPT !.causes = Demote(r.causes), !.hypotheses = Demote(r.hypotheses)]
    BY DEF DemoteConfirmed, IsAnswer
  <1>2. h \in d.hypotheses
    OBVIOUS
  <1>3. \A k : IsHypothesis(k) => Lower(k).confidence # "confirmed"
    BY DEF IsHypothesis
  <1> HIDE DEF d, Lower
  <1>4. d.hypotheses = Demote(r.hypotheses)
    BY <1>1 DEF IsAnswer
  <1> QED
    BY <1>2, <1>3, <1>4 DEF IsAnswer

\* What is confirmed was named in full, and a status or a condition among the signals is why.
ConfirmedByStatus ==
  stage = "answered" =>
    \A h \in answer.hypotheses :
      h.confidence = "confirmed" =>
        /\ found.how = "exact" /\ answer \in Responses(object, got)
        /\ h \in Hypotheses(answer.signals)
        /\ \E s \in answer.signals : Authoritative(h.category, s)

\* Only a status or a condition confirms, whatever its words are, and only of an object that was
\* named in full: whatever was read of whatever objects, no Event, no log, no failed read
\* and nothing that was found by a prefix.
THEOREM ConfirmedByStatusHolds == Spec => []ConfirmedByStatus
  <1>1. ReadingInv /\ AnswerInv /\ HowInv => ConfirmedByStatus
    <2> SUFFICES ASSUME ReadingInv, AnswerInv, HowInv, stage = "answered",
                        NEW h \in answer.hypotheses, h.confidence = "confirmed"
                 PROVE  /\ found.how = "exact" /\ answer \in Responses(object, got)
                        /\ h \in Hypotheses(answer.signals)
                        /\ \E s \in answer.signals : Authoritative(h.category, s)
      BY DEF ConfirmedByStatus
    <2>0. object \in Objects /\ object.kind \in Kinds
      BY ObjectFacts DEF ReadingInv
    <2>1. \A r \in Responses(object, got) : IsAnswer(r)
      BY <2>0, ResponsesAre
    <2>2. \A r \in Responses(object, got) : answer # DemoteConfirmed(r)
      BY <2>1, NoneConfirmed
    <2>3. found.how = "exact"
      BY <2>2 DEF HowInv
    <2>4. answer \in Responses(object, got)
      BY <2>2 DEF AnswerInv
    <2>5. PICK S : MadeOf(S, answer)
      BY <2>0, <2>4, ResponsesTell DEF Kinds
    <2>6. answer.signals = S /\ answer.hypotheses = Hypotheses(S)
      BY <2>5, MadeOfIs
    <2> QED
      BY <2>3, <2>4, <2>6, ConfirmedBy
  <1> QED
    BY <1>1, ReadingInvHolds, HowInvHolds, PTL

\* A confirmation is the API server's own word: of whatever objects whose messages use the words
\* of a confirmation for nothing else, whatever was read of them and however it is classified,
\* a confirmed crash loop, OOM kill or pull failure is in the status of a pod below, and the
\* object was named in full.
THEOREM ConfirmedHasProofHolds ==
  ASSUME \A o \in Objects : PlainlyWorded(o)
  PROVE  Spec => []ConfirmedHasProof
  <1>1. ReadingInv /\ DeepInv /\ ConfirmedByStatus => ConfirmedHasProof
    <2> SUFFICES ASSUME ReadingInv, DeepInv, ConfirmedByStatus, stage = "answered",
                        NEW h \in answer.hypotheses, h.confidence = "confirmed"
                 PROVE  /\ found.how = "exact"
                        /\ h.category \in DOMAIN Proof =>
                             \E p \in Below(object) : SaidOf(p) \cap Proof[h.category] # {}
      BY DEF ConfirmedHasProof, Answered
    <2>1. found.how = "exact" /\ answer \in Responses(object, got)
      BY DEF ConfirmedByStatus
    <2>2. PICK s \in answer.signals : Authoritative(h.category, s)
      BY DEF ConfirmedByStatus
    <2>3. PlainlyWorded(object)
      BY ObjectFacts DEF ReadingInv
    <2>4. Backed(object, s)
      BY <2>1, <2>3, AnswerIsBacked, MadeOfIs
    <2>5. ASSUME h.category \in DOMAIN Proof
          PROVE  \E p \in Below(object) : SaidOf(p) \cap Proof[h.category] # {}
      <3>1. h.category # "NODE_NOT_READY"
        BY <2>5, ProofIs
      <3>2. /\ s.source \in {"STATUS", "CONDITION"}
            /\ \E words \in Confirming[h.category] : words \subseteq Words(s)
        BY <2>2, <3>1 DEF Authoritative
      <3>3. \A words \in Confirming[h.category] : words # {} /\ words \subseteq UNION Confirming[h.category]
        BY <2>5, ProofIs
      <3>4. Confirms(h.category, Words(s))
        BY <3>2, <3>3 DEF Confirms
      <3> QED
        BY <2>4, <2>5, <3>2, <3>4 DEF Backed, Bears, Borne
    <2> QED
      BY <2>1, <2>5
  <1> QED
    BY <1>1, ReadingInvHolds, SeenInvHolds, ConfirmedByStatusHolds, PTL
=============================================================================
