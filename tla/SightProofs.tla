------------------------------ MODULE SightProofs ------------------------------
(***************************************************************************)
(* Proofs that what could not be read changes neither a healthy answer nor *)
(* what is found: the answer against what it would be with everything read. *)
(***************************************************************************)
EXTENDS ExplanationProofs

----------------------------------------------------------------------------
(* What a healthy answer is made of.                                       *)

\* What was read is a function, and for a pod, only what is planned is read.
PodOnlyInv ==
  /\ got = [r \in DOMAIN got |-> got[r]]
  /\ object.kind = "Pod" => DOMAIN got \subseteq PodReads(object)

\* Lemma: every step keeps it.
LEMMA PodOnlyNext == ReadingInv /\ PodOnlyInv /\ [Next]_vars => PodOnlyInv'
  <1> SUFFICES ASSUME ReadingInv, PodOnlyInv, [Next]_vars PROVE PodOnlyInv'
    OBVIOUS
  <1>1. CASE UNCHANGED <<object, got>>
    BY <1>1 DEF PodOnlyInv
  <1>2. CASE Dispatch
    <2>1. got' = got /\ got = <<>>
      BY <1>2 DEF Dispatch, ReadingInv
    <2>2. DOMAIN got' = {}
      BY <2>1
    <2> QED
      BY <2>1, <2>2 DEF PodOnlyInv
  <1>3. CASE Read
    <2>1. PICK new \in NextReads : \E a \in Answers(object, new, got, over) :
            got' = [r \in DOMAIN got \cup {new} |-> IF r = new THEN a ELSE got[r]]
      BY <1>3 DEF Read
    <2>2. DOMAIN got' = DOMAIN got \cup {new} /\ got' = [r \in DOMAIN got' |-> got'[r]]
      BY <2>1
    <2>3. new \in Reads(object, got) /\ object' = object
      BY <1>3 DEF Read, NextReads, Unread, Reads, Elements
    <2>4. object.kind = "Pod" => Reads(object, got) = PodReads(object)
      BY ReadsAre
    <2> QED
      BY <2>2, <2>3, <2>4 DEF PodOnlyInv
  <1>4. CASE Analyze
    BY <1>4 DEF Analyze, PodOnlyInv
  <1> QED
    BY <1>1, <1>2, <1>3, <1>4
    DEF Next, Call, Environment, Resolve, ContextEnds, vars, diagnosisVars

\* Lemma: it always holds.
LEMMA PodOnlyHolds == Spec => []PodOnlyInv
  <1>1. Init => PodOnlyInv
    <2> SUFFICES ASSUME Init PROVE PodOnlyInv
      OBVIOUS
    <2>1. got = <<>>
      BY DEF Init
    <2>2. DOMAIN got = {} /\ got = [r \in DOMAIN got |-> got[r]]
      BY <2>1
    <2> QED
      BY <2>2 DEF PodOnlyInv
  <1> QED
    BY <1>1, PodOnlyNext, ReadingInvHolds, PTL DEF Spec

\* Lemma: healthy is said of what has no bad signal, and not of nothing at all with a
\* limited view.
LEMMA HealthyMeans ==
  ASSUME NEW S, NEW limited \in BOOLEAN
  PROVE  (Assemble(S, limited).health = "healthy") <=>
           /\ \A s \in S : s.severity \notin {"warning", "critical"}
           /\ ~(limited /\ S = {})
  <1> DEFINE severities == {s.severity : s \in S}
  <1>1. Assemble(S, limited).health = Evaluate(severities, limited)
    BY AssembleIs
  <1>2. (severities = {}) <=> (S = {})
    OBVIOUS
  <1>3. \A x : x \in severities <=> \E s \in S : s.severity = x
    OBVIOUS
  <1> HIDE DEF severities
  <1>4. (Evaluate(severities, limited) = "healthy") <=>
          "critical" \notin severities /\ "warning" \notin severities /\ ~(limited /\ severities = {})
    BY DEF Evaluate
  <1> QED
    BY <1>1, <1>2, <1>3, <1>4

\* Lemma: Events that could not be listed are a bad signal.
LEMMA EventsTell ==
  ASSUME NEW a, NEW about, a.kind # "found"
  PROVE  \E s \in EventsOrWarning(a, about) : s.severity = "warning"
  <1> DEFINE s == Signal("EVENT", "list_failed", {}, "warning", about)
  <1>1. s \in EventsOrWarning(a, about)
    BY DEF EventsOrWarning
  <1>2. s.severity = "warning"
    BY DEF Signal
  <1> QED
    BY <1>1, <1>2

\* Lemma: what has been read and has not failed is what there is.
LEMMA UnfailedIsThere ==
  ASSUME ReadingInv, NEW r \in DOMAIN got, r[1] # "diagnosis", r # The("graph"), got[r].kind # "failed"
  PROVE  got[r] = AnswerTo(object, r, FALSE)
  <1>1. PICK fails \in BOOLEAN : got[r] = AnswerTo(object, r, fails)
    BY DEF ReadingInv
  <1> QED
    BY <1>1 DEF AnswerTo

\* Lemma: what is recorded and has not failed is seen.
LEMMA SeenIsThere ==
  ASSUME ReadingInv, ~LimitedBy(object, got), NEW r \in DOMAIN got, r \in Recorded(object)
  PROVE  got[r].kind # "failed"
  BY DEF LimitedBy, Failed

----------------------------------------------------------------------------
(* A pod.                                                                  *)

\* Lemma: a healthy pod was seen in all that is judged.
LEMMA HealthyPodSeen ==
  ASSUME ReadingInv, DeepInv, AllReadInv, PodOnlyInv, stage = "answered", object.kind = "Pod",
         NEW r \in Responses(object, got), r.health = "healthy"
  PROVE  AllElse(object, got) = got
  <1> DEFINE limited == LimitedBy(object, got)
             S == PodSignals(object, got)
             judged == {The("logs"), The("previous_logs"), The("metrics")}
  <1>0. object \in Objects /\ IsPod(object)
    BY ObjectAssumption DEF ReadingInv
  <1>1. limited \in BOOLEAN
    BY Zenon DEF LimitedBy
  <1>2. r = Assemble(S, limited)
    <2>1. Responses(object, got) = {Assemble(PodSignals(object, got), limited)}
      BY Zenon DEF Responses
    <2> QED
      BY <2>1
  <1>3. S = {} /\ ~limited
    <2>1. \A s \in S : s.severity \in Bad
      BY <1>0, AboutPod
    <2> HIDE DEF S, limited
    <2> QED
      BY <1>1, <1>2, <2>1, HealthyMeans DEF Bad
  <1>4. \A a, about : a.kind # "found" => EventsOrWarning(a, about) # {}
    BY EventsTell
  <1>5. got[The("events")].kind = "found" /\ (object.assigned => got[The("node_events")].kind = "found")
    <2>1. \A s : ~(s \in EventsOrWarning(got[The("events")], object.name))
                /\ ~(object.assigned /\ s \in EventsOrWarning(got[The("node_events")], "node"))
      BY <1>3, PodSignalFrom
    <2> QED
      BY <1>4, <2>1
  <1>6. \A q \in DOMAIN got : q[1] # "diagnosis"
    BY DEF DeepInv, Owners
  <1>7. \A q \in DOMAIN got : q # The("graph") /\ (q \in judged \/ got[q].kind # "failed")
    <2> SUFFICES ASSUME NEW q \in DOMAIN got
                 PROVE  q # The("graph") /\ (q \in judged \/ got[q].kind # "failed")
      OBVIOUS
    <2>1. \/ q = The("events") \/ q = The("metrics")
          \/ object.assigned /\ q \in {The("node"), The("node_events")}
          \/ q = The("nodes")
          \/ \E ref \in Elements(object.refs) : q = <<ref.of, ref.name>>
          \/ q = The("logs") \/ q = The("previous_logs")
      BY PodReadsAre DEF PodOnlyInv
    <2>2. Recorded(object) = {The("node"), The("nodes")} \cup {<<ref.of, ref.name>> : ref \in Elements(object.refs)}
      BY Zenon DEF Recorded, PodRecorded
    <2>3. q \in Recorded(object) => got[q].kind # "failed"
      BY <1>3, SeenIsThere
    <2>4. CASE \E ref \in Elements(object.refs) : q = <<ref.of, ref.name>>
      <3>1. q # The("graph")
        <4>1. PICK ref \in Elements(object.refs) : q = <<ref.of, ref.name>>
          BY <2>4
        <4>2. q[1] = ref.of /\ ref.of \in {"configmap", "secret", "pull", "account", "pvc"}
          BY <1>0, <4>1 DEF IsPod
        <4> QED
          BY <4>2, TheNames
      <3> QED
        BY <2>2, <2>3, <2>4, <3>1
    <2>5. CASE q \in {The("node"), The("nodes")}
      BY <2>2, <2>3, <2>5, TheNames
    <2>6. CASE q \in judged
      BY <2>6, TheNames
    <2>7. CASE q = The("events") \/ (object.assigned /\ q = The("node_events"))
      BY <1>5, <2>7, TheNames
    <2> QED
      BY <2>1, <2>4, <2>5, <2>6, <2>7
  <1> DEFINE asked == {q \in DOMAIN got : q[1] # "diagnosis"}
             lists == Full(object, asked)
             kept == [q \in Unjudged(object, got) |-> got[q]]
  <1>8. asked = DOMAIN got
    BY <1>6
  <1>9. Everything(object, got) = lists
    BY Zenon DEF Everything
  <1>10. DOMAIN lists = DOMAIN got /\ \A q \in DOMAIN got : lists[q] = AnswerTo(object, q, FALSE)
    BY <1>7, <1>8 DEF Full
  <1>11. Unjudged(object, got) = DOMAIN got \cap judged
    BY <1>6 DEF Unjudged
  <1>12. DOMAIN kept = DOMAIN got \cap judged /\ \A q \in DOMAIN kept : kept[q] = got[q]
    BY <1>11
  <1>13. AllElse(object, got) = Beside(kept, lists)
    BY <1>9 DEF AllElse
  <1>14. \A q \in DOMAIN got : q \in DOMAIN kept \/ lists[q] = got[q]
    BY <1>6, <1>7, <1>10, <1>12, UnfailedIsThere
  <1> HIDE DEF kept, lists, asked, judged
  <1>15. DOMAIN kept \cup DOMAIN lists = DOMAIN got
    BY <1>10, <1>12
  <1>16. Beside(kept, lists) = [q \in DOMAIN got |-> got[q]]
    BY <1>12, <1>14, <1>15 DEF Beside
  <1> QED
    BY <1>13, <1>16 DEF PodOnlyInv

----------------------------------------------------------------------------
(* Deployments and Services.                                               *)

\* Lemma: the marks, of a health.
LEMMA MarksHealth ==
  ASSUME NEW r, IsAnswer(r), NEW limited \in BOOLEAN, NEW cut \in BOOLEAN
  PROVE  /\ Cut(cut, r).health = r.health /\ Partial(limited, r).health = r.health
         /\ (Doubted(limited, r).health = "healthy") <=> (r.health = "healthy" /\ ~limited)
         /\ IsAnswer(Cut(cut, r)) /\ IsAnswer(Partial(limited, r)) /\ IsAnswer(Doubted(limited, r))
  <1>1. Cut(cut, r).health = r.health
    BY DEF Cut, IsAnswer
  <1>2. Partial(limited, r).health = r.health
    BY DEF Partial, IsAnswer
  <1>3. (Doubted(limited, r).health = "healthy") <=> (r.health = "healthy" /\ ~limited)
    BY DEF Doubted, IsAnswer
  <1>4. IsAnswer(Cut(cut, r)) /\ IsAnswer(Partial(limited, r)) /\ IsAnswer(Doubted(limited, r))
    BY MarksUphold DEF Upheld, Retold
  <1> QED
    BY <1>1, <1>2, <1>3, <1>4

\* Lemma: the answer of a Deployment is healthy if everything was seen and no signal is bad.
LEMMA DeploymentHealthy ==
  ASSUME NEW o, o.kind = "Deployment", NEW g
  PROVE  HealthyWith(o, g) <=>
           /\ ~LimitedBy(o, g)
           /\ \E m \in Majorities(o, g) :
                \A s \in DeploymentSignals(o, g, m) \cup EventsOrWarning(g[The("events")], o.name) :
                  s.severity \notin Bad
  <1> DEFINE events == EventsOrWarning(g[The("events")], o.name)
             limited == LimitedBy(o, g)
             cut == DeploymentTruncated(o, g)
             S(m) == DeploymentSignals(o, g, m) \cup events
             Final(m) == Cut(cut, Doubted(limited, Partial(limited, Assemble(S(m), FALSE))))
  <1>1. Responses(o, g) = {Final(m) : m \in Majorities(o, g)}
    BY Zenon DEF Responses
  <1>2. limited \in BOOLEAN /\ cut \in BOOLEAN
    BY Zenon DEF LimitedBy, DeploymentTruncated
  <1>3. ASSUME NEW m PROVE (Final(m).health = "healthy") <=> (~limited /\ \A s \in S(m) : s.severity \notin Bad)
    <2> DEFINE r == Assemble(S(m), FALSE)
    <2>1. (r.health = "healthy") <=> (\A s \in S(m) : s.severity \notin Bad)
      <3> HIDE DEF S
      <3> QED
        BY HealthyMeans DEF Bad
    <2>2. IsAnswer(r)
      BY AssembleIs
    <2>3. Final(m) = Cut(cut, Doubted(limited, Partial(limited, r)))
      OBVIOUS
    <2> HIDE DEF r, limited, cut, Final, S
    <2>4. IsAnswer(Partial(limited, r)) /\ Partial(limited, r).health = r.health
      BY <1>2, <2>2, MarksHealth
    <2>5. /\ IsAnswer(Doubted(limited, Partial(limited, r)))
          /\ (Doubted(limited, Partial(limited, r)).health = "healthy") <=> (r.health = "healthy" /\ ~limited)
      BY <1>2, <2>4, MarksHealth
    <2> QED
      BY <1>2, <2>1, <2>3, <2>5, MarksHealth
  <1> HIDE DEF Final, S, limited
  <1>4. HealthyWith(o, g) <=> ~limited /\ \E m \in Majorities(o, g) : \A s \in S(m) : s.severity \notin Bad
    BY <1>1, <1>3 DEF HealthyWith
  <1> QED
    BY <1>4 DEF limited, S

\* Lemma: that of a Service too.
LEMMA ServiceHealthy ==
  ASSUME NEW o, o.kind = "Service", NEW g
  PROVE  HealthyWith(o, g) <=>
           /\ ~LimitedBy(o, g)
           /\ \A s \in ServiceSignals(o, g) \cup
                       When(~o.external, EventsOrWarning(g[The("events")], o.name)) :
                s.severity \notin Bad
  <1> DEFINE events == EventsOrWarning(g[The("events")], o.name)
             limited == LimitedBy(o, g)
             cut == g[The("graph")].value.truncation # ""
             S == ServiceSignals(o, g) \cup When(~o.external, events)
             r == Assemble(S, FALSE)
             Final == Doubted(limited, Partial(limited, Cut(cut, r)))
  <1>1. Responses(o, g) = {Final}
    <2> DEFINE judged == IF o.external THEN Assemble(ServiceSignals(o, g), FALSE)
                         ELSE Assemble(ServiceSignals(o, g) \cup events, FALSE)
    <2>1. Responses(o, g) = {Doubted(limited, Partial(limited, Cut(cut, judged)))}
      BY Zenon DEF Responses
    <2>2. ServiceSignals(o, g) \cup {} = ServiceSignals(o, g)
      OBVIOUS
    <2>3. judged = r
      <3> HIDE DEF events
      <3>1. CASE o.external
        BY <2>2, <3>1, Zenon DEF When
      <3>2. CASE ~o.external
        BY <3>2, Zenon DEF When
      <3> QED
        BY <3>1, <3>2
    <2> QED
      BY <2>1, <2>3
  <1>2. limited \in BOOLEAN /\ cut \in BOOLEAN
    BY Zenon DEF LimitedBy
  <1>3. (r.health = "healthy") <=> (\A s \in S : s.severity \notin Bad)
    <2> HIDE DEF S
    <2> QED
      BY HealthyMeans DEF Bad
  <1>4. IsAnswer(r)
    BY AssembleIs
  <1> HIDE DEF r, S, limited, cut
  <1>5. IsAnswer(Cut(cut, r)) /\ Cut(cut, r).health = r.health
    BY <1>2, <1>4, MarksHealth
  <1>6. IsAnswer(Partial(limited, Cut(cut, r))) /\ Partial(limited, Cut(cut, r)).health = r.health
    BY <1>2, <1>5, MarksHealth
  <1>7. (Final.health = "healthy") <=> (r.health = "healthy" /\ ~limited)
    BY <1>2, <1>6, MarksHealth
  <1> HIDE DEF Final
  <1>8. HealthyWith(o, g) <=> ~limited /\ \A s \in S : s.severity \notin Bad
    BY <1>1, <1>3, <1>7 DEF HealthyWith
  <1> QED
    BY <1>8 DEF limited, S

\* Lemma: the lists are as they are, and beside them is each diagnosis.
LEMMA WithIs ==
  ASSUME NEW lists, NEW evidence, \A r \in DOMAIN lists : r[1] # "diagnosis"
  PROVE  /\ DOMAIN With(lists, evidence) = DOMAIN lists \cup {Diagnosis(i) : i \in DOMAIN evidence}
         /\ \A r \in DOMAIN lists : With(lists, evidence)[r] = lists[r]
         /\ \A i \in DOMAIN evidence :
              /\ With(lists, evidence)[Diagnosis(i)].kind = "found"
              /\ evidence[i] \subseteq With(lists, evidence)[Diagnosis(i)].value
  <1> DEFINE told == {Diagnosis(i) : i \in DOMAIN evidence}
             Of(d) == UNION {evidence[i] : i \in {j \in DOMAIN evidence : Diagnosis(j) = d}}
             deep == [d \in told |-> [kind |-> "found", value |-> Of(d)]]
             full == With(lists, evidence)
  <1>1. full = Beside(lists, deep)
    BY DEF With
  <1>2. \A i \in DOMAIN evidence : evidence[i] \subseteq Of(Diagnosis(i))
    OBVIOUS
  <1>3. \A i \in DOMAIN evidence : Diagnosis(i) \in told /\ Diagnosis(i) \notin DOMAIN lists
    BY DEF Diagnosis
  <1> HIDE DEF Of, told, full
  <1>4. DOMAIN deep = told /\ \A d \in told : deep[d].kind = "found" /\ deep[d].value = Of(d)
    OBVIOUS
  <1> HIDE DEF deep
  <1>5. /\ DOMAIN full = DOMAIN lists \cup told
        /\ \A r \in DOMAIN lists : full[r] = lists[r]
        /\ \A d \in told : d \notin DOMAIN lists => full[d] = deep[d]
    BY <1>1, <1>4 DEF Beside
  <1>6. \A i \in DOMAIN evidence : full[Diagnosis(i)].kind = "found" /\ evidence[i] \subseteq full[Diagnosis(i)].value
    BY <1>2, <1>3, <1>4, <1>5
  <1> QED
    BY <1>5, <1>6 DEF full, told

\* The reads that are no diagnoses.
Asked(read) == {r \in DOMAIN read : r[1] # "diagnosis"}

\* Lemma: what there is to read of an owner of pods, next to what has been read.
LEMMA SeenAgain ==
  ASSUME ReadingInv, object.kind \in {"Deployment", "Service"}
  PROVE  LET full == AllElse(object, got)
         IN /\ \A r : r[1] # "diagnosis" => (r \in DOMAIN full <=> r \in DOMAIN got)
            /\ The("graph") \in DOMAIN full => full[The("graph")].kind = "found"
            /\ \A r \in DOMAIN got :
                 r[1] # "diagnosis" /\ r # The("graph") /\ got[r].kind # "failed" => full[r] = got[r]
            /\ \A r \in DOMAIN full : r[1] = "diagnosis" =>
                 \/ object.kind = "Service" /\ r \in DOMAIN got
                 \/ \E i \in Deep(object, Full(object, Asked(got))) : r = Diagnosis(i)
            /\ \A r \in DOMAIN got : object.kind = "Service" /\ r[1] = "diagnosis" =>
                 r \in DOMAIN full /\ full[r] = got[r]
  <1> DEFINE asked == Asked(got)
             lists == Full(object, asked)
             all == Everything(object, got)
             kept == [r \in Unjudged(object, got) |-> got[r]]
             evidence == [p \in Deep(object, lists) |-> FullPod(p)]
  <1>1. all = With(lists, evidence)
    BY Zenon DEF Everything, Asked
  <1>2. DOMAIN lists = asked /\ \A r \in asked : lists[r] = IF r = The("graph") THEN [kind |-> "found", value |-> NewGraph(Root(object))]
                                                    ELSE AnswerTo(object, r, FALSE)
    BY DEF Full
  <1>3. DOMAIN evidence = Deep(object, lists)
    OBVIOUS
  <1>4. DOMAIN kept = Unjudged(object, got) /\ \A r \in DOMAIN kept : kept[r] = got[r]
    OBVIOUS
  <1>5. \A r \in asked : r[1] # "diagnosis"
    BY DEF Asked
  <1>6. Asked(got) \subseteq DOMAIN got
    BY DEF Asked
  <1> HIDE DEF lists, evidence, kept, asked, all
  <1>7. /\ DOMAIN all = asked \cup {Diagnosis(i) : i \in Deep(object, lists)}
        /\ \A r \in asked : all[r] = lists[r]
    <2>1. DOMAIN lists = asked /\ \A r \in DOMAIN lists : r[1] # "diagnosis"
      BY <1>2, <1>5
    <2>2. /\ DOMAIN With(lists, evidence) = DOMAIN lists \cup {Diagnosis(i) : i \in DOMAIN evidence}
          /\ \A r \in DOMAIN lists : With(lists, evidence)[r] = lists[r]
      BY <2>1, WithIs
    <2> QED
      BY <1>1, <1>3, <2>1, <2>2
  <1>8. AllElse(object, got) = Beside(kept, all)
    BY DEF AllElse, kept, all
  <1> DEFINE full == AllElse(object, got)
  <1>9. /\ DOMAIN full = DOMAIN kept \cup DOMAIN all
        /\ \A r \in DOMAIN full : full[r] = IF r \in DOMAIN kept THEN kept[r] ELSE all[r]
    BY <1>8 DEF Beside
  <1>10. /\ DOMAIN kept \subseteq DOMAIN got
         /\ The("graph") \notin DOMAIN kept
         /\ \A r \in DOMAIN kept : r[1] = "diagnosis" => object.kind = "Service"
         /\ object.kind = "Service" => \A r \in DOMAIN got : r[1] = "diagnosis" => r \in DOMAIN kept
    BY <1>4, TheNames DEF Unjudged
  <1> HIDE DEF full
  <1>11. \A i : Diagnosis(i)[1] = "diagnosis"
    BY DEF Diagnosis
  <1>12. \A r : r[1] # "diagnosis" => (r \in DOMAIN full <=> r \in DOMAIN got)
    <2>1. \A r : r[1] # "diagnosis" => (r \in asked <=> r \in DOMAIN got)
      BY DEF asked, Asked
    <2> QED
      BY <1>7, <1>9, <1>10, <1>11, <2>1
  <1>13. The("graph") \in DOMAIN full => full[The("graph")].kind = "found"
    <2>1. The("graph")[1] # "diagnosis"
      BY TheNames
    <2>2. ASSUME The("graph") \in asked PROVE lists[The("graph")].kind = "found"
      <3>1. lists[The("graph")] = [kind |-> "found", value |-> NewGraph(Root(object))]
        BY <1>2, <2>2, Zenon
      <3> QED
        BY <3>1
    <2> DEFINE graph == The("graph")
    <2> HIDE DEF graph
    <2>3. ASSUME graph \in DOMAIN full PROVE graph \in asked
      BY <1>7, <1>9, <1>10, <1>11, <2>1, <2>3 DEF graph
    <2>4. ASSUME graph \in DOMAIN full PROVE full[graph] = lists[graph]
      BY <1>7, <1>9, <1>10, <2>3, <2>4 DEF graph
    <2> QED
      BY <2>2, <2>3, <2>4 DEF graph
  <1>14. ASSUME NEW r \in DOMAIN got, r[1] # "diagnosis", r # The("graph"), got[r].kind # "failed"
         PROVE  full[r] = got[r]
    <2>1. r \in asked /\ r \in DOMAIN full
      BY <1>12, <1>14 DEF asked, Asked
    <2>2. got[r] = AnswerTo(object, r, FALSE)
      BY <1>14, UnfailedIsThere
    <2> QED
      BY <1>2, <1>4, <1>7, <1>9, <1>14, <2>1, <2>2
  <1>15. \A r \in DOMAIN full : r[1] = "diagnosis" =>
                 \/ object.kind = "Service" /\ r \in DOMAIN got
                 \/ \E i \in Deep(object, lists) : r = Diagnosis(i)
    BY <1>5, <1>7, <1>9, <1>10
  <1>16. \A r \in DOMAIN got : object.kind = "Service" /\ r[1] = "diagnosis" =>
                 r \in DOMAIN full /\ full[r] = got[r]
    BY <1>4, <1>9, <1>10
  <1> QED
    BY <1>12, <1>13, <1>14, <1>15, <1>16 DEF full, lists, asked

\* Lemma: a healthy Deployment is healthy with everything read.
LEMMA HealthyDeployment ==
  ASSUME ReadingInv, AllReadInv, stage = "answered", object.kind = "Deployment", HealthyWith(object, got)
  PROVE  HealthyWith(object, AllElse(object, got))
  <1> DEFINE full == AllElse(object, got)
             recorded == {The("graph"), The("replicasets"), The("pods")}
  <1>1. /\ ~LimitedBy(object, got)
        /\ \E m \in Majorities(object, got) :
             \A s \in DeploymentSignals(object, got, m) \cup EventsOrWarning(got[The("events")], object.name) :
               s.severity \notin Bad
    BY DeploymentHealthy
  <1>2. PICK m \in Majorities(object, got) :
          \A s \in DeploymentSignals(object, got, m) \cup EventsOrWarning(got[The("events")], object.name) :
            s.severity \notin Bad
    BY <1>1
  <1>3. UnhealthyOf(object, got) = {}
    BY <1>2, UnhealthyPodTells DEF Bad
  <1>4. got[The("events")].kind = "found"
    BY <1>2, EventsTell DEF Bad
  <1>5. {The("graph"), The("replicasets"), The("pods"), The("events")} \subseteq DOMAIN got
    BY ReadsAre DEF AllReadInv
  <1>6. Recorded(object) = recorded
    BY Zenon DEF Recorded
  <1>7. \A r \in recorded : got[r].kind # "failed"
    BY <1>1, <1>5, <1>6, SeenIsThere
  <1>8. \A r \in {The("replicasets"), The("pods"), The("events")} : r[1] # "diagnosis" /\ r # The("graph")
    BY TheNames
  <1>9. /\ \A r \in {The("replicasets"), The("pods"), The("events")} : r \in DOMAIN full /\ full[r] = got[r]
        /\ The("graph") \in DOMAIN full => full[The("graph")].kind = "found"
    BY <1>4, <1>5, <1>7, <1>8, SeenAgain
  <1> HIDE DEF full
  <1>10. ListOf(full, "pods") = ListOf(got, "pods") /\ ListOf(full, "replicasets") = ListOf(got, "replicasets")
    BY <1>5, <1>9 DEF ListOf, Found
  <1>11. Pods(object, full) = Pods(object, got)
    BY <1>10, DeepDepends DEF Owners
  <1>12. UnhealthyOf(object, full) = {}
    BY <1>3, <1>11 DEF UnhealthyOf
  <1>13. ~LimitedBy(object, full)
    BY <1>6, <1>7, <1>9 DEF LimitedBy, Failed
  <1>14. ASSUME NEW g, UnhealthyOf(object, g) = {}
         PROVE  Majorities(object, g) = {""} /\ DeepOf(UnhealthyOf(object, g), g) = {}
    <2>1. {ReasonOf(p, g) : p \in UnhealthyOf(object, g)} = {}
      BY <1>14
    <2>2. Majorities(object, g) = {""}
      BY <2>1, Zenon DEF Majorities
    <2> QED
      BY <1>14, <2>2 DEF DeepOf
  <1>15. DeploymentSignals(object, full, "") = DeploymentSignals(object, got, "")
    <2> DEFINE ours == {Tell(object, "STATUS", "replica_status", {}, "info")}
                      \cup Short(object, "InsufficientReplicas", {})
                      \cup {Tell(object, "STATUS", c.reason, c.text \cup {"false"}, "critical") :
                              c \in {d \in object.conditions : d.status = "False"}}
                      \cup {Tell(object, "STATUS", c.reason, c.text, "critical") :
                              c \in {d \in object.conditions : d.reason = "ProgressDeadlineExceeded"}}
               Shared(g) == {Tell(object, "STATUS", "", WaitingMessageFor(object, g, ""), "critical")}
    <2>1. DeepOf(UnhealthyOf(object, full), full) = DeepOf(UnhealthyOf(object, got), got)
      BY <1>3, <1>12, <1>14
    <2>2. \A g : DeploymentSignals(object, g, "") =
                   ours \cup DeepOf(UnhealthyOf(object, g), g) \cup When("" # "", Shared(g))
      BY Zenon DEF DeploymentSignals
    <2>3. \A g : When("" # "", Shared(g)) = {}
      BY DEF When
    <2> HIDE DEF ours, Shared
    <2> QED
      BY <2>1, <2>2, <2>3
  <1>16. m = "" /\ "" \in Majorities(object, full)
    BY <1>2, <1>3, <1>12, <1>14
  <1>17. \A s \in DeploymentSignals(object, full, "") \cup EventsOrWarning(full[The("events")], object.name) :
           s.severity \notin Bad
    BY <1>2, <1>9, <1>15, <1>16
  <1>18. HealthyWith(object, full)
    BY <1>13, <1>16, <1>17, DeploymentHealthy
  <1> QED
    BY <1>18 DEF full

\* Lemma: what a Service's signals are made of.
LEMMA ServiceDepends ==
  ASSUME NEW o, NEW g, NEW h,
         Pods(o, g) = Pods(o, h), ListOf(g, "slices") = ListOf(h, "slices"),
         Found(g, The("slices")) = Found(h, The("slices")),
         \A slices : Endpoints(slices, g) = Endpoints(slices, h),
         \A pods : DeepOf(pods, g) = DeepOf(pods, h)
  PROVE  ServiceSignals(o, g) = ServiceSignals(o, h)
  <1> DEFINE Told(pods, ends, sliced, deep) ==
               LET Say(reason, severity) == Tell(o, "NETWORK", reason, {}, severity)
                   none == sliced /\ ends.total = 0 /\ o.selects
               IN {Say("service_spec", "info")} \cup
                  When(~o.external,
                    When(~o.selects /\ ~o.headless, {Say("SERVICE_NO_SELECTOR", "warning")})
                    \cup When(o.selects /\ pods = {}, {Say("SERVICE_NO_MATCHING_PODS", "critical")})
                    \cup When(o.selects /\ pods # {} /\ ~\E p \in pods : Serving(p),
                           {Say("SERVICE_NO_READY_PODS", "critical")})
                    \cup When(o.selects, deep \cup UNION {TargetMissing(o, t, p) : t \in o.targets, p \in pods})
                    \cup When(none, {Say("SERVICE_NO_ENDPOINTS", "critical")})
                    \cup When(~none /\ ends.total > 0 /\ ends.ready = 0,
                           {Say("SERVICE_NO_READY_ENDPOINTS", "critical")}))
  <1>1. \A k : ServiceSignals(o, k) =
          Told(Pods(o, k), Endpoints(ListOf(k, "slices"), k), Found(k, The("slices")),
               DeepOf({p \in Pods(o, k) : ~Serving(p)}, k))
    BY SMT DEF ServiceSignals
  <1> HIDE DEF Told
  <1>2. Endpoints(ListOf(g, "slices"), g) = Endpoints(ListOf(h, "slices"), h)
    OBVIOUS
  <1>3. DeepOf({p \in Pods(o, g) : ~Serving(p)}, g) = DeepOf({p \in Pods(o, h) : ~Serving(p)}, h)
    OBVIOUS
  <1> QED
    BY <1>1, <1>2, <1>3

\* Lemma: a healthy Service is healthy with everything read but for its pods' diagnoses.
LEMMA HealthyService ==
  ASSUME ReadingInv, AllReadInv, stage = "answered", object.kind = "Service", HealthyWith(object, got)
  PROVE  HealthyWith(object, AllElse(object, got))
  <1> DEFINE full == AllElse(object, got)
             recorded == {The("graph"), The("pods"), The("slices"), The("endpoints")}
             lists == Full(object, Asked(got))
  <1>1. /\ ~LimitedBy(object, got)
        /\ \A s \in ServiceSignals(object, got) \cup
                    When(~object.external, EventsOrWarning(got[The("events")], object.name)) :
             s.severity \notin Bad
    BY ServiceHealthy
  <1>2. ~object.external => got[The("events")].kind = "found"
    <2> SUFFICES ASSUME ~object.external, got[The("events")].kind # "found" PROVE FALSE
      OBVIOUS
    <2>1. PICK s \in EventsOrWarning(got[The("events")], object.name) : s.severity = "warning"
      BY EventsTell
    <2>2. s \in When(~object.external, EventsOrWarning(got[The("events")], object.name))
      BY DEF When
    <2> QED
      BY <1>1, <2>1, <2>2 DEF Bad
  <1>3. The("events") \in DOMAIN got /\ \A i \in Deep(object, got) : Diagnosis(i) \in DOMAIN got
    BY ReadsAre DEF AllReadInv
  <1>4. Recorded(object) = recorded
    BY Zenon DEF Recorded
  <1>5. \A r \in recorded \cap DOMAIN got : got[r].kind # "failed"
    BY <1>1, <1>4, SeenIsThere
  <1>6. \A what \in {"pods", "slices", "endpoints", "events"} :
          The(what)[1] # "diagnosis" /\ The(what) # The("graph")
    BY TheNames
  <1>7. \A what \in {"pods", "slices", "endpoints"} :
          /\ The(what) \in DOMAIN full <=> The(what) \in DOMAIN got
          /\ The(what) \in DOMAIN got => full[The(what)] = got[The(what)] /\ got[The(what)].kind # "failed"
    BY <1>5, <1>6, SeenAgain
  <1>8. The("graph") \in DOMAIN full => full[The("graph")].kind = "found"
    BY SeenAgain
  <1>9. ~object.external => full[The("events")] = got[The("events")]
    BY <1>2, <1>3, <1>6, SeenAgain
  <1>10. \A r : r[1] = "diagnosis" =>
           /\ r \in DOMAIN full <=> r \in DOMAIN got
           /\ r \in DOMAIN got => full[r] = got[r]
    <2>1. ListOf(lists, "pods") = ListOf(got, "pods")
      <3>1. DOMAIN lists = Asked(got)
        BY DEF Full
      <3>2. The("pods") \in Asked(got) <=> The("pods") \in DOMAIN got
        BY <1>6 DEF Asked
      <3>3. The("pods") \in DOMAIN got => lists[The("pods")] = got[The("pods")]
        <4> SUFFICES ASSUME The("pods") \in DOMAIN got PROVE lists[The("pods")] = got[The("pods")]
          OBVIOUS
        <4>1. got[The("pods")] = AnswerTo(object, The("pods"), FALSE)
          BY <1>6, <1>7, UnfailedIsThere
        <4> QED
          BY <1>6, <3>2, <4>1 DEF Full
      <3> HIDE DEF lists
      <3> QED
        BY <3>1, <3>2, <3>3 DEF ListOf, Found
    <2>2. Deep(object, lists) = Deep(object, got)
      BY <2>1, DeepDepends DEF Owners
    <2> HIDE DEF full
    <2>3. \A r \in DOMAIN full : r[1] = "diagnosis" => r \in DOMAIN got
      BY <1>3, <2>2, SeenAgain DEF full
    <2>4. \A r \in DOMAIN got : r[1] = "diagnosis" => r \in DOMAIN full /\ full[r] = got[r]
      BY SeenAgain DEF full
    <2> QED
      BY <2>3, <2>4
  <1> HIDE DEF full, lists
  <1>11. \A what \in {"pods", "slices", "endpoints"} :
           Found(full, The(what)) = Found(got, The(what)) /\ ListOf(full, what) = ListOf(got, what)
    BY <1>7 DEF Found, ListOf
  <1>12. Pods(object, full) = Pods(object, got)
    BY <1>11, DeepDepends DEF Owners
  <1>13. \A pods : DeepOf(pods, full) = DeepOf(pods, got)
    <2>1. \A p : Diagnosis(p)[1] = "diagnosis"
      BY DEF Diagnosis
    <2> QED
      BY <1>10, <2>1 DEF DeepOf
  <1>14. \A slices : Endpoints(slices, full) = Endpoints(slices, got)
    <2>1. Found(got, The("endpoints")) => full[The("endpoints")] = got[The("endpoints")]
      BY <1>7 DEF Found
    <2> QED
      BY <1>11, <2>1, Zenon DEF Endpoints
  <1>15. ServiceSignals(object, full) = ServiceSignals(object, got)
    BY <1>11, <1>12, <1>13, <1>14, ServiceDepends
  <1>16. ~LimitedBy(object, full)
    BY <1>4, <1>7, <1>8 DEF LimitedBy, Failed
  <1>17. When(~object.external, EventsOrWarning(full[The("events")], object.name)) =
         When(~object.external, EventsOrWarning(got[The("events")], object.name))
    BY <1>9 DEF When
  <1>18. HealthyWith(object, full)
    BY <1>1, <1>15, <1>16, <1>17, ServiceHealthy
  <1> QED
    BY <1>18 DEF full

\* Of a Pod, a Deployment and a Service, healthy is said only if it would be with everything
\* read: whichever of any number of reads failed and whenever the context ended, what
\* could not be seen has made a bad signal, or has been recorded and keeps healthy back, or is
\* of logs and metrics.
THEOREM HealthyIsTrueHolds == Spec => []HealthyIsTrue
  <1>1. ReadingInv /\ AnswerInv /\ DeepInv /\ AllReadInv /\ PodOnlyInv => HealthyIsTrue
    <2> SUFFICES ASSUME ReadingInv, AnswerInv, DeepInv, AllReadInv, PodOnlyInv, stage = "answered",
                        object.kind \in {"Pod", "Deployment", "Service"}, answer.health = "healthy"
                 PROVE  HealthyWith(object, AllElse(object, got))
      BY DEF HealthyIsTrue, Answered
    <2>1. PICK r \in Responses(object, got) : IsAnswer(r) /\ Upheld(r, answer)
      BY AnswerIs
    <2>2. r.health = "healthy"
      BY <2>1 DEF Upheld
    <2>3. HealthyWith(object, got)
      BY <2>2 DEF HealthyWith
    <2>4. CASE object.kind = "Pod"
      BY <2>2, <2>3, <2>4, HealthyPodSeen
    <2>5. CASE object.kind = "Deployment"
      BY <2>3, <2>5, HealthyDeployment
    <2>6. CASE object.kind = "Service"
      BY <2>3, <2>6, HealthyService
    <2> QED
      BY <2>4, <2>5, <2>6
  <1> QED
    BY <1>1, ReadingInvHolds, SeenInvHolds, PodOnlyHolds, PTL

----------------------------------------------------------------------------
(* What is found.                                                          *)

\* The signals that are no word about a failed read.
Sure(S) == {s \in S : s.source \notin {"EVENT", "SCHEDULER"}}

\* What g has of its reads h has too, but for what failed, a graph, and evidence that is
\* not sure.
Within(g, h) ==
  \A r \in DOMAIN g :
    /\ r # The("graph") /\ r[1] # "diagnosis" =>
         r \in DOMAIN h /\ (g[r].kind = "failed" \/ g[r] = h[r])
    /\ r[1] = "diagnosis" => \A s \in Sure(g[r].value) : r \in DOMAIN h /\ s \in h[r].value

\* Lemma: a pod's sure signals are those of what was read.
LEMMA PodSure ==
  ASSUME NEW p, IsPod(p), NEW g, NEW h, PodReads(p) \subseteq DOMAIN g, Within(g, h),
         NEW s \in Sure(PodSignals(p, g))
  PROVE  s \in PodSignals(p, h)
  <1> DEFINE high == Signal("METRIC", "high_memory", {}, "warning", p.name)
  <1>0. s \in PodSignals(p, g) /\ s.source \notin {"EVENT", "SCHEDULER"}
    BY DEF Sure
  <1>1. \A what \in {"node", "logs", "previous_logs", "metrics"} :
          Found(g, The(what)) => Found(h, The(what)) /\ h[The(what)] = g[The(what)]
    BY TheNames DEF Within, Found
  <1>2. ASSUME NEW r \in Elements(p.refs), s \in RefSignals(p, r, g[<<r.of, r.name>>])
        PROVE  s \in RefSignals(p, r, h[<<r.of, r.name>>])
    <2> DEFINE read == <<r.of, r.name>>
    <2>1. read \in DOMAIN g
      BY PodReadsAre
    <2>2. read[1] = r.of /\ r.of \in {"configmap", "secret", "pull", "account", "pvc"}
      BY DEF IsPod
    <2>3. read # The("graph") /\ read[1] # "diagnosis"
      BY <2>2, TheNames
    <2> HIDE DEF read
    <2>4. g[read].kind # "failed"
      BY <1>2 DEF RefSignals, read
    <2>5. g[read] = h[read]
      BY <2>1, <2>3, <2>4 DEF Within
    <2> QED
      BY <1>2, <2>5 DEF read
  <1>3. s \notin EventsOrWarning(g[The("events")], p.name) /\ s \notin EventsOrWarning(g[The("node_events")], "node")
    BY <1>0, AboutEvents
  <1>4. s \notin ScheduleSignals(p, g[The("nodes")])
    BY <1>0, ReadSignalsAre
  <1> HIDE DEF high
  <1>5. \/ s \in StatusSignals(p) \/ s \in ProbeSignals(p)
        \/ \E r \in Elements(p.refs) : s \in RefSignals(p, r, g[<<r.of, r.name>>])
        \/ Found(g, The("node")) /\ s \in NodeSignals(p, g[The("node")].value)
        \/ \E l \in {The("logs"), The("previous_logs")} : Found(g, l) /\ s \in LogSignals(g[l].value, p.name)
        \/ Found(g, The("metrics")) /\ g[The("metrics")].value /\ s = high
    BY <1>0, <1>3, <1>4, PodSignalFrom, Zenon DEF Found, high
  <1>6. \/ s \in StatusSignals(p) \/ s \in ProbeSignals(p)
        \/ \E r \in Elements(p.refs) : s \in RefSignals(p, r, h[<<r.of, r.name>>])
        \/ Found(h, The("node")) /\ s \in NodeSignals(p, h[The("node")].value)
        \/ \E l \in {The("logs"), The("previous_logs")} : Found(h, l) /\ s \in LogSignals(h[l].value, p.name)
        \/ Found(h, The("metrics")) /\ h[The("metrics")].value /\ s = high
    BY <1>1, <1>2, <1>5
  <1> QED
    BY <1>6, PodSignalFrom, Zenon DEF Found, high

\* Lemma: nested evidence is as sure as what it is made of.
LEMMA NestedSure ==
  ASSUME NEW S, NEW T, \A t \in Sure(S) : t \in T, NEW s \in Sure(Nested(S))
  PROVE  s \in Nested(T)
  <1>1. PICK t \in S : s = Signal(t.source, "", t.text \ {"Job"}, "warning", t.about)
    BY NestedIs DEF Sure
  <1>2. s.source = t.source /\ s.source \notin {"EVENT", "SCHEDULER"}
    BY <1>1 DEF Signal, Sure
  <1>3. t \in T
    BY <1>1, <1>2 DEF Sure
  <1> QED
    BY <1>1, <1>3 DEF Nested

\* Lemma: what a diagnosis of a pod is sure of, it would say with everything read.
LEMMA PodEvidenceSure ==
  ASSUME NEW p, IsPod(p), NEW late, NEW e \in PodEvidence(p, late), NEW s \in Sure(e)
  PROVE  s \in FullPod(p)
  <1> DEFINE reads == PodReads(p)
             full == Full(p, reads)
  <1>1. PICK F \in SUBSET reads : e = DeepSignals(p, [r \in reads |-> AnswerTo(p, r, r \in F)])
    BY DEF PodEvidence, PodReadings
  <1> DEFINE g == [r \in reads |-> AnswerTo(p, r, r \in F)]
  <1>2. DOMAIN g = reads /\ \A r \in reads : g[r] = AnswerTo(p, r, r \in F)
    OBVIOUS
  <1>3. DOMAIN full = reads /\ \A r \in reads : r # The("graph") => full[r] = AnswerTo(p, r, FALSE)
    BY DEF Full
  <1>4. \A r \in reads : r[1] # "diagnosis"
    <2>1. \A ref \in Elements(p.refs) : <<ref.of, ref.name>>[1] # "diagnosis"
      BY DEF IsPod
    <2>2. \A what \in {"events", "metrics", "node", "node_events", "nodes", "logs", "previous_logs"} :
            The(what)[1] # "diagnosis"
      BY TheNames
    <2> QED
      BY <2>1, <2>2, PodReadsAre
  <1> HIDE DEF g, full, reads
  <1>5. Within(g, full)
    <2>1. \A r \in reads : g[r].kind = "failed" \/ g[r] = AnswerTo(p, r, FALSE)
      BY <1>2 DEF AnswerTo
    <2> QED
      BY <1>2, <1>3, <1>4, <2>1 DEF Within
  <1>6. \A t \in Sure(PodSignals(p, g)) : t \in PodSignals(p, full)
    BY <1>2, <1>5, PodSure DEF reads
  <1>7. e = Nested(PodSignals(p, g)) /\ FullPod(p) = Nested(PodSignals(p, full))
    BY <1>1 DEF DeepSignals, FullPod, g, full, reads
  <1> QED
    BY <1>6, <1>7, NestedSure

\* Lemma: a list that was read is the list there is.
LEMMA ListKept ==
  ASSUME NEW g, NEW h, Within(g, h), NEW what, what \notin {"graph", "diagnosis"}, Found(g, The(what))
  PROVE  Found(h, The(what)) /\ ListOf(h, what) = ListOf(g, what)
  BY TheNames DEF Within, Found, ListOf

\* Lemma: what is in a list was read in it.
LEMMA ListedIsFound ==
  ASSUME NEW g, NEW what, Elements(ListOf(g, what)) # {}
  PROVE  Found(g, The(what))
  BY EmptyHasNone DEF ListOf

\* Lemma: sure evidence of pods or jobs is among that of as many.
LEMMA DeepSure ==
  ASSUME NEW g, NEW h, Within(g, h), NEW P, NEW Q, P \subseteq Q, NEW s \in Sure(DeepOf(P, g))
  PROVE  s \in DeepOf(Q, h)
  <1>1. PICK p \in P : Diagnosis(p) \in DOMAIN g /\ s \in g[Diagnosis(p)].value
    BY DEF DeepOf, Sure
  <1>2. Diagnosis(p)[1] = "diagnosis"
    BY DEF Diagnosis
  <1>3. s \in Sure(g[Diagnosis(p)].value)
    BY <1>1 DEF Sure
  <1>4. Diagnosis(p) \in DOMAIN h /\ s \in h[Diagnosis(p)].value
    BY <1>1, <1>2, <1>3 DEF Within
  <1> QED
    BY <1>1, <1>4 DEF DeepOf

\* Lemma: so are the signals of what owns pods or jobs.
LEMMA OwnerSure ==
  ASSUME NEW o, NEW g, NEW h, Within(g, h), NEW s, s.source \notin {"EVENT", "SCHEDULER"}
  PROVE  /\ o.kind = "StatefulSet" /\ s \in StatefulSetSignals(o, g) => s \in StatefulSetSignals(o, h)
         /\ o.kind = "DaemonSet" /\ s \in DaemonSetSignals(o, g) => s \in DaemonSetSignals(o, h)
         /\ o.kind = "Job" /\ s \in JobSignals(o, g) => s \in JobSignals(o, h)
         /\ o.kind = "CronJob" /\ s.reason # "never_scheduled" /\ s \in CronJobSignals(o, g) =>
              s \in CronJobSignals(o, h)
  <1>1. \A what \in {"pods", "claims", "jobs"} :
          Elements(ListOf(g, what)) # {} => ListOf(h, what) = ListOf(g, what)
    BY ListKept, ListedIsFound
  <1>2. \A P, Q : P \subseteq Q /\ s \in DeepOf(P, g) => s \in DeepOf(Q, h)
    BY DeepSure DEF Sure
  <1>3. o.kind \in {"StatefulSet", "DaemonSet", "Job"} =>
          Pods(o, g) \subseteq Pods(o, h) /\ UnhealthyOf(o, g) \subseteq UnhealthyOf(o, h)
    <2> SUFFICES ASSUME o.kind \in {"StatefulSet", "DaemonSet", "Job"}
                 PROVE  Pods(o, g) \subseteq Pods(o, h)
      BY DEF UnhealthyOf
    <2>1. CASE Elements(ListOf(g, "pods")) = {}
      BY <2>1 DEF Pods
    <2>2. CASE Elements(ListOf(g, "pods")) # {}
      BY <1>1, <2>2, DeepDepends DEF Owners
    <2> QED
      BY <2>1, <2>2
  <1>4. \A what \in {"claims", "jobs"} : Owned(ListOf(g, what), o.name) \subseteq Owned(ListOf(h, what), o.name)
    BY <1>1 DEF Owned
  <1>5. ASSUME o.kind = "StatefulSet", s \in StatefulSetSignals(o, g) PROVE s \in StatefulSetSignals(o, h)
    <2> DEFINE Unbound(k) == \E c \in Owned(ListOf(k, "claims"), o.name) : c.phase # "Bound"
               ours == {Tell(o, "STATUS", "replica_status", {}, "info")}
                      \cup Short(o, "InsufficientReplicas", {})
                      \cup When(o.updating /\ o.ready < o.desired,
                             {Tell(o, "STATUS", "revision_mismatch", {}, "warning")})
               pending == {Tell(o, "STATUS", "PVC_PENDING", {}, "critical")}
    <2>1. \A k : StatefulSetSignals(o, k) = ours \cup When(Unbound(k), pending) \cup DeepOf(UnhealthyOf(o, k), k)
      BY Zenon DEF StatefulSetSignals
    <2>2. Unbound(g) => Unbound(h)
      BY <1>4
    <2>3. s \in DeepOf(UnhealthyOf(o, g), g) => s \in DeepOf(UnhealthyOf(o, h), h)
      BY <1>2, <1>3, <1>5
    <2> HIDE DEF ours, pending, Unbound
    <2> QED
      BY <1>5, <2>1, <2>2, <2>3 DEF When
  <1>6. ASSUME o.kind = "DaemonSet", s \in DaemonSetSignals(o, g) PROVE s \in DaemonSetSignals(o, h)
    <2> DEFINE ours == {Tell(o, "STATUS", "daemonset_status", {"schedul"}, "info")}
                      \cup Short(o, "InsufficientNodes", {})
                      \cup When(o.misscheduled, {Tell(o, "STATUS", "Misscheduled", {"schedul"}, "warning")})
    <2>1. \A k : DaemonSetSignals(o, k) = ours \cup DeepOf(UnhealthyOf(o, k), k)
      BY Zenon DEF DaemonSetSignals
    <2>2. s \in DeepOf(UnhealthyOf(o, g), g) => s \in DeepOf(UnhealthyOf(o, h), h)
      BY <1>2, <1>3, <1>6
    <2> HIDE DEF ours
    <2> QED
      BY <1>6, <2>1, <2>2
  <1>7. ASSUME o.kind = "Job", s \in JobSignals(o, g) PROVE s \in JobSignals(o, h)
    <2> DEFINE Say(reason, text, severity) == Tell(o, "STATUS", reason, text \cup {"Job"}, severity)
               ours == {Say("job_status", {"failed", "backofflimit"}, "info")}
                      \cup {Say(JobReason(r), {}, "critical") : r \in o.failures}
                      \cup When(o.failed > 0 /\ o.failures = {}, {Say("JOB_POD_FAILED", {"failed"}, "critical")})
    <2>1. \A k : JobSignals(o, k) = ours \cup DeepOf(Pods(o, k), k)
      BY Zenon DEF JobSignals
    <2>2. s \in DeepOf(Pods(o, g), g) => s \in DeepOf(Pods(o, h), h)
      BY <1>2, <1>3, <1>7
    <2> HIDE DEF ours
    <2> QED
      BY <1>7, <2>1, <2>2
  <1>8. ASSUME o.kind = "CronJob", s.reason # "never_scheduled", s \in CronJobSignals(o, g)
        PROVE  s \in CronJobSignals(o, h)
    <2> DEFINE Jobs(k) == Owned(ListOf(k, "jobs"), o.name)
               Failures(k) == {j \in Jobs(k) : j.failures # {}}
               Say(reason, text, severity) == Tell(o, "STATUS", reason, text, severity)
               ours == {Say("cronjob_status", {"schedul"}, "info")}
                      \cup When(o.forbid /\ o.active > 1, {Say("concurrency_policy", {}, "warning")})
                      \cup When(o.suspended, {Say("Suspended", {}, "warning")})
               never == Say("never_scheduled", {"schedul"}, "warning")
    <2>1. \A k : CronJobSignals(o, k) =
                   ours \cup When(Failures(k) # {}, {Say("JOB_POD_FAILED", {"failed"}, "critical")}) \cup DeepOf(Jobs(k), k)
                   \cup When(Failures(k) = {} /\ ~o.suspended /\ o.never, {never})
      BY Zenon DEF CronJobSignals
    <2>2. Failures(g) # {} => Failures(h) # {}
      BY <1>4
    <2>3. s \in DeepOf(Jobs(g), g) => s \in DeepOf(Jobs(h), h)
      BY <1>2, <1>4
    <2>4. never.reason = "never_scheduled"
      BY TellIs
    <2> HIDE DEF ours, never, Failures, Jobs, Say
    <2> QED
      BY <1>8, <2>1, <2>2, <2>3, <2>4 DEF When
  <1> QED
    BY <1>5, <1>6, <1>7, <1>8

\* Lemma: what would be diagnosed of the lists there are is what is diagnosed of those read.
LEMMA DeepAgain ==
  ASSUME NEW o, o.kind \in {"StatefulSet", "DaemonSet", "Job", "CronJob"}, NEW g, NEW lists,
         \A what \in {"pods", "jobs"} : Found(g, The(what)) => ListOf(lists, what) = ListOf(g, what)
  PROVE  Deep(o, g) \subseteq Deep(o, lists)
  <1>1. CASE Deep(o, g) = {}
    BY <1>1
  <1>2. CASE Deep(o, g) # {}
    BY <1>2, DeepNeeds, DeepDepends DEF Owners
  <1> QED
    BY <1>1, <1>2

\* Lemma: what is read of a list, of all there is to read.
LEMMA FullIs ==
  ASSUME NEW o, NEW reads
  PROVE  /\ DOMAIN Full(o, reads) = reads
         /\ \A r \in reads : r # The("graph") => Full(o, reads)[r] = AnswerTo(o, r, FALSE)
  BY DEF Full

\* Lemma: an answer has failed or is what there is.
LEMMA FailedOrThere ==
  \A o, r : \A fails \in BOOLEAN :
    AnswerTo(o, r, fails).kind = "failed" \/ AnswerTo(o, r, fails) = AnswerTo(o, r, FALSE)
  BY DEF AnswerTo

\* Lemma: what a diagnosis of a job is sure of, it would say with everything read.
LEMMA JobEvidenceSure ==
  ASSUME NEW j, j.kind = "Job", HasLists(j), NEW late, NEW e \in JobEvidence(j, late), NEW s \in Sure(e)
  PROVE  s \in FullJob(j)
  <1> DEFINE reads == {The("pods"), The("events")}
             lists == Full(j, reads)
             evidence == [p \in Deep(j, lists) |-> FullPod(p)]
             full == With(lists, evidence)
  <1>1. PICK g \in JobReadings(j, late) :
          e = Nested(JobSignals(j, g) \cup EventsOrWarning(g[The("events")], j.name))
    BY DEF JobEvidence
  <1>2. PICK F \in SUBSET reads :
          /\ \A r \in reads : r \in DOMAIN g /\ g[r] = JobLists(j, F)[r]
          /\ \A r \in DOMAIN g : r \in reads \/ r[1] = "diagnosis"
          /\ \A r \in DOMAIN g : r[1] = "diagnosis" =>
                /\ g[r].kind = "found"
                /\ \/ g[r].value = {}
                   \/ \E p \in Deep(j, JobLists(j, F)) : r = Diagnosis(p) /\ g[r].value \in PodEvidence(p, late)
    BY JobReadingsAre
  <1> DEFINE base == JobLists(j, F)
  <1>3. DOMAIN base = reads /\ \A r \in reads : base[r].kind = "failed" \/ base[r] = AnswerTo(j, r, FALSE)
    <2>1. \A r \in reads : base[r] = AnswerTo(j, r, r \in F)
      BY DEF JobLists
    <2> QED
      BY <2>1 DEF JobLists, AnswerTo
  <1>4. \A r \in reads : r[1] # "diagnosis" /\ r # The("graph")
    BY TheNames
  <1>5. DOMAIN lists = reads /\ \A r \in reads : lists[r] = AnswerTo(j, r, FALSE)
    BY <1>4, FullIs
  <1>6. DOMAIN evidence = Deep(j, lists) /\ \A p \in Deep(j, lists) : evidence[p] = FullPod(p)
    OBVIOUS
  <1> HIDE DEF lists, evidence, base
  <1>7. /\ \A r \in reads : r \in DOMAIN full /\ full[r] = lists[r]
        /\ \A p \in Deep(j, lists) : Diagnosis(p) \in DOMAIN full /\ evidence[p] \subseteq full[Diagnosis(p)].value
    <2>1. \A r \in DOMAIN lists : r[1] # "diagnosis"
      BY <1>4, <1>5
    <2>2. /\ DOMAIN full = DOMAIN lists \cup {Diagnosis(i) : i \in DOMAIN evidence}
          /\ \A r \in DOMAIN lists : full[r] = lists[r]
          /\ \A i \in DOMAIN evidence : evidence[i] \subseteq full[Diagnosis(i)].value
      BY <2>1, WithIs
    <2> HIDE DEF full
    <2> QED
      BY <1>5, <1>6, <2>2
  <1>8. \A what \in {"pods", "jobs"} : Found(base, The(what)) => ListOf(lists, what) = ListOf(base, what)
    <2>1. The("jobs") \notin reads
      BY TheNames
    <2> QED
      BY <1>3, <1>5, <2>1 DEF Found, ListOf
  <1>9. Deep(j, base) \subseteq Deep(j, lists)
    BY <1>8, DeepAgain
  <1>10. \A p \in Deep(j, base) : IsPod(p)
    <2> SUFFICES ASSUME NEW p \in Deep(j, base) PROVE IsPod(p)
      OBVIOUS
    <2>1. p \in Elements(ListOf(base, "pods")) /\ Found(base, The("pods"))
      BY DeepIn, DeepNeeds DEF Owners, Pods
    <2>2. base[The("pods")] = AnswerTo(j, The("pods"), FALSE)
      BY <1>3, <2>1 DEF Found
    <2>3. The("pods") \in DOMAIN j.there /\ ListOf(base, "pods") = j.there[The("pods")]
      BY <2>1, <2>2 DEF Found, ListOf, AnswerTo
    <2> QED
      BY <2>1, <2>3 DEF HasLists
  <1> HIDE DEF full
  <1>11. Within(g, full)
    <2>1. ASSUME NEW r \in DOMAIN g, r[1] # "diagnosis"
          PROVE  r \in DOMAIN full /\ (g[r].kind = "failed" \/ g[r] = full[r])
      BY <1>2, <1>3, <1>5, <1>7, <2>1 DEF base
    <2>2. ASSUME NEW r \in DOMAIN g, r[1] = "diagnosis", NEW t \in Sure(g[r].value)
          PROVE  r \in DOMAIN full /\ t \in full[r].value
      <3>1. PICK p \in Deep(j, base) : r = Diagnosis(p) /\ g[r].value \in PodEvidence(p, late)
        BY <1>2, <2>2 DEF base, Sure
      <3>2. t \in FullPod(p)
        BY <1>10, <2>2, <3>1, PodEvidenceSure
      <3> QED
        BY <1>6, <1>7, <1>9, <3>1, <3>2
    <2> QED
      BY <2>1, <2>2 DEF Within
  <1>12. \A t \in Sure(JobSignals(j, g) \cup EventsOrWarning(g[The("events")], j.name)) : t \in JobSignals(j, full)
    <2> SUFFICES ASSUME NEW t \in Sure(JobSignals(j, g) \cup EventsOrWarning(g[The("events")], j.name))
                 PROVE  t \in JobSignals(j, full)
      OBVIOUS
    <2>1. t.source \notin {"EVENT", "SCHEDULER"} /\ t \in JobSignals(j, g)
      BY AboutEvents DEF Sure
    <2> QED
      BY <1>11, <2>1, OwnerSure
  <1>13. FullJob(j) = Nested(JobSignals(j, full) \cup EventsOrWarning(lists[The("events")], j.name))
    BY Zenon DEF FullJob, full, evidence, lists
  <1> DEFINE S == JobSignals(j, g) \cup EventsOrWarning(g[The("events")], j.name)
             T == JobSignals(j, full) \cup EventsOrWarning(lists[The("events")], j.name)
  <1>14. e = Nested(S) /\ FullJob(j) = Nested(T) /\ \A t \in Sure(S) : t \in T
    BY <1>1, <1>12, <1>13
  <1> HIDE DEF S, T
  <1>15. s \in Sure(Nested(S))
    BY <1>14
  <1> QED
    BY <1>14, <1>15, NestedSure

\* Lemma: what is diagnosed is a pod, or a job with lists.
LEMMA DeepIsStored ==
  ASSUME ReadingInv, object.kind \in Owners, NEW i \in Deep(object, got)
  PROVE  IF object.kind = "CronJob" THEN i.kind = "Job" /\ HasLists(i) ELSE IsPod(i)
  <1>0. object \in Objects
    <2>1. object # Nobody
      BY ObjectFacts DEF Owners
    <2> QED
      BY <2>1 DEF ReadingInv
  <1>1. \A what \in {"pods", "jobs"} : Found(got, The(what)) =>
          The(what) \in DOMAIN object.there /\ ListOf(got, what) = object.there[The(what)]
    BY FoundIsThere, TheNames DEF ListOf
  <1>2. CASE object.kind = "CronJob"
    <2>1. i \in Elements(ListOf(got, "jobs")) /\ Found(got, The("jobs"))
      BY <1>2, DeepIn, DeepNeeds DEF Owned
    <2> QED
      BY <1>0, <1>1, <1>2, <2>1, ObjectAssumption
  <1>3. CASE object.kind # "CronJob"
    <2>1. i \in Elements(ListOf(got, "pods")) /\ Found(got, The("pods"))
      BY <1>3, DeepIn, DeepNeeds DEF Pods
    <2> QED
      BY <1>0, <1>1, <1>3, <2>1, ObjectAssumption DEF HasLists
  <1> QED
    BY <1>2, <1>3

\* Lemma: what an owner of pods or jobs has read is within what there is to read.
LEMMA OwnerWithin ==
  ASSUME ReadingInv, DeepInv, object.kind \in {"StatefulSet", "DaemonSet", "Job", "CronJob"}
  PROVE  Within(got, Everything(object, got))
  <1> DEFINE asked == Asked(got)
             lists == Full(object, asked)
             FullOf(i) == IF object.kind = "CronJob" THEN FullJob(i) ELSE FullPod(i)
             evidence == [i \in Deep(object, lists) |-> FullOf(i)]
             full == With(lists, evidence)
  <1>1. Everything(object, got) = full
    <2>1. CASE object.kind = "CronJob"
      <3>1. Everything(object, got) = With(lists, [i \in Deep(object, lists) |-> FullJob(i)])
        BY <2>1, Zenon DEF Everything, Asked
      <3>2. \A i : FullOf(i) = FullJob(i)
        BY <2>1
      <3> QED
        BY <3>1, <3>2, Zenon
    <2>2. CASE object.kind # "CronJob"
      <3>1. Everything(object, got) = With(lists, [i \in Deep(object, lists) |-> FullPod(i)])
        BY <2>2, Zenon DEF Everything, Asked
      <3>2. \A i : FullOf(i) = FullPod(i)
        BY <2>2
      <3> QED
        BY <3>1, <3>2, Zenon
    <2> QED
      BY <2>1, <2>2
  <1>2. \A r : r \in asked <=> r \in DOMAIN got /\ r[1] # "diagnosis"
    BY DEF Asked
  <1>3. DOMAIN lists = asked /\ \A r \in asked : r # The("graph") => lists[r] = AnswerTo(object, r, FALSE)
    BY FullIs
  <1>4. DOMAIN evidence = Deep(object, lists) /\ \A i \in Deep(object, lists) : evidence[i] = FullOf(i)
    OBVIOUS
  <1> HIDE DEF asked, lists, evidence, FullOf
  <1>5. /\ \A r \in asked : r \in DOMAIN full /\ full[r] = lists[r]
        /\ \A i \in Deep(object, lists) : Diagnosis(i) \in DOMAIN full /\ evidence[i] \subseteq full[Diagnosis(i)].value
    <2>1. \A r \in DOMAIN lists : r[1] # "diagnosis"
      BY <1>2, <1>3
    <2>2. /\ DOMAIN full = DOMAIN lists \cup {Diagnosis(i) : i \in DOMAIN evidence}
          /\ \A r \in DOMAIN lists : full[r] = lists[r]
          /\ \A i \in DOMAIN evidence : evidence[i] \subseteq full[Diagnosis(i)].value
      BY <2>1, WithIs
    <2> HIDE DEF full
    <2> QED
      BY <1>3, <1>4, <2>2
  <1>6. \A r \in asked : r # The("graph") =>
          (got[r].kind = "failed" \/ got[r] = AnswerTo(object, r, FALSE))
    BY <1>2, UnfailedIsThere
  <1>7. \A what \in {"pods", "jobs"} : Found(got, The(what)) => ListOf(lists, what) = ListOf(got, what)
    <2> SUFFICES ASSUME NEW what \in {"pods", "jobs"}, Found(got, The(what))
                 PROVE  ListOf(lists, what) = ListOf(got, what)
      OBVIOUS
    <2>1. The(what)[1] # "diagnosis" /\ The(what) # The("graph")
      BY TheNames
    <2>2. The(what) \in asked /\ got[The(what)].kind = "found"
      BY <1>2, <2>1 DEF Found
    <2>3. lists[The(what)] = got[The(what)]
      BY <1>3, <1>6, <2>1, <2>2
    <2> QED
      BY <1>3, <2>2, <2>3 DEF ListOf, Found
  <1>8. Deep(object, got) \subseteq Deep(object, lists)
    BY <1>7, DeepAgain
  <1> HIDE DEF full
  <1>9. ASSUME NEW r \in DOMAIN got, r[1] = "diagnosis", NEW s \in Sure(got[r].value)
        PROVE  r \in DOMAIN full /\ s \in full[r].value
    <2>1. PICK i \in Deep(object, got), late \in BOOLEAN :
            r = Diagnosis(i) /\ got[r].value \in EvidenceOf(object, i, late)
      BY <1>9 DEF DeepInv
    <2>2. s \in FullOf(i)
      <3>1. CASE object.kind = "CronJob"
        <4>1. got[r].value \in JobEvidence(i, late)
          BY <1>9, <2>1, <3>1 DEF EvidenceOf, Sure
        <4>2. i.kind = "Job" /\ HasLists(i)
          BY <2>1, <3>1, DeepIsStored DEF Owners
        <4> QED
          BY <1>9, <3>1, <4>1, <4>2, JobEvidenceSure DEF FullOf
      <3>2. CASE object.kind # "CronJob"
        <4>1. got[r].value \in PodEvidence(i, late)
          BY <1>9, <2>1, <3>2 DEF EvidenceOf, Sure
        <4>2. IsPod(i)
          BY <2>1, <3>2, DeepIsStored DEF Owners
        <4> QED
          BY <1>9, <3>2, <4>1, <4>2, PodEvidenceSure DEF FullOf
      <3> QED
        BY <3>1, <3>2
    <2> QED
      BY <1>4, <1>5, <1>8, <2>1, <2>2
  <1>10. ASSUME NEW r \in DOMAIN got, r # The("graph"), r[1] # "diagnosis"
         PROVE  r \in DOMAIN full /\ (got[r].kind = "failed" \/ got[r] = full[r])
    BY <1>2, <1>3, <1>5, <1>6, <1>10
  <1>11. Within(got, full)
    BY <1>9, <1>10 DEF Within
  <1> QED
    BY <1>1, <1>11

\* Lemma: so is what has been read of a pod.
LEMMA PodWithin ==
  ASSUME ReadingInv, DeepInv, object.kind = "Pod"
  PROVE  Within(got, Everything(object, got))
  <1>1. \A r \in DOMAIN got : r[1] # "diagnosis"
    BY DEF DeepInv, Owners
  <1>2. Everything(object, got) = Full(object, {r \in DOMAIN got : r[1] # "diagnosis"})
    BY Zenon DEF Everything
  <1>3. {r \in DOMAIN got : r[1] # "diagnosis"} = DOMAIN got
    BY <1>1
  <1>4. /\ DOMAIN Full(object, DOMAIN got) = DOMAIN got
        /\ \A r \in DOMAIN got : r # The("graph") => Full(object, DOMAIN got)[r] = AnswerTo(object, r, FALSE)
    BY FullIs
  <1>5. \A r \in DOMAIN got : r # The("graph") => (got[r].kind = "failed" \/ got[r] = AnswerTo(object, r, FALSE))
    BY <1>1, UnfailedIsThere
  <1>6. Within(got, Full(object, DOMAIN got))
    BY <1>1, <1>4, <1>5 DEF Within
  <1> QED
    BY <1>2, <1>3, <1>6

\* Lemma: of the kinds whose failed reads are no findings, what an answer is made of.
LEMMA SignalsMeant ==
  ASSUME NEW o, NEW g
  PROVE  LET events == EventsOrWarning(g[The("events")], o.name)
         IN /\ o.kind = "Pod" => SignalsWith(o, g) = PodSignals(o, g)
            /\ o.kind = "StatefulSet" => SignalsWith(o, g) = StatefulSetSignals(o, g) \cup events
            /\ o.kind = "DaemonSet" => SignalsWith(o, g) = DaemonSetSignals(o, g) \cup events
            /\ o.kind = "Job" => SignalsWith(o, g) = JobSignals(o, g) \cup events
            /\ o.kind = "CronJob" => SignalsWith(o, g) = CronJobSignals(o, g) \cup events
  <1> DEFINE events == EventsOrWarning(g[The("events")], o.name)
  <1>1. ASSUME NEW S, Responses(o, g) # {}, \A r \in Responses(o, g) : MadeOf(S, r)
        PROVE  SignalsWith(o, g) = S
    <2>1. \A r \in Responses(o, g) : r.signals = S
      BY <1>1, AssembleIs DEF MadeOf, Marked
    <2> QED
      BY <1>1, <2>1 DEF SignalsWith
  <1>2. o.kind \in {"Pod", "StatefulSet", "DaemonSet", "Job", "CronJob"} => Responses(o, g) # {}
    <2>1. CASE o.kind = "Pod"
      <3>1. Responses(o, g) = {Assemble(PodSignals(o, g), LimitedBy(o, g))}
        BY <2>1, Zenon DEF Responses
      <3> QED
        BY <3>1
    <2>2. CASE o.kind = "StatefulSet"
      <3>1. Responses(o, g) = {Partial(LimitedBy(o, g), Cut(g[The("graph")].value.truncation # "",
                                 Assemble(StatefulSetSignals(o, g) \cup events, FALSE)))}
        BY <2>2, Zenon DEF Responses
      <3> QED
        BY <3>1
    <2>3. CASE o.kind = "DaemonSet"
      <3>1. Responses(o, g) = {Partial(LimitedBy(o, g), Cut(g[The("graph")].value.truncation # "",
                                 Assemble(DaemonSetSignals(o, g) \cup events, FALSE)))}
        BY <2>3, Zenon DEF Responses
      <3> QED
        BY <3>1
    <2>4. CASE o.kind = "Job"
      <3>1. Responses(o, g) = {Fine(o.succeeded > 0 /\ o.failed = 0 /\ o.failures = {},
                                 Assemble(JobSignals(o, g) \cup events, FALSE))}
        BY <2>4, Zenon DEF Responses
      <3> QED
        BY <3>1
    <2>5. CASE o.kind = "CronJob"
      <3>1. Responses(o, g) = {Assemble(CronJobSignals(o, g) \cup events, FALSE)}
        BY <2>5, Zenon DEF Responses
      <3> QED
        BY <3>1
    <2> QED
      BY <2>1, <2>2, <2>3, <2>4, <2>5
  <1> HIDE DEF events
  <1>3. \A r \in Responses(o, g) :
          /\ o.kind = "Pod" => MadeOf(PodSignals(o, g), r)
          /\ o.kind = "StatefulSet" => MadeOf(StatefulSetSignals(o, g) \cup events, r)
          /\ o.kind = "DaemonSet" => MadeOf(DaemonSetSignals(o, g) \cup events, r)
          /\ o.kind = "Job" => MadeOf(JobSignals(o, g) \cup events, r)
          /\ o.kind = "CronJob" => MadeOf(CronJobSignals(o, g) \cup events, r)
    BY ResponsesTell DEF events
  <1>4. o.kind = "Pod" => SignalsWith(o, g) = PodSignals(o, g)
    BY <1>1, <1>2, <1>3
  <1>5. o.kind = "StatefulSet" => SignalsWith(o, g) = StatefulSetSignals(o, g) \cup events
    BY <1>1, <1>2, <1>3
  <1>6. o.kind = "DaemonSet" => SignalsWith(o, g) = DaemonSetSignals(o, g) \cup events
    BY <1>1, <1>2, <1>3
  <1>7. o.kind = "Job" => SignalsWith(o, g) = JobSignals(o, g) \cup events
    BY <1>1, <1>2, <1>3
  <1>8. o.kind = "CronJob" => SignalsWith(o, g) = CronJobSignals(o, g) \cup events
    BY <1>1, <1>2, <1>3
  <1> QED
    BY <1>4, <1>5, <1>6, <1>7, <1>8 DEF events

\* A failed read never becomes a finding: whatever was said of the containers, the things a pod
\* refers to, a workload's status and its pods' diagnoses is said too with everything read,
\* however many reads failed, at whatever depth and whenever the context ended.
THEOREM NothingInventedHolds == Spec => []NothingInvented
  <1>1. ReadingInv /\ AnswerInv /\ DeepInv /\ AllReadInv => NothingInvented
    <2> DEFINE full == Everything(object, got)
               events == EventsOrWarning(got[The("events")], object.name)
    <2> SUFFICES ASSUME ReadingInv, AnswerInv, DeepInv, AllReadInv, stage = "answered",
                        object.kind \in {"Pod", "StatefulSet", "DaemonSet", "Job", "CronJob"},
                        NEW s \in answer.signals,
                        s.source \notin {"EVENT", "SCHEDULER"}, s.reason # "never_scheduled"
                 PROVE  s \in SignalsWith(object, full)
      BY DEF NothingInvented, Answered
    <2>1. PICK r \in Responses(object, got) : IsAnswer(r) /\ Upheld(r, answer)
      BY AnswerIs
    <2>2. s \in SignalsWith(object, got)
      BY <2>1 DEF Upheld, Retold, SignalsWith
    <2>3. Within(got, full)
      BY PodWithin, OwnerWithin
    <2>4. s \notin events
      BY AboutEvents
    <2> HIDE DEF full, events
    <2>5. CASE object.kind = "Pod"
      <3>1. IsPod(object)
        BY <2>5, ObjectAssumption DEF ReadingInv
      <3>2. PodReads(object) \subseteq DOMAIN got
        BY <2>5, ReadsAre DEF AllReadInv
      <3>3. s \in Sure(PodSignals(object, got))
        BY <2>2, <2>5, SignalsMeant DEF Sure
      <3>4. s \in PodSignals(object, full)
        BY <2>3, <3>1, <3>2, <3>3, PodSure
      <3> QED
        BY <2>5, <3>4, SignalsMeant
    <2>6. CASE object.kind = "StatefulSet"
      <3>1. s \in StatefulSetSignals(object, got)
        BY <2>2, <2>4, <2>6, SignalsMeant DEF events
      <3>2. s \in StatefulSetSignals(object, full)
        BY <2>3, <2>6, <3>1, OwnerSure
      <3> QED
        BY <2>6, <3>2, SignalsMeant
    <2>7. CASE object.kind = "DaemonSet"
      <3>1. s \in DaemonSetSignals(object, got)
        BY <2>2, <2>4, <2>7, SignalsMeant DEF events
      <3>2. s \in DaemonSetSignals(object, full)
        BY <2>3, <2>7, <3>1, OwnerSure
      <3> QED
        BY <2>7, <3>2, SignalsMeant
    <2>8. CASE object.kind = "Job"
      <3>1. s \in JobSignals(object, got)
        BY <2>2, <2>4, <2>8, SignalsMeant DEF events
      <3>2. s \in JobSignals(object, full)
        BY <2>3, <2>8, <3>1, OwnerSure
      <3> QED
        BY <2>8, <3>2, SignalsMeant
    <2>9. CASE object.kind = "CronJob"
      <3>1. s \in CronJobSignals(object, got)
        BY <2>2, <2>4, <2>9, SignalsMeant DEF events
      <3>2. s \in CronJobSignals(object, full)
        BY <2>3, <2>9, <3>1, OwnerSure
      <3> QED
        BY <2>9, <3>2, SignalsMeant
    <2> QED
      BY <2>5, <2>6, <2>7, <2>8, <2>9
  <1> QED
    BY <1>1, ReadingInvHolds, SeenInvHolds, PTL
=============================================================================
