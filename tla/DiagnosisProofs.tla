--------------------------- MODULE DiagnosisProofs ---------------------------
(***************************************************************************)
(* Proofs about the answer of a diagnosis, for any objects, whatever of    *)
(* them could be read, and any limits.                                     *)
(***************************************************************************)
EXTENDS ResolverProofs, NaturalsInduction, SequenceTheorems, WellFoundedInduction

----------------------------------------------------------------------------
(* Least elements.                                                         *)

\* Lemma: a set of natural numbers that is not empty has a least element.
LEMMA LeastOf ==
  ASSUME NEW T \in SUBSET Nat, T # {}
  PROVE  \E i \in T : \A j \in T : i <= j
  <1> DEFINE Less == {ss \in Nat \X Nat : ss[1] < ss[2]}
  <1>1. IsWellFoundedOn(Less, Nat)
    BY NatLessThanWellFounded DEF OpToRel
  <1> HIDE DEF Less
  <1>2. PICK i \in T : \A j \in T : ~(<<j, i>> \in Less)
    BY <1>1, WFMin
  <1>3. \A j \in T : ~(j < i)
    BY <1>2 DEF Less
  <1> QED
    BY <1>3

\* Lemma: the indices of a sequence are natural numbers.
LEMMA IndicesAreNat == \A n \in Nat : 1 .. n \subseteq Nat
  OBVIOUS

\* Lemma: the empty list has no elements.
LEMMA EmptyHasNone == DOMAIN <<>> = {} /\ Elements(<<>>) = {}
  <1>1. DOMAIN <<>> = {}
    OBVIOUS
  <1> QED
    BY <1>1 DEF Elements

\* Lemma: what is said of an unhealthy pod without a diagnosis is never nothing.
LEMMA WaitingIsSaid ==
  ASSUME NEW p, p.phase # "", p.containers \in Seq(Elements(p.containers))
  PROVE  DominantWaiting(p) # ""
  <1> DEFINE told == {i \in DOMAIN p.containers : p.containers[i].waiting # "" \/ p.containers[i].exited # ""}
             first == CHOOSE i \in told : \A j \in told : i <= j
  <1>1. CASE told = {}
    <2>1. DominantWaiting(p) = p.phase
      BY <1>1, Zenon DEF DominantWaiting
    <2> QED
      BY <2>1
  <1>2. CASE told # {}
    <2>1. told \in SUBSET Nat
      <3>1. told \subseteq DOMAIN p.containers
        BY Zenon
      <3>2. DOMAIN p.containers = 1 .. Len(p.containers) /\ Len(p.containers) \in Nat
        BY LenProperties
      <3> QED
        BY <3>1, <3>2, IndicesAreNat, Zenon
    <2>2. first \in told
      <3> HIDE DEF told
      <3> QED
        BY <1>2, <2>1, LeastOf
    <2>3. p.containers[first].waiting # "" \/ p.containers[first].exited # ""
      BY <2>2
    <2> QED
      BY <1>2, <2>3 DEF DominantWaiting
  <1> QED
    BY <1>1, <1>2

----------------------------------------------------------------------------
(* What has been read.                                                     *)

\* The stages, and what a read has come to: nested evidence is all warnings, and what
\* was found is what there is.
ReadingInv ==
  /\ stage \in {"resolve", "read", "answered"}
  /\ object \in Objects \cup {Nobody} /\ (stage = "resolve") = (object = Nobody)
  /\ over \in BOOLEAN
  /\ stage = "resolve" \/ object.kind = "Generic" => got = <<>>
  /\ \A r \in DOMAIN got :
       /\ got[r].kind \in {"found", "absent", "failed"}
       /\ r[1] = "diagnosis" => \A s \in got[r].value : s.severity = "warning"
       /\ r[1] # "diagnosis" /\ r # The("graph") =>
            \E fails \in BOOLEAN : got[r] = AnswerTo(object, r, fails)

\* The answer is one of those the analysis comes to, of what was read.
AnswerInv ==
  stage = "answered" =>
    \E r \in Responses(object, got) : answer \in {r, DemoteConfirmed(r)}

\* Lemma: nested evidence is all warnings.
LEMMA NestedWarns == ASSUME NEW S PROVE \A s \in Nested(S) : s.severity = "warning"
  <1> SUFFICES ASSUME NEW s \in Nested(S) PROVE s.severity = "warning"
    OBVIOUS
  <1>1. PICK t \in S : s = Signal(t.source, "", t.text \ {"Job"}, "warning", t.about)
    BY DEF Nested
  <1> QED
    BY <1>1 DEF Signal

\* Lemma: what a read may come to.
LEMMA AnswersFacts ==
  ASSUME NEW o, NEW r, NEW g, NEW late \in BOOLEAN, NEW a \in Answers(o, r, g, late)
  PROVE  /\ a.kind \in {"found", "absent", "failed"}
         /\ r[1] = "diagnosis" => \A s \in a.value : s.severity = "warning"
         /\ r[1] # "diagnosis" /\ r # The("graph") => \E fails \in BOOLEAN : a = AnswerTo(o, r, fails)
  <1>1. CASE r = The("graph")
    <2>1. r[1] = "graph" /\ r[1] # "diagnosis"
      BY <1>1 DEF The
    <2>2. Answers(o, r, g, late) =
            {GraphAnswer(o, lost) : lost \in {L \in SUBSET GraphRequests(o) : late => L = GraphRequests(o)}}
      BY <1>1, <2>1, Zenon DEF Answers
    <2>3. PICK lost : a = GraphAnswer(o, lost)
      BY <2>2
    <2>4. a.kind \in {"found", "failed"}
      BY <2>3 DEF GraphAnswer
    <2> QED
      BY <1>1, <2>1, <2>4
  <1>2. CASE r # The("graph") /\ r[1] = "diagnosis"
    <2>0. Answers(o, r, g, late) =
            {[kind |-> "found", value |-> e] :
               e \in (UNION {IF o.kind = "CronJob" THEN JobEvidence(i, late) ELSE PodEvidence(i, late) :
                              i \in {d \in Deep(o, g) : Diagnosis(d) = r}})
                    \cup When(late, Skipped(Deep(o, g)))}
      BY <1>2, Zenon DEF Answers
    <2>1. PICK e :
            /\ a = [kind |-> "found", value |-> e]
            /\ \/ e = {}
               \/ \E i : e \in JobEvidence(i, late)
               \/ \E i : e \in PodEvidence(i, late)
      BY <2>0 DEF When, Skipped
    <2>2. \A s \in e : s.severity = "warning"
      BY <2>1, NestedWarns DEF JobEvidence, PodEvidence, DeepSignals
    <2> QED
      BY <1>2, <2>1, <2>2
  <1>3. CASE r # The("graph") /\ r[1] # "diagnosis"
    <2>0. Answers(o, r, g, late) = {AnswerTo(o, r, fails) : fails \in {TRUE, late}}
      BY <1>3, Zenon DEF Answers
    <2>1. PICK fails \in {TRUE, late} : a = AnswerTo(o, r, fails)
      BY <2>0
    <2>2. a.kind \in {"found", "absent", "failed"}
      BY <2>1 DEF AnswerTo
    <2> QED
      BY <1>3, <2>1, <2>2
  <1> QED
    BY <1>1, <1>2, <1>3

\* Lemma: the kinds, and that nobody is none of the objects.
LEMMA ObjectFacts ==
  /\ Nobody \notin Objects /\ Nobody.kind = "none"
  /\ \A o \in Objects : o.kind \in Kinds
  BY ObjectAssumption DEF Nobody, Kinds

\* Lemma: a read of something there is one of tells of what it is.
LEMMA TheNames == \A a, b : The(a)[1] = a /\ (The(a) = The(b) => a = b)
  BY DEF The

\* Lemma: what was found is what there is.
LEMMA FoundIsThere ==
  ASSUME ReadingInv, NEW r, r[1] # "diagnosis", r # The("graph"), Found(got, r)
  PROVE  r \in DOMAIN object.there /\ got[r] = AnswerTo(object, r, FALSE)
         /\ got[r].value = object.there[r]
  <1>1. PICK fails \in BOOLEAN : got[r] = AnswerTo(object, r, fails)
    BY DEF ReadingInv, Found
  <1> QED
    BY <1>1 DEF Found, AnswerTo

\* Lemma: it is so at first, when nothing has been read.
LEMMA ReadingInit == Init => ReadingInv /\ AnswerInv
  <1> SUFFICES ASSUME Init PROVE ReadingInv /\ AnswerInv
    OBVIOUS
  <1>1. stage = "resolve" /\ object = Nobody /\ over = FALSE /\ got = <<>>
    BY DEF Init
  <1>2. DOMAIN got = {}
    BY <1>1
  <1>3. ReadingInv
    BY <1>1, <1>2, ObjectFacts DEF ReadingInv
  <1> QED
    BY <1>1, <1>3 DEF AnswerInv

\* Lemma: a read adds one answer, and takes none away.
LEMMA ReadKeeps == ReadingInv /\ AnswerInv /\ Read => ReadingInv' /\ AnswerInv'
  <1> SUFFICES ASSUME ReadingInv, Read PROVE ReadingInv' /\ AnswerInv'
    OBVIOUS
  <1>1. PICK new \in NextReads : \E a \in Answers(object, new, got, over) :
          got' = [r \in DOMAIN got \cup {new} |-> IF r = new THEN a ELSE got[r]]
    BY DEF Read
  <1>2. PICK a \in Answers(object, new, got, over) :
          got' = [r \in DOMAIN got \cup {new} |-> IF r = new THEN a ELSE got[r]]
    BY <1>1
  <1>3. /\ stage = "read" /\ over \in BOOLEAN
        /\ stage' = stage /\ object' = object /\ over' = over
    BY DEF Read, ReadingInv
  <1>0. object.kind # "Generic"
    <2> SUFFICES ASSUME object.kind = "Generic" PROVE FALSE
      OBVIOUS
    <2>1. Plan(object, got) = <<>>
      BY Zenon DEF Plan
    <2>2. Unread = {}
      BY <2>1, EmptyHasNone DEF Unread
    <2> QED
      BY <2>2 DEF NextReads
  <1>4. \A r \in DOMAIN got' :
          (r = new /\ got'[r] = a) \/ (r \in DOMAIN got /\ got'[r] = got[r])
    BY <1>2
  <1>5. ReadingInv'
    BY <1>0, <1>2, <1>3, <1>4, AnswersFacts DEF ReadingInv
  <1> QED
    BY <1>3, <1>5 DEF AnswerInv

----------------------------------------------------------------------------
(* What has been read of the pods and jobs of an object.                   *)

\* The kinds whose pods or jobs are diagnosed with them.
Owners == {"Deployment", "StatefulSet", "DaemonSet", "Job", "CronJob", "Service"}

\* The evidence of an item: that of a job of a CronJob, or else of a pod; or none, if it
\* was skipped.
EvidenceOf(o, i, late) ==
  {{}} \cup (IF o.kind = "CronJob" THEN JobEvidence(i, late) ELSE PodEvidence(i, late))

\* What is diagnosed is an item of a list that has been read, and its diagnosis is one
\* that it may come to.
DeepInv ==
  \A r \in DOMAIN got :
    r[1] = "diagnosis" =>
      /\ object.kind \in Owners /\ got[r].kind = "found"
      /\ \E i \in Deep(object, got), late \in BOOLEAN :
           r = Diagnosis(i) /\ got[r].value \in EvidenceOf(object, i, late)

\* An answer is given when all of the plan has been read.
AllReadInv == stage = "answered" => Reads(object, got) \subseteq DOMAIN got

\* Lemma: what is diagnosed is told by the lists an object is judged by.
LEMMA DeepDepends ==
  ASSUME NEW o, NEW g, NEW h, o.kind \in Owners,
         o.kind = "CronJob" => ListOf(g, "jobs") = ListOf(h, "jobs"),
         o.kind # "CronJob" => ListOf(g, "pods") = ListOf(h, "pods"),
         o.kind = "Deployment" => ListOf(g, "replicasets") = ListOf(h, "replicasets")
  PROVE  Deep(o, g) = Deep(o, h) /\ (o.kind # "CronJob" => Pods(o, g) = Pods(o, h))
  <1>1. CASE o.kind = "CronJob"
    BY <1>1, Zenon DEF Deep
  <1>2. CASE o.kind = "Deployment"
    <2>1. \A p : Judges(o, g, p) = Judges(o, h, p)
      BY <1>2, Zenon DEF Judges
    <2> QED
      BY <1>2, <2>1, Zenon DEF Deep, Pods, UnhealthyOf
  <1>3. CASE o.kind \in {"StatefulSet", "DaemonSet", "Job", "Service"}
    <2>1. \A p : Judges(o, g, p) = Judges(o, h, p)
      BY <1>3, Zenon DEF Judges
    <2> QED
      BY <1>3, <2>1, Zenon DEF Deep, Pods, UnhealthyOf
  <1> QED
    BY <1>1, <1>2, <1>3 DEF Owners

\* Lemma: what is diagnosed is in the lists.
LEMMA DeepIn ==
  ASSUME NEW o, NEW g, o.kind \in Owners
  PROVE  /\ o.kind = "CronJob" => Deep(o, g) \subseteq Owned(ListOf(g, "jobs"), o.name)
         /\ o.kind # "CronJob" => Deep(o, g) \subseteq Pods(o, g)
  <1>1. \A n, list, those : UpTo(n, list, those) \subseteq those
    BY DEF UpTo
  <1>2. CASE o.kind = "CronJob"
    <2>1. Deep(o, g) = UpTo(DeepCap, ListOf(g, "jobs"), Owned(ListOf(g, "jobs"), o.name))
      BY <1>2, Zenon DEF Deep
    <2> QED
      BY <1>1, <1>2, <2>1
  <1>3. CASE o.kind = "Job"
    <2>1. Deep(o, g) = UpTo(DeepCap, ListOf(g, "pods"), Pods(o, g))
      BY <1>3, Zenon DEF Deep
    <2> QED
      BY <1>1, <1>3, <2>1
  <1>4. CASE o.kind \notin {"CronJob", "Job"}
    <2>1. Deep(o, g) = UpTo(DeepCap, ListOf(g, "pods"), UnhealthyOf(o, g))
      BY <1>4, Zenon DEF Deep
    <2> QED
      BY <1>1, <1>4, <2>1 DEF UnhealthyOf
  <1> QED
    BY <1>2, <1>3, <1>4

\* Lemma: without one of the lists there is nothing to diagnose.
LEMMA DeepNeeds ==
  ASSUME NEW o, NEW g, o.kind \in Owners, Deep(o, g) # {}
  PROVE  /\ o.kind = "CronJob" => Found(g, The("jobs"))
         /\ o.kind # "CronJob" => Found(g, The("pods"))
         /\ o.kind = "Deployment" => Found(g, The("replicasets"))
  <1>1. \A what : ListOf(g, what) # <<>> => Found(g, The(what))
    BY DEF ListOf
  <1>2. \A list : Elements(list) # {} => list # <<>>
    BY EmptyHasNone
  <1>3. CASE o.kind = "CronJob"
    BY <1>1, <1>2, <1>3, DeepIn DEF Owned
  <1>4. CASE o.kind # "CronJob"
    <2>1. PICK p \in Pods(o, g) : TRUE
      BY <1>4, DeepIn
    <2>2. p \in Elements(ListOf(g, "pods")) /\ Judges(o, g, p)
      BY <2>1 DEF Pods
    <2>3. ASSUME o.kind = "Deployment" PROVE Found(g, The("replicasets"))
      <3>1. \E s \in CurrentSets(o, ListOf(g, "replicasets")) : s.name = p.owner
        BY <2>2, <2>3, Zenon DEF Judges
      <3> QED
        BY <1>1, <1>2, <3>1 DEF CurrentSets, Owned
    <2> QED
      BY <1>1, <1>2, <1>4, <2>2, <2>3
  <1> QED
    BY <1>3, <1>4

\* Lemma: the elements of a list that is written out.
LEMMA AnyOf ==
  /\ \A a, b, c : Elements(<<a, b, c>>) = {a, b, c}
  /\ \A a, b, c, d : Elements(<<a, b, c, d>>) = {a, b, c, d}
  /\ \A a, b, c, d, e : Elements(<<a, b, c, d, e>>) = {a, b, c, d, e}
  /\ \A a, b, c, d, e, f : Elements(<<a, b, c, d, e, f>>) = {a, b, c, d, e, f}
  <1>1. \A a, b, c : Elements(<<a, b, c>>) = {a, b, c}
    BY DEF Elements
  <1>2. \A a, b, c, d : Elements(<<a, b, c, d>>) = {a, b, c, d}
    BY DEF Elements
  <1>3. \A a, b, c, d, e : Elements(<<a, b, c, d, e>>) = {a, b, c, d, e}
    BY DEF Elements
  <1>4. \A a, b, c, d, e, f : Elements(<<a, b, c, d, e, f>>) = {a, b, c, d, e, f}
    BY DEF Elements
  <1> QED
    BY <1>1, <1>2, <1>3, <1>4

\* Lemma: the same of eight.
LEMMA AnyOfEight ==
  ASSUME NEW a, NEW b, NEW c, NEW d, NEW e, NEW f, NEW g, NEW h
  PROVE  Elements(<<a, b, c, d, e, f, g, h>>) = {a, b, c, d, e, f, g, h}
  <1> DEFINE s == <<a, b, c, d, e, f, g, h>>
  <1>1. DOMAIN s = {1, 2, 3, 4, 5, 6, 7, 8}
    OBVIOUS
  <1>2. s[1] = a /\ s[2] = b /\ s[3] = c /\ s[4] = d /\ s[5] = e /\ s[6] = f /\ s[7] = g /\ s[8] = h
    OBVIOUS
  <1> HIDE DEF s
  <1>3. Elements(s) = {a, b, c, d, e, f, g, h}
    BY <1>1, <1>2 DEF Elements
  <1> QED
    BY <1>3 DEF s

\* Lemma: what is read for a pod.
LEMMA PodReadsAre ==
  ASSUME NEW p, NEW r
  PROVE  r \in PodReads(p) <=>
           \/ r = The("events") \/ r = The("metrics")
           \/ p.assigned /\ r \in {The("node"), The("node_events")}
           \/ Unscheduled(p) /\ r = The("nodes")
           \/ \E ref \in Elements(p.refs) : r = <<ref.of, ref.name>>
           \/ FailingContainer(p) # {} /\ r = The("logs")
           \/ (\E c \in FailingContainer(p) : ~c.init /\ c.restarts > 0) /\ r = The("previous_logs")
  <1> DEFINE deps == {<<ref.of, ref.name>> : ref \in Elements(p.refs)}
             told == When(FailingContainer(p) # {}, {The("logs")})
             before == When(\E c \in FailingContainer(p) : ~c.init /\ c.restarts > 0, {The("previous_logs")})
             node == When(p.assigned, {The("node")})
             events == When(p.assigned, {The("node_events")})
             nodes == When(Unscheduled(p), {The("nodes")})
  <1>1. PodPlan(p) = <<{The("events")}, node, events, nodes, deps, told, before, {The("metrics")}>>
    BY Zenon DEF PodPlan
  <1>2. /\ r \in deps <=> \E ref \in Elements(p.refs) : r = <<ref.of, ref.name>>
        /\ r \in told <=> FailingContainer(p) # {} /\ r = The("logs")
        /\ r \in before <=>
             (\E c \in FailingContainer(p) : ~c.init /\ c.restarts > 0) /\ r = The("previous_logs")
        /\ r \in node <=> p.assigned /\ r = The("node")
        /\ r \in events <=> p.assigned /\ r = The("node_events")
        /\ r \in nodes <=> Unscheduled(p) /\ r = The("nodes")
    BY DEF When
  <1> HIDE DEF deps, told, before, node, events, nodes
  <1>3. Elements(PodPlan(p)) = {{The("events")}, node, events, nodes, deps, told, before, {The("metrics")}}
    BY <1>1, AnyOfEight
  <1> QED
    BY <1>2, <1>3 DEF PodReads

\* Lemma: what is read for an object of each kind.
LEMMA ReadsAre ==
  ASSUME NEW o, NEW g, NEW r
  PROVE  LET deep == \E i \in Deep(o, g) : r = Diagnosis(i)
         IN /\ o.kind = "Pod" => Reads(o, g) = PodReads(o)
            /\ o.kind = "Deployment" =>
                 (r \in Reads(o, g) <=>
                    deep \/ r \in {The("graph"), The("replicasets"), The("pods"), The("events")})
            /\ o.kind = "StatefulSet" =>
                 (r \in Reads(o, g) <=>
                    deep \/ r \in {The("graph"), The("pods"), The("claims"), The("events")})
            /\ o.kind \in {"DaemonSet", "Job"} =>
                 (r \in Reads(o, g) <=> deep \/ r \in {The("graph"), The("pods"), The("events")})
            /\ o.kind = "CronJob" =>
                 (r \in Reads(o, g) <=> deep \/ r \in {The("graph"), The("jobs"), The("events")})
            /\ o.kind = "Service" =>
                 (r \in Reads(o, g) <=>
                    \/ deep \/ r \in {The("graph"), The("slices"), The("endpoints"), The("events")}
                    \/ o.selects /\ r = The("pods"))
            /\ o.kind = "Ingress" =>
                 (r \in Reads(o, g) =>
                    r[1] \in {"graph", "service", "slices", "tls", "class", "events"})
            /\ o.kind = "PersistentVolumeClaim" =>
                 (r \in Reads(o, g) => r[1] \in {"volume", "class", "events"})
            /\ o.kind = "Node" => (r \in Reads(o, g) => r[1] \in {"pods", "events", "metrics"})
            /\ o.kind = "Generic" => Reads(o, g) = {}
  <1> DEFINE deep == {Diagnosis(i) : i \in Deep(o, g)}
             services == {k.service : k \in Elements(o.backends)}
             there == {s \in services : Found(g, <<"service", s>>)}
             events == {The("events")}
  <1>1. r \in deep <=> \E i \in Deep(o, g) : r = Diagnosis(i)
    OBVIOUS
  <1>2. CASE o.kind = "Pod"
    <2>1. Plan(o, g) = PodPlan(o)
      BY <1>2, Zenon DEF Plan
    <2> QED
      BY <1>2, <2>1 DEF Reads, PodReads
  <1>3. CASE o.kind = "Deployment"
    <2>1. Plan(o, g) = <<{The("graph")}, {The("replicasets")}, {The("pods")}, deep, events>>
      BY <1>3, Zenon DEF Plan
    <2> HIDE DEF deep
    <2> QED
      BY <1>1, <1>3, <2>1, AnyOf DEF Reads
  <1>4. CASE o.kind = "StatefulSet"
    <2>1. Plan(o, g) = <<{The("graph")}, {The("pods")}, {The("claims")}, deep, events>>
      BY <1>4, Zenon DEF Plan
    <2> HIDE DEF deep
    <2> QED
      BY <1>1, <1>4, <2>1, AnyOf DEF Reads
  <1>5. CASE o.kind \in {"DaemonSet", "Job"}
    <2>1. Plan(o, g) = <<{The("graph")}, {The("pods")}, deep, events>>
      <3>1. CASE o.kind = "DaemonSet"
        BY <3>1, Zenon DEF Plan
      <3>2. CASE o.kind = "Job"
        BY <3>2, Zenon DEF Plan
      <3> QED
        BY <1>5, <3>1, <3>2
    <2> HIDE DEF deep
    <2> QED
      BY <1>1, <1>5, <2>1, AnyOf DEF Reads
  <1>6. CASE o.kind = "CronJob"
    <2>1. Plan(o, g) = <<{The("graph")}, {The("jobs")}, deep, events>>
      BY <1>6, Zenon DEF Plan
    <2> HIDE DEF deep
    <2> QED
      BY <1>1, <1>6, <2>1, AnyOf DEF Reads
  <1>7. CASE o.kind = "Service"
    <2>1. Plan(o, g) =
            <<{The("graph")}, When(o.selects, {The("pods")}), {The("slices")}, {The("endpoints")}, deep, events>>
      BY <1>7, Zenon DEF Plan
    <2> HIDE DEF deep
    <2> QED
      BY <1>1, <1>7, <2>1, AnyOf DEF Reads, When
  <1>8. CASE o.kind = "Ingress"
    <2>1. Plan(o, g) =
            <<{The("graph")}, {<<"service", s>> : s \in services}, {<<"slices", s>> : s \in there},
              {<<"tls", t>> : t \in Elements(o.tls)}, When(o.class # "", {The("class")}), events>>
      BY <1>8, Zenon DEF Plan
    <2> DEFINE backs == {<<"service", s>> : s \in services}
               sliced == {<<"slices", s>> : s \in there}
               tls == {<<"tls", t>> : t \in Elements(o.tls)}
               class == When(o.class # "", {The("class")})
    <2>2. (\A q \in backs : q[1] = "service") /\ (\A q \in sliced : q[1] = "slices")
          /\ (\A q \in tls : q[1] = "tls")
      <3>1. \A what, name : <<what, name>>[1] = what
        OBVIOUS
      <3> HIDE DEF services, there
      <3> QED
        BY <3>1, Zenon
    <2>3. \A q \in class : q[1] = "class"
      BY TheNames DEF When
    <2> HIDE DEF backs, sliced, tls, class
    <2>4. Plan(o, g) = <<{The("graph")}, backs, sliced, tls, class, events>>
      BY <2>1 DEF backs, sliced, tls, class
    <2>5. Reads(o, g) = UNION {{The("graph")}, backs, sliced, tls, class, events}
      BY <2>4, AnyOf DEF Reads
    <2>6. r \in Reads(o, g) => r[1] \in {"graph", "service", "slices", "tls", "class", "events"}
      BY <2>2, <2>3, <2>5, TheNames
    <2> QED
      BY <1>8, <2>6
  <1>9. CASE o.kind = "PersistentVolumeClaim"
    <2>1. Plan(o, g) = <<When(o.volume # "", {The("volume")}), When(o.class # "", {The("class")}), events>>
      BY <1>9, Zenon DEF Plan
    <2> QED
      <3> DEFINE volume == When(o.volume # "", {The("volume")})
                 class == When(o.class # "", {The("class")})
      <3>1. (\A q \in volume : q[1] = "volume") /\ (\A q \in class : q[1] = "class")
        BY TheNames DEF When
      <3>2. Plan(o, g) = <<volume, class, events>>
        BY <2>1 DEF volume, class
      <3> HIDE DEF volume, class
      <3>3. r \in Reads(o, g) => r[1] \in {"volume", "class", "events"}
        BY <3>1, <3>2, AnyOf, TheNames DEF Reads
      <3> QED
        BY <1>9, <3>3
  <1>10. CASE o.kind = "Node"
    <2>1. Plan(o, g) = <<{The("pods")}, events, {The("metrics")}>>
      BY <1>10, Zenon DEF Plan
    <2> QED
      BY <1>10, <2>1, AnyOf, TheNames DEF Reads
  <1>11. CASE o.kind = "Generic"
    <2>1. Plan(o, g) = <<>>
      BY <1>11, Zenon DEF Plan
    <2> QED
      BY <1>11, <2>1, EmptyHasNone DEF Reads
  <1> HIDE DEF deep, services, there, events
  <1> QED
    BY <1>2, <1>3, <1>4, <1>5, <1>6, <1>7, <1>8, <1>9, <1>10, <1>11

\* Lemma: only an owner's plan has diagnoses, and these are of what is in its lists.
LEMMA PlanDiagnoses ==
  ASSUME NEW o \in Objects, NEW g, NEW r \in Reads(o, g), r[1] = "diagnosis"
  PROVE  o.kind \in Owners /\ \E i \in Deep(o, g) : r = Diagnosis(i)
  <1>1. o.kind \in Kinds
    BY ObjectFacts
  <1>2. CASE o.kind = "Pod"
    <2>1. \A ref \in Elements(o.refs) : <<ref.of, ref.name>>[1] # "diagnosis"
      BY <1>2, ObjectAssumption DEF IsPod
    <2>2. r \in PodReads(o)
      BY <1>2, ReadsAre
    <2> QED
      BY <2>1, <2>2, PodReadsAre, TheNames
  <1>3. CASE o.kind \in Owners
    BY <1>3, ReadsAre, TheNames DEF Owners
  <1>4. CASE o.kind \in {"Ingress", "PersistentVolumeClaim", "Node", "Generic"}
    BY <1>4, ReadsAre
  <1> QED
    BY <1>1, <1>2, <1>3, <1>4 DEF Kinds, Owners

----------------------------------------------------------------------------
(* The shape of an answer, and what the steps after the evaluation keep of *)
(* it.                                                                     *)

IsHypothesis(h) ==
  /\ h = [category |-> h.category, confidence |-> h.confidence, affected |-> h.affected]
  /\ h.confidence \in Confidences

IsAnswer(r) ==
  /\ r = [status |-> r.status, health |-> r.health, limited |-> r.limited,
          hypotheses |-> r.hypotheses, causes |-> r.causes, truncated |-> r.truncated,
          signals |-> r.signals]
  /\ r.status \in {"success", "partial"} /\ r.health \in Healths /\ r.truncated \in BOOLEAN
  /\ \A h \in r.hypotheses : IsHypothesis(h)

\* An answer made of r: with its signals, and, but for a healthy one, its health.
Retold(r, q) == IsAnswer(q) /\ q.signals = r.signals
Upheld(r, q) == Retold(r, q) /\ (r.health # "healthy" => q.health = r.health)

\* Lemma: a confidence is one of the four.
LEMMA ConfidenceType ==
  ASSUME NEW category, NEW bucket, NEW all
  PROVE  Confidence(category, bucket, all) \in Confidences
  <1>1. ASSUME NEW c \in Confidences PROVE Demoted(c) \in Confidences
    BY Zenon DEF Demoted, Confidences
  <1> QED
    BY <1>1 DEF Confidence, Confidences

\* Lemma: the health is one of the four.
LEMMA EvaluateType ==
  ASSUME NEW severities, NEW limited PROVE Evaluate(severities, limited) \in Healths
  BY DEF Evaluate, Healths

\* Lemma: what is assembled is an answer with the signals and their health.
LEMMA AssembleIs ==
  ASSUME NEW S, NEW limited \in BOOLEAN
  PROVE  /\ IsAnswer(Assemble(S, limited))
         /\ Assemble(S, limited).signals = S
         /\ Assemble(S, limited).health = Evaluate({s.severity : s \in S}, limited)
  <1> DEFINE r == Assemble(S, limited)
  <1>1. r = [status |-> IF limited THEN "partial" ELSE "success",
             health |-> Evaluate({s.severity : s \in S}, limited),
             limited |-> limited, hypotheses |-> Hypotheses(S),
             causes |-> IF Evaluate({s.severity : s \in S}, limited) = "healthy" THEN {}
                        ELSE Leading(Hypotheses(S)),
             truncated |-> FALSE, signals |-> S]
    BY Zenon DEF Assemble
  <1> HIDE DEF r
  <1>2. \A h \in Hypotheses(S) : IsHypothesis(h)
    <2> SUFFICES ASSUME NEW h \in Hypotheses(S) PROVE IsHypothesis(h)
      OBVIOUS
    <2>1. PICK c, b : h = Hypothesis(c, b, S)
      BY DEF Hypotheses
    <2> QED
      BY <2>1, ConfidenceType DEF Hypothesis, IsHypothesis
  <1>3. IsAnswer(r) /\ r.signals = S /\ r.health = Evaluate({s.severity : s \in S}, limited)
    BY <1>1, <1>2, EvaluateType DEF IsAnswer
  <1> QED
    BY <1>3 DEF r

\* Lemma: the marks of what could not be seen and of a truncation leave an answer as
\* it was judged.
LEMMA MarksUphold ==
  ASSUME NEW r, IsAnswer(r), NEW b \in BOOLEAN
  PROVE  Upheld(r, Partial(b, r)) /\ Upheld(r, Doubted(b, r)) /\ Upheld(r, Cut(b, r))
  <1>1. Upheld(r, Partial(b, r))
    BY DEF Upheld, Retold, IsAnswer, Partial
  <1>2. Upheld(r, Doubted(b, r))
    BY DEF Upheld, Retold, IsAnswer, Doubted, Healths
  <1>3. Upheld(r, Cut(b, r))
    BY DEF Upheld, Retold, IsAnswer, Cut
  <1> QED
    BY <1>1, <1>2, <1>3

\* An answer made of r: with its signals and its hypotheses, and its judgement, or
\* with no cause, and nothing wrong or nothing known.
Marked(r, q) ==
  /\ IsAnswer(q) /\ q.signals = r.signals /\ q.hypotheses = r.hypotheses
  /\ \/ q.causes = r.causes /\ (q.health = r.health \/ (r.health = "healthy" /\ q.health = "unknown"))
     \/ q.causes = {} /\ q.health \in {"healthy", "unknown"}

\* Lemma: the marks, and an analyzer that knows better, make such an answer.
LEMMA MarksMark ==
  ASSUME NEW r, IsAnswer(r), NEW b \in BOOLEAN
  PROVE  /\ Marked(r, Partial(b, r)) /\ Marked(r, Doubted(b, r))
         /\ Marked(r, Cut(b, r)) /\ Marked(r, Fine(b, r))
  <1>1. Marked(r, Partial(b, r))
    BY DEF Marked, IsAnswer, Partial
  <1>2. Marked(r, Doubted(b, r))
    BY DEF Marked, IsAnswer, Doubted, Healths
  <1>3. Marked(r, Cut(b, r))
    BY DEF Marked, IsAnswer, Cut
  <1>4. Marked(r, Fine(b, r))
    BY DEF Marked, IsAnswer, Fine, Healths
  <1> QED
    BY <1>1, <1>2, <1>3, <1>4

\* Lemma: what is made of what is made of an answer is made of it.
LEMMA MarkedTwice ==
  ASSUME NEW r, NEW q, NEW t, Marked(r, q), Marked(q, t)
  PROVE  Marked(r, t)
  BY DEF Marked

\* Lemma: a demotion leaves the judgement.
LEMMA DemotionUpholds ==
  ASSUME NEW r, IsAnswer(r)
  PROVE  Upheld(r, DemoteConfirmed(r))
  <1> DEFINE Lower(h) == [h EXCEPT !.confidence = IF @ = "confirmed" THEN "high" ELSE @]
             Demote(hyps) == {Lower(h) : h \in hyps}
             q == DemoteConfirmed(r)
  <1>1. \A h : IsHypothesis(h) => IsHypothesis(Lower(h))
    BY DEF IsHypothesis, Confidences
  <1>2. q = [r EXCEPT !.causes = Demote(r.causes), !.hypotheses = Demote(r.hypotheses)]
    BY DEF DemoteConfirmed, IsAnswer
  <1> HIDE DEF q, Lower
  <1>3. q.hypotheses = Demote(r.hypotheses)
    BY <1>2 DEF IsAnswer
  <1>4. \A h \in q.hypotheses : IsHypothesis(h)
    BY <1>1, <1>3 DEF IsAnswer
  <1> HIDE DEF Demote
  <1>5. Upheld(r, q)
    BY <1>2, <1>4 DEF Upheld, Retold, IsAnswer
  <1> QED
    BY <1>5 DEF q

\* Lemma: what upholds what upholds an answer upholds it.
LEMMA UpheldTwice ==
  ASSUME NEW r, NEW q, NEW t, Upheld(r, q), Upheld(q, t)
  PROVE  Upheld(r, t)
  BY DEF Upheld, Retold

----------------------------------------------------------------------------
(* The answers to what was read.                                           *)

\* Of what an object's Events are told.
ToldOfEvents(o) == o.kind # "Generic" /\ (o.kind = "Service" => ~o.external)

\* Lemma: a Deployment's answer is the judgement of its signals, with one of the
\* reasons most pods give.
LEMMA DeploymentAnswers ==
  ASSUME NEW o, o.kind = "Deployment", NEW g, NEW r \in Responses(o, g)
  PROVE  \E m \in Majorities(o, g) :
           Upheld(Assemble(DeploymentSignals(o, g, m) \cup EventsOrWarning(g[The("events")], o.name), FALSE), r)
  <1> DEFINE events == EventsOrWarning(g[The("events")], o.name)
             limited == LimitedBy(o, g)
             Judged(m) == Assemble(DeploymentSignals(o, g, m) \cup events, FALSE)
             Final(m) == Cut(DeploymentTruncated(o, g), Doubted(limited, Partial(limited, Judged(m))))
  <1>1. Responses(o, g) = {Final(m) : m \in Majorities(o, g)}
    BY Zenon DEF Responses
  <1> HIDE DEF events
  <1>2. \A m : IsAnswer(Judged(m))
    BY AssembleIs
  <1>3. limited \in BOOLEAN /\ DeploymentTruncated(o, g) \in BOOLEAN
    BY Zenon DEF LimitedBy, DeploymentTruncated
  <1>4. PICK m \in Majorities(o, g) : r = Final(m)
    BY <1>1
  <1> HIDE DEF limited, Judged
  <1>5. Upheld(Judged(m), Partial(limited, Judged(m)))
    BY <1>2, <1>3, MarksUphold
  <1>6. Upheld(Judged(m), Doubted(limited, Partial(limited, Judged(m))))
    BY <1>3, <1>5, MarksUphold, UpheldTwice DEF Upheld, Retold
  <1>7. Upheld(Judged(m), r)
    BY <1>3, <1>4, <1>6, MarksUphold, UpheldTwice DEF Upheld, Retold
  <1> QED
    BY <1>7 DEF Judged, events

\* The answer that is made of S is made with or without a limited view.
MadeOf(S, r) == \E limited \in BOOLEAN : Marked(Assemble(S, limited), r)

\* Lemma: whatever was read, what comes out is made of the signals of the kind, and of
\* the Events.
LEMMA ResponsesTell ==
  ASSUME NEW o, NEW g, NEW r \in Responses(o, g)
  PROVE  LET events == EventsOrWarning(g[The("events")], o.name)
         IN /\ o.kind = "Pod" => MadeOf(PodSignals(o, g), r)
            /\ o.kind = "Deployment" =>
                 \E m \in Majorities(o, g) : MadeOf(DeploymentSignals(o, g, m) \cup events, r)
            /\ o.kind = "StatefulSet" => MadeOf(StatefulSetSignals(o, g) \cup events, r)
            /\ o.kind = "DaemonSet" => MadeOf(DaemonSetSignals(o, g) \cup events, r)
            /\ o.kind = "Job" => MadeOf(JobSignals(o, g) \cup events, r)
            /\ o.kind = "CronJob" => MadeOf(CronJobSignals(o, g) \cup events, r)
            /\ o.kind = "Service" =>
                 IF o.external THEN MadeOf(ServiceSignals(o, g), r) ELSE MadeOf(ServiceSignals(o, g) \cup events, r)
            /\ o.kind = "Ingress" => MadeOf(IngressSignals(o, g) \cup events, r)
            /\ o.kind = "PersistentVolumeClaim" => \E gone : MadeOf(ClaimSignals(o, gone) \cup events, r)
            /\ o.kind = "Node" => MadeOf(NodeStatusSignals(o) \cup events, r)
            /\ o.kind = "Generic" => MadeOf(GenericSignals(o), r)
  <1> DEFINE events == EventsOrWarning(g[The("events")], o.name)
             limited == LimitedBy(o, g)
             cut == g[The("graph")].value.truncation # ""
             Plain(S) == Assemble(S \cup events, FALSE)
  <1>1. limited \in BOOLEAN /\ cut \in BOOLEAN
    BY Zenon DEF LimitedBy
  <1> HIDE DEF events, limited, cut
  <1>2. \A S, l : l \in BOOLEAN => MadeOf(S, Assemble(S, l))
    <2> SUFFICES ASSUME NEW S, NEW l \in BOOLEAN PROVE Marked(Assemble(S, l), Assemble(S, l))
      BY DEF MadeOf
    <2>1. IsAnswer(Assemble(S, l))
      BY AssembleIs
    <2> HIDE DEF Plain
    <2> QED
      BY <2>1 DEF Marked
  <1>3. \A S : MadeOf(S \cup events, Plain(S))
    BY <1>2
  <1> HIDE DEF Plain
  <1>4. ASSUME NEW S, NEW q, MadeOf(S, q), NEW b \in BOOLEAN
        PROVE  /\ MadeOf(S, Partial(b, q)) /\ MadeOf(S, Doubted(b, q))
               /\ MadeOf(S, Cut(b, q)) /\ MadeOf(S, Fine(b, q))
    <2>1. IsAnswer(q)
      BY <1>4 DEF MadeOf, Marked
    <2> QED
      BY <1>4, <2>1, MarksMark, MarkedTwice DEF MadeOf
  <1>5. CASE o.kind = "Pod"
    <2>1. Responses(o, g) = {Assemble(PodSignals(o, g), limited)}
      BY <1>5, Zenon DEF Responses, limited
    <2>2. MadeOf(PodSignals(o, g), r)
      BY <1>1, <1>2, <2>1
    <2> QED
      BY <1>5, <2>2
  <1>6. CASE o.kind = "Deployment"
    <2> DEFINE cutoff == DeploymentTruncated(o, g)
    <2>1. Responses(o, g) =
            {Cut(cutoff, Doubted(limited, Partial(limited, Plain(DeploymentSignals(o, g, m))))) :
               m \in Majorities(o, g)}
      BY <1>6, Zenon DEF Responses, limited, Plain, events
    <2>2. cutoff \in BOOLEAN
      BY Zenon DEF DeploymentTruncated
    <2> HIDE DEF cutoff
    <2>3. \E m \in Majorities(o, g) : MadeOf(DeploymentSignals(o, g, m) \cup events, r)
      BY <1>1, <1>3, <1>4, <2>1, <2>2
    <2> QED
      BY <1>6, <2>3 DEF events
  <1>7. CASE o.kind \in {"StatefulSet", "DaemonSet", "Ingress"}
    <2>1. ASSUME NEW S, Responses(o, g) = {Partial(limited, Cut(cut, Plain(S)))} PROVE MadeOf(S \cup events, r)
      BY <1>1, <1>3, <1>4, <2>1
    <2>2. CASE o.kind = "StatefulSet"
      <3>1. Responses(o, g) = {Partial(limited, Cut(cut, Plain(StatefulSetSignals(o, g))))}
        BY <2>2, Zenon DEF Responses, limited, cut, Plain, events
      <3> QED
        BY <2>1, <2>2, <3>1 DEF events
    <2>3. CASE o.kind = "DaemonSet"
      <3>1. Responses(o, g) = {Partial(limited, Cut(cut, Plain(DaemonSetSignals(o, g))))}
        BY <2>3, Zenon DEF Responses, limited, cut, Plain, events
      <3> QED
        BY <2>1, <2>3, <3>1 DEF events
    <2>4. CASE o.kind = "Ingress"
      <3>1. Responses(o, g) = {Partial(limited, Cut(cut, Plain(IngressSignals(o, g))))}
        BY <2>4, Zenon DEF Responses, limited, cut, Plain, events
      <3> QED
        BY <2>1, <2>4, <3>1 DEF events
    <2> QED
      BY <1>7, <2>2, <2>3, <2>4
  <1>8. CASE o.kind \in {"CronJob", "Node"}
    <2>1. CASE o.kind = "CronJob"
      <3>1. Responses(o, g) = {Plain(CronJobSignals(o, g))}
        BY <2>1, Zenon DEF Responses, Plain, events
      <3> QED
        BY <1>3, <2>1, <3>1 DEF events
    <2>2. CASE o.kind = "Node"
      <3>1. Responses(o, g) = {Plain(NodeStatusSignals(o))}
        BY <2>2, Zenon DEF Responses, Plain, events
      <3> QED
        BY <1>3, <2>2, <3>1 DEF events
    <2> QED
      BY <1>8, <2>1, <2>2
  <1>9. CASE o.kind = "Job"
    <2> DEFINE known == o.succeeded > 0 /\ o.failed = 0 /\ o.failures = {}
    <2>1. Responses(o, g) = {Fine(known, Plain(JobSignals(o, g)))}
      BY <1>9, Zenon DEF Responses, Plain, events
    <2>2. known \in BOOLEAN
      BY Zenon
    <2> HIDE DEF known
    <2>3. MadeOf(JobSignals(o, g) \cup events, r)
      BY <1>3, <1>4, <2>1, <2>2
    <2> QED
      BY <1>9, <2>3 DEF events
  <1>10. CASE o.kind = "Service"
    <2> DEFINE judged == IF o.external THEN Assemble(ServiceSignals(o, g), FALSE) ELSE Plain(ServiceSignals(o, g))
               signals == IF o.external THEN ServiceSignals(o, g) ELSE ServiceSignals(o, g) \cup events
    <2>1. Responses(o, g) = {Doubted(limited, Partial(limited, Cut(cut, judged)))}
      BY <1>10, Zenon DEF Responses, limited, cut, Plain, events
    <2>2. MadeOf(signals, judged)
      BY <1>2, <1>3
    <2> HIDE DEF judged, signals
    <2>3. MadeOf(signals, r)
      BY <1>1, <1>4, <2>1, <2>2
    <2> QED
      BY <1>10, <2>3 DEF signals, events
  <1>11. CASE o.kind = "PersistentVolumeClaim"
    <2> DEFINE Bound(q) == o.phase = "Bound" /\ q.health # "critical"
               Judged(S) == Fine(Bound(Plain(S)), Plain(S))
    <2>1. \E gone : r = Judged(ClaimSignals(o, gone))
      <3>1. Responses(o, g) =
              {LET q == Plain(ClaimSignals(o, gone)) IN Fine(o.phase = "Bound" /\ q.health # "critical", q) :
                 gone \in SUBSET {k \in {The("volume"), The("class")} \cap DOMAIN g : ~Found(g, k)}}
        BY <1>11, Zenon DEF Responses, Plain, events
      <3>2. PICK gone : r = Judged(ClaimSignals(o, gone))
        BY <3>1, Zenon
      <3> QED
        BY <3>2
    <2>2. \A q : Bound(q) \in BOOLEAN
      BY Zenon
    <2> HIDE DEF Bound
    <2>3. \E gone : MadeOf(ClaimSignals(o, gone) \cup events, r)
      BY <1>3, <1>4, <2>1, <2>2
    <2> QED
      BY <1>11, <2>3 DEF events
  <1>12. CASE o.kind = "Generic"
    <2> DEFINE none == GenericSignals(o) = {}
               judged == Assemble(GenericSignals(o), FALSE)
    <2>1. Responses(o, g) = {Doubted(none, judged)}
      BY <1>12, Zenon DEF Responses
    <2>2. none \in BOOLEAN /\ MadeOf(GenericSignals(o), judged)
      BY <1>2
    <2> HIDE DEF none, judged
    <2>3. MadeOf(GenericSignals(o), r)
      BY <1>4, <2>1, <2>2
    <2> QED
      BY <1>12, <2>3
  <1> QED
    BY <1>5, <1>6, <1>7, <1>8, <1>9, <1>10, <1>11, <1>12

\* Lemma: what comes out is an answer, and the Events are in it.
LEMMA ResponsesAre ==
  ASSUME NEW o, o.kind \in Kinds, NEW g, NEW r \in Responses(o, g)
  PROVE  /\ IsAnswer(r)
         /\ ToldOfEvents(o) => EventsOrWarning(g[The("events")], o.name) \subseteq r.signals
  <1> DEFINE events == EventsOrWarning(g[The("events")], o.name)
  <1>1. events \subseteq PodSignals(o, g)
    BY Zenon DEF PodSignals
  <1>2. ASSUME NEW S, MadeOf(S, r) PROVE IsAnswer(r) /\ r.signals = S
    BY <1>2, AssembleIs DEF MadeOf, Marked
  <1> HIDE DEF events
  <1>3. \E S : MadeOf(S, r) /\ (ToldOfEvents(o) => events \subseteq S)
    <2>1. \A S : events \subseteq S \cup events
      OBVIOUS
    <2>2. CASE o.kind = "Generic" \/ (o.kind = "Service" /\ o.external)
      BY <2>2, ResponsesTell DEF ToldOfEvents
    <2>3. CASE o.kind # "Generic" /\ (o.kind = "Service" => ~o.external)
      BY <1>1, <2>1, <2>3, ResponsesTell DEF Kinds, events
    <2> QED
      BY <2>2, <2>3
  <1> QED
    BY <1>2, <1>3 DEF events

----------------------------------------------------------------------------
(* The steps.                                                              *)

\* Lemma: what does not read or answer leaves both as they are.
LEMMA OthersKeep ==
  ASSUME ReadingInv, AnswerInv,
         stage # "answered" \/ stage' = stage, UNCHANGED <<got, answer>>,
         \/ UNCHANGED <<stage, object>> /\ over' \in BOOLEAN
         \/ Dispatch
  PROVE  ReadingInv' /\ AnswerInv'
  <1>1. CASE UNCHANGED <<stage, object>> /\ over' \in BOOLEAN
    BY <1>1 DEF ReadingInv, AnswerInv
  <1>2. CASE Dispatch
    <2>1. got' = got /\ got = <<>> /\ stage' = "read" /\ object' \in Objects /\ over' = over
      BY <1>2 DEF Dispatch, ReadingInv
    <2>2. DOMAIN got' = {}
      BY <2>1
    <2>3. ReadingInv'
      BY <2>1, <2>2, ObjectFacts DEF ReadingInv
    <2> QED
      BY <2>1, <2>3 DEF AnswerInv
  <1> QED
    BY <1>1, <1>2

\* Lemma: every step keeps it.
LEMMA ReadingInvNext == ReadingInv /\ AnswerInv /\ [Next]_vars => ReadingInv' /\ AnswerInv'
  <1> SUFFICES ASSUME ReadingInv, AnswerInv, [Next]_vars PROVE ReadingInv' /\ AnswerInv'
    OBVIOUS
  <1>1. CASE Resolve
    BY <1>1, OthersKeep DEF Resolve, diagnosisVars, ReadingInv
  <1>2. CASE Dispatch
    BY <1>2, OthersKeep DEF Dispatch
  <1>3. CASE Read
    BY <1>3, ReadKeeps
  <1>4. CASE Analyze
    <2>1. /\ object' = object /\ over' = over /\ got' = got
          /\ stage = "read" /\ stage' = "answered"
          /\ \E r \in Responses(object, got) : answer' \in {r, DemoteConfirmed(r)}
      BY <1>4 DEF Analyze
    <2> QED
      BY <2>1 DEF ReadingInv, AnswerInv
  <1>5. CASE ContextEnds
    BY <1>5, OthersKeep DEF ContextEnds
  <1>6. CASE OtherClient /\ UNCHANGED diagnosisVars
    BY <1>6, OthersKeep DEF diagnosisVars, ReadingInv
  <1>7. CASE UNCHANGED vars
    BY <1>7, OthersKeep DEF vars, diagnosisVars, ReadingInv
  <1> QED
    BY <1>1, <1>2, <1>3, <1>4, <1>5, <1>6, <1>7 DEF Next, Call, Environment

\* What was found is what there is, and the answer is one the analysis comes to of it.
THEOREM ReadingInvHolds == Spec => [](ReadingInv /\ AnswerInv)
  BY ReadingInit, ReadingInvNext, PTL DEF Spec

\* Lemma: a diagnosis that is read is one of those its item may come to.
LEMMA DiagnosisAnswers ==
  ASSUME NEW o, NEW r, r[1] = "diagnosis", NEW g, NEW late \in BOOLEAN, NEW a \in Answers(o, r, g, late),
         \E i \in Deep(o, g) : r = Diagnosis(i)
  PROVE  /\ a.kind = "found"
         /\ \E i \in Deep(o, g) : r = Diagnosis(i) /\ a.value \in EvidenceOf(o, i, late)
  <1>1. r # The("graph")
    BY TheNames
  <1> DEFINE E(i) == IF o.kind = "CronJob" THEN JobEvidence(i, late) ELSE PodEvidence(i, late)
  <1>2. Answers(o, r, g, late) =
          {[kind |-> "found", value |-> e] :
             e \in (UNION {E(i) : i \in {d \in Deep(o, g) : Diagnosis(d) = r}})
                  \cup When(late, Skipped(Deep(o, g)))}
    BY <1>1, Zenon DEF Answers
  <1>3. \A i : EvidenceOf(o, i, late) = {{}} \cup E(i)
    BY DEF EvidenceOf
  <1> HIDE DEF E
  <1>4. PICK e : /\ a = [kind |-> "found", value |-> e]
                 /\ \/ e = {}
                    \/ \E i \in Deep(o, g) : Diagnosis(i) = r /\ e \in E(i)
    BY <1>2 DEF When, Skipped
  <1> QED
    BY <1>3, <1>4

\* Lemma: a read of an owner's diagnoses, or before them, keeps what was diagnosed.
LEMMA DeepKept ==
  ASSUME ReadingInv, DeepInv, NEW new \in Reads(object, got), new \notin DOMAIN got,
         NEW a \in Answers(object, new, got, over), stage = "read",
         got' = [r \in DOMAIN got \cup {new} |-> IF r = new THEN a ELSE got[r]],
         object' = object
  PROVE  DeepInv'
  <1> SUFFICES ASSUME NEW r \in DOMAIN got', r[1] = "diagnosis"
               PROVE  /\ object.kind \in Owners /\ got'[r].kind = "found"
                      /\ \E i \in Deep(object, got'), late \in BOOLEAN :
                           r = Diagnosis(i) /\ got'[r].value \in EvidenceOf(object, i, late)
    BY DEF DeepInv
  <1>0. object \in Objects /\ over \in BOOLEAN
    BY DEF ReadingInv
  <1>1. /\ object.kind \in Owners
        /\ IF r = new THEN got'[r].kind = "found" ELSE r \in DOMAIN got /\ got'[r] = got[r] /\ got[r].kind = "found"
        /\ \E i \in Deep(object, got), late \in BOOLEAN :
             r = Diagnosis(i) /\ got'[r].value \in EvidenceOf(object, i, late)
    <2>1. CASE r = new
      <3>1. got'[r] = a
        BY <2>1
      <3>2. object.kind \in Owners /\ \E i \in Deep(object, got) : r = Diagnosis(i)
        BY <1>0, <2>1, PlanDiagnoses
      <3> QED
        BY <1>0, <2>1, <3>1, <3>2, DiagnosisAnswers
    <2>2. CASE r # new
      <3>1. r \in DOMAIN got /\ got'[r] = got[r]
        BY <2>2
      <3> QED
        BY <2>2, <3>1 DEF DeepInv
    <2> QED
      BY <2>1, <2>2
  <1>2. Deep(object, got) # {}
    BY <1>1
  <1>3. ASSUME NEW what, Found(got, The(what)) PROVE ListOf(got', what) = ListOf(got, what)
    <2>1. The(what) # new
      BY <1>3 DEF Found
    <2>2. The(what) \in DOMAIN got' /\ got'[The(what)] = got[The(what)]
      BY <1>3, <2>1 DEF Found
    <2> QED
      BY <2>2, <1>3 DEF Found, ListOf
  <1>4. Deep(object, got') = Deep(object, got)
    BY <1>1, <1>2, <1>3, DeepNeeds, DeepDepends
  <1> QED
    BY <1>1, <1>4

\* Lemma: every step keeps it.
LEMMA SeenInvNext ==
  ReadingInv /\ DeepInv /\ AllReadInv /\ [Next]_vars => DeepInv' /\ AllReadInv'
  <1> SUFFICES ASSUME ReadingInv, DeepInv, AllReadInv, [Next]_vars PROVE DeepInv' /\ AllReadInv'
    OBVIOUS
  <1>1. CASE UNCHANGED <<stage, object, got>>
    BY <1>1 DEF DeepInv, AllReadInv
  <1>2. CASE Dispatch
    <2>1. got' = got /\ got = <<>> /\ stage' = "read"
      BY <1>2 DEF Dispatch, ReadingInv
    <2>2. DOMAIN got' = {}
      BY <2>1
    <2> QED
      BY <2>1, <2>2 DEF DeepInv, AllReadInv
  <1>3. CASE Read
    <2>1. PICK new \in NextReads : \E a \in Answers(object, new, got, over) :
            got' = [r \in DOMAIN got \cup {new} |-> IF r = new THEN a ELSE got[r]]
      BY <1>3 DEF Read
    <2>2. new \in Reads(object, got) /\ new \notin DOMAIN got
      BY DEF NextReads, Unread, Reads, Elements
    <2>3. stage = "read" /\ stage' = "read" /\ object' = object
      BY <1>3 DEF Read
    <2>4. DeepInv'
      BY <2>1, <2>2, <2>3, DeepKept
    <2> QED
      BY <2>3, <2>4 DEF AllReadInv
  <1>4. CASE Analyze
    <2>1. object' = object /\ got' = got /\ Unread = {}
      BY <1>4 DEF Analyze
    <2>2. Reads(object, got) \subseteq DOMAIN got
      BY <2>1 DEF Unread, Reads, Elements
    <2> QED
      BY <2>1, <2>2 DEF DeepInv, AllReadInv
  <1> QED
    BY <1>1, <1>2, <1>3, <1>4
    DEF Next, Call, Environment, Resolve, ContextEnds, vars, diagnosisVars

\* What was diagnosed is of what was listed, and nothing of the plan is left out.
THEOREM SeenInvHolds == Spec => [](DeepInv /\ AllReadInv)
  <1>1. Init => DeepInv /\ AllReadInv
    <2> SUFFICES ASSUME Init PROVE DeepInv /\ AllReadInv
      OBVIOUS
    <2>1. got = <<>> /\ stage = "resolve"
      BY DEF Init
    <2>2. DOMAIN got = {}
      BY <2>1
    <2> QED
      BY <2>1, <2>2 DEF DeepInv, AllReadInv
  <1> QED
    BY <1>1, SeenInvNext, ReadingInvHolds, PTL DEF Spec

----------------------------------------------------------------------------
(* What a client is told.                                                  *)

\* Lemma: the answer is one that the analysis comes to, as it was or demoted.
LEMMA AnswerIs ==
  ASSUME ReadingInv, AnswerInv, stage = "answered"
  PROVE  \E r \in Responses(object, got) : IsAnswer(r) /\ Upheld(r, answer)
  <1>1. object \in Objects /\ object.kind \in Kinds
    BY ObjectFacts DEF ReadingInv
  <1>2. PICK r \in Responses(object, got) : answer \in {r, DemoteConfirmed(r)}
    BY DEF AnswerInv
  <1>3. IsAnswer(r)
    BY <1>1, ResponsesAre
  <1>4. Upheld(r, r)
    BY <1>3 DEF Upheld, Retold
  <1> QED
    BY <1>2, <1>3, <1>4, DemotionUpholds

\* The types, of what a diagnosis reads and of its answer.
THEOREM DiagnosisTypes == Spec => []DiagnosisTypeOK
  <1>1. ResolverInv /\ ReadingInv /\ AnswerInv => DiagnosisTypeOK
    <2> SUFFICES ASSUME ResolverInv, ReadingInv, AnswerInv PROVE DiagnosisTypeOK
      OBVIOUS
    <2>1. stage = "answered" => IsAnswer(answer)
      BY AnswerIs DEF Upheld, Retold
    <2>2. stage = "answered" =>
            /\ answer.status \in {"success", "partial"} /\ answer.health \in Healths
            /\ answer.truncated \in BOOLEAN
            /\ \A h \in answer.hypotheses : h.confidence \in Confidences
      BY <2>1 DEF IsAnswer, IsHypothesis
    <2> QED
      BY <2>2 DEF ResolverInv, ReadingInv, DiagnosisTypeOK
  <1> QED
    BY <1>1, ResolverInvHolds, ReadingInvHolds, PTL

\* Lemma: the last of the Events is among those that are kept.
LEMMA LastIsKept ==
  ASSUME NEW X, NEW events \in Seq(X), events # <<>>
  PROVE  \E j \in DOMAIN Kept(events) : Kept(events)[j] = events[Len(events)]
  <1>1. EventLimit \in Nat /\ EventLimit >= 1
    BY EvidenceAssumption DEF EventLimit
  <1>2. Len(events) \in Nat /\ Len(events) >= 1
    OBVIOUS
  <1> DEFINE from == IF Len(events) > EventLimit THEN Len(events) - EventLimit + 1 ELSE 1
  <1>3. from \in 1 .. Len(events)
    BY <1>1, <1>2
  <1>4. Kept(events) = SubSeq(events, from, Len(events))
    BY DEF Kept
  <1> HIDE DEF from
  <1>5. /\ DOMAIN Kept(events) = 1 .. Len(events) - from + 1
        /\ Kept(events)[Len(events) - from + 1] = events[Len(events)]
    BY <1>2, <1>3, <1>4
  <1> QED
    BY <1>2, <1>3, <1>5

\* The newest Event is told, if it is a warning: however many there are, the limit
\* leaves it, and no judgement takes it away.
THEOREM LatestEventToldHolds == Spec => []LatestEventTold
  <1>1. ReadingInv /\ AnswerInv => LatestEventTold
    <2> DEFINE events == got[The("events")].value
               last == events[Len(events)]
    <2> SUFFICES ASSUME ReadingInv, AnswerInv, stage = "answered", Found(got, The("events")),
                        object.kind = "Service" => ~object.external,
                        events # <<>>, last.type = "Warning"
                 PROVE  \E s \in answer.signals : s.source = "EVENT" /\ s.reason = last.reason
      BY DEF LatestEventTold, Answered
    <2>1. object \in Objects /\ object.kind \in Kinds
      BY ObjectFacts DEF ReadingInv
    <2>2. object.kind # "Generic"
      <3>1. DOMAIN <<>> = {}
        OBVIOUS
      <3> QED
        BY <3>1 DEF Found, ReadingInv
    <2>3. /\ The("events") \in DOMAIN object.there
          /\ events = object.there[The("events")]
      <3>1. The("events")[1] # "diagnosis" /\ The("events") # The("graph")
        BY TheNames
      <3> QED
        BY <3>1, FoundIsThere
    <2>4. events \in Seq(Elements(events))
      BY <2>1, <2>3, ObjectAssumption DEF HasLists
    <2> HIDE DEF events
    <2>5. PICK j \in DOMAIN Kept(events) : Kept(events)[j] = last
      BY <2>4, LastIsKept
    <2> DEFINE s == Signal("EVENT", last.reason, last.text \cup KeywordsOf(last.reason),
                           IF Severity(last.reason, last.text) = "critical" THEN "critical" ELSE "warning",
                           object.name)
    <2>6. s \in EventSignals(events, object.name)
      <3> HIDE DEF last
      <3> QED
        BY <2>5, Zenon DEF EventSignals
    <2>7. EventsOrWarning(got[The("events")], object.name) = EventSignals(events, object.name)
      BY DEF EventsOrWarning, Found, events
    <2>8. PICK r \in Responses(object, got) : IsAnswer(r) /\ Upheld(r, answer)
      BY AnswerIs
    <2>9. s \in answer.signals
      BY <2>1, <2>2, <2>6, <2>7, <2>8, ResponsesAre DEF Upheld, Retold, ToldOfEvents
    <2> QED
      BY <2>9 DEF Signal
  <1> QED
    BY <1>1, ReadingInvHolds, PTL

\* Lemma: a pod that no diagnosis speaks for gives a reason of its own.
LEMMA ReasonIsGiven ==
  ASSUME ReadingInv, object.kind = "Deployment",
         NEW p \in UnhealthyOf(object, got), ReasonOf(p, got) = ""
  PROVE  DeepOf({p}, got) # {}
  <1> SUFFICES ASSUME DeepOf({p}, got) = {} PROVE FALSE
    OBVIOUS
  <1>1. DominantWaiting(p) = ""
    BY DEF ReasonOf
  <1>2. p \in Elements(ListOf(got, "pods"))
    BY DEF UnhealthyOf, Pods
  <1>3. Found(got, The("pods"))
    <2> SUFFICES ASSUME ~Found(got, The("pods")) PROVE FALSE
      OBVIOUS
    <2>1. ListOf(got, "pods") = <<>>
      BY DEF ListOf
    <2> QED
      BY <1>2, <2>1, EmptyHasNone
  <1>4. /\ The("pods") \in DOMAIN object.there
        /\ ListOf(got, "pods") = object.there[The("pods")]
    <2>1. The("pods")[1] # "diagnosis" /\ The("pods") # The("graph")
      BY TheNames
    <2> QED
      BY <1>3, <2>1, FoundIsThere, Zenon DEF ListOf
  <1>5. object \in Objects
    <2>1. "none" # "Deployment"
      OBVIOUS
    <2> QED
      BY <2>1, ObjectFacts DEF ReadingInv
  <1>6. p.phase # "" /\ p.containers \in Seq(Elements(p.containers))
    BY <1>2, <1>4, <1>5, ObjectAssumption DEF HasLists, IsPod
  <1> QED
    BY <1>1, <1>6, WaitingIsSaid

\* Lemma: with an unhealthy pod, one of a Deployment's signals is no mere information.
LEMMA UnhealthyPodTells ==
  ASSUME ReadingInv, object.kind = "Deployment", UnhealthyOf(object, got) # {},
         NEW m \in Majorities(object, got)
  PROVE  \E s \in DeploymentSignals(object, got, m) : s.severity \in {"warning", "critical"}
  <1>1. CASE m # ""
    <2> DEFINE s == Tell(object, "STATUS", m, WaitingMessageFor(object, got, m), "critical")
    <2>1. s \in DeploymentSignals(object, got, m)
      BY <1>1, Zenon DEF DeploymentSignals, When
    <2>2. s.severity = "critical"
      BY DEF Tell, Signal
    <2> QED
      BY <2>1, <2>2
  <1>2. CASE m = ""
    <2> DEFINE reasons == {ReasonOf(p, got) : p \in UnhealthyOf(object, got)}
    <2>1. reasons # {}
      OBVIOUS
    <2>2. m \in reasons
      BY <2>1, Zenon DEF Majorities
    <2>3. PICK p \in UnhealthyOf(object, got) : ReasonOf(p, got) = ""
      BY <1>2, <2>2
    <2>4. DeepOf({p}, got) # {}
      BY <2>3, ReasonIsGiven
    <2>5. /\ Diagnosis(p) \in DOMAIN got
          /\ got[Diagnosis(p)].value # {}
      BY <2>4 DEF DeepOf
    <2>6. PICK s : s \in got[Diagnosis(p)].value
      BY <2>5
    <2>7. s.severity = "warning"
      <3>1. Diagnosis(p)[1] = "diagnosis"
        BY DEF Diagnosis
      <3> QED
        BY <2>5, <2>6, <3>1 DEF ReadingInv
    <2>8. s \in DeepOf(UnhealthyOf(object, got), got)
      BY <2>3, <2>5, <2>6 DEF DeepOf
    <2>9. s \in DeploymentSignals(object, got, m)
      BY <2>8, Zenon DEF DeploymentSignals
    <2> QED
      BY <2>7, <2>9
  <1> QED
    BY <1>1, <1>2

\* An unhealthy pod of a Deployment is never without effect, for any cap on the
\* diagnoses, any number of pods, and whatever of them could be read.
THEOREM UnhealthyPodSurfacesHolds == Spec => []UnhealthyPodSurfaces
  <1>1. ReadingInv /\ AnswerInv => UnhealthyPodSurfaces
    <2> SUFFICES ASSUME ReadingInv, AnswerInv, stage = "answered", object.kind = "Deployment",
                        UnhealthyOf(object, got) # {}
                 PROVE  answer.health \in {"degraded", "critical"}
      BY DEF UnhealthyPodSurfaces, Answered
    <2>1. PICK r \in Responses(object, got) : IsAnswer(r) /\ Upheld(r, answer)
      BY AnswerIs
    <2> DEFINE S(m) == DeploymentSignals(object, got, m) \cup EventsOrWarning(got[The("events")], object.name)
    <2>2. PICK m \in Majorities(object, got) : Upheld(Assemble(S(m), FALSE), r)
      BY DeploymentAnswers
    <2>3. \E s \in S(m) : s.severity \in {"warning", "critical"}
      BY UnhealthyPodTells
    <2> HIDE DEF S
    <2>4. Evaluate({s.severity : s \in S(m)}, FALSE) \in {"degraded", "critical"}
      BY <2>3 DEF Evaluate
    <2>5. Assemble(S(m), FALSE).health \in {"degraded", "critical"}
      BY <2>4, AssembleIs
    <2> QED
      BY <2>1, <2>2, <2>5 DEF Upheld
  <1> QED
    BY <1>1, ReadingInvHolds, PTL

----------------------------------------------------------------------------
(* The graph, and its cap.                                                 *)

IsGraph(g) == g = [root |-> g.root, nodes |-> g.nodes, edges |-> g.edges, truncation |-> g.truncation]
IsBuild(b) == b = [graph |-> b.graph, failed |-> b.failed, ended |-> b.ended] /\ IsGraph(b.graph)

\* A graph that has grown out of g: it has its edges, and its mark.
Grown(g, h) == IsGraph(h) /\ g.edges \subseteq h.edges /\ (g.truncation # "" => h.truncation # "")

\* Lemma: edges are added to a graph, and it is marked.
LEMMA GraphGrows ==
  ASSUME NEW g, IsGraph(g)
  PROVE  /\ \A E : /\ IsGraph(AddEdges(g, E)) /\ AddEdges(g, E).edges = g.edges \cup E
                   /\ AddEdges(g, E).truncation = g.truncation
         /\ \A depth : /\ IsGraph(Truncate(g, depth)) /\ Truncate(g, depth).edges = g.edges
                       /\ Truncate(g, depth).truncation # ""
  <1>1. ASSUME NEW E
        PROVE  /\ IsGraph(AddEdges(g, E)) /\ AddEdges(g, E).edges = g.edges \cup E
               /\ AddEdges(g, E).truncation = g.truncation
    <2> DEFINE nodes == g.nodes \cup {n \in {e[2] : e \in E} \cup {e[3] : e \in E} :
                          n.uid \/ ~\E m \in g.nodes : m.kind = n.kind /\ m.name = n.name}
    <2>1. AddEdges(g, E) = [g EXCEPT !.nodes = nodes, !.edges = g.edges \cup E]
      BY Zenon DEF AddEdges
    <2> HIDE DEF nodes
    <2> QED
      BY <2>1 DEF IsGraph
  <1>2. ASSUME NEW depth
        PROVE  /\ IsGraph(Truncate(g, depth)) /\ Truncate(g, depth).edges = g.edges
               /\ Truncate(g, depth).truncation # ""
    BY DEF Truncate, IsGraph
  <1> QED
    BY <1>1, <1>2

\* Lemma: pods are left out only of a graph that says so.
LEMMA PodsTold ==
  ASSUME NEW g, IsGraph(g), NEW owner, NEW pods, NEW depth
  PROVE  LET h == AddPods(g, owner, pods, depth)
         IN /\ Grown(g, h)
            /\ h.truncation = "" => \A p \in Owned(pods, owner.name) : Owns(h, owner, Known("Pod", p.name))
  <1> DEFINE mine == {i \in DOMAIN pods : pods[i].owner = owner.name}
             Adding(those) == AddEdges(g, UNION {PodEdges(owner, pods[i]) : i \in those})
             added == {i \in mine : ~Capped(Adding({j \in mine : j < i}), depth)}
             h == AddPods(g, owner, pods, depth)
  <1>1. h = IF added = mine THEN Adding(mine) ELSE Truncate(Adding(added), depth)
    BY Zenon DEF AddPods
  <1>2. \A those : IsGraph(Adding(those)) /\ g.edges \subseteq Adding(those).edges
                   /\ Adding(those).truncation = g.truncation
    BY GraphGrows
  <1>3. ASSUME NEW p \in Owned(pods, owner.name)
        PROVE  Owns(Adding(mine), owner, Known("Pod", p.name))
    <2>1. PICK i \in mine : p = pods[i]
      BY DEF Owned, Elements
    <2>2. <<"OWNS", owner, Known("Pod", p.name)>> \in PodEdges(owner, pods[i])
      BY <2>1 DEF PodEdges, Own
    <2>3. Adding(mine).edges = g.edges \cup UNION {PodEdges(owner, pods[j]) : j \in mine}
      BY GraphGrows
    <2> QED
      BY <2>2, <2>3 DEF Owns
  <1> HIDE DEF h, Adding, added, mine
  <1>4. ASSUME added = mine
        PROVE  Grown(g, h) /\ \A p \in Owned(pods, owner.name) : Owns(h, owner, Known("Pod", p.name))
    BY <1>1, <1>2, <1>3, <1>4 DEF Grown
  <1>5. ASSUME added # mine PROVE Grown(g, h) /\ h.truncation # ""
    <2> DEFINE part == Adding(added)
    <2>1. h = Truncate(part, depth) /\ IsGraph(part) /\ g.edges \subseteq part.edges
      BY <1>1, <1>2, <1>5
    <2> HIDE DEF part
    <2>2. IsGraph(h) /\ h.edges = part.edges /\ h.truncation # ""
      BY <2>1, GraphGrows
    <2>3. Grown(g, h) /\ h.truncation # ""
      BY <2>1, <2>2 DEF Grown
    <2> QED
      BY <2>3
  <1>6. Grown(g, h) /\ (h.truncation = "" => \A p \in Owned(pods, owner.name) : Owns(h, owner, Known("Pod", p.name)))
    BY <1>4, <1>5
  <1> QED
    BY <1>6, Zenon DEF h

\* Lemma: the loop over the ReplicaSets starts with nothing and takes one after the other.
LEMMA LoopIs ==
  ASSUME NEW o, NEW lost, NEW n \in Nat, Len(o.there[The("replicasets")]) = n
  PROVE  LET turn == SetsLoop(o, lost)
         IN /\ turn[0] = Fresh(o, The("replicasets") \in lost)
            /\ \A i \in 1 .. n : turn[i] = AddSet(turn[i - 1], o, o.there[The("replicasets")][i], lost)
  <1> DEFINE first == Fresh(o, The("replicasets") \in lost)
             Turn(b, i) == AddSet(b, o, o.there[The("replicasets")][i], lost)
             Loop(k, f) == f = [i \in 0 .. k |-> IF i = 0 THEN first ELSE Turn(f[i - 1], i)]
             bad == {k \in Nat : ~\E f : Loop(k, f)}
             turn == SetsLoop(o, lost)
  <1>1. turn = CHOOSE f : Loop(n, f)
    BY Zenon DEF SetsLoop
  <1> HIDE DEF turn, first, Turn
  <1>2. bad = {}
    <2> SUFFICES ASSUME bad # {} PROVE FALSE
      OBVIOUS
    <2>1. PICK k \in bad : \A j \in bad : k <= j
      <3> HIDE DEF bad
      <3>1. bad \in SUBSET Nat
        BY DEF bad
      <3> QED
        BY <3>1, LeastOf
    <2>2. CASE k = 0
      <3>1. Loop(0, [i \in 0 .. 0 |-> first])
        OBVIOUS
      <3> QED
        BY <2>1, <2>2, <3>1
    <2>3. CASE k # 0
      <3>0. k \in Nat
        BY <2>1
      <3>1. k - 1 \in Nat /\ k - 1 \notin bad
        <4> HIDE DEF bad
        <4> QED
          BY <2>1, <2>3, <3>0
      <3>2. PICK f : Loop(k - 1, f)
        BY <3>1
      <3> DEFINE g == [i \in 0 .. k |-> IF i = k THEN Turn(f[k - 1], k) ELSE f[i]]
      <3>3. \A i \in 0 .. k : g[i] = IF i = 0 THEN first ELSE Turn(g[i - 1], i)
        <4> SUFFICES ASSUME NEW i \in 0 .. k PROVE g[i] = IF i = 0 THEN first ELSE Turn(g[i - 1], i)
          OBVIOUS
        <4>1. CASE i = k
          <5>1. g[i] = Turn(f[k - 1], k) /\ g[i - 1] = f[k - 1]
            BY <2>1, <2>3, <4>1
          <5> QED
            BY <2>3, <4>1, <5>1
        <4>2. CASE i # k
          <5>1. i \in 0 .. (k - 1) /\ g[i] = f[i]
            BY <2>1, <4>2
          <5>2. f[i] = IF i = 0 THEN first ELSE Turn(f[i - 1], i)
            BY <3>2, <5>1
          <5>3. i # 0 => g[i - 1] = f[i - 1]
            BY <2>1, <5>1
          <5> QED
            BY <5>1, <5>2, <5>3
        <4> QED
          BY <4>1, <4>2
      <3>4. g = [i \in 0 .. k |-> g[i]]
        OBVIOUS
      <3> HIDE DEF g
      <3>5. Loop(k, g)
        BY <3>3, <3>4
      <3> QED
        BY <2>1, <3>5
    <2> QED
      BY <2>2, <2>3
  <1>3. \E f : Loop(n, f)
    BY <1>2
  <1>4. Loop(n, turn)
    <2> HIDE DEF Loop
    <2> QED
      BY <1>1, <1>3, Zenon
  <1>5. turn[0] = first /\ \A i \in 1 .. n : turn[i] = Turn(turn[i - 1], i)
    BY <1>4
  <1> QED
    BY <1>5, Zenon DEF turn, first, Turn

\* The ReplicaSets of the first n, and their pods, are in the graph that is being built.
SetsTold(o, g, n) ==
  \A i \in 1 .. n :
    LET s == o.there[The("replicasets")][i]
        node == Known("ReplicaSet", s.name)
    IN s.owner = o.name =>
         /\ Owns(g, Root(o), node)
         /\ \A p \in Owned(o.there[The("pods")], s.name) : Owns(g, node, Known("Pod", p.name))

\* Or it has failed, or says that it was cut.
Sound(o, b, n) ==
  /\ IsBuild(b)
  /\ b.failed \/ b.graph.truncation # "" \/ (~b.ended /\ SetsTold(o, b.graph, n))

\* Lemma: what was told stays told when the graph grows.
LEMMA StillTold ==
  ASSUME NEW o, NEW g, NEW h, NEW n, g.edges \subseteq h.edges, SetsTold(o, g, n)
  PROVE  SetsTold(o, h, n)
  BY DEF SetsTold, Owns

\* Lemma: a turn of the loop keeps it so.
LEMMA TurnIsSound ==
  ASSUME NEW o, NEW lost, NEW n \in Nat \ {0}, NEW b, Sound(o, b, n - 1)
  PROVE  Sound(o, AddSet(b, o, o.there[The("replicasets")][n], lost), n)
  <1> DEFINE s == o.there[The("replicasets")][n]
             node == Known("ReplicaSet", s.name)
             own == Own(Root(o), node)
             with == AddEdges(b.graph, own)
             next == AddSet(b, o, s, lost)
             pods == o.there[The("pods")]
             grown == AddPods(with, node, pods, 2)
             short == Truncate(b.graph, 1)
  <1> SUFFICES Sound(o, next, n)
    BY Zenon
  <1>1. next = IF b.ended \/ s.owner # o.name THEN b
               ELSE IF Capped(b.graph, 1) THEN Ended(Goes(b, short), FALSE)
               ELSE IF <<"pods", s.name>> \in lost THEN Ended(Goes(b, with), TRUE)
               ELSE Goes(b, grown)
    BY Zenon DEF AddSet
  <1>2. /\ IsGraph(with) /\ b.graph.edges \subseteq with.edges /\ with.truncation = b.graph.truncation
        /\ own \subseteq with.edges
        /\ IsGraph(short) /\ short.truncation # ""
    <2> HIDE DEF own
    <2>1. IsGraph(b.graph)
      BY DEF Sound, IsBuild
    <2>2. IsGraph(with) /\ with.edges = b.graph.edges \cup own /\ with.truncation = b.graph.truncation
      BY <2>1, GraphGrows
    <2>3. IsGraph(short) /\ short.truncation # ""
      BY <2>1, GraphGrows
    <2> HIDE DEF with, short
    <2> QED
      BY <2>2, <2>3
  <1>3. /\ Grown(with, grown)
        /\ grown.truncation = "" => \A p \in Owned(pods, node.name) : Owns(grown, node, Known("Pod", p.name))
    BY <1>2, PodsTold
  <1>4. node.name = s.name /\ <<"OWNS", Root(o), node>> \in own
    BY DEF Known, Own
  <1> HIDE DEF node, own, with, grown, short, next, pods
  <1>5. ASSUME NEW g, NEW c, IsGraph(g), c = Goes(b, g)
        PROVE  IsBuild(c) /\ c.graph = g /\ c.failed = b.failed /\ c.ended = b.ended
    BY <1>5 DEF Goes, IsBuild, Sound
  <1>6. ASSUME NEW g, NEW failed, IsGraph(g), NEW c, c = Ended(Goes(b, g), failed)
        PROVE  IsBuild(c) /\ c.graph = g /\ c.failed = failed
    BY <1>6 DEF Goes, Ended, IsBuild, Sound
  <1>7. ASSUME NEW g, b.graph.edges \subseteq g.edges, SetsTold(o, b.graph, n - 1),
               s.owner = o.name =>
                 /\ Owns(g, Root(o), node)
                 /\ \A p \in Owned(pods, s.name) : Owns(g, node, Known("Pod", p.name))
        PROVE  SetsTold(o, g, n)
    <2>1. SetsTold(o, g, n - 1)
      BY <1>7, StillTold
    <2>2. \A i \in 1 .. n : i \in 1 .. (n - 1) \/ i = n
      OBVIOUS
    <2> QED
      BY <1>7, <2>1, <2>2 DEF SetsTold, node, s, pods
  <1>8. CASE b.ended \/ s.owner # o.name
    <2>1. next = b
      BY <1>1, <1>8
    <2>2. CASE b.failed \/ b.graph.truncation # ""
      BY <2>1, <2>2 DEF Sound
    <2>3. CASE ~(b.failed \/ b.graph.truncation # "")
      BY <1>7, <1>8, <2>1, <2>3 DEF Sound
    <2> QED
      BY <2>2, <2>3
  <1>9. CASE ~(b.ended \/ s.owner # o.name) /\ Capped(b.graph, 1)
    <2>1. next = Ended(Goes(b, short), FALSE)
      BY <1>1, <1>9
    <2>2. IsBuild(next) /\ next.graph = short
      BY <1>2, <1>6, <2>1
    <2> QED
      BY <1>2, <2>2 DEF Sound
  <1>10. CASE ~(b.ended \/ s.owner # o.name) /\ ~Capped(b.graph, 1) /\ <<"pods", s.name>> \in lost
    <2>1. next = Ended(Goes(b, with), TRUE)
      BY <1>1, <1>10
    <2> QED
      BY <1>2, <1>6, <2>1 DEF Sound
  <1>11. CASE ~(b.ended \/ s.owner # o.name) /\ ~Capped(b.graph, 1) /\ <<"pods", s.name>> \notin lost
    <2>1. next = Goes(b, grown)
      BY <1>1, <1>11
    <2>2. /\ IsBuild(next) /\ next.graph = grown /\ next.failed = b.failed /\ next.ended = b.ended
          /\ b.graph.edges \subseteq grown.edges /\ <<"OWNS", Root(o), node>> \in grown.edges
      BY <1>2, <1>3, <1>4, <1>5, <2>1 DEF Grown
    <2>3. b.graph.truncation # "" => grown.truncation # ""
      BY <1>2, <1>3 DEF Grown
    <2>4. CASE b.failed \/ grown.truncation # ""
      BY <2>2, <2>4 DEF Sound
    <2>5. CASE ~b.failed /\ grown.truncation = ""
      <3>1. ~b.ended /\ SetsTold(o, b.graph, n - 1)
        BY <2>3, <2>5 DEF Sound
      <3>2. SetsTold(o, grown, n)
        BY <1>3, <1>4, <1>7, <2>2, <2>5, <3>1 DEF Owns
      <3> QED
        BY <2>2, <3>1, <3>2 DEF Sound
    <2> QED
      BY <2>4, <2>5
  <1> QED
    BY <1>8, <1>9, <1>10, <1>11

\* Lemma: so the loop ends with all of them told, or with a failure or a mark.
LEMMA LoopIsSound ==
  ASSUME NEW o, NEW lost, NEW m \in Nat, Len(o.there[The("replicasets")]) = m
  PROVE  Sound(o, SetsLoop(o, lost)[m], m)
  <1> DEFINE turn == SetsLoop(o, lost)
             sets == o.there[The("replicasets")]
             failed == The("replicasets") \in lost
             bad == {k \in 0 .. m : ~Sound(o, turn[k], k)}
  <1>1. turn[0] = Fresh(o, failed) /\ \A i \in 1 .. m : turn[i] = AddSet(turn[i - 1], o, sets[i], lost)
    BY LoopIs
  <1>2. \A i \in 1 .. m : \A b : Sound(o, b, i - 1) => Sound(o, AddSet(b, o, sets[i], lost), i)
    <2> SUFFICES ASSUME NEW i \in 1 .. m, NEW b, Sound(o, b, i - 1)
                 PROVE  Sound(o, AddSet(b, o, sets[i], lost), i)
      OBVIOUS
    <2>1. i \in Nat \ {0}
      OBVIOUS
    <2> QED
      BY <2>1, TurnIsSound
  <1>3. Sound(o, Fresh(o, failed), 0)
    <2>1. failed \in BOOLEAN /\ 1 .. 0 = {}
      OBVIOUS
    <2> HIDE DEF failed
    <2> QED
      BY <2>1 DEF Sound, Fresh, NewGraph, IsBuild, IsGraph, SetsTold
  <1> HIDE DEF turn, sets, failed
  <1>4. bad = {}
    <2> SUFFICES ASSUME bad # {} PROVE FALSE
      OBVIOUS
    <2>1. bad \in SUBSET Nat
      OBVIOUS
    <2>2. PICK k \in bad : \A j \in bad : k <= j
      <3> HIDE DEF bad
      <3> QED
        BY <2>1, LeastOf
    <2>3. k # 0
      BY <1>1, <1>3, <2>2
    <2>4. k \in 1 .. m /\ k - 1 \in 0 .. m /\ k - 1 \notin bad
      <3>1. k \in 0 .. m
        BY <2>2
      <3>2. k - 1 \notin bad
        <4> HIDE DEF bad
        <4> QED
          BY <2>2, <3>1
      <3> QED
        BY <2>3, <3>1, <3>2
    <2>5. Sound(o, turn[k - 1], k - 1)
      BY <2>4
    <2>6. Sound(o, turn[k], k)
      BY <1>1, <1>2, <2>4, <2>5
    <2> QED
      BY <2>2, <2>6
  <1>5. Sound(o, turn[m], m)
    BY <1>4
  <1> QED
    BY <1>5 DEF turn

\* The pods that a graph of o should have.
PodsIn(o, g, owner) ==
  \A p \in Owned(o.there[The("pods")], owner.name) : Owns(g, owner, Known("Pod", p.name))

\* Lemma: links are added to a graph.
LEMMA LinkGrows ==
  ASSUME NEW o, NEW b, IsBuild(b), NEW what, NEW kind, NEW lost
  PROVE  LET c == Link(b, o, what, kind, lost)
         IN IsBuild(c) /\ Grown(b.graph, c.graph) /\ c.failed = b.failed /\ c.ended = b.ended
  <1> DEFINE new == {<<"LINKED", Root(o), Known(kind, n)>> : n \in Elements(o.there[what])}
             g == AddEdges(b.graph, new)
             c == Link(b, o, what, kind, lost)
  <1>1. c = IF what \in lost THEN b ELSE Goes(b, g)
    BY Zenon DEF Link
  <1> HIDE DEF new, c
  <1>2. IsGraph(g) /\ Grown(b.graph, g) /\ Grown(b.graph, b.graph)
    BY GraphGrows DEF Grown, IsBuild
  <1> HIDE DEF g
  <1>3. IsBuild(c) /\ Grown(b.graph, c.graph) /\ c.failed = b.failed /\ c.ended = b.ended
    BY <1>1, <1>2 DEF Goes, IsBuild
  <1> QED
    BY <1>3, Zenon DEF c

\* Lemma: what has grown out of what has grown out of g has grown out of g.
LEMMA GrownTwice ==
  ASSUME NEW g, NEW h, NEW i, Grown(g, h), Grown(h, i)
  PROVE  Grown(g, i)
  BY DEF Grown

\* Lemma: the graph of a Deployment, which was built to its end, has its ReplicaSets and
\* their pods, or says that it was cut.
LEMMA DeploymentGraphTold ==
  ASSUME NEW o, o.there[The("replicasets")] \in Seq(Elements(o.there[The("replicasets")])), NEW lost
  PROVE  LET b == DeploymentGraph(o, lost)
         IN b.failed \/ b.graph.truncation # "" \/
              \A s \in Owned(o.there[The("replicasets")], o.name) :
                /\ Owns(b.graph, Root(o), Known("ReplicaSet", s.name))
                /\ PodsIn(o, b.graph, Known("ReplicaSet", s.name))
  <1> DEFINE sets == o.there[The("replicasets")]
             m == Len(sets)
             b == SetsLoop(o, lost)[m]
             spec == SpecEdges(Root(o), o.template)
             g == AddEdges(b.graph, spec)
             used == Link(Goes(b, g), o, The("hpas"), "HorizontalPodAutoscaler", lost)
             last == Link(used, o, The("pdbs"), "PodDisruptionBudget", lost)
             d == DeploymentGraph(o, lost)
  <1>1. d = IF b.ended THEN b ELSE IF The("pdbs") \in lost THEN Ended(used, TRUE) ELSE last
    BY Zenon DEF DeploymentGraph
  <1>2. m \in Nat /\ DOMAIN sets = 1 .. m
    BY LenProperties
  <1>3. Sound(o, b, m)
    BY <1>2, LoopIsSound
  <1> HIDE DEF b, spec, d, m
  <1>4. IsGraph(g) /\ Grown(b.graph, g)
    BY <1>3, GraphGrows DEF Grown, Sound, IsBuild
  <1> HIDE DEF g
  <1>5. IsBuild(Goes(b, g)) /\ Goes(b, g).graph = g /\ Goes(b, g).failed = b.failed /\ Goes(b, g).ended = b.ended
    <2>1. ASSUME NEW c, c = Goes(b, g)
          PROVE  IsBuild(c) /\ c.graph = g /\ c.failed = b.failed /\ c.ended = b.ended
      BY <1>3, <1>4, <2>1 DEF Sound, IsBuild, Goes
    <2> QED
      BY <2>1
  <1>6. IsBuild(used) /\ Grown(g, used.graph)
    BY <1>5, LinkGrows
  <1> HIDE DEF used
  <1>7. IsBuild(last) /\ Grown(used.graph, last.graph)
    BY <1>6, LinkGrows
  <1> HIDE DEF last
  <1>8. Grown(b.graph, last.graph)
    BY <1>4, <1>6, <1>7, GrownTwice
  <1>9. d.failed \/ d.graph.truncation # "" \/ SetsTold(o, d.graph, m)
    <2>1. CASE b.ended
      BY <1>1, <1>3, <2>1 DEF Sound
    <2>2. CASE ~b.ended /\ The("pdbs") \in lost
      BY <1>1, <1>6, <2>2 DEF Ended, IsBuild
    <2>3. CASE ~b.ended /\ The("pdbs") \notin lost
      <3>1. d = last
        BY <1>1, <2>3
      <3>2. CASE d.failed \/ d.graph.truncation # ""
        BY <3>2
      <3>3. CASE ~b.failed /\ d.graph.truncation = ""
        BY <1>3, <1>8, <3>1, <3>3, StillTold DEF Sound, Grown
      <3>4. CASE b.failed /\ ~d.failed
        <4>1. used.failed = b.failed
          BY <1>5, LinkGrows DEF used
        <4>2. last.failed = used.failed
          BY <1>6, LinkGrows DEF last
        <4> QED
          BY <3>1, <3>4, <4>1, <4>2
      <3> QED
        BY <3>2, <3>3, <3>4
    <2> QED
      BY <2>1, <2>2, <2>3
  <1>10. ASSUME SetsTold(o, d.graph, m), NEW s \in Owned(sets, o.name)
         PROVE  /\ Owns(d.graph, Root(o), Known("ReplicaSet", s.name))
                /\ PodsIn(o, d.graph, Known("ReplicaSet", s.name))
    <2>1. PICK i \in 1 .. m : s = sets[i]
      BY <1>2 DEF Owned, Elements
    <2>2. s.owner = o.name
      BY DEF Owned
    <2> HIDE DEF sets
    <2>3. /\ Owns(d.graph, Root(o), Known("ReplicaSet", s.name))
          /\ \A p \in Owned(o.there[The("pods")], s.name) : Owns(d.graph, Known("ReplicaSet", s.name), Known("Pod", p.name))
      BY <1>10, <2>1, <2>2 DEF SetsTold, sets
    <2>4. Known("ReplicaSet", s.name).name = s.name
      BY DEF Known
    <2> HIDE DEF d
    <2> QED
      BY <2>3, <2>4, Zenon DEF PodsIn
  <1>11. d.failed \/ d.graph.truncation # "" \/
              \A s \in Owned(sets, o.name) :
                /\ Owns(d.graph, Root(o), Known("ReplicaSet", s.name))
                /\ PodsIn(o, d.graph, Known("ReplicaSet", s.name))
    BY <1>9, <1>10
  <1> QED
    BY <1>11, Zenon DEF d

\* Lemma: and so it is of the graph of a StatefulSet or a DaemonSet.
LEMMA WorkloadGraphTold ==
  ASSUME NEW o, o.kind = "StatefulSet" \/ o.kind = "DaemonSet", NEW lost
  PROVE  LET b == GraphOf(o, lost)
         IN b.failed \/ b.graph.truncation # "" \/ PodsIn(o, b.graph, Root(o))
  <1> DEFINE failed == The("pods") \in lost
             b == Fresh(o, failed)
             pods == AddPods(b.graph, Root(o), o.there[The("pods")], 1)
             specEdges == SpecEdges(Root(o), o.template)
             spec == AddEdges(pods, specEdges)
             claimEdges == UNION {ClaimEdges(o, c) : c \in Owned(o.there[The("claims")], o.name)}
             claims == IF The("claims") \in lost THEN spec ELSE AddEdges(spec, claimEdges)
             d == GraphOf(o, lost)
  <1>1. d = IF b.ended THEN b
            ELSE IF o.kind = "StatefulSet"
            THEN Link(Goes(b, claims), o, The("hpas"), "HorizontalPodAutoscaler", lost)
            ELSE Goes(b, spec)
    <2>1. CASE o.kind = "StatefulSet"
      <3>1. d = StatefulSetGraph(o, lost)
        BY <2>1, Zenon DEF GraphOf
      <3> QED
        BY <2>1, <3>1, Zenon DEF StatefulSetGraph
    <2>2. CASE o.kind = "DaemonSet"
      <3>1. d = PodOwnerGraph(o, lost) /\ o.kind # "StatefulSet"
        BY <2>2, Zenon DEF GraphOf
      <3> QED
        BY <2>2, <3>1, Zenon DEF PodOwnerGraph
    <2> QED
      BY <2>1, <2>2
  <1> HIDE DEF specEdges, claimEdges, d
  <1>2. IsBuild(b) /\ b.ended = b.failed
    <2> HIDE DEF failed
    <2> QED
      BY DEF Fresh, IsBuild, IsGraph, NewGraph
  <1> HIDE DEF b
  <1>3. Grown(b.graph, pods) /\ (pods.truncation = "" => PodsIn(o, pods, Root(o)))
    BY <1>2, PodsTold DEF IsBuild, PodsIn
  <1> HIDE DEF pods
  <1>4. Grown(pods, spec)
    BY <1>3, GraphGrows DEF Grown
  <1> HIDE DEF spec
  <1>5. Grown(spec, spec) /\ Grown(spec, AddEdges(spec, claimEdges))
    BY <1>4, GraphGrows DEF Grown
  <1>6. Grown(pods, claims)
    BY <1>4, <1>5, GrownTwice
  <1> HIDE DEF claims
  <1>7. ASSUME NEW g, Grown(pods, g), NEW c, c = Goes(b, g)
        PROVE  IsBuild(c) /\ c.graph = g
    BY <1>2, <1>7 DEF Goes, IsBuild, Grown
  <1>8. ASSUME NEW g, Grown(pods, g), g.truncation = "" PROVE PodsIn(o, g, Root(o))
    BY <1>3, <1>8 DEF Grown, PodsIn, Owns
  <1>9. d.failed \/ d.graph.truncation # "" \/ PodsIn(o, d.graph, Root(o))
    <2>1. CASE b.ended
      BY <1>1, <1>2, <2>1
    <2>2. CASE ~b.ended /\ o.kind = "StatefulSet"
      <3> DEFINE c == Goes(b, claims)
      <3>1. IsBuild(c) /\ c.graph = claims
        BY <1>6, <1>7
      <3>2. d = Link(c, o, The("hpas"), "HorizontalPodAutoscaler", lost)
        BY <1>1, <2>2
      <3> HIDE DEF c
      <3>3. Grown(c.graph, d.graph)
        BY <3>1, <3>2, LinkGrows
      <3> QED
        BY <1>6, <1>8, <3>1, <3>3, GrownTwice
    <2>3. CASE ~b.ended /\ o.kind # "StatefulSet"
      <3>1. d = Goes(b, spec)
        BY <1>1, <2>3
      <3> QED
        BY <1>4, <1>7, <1>8, <3>1
    <2> QED
      BY <2>1, <2>2, <2>3
  <1> QED
    BY <1>9, Zenon DEF d

\* The kinds whose answer is marked when a cap was met.
CapTold == {"Deployment", "StatefulSet", "DaemonSet"}

\* Lemma: the mark of a graph, and for a Deployment the cap on diagnoses, is in the answer.
LEMMA TruncatedIs ==
  ASSUME NEW o, o.kind \in CapTold, NEW g, NEW r \in Responses(o, g)
  PROVE  /\ o.kind = "Deployment" => (r.truncated <=> DeploymentTruncated(o, g))
         /\ o.kind # "Deployment" => (r.truncated <=> g[The("graph")].value.truncation # "")
         /\ DemoteConfirmed(r).truncated = r.truncated
  <1> DEFINE events == EventsOrWarning(g[The("events")], o.name)
             limited == LimitedBy(o, g)
             cut == g[The("graph")].value.truncation # ""
             Judged(S) == Assemble(S \cup events, FALSE)
             long == DeploymentTruncated(o, g)
  <1>1. \E S :
          r = IF o.kind = "Deployment" THEN Cut(long, Doubted(limited, Partial(limited, Judged(S))))
              ELSE Partial(limited, Cut(cut, Judged(S)))
    <2>1. CASE o.kind = "Deployment"
      <3>1. Responses(o, g) =
              {Cut(long, Doubted(limited, Partial(limited, Judged(DeploymentSignals(o, g, m))))) : m \in Majorities(o, g)}
        BY <2>1, Zenon DEF Responses
      <3> HIDE DEF events, limited, Judged, long
      <3> QED
        BY <2>1, <3>1
    <2>2. CASE o.kind = "StatefulSet"
      <3>1. Responses(o, g) = {Partial(limited, Cut(cut, Judged(StatefulSetSignals(o, g))))}
        BY <2>2, Zenon DEF Responses
      <3> HIDE DEF events, limited, Judged, cut
      <3> QED
        BY <2>2, <3>1
    <2>3. CASE o.kind = "DaemonSet"
      <3>1. Responses(o, g) = {Partial(limited, Cut(cut, Judged(DaemonSetSignals(o, g))))}
        BY <2>3, Zenon DEF Responses
      <3> HIDE DEF events, limited, Judged, cut
      <3> QED
        BY <2>3, <3>1
    <2> QED
      BY <2>1, <2>2, <2>3 DEF CapTold
  <1>2. PICK S :
          r = IF o.kind = "Deployment" THEN Cut(long, Doubted(limited, Partial(limited, Judged(S))))
              ELSE Partial(limited, Cut(cut, Judged(S)))
    BY <1>1
  <1>3. limited \in BOOLEAN /\ cut \in BOOLEAN /\ long \in BOOLEAN
    BY Zenon DEF LimitedBy, DeploymentTruncated
  <1>4. IsAnswer(Judged(S))
    BY AssembleIs
  <1> HIDE DEF events, limited, Judged, cut, long
  <1>5. ASSUME NEW q, IsAnswer(q), NEW b \in BOOLEAN
        PROVE  /\ Cut(b, q).truncated = b /\ IsAnswer(Cut(b, q))
               /\ Partial(b, q).truncated = q.truncated /\ IsAnswer(Partial(b, q))
               /\ Doubted(b, q).truncated = q.truncated /\ IsAnswer(Doubted(b, q))
    <2>1. IsAnswer(Cut(b, q)) /\ IsAnswer(Partial(b, q)) /\ IsAnswer(Doubted(b, q))
      BY <1>5, MarksMark DEF Marked
    <2>2. Cut(b, q).truncated = b
      BY <1>5 DEF Cut, IsAnswer
    <2>3. Partial(b, q).truncated = q.truncated
      BY <1>5 DEF Partial, IsAnswer
    <2>4. Doubted(b, q).truncated = q.truncated
      BY <1>5 DEF Doubted, IsAnswer
    <2> QED
      BY <2>1, <2>2, <2>3, <2>4
  <1>6. IsAnswer(r) /\ r.truncated = IF o.kind = "Deployment" THEN long ELSE cut
    <2> DEFINE j == Judged(S)
               p == Partial(limited, j)
               d == Doubted(limited, p)
               c == Cut(cut, j)
    <2>0. /\ r = IF o.kind = "Deployment" THEN Cut(long, d) ELSE Partial(limited, c)
          /\ IsAnswer(j)
      BY <1>2, <1>4
    <2> HIDE DEF j
    <2>3. IsAnswer(p) /\ IsAnswer(c) /\ c.truncated = cut
      BY <1>3, <1>5, <2>0
    <2> HIDE DEF p, c
    <2>4. IsAnswer(d)
      BY <1>3, <1>5, <2>3
    <2> HIDE DEF d
    <2>1. CASE o.kind = "Deployment"
      BY <1>3, <1>5, <2>0, <2>1, <2>4
    <2>2. CASE o.kind # "Deployment"
      BY <1>3, <1>5, <2>0, <2>2, <2>3
    <2> QED
      BY <2>1, <2>2
  <1>7. DemoteConfirmed(r).truncated = r.truncated
    BY <1>6 DEF DemoteConfirmed, IsAnswer
  <1>8. /\ o.kind = "Deployment" => (r.truncated <=> long)
        /\ o.kind # "Deployment" => (r.truncated <=> cut)
    BY <1>6
  <1> QED
    BY <1>7, <1>8, Zenon DEF long, cut

\* Lemma: when fewer are taken than there is room for, all are.
LEMMA AllAreTaken ==
  ASSUME NEW n \in Nat, NEW list, list \in Seq(Elements(list)),
         \A i, j \in DOMAIN list : list[i].name = list[j].name => i = j,
         NEW those \in SUBSET Elements(list), Cardinality(UpTo(n, list, those)) < n
  PROVE  UpTo(n, list, those) = those
  <1> DEFINE Before(j) == {k \in 1 .. (j - 1) : list[k] \in those}
             left == {j \in DOMAIN list : list[j] \in those /\ ~(Cardinality(Before(j)) < n)}
             taken == {j \in DOMAIN list : list[j] \in those /\ Cardinality(Before(j)) < n}
             up == {list[i] : i \in taken}
             m == Len(list)
  <1>1. UpTo(n, list, those) = up
    BY Zenon DEF UpTo
  <1>2. m \in Nat /\ DOMAIN list = 1 .. m /\ left \in SUBSET Nat
    <2>1. m \in Nat /\ DOMAIN list = 1 .. m
      BY LenProperties
    <2>2. left \subseteq 1 .. m
      BY <2>1, Zenon
    <2> QED
      BY <2>1, <2>2, IndicesAreNat
  <1>3. \A i, j \in taken : list[i] = list[j] => i = j
    OBVIOUS
  <1>4. taken \subseteq 1 .. m
    BY <1>2, Zenon
  <1>5. left = {}
    <2> SUFFICES ASSUME left # {} PROVE FALSE
      OBVIOUS
    <2>1. PICK j \in left : \A i \in left : j <= i
      <3> HIDE DEF left
      <3> QED
        BY <1>2, LeastOf
    <2>2. j \in 1 .. m /\ ~(Cardinality(Before(j)) < n)
      BY <1>2, <2>1
    <2>3. Before(j) \subseteq taken
      <3> SUFFICES ASSUME NEW k \in Before(j) PROVE k \in taken
        OBVIOUS
      <3>1. k \in 1 .. (j - 1) /\ list[k] \in those
        OBVIOUS
      <3>2. k \in 1 .. m /\ k \notin left
        <4> HIDE DEF left
        <4> QED
          BY <1>2, <2>1, <2>2, <3>1
      <3> QED
        BY <1>2, <3>1, <3>2, Zenon
    <2> HIDE DEF Before, left, taken
    <2>4. IsFiniteSet(taken) /\ IsFiniteSet(up) /\ Cardinality(up) = Cardinality(taken)
      <3>0. IsFiniteSet(1 .. m)
        BY <1>2, FS_Interval
      <3>1. IsFiniteSet(taken)
        BY <1>4, <3>0, FS_Subset
      <3> DEFINE f == [i \in taken |-> list[i]]
      <3>2. f \in Bijection(taken, up)
        BY <1>3 DEF Bijection, Injection, Surjection, IsInjective
      <3>3. ExistsBijection(taken, up)
        BY <3>2 DEF ExistsBijection
      <3> QED
        BY <3>1, <3>3, FS_Bijection
    <2>5. Cardinality(Before(j)) <= Cardinality(taken)
      BY <2>3, <2>4, FS_Subset
    <2>6. Cardinality(Before(j)) \in Nat /\ Cardinality(taken) \in Nat
      BY <2>3, <2>4, FS_Subset, FS_CardinalityType
    <2> QED
      BY <1>1, <2>2, <2>4, <2>5, <2>6
  <1>6. those \subseteq up
    <2> SUFFICES ASSUME NEW p \in those PROVE p \in up
      OBVIOUS
    <2>1. PICK i \in DOMAIN list : p = list[i]
      BY Zenon DEF Elements
    <2>2. i \notin left
      BY <1>5
    <2>3. i \in taken
      BY <2>1, <2>2, Zenon
    <2> QED
      BY <2>1, <2>3
  <1>7. up \subseteq those
    OBVIOUS
  <1> QED
    BY <1>1, <1>6, <1>7

\* Lemma: a Deployment that is not truncated has all its unhealthy pods diagnosed.
LEMMA AllDiagnosed ==
  ASSUME ReadingInv, object.kind = "Deployment", ~DeploymentTruncated(object, got)
  PROVE  UnhealthyOf(object, got) \subseteq Deep(object, got)
  <1> DEFINE list == ListOf(got, "pods")
             bad == UnhealthyOf(object, got)
             deep == UpTo(DeepCap, list, bad)
  <1>1. Deep(object, got) = deep
    BY Zenon DEF Deep
  <1>2. bad \subseteq Elements(list)
    BY DEF UnhealthyOf, Pods
  <1>3. CASE ~Found(got, The("pods"))
    <2>1. list = <<>>
      BY <1>3 DEF ListOf
    <2> HIDE DEF list, bad
    <2>2. bad = {}
      BY <1>2, <2>1, EmptyHasNone
    <2> QED
      BY <2>2 DEF bad
  <1>4. CASE Found(got, The("pods"))
    <2>1. The("pods") \in DOMAIN object.there /\ list = object.there[The("pods")]
      <3>1. The("pods")[1] # "diagnosis" /\ The("pods") # The("graph")
        BY TheNames
      <3> QED
        BY <1>4, <3>1, FoundIsThere, Zenon DEF ListOf
    <2>2. object \in Objects
      <3>1. "none" # "Deployment"
        OBVIOUS
      <3> QED
        BY <3>1, ObjectFacts DEF ReadingInv
    <2>3. /\ list \in Seq(Elements(list))
          /\ \A i, j \in DOMAIN list : list[i].name = list[j].name => i = j
      <3>1. HasLists(object)
        BY <2>2, ObjectAssumption
      <3> QED
        BY <2>1, <3>1 DEF HasLists
    <2> HIDE DEF list
    <2>4. IsFiniteSet(bad) /\ deep \subseteq bad
      <3>1. DOMAIN list = 1 .. Len(list) /\ Len(list) \in Nat /\ list = [i \in DOMAIN list |-> list[i]]
        BY <2>3
      <3>2. \A n \in Nat : IsFiniteSet(1 .. n)
        BY FS_Interval
      <3>3. list \in Surjection(DOMAIN list, Elements(list))
        BY <3>1 DEF Elements, Surjection
      <3>4. IsFiniteSet(Elements(list))
        BY <3>1, <3>2, <3>3, FS_Surjection
      <3> HIDE DEF bad
      <3>5. deep \subseteq bad
        BY DEF UpTo
      <3> QED
        BY <1>2, <3>4, <3>5, FS_Subset DEF bad
    <2>5. \/ ~(Cardinality(deep) >= MaxDeepPods)
          \/ ~(Cardinality(bad) > Cardinality(deep))
      BY <1>1, Zenon DEF DeploymentTruncated
    <2> HIDE DEF bad
    <2>6. /\ IsFiniteSet(deep) /\ Cardinality(deep) \in Nat /\ Cardinality(bad) \in Nat
          /\ Cardinality(deep) <= Cardinality(bad)
          /\ Cardinality(bad) = Cardinality(deep) => bad = deep
      BY <2>4, FS_Subset, FS_CardinalityType
    <2>7. CASE Cardinality(deep) < MaxDeepPods
      <3>1. DeepCap = MaxDeepPods /\ MaxDeepPods \in Nat
        BY <2>6, <2>7, KindAssumption DEF DeepCap
      <3>2. deep = bad
        BY <1>2, <2>3, <2>7, <3>1, AllAreTaken
      <3> QED
        BY <1>1, <3>2 DEF bad
    <2>8. CASE Cardinality(bad) <= Cardinality(deep)
      <3>1. deep = bad
        BY <2>6, <2>8
      <3> QED
        BY <1>1, <3>1 DEF bad
    <2> QED
      BY <2>5, <2>6, <2>7, <2>8, KindAssumption
  <1> QED
    BY <1>3, <1>4

\* The graph that was read is one of those the builder comes to.
GraphInv == The("graph") \in DOMAIN got => \E lost : got[The("graph")] = GraphAnswer(object, lost)

\* Lemma: every step keeps it.
LEMMA GraphInvNext == ReadingInv /\ GraphInv /\ [Next]_vars => GraphInv'
  <1> SUFFICES ASSUME ReadingInv, GraphInv, [Next]_vars PROVE GraphInv'
    OBVIOUS
  <1>1. CASE UNCHANGED <<object, got>>
    BY <1>1 DEF GraphInv
  <1>2. CASE Dispatch
    <2>1. got' = got /\ got = <<>>
      BY <1>2 DEF Dispatch, ReadingInv
    <2>2. DOMAIN got' = {}
      BY <2>1
    <2> QED
      BY <2>2 DEF GraphInv
  <1>3. CASE Read
    <2>1. PICK new \in NextReads : \E a \in Answers(object, new, got, over) :
            got' = [r \in DOMAIN got \cup {new} |-> IF r = new THEN a ELSE got[r]]
      BY <1>3 DEF Read
    <2>2. PICK a \in Answers(object, new, got, over) :
            got' = [r \in DOMAIN got \cup {new} |-> IF r = new THEN a ELSE got[r]]
      BY <2>1
    <2>3. object' = object
      BY <1>3 DEF Read
    <2>4. CASE new = The("graph")
      <3>0. new[1] # "diagnosis"
        BY <2>4, TheNames
      <3>1. Answers(object, new, got, over) =
              {GraphAnswer(object, lost) :
                 lost \in {L \in SUBSET GraphRequests(object) : over => L = GraphRequests(object)}}
        BY <2>4, <3>0, Zenon DEF Answers
      <3>2. PICK lost : a = GraphAnswer(object, lost)
        BY <3>1
      <3>3. got'[The("graph")] = a
        BY <2>2, <2>4
      <3> QED
        BY <2>3, <3>2, <3>3 DEF GraphInv
    <2>5. CASE new # The("graph")
      <3>1. The("graph") \in DOMAIN got' => The("graph") \in DOMAIN got /\ got'[The("graph")] = got[The("graph")]
        BY <2>2, <2>5
      <3> QED
        BY <2>3, <3>1 DEF GraphInv
    <2> QED
      BY <2>4, <2>5
  <1>4. CASE Analyze
    BY <1>4 DEF Analyze, GraphInv
  <1> QED
    BY <1>1, <1>2, <1>3, <1>4
    DEF Next, Call, Environment, Resolve, ContextEnds, vars, diagnosisVars

\* What was read as the graph is what its builder made, without some of its requests.
THEOREM GraphInvHolds == Spec => []GraphInv
  <1>1. Init => GraphInv
    <2> SUFFICES ASSUME Init PROVE GraphInv
      OBVIOUS
    <2>1. DOMAIN got = {}
      BY DEF Init
    <2> QED
      BY <2>1 DEF GraphInv
  <1> QED
    BY <1>1, GraphInvNext, ReadingInvHolds, PTL DEF Spec

\* A cap is announced: of whatever objects, with whatever limits and whatever could not be read, an
\* answer without `truncated' has every pod of the object in its graph, if it has one, and, of a
\* Deployment, a diagnosis of every unhealthy pod.
THEOREM TruncationToldHolds == Spec => []TruncationTold
  <1>1. ReadingInv /\ AnswerInv /\ AllReadInv /\ GraphInv => TruncationTold
    <2> SUFFICES ASSUME ReadingInv, AnswerInv, AllReadInv, GraphInv, stage = "answered",
                        object.kind \in {"Deployment", "StatefulSet", "DaemonSet"},
                        ~answer.truncated, Found(got, The("graph"))
                 PROVE  LET graph == got[The("graph")].value
                            pods == object.there[The("pods")]
                            Holds(owner) == \A p \in Owned(pods, owner.name) : Owns(graph, owner, Known("Pod", p.name))
                        IN IF object.kind # "Deployment" THEN Holds(Root(object))
                           ELSE /\ \A s \in Owned(object.there[The("replicasets")], object.name) :
                                     /\ Owns(graph, Root(object), Known("ReplicaSet", s.name))
                                     /\ Holds(Known("ReplicaSet", s.name))
                                /\ \A p \in UnhealthyOf(object, got) : Diagnosis(p) \in DOMAIN got
      BY DEF TruncationTold, Answered
    <2> DEFINE graph == got[The("graph")].value
    <2>1. object \in Objects
      BY ObjectFacts DEF ReadingInv
    <2>2. PICK lost : got[The("graph")] = GraphAnswer(object, lost)
      BY DEF GraphInv, Found
    <2> DEFINE b == GraphOf(object, lost)
    <2>3. ~b.failed /\ graph = b.graph
      <3>1. GraphAnswer(object, lost) = [kind |-> IF b.failed THEN "failed" ELSE "found", value |-> b.graph]
        BY Zenon DEF GraphAnswer
      <3> HIDE DEF b
      <3> QED
        BY <2>2, <3>1 DEF Found
    <2>4. PICK r \in Responses(object, got) : answer \in {r, DemoteConfirmed(r)}
      BY DEF AnswerInv
    <2>5. /\ object.kind = "Deployment" => ~DeploymentTruncated(object, got)
          /\ object.kind # "Deployment" => graph.truncation = ""
      <3>1. /\ object.kind = "Deployment" => (r.truncated <=> DeploymentTruncated(object, got))
            /\ object.kind # "Deployment" => (r.truncated <=> graph.truncation # "")
            /\ DemoteConfirmed(r).truncated = r.truncated
        <4>1. object.kind \in CapTold
          BY DEF CapTold
        <4> QED
          BY <2>4, <4>1, TruncatedIs
      <3> QED
        BY <2>4, <3>1
    <2>6. graph.truncation = ""
      BY <2>5 DEF DeploymentTruncated
    <2>7. CASE object.kind # "Deployment"
      <3>1. PodsIn(object, graph, Root(object))
        <4>0. object.kind = "StatefulSet" \/ object.kind = "DaemonSet"
          BY <2>7
        <4>1. b.failed \/ b.graph.truncation # "" \/ PodsIn(object, b.graph, Root(object))
          BY <4>0, WorkloadGraphTold
        <4> HIDE DEF graph, b
        <4> QED
          BY <2>3, <2>6, <4>1
      <3> QED
        BY <2>7, <3>1, Zenon DEF PodsIn
    <2>8. CASE object.kind = "Deployment"
      <3>1. \A s \in Owned(object.there[The("replicasets")], object.name) :
              /\ Owns(graph, Root(object), Known("ReplicaSet", s.name))
              /\ PodsIn(object, graph, Known("ReplicaSet", s.name))
        <4>1. b = DeploymentGraph(object, lost)
          BY <2>8, Zenon DEF GraphOf
        <4>2. object.there[The("replicasets")] \in Seq(Elements(object.there[The("replicasets")]))
          BY <2>1, <2>8, ObjectAssumption DEF HasLists
        <4> HIDE DEF graph, b
        <4>3. b.failed \/ b.graph.truncation # "" \/
                \A s \in Owned(object.there[The("replicasets")], object.name) :
                  /\ Owns(b.graph, Root(object), Known("ReplicaSet", s.name))
                  /\ PodsIn(object, b.graph, Known("ReplicaSet", s.name))
          BY <4>1, <4>2, DeploymentGraphTold
        <4> QED
          BY <2>3, <2>6, <4>3
      <3>2. UnhealthyOf(object, got) \subseteq Deep(object, got)
        BY <2>5, <2>8, AllDiagnosed
      <3>3. \A p \in Deep(object, got) : Diagnosis(p) \in DOMAIN got
        BY <2>8, ReadsAre DEF AllReadInv
      <3>4. \A p \in UnhealthyOf(object, got) : Diagnosis(p) \in DOMAIN got
        BY <3>2, <3>3
      <3> QED
        BY <2>8, <3>1, <3>4, Zenon DEF PodsIn
    <2> QED
      BY <2>7, <2>8
  <1> QED
    BY <1>1, GraphInvHolds, ReadingInvHolds, SeenInvHolds, PTL
=============================================================================
