------------------------- MODULE ClusterHealthProofs -------------------------
(***************************************************************************)
(* Proofs about ClusterHealth, for any set of objects and any limits.      *)
(***************************************************************************)
EXTENDS ClusterHealthProps, FiniteSetTheorems, TLAPS

USE ClusterAssumption

\* Lemma: there are seven lists, of seven kinds, none of which is "PVC".
LEMMA ListsFacts ==
  /\ Len(Lists) = 7
  /\ \A i \in 1 .. 7 : Lists[i] \in KindNames
  /\ \A i, j \in 1 .. 7 : Lists[i] = Lists[j] => i = j
  /\ "PVC" \notin KindNames
  /\ KindNames = {"Node", "Pod", "Deployment", "StatefulSet", "DaemonSet", "Job",
                  "PersistentVolumeClaim"}
  <1>1. Len(Lists) = 7
    BY DEF Lists
  <1>2. /\ Lists[1] = "Node" /\ Lists[2] = "Pod" /\ Lists[3] = "Deployment"
        /\ Lists[4] = "StatefulSet" /\ Lists[5] = "DaemonSet" /\ Lists[6] = "Job"
        /\ Lists[7] = "PersistentVolumeClaim"
    BY DEF Lists
  <1>3. \A i \in 1 .. 7 : i = 1 \/ i = 2 \/ i = 3 \/ i = 4 \/ i = 5 \/ i = 6 \/ i = 7
    OBVIOUS
  <1>4. \A i, j \in 1 .. 7 : Lists[i] = Lists[j] => i = j
    BY <1>2, <1>3
  <1>5. KindNames = {"Node", "Pod", "Deployment", "StatefulSet", "DaemonSet", "Job",
                     "PersistentVolumeClaim"}
    <2>1. \A k \in KindNames : \E i \in 1 .. 7 : k = Lists[i]
      BY DEF KindNames
    <2>2. \A i \in 1 .. 7 : Lists[i] \in KindNames
      BY DEF KindNames
    <2> QED
      BY <1>2, <1>3, <2>1, <2>2
  <1>6. \A i \in 1 .. 7 : Lists[i] \in KindNames
    BY DEF KindNames
  <1> QED
    BY <1>1, <1>4, <1>5, <1>6

\* Lemma: a combined health is a health.
LEMMA OverallHealth == Overall \in Healths
  BY DEF Overall, Combine, Healths

\* Lemma: the numbers of the report are numbers.
LEMMA FiniteCards ==
  ASSUME NEW S \in SUBSET Objects
  PROVE  IsFiniteSet(S) /\ Cardinality(S) \in Nat
  BY FS_Subset, FS_CardinalityType

\* What a walk that shows seen and takes taken does, in the terms of the invariants.
Sick(kind, seen) == {o \in OfKind(kind) : seen[o] \in {"degraded", "critical"}}
WalkOf(kind, seen, taken) ==
  /\ seen \in [OfKind(kind) -> Listable \cup {None}]
  /\ shown' = [o \in Objects |-> IF o \in OfKind(kind) THEN seen[o] ELSE shown[o]]
  /\ Fits(Room - Cardinality(Issues), Sick(kind, seen), taken)
  /\ candidates' = candidates \cup Sick(kind, seen)
  /\ rep' \in Report
  /\ rep'.critical = rep.critical \cup {o \in taken : seen[o] = "critical"}
  /\ rep'.warnings = rep.warnings \cup {o \in taken : seen[o] = "degraded"}
  /\ rep.truncated \/ Sick(kind, seen) # taken => rep'.truncated
  /\ rep'.cause = rep.cause

LEMMA WalkEffect ==
  ASSUME ClusterTypeOK, NEW kind \in KindNames, Walk(kind)
  PROVE  \E seen, taken : WalkOf(kind, seen, taken)
  <1>1. PICK seen \in [OfKind(kind) -> Listable \cup {None}] :
          /\ shown' = [o \in Objects |-> IF o \in OfKind(kind) THEN seen[o] ELSE shown[o]]
          /\ LET issues == Having(seen, OfKind(kind), {"degraded", "critical"})
                 good == IF IncludeHealthy /\ kind \in {"Node", "Pod", "Deployment"}
                           THEN Having(seen, OfKind(kind), {"healthy"}) ELSE {}
             IN \E taken \in SUBSET issues, listedGood \in SUBSET good :
                  /\ Fits(Room - Cardinality(rep.critical \cup rep.warnings), issues, taken)
                  /\ rep' = [rep EXCEPT
                       !.critical = @ \cup Having(seen, taken, {"critical"}),
                       !.warnings = @ \cup Having(seen, taken, {"degraded"}),
                       !.healthy = @ \cup listedGood,
                       !.truncated = @ \/ Truncates(issues, taken, good, listedGood)]
                  /\ candidates' = candidates \cup issues
    BY DEF Walk
  <1> DEFINE issues == Sick(kind, seen)
             good == IF IncludeHealthy /\ kind \in {"Node", "Pod", "Deployment"}
                       THEN Having(seen, OfKind(kind), {"healthy"}) ELSE {}
  <1>2. PICK taken \in SUBSET issues, listedGood \in SUBSET good :
          /\ Fits(Room - Cardinality(Issues), issues, taken)
          /\ rep' = [rep EXCEPT
               !.critical = @ \cup Having(seen, taken, {"critical"}),
               !.warnings = @ \cup Having(seen, taken, {"degraded"}),
               !.healthy = @ \cup listedGood,
               !.truncated = @ \/ Truncates(issues, taken, good, listedGood)]
          /\ candidates' = candidates \cup issues
    BY <1>1 DEF Having, Issues, Sick
  <1>3. taken \subseteq Objects /\ listedGood \subseteq Objects
    BY DEF OfKind, Having, Sick
  <1>4. rep \in Report
    BY DEF ClusterTypeOK
  <1>5. /\ rep'.critical = rep.critical \cup {o \in taken : seen[o] = "critical"}
        /\ rep'.warnings = rep.warnings \cup {o \in taken : seen[o] = "degraded"}
    BY <1>2, <1>4 DEF Report, Having
  <1>6. /\ rep'.healthy = rep.healthy \cup listedGood
        /\ rep'.truncated = (rep.truncated \/ Truncates(issues, taken, good, listedGood))
    BY <1>2, <1>4 DEF Report
  <1>7. rep' \in Report /\ rep'.cause = rep.cause
    <2>1. Truncates(issues, taken, good, listedGood) \in BOOLEAN
      BY DEF Truncates
    <2>2. Having(seen, taken, {"critical"}) \subseteq Objects
          /\ Having(seen, taken, {"degraded"}) \subseteq Objects
      BY <1>3 DEF Having
    <2> QED
      BY <1>2, <1>3, <1>4, <2>1, <2>2 DEF Report
  <1>8. rep.truncated \/ issues # taken => rep'.truncated
    BY <1>6 DEF Truncates
  <1> QED
    BY <1>1, <1>2, <1>5, <1>7, <1>8 DEF WalkOf

\* Lemma: the category an issue is given is one, or None.
LEMMA CauseOfType ==
  ASSUME ClusterTypeOK, NEW o
  PROVE  CauseOf(o) \in Categories \cup {None}
  <1> DEFINE found == {r \in enriched : ResultKey(r.obj) = IssueKey(o)}
  <1>1. CASE found = {}
    BY <1>1 DEF CauseOf
  <1>2. CASE found # {}
    <2>1. (CHOOSE r \in found : TRUE) \in Result
      BY <1>2 DEF ClusterTypeOK
    <2> QED
      BY <1>2, <2>1 DEF CauseOf, Result
  <1> QED
    BY <1>1, <1>2

LEMMA TypeInit == Init => ClusterTypeOK
  <1> SUFFICES ASSUME Init
               PROVE  ClusterTypeOK
    OBVIOUS
  <1>1. rep \in Report
    BY DEF Init, Report, Healths
  <1>2. listed \in 0 .. Len(Lists) /\ listed < Len(Lists)
    BY ListsFacts DEF Init
  <1>3. ch \in Seq(Result)
    BY DEF Init
  <1>4. /\ shown \in [Objects -> Listable \cup {None}]
        /\ worker \in [Objects -> {"none", "run", "send", "release", "gone"}]
        /\ result \in [Objects -> Result \cup {None}]
    BY DEF Init
  <1> QED
    BY <1>1, <1>2, <1>3, <1>4 DEF Init, ClusterTypeOK

LEMMA TypeStep ==
  ASSUME ClusterTypeOK, [Next]_vars
  PROVE  ClusterTypeOK'
  <1> USE DEF ClusterTypeOK
  <1>1. CASE ListNext
    <2> DEFINE kind == Lists[listed + 1]
    <2>1. listed \in 0 .. 6 /\ listed + 1 \in 1 .. 7
      BY <1>1, ListsFacts DEF ListNext
    <2>2. kind \in KindNames
      BY <2>1, ListsFacts
    <2>3. /\ listed' = listed + 1 /\ pc' = IF listed + 1 = 7 THEN "rank" ELSE "list"
          /\ UNCHANGED <<todo, worker, result, ch, received, enriched, over>>
      BY <1>1, ListsFacts DEF ListNext
    <2>4. CASE ListError(kind)
      <3>1. rep' \in Report
        BY <2>4 DEF ListError, Report
      <3> QED
        BY <2>1, <2>2, <2>3, <2>4, <3>1, ListsFacts DEF ListError
    <2>5. CASE Walk(kind)
      <3>1. PICK seen, taken : WalkOf(kind, seen, taken)
        BY <2>2, <2>5, WalkEffect
      <3>2. shown' \in [Objects -> Listable \cup {None}]
        BY <3>1 DEF WalkOf
      <3>3. /\ candidates' \subseteq Objects /\ candidates \subseteq candidates'
            /\ rep' \in Report
        BY <3>1 DEF OfKind, WalkOf, Sick
      <3>4. failed' = failed
        BY <2>5 DEF Walk
      <3> QED
        BY <2>1, <2>3, <3>2, <3>3, <3>4, ListsFacts
    <2> QED
      BY <1>1, <2>4, <2>5 DEF ListNext
  <1>2. CASE RankAll
    <2>1. Cardinality(candidates) \in Nat /\ Cap \in Nat
      BY FiniteCards DEF Cap
    <2> DEFINE skipped == IF Cardinality(candidates) > Cap
                            THEN Cardinality(candidates) - Cap ELSE 0
               cut == Cardinality(candidates) > Cap
    <2>a. skipped \in Nat /\ cut \in BOOLEAN
      BY <2>1
    <2>b. rep' = [rep EXCEPT !.health = Overall, !.deepTruncated = cut,
                             !.deepSkipped = skipped]
      BY <1>2 DEF RankAll
    <2>2. rep' \in Report
      <3> HIDE DEF skipped, cut
      <3> QED
        BY <2>a, <2>b, OverallHealth DEF Report
    <2>3. Chosen(candidates) \subseteq candidates
      BY DEF Chosen
    <2> QED
      BY <1>2, <2>2, <2>3, ListsFacts DEF RankAll
  <1>3. ASSUME NEW o \in Objects, Launch(o)
        PROVE  ClusterTypeOK'
    BY <1>3 DEF Launch
  <1>4. ASSUME NEW o \in Objects, Deep(o)
        PROVE  ClusterTypeOK'
    BY <1>4 DEF Deep, Result
  <1>5. ASSUME NEW o \in Objects, Send(o)
        PROVE  ClusterTypeOK'
    BY <1>5 DEF Send
  <1>6. ASSUME NEW o \in Objects, Release(o)
        PROVE  ClusterTypeOK'
    BY <1>6 DEF Release
  <1>7. CASE Receive
    <2>1. Head(ch) \in Result /\ Tail(ch) \in Seq(Result)
      BY <1>7 DEF Receive
    <2> QED
      BY <1>7, <2>1 DEF Receive
  <1>8. CASE Enrich
    <2>1. [o \in Objects |-> IF o \in rep.critical THEN CauseOf(o) ELSE None]
            \in [Objects -> Categories \cup {None}]
      BY CauseOfType
    <2>2. rep' \in Report
      BY <1>8, <2>1 DEF Enrich, Report
    <2> QED
      BY <1>8, <2>2 DEF Enrich, deepVars
  <1>9. CASE ContextEnds
    BY <1>9 DEF ContextEnds, deepVars
  <1>10. CASE UNCHANGED vars
    BY <1>10 DEF vars
  <1> QED
    BY <1>1, <1>2, <1>3, <1>4, <1>5, <1>6, <1>7, <1>8, <1>9, <1>10
       DEF Next, Handler, Worker

\* The report and the state of its making are well typed, the number of skipped
\* diagnoses among them (cluster.go Cluster).
THEOREM ClusterTypeCorrect == Spec => []ClusterTypeOK
  BY TypeInit, TypeStep, PTL DEF Spec

----------------------------------------------------------------------------
(* The inventory.                                                          *)

\* Lemma: steps that only work on what the lists showed.
LEMMA InventoryKept ==
  ASSUME InventoryInv, UNCHANGED <<listed, shown>>,
         rep'.critical = rep.critical, rep'.warnings = rep.warnings,
         rep'.truncated = rep.truncated, candidates' \subseteq candidates,
         pc' \in {"list", "rank"} => pc \in {"list", "rank"} /\ candidates' = candidates
  PROVE  InventoryInv'
  BY DEF InventoryInv, Unhealthy, Issues, NothingUnlisted

\* Lemma: what fits is all there is, or fills the report.
LEMMA FitsFills ==
  ASSUME NEW S \in SUBSET Objects, NEW T \in SUBSET Objects,
         NEW taken, S \cap T = {}, Cardinality(S) <= Room,
         Fits(Room - Cardinality(S), T, taken)
  PROVE  /\ Cardinality(S \cup taken) <= Room
         /\ taken # T => Cardinality(S \cup taken) = Room
         /\ Cardinality(S) = Room => taken = {}
  <1>1. taken \subseteq T /\ taken \subseteq Objects /\ S \cap taken = {}
    BY DEF Fits
  <1>2. /\ IsFiniteSet(S) /\ IsFiniteSet(T) /\ IsFiniteSet(taken)
        /\ Cardinality(S) \in Nat /\ Cardinality(T) \in Nat /\ Cardinality(taken) \in Nat
    BY <1>1, FiniteCards
  <1>3. Cardinality(S \cup taken) = Cardinality(S) + Cardinality(taken)
    <2>1. Cardinality(S \cap taken) = 0
      BY <1>1, FS_EmptySet
    <2>2. Cardinality(S \cup taken)
            = Cardinality(S) + Cardinality(taken) - Cardinality(S \cap taken)
      BY <1>2, FS_Union
    <2> QED
      BY <1>2, <2>1, <2>2
  <1>4. Room \in Nat
    BY DEF Room
  <1>5. Cardinality(taken) = Cardinality(T) => taken = T
    BY <1>1, <1>2, FS_Subset
  <1>6. Cardinality(taken) = 0 => taken = {}
    BY <1>2, FS_EmptySet
  <1> QED
    BY <1>2, <1>3, <1>4, <1>5, <1>6 DEF Fits

LEMMA InventoryList ==
  ASSUME ClusterTypeOK, InventoryInv, ListNext
  PROVE  InventoryInv'
  <1> DEFINE kind == Lists[listed + 1]
  <1>1. /\ listed \in 0 .. 6 /\ listed + 1 \in 1 .. 7 /\ listed' = listed + 1
        /\ pc = "list" /\ candidates = Unhealthy
    BY ListsFacts DEF ListNext, ClusterTypeOK, InventoryInv
  <1>2. kind \in KindNames
    BY <1>1, ListsFacts
  <1>3. \A o \in Objects : \A i \in 1 .. 7 :
          o.kind = Lists[i] /\ i > listed + 1 => o \notin OfKind(kind) /\ shown[o] = None
    <2> SUFFICES ASSUME NEW o \in Objects, NEW i \in 1 .. 7,
                        o.kind = Lists[i], i > listed + 1
                 PROVE  o \notin OfKind(kind) /\ shown[o] = None
      OBVIOUS
    <2>1. Lists[i] # Lists[listed + 1]
      BY <1>1, ListsFacts
    <2>2. i > listed
      BY <1>1
    <2> QED
      BY <2>1, <2>2 DEF OfKind, InventoryInv
  <1>4. CASE ListError(kind)
    <2>1. /\ UNCHANGED <<shown, candidates>>
          /\ rep'.critical = rep.critical /\ rep'.warnings = rep.warnings
          /\ rep'.truncated = rep.truncated
      BY <1>4 DEF ListError, ClusterTypeOK, Report
    <2>2. \A o \in Objects : \A i \in 1 .. 7 :
            o.kind = Lists[i] /\ i > listed' => shown'[o] = None
      BY <1>1, <1>3, <2>1
    <2> QED
      BY <1>1, <2>1, <2>2 DEF InventoryInv, Unhealthy, Issues, NothingUnlisted
  <1>5. CASE Walk(kind)
    <2>1. PICK seen, taken : WalkOf(kind, seen, taken)
      BY <1>2, <1>5, WalkEffect
    <2> DEFINE sick == Sick(kind, seen)
    <2>2. \A o \in OfKind(kind) : o \in Objects /\ shown[o] = None /\ shown'[o] = seen[o]
      <3> SUFFICES ASSUME NEW o \in OfKind(kind)
                   PROVE  o \in Objects /\ shown[o] = None /\ shown'[o] = seen[o]
        OBVIOUS
      <3>1. o \in Objects /\ o.kind = Lists[listed + 1] /\ listed + 1 > listed
        BY <1>1 DEF OfKind
      <3> QED
        BY <1>1, <2>1, <3>1 DEF InventoryInv, WalkOf
    <2>3. \A o \in Objects : o \notin OfKind(kind) => shown'[o] = shown[o]
      BY <2>1 DEF WalkOf
    <2>4. None \notin {"degraded", "critical"}
      BY DEF Listable
    <2>5. Unhealthy' = Unhealthy \cup sick /\ sick \cap Unhealthy = {}
      BY <2>2, <2>3, <2>4 DEF Unhealthy, Sick, OfKind
    <2>6. taken \subseteq sick /\ sick \subseteq Objects
      BY <2>1 DEF WalkOf, Fits, Sick, OfKind
    <2>7. Issues' = Issues \cup taken
      BY <2>1, <2>6 DEF Issues, WalkOf, Sick
    <2>8. Issues \subseteq Unhealthy /\ Unhealthy \subseteq Objects
      BY DEF Issues, InventoryInv, NothingUnlisted, Unhealthy
    <2>9. /\ Cardinality(Issues') <= Room
          /\ taken # sick => Cardinality(Issues') = Room
          /\ Cardinality(Issues) = Room => taken = {}
      <3>1. Issues \in SUBSET Objects /\ sick \in SUBSET Objects /\ Issues \cap sick = {}
        BY <2>5, <2>6, <2>8
      <3>2. Cardinality(Issues) <= Room
        BY DEF InventoryInv
      <3>3. Fits(Room - Cardinality(Issues), sick, taken)
        BY <2>1 DEF WalkOf
      <3> HIDE DEF sick
      <3> QED
        BY <2>7, <3>1, <3>2, <3>3, FitsFills
    <2>10. Unhealthy' # Issues' => rep'.truncated /\ Cardinality(Issues') = Room
      <3>1. CASE Unhealthy = Issues
        <4>1. Unhealthy' # Issues' => taken # sick
          BY <2>5, <2>7, <3>1
        <4> QED
          BY <2>1, <2>9, <4>1 DEF WalkOf
      <3>2. CASE Unhealthy # Issues
        <4>1. rep.truncated /\ Cardinality(Issues) = Room
          BY <3>2 DEF InventoryInv, NothingUnlisted
        <4>2. Issues' = Issues
          BY <2>7, <2>9, <4>1
        <4> QED
          BY <2>1, <4>1, <4>2 DEF WalkOf
      <3> QED
        BY <3>1, <3>2
    <2>11. /\ rep'.critical \subseteq {o \in Objects : shown'[o] = "critical"}
           /\ rep'.warnings \subseteq {o \in Objects : shown'[o] = "degraded"}
      <3>1. \A o \in Objects : shown[o] # None => shown'[o] = shown[o]
        BY <2>2, <2>3
      <3>2. \A o \in taken : o \in OfKind(kind) /\ shown'[o] = seen[o]
        BY <2>2, <2>6 DEF Sick
      <3> QED
        BY <2>1, <2>4, <2>6, <3>1, <3>2 DEF WalkOf, InventoryInv, NothingUnlisted
    <2>12. candidates' = Unhealthy'
      BY <1>1, <2>1, <2>5 DEF WalkOf
    <2>13. \A o \in Objects : \A i \in 1 .. 7 :
             o.kind = Lists[i] /\ i > listed' => shown'[o] = None
      BY <1>1, <1>3, <2>3
    <2> QED
      BY <2>9, <2>10, <2>11, <2>12, <2>13 DEF InventoryInv, NothingUnlisted
  <1> QED
    BY <1>4, <1>5 DEF ListNext

\* Lemma: steps after the ranking leave the inventory alone.
LEMMA LaterSteps ==
  ASSUME ClusterTypeOK, [Next]_vars, ~ListNext, ~RankAll
  PROVE  /\ UNCHANGED <<listed, failed, shown, candidates>>
         /\ rep'.critical = rep.critical /\ rep'.warnings = rep.warnings
         /\ rep'.truncated = rep.truncated /\ rep'.health = rep.health
         /\ rep'.deepTruncated = rep.deepTruncated
         /\ pc' = pc \/ (pc = "launch" /\ pc' = "done")
  <1>1. ASSUME NEW o \in Objects, Launch(o) \/ Deep(o) \/ Send(o) \/ Release(o)
        PROVE  UNCHANGED <<pc, listed, failed, shown, rep, candidates>>
    BY <1>1 DEF Launch, Deep, Send, Release
  <1>2. Receive \/ ContextEnds \/ UNCHANGED vars
          => UNCHANGED <<pc, listed, failed, shown, rep, candidates>>
    BY DEF Receive, ContextEnds, vars, deepVars
  <1>3. ASSUME Enrich
        PROVE  /\ UNCHANGED <<listed, failed, shown, candidates>>
               /\ rep'.critical = rep.critical /\ rep'.warnings = rep.warnings
               /\ rep'.truncated = rep.truncated /\ rep'.health = rep.health
               /\ rep'.deepTruncated = rep.deepTruncated
               /\ pc = "launch" /\ pc' = "done"
    BY <1>3 DEF Enrich, deepVars, ClusterTypeOK, Report
  <1> QED
    BY <1>1, <1>2, <1>3 DEF Next, Handler, Worker

\* Lemma: what ranking does.
LEMMA RankEffect ==
  ASSUME ClusterTypeOK, RankAll
  PROVE  /\ pc = "rank" /\ pc' \in {"launch", "done"}
         /\ UNCHANGED <<listed, failed, shown, worker, result, ch, received, enriched>>
         /\ candidates' = Chosen(candidates) /\ candidates' \subseteq candidates
         /\ todo' = candidates'
         /\ rep'.critical = rep.critical /\ rep'.warnings = rep.warnings
         /\ rep'.truncated = rep.truncated /\ rep'.health = Overall
         /\ rep'.deepTruncated = (Cardinality(candidates) > Cap)
         /\ rep'.cause = rep.cause
         /\ pc' = "done" => candidates = {}
  BY DEF RankAll, ClusterTypeOK, Report, Chosen

LEMMA InventoryStep ==
  ASSUME ClusterTypeOK, InventoryInv, [Next]_vars
  PROVE  InventoryInv'
  <1>1. CASE ListNext
    BY <1>1, InventoryList
  <1>2. CASE RankAll
    BY <1>2, RankEffect, InventoryKept
  <1>3. CASE ~ListNext /\ ~RankAll
    BY <1>3, LaterSteps, InventoryKept
  <1> QED
    BY <1>1, <1>2, <1>3

LEMMA InventoryInit == Init => InventoryInv
  <1> SUFFICES ASSUME Init
               PROVE  InventoryInv
    OBVIOUS
  <1>1. None \notin {"degraded", "critical"}
    BY DEF Listable
  <1>2. Unhealthy = {} /\ Issues = {} /\ candidates = {}
    BY <1>1 DEF Init, Unhealthy, Issues
  <1>3. Cardinality({}) = 0 /\ Room \in Nat
    BY FS_EmptySet DEF Room
  <1> QED
    BY <1>2, <1>3 DEF Init, InventoryInv, NothingUnlisted, Issues

\* An unhealthy object that was listed is an issue, under its own health, unless
\* the report is full and says that it is truncated (cluster.go pushIssue).
THEOREM NothingUnlistedHolds == Spec => []NothingUnlisted
  <1>1. ClusterTypeOK /\ InventoryInv /\ [Next]_vars => InventoryInv'
    BY InventoryStep
  <1>2. InventoryInv => NothingUnlisted
    BY DEF InventoryInv
  <1> QED
    BY <1>1, <1>2, InventoryInit, ClusterTypeCorrect, PTL DEF Spec

----------------------------------------------------------------------------
(* The combined health, and the cap.                                       *)

LEMMA RankStep ==
  ASSUME ClusterTypeOK, InventoryInv, RankInv, [Next]_vars
  PROVE  RankInv'
  <1>1. CASE ListNext
    BY <1>1 DEF ListNext, RankInv
  <1>2. CASE RankAll
    <2>1. candidates = Unhealthy
      BY <1>2, RankEffect DEF InventoryInv
    <2>2. UNCHANGED <<shown, failed>>
      BY <1>2, RankEffect
    <2>3. Overall' = Overall /\ Unhealthy' = Unhealthy
      BY <2>2 DEF Overall, Part, WorkloadsRead, Unhealthy
    <2>4. Chosen(Unhealthy)' = Chosen(Unhealthy)
      BY <2>2, <2>3 DEF Chosen, Before, Priority
    <2> QED
      BY <1>2, <2>1, <2>3, <2>4, RankEffect DEF RankInv
  <1>3. CASE ~ListNext /\ ~RankAll
    <2>1. UNCHANGED <<shown, failed, candidates>>
      BY <1>3, LaterSteps
    <2>2. Overall' = Overall /\ Unhealthy' = Unhealthy
      BY <2>1 DEF Overall, Part, WorkloadsRead, Unhealthy
    <2>3. Chosen(Unhealthy)' = Chosen(Unhealthy)
      BY <2>1, <2>2 DEF Chosen, Before, Priority
    <2> QED
      BY <1>3, <2>1, <2>2, <2>3, LaterSteps DEF RankInv
  <1> QED
    BY <1>1, <1>2, <1>3

\* The report keeps what ranking made of the inventory: its health is the combination
\* of the four parts, and the candidates are the first ones of the sorted list
\* (cluster.go: sort, cut, DeepDiagnosisTruncated).
THEOREM RankInvHolds == Spec => [](InventoryInv /\ RankInv)
  <1>1. Init => RankInv
    BY DEF Init, RankInv
  <1>2. ClusterTypeOK /\ InventoryInv /\ RankInv /\ [Next]_vars => InventoryInv' /\ RankInv'
    BY InventoryStep, RankStep
  <1> QED
    BY <1>1, <1>2, InventoryInit, ClusterTypeCorrect, PTL DEF Spec

\* Lemma: a part is healthy only if it was read and showed healthy objects only.
LEMMA PartHealthy ==
  ASSUME ClusterTypeOK, NEW kinds, NEW ok \in BOOLEAN, Part(kinds, ok) = "healthy"
  PROVE  ok /\ \A o \in Objects : o.kind \in kinds => shown[o] \in {None, "healthy"}
  <1> DEFINE T == {o \in Objects : o.kind \in kinds /\ shown[o] # None}
             H == {o \in Objects : o.kind \in kinds /\ shown[o] = "healthy"}
  <1>1. H \subseteq T /\ T \subseteq Objects
    BY DEF Listable
  <1>2. /\ IsFiniteSet(T) /\ Cardinality(T) \in Nat /\ Cardinality(H) \in Nat
        /\ Cardinality(H) <= Cardinality(T)
        /\ Cardinality(T) = Cardinality(H) => T = H
        /\ Cardinality(T) = 0 => T = {}
    BY <1>1, FiniteCards, FS_Subset, FS_EmptySet
  <1>3. PartHealth(Cardinality(T), Cardinality(H), ok) = "healthy"
    BY DEF Part
  <1>4. ok /\ (Cardinality(T) = 0 \/ ~(Cardinality(H) < Cardinality(T)))
    BY <1>3 DEF PartHealth
  <1>5. T = {} \/ T = H
    BY <1>2, <1>4
  <1> QED
    BY <1>4, <1>5

\* Lemma: the combination is healthy only if each of its states is.
LEMMA CombineHealthy ==
  ASSUME NEW S \in SUBSET Healths, Combine(S) = "healthy"
  PROVE  \A h \in S : h = "healthy"
  BY DEF Combine, Healths

LEMMA OverallHealthy ==
  ASSUME ClusterTypeOK, Overall = "healthy"
  PROVE  failed = {} /\ Unhealthy = {}
  <1> DEFINE parts == {Part({"Node"}, "Node" \notin failed), Part({"Pod"}, "Pod" \notin failed),
                       Part(Workloads, WorkloadsRead),
                       Part({"PersistentVolumeClaim"}, "PersistentVolumeClaim" \notin failed)}
  <1>a. WorkloadsRead \in BOOLEAN
    BY DEF WorkloadsRead
  <1>2. parts \in SUBSET Healths /\ Combine(parts) = "healthy"
    <2>1. Combine(parts) = "healthy"
      BY DEF Overall
    <2>2. /\ Part({"Node"}, "Node" \notin failed) \in Healths
          /\ Part({"Pod"}, "Pod" \notin failed) \in Healths
          /\ Part(Workloads, WorkloadsRead) \in Healths
          /\ Part({"PersistentVolumeClaim"}, "PersistentVolumeClaim" \notin failed) \in Healths
      BY DEF Part, PartHealth, Healths
    <2> QED
      BY <2>1, <2>2, Zenon
  <1>3. \A h \in parts : h = "healthy"
    BY <1>2, CombineHealthy
  <1>4. "Node" \notin failed /\ \A o \in Objects : o.kind = "Node" => shown[o] \in {None, "healthy"}
    BY <1>3, PartHealthy
  <1>5. "Pod" \notin failed /\ \A o \in Objects : o.kind = "Pod" => shown[o] \in {None, "healthy"}
    BY <1>3, PartHealthy
  <1>6. WorkloadsRead /\ \A o \in Objects : o.kind \in Workloads => shown[o] \in {None, "healthy"}
    BY <1>3, <1>a, PartHealthy
  <1>7. /\ "PersistentVolumeClaim" \notin failed
        /\ \A o \in Objects : o.kind = "PersistentVolumeClaim" => shown[o] \in {None, "healthy"}
    BY <1>3, PartHealthy
  <1>8. \A k \in KindNames : k \notin failed
    BY <1>4, <1>5, <1>6, <1>7, ListsFacts DEF WorkloadsRead, Workloads
  <1>9. \A o \in Objects : shown[o] \in {None, "healthy"}
    BY <1>4, <1>5, <1>6, <1>7, ListsFacts DEF Workloads
  <1>10. None \notin {"degraded", "critical"}
    BY DEF Listable
  <1> QED
    BY <1>8, <1>9, <1>10 DEF Unhealthy, ClusterTypeOK

\* A cluster is reported healthy only if every list was read and showed nothing but
\* healthy objects (cluster.go partHealth, health.go Combine).
THEOREM HealthyOnlyIfReadHolds == Spec => []HealthyOnlyIfRead
  <1>1. ClusterTypeOK /\ InventoryInv /\ RankInv => HealthyOnlyIfRead
    <2> SUFFICES ASSUME ClusterTypeOK, InventoryInv, RankInv, Done, rep.health = "healthy"
                 PROVE  failed = {} /\ Unhealthy = {} /\ Issues = {}
      BY DEF HealthyOnlyIfRead
    <2>1. failed = {} /\ Unhealthy = {}
      BY OverallHealthy DEF RankInv, Done
    <2>2. Issues \subseteq Unhealthy
      BY DEF InventoryInv, NothingUnlisted, Issues, Unhealthy
    <2> QED
      BY <2>1, <2>2
  <1> QED
    BY <1>1, RankInvHolds, ClusterTypeCorrect, PTL

\* Lemma: Before is a strict order.
LEMMA BeforeOrder ==
  /\ \A o \in Objects : ~Before(o, o)
  /\ \A o, p, q \in Objects : Before(o, p) /\ Before(p, q) => Before(o, q)
  <1>1. \A o \in Objects : Priority(o) \in Nat /\ Rank[o] \in Nat
    BY DEF Priority
  <1> QED
    BY <1>1 DEF Before

\* A candidate left without a deep diagnosis comes before none that got one, and the
\* report says that there is one (cluster.go: SliceStable before the cut).
THEOREM WorstFirstHolds == Spec => []WorstFirst
  <1>1. InventoryInv /\ RankInv => WorstFirst
    <2> SUFFICES ASSUME InventoryInv, RankInv, pc \in {"launch", "done"}
                 PROVE  /\ \A s \in Skipped, c \in candidates : ~Before(s, c)
                        /\ Skipped # {} => rep.deepTruncated
      BY DEF WorstFirst
    <2> DEFINE Ahead(c) == {d \in Unhealthy : Before(d, c)}
    <2>1. /\ Unhealthy \subseteq Objects
          /\ candidates = {c \in Unhealthy : Cardinality(Ahead(c)) < Cap}
          /\ Cap \in Nat
      BY DEF RankInv, Chosen, Unhealthy, Cap
    <2>2. ASSUME NEW s \in Skipped, NEW c \in candidates, Before(s, c)
          PROVE  FALSE
      <3>1. s \in Unhealthy /\ s \in Objects /\ c \in Objects
        BY <2>1 DEF Skipped
      <3>2. Ahead(s) \subseteq Ahead(c) /\ Ahead(c) \subseteq Objects
        BY <2>1, <2>2, <3>1, BeforeOrder
      <3>3. Cardinality(Ahead(s)) <= Cardinality(Ahead(c))
            /\ Cardinality(Ahead(s)) \in Nat /\ Cardinality(Ahead(c)) \in Nat
        <4> HIDE DEF Ahead
        <4> QED
          BY <3>2, FiniteCards, FS_Subset
      <3>4. Cardinality(Ahead(c)) < Cap /\ ~(Cardinality(Ahead(s)) < Cap)
        BY <2>1, <3>1 DEF Skipped
      <3> QED
        BY <2>1, <3>3, <3>4
    <2>3. ASSUME NEW s \in Skipped
          PROVE  Cardinality(Unhealthy) > Cap
      <3>1. s \in Unhealthy /\ ~(Cardinality(Ahead(s)) < Cap)
        BY <2>1 DEF Skipped
      <3>2. Ahead(s) \subseteq Unhealthy \ {s}
        BY <2>1, <3>1, BeforeOrder
      <3>3. IsFiniteSet(Unhealthy) /\ Cardinality(Unhealthy) \in Nat
        BY <2>1, FiniteCards
      <3>4. /\ IsFiniteSet(Unhealthy \ {s})
            /\ Cardinality(Unhealthy \ {s}) = Cardinality(Unhealthy) - 1
        BY <3>1, <3>3, FS_RemoveElement
      <3>5. Cardinality(Ahead(s)) <= Cardinality(Unhealthy \ {s})
            /\ Cardinality(Ahead(s)) \in Nat
        <4> HIDE DEF Ahead
        <4> QED
          BY <3>2, <3>4, FS_Subset, FS_CardinalityType
      <3> QED
        BY <2>1, <3>1, <3>3, <3>4, <3>5
    <2> QED
      BY <2>2, <2>3 DEF RankInv
  <1> QED
    BY <1>1, RankInvHolds, PTL

----------------------------------------------------------------------------
(* The deep diagnoses.                                                     *)

\* Lemma: every result in the channel is some object's.
LEMMA ChannelObjects ==
  ASSUME ClusterTypeOK
  PROVE  \A i \in 1 .. Len(ch) : ch[i] \in Result /\ ch[i].obj \in Objects
  <1>1. ch \in Seq(Result)
    BY DEF ClusterTypeOK
  <1>2. \A i \in 1 .. Len(ch) : ch[i] \in Result
    BY <1>1
  <1>3. \A r \in Result : r.obj \in Objects
    BY DEF Result
  <1> QED
    BY <1>2, <1>3

\* Lemma: a step that moves no result keeps what is known of them.
LEMMA ChannelKept ==
  ASSUME ClusterTypeOK, ChannelInv, UNCHANGED <<ch, enriched, received>>,
         candidates' \subseteq Objects,
         \A o \in Objects : SentBy(o)' = SentBy(o),
         \A o \in Objects : SentBy(o) => /\ result'[o] = result[o]
                                         /\ o \in candidates' <=> o \in candidates
  PROVE  ChannelInv'
  <1>1. \A i \in 1 .. Len(ch) : ch[i].obj \in Objects
    BY ChannelObjects
  <1>2. \A r \in enriched : r.obj \in Objects
    BY DEF ClusterTypeOK, Result
  <1>3. Taken' = Taken
    <2>1. candidates \subseteq Objects
      BY DEF ClusterTypeOK
    <2> QED
      BY <2>1 DEF Taken
  <1>4. \A o \in Objects : SentBy(o) <=> worker'[o] \in {"release", "gone"}
    BY DEF SentBy
  <1>5. \A i \in 1 .. Len(ch) : worker'[ch[i].obj] \in {"release", "gone"}
                                /\ ch[i] = result'[ch[i].obj]
    BY <1>1, <1>4 DEF ChannelInv
  <1>6. \A r \in enriched : worker'[r.obj] \in {"release", "gone"} /\ r = result'[r.obj]
    BY <1>2, <1>4 DEF ChannelInv
  <1> QED
    BY <1>3, <1>5, <1>6 DEF ChannelInv, SentBy

\* Lemma: a goroutine that sends puts the only result of its object in the channel.
LEMMA ChannelSend ==
  ASSUME ClusterTypeOK, WorkersInv, ChannelInv, NEW o \in Objects, Send(o)
  PROVE  ChannelInv'
  <1>1. /\ worker[o] = "send" /\ worker' = [worker EXCEPT ![o] = "release"]
        /\ ch' = Append(ch, result[o])
        /\ UNCHANGED <<candidates, result, received, enriched>>
    BY DEF Send
  <1>2. result[o] \in Result /\ result[o].obj = o
    BY <1>1 DEF WorkersInv
  <1>3. /\ Len(ch') = Len(ch) + 1 /\ ch'[Len(ch) + 1] = result[o]
        /\ \A i \in 1 .. Len(ch) : ch'[i] = ch[i]
        /\ Len(ch) \in Nat
    BY <1>1, <1>2 DEF ClusterTypeOK
  <1>4. ~SentBy(o) /\ worker'[o] = "release"
        /\ \A p \in Objects \ {o} : worker'[p] = worker[p]
    BY <1>1 DEF SentBy, ClusterTypeOK
  <1>5. \A i \in 1 .. Len(ch) : ch[i].obj \in Objects /\ ch[i].obj # o
    BY <1>4, ChannelObjects DEF ChannelInv
  <1>6. \A r \in enriched : r.obj \in Objects /\ r.obj # o
    BY <1>4 DEF ChannelInv, ClusterTypeOK, Result
  <1>7. result[o] \notin enriched
    BY <1>2, <1>6
  <1>8. \A p \in Objects : SentBy(p) => worker'[p] \in {"release", "gone"}
    BY <1>4 DEF SentBy
  <1>9. ASSUME NEW i \in 1 .. Len(ch')
        PROVE  /\ worker'[ch'[i].obj] \in {"release", "gone"}
               /\ ch'[i] = result[ch'[i].obj] /\ ch'[i] \notin enriched
               /\ \A j \in 1 .. Len(ch') : ch'[i].obj = ch'[j].obj => i = j
    <2>1. \A j \in 1 .. Len(ch') : j \in 1 .. Len(ch) \/ j = Len(ch) + 1
      BY <1>3
    <2>2. CASE i \in 1 .. Len(ch)
      BY <1>2, <1>3, <1>5, <1>8, <2>1, <2>2 DEF ChannelInv
    <2>3. CASE i = Len(ch) + 1
      BY <1>2, <1>3, <1>4, <1>5, <1>7, <2>1, <2>3
    <2> QED
      BY <2>1, <2>2, <2>3
  <1>10. Taken' = Taken
    <2>1. \A p \in candidates : p \in Objects
      BY DEF ClusterTypeOK
    <2>2. \A p \in candidates : p # o => SentBy(p)' = SentBy(p)
      BY <1>4, <2>1 DEF SentBy
    <2> QED
      BY <1>1, <1>4, <1>7, <2>2 DEF Taken
  <1>11. \A r \in enriched : worker'[r.obj] \in {"release", "gone"} /\ r = result[r.obj]
    BY <1>6, <1>8 DEF ChannelInv
  <1> QED
    BY <1>1, <1>9, <1>10, <1>11 DEF ChannelInv, SentBy

\* Lemma: kind, namespace and name tell objects apart.
LEMMA KeysDistinct ==
  ASSUME NEW o \in Objects, NEW p \in Objects
  PROVE  /\ ResultKey(o) = ResultKey(p) => o = p
         /\ ResultKey(o) = IssueKey(p) => o = p /\ p.kind # "PersistentVolumeClaim"
         /\ p.kind # "PersistentVolumeClaim" => IssueKey(p) = ResultKey(p)
  <1>1. o.kind # "PVC"
    BY ListsFacts
  <1> QED
    BY <1>1 DEF ResultKey, IssueKey, Key

\* Lemma: a result that is taken replaces no other and counts once.
LEMMA ChannelReceive ==
  ASSUME ClusterTypeOK, WorkersInv, ChannelInv, Receive
  PROVE  ChannelInv'
  <1> DEFINE r == Head(ch)
  <1>1. /\ ch # <<>> /\ ch' = Tail(ch) /\ received' = received + 1
        /\ enriched' = {x \in enriched : ResultKey(x.obj) # ResultKey(r.obj)} \cup {r}
        /\ UNCHANGED <<worker, result, candidates>>
    BY DEF Receive
  <1>2. /\ r = ch[1] /\ 1 \in 1 .. Len(ch) /\ r \in Result
        /\ Len(Tail(ch)) = Len(ch) - 1 /\ Len(ch) \in Nat
        /\ \A i \in 1 .. Len(Tail(ch)) : Tail(ch)[i] = ch[i + 1] /\ i + 1 \in 1 .. Len(ch)
    BY <1>1 DEF ClusterTypeOK
  <1>3. SentBy(r.obj) /\ r = result[r.obj] /\ r \notin enriched /\ r.obj \in Objects
    BY <1>2 DEF ChannelInv, Result
  <1>4. enriched' = enriched \cup {r}
    <2>1. ASSUME NEW x \in enriched, ResultKey(x.obj) = ResultKey(r.obj)
          PROVE  FALSE
      <3>1. x.obj \in Objects /\ x = result[x.obj]
        BY DEF ClusterTypeOK, Result, ChannelInv
      <3> QED
        BY <1>3, <2>1, <3>1, KeysDistinct
    <2> QED
      BY <1>1, <2>1
  <1>5. r.obj \in candidates /\ candidates \subseteq Objects
    BY <1>3 DEF SentBy, WorkersInv, ClusterTypeOK
  <1>6. Taken' = Taken \cup {r.obj} /\ r.obj \notin Taken
    <2>1. ASSUME NEW o \in candidates, SentBy(o), result[o] = r
          PROVE  o = r.obj
      BY <1>5, <2>1 DEF SentBy, WorkersInv
    <2> QED
      BY <1>1, <1>3, <1>4, <1>5, <2>1 DEF Taken, SentBy
  <1>7. received' = Cardinality(Taken')
    <2>1. Taken \subseteq Objects
      BY <1>5 DEF Taken
    <2>2. IsFiniteSet(Taken) /\ Cardinality(Taken) \in Nat
      BY <2>1, FiniteCards
    <2> QED
      BY <1>1, <1>6, <2>2, FS_AddElement DEF ChannelInv
  <1>8. ASSUME NEW i \in 1 .. Len(ch')
        PROVE  /\ SentBy(ch'[i].obj) /\ ch'[i] = result[ch'[i].obj] /\ ch'[i] \notin enriched'
               /\ \A j \in 1 .. Len(ch') : ch'[i].obj = ch'[j].obj => i = j
    <2>1. ch'[i] = ch[i + 1] /\ i + 1 \in 1 .. Len(ch) /\ i + 1 # 1 /\ i \in Nat
      BY <1>1, <1>2
    <2>2. ch[i + 1] # r
      BY <1>2, <2>1 DEF ChannelInv
    <2>3. \A j \in 1 .. Len(ch') : ch'[j] = ch[j + 1] /\ j + 1 \in 1 .. Len(ch) /\ j \in Nat
      BY <1>1, <1>2
    <2>4. \A j \in 1 .. Len(ch') : ch'[i].obj = ch'[j].obj => i + 1 = j + 1
      BY <2>1, <2>3 DEF ChannelInv
    <2> QED
      BY <1>4, <2>1, <2>2, <2>3, <2>4 DEF ChannelInv
  <1>9. \A x \in enriched' : SentBy(x.obj) /\ x = result[x.obj]
    BY <1>3, <1>4 DEF ChannelInv
  <1> QED
    BY <1>1, <1>7, <1>8, <1>9 DEF ChannelInv, SentBy
\* Lemma: what a step that is not of the handler's inventory or ranking, and starts,
\* sends and takes nothing, does to the goroutines.
LEMMA QuietSteps ==
  ASSUME ClusterTypeOK, WorkersInv,
         (\E o \in Objects : Deep(o) \/ Release(o)) \/ Enrich \/ ContextEnds \/ UNCHANGED vars
  PROVE  /\ UNCHANGED <<candidates, todo, ch, received, enriched>>
         /\ \A o \in Objects : /\ SentBy(o)' = SentBy(o)
                               /\ worker'[o] = "none" <=> worker[o] = "none"
                               /\ SentBy(o) => result'[o] = result[o]
         /\ WorkersInv'
  <1>1. CASE \E o \in Objects : Deep(o)
    <2>1. PICK o \in Objects : Deep(o)
      BY <1>1
    <2>2. PICK cat \in Categories \cup {None} :
            result' = [result EXCEPT ![o] = [obj |-> o, cat |-> cat]]
      BY <2>1 DEF Deep
    <2>3. /\ worker[o] = "run" /\ worker' = [worker EXCEPT ![o] = "send"]
          /\ UNCHANGED <<pc, candidates, todo, ch, received, enriched>>
      BY <2>1 DEF Deep
    <2>4. /\ worker'[o] = "send" /\ result'[o] = [obj |-> o, cat |-> cat]
          /\ \A q \in Objects \ {o} : worker'[q] = worker[q] /\ result'[q] = result[q]
      BY <2>2, <2>3 DEF ClusterTypeOK
    <2>5. result'[o] \in Result /\ result'[o].obj = o
      BY <2>2, <2>4 DEF Result
    <2> QED
      BY <2>3, <2>4, <2>5 DEF SentBy, WorkersInv
  <1>2. CASE \E o \in Objects : Release(o)
    <2>1. PICK o \in Objects : Release(o)
      BY <1>2
    <2>2. /\ worker[o] = "release" /\ worker' = [worker EXCEPT ![o] = "gone"]
          /\ UNCHANGED <<pc, candidates, todo, result, ch, received, enriched>>
      BY <2>1 DEF Release
    <2>3. worker'[o] = "gone" /\ \A q \in Objects \ {o} : worker'[q] = worker[q]
      BY <2>2 DEF ClusterTypeOK
    <2> QED
      BY <2>2, <2>3 DEF SentBy, WorkersInv
  <1>3. CASE Enrich \/ ContextEnds \/ UNCHANGED vars
    <2>1. /\ UNCHANGED <<candidates, todo, worker, result, ch, received, enriched>>
          /\ pc' \in {"list", "rank"} => pc \in {"list", "rank"}
      BY <1>3 DEF Enrich, ContextEnds, vars, deepVars
    <2> QED
      BY <2>1 DEF SentBy, WorkersInv
  <1> QED
    BY <1>1, <1>2, <1>3

\* Lemma: only the last step of the handler gives a root cause.
LEMMA CauseKept ==
  ASSUME ClusterTypeOK, [Next]_vars, ~Enrich
  PROVE  rep'.cause = rep.cause
  <1>1. CASE ListNext
    <2>1. CASE ListError(Lists[listed + 1])
      BY <2>1 DEF ListError, ClusterTypeOK, Report
    <2>2. CASE Walk(Lists[listed + 1])
      <3>1. Lists[listed + 1] \in KindNames
        BY <1>1, ListsFacts DEF ListNext, ClusterTypeOK
      <3> QED
        BY <2>2, <3>1, WalkEffect DEF WalkOf
    <2> QED
      BY <1>1, <2>1, <2>2 DEF ListNext
  <1>2. CASE RankAll
    BY <1>2, RankEffect
  <1>3. CASE ~ListNext /\ ~RankAll
    BY <1>3 DEF Next, Handler, Worker, Launch, Deep, Send, Release, Receive, ContextEnds,
                vars, deepVars
  <1> QED
    BY <1>1, <1>2, <1>3

LEMMA ResultsInit == Init => ResultsInv
  <1> SUFFICES ASSUME Init
               PROVE  ResultsInv
    OBVIOUS
  <1>1. Taken = {}
    BY DEF Init, Taken
  <1> QED
    BY <1>1, FS_EmptySet DEF Init, ResultsInv, WorkersInv, ChannelInv

\* Lemma: every step keeps each result in its one place.
LEMMA ResultsStep ==
  ASSUME ClusterTypeOK, ClusterTypeOK', ResultsInv, [Next]_vars
  PROVE  ResultsInv'
  <1> USE DEF ResultsInv
  <1>0. candidates' \subseteq Objects
    BY DEF ClusterTypeOK
  <1>1. CASE ListNext \/ RankAll
    <2>1. /\ pc \in {"list", "rank"}
          /\ UNCHANGED <<worker, result, ch, received, enriched>>
      BY <1>1, RankEffect DEF ListNext
    <2>2. \A o \in Objects : worker[o] = "none" /\ ~SentBy(o)
      BY <2>1 DEF WorkersInv, SentBy
    <2>3. ChannelInv'
      BY <1>0, <2>1, <2>2, ChannelKept DEF SentBy
    <2>4. pc' \in {"list", "rank"} => todo' = {}
      BY <1>1, RankEffect DEF ListNext, WorkersInv
    <2>5. WorkersInv'
      BY <2>1, <2>2, <2>4 DEF WorkersInv
    <2>6. rep'.cause = rep.cause
      BY <2>1, CauseKept DEF Enrich
    <2> QED
      BY <2>1, <2>3, <2>5, <2>6
  <1>2. CASE \E o \in Objects : Launch(o)
    <2>1. PICK o \in Objects : Launch(o)
      BY <1>2
    <2>2. /\ pc = "launch" /\ pc' = "launch" /\ o \in todo /\ todo' = todo \ {o}
          /\ worker' = [worker EXCEPT ![o] = "run"]
          /\ UNCHANGED <<candidates, result, ch, received, enriched, rep>>
      BY <2>1 DEF Launch
    <2>3. worker[o] = "none" /\ worker'[o] = "run" /\ o \in candidates
          /\ \A q \in Objects \ {o} : worker'[q] = worker[q]
      BY <2>2 DEF ClusterTypeOK, WorkersInv
    <2>4. ChannelInv'
      BY <1>0, <2>2, <2>3, ChannelKept DEF SentBy
    <2>5. WorkersInv'
      BY <2>2, <2>3 DEF WorkersInv
    <2> QED
      BY <2>2, <2>4, <2>5
  <1>3. CASE \E o \in Objects : Send(o)
    <2>1. PICK o \in Objects : Send(o)
      BY <1>3
    <2>2. /\ worker[o] = "send" /\ worker' = [worker EXCEPT ![o] = "release"]
          /\ UNCHANGED <<pc, candidates, todo, result, rep>>
      BY <2>1 DEF Send
    <2>3. worker'[o] = "release" /\ \A q \in Objects \ {o} : worker'[q] = worker[q]
      BY <2>2 DEF ClusterTypeOK
    <2>4. WorkersInv'
      BY <2>2, <2>3 DEF WorkersInv
    <2> QED
      BY <2>1, <2>2, <2>4, ChannelSend
  <1>4. CASE Receive
    <2>1. UNCHANGED <<pc, candidates, todo, worker, result, rep>>
      BY <1>4 DEF Receive
    <2>2. WorkersInv'
      BY <2>1 DEF WorkersInv
    <2> QED
      BY <1>4, <2>1, <2>2, ChannelReceive
  <1>5. CASE (\E o \in Objects : Deep(o) \/ Release(o)) \/ Enrich \/ ContextEnds
             \/ UNCHANGED vars
    <2>1. WorkersInv' /\ ChannelInv'
      BY <1>0, <1>5, QuietSteps, ChannelKept
    <2>2. pc' # "done" => pc # "done" /\ ~Enrich
      BY <1>5 DEF Deep, Release, Enrich, ContextEnds, vars, deepVars
    <2> QED
      BY <2>1, <2>2, CauseKept
  <1> QED
    BY <1>1, <1>2, <1>3, <1>4, <1>5 DEF Next, Handler, Worker

\* Each result is in one place: with the goroutine that made it, in the channel, or
\* taken; and the handler's count is the number of those it has taken, whatever the
\* order in which they came (cluster.go: for range candidates, res := <-ch).
THEOREM ResultsInvHolds == Spec => []ResultsInv
  <1>1. ClusterTypeOK /\ ClusterTypeOK' /\ ResultsInv /\ [Next]_vars => ResultsInv'
    BY ResultsStep
  <1> QED
    BY <1>1, ResultsInit, ClusterTypeCorrect, PTL DEF Spec
\* Lemma: when all results are in, each issue is given its own, and no other.
LEMMA EnrichEffect ==
  ASSUME ClusterTypeOK, ResultsInv, Enrich
  PROVE  /\ \A o \in candidates : SentBy(o) /\ result[o] \in enriched
         /\ \A o \in rep.critical :
              CauseOf(o) = IF o \in candidates /\ o.kind # "PersistentVolumeClaim"
                             THEN result[o].cat ELSE None
  <1> USE DEF ResultsInv
  <1>1. Taken = candidates
    <2>1. Taken \subseteq candidates /\ candidates \subseteq Objects
      BY DEF Taken, ClusterTypeOK
    <2>2. Cardinality(Taken) = Cardinality(candidates)
      BY DEF Enrich, ChannelInv
    <2> QED
      BY <2>1, <2>2, FiniteCards, FS_Subset
  <1>2. \A o \in candidates : SentBy(o) /\ result[o] \in enriched
    BY <1>1 DEF Taken
  <1>3. \A r \in enriched : r.obj \in Objects /\ r.obj \in candidates /\ r = result[r.obj]
    <2>1. \A r \in enriched : r.obj \in Objects
      BY DEF ClusterTypeOK, Result
    <2> QED
      BY <2>1 DEF ChannelInv, WorkersInv, SentBy
  <1>4. ASSUME NEW o \in rep.critical
        PROVE  CauseOf(o) = IF o \in candidates /\ o.kind # "PersistentVolumeClaim"
                              THEN result[o].cat ELSE None
    <2> DEFINE found == {r \in enriched : ResultKey(r.obj) = IssueKey(o)}
    <2>1. o \in Objects
      BY DEF ClusterTypeOK, Report
    <2>2. \A r \in found : r.obj = o /\ o.kind # "PersistentVolumeClaim" /\ r = result[o]
      BY <1>3, <2>1, KeysDistinct
    <2>3. CASE o \in candidates /\ o.kind # "PersistentVolumeClaim"
      <3>1. result[o] \in enriched /\ result[o].obj = o
        BY <1>2, <2>1, <2>3 DEF WorkersInv, SentBy
      <3>2. result[o] \in found
        BY <2>1, <2>3, <3>1, KeysDistinct
      <3>3. (CHOOSE r \in found : TRUE) \in found
        BY <3>2
      <3> QED
        BY <2>2, <2>3, <3>2, <3>3 DEF CauseOf
    <2>4. CASE ~(o \in candidates /\ o.kind # "PersistentVolumeClaim")
      <3>1. found = {}
        BY <1>3, <2>2, <2>4
      <3> QED
        BY <2>4, <3>1 DEF CauseOf
    <2> QED
      BY <2>3, <2>4
  <1> QED
    BY <1>2, <1>4

LEMMA DoneStep ==
  ASSUME ClusterTypeOK, InventoryInv, ResultsInv, DoneInv, [Next]_vars
  PROVE  DoneInv'
  <1>1. CASE RankAll
    <2>1. CASE pc' = "done"
      <3>1. candidates' = {} /\ rep'.cause = rep.cause
        BY <1>1, <2>1, RankEffect
      <3>2. \A o \in Objects : rep'.cause[o] = None
        BY <1>1, <3>1, RankEffect DEF ResultsInv
      <3> QED
        BY <3>1, <3>2 DEF DoneInv, EnrichedAsDiagnosed
    <2> QED
      BY <2>1 DEF DoneInv, Done
  <1>2. CASE Enrich
    <2>1. /\ UNCHANGED <<candidates, worker, result>>
          /\ rep' = [rep EXCEPT !.cause =
               [o \in Objects |-> IF o \in rep.critical THEN CauseOf(o) ELSE None]]
      BY <1>2 DEF Enrich, deepVars
    <2>2. /\ rep'.critical = rep.critical
          /\ rep'.cause = [o \in Objects |-> IF o \in rep.critical THEN CauseOf(o) ELSE None]
      BY <2>1 DEF ClusterTypeOK, Report
    <2> QED
      BY <1>2, <2>1, <2>2, EnrichEffect DEF DoneInv, EnrichedAsDiagnosed, SentBy
  <1>3. CASE pc = "done" /\ (ContextEnds \/ UNCHANGED vars \/ \E o \in Objects : Release(o))
    <2>1. UNCHANGED <<pc, rep, candidates, result>>
      BY <1>3 DEF ContextEnds, vars, deepVars, Release
    <2>2. \A o \in Objects : SentBy(o)' = SentBy(o)
      BY <1>3, QuietSteps DEF ResultsInv
    <2>3. candidates \subseteq Objects
      BY DEF ClusterTypeOK
    <2> QED
      BY <1>3, <2>1, <2>2, <2>3 DEF DoneInv, EnrichedAsDiagnosed, Done
  <1>4. CASE pc = "done" /\ \E o \in Objects : Deep(o) \/ Send(o)
    <2>1. PICK o \in Objects : worker[o] \in {"run", "send"}
      BY <1>4 DEF Deep, Send
    <2>2. o \in candidates /\ ~SentBy(o)
      BY <2>1 DEF ResultsInv, WorkersInv, SentBy
    <2> QED
      BY <1>4, <2>2 DEF DoneInv, Done
  <1>5. CASE pc # "done" /\ ~RankAll /\ ~Enrich
    <2>1. pc' # "done"
      BY <1>5 DEF Next, Handler, Worker, ListNext, Launch, Deep, Send, Release, Receive,
                  ContextEnds, vars, deepVars
    <2> QED
      BY <2>1 DEF DoneInv, Done
  <1>6. pc = "done" => ~ListNext /\ ~RankAll /\ ~Receive /\ ~Enrich
                       /\ ~\E o \in Objects : Launch(o)
    BY DEF ListNext, RankAll, Receive, Enrich, Launch
  <1> QED
    BY <1>1, <1>2, <1>3, <1>4, <1>5, <1>6 DEF Next, Handler, Worker

\* A critical issue has the category its own diagnosis found, whichever goroutine came
\* first and whichever context ended (cluster.go: the loops over ch and out.Critical).
THEOREM EnrichedAsDiagnosedHolds == Spec => []EnrichedAsDiagnosed
  <1>1. Init => DoneInv
    BY DEF Init, DoneInv, Done
  <1>2. ClusterTypeOK /\ InventoryInv /\ ResultsInv /\ DoneInv /\ [Next]_vars => DoneInv'
    BY DoneStep
  <1>3. DoneInv => EnrichedAsDiagnosed
    BY DEF DoneInv, EnrichedAsDiagnosed
  <1> QED
    BY <1>1, <1>2, <1>3, ClusterTypeCorrect, RankInvHolds, ResultsInvHolds, PTL DEF Spec
=============================================================================
