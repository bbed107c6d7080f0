------------------------ MODULE DiagnosisFanoutProofs ------------------------
(***************************************************************************)
(* Proofs about DiagnosisFanout, for every tree of tasks and every limit.  *)
(***************************************************************************)
EXTENDS DiagnosisFanoutProps, FiniteSetTheorems, TLAPS

USE FanoutAssumption

\* Lemma: get's return keeps the count of answers and the index of the next key
\* in step.
LEMMA GoOnTyped ==
  ASSUME FanoutTypeOK, NEW t \in Tasks, NEW a \in Answer, Pending(t), GoOnWith(t, a)
  PROVE  /\ next' \in [Tasks -> Nat \ {0}]
         /\ answer' \in [Tasks -> Answer \cup {None}]
         /\ got' \in [Tasks -> Seq(Nat)]
         /\ pc' = [pc EXCEPT ![t] = "read"]
         /\ next'[t] = Len(got'[t]) + 1 /\ next'[t] <= Len(Reads[t]) + 1
         /\ \A u \in Tasks \ {t} : /\ next'[u] = next[u] /\ got'[u] = got[u]
                                   /\ answer'[u] = answer[u]
  <1>1. a.version \in Nat
    BY DEF Answer
  <1>2. Append(got[t], a.version) \in Seq(Nat)
        /\ Len(Append(got[t], a.version)) = Len(got[t]) + 1
    BY <1>1 DEF FanoutTypeOK
  <1>3. next[t] \in Nat /\ Len(Reads[t]) \in Nat /\ next[t] = Len(got[t]) + 1
        /\ next[t] <= Len(Reads[t])
    BY DEF FanoutTypeOK, Pending
  <1>4. got' = [got EXCEPT ![t] = Append(got[t], a.version)]
        /\ next' = [next EXCEPT ![t] = next[t] + 1]
        /\ answer' = [answer EXCEPT ![t] = None]
        /\ pc' = [pc EXCEPT ![t] = "read"]
    BY DEF GoOnWith, Goto
  <1>5. got' \in [Tasks -> Seq(Nat)] /\ got'[t] = Append(got[t], a.version)
    BY <1>2, <1>4 DEF FanoutTypeOK
  <1>6. next' \in [Tasks -> Nat \ {0}] /\ next'[t] = next[t] + 1
    BY <1>3, <1>4 DEF FanoutTypeOK
  <1>7. answer' \in [Tasks -> Answer \cup {None}]
    BY <1>4 DEF FanoutTypeOK
  <1>8. \A u \in Tasks \ {t} : /\ next'[u] = next[u] /\ got'[u] = got[u]
                               /\ answer'[u] = answer[u]
    BY <1>4 DEF FanoutTypeOK
  <1> QED
    BY <1>2, <1>3, <1>4, <1>5, <1>6, <1>7, <1>8

\* Lemma: get's return keeps the types.
LEMMA GoOnTypeOK ==
  ASSUME FanoutTypeOK, NEW t \in Tasks, NEW a \in Answer, Pending(t), GoOnWith(t, a),
         cache' \in [Calls -> [Keys -> Answer \cup {None}]],
         UNCHANGED <<over, version, began>>
  PROVE  FanoutTypeOK'
  <1>1. /\ next' \in [Tasks -> Nat \ {0}]
        /\ answer' \in [Tasks -> Answer \cup {None}]
        /\ got' \in [Tasks -> Seq(Nat)]
        /\ pc' = [pc EXCEPT ![t] = "read"]
        /\ next'[t] = Len(got'[t]) + 1 /\ next'[t] <= Len(Reads[t]) + 1
        /\ \A u \in Tasks \ {t} : /\ next'[u] = next[u] /\ got'[u] = got[u]
                                  /\ answer'[u] = answer[u]
    BY GoOnTyped
  <1>2. pc' \in [Tasks -> Phases]
    BY <1>1 DEF FanoutTypeOK, Phases
  <1>3. ASSUME NEW u \in Tasks
        PROVE  /\ next'[u] = Len(got'[u]) + 1 /\ next'[u] <= Len(Reads[u]) + 1
               /\ pc'[u] \in {"load", "check", "store"} => next'[u] <= Len(Reads[u])
               /\ pc'[u] \in {"check", "store"} => answer'[u] \in Answer
    <2>1. CASE u = t
      BY <1>1, <2>1 DEF FanoutTypeOK
    <2>2. CASE u # t
      <3>1. pc'[u] = pc[u]
        BY <1>1, <2>2 DEF FanoutTypeOK
      <3> QED
        BY <1>1, <2>2, <3>1 DEF FanoutTypeOK, Pending
    <2> QED
      BY <2>1, <2>2
  <1> QED
    BY <1>1, <1>2, <1>3 DEF FanoutTypeOK, Pending

\* The type invariant holds initially and is preserved by each step.
LEMMA TypeInit == Init => FanoutTypeOK
  BY DEF Init, FanoutTypeOK, Phases, Pending

LEMMA TypeStep ==
  ASSUME FanoutTypeOK, [Next]_vars
  PROVE  FanoutTypeOK'
  <1> USE DEF Goto, At
  <1>1. ASSUME NEW r \in Calls, Diagnose(r)
        PROVE  FanoutTypeOK'
    BY <1>1 DEF FanoutTypeOK, Diagnose, Phases, Pending
  <1>2. ASSUME NEW r \in Calls, ContextEnds(r)
        PROVE  FanoutTypeOK'
    BY <1>2 DEF FanoutTypeOK, ContextEnds, taskVars, Pending
  <1>3. ASSUME NEW t \in Tasks, ListFails(t)
        PROVE  FanoutTypeOK'
    BY <1>3 DEF FanoutTypeOK, ListFails, Phases, Pending
  <1>4. ASSUME NEW t \in Tasks, Spawn(t)
        PROVE  FanoutTypeOK'
    <2>1. \A u \in Tasks : pc'[u] \in {pc[u], "wait", "list", "queued"}
      BY <1>4 DEF Spawn
    <2>2. pc' \in [Tasks -> Phases]
      BY <1>4, <2>1 DEF Spawn, FanoutTypeOK, Phases
    <2> QED
      BY <1>4, <2>1, <2>2 DEF FanoutTypeOK, Spawn, Pending
  <1>5. ASSUME NEW t \in Tasks, NEW u \in Tasks, Enter(u, t)
        PROVE  FanoutTypeOK'
    BY <1>5 DEF FanoutTypeOK, Enter, Phases, Pending
  <1>6. ASSUME NEW t \in Tasks, Skip(t)
        PROVE  FanoutTypeOK'
    BY <1>6 DEF FanoutTypeOK, Skip, Phases, Pending
  <1>7. ASSUME NEW t \in Tasks, Join(t)
        PROVE  FanoutTypeOK'
    BY <1>7 DEF FanoutTypeOK, Join, Phases, Pending
  <1>8. ASSUME NEW t \in Tasks, LookUp(t)
        PROVE  FanoutTypeOK'
    <2> DEFINE e == cache[CallOf[t]][Key(t)]
    <2>1. CASE e = None /\ Goto(t, "load") /\ UNCHANGED <<next, answer, got>>
      BY <1>8, <2>1 DEF FanoutTypeOK, LookUp, Phases, Pending
    <2>2. CASE e # None /\ GoOnWith(t, e)
      <3>1. Key(t) \in Keys
        BY <1>8 DEF FanoutTypeOK, LookUp, Key, Pending
      <3>2. e \in Answer
        BY <2>2, <3>1 DEF FanoutTypeOK
      <3> QED
        BY <1>8, <2>2, <3>2, GoOnTypeOK DEF FanoutTypeOK, LookUp
    <2> QED
      BY <1>8, <2>1, <2>2 DEF LookUp
  <1>9. ASSUME NEW t \in Tasks, Load(t)
        PROVE  FanoutTypeOK'
    <2>1. Key(t) \in Keys
      BY <1>9 DEF FanoutTypeOK, Load, Key, Pending
    <2>2. PICK a \in Answer : answer' = [answer EXCEPT ![t] = a]
      BY <1>9, <2>1 DEF Load, Answer, FanoutTypeOK
    <2>3. Pending(t)
      BY <1>9 DEF FanoutTypeOK, Load
    <2>4. \A u \in Tasks : u # t => pc'[u] = pc[u] /\ answer'[u] = answer[u]
      BY <1>9, <2>2 DEF FanoutTypeOK, Load
    <2>5. answer' \in [Tasks -> Answer \cup {None}] /\ answer'[t] \in Answer
      BY <2>2 DEF FanoutTypeOK
    <2>6. pc' \in [Tasks -> Phases]
      BY <1>9 DEF FanoutTypeOK, Load, Phases
    <2> QED
      BY <1>9, <2>3, <2>4, <2>5, <2>6 DEF FanoutTypeOK, Load, Pending
  <1>10. ASSUME NEW t \in Tasks, Check(t)
         PROVE  FanoutTypeOK'
    <2>1. answer[t] \in Answer /\ Pending(t)
      BY <1>10 DEF FanoutTypeOK, Check
    <2>2. CASE GoOnWith(t, answer[t])
      BY <1>10, <2>1, <2>2, GoOnTypeOK DEF FanoutTypeOK, Check
    <2>3. CASE Goto(t, "store") /\ UNCHANGED <<next, answer, got>>
      BY <1>10, <2>1, <2>3 DEF FanoutTypeOK, Check, Phases, Pending
    <2> QED
      BY <1>10, <2>2, <2>3 DEF Check
  <1>11. ASSUME NEW t \in Tasks, Store(t)
         PROVE  FanoutTypeOK'
    <2>1. answer[t] \in Answer /\ Pending(t) /\ Key(t) \in Keys
      BY <1>11 DEF FanoutTypeOK, Store, Key, Pending
    <2>2. cache' \in [Calls -> [Keys -> Answer \cup {None}]]
      BY <1>11, <2>1 DEF FanoutTypeOK, Store
    <2> QED
      BY <1>11, <2>1, <2>2, GoOnTypeOK DEF Store
  <1>12. ASSUME NEW t \in Tasks, Finish(t)
         PROVE  FanoutTypeOK'
    BY <1>12 DEF FanoutTypeOK, Finish, Phases, Pending
  <1>13. ASSUME NEW k \in Keys, Changes(k)
         PROVE  FanoutTypeOK'
    BY <1>13 DEF FanoutTypeOK, Changes, taskVars, Pending
  <1>14. CASE UNCHANGED vars
    BY <1>14 DEF FanoutTypeOK, vars, taskVars, Pending
  <1> QED
    BY <1>1, <1>2, <1>3, <1>4, <1>5, <1>6, <1>7, <1>8, <1>9, <1>10, <1>11,
       <1>12, <1>13, <1>14 DEF Next, Step

\* The state of a set of diagnoses is well typed, and each task reads on in step
\* with the answers it has (cache.go get, bounded.go runBounded).
THEOREM FanoutTypeCorrect == Spec => []FanoutTypeOK
  BY TypeInit, TypeStep, PTL DEF Spec

----------------------------------------------------------------------------
(* The fan-out.                                                            *)

\* What most steps are to the fan-out: a running task goes on, or ends; it
\* leaves the wait only when its children have ended.
Advances(t) ==
  /\ pc[t] \in Running
  /\ pc[t] = "wait" => \A c \in Children[t] : pc[c] \in Ended
  /\ \E q \in {"read", "load", "check", "store", "done"} : pc' = [pc EXCEPT ![t] = q]
  /\ over' = over

\* Lemma: the steps of a task that neither start, admit nor drop another.
LEMMA StepAdvances ==
  ASSUME NEW t \in Tasks,
         \/ ListFails(t) \/ Join(t) \/ LookUp(t) \/ Load(t) \/ Check(t)
         \/ Store(t) \/ Finish(t)
  PROVE  Advances(t)
  <1> USE DEF Advances, Running, Goto, At, GoOnWith
  <1>1. CASE ListFails(t)
    BY <1>1 DEF ListFails
  <1>2. CASE Join(t)
    BY <1>2 DEF Join
  <1>3. CASE LookUp(t)
    BY <1>3 DEF LookUp
  <1>4. CASE Load(t)
    BY <1>4 DEF Load
  <1>5. CASE Check(t)
    BY <1>5 DEF Check
  <1>6. CASE Store(t)
    BY <1>6 DEF Store
  <1>7. CASE Finish(t)
    BY <1>7 DEF Finish
  <1> QED
    BY <1>1, <1>2, <1>3, <1>4, <1>5, <1>6, <1>7

\* Lemma: the kinds of step there are, as the fan-out sees them.
LEMMA StepKinds ==
  ASSUME [Next]_vars
  PROVE  \/ \E t \in Tasks : Advances(t)
         \/ \E t \in Tasks : Spawn(t)
         \/ \E t, u \in Tasks : Enter(u, t)
         \/ \E t \in Tasks : Skip(t)
         \/ \E r \in Calls : Diagnose(r)
         \/ pc' = pc /\ over \subseteq over'
  <1>1. ASSUME NEW r \in Calls, ContextEnds(r)
        PROVE  pc' = pc /\ over \subseteq over'
    BY <1>1 DEF ContextEnds, taskVars
  <1>2. ASSUME NEW k \in Keys, Changes(k)
        PROVE  pc' = pc /\ over \subseteq over'
    BY <1>2 DEF Changes, taskVars
  <1>3. CASE UNCHANGED vars
    BY <1>3 DEF vars, taskVars
  <1> QED
    BY <1>1, <1>2, <1>3, StepAdvances DEF Next, Step

LEMMA JoinedStep ==
  ASSUME FanoutTypeOK, JoinedBeforeReading, [Next]_vars
  PROVE  JoinedBeforeReading'
  <1> USE DEF JoinedBeforeReading, Waiting, At, Goto
  <1>a. pc \in [Tasks -> Phases]
    BY DEF FanoutTypeOK
  <1>1. ASSUME NEW t \in Tasks, Advances(t)
        PROVE  JoinedBeforeReading'
    <2>1. PICK q \in {"read", "load", "check", "store", "done"} :
             pc' = [pc EXCEPT ![t] = q]
      BY <1>1 DEF Advances
    <2>2. pc'[t] = q /\ \A u \in Tasks \ {t} : pc'[u] = pc[u]
      BY <1>a, <2>1
    <2>3. ASSUME NEW u \in Tasks, NEW c \in Children[u]
          PROVE  /\ pc'[c] \in Running \cup {"queued"} => pc'[u] = "wait"
                 /\ pc'[c] = "skipped" => CallOf[c] \in over'
      <3>1. c \in Tasks
        OBVIOUS
      <3>2. pc[t] # "wait" \/ u # t \/ pc[c] \in Ended
        BY <1>1, <3>1 DEF Advances
      <3>3. pc'[c] \in Running \cup {"queued"} => pc[c] \in Running \cup {"queued"}
        BY <1>1, <2>2, <3>1 DEF Advances
      <3>4. pc'[c] = "skipped" => pc[c] = "skipped"
        BY <2>2, <3>1
      <3> QED
        BY <1>1, <2>2, <3>1, <3>2, <3>3, <3>4 DEF Advances, Running, Ended
    <2> QED
      BY <2>3
  <1>2. ASSUME NEW t \in Tasks, Spawn(t)
        PROVE  JoinedBeforeReading'
    <2>1. /\ pc[t] = "list" /\ pc'[t] = "wait" /\ over' = over
          /\ \A u \in Tasks \ {t} :
               /\ u \notin Children[t] => pc'[u] = pc[u]
               /\ u \in Children[t] => pc'[u] \in {"list", "queued"}
      BY <1>2, <1>a DEF Spawn
    <2>2. ASSUME NEW u \in Tasks, NEW c \in Children[u]
          PROVE  /\ pc'[c] \in Running \cup {"queued"} => pc'[u] = "wait"
                 /\ pc'[c] = "skipped" => CallOf[c] \in over'
      <3>1. c \in Tasks /\ pc[c] \in Phases
        BY <1>a
      <3>2. CASE u = t
        BY <2>1, <3>1, <3>2 DEF Running
      <3>3. CASE u # t
        <4>1. c \notin Children[t]
          BY <3>3
        <4>2. pc[u] = "wait" /\ u # t => u \notin Children[t]
          BY <2>1 DEF Running
        <4>3. CASE c = t
          BY <2>1, <3>1, <3>3, <4>2, <4>3 DEF Running
        <4>4. CASE c # t
          BY <2>1, <3>1, <3>3, <4>1, <4>2, <4>4 DEF Running
        <4> QED
          BY <4>3, <4>4
      <3> QED
        BY <3>2, <3>3
    <2> QED
      BY <2>2
  <1>3. ASSUME NEW t \in Tasks, NEW u \in Tasks, Enter(u, t)
        PROVE  JoinedBeforeReading'
    <2>1. /\ pc[u] = "wait" /\ t \in Children[u] /\ pc[t] = "queued"
          /\ pc' = [pc EXCEPT ![t] = "list"] /\ over' = over
      BY <1>3 DEF Enter
    <2>2. pc'[t] = "list" /\ \A v \in Tasks \ {t} : pc'[v] = pc[v]
      BY <1>a, <2>1
    <2>3. ASSUME NEW v \in Tasks, NEW c \in Children[v]
          PROVE  /\ pc'[c] \in Running \cup {"queued"} => pc'[v] = "wait"
                 /\ pc'[c] = "skipped" => CallOf[c] \in over'
      <3>1. c \in Tasks
        OBVIOUS
      <3>2. c = t => v = u
        BY <2>1
      <3> QED
        BY <2>1, <2>2, <3>1, <3>2
    <2> QED
      BY <2>3
  <1>4. ASSUME NEW t \in Tasks, Skip(t)
        PROVE  JoinedBeforeReading'
    <2>1. /\ pc[t] = "queued" /\ CallOf[t] \in over
          /\ pc' = [pc EXCEPT ![t] = "skipped"] /\ over' = over
      BY <1>4 DEF Skip
    <2>2. pc'[t] = "skipped" /\ \A v \in Tasks \ {t} : pc'[v] = pc[v]
      BY <1>a, <2>1
    <2> QED
      BY <2>1, <2>2 DEF Running
  <1>5. ASSUME NEW r \in Calls, Diagnose(r)
        PROVE  JoinedBeforeReading'
    <2>1. /\ pc[r] = "idle" /\ pc' = [pc EXCEPT ![r] = "list"] /\ over' = over
      BY <1>5 DEF Diagnose
    <2>2. pc'[r] = "list" /\ \A v \in Tasks \ {r} : pc'[v] = pc[v]
      BY <1>a, <2>1
    <2>3. \A v \in Tasks : r \notin Children[v]
      OBVIOUS
    <2> QED
      BY <2>1, <2>2, <2>3
  <1>6. CASE pc' = pc /\ over \subseteq over'
    BY <1>6
  <1> QED
    BY <1>1, <1>2, <1>3, <1>4, <1>5, <1>6, StepKinds

\* A task goes on from runBounded only when no goroutine it started is left, and
\* a child was left out only because the context was done.
THEOREM JoinedBeforeReadingHolds == Spec => []JoinedBeforeReading
  <1>1. Init => JoinedBeforeReading
    BY DEF Init, JoinedBeforeReading, Running
  <1>2. FanoutTypeOK /\ JoinedBeforeReading /\ [Next]_vars => JoinedBeforeReading'
    BY JoinedStep
  <1> QED
    BY <1>1, <1>2, FanoutTypeCorrect, PTL DEF Spec

\* Lemma: the slots of a fan-out are some of its children, and finitely many.
LEMMA SlotsFinite ==
  ASSUME NEW t \in Tasks
  PROVE  IsFiniteSet(Slots(t)) /\ Cardinality(Slots(t)) \in Nat
         /\ Cardinality(Slots(t)) <= Cardinality(Children[t])
  <1>1. Slots(t) \subseteq Children[t] /\ IsFiniteSet(Children[t])
    BY DEF Slots
  <1> QED
    BY <1>1, FS_Subset, FS_CardinalityType

\* Lemma: a fan-out that takes no new slot stays within its limit.
LEMMA SlotsShrink ==
  ASSUME SlotsBounded, NEW t \in Tasks, Slots(t)' \subseteq Slots(t)
  PROVE  Cardinality(Slots(t)') <= Limit
  <1>1. Cardinality(Slots(t)') <= Cardinality(Slots(t)) /\ Cardinality(Slots(t)') \in Nat
    BY SlotsFinite, FS_Subset, FS_CardinalityType
  <1> QED
    BY <1>1, SlotsFinite DEF SlotsBounded, Limit

LEMMA SlotsStep ==
  ASSUME FanoutTypeOK, SlotsBounded, [Next]_vars
  PROVE  SlotsBounded'
  <1> USE DEF At, Goto
  <1>a. pc \in [Tasks -> Phases]
    BY DEF FanoutTypeOK
  <1>b. Limit \in Nat /\ Limit >= 1
    BY DEF Limit
  <1>1. ASSUME NEW t \in Tasks, Advances(t)
        PROVE  SlotsBounded'
    <2>1. PICK q \in {"read", "load", "check", "store", "done"} :
             pc' = [pc EXCEPT ![t] = q]
      BY <1>1 DEF Advances
    <2>2. pc[t] \in Running /\ \A u \in Tasks \ {t} : pc'[u] = pc[u]
      BY <1>a, <1>1, <2>1 DEF Advances
    <2>3. \A u \in Tasks : Slots(u)' \subseteq Slots(u)
      BY <2>2 DEF Slots
    <2> QED
      BY <2>3, SlotsShrink DEF SlotsBounded
  <1>2. ASSUME NEW t \in Tasks, Spawn(t)
        PROVE  SlotsBounded'
    <2>1. /\ pc[t] = "list"
          /\ \A u \in Tasks \ {t} : u \notin Children[t] => pc'[u] = pc[u]
          /\ \A u \in Children[t] \ {t} :
               pc'[u] = IF Cardinality(Children[t]) = 1 THEN "list" ELSE "queued"
      BY <1>2, <1>a DEF Spawn
    <2>2. ASSUME NEW u \in Tasks, u # t
          PROVE  Cardinality(Slots(u)') <= Limit
      <3>1. Slots(u)' \subseteq Slots(u)
        BY <2>1, <2>2 DEF Slots, Running
      <3> QED
        BY <3>1, SlotsShrink
    <2>3. Cardinality(Slots(t)') <= Limit
      <3>1. Slots(t)' \subseteq Children[t]
        BY DEF Slots
      <3>2. CASE Cardinality(Children[t]) = 1
        <4>1. Cardinality(Slots(t)') <= Cardinality(Children[t])
              /\ Cardinality(Slots(t)') \in Nat
          BY <3>1, FS_Subset, FS_CardinalityType
        <4> QED
          BY <1>b, <3>2, <4>1
      <3>3. CASE Cardinality(Children[t]) # 1
        <4>1. Slots(t)' \subseteq {t}
          BY <2>1, <3>3 DEF Slots, Running
        <4>2. IsFiniteSet({t}) /\ Cardinality({t}) = 1
          BY FS_Singleton
        <4>3. Cardinality(Slots(t)') <= 1 /\ Cardinality(Slots(t)') \in Nat
          BY <4>1, <4>2, FS_Subset, FS_CardinalityType
        <4> QED
          BY <1>b, <4>3
      <3> QED
        BY <3>2, <3>3
    <2> QED
      BY <2>2, <2>3 DEF SlotsBounded
  <1>3. ASSUME NEW t \in Tasks, NEW u \in Tasks, Enter(u, t)
        PROVE  SlotsBounded'
    <2>1. /\ t \in Children[u] /\ pc[t] = "queued"
          /\ Cardinality(Slots(u)) < Limit
          /\ pc' = [pc EXCEPT ![t] = "list"]
      BY <1>3 DEF Enter
    <2>2. pc'[t] = "list" /\ \A v \in Tasks \ {t} : pc'[v] = pc[v]
      BY <1>a, <2>1
    <2>3. Slots(u)' = Slots(u) \cup {t} /\ t \notin Slots(u)
      BY <2>1, <2>2 DEF Slots, Running
    <2>4. Cardinality(Slots(u)') = Cardinality(Slots(u)) + 1
      BY <2>3, SlotsFinite, FS_AddElement
    <2>5. Cardinality(Slots(u)') <= Limit
      BY <1>b, <2>1, <2>4, SlotsFinite
    <2>6. ASSUME NEW v \in Tasks, v # u
          PROVE  Cardinality(Slots(v)') <= Limit
      <3>1. t \notin Children[v]
        BY <2>1, <2>6
      <3>2. Slots(v)' \subseteq Slots(v)
        BY <2>2, <3>1 DEF Slots
      <3> QED
        BY <3>2, SlotsShrink
    <2> QED
      BY <2>5, <2>6 DEF SlotsBounded
  <1>4. ASSUME NEW t \in Tasks, Skip(t)
        PROVE  SlotsBounded'
    <2>1. pc' = [pc EXCEPT ![t] = "skipped"]
      BY <1>4 DEF Skip
    <2>2. \A u \in Tasks : Slots(u)' \subseteq Slots(u)
      BY <1>a, <2>1 DEF Slots, Running
    <2> QED
      BY <2>2, SlotsShrink DEF SlotsBounded
  <1>5. ASSUME NEW r \in Calls, Diagnose(r)
        PROVE  SlotsBounded'
    <2>1. pc' = [pc EXCEPT ![r] = "list"]
      BY <1>5 DEF Diagnose
    <2>2. \A u \in Tasks : Slots(u)' \subseteq Slots(u)
      BY <1>a, <2>1 DEF Slots
    <2> QED
      BY <2>2, SlotsShrink DEF SlotsBounded
  <1>6. CASE pc' = pc /\ over \subseteq over'
    BY <1>6 DEF SlotsBounded, Slots
  <1> QED
    BY <1>1, <1>2, <1>3, <1>4, <1>5, <1>6, StepKinds

\* No fan-out has more children at work than MaxConcurrentK8s (eight if it is not
\* configured), for any tree of tasks.
THEOREM SlotsBoundedHolds == Spec => []SlotsBounded
  <1>1. Init => SlotsBounded
    <2> SUFFICES ASSUME Init, NEW t \in Tasks
                 PROVE  Cardinality(Slots(t)) <= Limit
      BY DEF SlotsBounded
    <2>1. Slots(t) = {}
      BY DEF Init, Slots, Running
    <2>2. Cardinality(Slots(t)) = 0
      BY <2>1, FS_EmptySet
    <2> QED
      BY <2>2 DEF Limit
  <1>2. FanoutTypeOK /\ SlotsBounded /\ [Next]_vars => SlotsBounded'
    BY SlotsStep
  <1> QED
    BY <1>1, <1>2, FanoutTypeCorrect, PTL DEF Spec

\* Lemma: a set of at most n elements can be numbered from 1 to n.
LEMMA Numbering ==
  ASSUME NEW S, IsFiniteSet(S), NEW n \in Nat, Cardinality(S) <= n
  PROVE  \E f \in [S -> 1 .. n] : \A x, y \in S : f[x] = f[y] => x = y
  <1>1. Cardinality(S) \in Nat /\ ExistsBijection(1 .. Cardinality(S), S)
    BY FS_CardinalityType
  <1>2. PICK g \in Bijection(1 .. Cardinality(S), S) : TRUE
    BY <1>1 DEF ExistsBijection
  <1>3. g \in [1 .. Cardinality(S) -> S] /\ \A x \in S : \E i \in 1 .. Cardinality(S) : g[i] = x
    BY <1>2 DEF Bijection, Injection, Surjection
  <1> DEFINE f == [x \in S |-> CHOOSE i \in 1 .. Cardinality(S) : g[i] = x]
  <1>4. \A x \in S : f[x] \in 1 .. Cardinality(S) /\ g[f[x]] = x
    BY <1>3
  <1>5. f \in [S -> 1 .. n]
    BY <1>1, <1>4
  <1>6. \A x, y \in S : f[x] = f[y] => x = y
    BY <1>4
  <1> QED
    BY <1>5, <1>6

\* Lemma: a child with a child at work is at work itself, in its wait.
LEMMA AtWorkUnderWork ==
  ASSUME JoinedBeforeReading, NEW t \in Tasks, NEW c \in Children[t], NEW d \in Slots(c)
  PROVE  c \in Slots(t)
  <1>1. c \in Tasks /\ d \in Children[c] /\ pc[d] \in Running
    BY DEF Slots
  <1>2. pc[c] = "wait"
    BY <1>1 DEF JoinedBeforeReading, Waiting, At
  <1> QED
    BY <1>2 DEF Slots, Running

\* Lemma: fan-outs within their limit, each waited for, keep to the product: each
\* grandchild at work has the slot of its parent and a slot of its own.
LEMMA ProductBound ==
  ASSUME SlotsBounded, JoinedBeforeReading, NEW t \in Tasks
  PROVE  Cardinality(Grandchildren(t)) <= Limit * Limit
  <1> DEFINE Number(u) == CHOOSE f \in [Slots(u) -> 1 .. Limit] :
                            \A x, y \in Slots(u) : f[x] = f[y] => x = y
             Parent(d) == CHOOSE c \in Children[t] : d \in Slots(c)
             G == Grandchildren(t)
             P == (1 .. Limit) \X (1 .. Limit)
             h == [d \in G |-> <<Number(t)[Parent(d)], Number(Parent(d))[d]>>]
  <1>1. Limit \in Nat
    BY DEF Limit
  <1>2. ASSUME NEW u \in Tasks
        PROVE  /\ Number(u) \in [Slots(u) -> 1 .. Limit]
               /\ \A x, y \in Slots(u) : Number(u)[x] = Number(u)[y] => x = y
    <2>1. IsFiniteSet(Slots(u)) /\ Cardinality(Slots(u)) <= Limit
      BY SlotsFinite DEF SlotsBounded
    <2>2. \E f \in [Slots(u) -> 1 .. Limit] : \A x, y \in Slots(u) : f[x] = f[y] => x = y
      BY <1>1, <2>1, Numbering
    <2> QED
      BY <2>2, Zenon
  <1>3. ASSUME NEW d \in G
        PROVE  Parent(d) \in Children[t] /\ d \in Slots(Parent(d)) /\ Parent(d) \in Slots(t)
    <2>1. \E c \in Children[t] : d \in Slots(c)
      BY <1>3 DEF Grandchildren
    <2>2. Parent(d) \in Children[t] /\ d \in Slots(Parent(d))
      BY <2>1, Zenon
    <2> HIDE DEF Parent
    <2> QED
      BY <2>2, AtWorkUnderWork
  <1> HIDE DEF Number, Parent
  <1>4. ASSUME NEW d \in G
        PROVE  Number(t)[Parent(d)] \in 1 .. Limit /\ Number(Parent(d))[d] \in 1 .. Limit
    <2>1. Parent(d) \in Tasks
      BY <1>3
    <2> QED
      BY <1>2, <1>3, <2>1
  <1>5. h \in [G -> P]
    BY <1>4
  <1>6. ASSUME NEW d \in G, NEW e \in G, h[d] = h[e]
        PROVE  d = e
    <2>1. Number(t)[Parent(d)] = Number(t)[Parent(e)] /\ Number(Parent(d))[d] = Number(Parent(e))[e]
      BY <1>6
    <2>2. Parent(d) = Parent(e)
      BY <1>2, <1>3, <2>1
    <2>3. Parent(d) \in Tasks /\ d \in Slots(Parent(d)) /\ e \in Slots(Parent(d))
      BY <1>3, <2>2
    <2> QED
      BY <1>2, <2>1, <2>2, <2>3
  <1>7. h \in Injection(G, P)
    <2>1. DOMAIN h = G
      OBVIOUS
    <2>2. IsInjective(h)
      BY <1>6, <2>1 DEF IsInjective
    <2> QED
      BY <1>5, <2>2 DEF Injection
  <1>8. IsFiniteSet(1 .. Limit) /\ Cardinality(1 .. Limit) = Limit
    BY <1>1, FS_Interval
  <1>9. IsFiniteSet(P) /\ Cardinality(P) = Limit * Limit
    BY <1>8, FS_Product
  <1> HIDE DEF h, G, P
  <1>10. Cardinality(G) <= Cardinality(P)
    BY <1>7, <1>9, FS_Injection
  <1> QED
    BY <1>9, <1>10 DEF G

\* However fan-outs nest, there are at most MaxConcurrentK8s children of a task at
\* work, and at most its square of theirs, for any tree of tasks and any limit
\* (bounded.go).
THEOREM FanoutsBoundedHolds == Spec => []FanoutsBounded
  <1>1. SlotsBounded /\ JoinedBeforeReading => FanoutsBounded
    BY ProductBound DEF FanoutsBounded
  <1> QED
    BY <1>1, SlotsBoundedHolds, JoinedBeforeReadingHolds, PTL

----------------------------------------------------------------------------
(* The cache.                                                              *)


\* Lemma: a task that a step leaves alone, in a call that has begun, holds what it
\* held.
LEMMA HeldKept ==
  ASSUME NEW t \in Tasks, HeldByTask(t),
         pc'[t] = pc[t], next'[t] = next[t], answer'[t] = answer[t], got'[t] = got[t],
         pc[CallOf[t]] # "idle" => pc'[CallOf[t]] # "idle",
         over \subseteq over', began'[CallOf[t]] = began[CallOf[t]]
  PROVE  HeldByTask(t)'
  BY DEF HeldByTask, Key

\* Lemma: so does one that holds nothing before the step and after.
LEMMA HeldNothing ==
  ASSUME NEW t \in Tasks, HeldByTask(t),
         pc'[t] \notin {"idle", "check", "store"}, pc'[CallOf[t]] # "idle"
  PROVE  HeldByTask(t)'
  BY DEF HeldByTask

\* Lemma: what a task goes on with, if it is of this call, keeps HeldInv.
LEMMA HeldGoOn ==
  ASSUME FanoutTypeOK, HeldInv, NEW t \in Tasks, NEW a \in Answer,
         Pending(t), pc[t] # "idle", GoOnWith(t, a),
         UNCHANGED <<over, began>>
  PROVE  \A u \in Tasks : HeldByTask(u)'
  <1>1. /\ pc' = [pc EXCEPT ![t] = "read"]
        /\ \A u \in Tasks \ {t} : /\ next'[u] = next[u] /\ got'[u] = got[u]
                                  /\ answer'[u] = answer[u]
    BY GoOnTyped
  <1>2. pc'[t] = "read" /\ \A u \in Tasks \ {t} : pc'[u] = pc[u]
    BY <1>1 DEF FanoutTypeOK
  <1>3. \A u \in Tasks : HeldByTask(u) /\ CallOf[u] \in Tasks
    BY DEF HeldInv
  <1>4. \A u \in Tasks : pc[CallOf[u]] # "idle" => pc'[CallOf[u]] # "idle"
    BY <1>2, <1>3
  <1>5. HeldByTask(t)'
    BY <1>2, <1>3, <1>4, HeldNothing DEF HeldByTask
  <1>6. ASSUME NEW u \in Tasks, u # t
        PROVE  HeldByTask(u)'
    BY <1>1, <1>2, <1>3, <1>4, <1>6, HeldKept
  <1> QED
    BY <1>5, <1>6

LEMMA HeldStep ==
  ASSUME FanoutTypeOK, HeldInv, [Next]_vars
  PROVE  HeldInv'
  <1> USE DEF At, Goto
  <1>a. pc \in [Tasks -> Phases] /\ \A t \in Tasks : CallOf[t] \in Calls /\ CallOf[t] \in Tasks
    BY DEF FanoutTypeOK
  <1>b. version \in [Keys -> Nat] /\ began \in [Calls -> [Keys -> Nat]]
        /\ cache \in [Calls -> [Keys -> Answer \cup {None}]]
        /\ answer \in [Tasks -> Answer \cup {None}]
    BY DEF FanoutTypeOK
  <1>c. (\A r \in Calls : HeldByCall(r)) /\ (\A t \in Tasks : HeldByTask(t))
    BY DEF HeldInv
  <1>d. UNCHANGED <<cache, version, began>> => \A r \in Calls : HeldByCall(r)'
    BY <1>c DEF HeldByCall
  \* A step of t that leaves its call, its answer and its cache alone.
  <1>e. ASSUME NEW t \in Tasks, pc[t] # "idle", pc'[t] \notin {"idle", "check", "store"},
               \A u \in Tasks \ {t} : pc'[u] = pc[u],
               UNCHANGED <<next, answer, got, cache, over, version, began>>
        PROVE  HeldInv'
    <2>1. \A u \in Tasks : pc[CallOf[u]] # "idle" => pc'[CallOf[u]] # "idle"
      BY <1>a, <1>e
    <2>2. HeldByTask(t)'
      BY <1>c, <1>e, <2>1, HeldNothing DEF HeldByTask
    <2>3. ASSUME NEW u \in Tasks, u # t
          PROVE  HeldByTask(u)'
      BY <1>c, <1>e, <2>1, <2>3, HeldKept
    <2> QED
      BY <1>d, <1>e, <2>2, <2>3 DEF HeldInv
  <1>1. ASSUME NEW r \in Calls, Diagnose(r)
        PROVE  HeldInv'
    <2>1. /\ pc[r] = "idle" /\ pc'[r] = "list" /\ \A u \in Tasks \ {r} : pc'[u] = pc[u]
          /\ UNCHANGED <<next, answer, got, over, version>>
      BY <1>1, <1>a DEF Diagnose
    <2>2. /\ began'[r] = version /\ \A k \in Keys : cache'[r][k] = None
          /\ \A q \in Calls \ {r} : began'[q] = began[q] /\ cache'[q] = cache[q]
      BY <1>1, <1>b DEF Diagnose
    <2>3. ASSUME NEW u \in Tasks
          PROVE  HeldByTask(u)'
      <3>1. CASE CallOf[u] = r
        <4>1. pc[u] = "idle"
          BY <1>c, <2>1, <3>1 DEF HeldByTask
        <4>2. got'[u] = <<>> /\ pc'[u] \in {"idle", "list"}
          BY <1>c, <2>1, <4>1 DEF HeldByTask
        <4> QED
          BY <2>1, <3>1, <4>2 DEF HeldByTask
      <3>2. CASE CallOf[u] # r
        <4>1. u # r
          BY <3>2
        <4> QED
          BY <1>a, <1>c, <2>1, <2>2, <3>2, <4>1, HeldKept
      <3> QED
        BY <3>1, <3>2
    <2>4. HeldByCall(r)'
      BY <1>b, <2>1, <2>2 DEF HeldByCall
    <2>5. ASSUME NEW q \in Calls, q # r
          PROVE  HeldByCall(q)'
      BY <1>c, <2>1, <2>2, <2>5 DEF HeldByCall
    <2> QED
      BY <2>3, <2>4, <2>5 DEF HeldInv
  <1>2. ASSUME NEW r \in Calls, ContextEnds(r)
        PROVE  HeldInv'
    <2>1. \A t \in Tasks : HeldByTask(t)'
      BY <1>2, <1>c, HeldKept DEF ContextEnds, taskVars
    <2> QED
      BY <1>2, <1>d, <2>1 DEF ContextEnds, HeldInv
  <1>3. ASSUME NEW t \in Tasks, ListFails(t) \/ Join(t) \/ Finish(t)
        PROVE  HeldInv'
    <2>1. /\ pc[t] # "idle" /\ pc'[t] \in {"read", "done"}
          /\ \A u \in Tasks \ {t} : pc'[u] = pc[u]
      BY <1>3, <1>a DEF ListFails, Join, Finish
    <2>2. UNCHANGED <<next, answer, got, cache, over, version, began>>
      BY <1>3 DEF ListFails, Join, Finish
    <2> QED
      BY <1>e, <2>1, <2>2
  <1>4. ASSUME NEW t \in Tasks, Spawn(t)
        PROVE  HeldInv'
    <2>1. /\ pc[t] = "list"
          /\ UNCHANGED <<next, answer, got, cache, over, version, began>>
          /\ \A u \in Tasks :
               \/ pc'[u] = pc[u]
               \/ pc'[u] \in {"wait", "list", "queued"} /\ CallOf[u] = CallOf[t]
      BY <1>4, <1>a DEF Spawn
    <2>2. \A u \in Tasks : pc[CallOf[u]] # "idle" => pc'[CallOf[u]] # "idle"
      BY <1>a, <2>1
    <2>3. pc'[CallOf[t]] # "idle"
      BY <1>c, <2>1, <2>2 DEF HeldByTask
    <2>4. ASSUME NEW u \in Tasks
          PROVE  HeldByTask(u)'
      <3>1. CASE pc'[u] = pc[u]
        BY <1>c, <2>1, <2>2, <3>1, HeldKept
      <3>2. CASE pc'[u] \in {"wait", "list", "queued"} /\ CallOf[u] = CallOf[t]
        BY <1>c, <2>3, <3>2, HeldNothing
      <3> QED
        BY <2>1, <3>1, <3>2
    <2> QED
      BY <1>d, <2>1, <2>4 DEF HeldInv
  <1>5. ASSUME NEW t \in Tasks, Skip(t) \/ \E u \in Tasks : Enter(u, t)
        PROVE  HeldInv'
    <2>1. /\ pc[t] = "queued" /\ pc'[t] \in {"list", "skipped"}
          /\ \A u \in Tasks \ {t} : pc'[u] = pc[u]
          /\ UNCHANGED <<next, answer, got, cache, over, version, began>>
      BY <1>5, <1>a DEF Skip, Enter
    <2> QED
      BY <1>e, <2>1
  <1>6. ASSUME NEW t \in Tasks, LookUp(t)
        PROVE  HeldInv'
    <2> DEFINE e == cache[CallOf[t]][Key(t)]
    <2>1. Key(t) \in Keys /\ Pending(t) /\ pc[t] = "read"
      BY <1>6 DEF FanoutTypeOK, LookUp, Key, Pending
    <2>2. UNCHANGED <<cache, over, version, began>>
      BY <1>6 DEF LookUp
    <2>3. CASE e = None /\ Goto(t, "load") /\ UNCHANGED <<next, answer, got>>
      <3>1. pc'[t] = "load" /\ \A u \in Tasks \ {t} : pc'[u] = pc[u]
        BY <1>a, <2>3
      <3> QED
        BY <1>e, <2>1, <2>2, <2>3, <3>1
    <2>4. CASE e # None /\ GoOnWith(t, e)
      <3>1. e \in Answer
        BY <1>a, <1>b, <2>1, <2>4
      <3>2. \A u \in Tasks : HeldByTask(u)'
        BY <2>1, <2>2, <2>4, <3>1, HeldGoOn
      <3> QED
        BY <1>d, <2>2, <3>2 DEF HeldInv
    <2> QED
      BY <1>6, <2>3, <2>4 DEF LookUp
  <1>7. ASSUME NEW t \in Tasks, Load(t)
        PROVE  HeldInv'
    <2>1. Key(t) \in Keys /\ pc[t] = "load"
      BY <1>7 DEF FanoutTypeOK, Load, Key, Pending
    <2>2. PICK kind \in Kinds :
            /\ kind = "cancelled" => CallOf[t] \in over
            /\ answer' = [answer EXCEPT ![t] = [kind |-> kind, version |-> version[Key(t)]]]
      BY <1>7 DEF Load
    <2>3. /\ answer'[t] = [kind |-> kind, version |-> version[Key(t)]]
          /\ \A u \in Tasks \ {t} : answer'[u] = answer[u]
      BY <1>b, <2>2
    <2>4. /\ pc'[t] = "check" /\ \A u \in Tasks \ {t} : pc'[u] = pc[u]
          /\ UNCHANGED <<next, got, cache, over, version, began>>
      BY <1>7, <1>a DEF Load
    <2>5. \A u \in Tasks : pc[CallOf[u]] # "idle" => pc'[CallOf[u]] # "idle"
      BY <1>a, <2>4
    <2>6. began[CallOf[t]][Key(t)] <= version[Key(t)]
      BY <1>a, <1>c, <2>1 DEF HeldByCall
    <2>7. Key(t)' = Key(t)
      BY <2>4 DEF Key
    <2>8. answer'[t].version >= began'[CallOf[t]][Key(t)']
      BY <1>a, <1>b, <2>1, <2>3, <2>4, <2>6, <2>7
    <2>9. HeldByTask(t)'
      BY <1>c, <2>1, <2>2, <2>3, <2>4, <2>5, <2>8 DEF HeldByTask
    <2>10. ASSUME NEW u \in Tasks, u # t
           PROVE  HeldByTask(u)'
      BY <1>c, <2>3, <2>4, <2>5, <2>10, HeldKept
    <2> QED
      BY <1>d, <2>4, <2>9, <2>10 DEF HeldInv
  <1>8. ASSUME NEW t \in Tasks, Check(t)
        PROVE  HeldInv'
    <2>1. answer[t] \in Answer /\ Pending(t) /\ pc[t] = "check"
      BY <1>8 DEF FanoutTypeOK, Check
    <2>2. UNCHANGED <<cache, over, version, began>>
      BY <1>8 DEF Check
    <2>3. CASE CallOf[t] \in over \/ answer[t].kind = "timeout"
      <3>1. GoOnWith(t, answer[t])
        BY <1>8, <2>3 DEF Check
      <3>2. \A u \in Tasks : HeldByTask(u)'
        BY <2>1, <2>2, <3>1, HeldGoOn
      <3> QED
        BY <1>d, <2>2, <3>2 DEF HeldInv
    <2>4. CASE ~(CallOf[t] \in over \/ answer[t].kind = "timeout")
      <3>1. /\ pc'[t] = "store" /\ \A u \in Tasks \ {t} : pc'[u] = pc[u]
            /\ UNCHANGED <<next, answer, got>>
        BY <1>8, <1>a, <2>4 DEF Check
      <3>2. answer[t].kind \in {"answered", "unreached"}
        BY <1>c, <2>1, <2>4 DEF HeldByTask, Answer, Kinds
      <3>3. \A u \in Tasks : pc[CallOf[u]] # "idle" => pc'[CallOf[u]] # "idle"
        BY <1>a, <3>1
      <3>4. HeldByTask(t)'
        BY <1>c, <2>1, <2>2, <3>1, <3>2, <3>3 DEF HeldByTask, Key
      <3>5. ASSUME NEW u \in Tasks, u # t
            PROVE  HeldByTask(u)'
        BY <1>c, <2>2, <3>1, <3>3, <3>5, HeldKept
      <3> QED
        BY <1>d, <2>2, <3>4, <3>5 DEF HeldInv
    <2> QED
      BY <2>3, <2>4
  <1>9. ASSUME NEW t \in Tasks, Store(t)
        PROVE  HeldInv'
    <2>1. answer[t] \in Answer /\ Pending(t) /\ Key(t) \in Keys /\ pc[t] = "store"
      BY <1>9 DEF FanoutTypeOK, Store, Key, Pending
    <2>2. answer[t].version >= began[CallOf[t]][Key(t)]
      BY <1>c, <2>1 DEF HeldByTask
    <2>3. /\ cache' = [cache EXCEPT ![CallOf[t]][Key(t)] = answer[t]]
          /\ GoOnWith(t, answer[t]) /\ UNCHANGED <<over, version, began>>
      BY <1>9 DEF Store
    <2>4. \A r \in Calls, k \in Keys :
            cache'[r][k] # None => cache'[r][k].version >= began[r][k]
      BY <1>b, <1>c, <2>1, <2>2, <2>3 DEF HeldByCall
    <2>5. \A u \in Tasks : HeldByTask(u)'
      BY <2>1, <2>3, HeldGoOn
    <2> QED
      BY <1>c, <2>3, <2>4, <2>5 DEF HeldInv, HeldByCall
  <1>10. ASSUME NEW k \in Keys, Changes(k)
         PROVE  HeldInv'
    <2>1. /\ \A j \in Keys : version'[j] \in Nat /\ version'[j] >= version[j]
          /\ UNCHANGED <<pc, next, answer, got, cache, over, began>>
      BY <1>10, <1>b DEF Changes, taskVars
    <2>2. \A r \in Calls, j \in Keys : began'[r][j] <= version'[j]
      BY <1>b, <1>c, <2>1 DEF HeldByCall
    <2>3. \A r \in Calls : HeldByCall(r)'
      BY <1>c, <2>1, <2>2 DEF HeldByCall
    <2>4. \A t \in Tasks : HeldByTask(t)'
      BY <1>c, <2>1, HeldKept
    <2> QED
      BY <2>3, <2>4 DEF HeldInv
  <1>11. CASE UNCHANGED vars
    <2>1. \A t \in Tasks : HeldByTask(t)'
      BY <1>11, <1>c, HeldKept DEF vars, taskVars
    <2> QED
      BY <1>11, <1>d, <2>1 DEF HeldInv, vars
  <1> QED
    BY <1>1, <1>2, <1>3, <1>4, <1>5, <1>6, <1>7, <1>8, <1>9, <1>10, <1>11
       DEF Next, Step

\* What a call keeps, and what its tasks hold between a request and the return
\* of get, is of the time of the call (cache.go get).
THEOREM HeldInvHolds == Spec => []HeldInv
  <1>1. Init => HeldInv
    BY DEF Init, HeldInv, HeldByCall, HeldByTask
  <1>2. FanoutTypeOK /\ HeldInv /\ [Next]_vars => HeldInv'
    BY HeldStep
  <1> QED
    BY <1>1, <1>2, FanoutTypeCorrect, PTL DEF Spec

----------------------------------------------------------------------------
(* What a call keeps, and what its tasks go on with.                       *)

\* Lemma: only the start of a call and a store write to a cache.
LEMMA CacheWriters ==
  ASSUME [Next]_vars
  PROVE  \/ \E r \in Calls : Diagnose(r)
         \/ \E t \in Tasks : Store(t)
         \/ UNCHANGED cache
  <1>1. ASSUME NEW t \in Tasks, Step(t), ~Store(t)
        PROVE  UNCHANGED cache
    BY <1>1 DEF Step, ListFails, Spawn, Join, Skip, Enter, LookUp, Load, Check, Finish
  <1> QED
    BY <1>1 DEF Next, ContextEnds, Changes, vars

LEMMA EndStep ==
  ASSUME FanoutTypeOK, HeldInv, EndNotKept, [Next]_vars
  PROVE  EndNotKept'
  <1>a. cache \in [Calls -> [Keys -> Answer \cup {None}]]
    BY DEF FanoutTypeOK
  <1>1. ASSUME NEW r \in Calls, Diagnose(r)
        PROVE  EndNotKept'
    BY <1>1, <1>a DEF Diagnose, EndNotKept
  <1>2. ASSUME NEW t \in Tasks, Store(t)
        PROVE  EndNotKept'
    <2>1. answer[t].kind \in {"answered", "unreached"}
      BY <1>2 DEF HeldInv, HeldByTask, Store, At
    <2>2. cache' = [cache EXCEPT ![CallOf[t]][Key(t)] = answer[t]]
      BY <1>2 DEF Store
    <2> QED
      BY <1>a, <2>1, <2>2 DEF EndNotKept
  <1>3. CASE UNCHANGED cache
    BY <1>3 DEF EndNotKept
  <1> QED
    BY <1>1, <1>2, <1>3, CacheWriters

\* Neither the error of a request whose call was over nor one that apierrors.IsTimeout
\* knows is kept as an answer (cache.go get: the context is looked at after the
\* request and before the store); the REST client's own timeout may be.
THEOREM EndNotKeptHolds == Spec => []EndNotKept
  <1>1. Init => EndNotKept
    BY DEF Init, EndNotKept
  <1>2. FanoutTypeOK /\ HeldInv /\ EndNotKept /\ [Next]_vars => EndNotKept'
    BY EndStep
  <1> QED
    BY <1>1, <1>2, FanoutTypeCorrect, HeldInvHolds, PTL DEF Spec

\* Lemma: a task that goes on with an answer of its call has only such answers.
LEMMA TimelyGoOn ==
  ASSUME FanoutTypeOK, AnswersOfThisCall, NEW t \in Tasks, NEW a \in Answer,
         GoOnWith(t, a), a.version >= began[CallOf[t]][Key(t)], UNCHANGED began
  PROVE  AnswersOfThisCall'
  <1>1. got \in [Tasks -> Seq(Nat)] /\ got' = [got EXCEPT ![t] = Append(got[t], a.version)]
    BY DEF FanoutTypeOK, GoOnWith
  <1>2. next[t] = Len(got[t]) + 1
    BY DEF FanoutTypeOK
  <1>3. a.version \in Nat
    BY DEF Answer
  <1>4. ASSUME NEW u \in Tasks, NEW i \in 1 .. Len(got'[u])
        PROVE  got'[u][i] >= began[CallOf[u]][Reads[u][i]]
    <2>1. CASE u # t
      BY <1>1, <1>4, <2>1 DEF AnswersOfThisCall
    <2>2. CASE u = t /\ i <= Len(got[t])
      <3>1. i \in 1 .. Len(got[t]) /\ got'[t][i] = got[t][i]
        BY <1>1, <1>3, <1>4, <2>2
      <3> QED
        BY <2>2, <3>1 DEF AnswersOfThisCall
    <2>3. CASE u = t /\ ~(i <= Len(got[t]))
      <3>1. got'[t] = Append(got[t], a.version) /\ got[t] \in Seq(Nat)
        BY <1>1
      <3>2. i = Len(got[t]) + 1 /\ got'[t][i] = a.version
        BY <1>3, <1>4, <2>3, <3>1
      <3> QED
        BY <1>2, <2>3, <3>2 DEF Key
    <2> QED
      BY <2>1, <2>2, <2>3
  <1> QED
    BY <1>4 DEF AnswersOfThisCall

LEMMA TimelyStep ==
  ASSUME FanoutTypeOK, HeldInv, AnswersOfThisCall, [Next]_vars
  PROVE  AnswersOfThisCall'
  <1> USE DEF At, Goto
  <1>a. UNCHANGED <<got, began>> => AnswersOfThisCall'
    BY DEF AnswersOfThisCall
  <1>1. ASSUME NEW r \in Calls, Diagnose(r)
        PROVE  AnswersOfThisCall'
    <2>1. /\ pc[r] = "idle" /\ got' = got
          /\ \A q \in Calls \ {r} : began'[q] = began[q]
      BY <1>1 DEF Diagnose, FanoutTypeOK
    <2>2. \A u \in Tasks : CallOf[u] = r => got[u] = <<>>
      BY <2>1 DEF HeldInv, HeldByTask
    <2> QED
      BY <2>1, <2>2 DEF AnswersOfThisCall
  <1>2. ASSUME NEW t \in Tasks, LookUp(t)
        PROVE  AnswersOfThisCall'
    <2> DEFINE e == cache[CallOf[t]][Key(t)]
    <2>1. Key(t) \in Keys
      BY <1>2 DEF FanoutTypeOK, LookUp, Key, Pending
    <2>2. CASE UNCHANGED got
      BY <1>2, <1>a, <2>2 DEF LookUp
    <2>3. CASE e # None /\ GoOnWith(t, e)
      <3>1. e \in Answer
        BY <2>1, <2>3 DEF FanoutTypeOK
      <3>2. e.version >= began[CallOf[t]][Key(t)]
        BY <2>1, <2>3 DEF HeldInv, HeldByCall
      <3> QED
        BY <1>2, <2>3, <3>1, <3>2, TimelyGoOn DEF LookUp
    <2> QED
      BY <1>2, <2>2, <2>3 DEF LookUp
  <1>3. ASSUME NEW t \in Tasks, Check(t) \/ Store(t)
        PROVE  AnswersOfThisCall'
    <2>1. /\ pc[t] \in {"check", "store"} /\ UNCHANGED began
          /\ UNCHANGED got \/ GoOnWith(t, answer[t])
      BY <1>3 DEF Check, Store
    <2>2. answer[t] \in Answer
      BY <2>1 DEF FanoutTypeOK
    <2>3. answer[t].version >= began[CallOf[t]][Key(t)]
      BY <2>1 DEF HeldInv, HeldByTask
    <2> QED
      BY <1>a, <2>1, <2>2, <2>3, TimelyGoOn
  <1>4. ASSUME NEW t \in Tasks, Step(t), ~LookUp(t), ~Check(t), ~Store(t)
        PROVE  AnswersOfThisCall'
    <2>1. UNCHANGED <<got, began>>
      BY <1>4 DEF Step, ListFails, Spawn, Join, Skip, Enter, Load, Finish
    <2> QED
      BY <1>a, <2>1
  <1>5. ASSUME UNCHANGED vars \/ (\E r \in Calls : ContextEnds(r)) \/ (\E k \in Keys : Changes(k))
        PROVE  AnswersOfThisCall'
    BY <1>5, <1>a DEF vars, taskVars, ContextEnds, Changes
  <1> QED
    BY <1>1, <1>2, <1>3, <1>4, <1>5 DEF Next

\* Whatever a task of a diagnosis goes on with was so at the API server after
\* the call began, however its tasks share the cache and replace each other's
\* entries (cache.go: "It never outlives a single Diagnose call").
THEOREM AnswersOfThisCallHolds == Spec => []AnswersOfThisCall
  <1>1. Init => AnswersOfThisCall
    BY DEF Init, AnswersOfThisCall
  <1>2. FanoutTypeOK /\ HeldInv /\ AnswersOfThisCall /\ [Next]_vars => AnswersOfThisCall'
    BY TimelyStep
  <1> QED
    BY <1>1, <1>2, FanoutTypeCorrect, HeldInvHolds, PTL DEF Spec
=============================================================================
