------------------------- MODULE ActionEngineProofs -------------------------
(***************************************************************************)
(* Proofs about ActionEngine, for every number of handlers, ids, objects   *)
(* and clusters.                                                           *)
(***************************************************************************)
EXTENDS ActionEngineProps, ConfirmationStoreProofs, FiniteSetTheorems

----------------------------------------------------------------------------
(* Types.                                                                  *)

\* An idle handler's locals have their types.
LEMMA IdleTyped ==
  ASSUME NEW s \in Statuses, NEW a \in BOOLEAN
  PROVE  Idle(s, a) \in Job
  BY DEF Idle, Job, Phases

\* What a busy handler works on: its call is one of the calls, its target is
\* an object of a cluster, and the plan it binds is a plan.
LEMMA TargetTyped ==
  ASSUME JobsTyped, NEW h \in Handlers, job[h].phase # "idle"
  PROVE  /\ job[h].call \in Calls /\ job[h].call \in Call
         /\ Target(h) \in Keys /\ Target(h)[1] \in Contexts
         /\ Target(h) = <<ClusterFor(job[h].call.ctx), job[h].call.obj>>
         /\ Act(h) \in Actions
         /\ WantOf(h) \in Plan
  <1>1. job[h].call \in Calls /\ job[h].call \in Call
    BY EngineAssumption DEF JobsTyped
  <1>2. ClusterFor(job[h].call.ctx) \in Contexts
    BY <1>1, EngineAssumption DEF ClusterFor, Call
  <1>3. Target(h) \in Keys /\ Target(h)[1] \in Contexts /\ Act(h) \in Actions
    BY <1>1, <1>2 DEF Target, Key, Keys, Act, Call
  <1>4. job[h].uid \in UIDs \cup {NoUID} /\ job[h].hpaSeen \in BOOLEAN
    BY DEF JobsTyped, Job
  <1> QED
    BY <1>1, <1>2, <1>3, <1>4 DEF WantOf, Plan, Target, Key, Act, Call

\* The engine reaches the store only through its methods.
LEMMA StoreStep ==
  ASSUME JobsTyped, [Next]_vars
  PROVE  [StoreNext]_storeVars
  <1>1. ASSUME NEW h \in Handlers, Offer(h)
        PROVE  StoreCall
    <2>1. WantOf(h) \in Requests
      BY <1>1, TargetTyped, EngineAssumption DEF Offer, At
    <2> QED
      BY <1>1, <2>1 DEF Offer, StoreCall
  <1>2. ASSUME NEW h \in Handlers, Redeem(h)
        PROVE  StoreCall
    <2>1. WantOf(h) \in Requests
      BY <1>2, TargetTyped, EngineAssumption DEF Redeem, At
    <2>2. job[h].token \in Tokens
      BY <1>2 DEF Redeem, JobsTyped, Job
    <2> QED
      BY <1>2, <2>1, <2>2 DEF Redeem, StoreCall
  <1>3. ASSUME NEW h \in Handlers, Serve(h)
        PROVE  StoreCall \/ UNCHANGED storeVars
    BY <1>1, <1>2, <1>3 DEF Serve, AskPermission, GetTarget, Preflight, Reread,
       Recheck, Mutate, MutateFails, AsksOnly
  <1>4. CASE ClientCalls
    BY <1>4 DEF ClientCalls, Begin, BeginRefused, AsksOnly
  <1>5. CASE ClusterMoves
    BY <1>5 DEF ClusterMoves, Move
  <1>6. CASE ClockTicks
    BY <1>6 DEF ClockTicks, StoreNext
  <1>7. CASE ServerRestarts
    BY <1>7 DEF ServerRestarts, StoreNext
  <1>8. CASE UNCHANGED vars
    BY <1>8 DEF vars
  <1> QED
    BY <1>3, <1>4, <1>5, <1>6, <1>7, <1>8 DEF Next, StoreNext

\* One handler's locals are replaced by locals that have their types.
LEMMA UpdateTyped ==
  ASSUME JobsTyped, NEW h \in Handlers, NEW new \in Job,
         job' = [job EXCEPT ![h] = new],
         new.phase # "idle" => new.call \in Calls,
         new.phase \in {"reread", "recheck", "mutate"} =>
            new.token \in Tokens /\ new.stored \in Plan
  PROVE  JobsTyped'
  BY DEF JobsTyped

\* An answer leaves the handler's locals typed.
LEMMA ReturnTyped ==
  ASSUME JobsTyped, NEW h \in Handlers, NEW s \in Statuses, Return(h, s)
  PROVE  JobsTyped'
  <1>1. Idle(s, job[h].applied) \in Job
    BY IdleTyped DEF JobsTyped, Job
  <1>2. job' = [job EXCEPT ![h] = Idle(s, job[h].applied)]
    BY DEF Return
  <1>3. Idle(s, job[h].applied).phase = "idle"
    BY DEF Idle
  <1> QED
    BY <1>1, <1>2, <1>3 DEF JobsTyped

\* So does the next request of a handler that is not idle.
LEMMA ProceedTyped ==
  ASSUME JobsTyped, NEW h \in Handlers, NEW p \in Phases, Proceed(h, p),
         job[h].phase # "idle",
         p \in {"reread", "recheck", "mutate"} =>
            job[h].phase \in {"reread", "recheck", "mutate"}
  PROVE  JobsTyped'
  BY DEF JobsTyped, Proceed, Job

\* Every step keeps the locals of the handlers in their types.
LEMMA JobsStep ==
  ASSUME EngineTypeOK, [Next]_vars
  PROVE  JobsTyped'
  <1> USE DEF EngineTypeOK
  <1>1. ASSUME NEW h \in Handlers, NEW call \in Calls, BeginRefused(h, call)
        PROVE  JobsTyped'
    <2>1. PICK s \in {"disabled", "error"} : job' = [job EXCEPT ![h] = Idle(s, FALSE)]
      BY <1>1 DEF BeginRefused
    <2>2. Idle(s, FALSE) \in Job /\ Idle(s, FALSE).phase = "idle"
      BY IdleTyped DEF Statuses, Idle
    <2> QED
      BY <2>1, <2>2 DEF JobsTyped
  <1>2. ASSUME NEW h \in Handlers, NEW call \in Calls,
               NEW id \in Tokens \cup {NoToken}, Begin(h, call, id)
        PROVE  JobsTyped'
    <2> DEFINE new == [Idle("none", FALSE) EXCEPT
                         !.phase = "ssar", !.call = call, !.token = id]
    <2>1. job' = [job EXCEPT ![h] = new]
      BY <1>2 DEF Begin
    <2>2. new \in Job /\ new.phase = "ssar" /\ new.call = call
      BY DEF Idle, Job, Phases, Statuses
    <2> HIDE DEF new
    <2> QED
      BY <2>1, <2>2 DEF JobsTyped
  <1>3. ASSUME NEW h \in Handlers, AskPermission(h)
        PROVE  JobsTyped'
    BY <1>3, ReturnTyped, ProceedTyped DEF AskPermission, At, Statuses, Phases
  <1>4. ASSUME NEW h \in Handlers, GetTarget(h)
        PROVE  JobsTyped'
    <2>1. CASE \E s \in {"error"} : Return(h, s)
      BY <2>1, ReturnTyped DEF Statuses
    <2>2. CASE ~ \E s \in {"error"} : Return(h, s)
      <3> DEFINE obj == objs[Target(h)]
      <3>1. /\ obj # Absent
            /\ job' = [job EXCEPT ![h].uid = obj.uid,
                 ![h].schedulable = IsSchedulable(obj),
                 ![h].phase = IF HasCheck(Act(h)) THEN "preflight" ELSE "confirm"]
        BY <1>4, <2>2 DEF GetTarget
      <3>2. obj \in Obj /\ job[h].phase = "get"
        BY <1>4, <3>1, TargetTyped DEF WorldTyped, GetTarget, At
      <3>3. obj.uid \in UIDs /\ IsSchedulable(obj) \in BOOLEAN
        BY <3>2 DEF Obj, IsSchedulable
      <3> DEFINE new == [job[h] EXCEPT !.uid = obj.uid,
            !.schedulable = IsSchedulable(obj),
            !.phase = IF HasCheck(Act(h)) THEN "preflight" ELSE "confirm"]
      <3>4. job' = [job EXCEPT ![h] = new]
        BY <3>1 DEF JobsTyped
      <3>5. job[h] \in Job /\ job[h].call \in Calls
        BY <3>2 DEF JobsTyped
      <3>6. /\ new \in Job /\ new.call = job[h].call
            /\ new.phase \in {"preflight", "confirm"}
        <4> HIDE DEF obj
        <4> QED
          BY <3>3, <3>5 DEF Job, Phases
      <3> HIDE DEF new
      <3> QED
        BY <3>4, <3>5, <3>6, UpdateTyped
    <2> QED
      BY <2>1, <2>2
  <1>5. ASSUME NEW h \in Handlers, Preflight(h)
        PROVE  JobsTyped'
    <2>1. ASSUME job' = [job EXCEPT ![h].phase = "confirm",
                   ![h].hpaSeen = OwnedByHPA(h)]
          PROVE  JobsTyped'
      <3> DEFINE new == [job[h] EXCEPT !.phase = "confirm",
                           !.hpaSeen = OwnedByHPA(h)]
      <3>1. job' = [job EXCEPT ![h] = new]
        BY <2>1 DEF JobsTyped
      <3>2. job[h] \in Job /\ job[h].call \in Calls
        BY <1>5 DEF JobsTyped, Preflight, At
      <3>3. new \in Job /\ new.call = job[h].call /\ new.phase = "confirm"
        BY <3>2 DEF Job, Phases, OwnedByHPA
      <3> HIDE DEF new
      <3> QED
        BY <3>1, <3>2, <3>3, UpdateTyped
    <2> QED
      BY <1>5, <2>1, ReturnTyped DEF Preflight, Statuses
  <1>6. ASSUME NEW h \in Handlers, Offer(h)
        PROVE  JobsTyped'
    BY <1>6, ReturnTyped DEF Offer, Statuses
  <1>7. ASSUME NEW h \in Handlers, Redeem(h)
        PROVE  JobsTyped'
    <2> DEFINE id == job[h].token
    <2>0. id \in Tokens
      BY <1>7 DEF Redeem, JobsTyped, Job
    <2>1. ASSUME TakeOK(id, WantOf(h)),
                 job' = [job EXCEPT ![h].phase = "reread", ![h].stored = items[id].plan]
          PROVE  JobsTyped'
      <3>1. items[id].plan \in Plan
        BY <2>0, <2>1, SweptKeepsLive DEF TakeOK, StoreTypeOK, Entry
      <3> DEFINE new == [job[h] EXCEPT !.phase = "reread", !.stored = items[id].plan]
      <3>2. job' = [job EXCEPT ![h] = new]
        BY <2>1 DEF JobsTyped
      <3>3. job[h] \in Job /\ job[h].call \in Calls
        BY <1>7 DEF JobsTyped, Redeem, At
      <3>4. /\ new \in Job /\ new.call = job[h].call
            /\ new.token = id /\ new.stored = items[id].plan
        BY <3>1, <3>3 DEF Job, Phases
      <3> HIDE DEF new
      <3> QED
        BY <2>0, <3>1, <3>2, <3>3, <3>4, UpdateTyped
    <2> QED
      BY <1>7, <2>1, ReturnTyped DEF Redeem, Statuses
  <1>8. ASSUME NEW h \in Handlers, Reread(h)
        PROVE  JobsTyped'
    <2>1. CASE \E s \in {"error", "confirmation_mismatch"} : Return(h, s)
      BY <2>1, ReturnTyped DEF Statuses
    <2>2. CASE ~ \E s \in {"error", "confirmation_mismatch"} : Return(h, s)
      <3> DEFINE obj == objs[Target(h)]
      <3>1. job' = [job EXCEPT ![h].schedulable = IsSchedulable(obj),
                 ![h].phase = IF HasCheck(Act(h)) THEN "recheck" ELSE "mutate"]
        BY <1>8, <2>2 DEF Reread
      <3>2. obj \in Obj /\ job[h].phase = "reread"
        BY <1>8, <2>2, TargetTyped DEF WorldTyped, Reread, At
      <3> DEFINE new == [job[h] EXCEPT !.schedulable = IsSchedulable(obj),
            !.phase = IF HasCheck(Act(h)) THEN "recheck" ELSE "mutate"]
      <3>3. job' = [job EXCEPT ![h] = new]
        BY <3>1 DEF JobsTyped
      <3>4. /\ job[h] \in Job /\ job[h].call \in Calls
            /\ job[h].token \in Tokens /\ job[h].stored \in Plan
        BY <3>2 DEF JobsTyped
      <3>5. IsSchedulable(obj) \in BOOLEAN
        BY <3>2 DEF Obj, IsSchedulable
      <3>6. /\ new \in Job /\ new.call = job[h].call
            /\ new.token = job[h].token /\ new.stored = job[h].stored
        <4> HIDE DEF obj
        <4> QED
          BY <3>4, <3>5 DEF Job, Phases
      <3> HIDE DEF new
      <3> QED
        BY <3>3, <3>4, <3>6, UpdateTyped
    <2> QED
      BY <2>1, <2>2
  <1>9. ASSUME NEW h \in Handlers, Recheck(h)
        PROVE  JobsTyped'
    BY <1>9, ReturnTyped, ProceedTyped DEF Recheck, At, Statuses, Phases
  <1>10. ASSUME NEW h \in Handlers, Mutate(h)
         PROVE  JobsTyped'
    <2>1. PICK s \in {"success", "error"} : job' = [job EXCEPT ![h] = Idle(s, TRUE)]
      BY <1>10 DEF Mutate
    <2>2. Idle(s, TRUE) \in Job /\ Idle(s, TRUE).phase = "idle"
      BY IdleTyped DEF Statuses, Idle
    <2> QED
      BY <2>1, <2>2 DEF JobsTyped
  <1>11. ASSUME NEW h \in Handlers, MutateFails(h)
         PROVE  JobsTyped'
    BY <1>11, ReturnTyped DEF MutateFails, Statuses
  <1>12. CASE ServerRestarts
    <2>1. Idle("none", FALSE) \in Job /\ Idle("none", FALSE).phase = "idle"
      BY IdleTyped DEF Statuses, Idle
    <2> QED
      BY <1>12, <2>1 DEF ServerRestarts, JobsTyped
  <1>13. CASE ClusterMoves \/ ClockTicks \/ UNCHANGED vars
    BY <1>13 DEF ClusterMoves, Move, ClockTicks, vars, engineVars, JobsTyped
  <1> QED
    BY <1>1, <1>2, <1>3, <1>4, <1>5, <1>6, <1>7, <1>8, <1>9, <1>10, <1>11,
       <1>12, <1>13 DEF Next, ClientCalls, Serve

\* Every step keeps the clusters in their types: a name is borne by at most
\* one more object for every change of the clusters.
LEMMA WorldStep ==
  ASSUME EngineTypeOK, [Next]_vars
  PROVE  WorldTyped'
  <1> USE DEF EngineTypeOK
  <1>1. ASSUME NEW h \in Handlers, Mutate(h)
        PROVE  WorldTyped'
    <2>1. /\ objs' = [objs EXCEPT ![Target(h)] = Changed(h)]
          /\ objs[Target(h)] \in Obj
          /\ UNCHANGED <<gen, hpa, pdb, denied, moves>>
      BY <1>1, TargetTyped DEF Mutate, At, WorldTyped
    <2>2. Changed(h) \in Obj \cup {Absent}
      BY <2>1 DEF Changed, Obj
    <2> QED
      BY <2>1, <2>2 DEF WorldTyped
  <1>2. ASSUME NEW k \in Keys, NEW p \in BOOLEAN, Recreate(k, p), Move
        PROVE  WorldTyped'
    <2>1. /\ objs' = [objs EXCEPT ![k] = Object(k, gen[k] + 1, p)]
          /\ gen' = [gen EXCEPT ![k] = gen[k] + 1]
          /\ moves < MaxMoves /\ moves' = moves + 1
          /\ UNCHANGED <<hpa, pdb, denied>>
      BY <1>2 DEF Recreate, Move, WorldTyped
    <2>2. gen[k] + 1 \in 1 .. MaxMoves + 1
      BY <2>1, EngineAssumption DEF WorldTyped
    <2>3. Object(k, gen[k] + 1, p) \in Obj
      BY <2>2, EngineAssumption DEF Object, UID, Obj
    <2> QED
      BY <2>1, <2>2, <2>3, EngineAssumption DEF WorldTyped
  <1>3. ASSUME NEW k \in Keys, Edit(k), Move
        PROVE  WorldTyped'
    <2>1. objs[k] \in Obj
      BY <1>3 DEF Edit, WorldTyped
    <2>2. PICK new \in Obj : objs' = [objs EXCEPT ![k] = new]
      BY <1>3, <2>1 DEF Edit, Obj
    <2> QED
      BY <1>3, <2>2, EngineAssumption DEF Edit, Move, WorldTyped
  <1>4. ASSUME NEW k \in Keys, Remove(k) \/ FlipHPA(k) \/ FlipPDB(k), Move
        PROVE  WorldTyped'
    <2>1. objs' \in [Keys -> Obj \cup {Absent}] /\ UNCHANGED <<gen, denied>>
      BY <1>4 DEF Remove, FlipHPA, FlipPDB, WorldTyped
    <2>2. hpa' \subseteq Keys /\ pdb' \subseteq Keys
      BY <1>4 DEF Remove, FlipHPA, FlipPDB, Flip, WorldTyped
    <2>3. moves' = moves + 1 /\ moves' \in 0 .. MaxMoves
      BY <1>4, EngineAssumption DEF Move, WorldTyped
    <2> QED
      BY <2>1, <2>2, <2>3 DEF WorldTyped
  <1>5. ASSUME NEW c \in Contexts, NEW a \in Actions, FlipPermission(c, a), Move
        PROVE  WorldTyped'
    BY <1>5, EngineAssumption DEF FlipPermission, Flip, Move, WorldTyped
  <1>6. CASE UNCHANGED <<worldVars, moves>>
    BY <1>6 DEF worldVars, WorldTyped
  <1>7. ASSUME NEW h \in Handlers, Serve(h)
        PROVE  WorldTyped'
    BY <1>1, <1>6, <1>7 DEF Serve, AskPermission, GetTarget, Preflight, Offer, Redeem,
       Reread, Recheck, MutateFails, AsksOnly
  <1>8. CASE ClientCalls
    BY <1>6, <1>8 DEF ClientCalls, Begin, BeginRefused, AsksOnly
  <1>9. CASE ClusterMoves
    BY <1>2, <1>3, <1>4, <1>5, <1>9 DEF ClusterMoves
  <1>10. CASE ClockTicks \/ ServerRestarts \/ UNCHANGED vars
    BY <1>6, <1>10 DEF ClockTicks, ServerRestarts, engineVars, vars
  <1> QED
    BY <1>7, <1>8, <1>9, <1>10 DEF Next

\* Every variable of the engine keeps its type.
THEOREM EngineTypeCorrect == Spec => []EngineTypeOK
  <1>1. EngineInit => EngineTypeOK
    <2> SUFFICES ASSUME EngineInit
                 PROVE  EngineTypeOK
      OBVIOUS
    <2>1. StoreTypeOK
      BY DEF EngineInit, StoreInit, StoreTypeOK
    <2>2. JobsTyped
      <3>1. Idle("none", FALSE) \in Job /\ Idle("none", FALSE).phase = "idle"
        BY IdleTyped DEF Statuses, Idle
      <3> QED
        BY <3>1 DEF EngineInit, JobsTyped
    <2>3. WorldTyped
      <3>1. \A k \in Keys : Object(k, 1, FALSE) \in Obj
        BY EngineAssumption DEF Object, UID, Obj
      <3>2. objs = [k \in Keys |-> Object(k, 1, FALSE)] /\ gen = [k \in Keys |-> 1]
        BY DEF EngineInit
      <3>3. objs \in [Keys -> Obj \cup {Absent}]
        BY <3>1, <3>2
      <3>4. hpa = {} /\ pdb = {} /\ denied = {} /\ moves = 0
        BY DEF EngineInit
      <3>5. moves \in 0 .. MaxMoves /\ \A k \in Keys : gen[k] <= moves + 1
        BY <3>2, <3>4, EngineAssumption
      <3>6. gen \in [Keys -> Nat \ {0}]
        BY <3>2
      <3> QED
        BY <3>3, <3>4, <3>5, <3>6 DEF WorldTyped
    <2> QED
      BY <2>1, <2>2, <2>3, EngineAssumption DEF EngineInit, EngineTypeOK
  <1>2. EngineTypeOK /\ [Next]_vars => EngineTypeOK'
    <2> SUFFICES ASSUME EngineTypeOK, [Next]_vars
                 PROVE  EngineTypeOK'
      OBVIOUS
    <2>1. StoreTypeOK'
      BY StoreStep, StoreTypeStep DEF EngineTypeOK
    <2>2. JobsTyped' /\ WorldTyped'
      BY JobsStep, WorldStep
    <2>3. enabled' \in BOOLEAN
      BY EngineAssumption DEF EngineTypeOK, Next, ClientCalls, Begin, BeginRefused,
         Serve, AskPermission, GetTarget, Preflight, Offer, Redeem, Reread, Recheck,
         Mutate, MutateFails, AsksOnly, ClusterMoves, Move, ClockTicks,
         ServerRestarts, engineVars, vars
    <2>4. changes' \in [Tokens -> Seq(Change)]
      <3>1. ASSUME NEW h \in Handlers, Mutate(h)
            PROVE  changes' \in [Tokens -> Seq(Change)]
        <4>1. /\ job[h].token \in Tokens /\ job[h].call \in Calls
              /\ objs[Target(h)] \in Obj
          BY <3>1, TargetTyped DEF EngineTypeOK, JobsTyped, WorldTyped, Mutate, At
        <4>2. [call |-> job[h].call, uid |-> objs[Target(h)].uid] \in Change
          BY <4>1 DEF Change, Obj
        <4> QED
          BY <3>1, <4>1, <4>2 DEF EngineTypeOK, Mutate
      <3> QED
        BY <3>1 DEF EngineTypeOK, Next, ClientCalls, Begin, BeginRefused,
           Serve, AskPermission, GetTarget, Preflight, Offer, Redeem, Reread, Recheck,
           MutateFails, AsksOnly, ClusterMoves, Move, ClockTicks, ServerRestarts,
           engineVars, vars
    <2>5. calm' \subseteq Handlers \X {"get", "reread"}
      <3>1. ASSUME NEW h \in Handlers, Serve(h)
            PROVE  calm' \subseteq calm \cup {<<h, "get">>, <<h, "reread">>}
        BY <3>1 DEF Serve, AskPermission, GetTarget, Preflight, Offer, Redeem, Reread,
           Recheck, Mutate, MutateFails, Return, Proceed
      <3>2. CASE ClientCalls
        BY <3>2 DEF ClientCalls, Begin, BeginRefused, EngineTypeOK
      <3>3. CASE ClusterMoves \/ ClockTicks \/ ServerRestarts \/ UNCHANGED vars
        BY <3>3 DEF ClusterMoves, Move, ClockTicks, ServerRestarts, engineVars, vars,
           EngineTypeOK
      <3> QED
        BY <3>1, <3>2, <3>3 DEF Next, EngineTypeOK
    <2> QED
      BY <2>1, <2>2, <2>3, <2>4, <2>5 DEF EngineTypeOK
  <1> QED
    BY <1>1, <1>2, PTL DEF Spec

\* The engine is a client of the store: whatever its handlers do, the store's
\* variables change only as the store's methods change them.
THEOREM UsesTheStoreHolds == Spec => UsesTheStore
  <1>1. EngineInit => StoreInit
    BY DEF EngineInit
  <1>2. EngineTypeOK /\ [Next]_vars => [StoreNext]_storeVars
    BY StoreStep DEF EngineTypeOK
  <1> QED
    BY <1>1, <1>2, EngineTypeCorrect, PTL DEF Spec, UsesTheStore, StoreSpec

\* So what holds of the store holds of it under any number of handlers: an id
\* is redeemed once, for what it was issued for, in time.
THEOREM EngineStoreInv == Spec => []StoreInv
  BY UsesTheStoreHolds, StoreInvHolds, PTL DEF UsesTheStore

----------------------------------------------------------------------------
(* A confirmation is one handler's, and what it writes was confirmed.      *)

\* The handlers that hold an id after the step held it before, for the same
\* call; and what was spent stays spent.
HoldersKept ==
  \A h \in Handlers, id \in Tokens :
    Holds(h, id)' => /\ Holds(h, id)
                     /\ job'[h].call = job[h].call /\ job'[h].stored = job[h].stored
SpentKept ==
  \A id \in Tokens :
    /\ uses'[id] = uses[id]
    /\ issued[id] # Absent => issued'[id] = issued[id]
    /\ issued[id] # Absent /\ items[id] = Absent => items'[id] = Absent

\* Every step of the store but a successful Take spends nothing.
LEMMA NothingSpent ==
  ASSUME StoreInv,
         \/ \E p \in Requests, id \in Tokens : Put(p, id)
         \/ PutFails \/ Tick \/ Restart \/ UNCHANGED storeVars
         \/ \E id \in Tokens : TakeMissing(id) \/ TakeExpired(id)
         \/ \E id \in Tokens, want \in Requests : TakeMismatch(id, want)
  PROVE  SpentKept
  <1> USE DEF StoreInv
  <1>s. /\ Swept(now) \in [Tokens -> Entry \cup {Absent}]
        /\ \A id \in Tokens : items[id] = Absent => Swept(now)[id] = Absent
    BY SweptKeepsLive DEF StoreTypeOK
  <1>1. ASSUME NEW p \in Requests, NEW id \in Tokens, Put(p, id)
        PROVE  SpentKept
    BY <1>1, <1>s DEF Put, SpentKept, StoreTypeOK
  <1>2. CASE PutFails \/ \E id \in Tokens : TakeMissing(id)
    BY <1>2, <1>s DEF PutFails, TakeMissing, SpentKept
  <1>3. CASE \E id \in Tokens : TakeExpired(id)
    BY <1>3, <1>s DEF TakeExpired, SpentKept
  <1>4. CASE \E id \in Tokens, want \in Requests : TakeMismatch(id, want)
    BY <1>4, <1>s DEF TakeMismatch, SpentKept
  <1>5. CASE Tick \/ Restart \/ UNCHANGED storeVars
    BY <1>5 DEF Tick, Restart, storeVars, SpentKept
  <1> QED
    BY <1>1, <1>2, <1>3, <1>4, <1>5

\* A step that neither claims an id nor writes leaves the claims as they were.
LEMMA QuietStep ==
  ASSUME ClaimInv, HoldersKept, SpentKept, UNCHANGED changes
  PROVE  ClaimInv'
  <1> USE DEF ClaimInv
  <1>1. HoldersGenuine'
    BY DEF HoldersGenuine, HoldersKept, SpentKept, DoesPlan
  <1>2. ClaimExclusive'
    BY DEF ClaimExclusive, HoldersGenuine, HoldersKept, SpentKept
  <1>3. WrittenWasSpent'
    BY DEF WrittenWasSpent, SpentKept
  <1>4. WritesAsConfirmed'
    BY DEF WritesAsConfirmed, SpentKept
  <1> QED
    BY <1>1, <1>2, <1>3, <1>4

\* An answer ends a claim; a next request keeps it.
LEMMA ReturnKeeps ==
  ASSUME JobsTyped, NEW h \in Handlers, NEW s, Return(h, s)
  PROVE  HoldersKept
  BY DEF JobsTyped, Return, Idle, HoldersKept, Holds
LEMMA ProceedKeeps ==
  ASSUME JobsTyped, NEW h \in Handlers, NEW p, Proceed(h, p),
         p \in {"reread", "recheck", "mutate"} =>
            job[h].phase \in {"reread", "recheck", "mutate"}
  PROVE  HoldersKept
  BY DEF JobsTyped, Job, Proceed, HoldersKept, Holds

\* Every step but a redemption and a write keeps the claims there are.
LEMMA QuietKeepsHolders ==
  ASSUME EngineTypeOK,
         \/ ClientCalls \/ ClusterMoves \/ ClockTicks \/ ServerRestarts
         \/ UNCHANGED vars
         \/ \E h \in Handlers :
              \/ AskPermission(h) \/ GetTarget(h) \/ Preflight(h) \/ Offer(h)
              \/ Reread(h) \/ Recheck(h) \/ MutateFails(h)
  PROVE  HoldersKept
  <1> USE DEF EngineTypeOK
  <1>1. CASE ClientCalls
    <2>1. PICK h \in Handlers, call \in Calls :
            BeginRefused(h, call) \/ \E id \in Tokens \cup {NoToken} : Begin(h, call, id)
      BY <1>1 DEF ClientCalls
    <2>2. \A s, a : Idle(s, a).phase = "idle"
      BY DEF Idle
    <2>3. job'[h].phase \in {"idle", "ssar"} /\ \A g \in Handlers \ {h} : job'[g] = job[g]
      <3>1. CASE BeginRefused(h, call)
        <4>1. PICK s \in {"disabled", "error"} : job' = [job EXCEPT ![h] = Idle(s, FALSE)]
          BY <3>1 DEF BeginRefused
        <4> QED
          BY <2>2, <4>1 DEF JobsTyped
      <3>2. ASSUME NEW id, Begin(h, call, id)
            PROVE  job'[h].phase = "ssar" /\ \A g \in Handlers \ {h} : job'[g] = job[g]
        BY <3>2 DEF Begin, JobsTyped, Idle
      <3> QED
        BY <2>1, <3>1, <3>2
    <2> QED
      BY <2>3 DEF HoldersKept, Holds
  <1>2. CASE ClusterMoves \/ ClockTicks \/ UNCHANGED vars
    BY <1>2 DEF ClusterMoves, Move, ClockTicks, engineVars, vars, HoldersKept, Holds
  <1>3. CASE ServerRestarts
    BY <1>3 DEF ServerRestarts, Idle, HoldersKept, Holds
  <1>4. ASSUME NEW h \in Handlers, AskPermission(h)
        PROVE  HoldersKept
    BY <1>4, ReturnKeeps, ProceedKeeps DEF AskPermission
  <1>5. ASSUME NEW h \in Handlers, GetTarget(h)
        PROVE  HoldersKept
    <2>1. CASE \E s : Return(h, s)
      BY <2>1, ReturnKeeps
    <2>2. CASE ~ \E s : Return(h, s)
      <3>1. job' = [job EXCEPT ![h].uid = objs[Target(h)].uid,
              ![h].schedulable = IsSchedulable(objs[Target(h)]),
              ![h].phase = IF HasCheck(Act(h)) THEN "preflight" ELSE "confirm"]
        BY <1>5, <2>2 DEF GetTarget
      <3>2. job'[h].phase \in {"preflight", "confirm"}
        BY <3>1 DEF JobsTyped, Job
      <3>3. \A g \in Handlers \ {h} : job'[g] = job[g]
        BY <3>1 DEF JobsTyped
      <3> QED
        BY <3>2, <3>3 DEF HoldersKept, Holds
    <2> QED
      BY <2>1, <2>2
  <1>6. ASSUME NEW h \in Handlers, Preflight(h)
        PROVE  HoldersKept
    <2>1. CASE \E s : Return(h, s)
      BY <2>1, ReturnKeeps
    <2>2. CASE ~ \E s : Return(h, s)
      <3>1. job' = [job EXCEPT ![h].phase = "confirm",
                   ![h].hpaSeen = OwnedByHPA(h)]
        BY <1>6, <2>2 DEF Preflight
      <3>2. job'[h].phase = "confirm"
        BY <3>1 DEF JobsTyped, Job
      <3>3. \A g \in Handlers \ {h} : job'[g] = job[g]
        BY <3>1 DEF JobsTyped
      <3> QED
        BY <3>2, <3>3 DEF HoldersKept, Holds
    <2> QED
      BY <2>1, <2>2
  <1>7. ASSUME NEW h \in Handlers, Offer(h)
        PROVE  HoldersKept
    BY <1>7, ReturnKeeps DEF Offer
  <1>8. ASSUME NEW h \in Handlers, Reread(h)
        PROVE  HoldersKept
    <2>1. CASE \E s : Return(h, s)
      BY <2>1, ReturnKeeps
    <2>2. CASE ~ \E s : Return(h, s)
      <3>1. job' = [job EXCEPT ![h].schedulable = IsSchedulable(objs[Target(h)]),
              ![h].phase = IF HasCheck(Act(h)) THEN "recheck" ELSE "mutate"]
        BY <1>8, <2>2 DEF Reread
      <3>2. /\ job'[h].token = job[h].token /\ job'[h].call = job[h].call
            /\ job'[h].stored = job[h].stored
        BY <3>1 DEF JobsTyped, Job
      <3>3. \A g \in Handlers \ {h} : job'[g] = job[g]
        BY <3>1 DEF JobsTyped
      <3>4. job[h].phase = "reread"
        BY <1>8 DEF Reread, At
      <3> QED
        BY <3>2, <3>3, <3>4 DEF HoldersKept, Holds
    <2> QED
      BY <2>1, <2>2
  <1>9. ASSUME NEW h \in Handlers, Recheck(h) \/ MutateFails(h)
        PROVE  HoldersKept
    BY <1>9, ReturnKeeps, ProceedKeeps DEF Recheck, MutateFails, At
  <1> QED
    BY <1>1, <1>2, <1>3, <1>4, <1>5, <1>6, <1>7, <1>8, <1>9

\* A redemption makes its handler the only holder of an id nothing was
\* written under.
LEMMA RedeemStep ==
  ASSUME EngineTypeOK, StoreInv, ClaimInv, NEW h \in Handlers, At(h, "confirm"),
         job[h].token \in Tokens, TakeOK(job[h].token, WantOf(h)),
         job' = [job EXCEPT ![h].phase = "reread",
                            ![h].stored = items[job[h].token].plan],
         UNCHANGED changes
  PROVE  ClaimInv'
  <1> USE DEF EngineTypeOK, StoreInv, ClaimInv
  <1>0. PICK id \in Tokens : id = job[h].token
    OBVIOUS
  <1>1. /\ items[id] # Absent /\ items'[id] = Absent
        /\ BindMatch(items[id].plan, WantOf(h))
        /\ uses' = [uses EXCEPT ![id] = @ + 1] /\ issued' = issued
        /\ \A j \in Tokens : items[j] = Absent => items'[j] = Absent
    BY <1>0, SweptKeepsLive DEF TakeOK, StoreTypeOK
  <1>2. uses[id] = 0 /\ issued[id] # Absent /\ issued[id].plan = items[id].plan
    <2>1. issued[id] = [plan |-> items[id].plan, expires |-> items[id].expires,
                        epoch |-> epoch]
      BY <1>1 DEF EntriesGenuine
    <2> QED
      BY <1>1, <2>1 DEF EntriesGenuine, StoreTypeOK, HistoryInv
  <1>3. uses'[id] = 1 /\ \A j \in Tokens \ {id} : uses'[j] = uses[j]
    BY <1>1, <1>2 DEF StoreTypeOK
  <1>4. changes[id] = <<>> /\ \A g \in Handlers : ~Holds(g, id)
    BY <1>2 DEF WrittenWasSpent, HoldersGenuine
  <1>5. /\ job'[h].token = id /\ job'[h].call = job[h].call
        /\ job'[h].stored = issued[id].plan
        /\ \A g \in Handlers \ {h} : job'[g] = job[g]
    BY <1>0, <1>2 DEF JobsTyped, Job
  <1>6. DoesPlan(issued[id].plan, job[h])
    BY <1>1, <1>2 DEF BindMatch, WantOf, DoesPlan, Act, Target, Key
  <1>a. ASSUME NEW g \in Handlers, NEW j \in Tokens, Holds(g, j)'
        PROVE  (g = h /\ j = id) \/ (g # h /\ j # id /\ Holds(g, j))
    BY <1>a, <1>4, <1>5 DEF Holds
  <1>7. HoldersGenuine'
    <2> SUFFICES ASSUME NEW g \in Handlers, NEW j \in Tokens, Holds(g, j)'
                 PROVE  /\ uses'[j] = 1 /\ issued'[j] # Absent
                        /\ job'[g].stored = issued'[j].plan
                        /\ DoesPlan(issued[j].plan, job[g])'
      BY DEF HoldersGenuine
    <2>1. CASE g = h /\ j = id
      <3>1. uses'[id] = 1 /\ issued'[id] # Absent /\ job'[h].stored = issued'[id].plan
        BY <1>1, <1>2, <1>3, <1>5
      <3>2. DoesPlan(issued[id].plan, job[h])'
        BY <1>1, <1>5, <1>6 DEF DoesPlan
      <3> QED
        BY <2>1, <3>1, <3>2
    <2>2. CASE g # h /\ j # id /\ Holds(g, j)
      <3>1. uses'[j] = uses[j] /\ issued' = issued /\ job'[g] = job[g]
        BY <1>1, <1>3, <1>5, <2>2
      <3>2. /\ uses[j] = 1 /\ issued[j] # Absent
            /\ job[g].stored = issued[j].plan /\ DoesPlan(issued[j].plan, job[g])
        BY <2>2 DEF HoldersGenuine
      <3> QED
        BY <3>1, <3>2 DEF DoesPlan
    <2> QED
      BY <1>a, <2>1, <2>2
  <1>8. ClaimExclusive'
    <2> SUFFICES ASSUME NEW g \in Handlers, NEW j \in Tokens, Holds(g, j)'
                 PROVE  /\ items'[j] = Absent /\ changes'[j] = <<>>
                        /\ \A f \in Handlers \ {g} : ~Holds(f, j)'
      BY DEF ClaimExclusive
    <2>1. CASE j = id
      BY <1>1, <1>4, <1>a, <2>1
    <2>2. CASE j # id
      <3>1. Holds(g, j) /\ \A f \in Handlers : Holds(f, j)' => Holds(f, j)
        BY <1>a, <2>2
      <3> QED
        BY <1>1, <3>1 DEF ClaimExclusive
    <2> QED
      BY <2>1, <2>2
  <1>9. WrittenWasSpent'
    BY <1>3, <1>4 DEF WrittenWasSpent
  <1>10. WritesAsConfirmed'
    BY <1>1 DEF WritesAsConfirmed
  <1> QED
    BY <1>7, <1>8, <1>9, <1>10

\* A write is the first under its id, and the one that was confirmed.
LEMMA MutateStep ==
  ASSUME EngineTypeOK, ClaimInv, NEW h \in Handlers, Mutate(h)
  PROVE  ClaimInv'
  <1> USE DEF EngineTypeOK, ClaimInv
  <1> DEFINE id == job[h].token
             change == [call |-> job[h].call, uid |-> objs[Target(h)].uid]
  <1>1. Holds(h, id) /\ id \in Tokens
    BY DEF Mutate, At, Holds, JobsTyped
  <1>2. /\ changes' = [changes EXCEPT ![id] = Append(changes[id], change)]
        /\ UNCHANGED storeVars
        /\ job'[h].phase = "idle"
        /\ \A g \in Handlers \ {h} : job'[g] = job[g]
    BY DEF Mutate, Idle, JobsTyped
  <1>3. changes[id] = <<>> /\ \A g \in Handlers \ {h} : ~Holds(g, id)
    BY <1>1 DEF ClaimExclusive
  <1>4. changes'[id] = <<change>> /\ \A j \in Tokens \ {id} : changes'[j] = changes[j]
    BY <1>1, <1>2, <1>3
  <1>5. /\ uses[id] = 1 /\ issued[id] # Absent
        /\ DoesPlan(issued[id].plan, change)
    <2>1. change.call = job[h].call
      OBVIOUS
    <2> QED
      BY <1>1, <2>1 DEF HoldersGenuine, DoesPlan
  <1>6. \A g \in Handlers, j \in Tokens :
          Holds(g, j)' => Holds(g, j) /\ g # h /\ j # id
    BY <1>2, <1>3 DEF Holds
  <1> HIDE DEF change
  <1>7. HoldersGenuine'
    BY <1>2, <1>6 DEF HoldersGenuine, storeVars, DoesPlan
  <1>8. ClaimExclusive'
    BY <1>2, <1>4, <1>6 DEF ClaimExclusive, storeVars
  <1>9. WrittenWasSpent'
    BY <1>2, <1>4, <1>5 DEF WrittenWasSpent, storeVars
  <1>10. WritesAsConfirmed'
    <2>1. Len(<<change>>) = 1 /\ <<change>>[1] = change
      OBVIOUS
    <2> QED
      BY <1>2, <1>4, <1>5, <2>1 DEF WritesAsConfirmed, storeVars
  <1> QED
    BY <1>7, <1>8, <1>9, <1>10

\* Every step preserves the claims' invariant.
LEMMA ClaimStep ==
  ASSUME EngineTypeOK, StoreInv, ClaimInv, [Next]_vars
  PROVE  ClaimInv'
  <1> USE DEF EngineTypeOK
  <1>1. CASE \/ ClientCalls \/ ClusterMoves \/ ClockTicks \/ ServerRestarts
             \/ UNCHANGED vars
    <2>1. UNCHANGED changes
      BY <1>1 DEF ClientCalls, Begin, BeginRefused, AsksOnly, ClusterMoves, Move,
         ClockTicks, ServerRestarts, engineVars, vars
    <2>2. UNCHANGED storeVars \/ Tick \/ Restart
      BY <1>1 DEF ClientCalls, Begin, BeginRefused, AsksOnly, ClusterMoves, Move,
         ClockTicks, ServerRestarts, vars
    <2> QED
      BY <1>1, <2>1, <2>2, QuietKeepsHolders, NothingSpent, QuietStep
  <1>2. ASSUME NEW h \in Handlers,
               \/ AskPermission(h) \/ GetTarget(h) \/ Preflight(h)
               \/ Reread(h) \/ Recheck(h) \/ MutateFails(h)
        PROVE  ClaimInv'
    <2>1. UNCHANGED storeVars /\ UNCHANGED changes
      BY <1>2 DEF AskPermission, GetTarget, Preflight, Reread, Recheck,
         MutateFails, AsksOnly
    <2> QED
      BY <1>2, <2>1, QuietKeepsHolders, NothingSpent, QuietStep
  <1>3. ASSUME NEW h \in Handlers, Offer(h)
        PROVE  ClaimInv'
    <2>1. WantOf(h) \in Requests
      BY <1>3, TargetTyped, EngineAssumption DEF Offer, At
    <2>2. UNCHANGED changes
      BY <1>3 DEF Offer
    <2>3. PutFails \/ \E id \in Tokens : Put(WantOf(h), id)
      BY <1>3 DEF Offer
    <2> QED
      BY <1>3, <2>1, <2>2, <2>3, QuietKeepsHolders, NothingSpent, QuietStep
  <1>4. ASSUME NEW h \in Handlers, Redeem(h)
        PROVE  ClaimInv'
    <2> DEFINE id == job[h].token
    <2>1. id \in Tokens /\ WantOf(h) \in Requests /\ UNCHANGED changes /\ At(h, "confirm")
      BY <1>4, TargetTyped, EngineAssumption DEF Redeem, At, JobsTyped, Job
    <2>2. ASSUME NEW s, Return(h, s),
                 TakeMissing(id) \/ TakeExpired(id) \/ TakeMismatch(id, WantOf(h))
          PROVE  ClaimInv'
      <3>1. SpentKept
        BY <2>1, <2>2, NothingSpent
      <3> QED
        BY <2>1, <2>2, <3>1, ReturnKeeps, QuietStep
    <2>3. ASSUME TakeOK(id, WantOf(h)),
                 job' = [job EXCEPT ![h].phase = "reread", ![h].stored = items[id].plan]
          PROVE  ClaimInv'
      BY <2>1, <2>3, RedeemStep
    <2> QED
      BY <1>4, <2>2, <2>3 DEF Redeem
  <1>5. ASSUME NEW h \in Handlers, Mutate(h)
        PROVE  ClaimInv'
    BY <1>5, MutateStep
  <1> QED
    BY <1>1, <1>2, <1>3, <1>4, <1>5 DEF Next, Serve

\* In every behaviour, ids are claimed as the inductive invariant says.
THEOREM ClaimInvHolds == Spec => []ClaimInv
  <1>1. EngineInit => ClaimInv
    BY DEF EngineInit, StoreInit, Idle, ClaimInv, ClaimExclusive, HoldersGenuine,
       WrittenWasSpent, WritesAsConfirmed, Holds
  <1>2. EngineTypeOK /\ StoreInv /\ ClaimInv /\ [Next]_vars => ClaimInv'
    BY ClaimStep
  <1> QED
    BY <1>1, <1>2, EngineTypeCorrect, EngineStoreInv, PTL DEF Spec

\* A confirmation that was redeemed is in the hands of one handler.
THEOREM ClaimExclusiveHolds == Spec => []ClaimExclusive
  BY ClaimInvHolds, PTL DEF ClaimInv

\* Every write is one that was offered under its id, and the only one.
THEOREM WritesAsConfirmedHolds == Spec => []WritesAsConfirmed
  BY ClaimInvHolds, PTL DEF ClaimInv

----------------------------------------------------------------------------
(* What a write finds when no cluster changed after the last read.         *)

\* A handler that did not move finds what it had seen, if nothing changed.
LEMMA CalmKept ==
  ASSUME NEW h \in Handlers, CalmFor(h), job'[h] = job[h], UNCHANGED worldVars,
         \A p : <<h, p>> \in calm' => <<h, p>> \in calm
  PROVE  CalmFor(h)'
  <1>1. /\ Target(h)' = Target(h) /\ Act(h)' = Act(h) /\ PDBBlocks(h)' = PDBBlocks(h)
        /\ NewHPA(h)' = NewHPA(h) /\ LastNode(h)' = LastNode(h)
    BY DEF Target, Act, PDBBlocks, NewHPA, OwnedByHPA, LastNode, worldVars, SchedulableReady
  <1> QED
    BY <1>1 DEF CalmFor, worldVars

\* Lemma for the handler that moves: it has seen nothing before its first read,
\* and forgets everything when it returns.
LEMMA CalmReturn ==
  ASSUME NEW h \in Handlers, NEW s, Return(h, s)
  PROVE  CalmFor(h)' /\ \A g \in Handlers : \A p : <<g, p>> \in calm' => <<g, p>> \in calm
  BY DEF Return, CalmOf, CalmFor

\* One handler moves and no cluster changes: the others are as they were.
LEMMA CalmOthers ==
  ASSUME JobsTyped, CalmInv, NEW h \in Handlers, CalmFor(h)', UNCHANGED worldVars,
         \A g \in Handlers \ {h} : job'[g] = job[g],
         \A g \in Handlers \ {h} : \A p : <<g, p>> \in calm' => <<g, p>> \in calm
  PROVE  CalmInv'
  BY CalmKept DEF CalmInv

\* Every step preserves what the handlers have seen.
LEMMA CalmStep ==
  ASSUME EngineTypeOK, CalmInv, [Next]_vars
  PROVE  CalmInv'
  <1> USE DEF EngineTypeOK
  <1>1. ASSUME NEW h \in Handlers, NEW s, Return(h, s), UNCHANGED worldVars
        PROVE  CalmInv'
    <2>1. \A g \in Handlers \ {h} : job'[g] = job[g]
      BY <1>1 DEF Return, JobsTyped
    <2> QED
      BY <1>1, <2>1, CalmReturn, CalmOthers
  <1>2. ASSUME NEW h \in Handlers, AskPermission(h)
        PROVE  CalmInv'
    <2>1. UNCHANGED worldVars
      BY <1>2 DEF AskPermission, AsksOnly
    <2>2. ASSUME Proceed(h, "get")
          PROVE  CalmInv'
      <3>1. \A g \in Handlers \ {h} : job'[g] = job[g]
        BY <2>2 DEF Proceed, JobsTyped
      <3>2. calm' = calm /\ <<h, "get">> \notin calm /\ <<h, "reread">> \notin calm
        BY <1>2, <2>2 DEF Proceed, AskPermission, At, CalmInv, CalmFor
      <3> QED
        BY <2>1, <3>1, <3>2, CalmOthers DEF CalmFor
    <2> QED
      BY <1>1, <1>2, <2>1, <2>2 DEF AskPermission
  <1>3. ASSUME NEW h \in Handlers, GetTarget(h)
        PROVE  CalmInv'
    <2>1. UNCHANGED worldVars
      BY <1>3 DEF GetTarget, AsksOnly
    <2>2. CASE \E s : Return(h, s)
      BY <1>1, <2>1, <2>2
    <2>3. CASE ~ \E s : Return(h, s)
      <3>1. /\ job' = [job EXCEPT ![h].uid = objs[Target(h)].uid,
                 ![h].schedulable = IsSchedulable(objs[Target(h)]),
                 ![h].phase = IF HasCheck(Act(h)) THEN "preflight" ELSE "confirm"]
            /\ calm' = calm \cup {<<h, "get">>}
            /\ ~(Act(h) = "delete_pod" /\ objs[Target(h)].protected)
            /\ job[h].phase = "get"
        BY <1>3, <2>3 DEF GetTarget, At
      <3>2. /\ job'[h].phase \in {"preflight", "confirm"} /\ job'[h].call = job[h].call
            /\ \A g \in Handlers \ {h} : job'[g] = job[g]
        BY <3>1 DEF JobsTyped, Job
      <3>3. Target(h)' = Target(h) /\ Act(h)' = Act(h)
        BY <3>2 DEF Target, Act
      <3>4. <<h, "reread">> \notin calm
        BY <3>1 DEF CalmInv, CalmFor
      <3>5. CalmFor(h)'
        BY <2>1, <3>1, <3>2, <3>3, <3>4 DEF CalmFor, worldVars
      <3> QED
        BY <2>1, <3>1, <3>2, <3>5, CalmOthers
    <2> QED
      BY <2>2, <2>3
  <1>4. ASSUME NEW h \in Handlers, Preflight(h)
        PROVE  CalmInv'
    <2>1. UNCHANGED worldVars
      BY <1>4 DEF Preflight, AsksOnly
    <2>2. CASE \E s : Return(h, s)
      BY <1>1, <2>1, <2>2
    <2>3. CASE ~ \E s : Return(h, s)
      <3>1. /\ job' = [job EXCEPT ![h].phase = "confirm",
                 ![h].hpaSeen = OwnedByHPA(h)]
            /\ calm' = calm /\ job[h].phase = "preflight"
        BY <1>4, <2>3 DEF Preflight, At
      <3>2. /\ job'[h].phase = "confirm" /\ job'[h].call = job[h].call
            /\ \A g \in Handlers \ {h} : job'[g] = job[g]
        BY <3>1 DEF JobsTyped, Job
      <3>3. Target(h)' = Target(h) /\ Act(h)' = Act(h)
        BY <3>2 DEF Target, Act
      <3>4. <<h, "reread">> \notin calm
        BY <3>1 DEF CalmInv, CalmFor
      <3>5. CalmFor(h)'
        BY <2>1, <3>1, <3>2, <3>3, <3>4 DEF CalmInv, CalmFor, worldVars
      <3> QED
        BY <2>1, <3>1, <3>2, <3>5, CalmOthers
    <2> QED
      BY <2>2, <2>3
  <1>5. ASSUME NEW h \in Handlers, Offer(h)
        PROVE  CalmInv'
    BY <1>1, <1>5 DEF Offer, worldVars
  <1>6. ASSUME NEW h \in Handlers, Redeem(h)
        PROVE  CalmInv'
    <2>1. UNCHANGED worldVars
      BY <1>6 DEF Redeem
    <2>2. CASE \E s : Return(h, s)
      BY <1>1, <2>1, <2>2
    <2>3. CASE ~ \E s : Return(h, s)
      <3>1. /\ job' = [job EXCEPT ![h].phase = "reread",
                 ![h].stored = items[job[h].token].plan]
            /\ calm' = calm /\ job[h].phase = "confirm"
        BY <1>6, <2>3 DEF Redeem, At
      <3>2. /\ job'[h].phase = "reread" /\ job'[h].call = job[h].call
            /\ \A g \in Handlers \ {h} : job'[g] = job[g]
        BY <3>1 DEF JobsTyped, Job
      <3>3. Target(h)' = Target(h) /\ Act(h)' = Act(h)
        BY <3>2 DEF Target, Act
      <3>4. <<h, "reread">> \notin calm
        BY <3>1 DEF CalmInv, CalmFor
      <3>5. CalmFor(h)'
        BY <2>1, <3>1, <3>2, <3>3, <3>4 DEF CalmInv, CalmFor, worldVars
      <3> QED
        BY <2>1, <3>1, <3>2, <3>5, CalmOthers
    <2> QED
      BY <2>2, <2>3
  <1>7. ASSUME NEW h \in Handlers, Reread(h)
        PROVE  CalmInv'
    <2>1. UNCHANGED worldVars
      BY <1>7 DEF Reread, AsksOnly
    <2>2. CASE \E s : Return(h, s)
      BY <1>1, <2>1, <2>2
    <2>3. CASE ~ \E s : Return(h, s)
      <3>1. /\ job' = [job EXCEPT ![h].schedulable = IsSchedulable(objs[Target(h)]),
                 ![h].phase = IF HasCheck(Act(h)) THEN "recheck" ELSE "mutate"]
            /\ calm' = calm \cup {<<h, "reread">>} /\ job[h].phase = "reread"
            /\ objs[Target(h)] # Absent
            /\ objs[Target(h)].uid = job[h].stored.uid
        BY <1>7, <2>3 DEF Reread, At
      <3>2. /\ job'[h].phase = (IF HasCheck(Act(h)) THEN "recheck" ELSE "mutate")
            /\ job'[h].call = job[h].call /\ job'[h].stored = job[h].stored
            /\ job'[h].schedulable = IsSchedulable(objs[Target(h)])
            /\ \A g \in Handlers \ {h} : job'[g] = job[g]
        BY <3>1 DEF JobsTyped, Job
      <3>3. Target(h)' = Target(h) /\ Act(h)' = Act(h) /\ objs' = objs
        BY <2>1, <3>2 DEF Target, Act, worldVars
      <3>4. <<h, "get">> \in calm => (Act(h) = "delete_pod" => ~objs[Target(h)].protected)
        BY DEF CalmInv, CalmFor
      <3>5. CalmFor(h)'
        <4>1. (<<h, "get">> \in calm => (Act(h) = "delete_pod" =>
                 ~objs[Target(h)].protected))'
          BY <3>1, <3>3, <3>4
        <4>2. job'[h].phase = "mutate" => ~HasCheck(Act(h))'
          BY <3>2, <3>3 DEF HasCheck
        <4>3. (job[h].schedulable = IsSchedulable(objs[Target(h)]))'
          BY <3>2, <3>3 DEF IsSchedulable
        <4> QED
          BY <3>1, <3>2, <3>3, <4>1, <4>2, <4>3 DEF CalmFor
      <3> QED
        BY <2>1, <3>1, <3>2, <3>5, CalmOthers
    <2> QED
      BY <2>2, <2>3
  <1>8. ASSUME NEW h \in Handlers, Recheck(h)
        PROVE  CalmInv'
    <2>1. UNCHANGED worldVars
      BY <1>8 DEF Recheck, AsksOnly
    <2>2. CASE \E s : Return(h, s)
      BY <1>1, <2>1, <2>2
    <2>3. CASE ~ \E s : Return(h, s)
      <3>1. /\ job' = [job EXCEPT ![h].phase = "mutate"]
            /\ calm' = calm /\ job[h].phase = "recheck"
            /\ ~PDBBlocks(h) /\ ~LastNode(h) /\ ~NewHPA(h)
        BY <1>8, <2>3 DEF Recheck, At, Proceed
      <3>2. /\ job'[h].phase = "mutate" /\ job'[h].call = job[h].call
            /\ job'[h].stored = job[h].stored
            /\ job'[h].schedulable = job[h].schedulable
            /\ \A g \in Handlers \ {h} : job'[g] = job[g]
        BY <3>1 DEF JobsTyped, Job
      <3>3. /\ Target(h)' = Target(h) /\ Act(h)' = Act(h) /\ objs' = objs
            /\ PDBBlocks(h)' = PDBBlocks(h) /\ NewHPA(h)' = NewHPA(h)
            /\ LastNode(h)' = LastNode(h)
        BY <2>1, <3>2 DEF Target, Act, worldVars, PDBBlocks, NewHPA, OwnedByHPA, LastNode,
           SchedulableReady
      <3>4. CalmFor(h)
        BY DEF CalmInv
      <3>5. CalmFor(h)'
        BY <3>1, <3>2, <3>3, <3>4 DEF CalmFor
      <3> QED
        BY <2>1, <3>1, <3>2, <3>5, CalmOthers
    <2> QED
      BY <2>2, <2>3
  <1>9. ASSUME NEW h \in Handlers, MutateFails(h)
        PROVE  CalmInv'
    BY <1>1, <1>9 DEF MutateFails, AsksOnly
  <1>10. ASSUME calm' = {}
         PROVE  CalmInv'
    BY <1>10 DEF CalmInv, CalmFor
  <1>11. CASE ClientCalls
    <2>1. PICK h \in Handlers, call \in Calls :
            BeginRefused(h, call) \/ \E id \in Tokens \cup {NoToken} : Begin(h, call, id)
      BY <1>11 DEF ClientCalls
    <2>2. calm' = calm /\ UNCHANGED worldVars /\ job[h].phase = "idle"
      BY <2>1 DEF BeginRefused, Begin, AsksOnly, At
    <2>3. \A g \in Handlers \ {h} : job'[g] = job[g]
      BY <2>1 DEF BeginRefused, Begin, JobsTyped
    <2>4. <<h, "get">> \notin calm /\ <<h, "reread">> \notin calm
      BY <2>2 DEF CalmInv, CalmFor
    <2> QED
      BY <2>2, <2>3, <2>4, CalmOthers DEF CalmFor
  <1>12. CASE ClockTicks \/ UNCHANGED vars
    <2>1. job' = job /\ calm' = calm /\ UNCHANGED worldVars
      BY <1>12 DEF ClockTicks, vars, engineVars
    <2> QED
      BY <2>1, CalmKept DEF CalmInv
  <1> QED
    BY <1>2, <1>3, <1>4, <1>5, <1>6, <1>7, <1>8, <1>9, <1>10, <1>11, <1>12
       DEF Next, Serve, Mutate, ClusterMoves, Move, ServerRestarts

\* In every behaviour, what the handlers have seen holds while the clusters
\* are still.
THEOREM CalmInvHolds == Spec => []CalmInv
  <1>1. EngineInit => CalmInv
    BY DEF EngineInit, CalmInv, CalmFor
  <1>2. EngineTypeOK /\ CalmInv /\ [Next]_vars => CalmInv'
    BY CalmStep
  <1> QED
    BY <1>1, <1>2, EngineTypeCorrect, PTL DEF Spec

\* A handler's mutation is applied by no other step than its own.
LEMMA OnlyMutateWrites ==
  ASSUME JobsTyped, [Next]_vars, NEW h \in Handlers, Writes(h)
  PROVE  Mutate(h)
  <1>1. /\ \A s, a : Idle(s, a).applied = a
        /\ job'[h].applied /\ ~job[h].applied
    BY DEF Idle, Writes
  <1>2. ASSUME NEW g \in Handlers, NEW s, Return(g, s)
        PROVE  FALSE
    BY <1>1, <1>2 DEF Return, JobsTyped
  <1>3. ASSUME NEW g \in Handlers, NEW new, job' = [job EXCEPT ![g] = new],
               new.applied = job[g].applied
        PROVE  FALSE
    BY <1>1, <1>3 DEF JobsTyped
  <1>4. ASSUME NEW g \in Handlers, AskPermission(g) \/ Recheck(g)
        PROVE  FALSE
    <2>1. PICK p : job' = [job EXCEPT ![g].phase = p]
      BY <1>2, <1>4 DEF AskPermission, Recheck, Proceed
    <2>2. job'[h].applied = job[h].applied
      BY <2>1 DEF JobsTyped, Job
    <2> QED
      BY <1>1, <2>2
  <1>5. ASSUME NEW g \in Handlers, Offer(g) \/ MutateFails(g)
        PROVE  FALSE
    BY <1>2, <1>5 DEF Offer, MutateFails
  <1>6. ASSUME NEW g \in Handlers, GetTarget(g)
        PROVE  FALSE
    <2>1. job' = [job EXCEPT ![g].uid = objs[Target(g)].uid,
                 ![g].schedulable = IsSchedulable(objs[Target(g)]),
                 ![g].phase = IF HasCheck(Act(g)) THEN "preflight" ELSE "confirm"]
      BY <1>2, <1>6 DEF GetTarget
    <2>2. job'[h].applied = job[h].applied
      BY <2>1 DEF JobsTyped, Job
    <2> QED
      BY <1>1, <2>2
  <1>7. ASSUME NEW g \in Handlers, Preflight(g)
        PROVE  FALSE
    <2>1. job' = [job EXCEPT ![g].phase = "confirm",
                 ![g].hpaSeen = OwnedByHPA(g)]
      BY <1>2, <1>7 DEF Preflight
    <2>2. job'[h].applied = job[h].applied
      BY <2>1 DEF JobsTyped, Job
    <2> QED
      BY <1>1, <2>2
  <1>8. ASSUME NEW g \in Handlers, Redeem(g)
        PROVE  FALSE
    <2>1. job' = [job EXCEPT ![g].phase = "reread",
                 ![g].stored = items[job[g].token].plan]
      BY <1>2, <1>8 DEF Redeem
    <2>2. job'[h].applied = job[h].applied
      BY <2>1 DEF JobsTyped, Job
    <2> QED
      BY <1>1, <2>2
  <1>9. ASSUME NEW g \in Handlers, Reread(g)
        PROVE  FALSE
    <2>1. job' = [job EXCEPT ![g].schedulable = IsSchedulable(objs[Target(g)]),
                 ![g].phase = IF HasCheck(Act(g)) THEN "recheck" ELSE "mutate"]
      BY <1>2, <1>9 DEF Reread
    <2>2. job'[h].applied = job[h].applied
      BY <2>1 DEF JobsTyped, Job
    <2> QED
      BY <1>1, <2>2
  <1>10. ASSUME NEW g \in Handlers, Mutate(g)
         PROVE  Mutate(h)
    <2>1. g = h
      BY <1>1, <1>10 DEF Mutate, JobsTyped
    <2> QED
      BY <1>10, <2>1
  <1>11. CASE ClientCalls
    <2>1. PICK g \in Handlers, call \in Calls :
            BeginRefused(g, call) \/ \E id \in Tokens \cup {NoToken} : Begin(g, call, id)
      BY <1>11 DEF ClientCalls
    <2>2. PICK new : job' = [job EXCEPT ![g] = new] /\ new.applied = FALSE
      <3>1. ASSUME NEW id, Begin(g, call, id)
            PROVE  \E new : job' = [job EXCEPT ![g] = new] /\ new.applied = FALSE
        <4> DEFINE new == [Idle("none", FALSE) EXCEPT
                             !.phase = "ssar", !.call = call, !.token = id]
        <4>1. job' = [job EXCEPT ![g] = new]
          BY <3>1 DEF Begin
        <4>2. new.applied = FALSE
          BY DEF Idle
        <4> HIDE DEF new
        <4> QED
          BY <4>1, <4>2
      <3> QED
        BY <1>1, <2>1, <3>1 DEF BeginRefused
    <2> QED
      BY <1>1, <2>2 DEF JobsTyped
  <1>12. CASE ServerRestarts
    BY <1>1, <1>12 DEF ServerRestarts
  <1>13. CASE ClusterMoves \/ ClockTicks \/ UNCHANGED vars
    BY <1>1, <1>13 DEF ClusterMoves, Move, ClockTicks, vars, engineVars
  <1> QED
    BY <1>4, <1>5, <1>6, <1>7, <1>8, <1>9, <1>10, <1>11, <1>12, <1>13
       DEF Next, Serve

\* Taking out one element of a set of more than one leaves something.
LEMMA MoreThanOne ==
  ASSUME NEW S, NEW x, ~(Cardinality(S) <= 1)
  PROVE  S \ {x} # {}
  <1> SUFFICES ASSUME S \ {x} = {}
               PROVE  FALSE
    OBVIOUS
  <1>1. S = {} \/ S = {x}
    OBVIOUS
  <1>2. Cardinality({}) = 0
    BY FS_EmptySet
  <1>3. Cardinality({x}) = 1
    BY FS_Singleton
  <1> QED
    BY <1>1, <1>2, <1>3

\* The revalidation leaves no window but its own: in every behaviour, a write
\* that no change of the clusters separates from the handler's re-read is made
\* on the confirmed object, against no PDB and no new HPA, and leaves a node.
THEOREM CalmWriteIsSafeHolds == Spec => CalmWriteIsSafe
  <1>1. ASSUME EngineTypeOK, CalmInv, [Next]_vars
        PROVE  \A h \in Handlers : Writes(h) /\ <<h, "reread">> \in calm => Safe(h)
    <2> SUFFICES ASSUME NEW h \in Handlers, Writes(h), <<h, "reread">> \in calm
                 PROVE  Safe(h)
      OBVIOUS
    <2>1. job[h].phase = "mutate" /\ Act(h) \in Actions
      BY <1>1, OnlyMutateWrites, TargetTyped DEF EngineTypeOK, Mutate, At
    <2>2. /\ objs[Target(h)].uid = job[h].stored.uid
          /\ job[h].schedulable = IsSchedulable(objs[Target(h)])
          /\ Act(h) # "uncordon" => ~PDBBlocks(h) /\ ~NewHPA(h) /\ ~LastNode(h)
      BY <1>1, <2>1 DEF CalmInv, CalmFor, HasCheck
    <2>3. ASSUME Act(h) = "cordon", IsSchedulable(objs[Target(h)])
          PROVE  SchedulableReady(Target(h)[1]) \ {job[h].call.obj} # {}
      BY <2>2, <2>3, MoreThanOne DEF LastNode
    <2> QED
      BY <2>2, <2>3 DEF Safe, PDBBlocks, NewHPA, OwnedByHPA
  <1> QED
    BY <1>1, EngineTypeCorrect, CalmInvHolds, PTL DEF Spec, CalmWriteIsSafe

\* In every behaviour, a control-plane or mirror pod is spared unless the
\* clusters changed after the call read it.
THEOREM CalmDeleteSparesProtectedHolds == Spec => CalmDeleteSparesProtected
  <1>1. ASSUME EngineTypeOK, CalmInv, [Next]_vars
        PROVE  \A h \in Handlers :
                 Writes(h) /\ Act(h) = "delete_pod" /\ <<h, "get">> \in calm
                   => ~objs[Target(h)].protected
    BY <1>1 DEF CalmInv, CalmFor
  <1> QED
    BY <1>1, EngineTypeCorrect, CalmInvHolds, PTL DEF Spec, CalmDeleteSparesProtected

\* A call is served only by a process that has writes enabled.
LEMMA BusyStep ==
  ASSUME JobsTyped, BusyIsEnabled, [Next]_vars
  PROVE  BusyIsEnabled'
  <1>1. ASSUME NEW h \in Handlers, Serve(h)
        PROVE  BusyIsEnabled'
    <2>1. enabled' = enabled /\ job[h].phase # "idle"
      BY <1>1 DEF Serve, AskPermission, GetTarget, Preflight, Offer, Redeem, Reread,
         Recheck, Mutate, MutateFails, AsksOnly, At
    <2> QED
      BY <2>1 DEF BusyIsEnabled
  <1>2. CASE ClientCalls
    <2>1. PICK h \in Handlers, call \in Calls :
            BeginRefused(h, call) \/ \E id \in Tokens \cup {NoToken} : Begin(h, call, id)
      BY <1>2 DEF ClientCalls
    <2>2. CASE BeginRefused(h, call)
      <3>1. PICK s \in {"disabled", "error"} : job' = [job EXCEPT ![h] = Idle(s, FALSE)]
        BY <2>2 DEF BeginRefused
      <3>2. Idle(s, FALSE).phase = "idle" /\ enabled' = enabled
        BY <2>2 DEF Idle, BeginRefused, AsksOnly
      <3> QED
        BY <3>1, <3>2 DEF BusyIsEnabled, JobsTyped
    <2>3. CASE \E id \in Tokens \cup {NoToken} : Begin(h, call, id)
      BY <2>3 DEF Begin, AsksOnly, BusyIsEnabled
    <2> QED
      BY <2>1, <2>2, <2>3
  <1>3. CASE ServerRestarts
    BY <1>3 DEF ServerRestarts, Idle, BusyIsEnabled
  <1>4. CASE ClusterMoves \/ ClockTicks \/ UNCHANGED vars
    BY <1>4 DEF ClusterMoves, Move, ClockTicks, vars, engineVars, BusyIsEnabled
  <1> QED
    BY <1>1, <1>2, <1>3, <1>4 DEF Next

\* A process that has writes disabled makes none.
THEOREM DisabledWritesNothingHolds == Spec => DisabledWritesNothing
  <1>1. EngineInit => BusyIsEnabled
    BY DEF EngineInit, Idle, BusyIsEnabled
  <1>2. EngineTypeOK /\ BusyIsEnabled /\ [Next]_vars => BusyIsEnabled'
    BY BusyStep DEF EngineTypeOK
  <1>3. EngineTypeOK /\ BusyIsEnabled /\ [Next]_vars
          => \A h \in Handlers : Writes(h) => enabled
    BY OnlyMutateWrites DEF EngineTypeOK, Mutate, At, BusyIsEnabled
  <1> QED
    BY <1>1, <1>2, <1>3, EngineTypeCorrect, PTL DEF Spec, DisabledWritesNothing

----------------------------------------------------------------------------
(* The engine implements the confirmed write.                              *)

\* The offers and claims that have come to nothing after the step.
Lost == {id \in Tokens : WriteStage[id] \in {"offered", "claimed"} /\ WriteStage'[id] = "void"}

\* An id nobody redeems, writes under or puts in the map stays as it is, or is lost.
LEMMA StageKept ==
  ASSUME ClaimInv, NEW id \in Tokens,
         issued'[id] = issued[id], changes'[id] = changes[id],
         issued[id] # Absent /\ items[id] = Absent => items'[id] = Absent,
         \A h \in Handlers : Holds(h, id)' => Holds(h, id)
  PROVE  WriteStage'[id] = IF id \in Lost THEN "void" ELSE WriteStage[id]
  <1>1. (\E h \in Handlers : Holds(h, id)) => items[id] = Absent
    BY DEF ClaimInv, ClaimExclusive
  <1> QED
    BY <1>1 DEF WriteStage, Lost

\* A step that only loses offers and claims is one of the confirmed write.
LEMMA GiveUpMaps ==
  ASSUME ClaimInv, HoldersKept, SpentKept, issued' = issued, UNCHANGED changes
  PROVE  Confirmed!WriteNext
  <1>1. Lost \in SUBSET Confirmed!Open
    BY DEF Lost, Confirmed!Open
  <1>2. \A id \in Tokens : WriteStage'[id] = IF id \in Lost THEN "void" ELSE WriteStage[id]
    BY StageKept DEF HoldersKept, SpentKept
  <1>3. WriteStage' = Confirmed!Voiding(Lost)
    <2> HIDE DEF Lost
    <2>1. WriteStage' = [id \in Tokens |-> WriteStage'[id]]
      BY DEF WriteStage
    <2> QED
      BY <1>2, <2>1 DEF Confirmed!Voiding
  <1>4. WritePlan' = WritePlan
    BY DEF WritePlan
  <1> QED
    BY <1>1, <1>3, <1>4 DEF Confirmed!WriteNext, Confirmed!GiveUp

\* Putting a plan in the store proposes it.
LEMMA ProposeMaps ==
  ASSUME StoreInv, ClaimInv, HoldersKept, SpentKept, UNCHANGED changes,
         NEW p \in Plan, NEW id \in Tokens, Put(p, id), StoreTypeOK'
  PROVE  Confirmed!WriteNext
  <1>1. /\ issued[id] = Absent /\ issued'[id] # Absent /\ issued'[id].plan = p
        /\ items'[id] # Absent
        /\ \A j \in Tokens \ {id} : issued'[j] = issued[j]
    <2>1. PICK t \in ClockFrom(now) :
            /\ items' = [Swept(now) EXCEPT ![id] = [plan |-> p, expires |-> t + TTL]]
            /\ issued' = [issued EXCEPT
                 ![id] = [plan |-> p, expires |-> t + TTL, epoch |-> epoch]]
      BY DEF Put
    <2>2. t + TTL \in Nat /\ epoch \in Nat
      BY ClockFromNat, TTLNat DEF StoreInv, StoreTypeOK
    <2>3. /\ issued[id] = Absent
          /\ issued'[id] = [plan |-> p, expires |-> t + TTL, epoch |-> epoch]
          /\ items'[id] = [plan |-> p, expires |-> t + TTL]
      BY <2>1, SweptKeepsLive DEF Put, StoreInv, StoreTypeOK
    <2>4. [plan |-> p, expires |-> t + TTL, epoch |-> epoch] # Absent
      BY <2>2, StoreAssumption
    <2>5. [plan |-> p, expires |-> t + TTL] # Absent
      BY <2>2, StoreAssumption DEF Entry
    <2> QED
      BY <2>1, <2>3, <2>4, <2>5 DEF StoreInv, StoreTypeOK
  <1>2. changes[id] = <<>> /\ \A h \in Handlers : ~Holds(h, id)'
    <2>1. uses[id] = 0
      BY <1>1 DEF StoreInv, HistoryInv
    <2> QED
      BY <1>1, <2>1 DEF ClaimInv, WrittenWasSpent, HoldersGenuine, HoldersKept
  <1>3. WriteStage[id] = "unissued" /\ WriteStage'[id] = "offered"
    BY <1>1, <1>2 DEF WriteStage
  <1>4. Lost \in SUBSET Confirmed!Open
    BY DEF Lost, Confirmed!Open
  <1>5. \A j \in Tokens \ {id} :
          WriteStage'[j] = IF j \in Lost THEN "void" ELSE WriteStage[j]
    BY <1>1, StageKept DEF HoldersKept, SpentKept
  <1>6. WriteStage' = [Confirmed!Voiding(Lost) EXCEPT ![id] = "offered"]
    <2> HIDE DEF Lost
    <2>1. WriteStage' = [j \in Tokens |-> WriteStage'[j]]
      BY DEF WriteStage
    <2> QED
      BY <1>3, <1>5, <2>1 DEF Confirmed!Voiding
  <1>7. WritePlan' = [WritePlan EXCEPT ![id] = p]
    <2>1. WritePlan'[id] = p /\ \A j \in Tokens \ {id} : WritePlan'[j] = WritePlan[j]
      BY <1>1 DEF WritePlan
    <2>2. WritePlan' = [j \in Tokens |-> WritePlan'[j]]
      BY DEF WritePlan
    <2>3. WritePlan = [j \in Tokens |-> WritePlan[j]]
      BY DEF WritePlan
    <2> QED
      BY <2>1, <2>2, <2>3
  <1> QED
    BY <1>3, <1>4, <1>6, <1>7 DEF Confirmed!WriteNext, Confirmed!Propose

\* A redemption claims the id.
LEMMA ClaimMaps ==
  ASSUME EngineTypeOK, StoreInv, ClaimInv, NEW h \in Handlers, At(h, "confirm"),
         NEW id \in Tokens, id = job[h].token, TakeOK(id, WantOf(h)),
         job' = [job EXCEPT ![h].phase = "reread", ![h].stored = items[id].plan],
         UNCHANGED changes
  PROVE  Confirmed!WriteNext
  <1>1. /\ items[id] # Absent /\ issued' = issued
        /\ \A j \in Tokens : items[j] = Absent => items'[j] = Absent
    BY SweptKeepsLive DEF TakeOK, StoreInv, StoreTypeOK
  <1>2. uses[id] = 0 /\ issued[id] # Absent
    BY <1>1, OfferedIds
  <1>3. changes[id] = <<>> /\ \A g \in Handlers : ~Holds(g, id)
    BY <1>2 DEF ClaimInv, WrittenWasSpent, HoldersGenuine
  <1>4. /\ Holds(h, id)'
        /\ \A g \in Handlers, j \in Tokens \ {id} : Holds(g, j)' => Holds(g, j)
    <2>1. /\ job'[h].token = id /\ job'[h].phase = "reread"
          /\ \A g \in Handlers \ {h} : job'[g] = job[g]
      BY DEF EngineTypeOK, JobsTyped, Job
    <2> QED
      BY <2>1 DEF Holds
  <1>5. WriteStage[id] = "offered" /\ WriteStage'[id] = "claimed"
    BY <1>1, <1>2, <1>3, <1>4 DEF WriteStage
  <1>6. \A j \in Tokens \ {id} :
          WriteStage'[j] = IF j \in Lost THEN "void" ELSE WriteStage[j]
    BY <1>1, <1>4, StageKept
  <1>7. Lost \in SUBSET Confirmed!Open /\ id \notin Lost
    BY <1>5 DEF Lost, Confirmed!Open
  <1>8. WriteStage' = [Confirmed!Voiding(Lost) EXCEPT ![id] = "claimed"]
    <2> HIDE DEF Lost
    <2>1. WriteStage' = [j \in Tokens |-> WriteStage'[j]]
      BY DEF WriteStage
    <2> QED
      BY <1>5, <1>6, <2>1 DEF Confirmed!Voiding
  <1>9. WritePlan' = WritePlan
    BY <1>1 DEF WritePlan
  <1> QED
    BY <1>5, <1>7, <1>8, <1>9 DEF Confirmed!WriteNext, Confirmed!Claim

\* A mutation makes the claimed write.
LEMMA MakeWriteMaps ==
  ASSUME EngineTypeOK, ClaimInv, NEW h \in Handlers, Mutate(h)
  PROVE  Confirmed!WriteNext
  <1>0. PICK id \in Tokens : id = job[h].token /\ Holds(h, id)
    BY DEF EngineTypeOK, JobsTyped, Mutate, At, Holds
  <1>1. PICK change \in Change :
          /\ changes' = [changes EXCEPT ![id] = Append(changes[id], change)]
          /\ change.call = job[h].call
    <2>1. objs[Target(h)] \in Obj /\ job[h].call \in Calls
      BY TargetTyped DEF Mutate, At, EngineTypeOK, WorldTyped
    <2>2. [call |-> job[h].call, uid |-> objs[Target(h)].uid] \in Change
      BY <2>1 DEF Change, Obj
    <2> QED
      BY <1>0, <2>2 DEF Mutate
  <1>2. /\ UNCHANGED storeVars /\ job'[h].phase = "idle"
        /\ \A g \in Handlers \ {h} : job'[g] = job[g]
    BY DEF Mutate, Idle, EngineTypeOK, JobsTyped
  <1>3. /\ changes[id] = <<>> /\ issued[id] # Absent
        /\ DoesPlan(issued[id].plan, change)
    BY <1>0, <1>1 DEF ClaimInv, ClaimExclusive, HoldersGenuine, DoesPlan
  <1>4. changes'[id] = <<change>> /\ \A j \in Tokens \ {id} : changes'[j] = changes[j]
    BY <1>1, <1>3 DEF EngineTypeOK
  <1>5. WriteStage[id] = "claimed" /\ WriteStage'[id] = "written"
    BY <1>0, <1>2, <1>3, <1>4 DEF WriteStage, storeVars
  <1>6. \A j \in Tokens \ {id}, g \in Handlers : Holds(g, j)' <=> Holds(g, j)
    BY <1>0, <1>2 DEF Holds
  <1>7. \A j \in Tokens \ {id} : WriteStage'[j] = WriteStage[j]
    BY <1>2, <1>4, <1>6 DEF WriteStage, storeVars
  <1>8. WriteStage' = [WriteStage EXCEPT ![id] = "written"]
    BY <1>5, <1>7 DEF WriteStage
  <1>9. WritePlan' = WritePlan /\ WritePlan[id] = issued[id].plan
    BY <1>2, <1>3 DEF WritePlan, storeVars
  <1> QED
    BY <1>1, <1>3, <1>5, <1>8, <1>9 DEF Confirmed!WriteNext, Confirmed!MakeWrite

\* Every step of the engine is a step of the confirmed write.
LEMMA WriteStepMaps ==
  ASSUME EngineTypeOK, StoreInv, ClaimInv, EngineTypeOK', [Next]_vars
  PROVE  Confirmed!WriteNext
  <1> USE DEF EngineTypeOK
  <1>1. CASE \/ ClientCalls \/ ClusterMoves \/ ClockTicks \/ ServerRestarts
             \/ UNCHANGED vars
    <2>1. UNCHANGED changes
      BY <1>1 DEF ClientCalls, Begin, BeginRefused, AsksOnly, ClusterMoves, Move,
         ClockTicks, ServerRestarts, engineVars, vars
    <2>2. UNCHANGED storeVars \/ Tick \/ Restart
      BY <1>1 DEF ClientCalls, Begin, BeginRefused, AsksOnly, ClusterMoves, Move,
         ClockTicks, ServerRestarts, vars
    <2>3. issued' = issued
      BY <2>2 DEF storeVars, Tick, Restart
    <2> QED
      BY <1>1, <2>1, <2>2, <2>3, QuietKeepsHolders, NothingSpent, GiveUpMaps
  <1>2. ASSUME NEW h \in Handlers,
               \/ AskPermission(h) \/ GetTarget(h) \/ Preflight(h)
               \/ Reread(h) \/ Recheck(h) \/ MutateFails(h)
        PROVE  Confirmed!WriteNext
    <2>1. UNCHANGED storeVars /\ UNCHANGED changes /\ issued' = issued
      BY <1>2 DEF AskPermission, GetTarget, Preflight, Reread, Recheck,
         MutateFails, AsksOnly, storeVars
    <2> QED
      BY <1>2, <2>1, QuietKeepsHolders, NothingSpent, GiveUpMaps
  <1>3. ASSUME NEW h \in Handlers, Offer(h)
        PROVE  Confirmed!WriteNext
    <2>1. WantOf(h) \in Requests /\ WantOf(h) \in Plan
      BY <1>3, TargetTyped, EngineAssumption DEF Offer, At
    <2>2. UNCHANGED changes /\ HoldersKept
      BY <1>3, QuietKeepsHolders DEF Offer
    <2>3. CASE PutFails
      <3>1. SpentKept /\ issued' = issued
        BY <2>3, NothingSpent DEF PutFails
      <3> QED
        BY <2>2, <3>1, GiveUpMaps
    <2>4. ASSUME NEW id \in Tokens, Put(WantOf(h), id)
          PROVE  Confirmed!WriteNext
      <3>1. SpentKept
        BY <2>1, <2>4, NothingSpent
      <3> QED
        BY <2>1, <2>2, <2>4, <3>1, ProposeMaps
    <2> QED
      BY <1>3, <2>3, <2>4 DEF Offer
  <1>4. ASSUME NEW h \in Handlers, Redeem(h)
        PROVE  Confirmed!WriteNext
    <2>0. PICK id \in Tokens : id = job[h].token
      BY <1>4 DEF Redeem, JobsTyped, Job
    <2>1. WantOf(h) \in Requests /\ UNCHANGED changes /\ At(h, "confirm")
      BY <1>4, TargetTyped, EngineAssumption DEF Redeem, At
    <2>2. ASSUME NEW s, Return(h, s),
                 TakeMissing(id) \/ TakeExpired(id) \/ TakeMismatch(id, WantOf(h))
          PROVE  Confirmed!WriteNext
      <3>1. SpentKept
        BY <2>1, <2>2, NothingSpent
      <3>2. issued' = issued
        BY <2>2 DEF TakeMissing, TakeExpired, TakeMismatch
      <3> QED
        BY <2>1, <2>2, <3>1, <3>2, ReturnKeeps, GiveUpMaps
    <2>3. ASSUME TakeOK(id, WantOf(h)),
                 job' = [job EXCEPT ![h].phase = "reread", ![h].stored = items[id].plan]
          PROVE  Confirmed!WriteNext
      BY <2>0, <2>1, <2>3, ClaimMaps
    <2> QED
      BY <1>4, <2>0, <2>2, <2>3 DEF Redeem
  <1>5. ASSUME NEW h \in Handlers, Mutate(h)
        PROVE  Confirmed!WriteNext
    BY <1>5, MakeWriteMaps
  <1> QED
    BY <1>1, <1>2, <1>3, <1>4, <1>5 DEF Next, Serve

\* The five tools, any number of callers, the store, restarts and failing API
\* servers together do what ConfirmedWrite promises.
THEOREM EngineImplementsConfirmedWrite == Spec => ImplementsConfirmedWrite
  <1>1. EngineInit => Confirmed!WriteInit
    BY DEF EngineInit, StoreInit, Confirmed!WriteInit, WriteStage, WritePlan
  <1>2. EngineTypeOK /\ StoreInv /\ ClaimInv /\ EngineTypeOK' /\ [Next]_vars
          => [Confirmed!WriteNext]_<<WriteStage, WritePlan, changes>>
    BY WriteStepMaps
  <1> QED
    BY <1>1, <1>2, EngineTypeCorrect, EngineStoreInv, ClaimInvHolds, PTL
       DEF Spec, ImplementsConfirmedWrite, Confirmed!WriteSpec, Confirmed!writeVars
=============================================================================
