----------------------- MODULE ConfirmationStoreProofs -----------------------
(***************************************************************************)
(* Proofs about ConfirmationStore, for every number of ids and every ttl.  *)
(***************************************************************************)
EXTENDS ConfirmationStoreProps, TLAPS

\* What the sweep returns: an entry is kept exactly when it has not lapsed.
LEMMA SweptKeepsLive ==
  ASSUME NEW t \in Nat, items \in [Tokens -> Entry \cup {Absent}]
  PROVE  /\ Swept(t) \in [Tokens -> Entry \cup {Absent}]
         /\ \A id \in Tokens :
              /\ Swept(t)[id] # Absent =>
                   Swept(t)[id] = items[id] /\ items[id] \in Entry
                     /\ items[id].expires >= t
              /\ Swept(t)[id] = Absent =>
                   items[id] = Absent \/ (items[id] \in Entry /\ t > items[id].expires)
  BY DEF Swept, Lapsed, Entry

\* The ttl in force is a natural number.
LEMMA TTLNat == TTL \in Nat
  BY StoreAssumption DEF TTL

\* The clock readings a method may take are not earlier than its first.
LEMMA ClockFromNat ==
  ASSUME now \in Nat, NEW t \in ClockFrom(now)
  PROVE  t \in Nat /\ t >= now
  BY StoreAssumption DEF ClockFrom

\* A call keeps the variables in their types.
LEMMA StoreTypeStep ==
  ASSUME StoreTypeOK, [StoreNext]_storeVars
  PROVE  StoreTypeOK'
  <1>s. /\ Swept(now) \in [Tokens -> Entry \cup {Absent}]
        /\ \A id \in Tokens : Swept(now)[id] # Absent => items[id] \in Entry
    BY SweptKeepsLive DEF StoreTypeOK
  <1>1. ASSUME NEW p \in Requests, NEW id \in Tokens, Put(p, id)
        PROVE  StoreTypeOK'
    <2>1. PICK t \in ClockFrom(now) :
            /\ items' = [Swept(now) EXCEPT ![id] = [plan |-> p, expires |-> t + TTL]]
            /\ issued' = [issued EXCEPT
                 ![id] = [plan |-> p, expires |-> t + TTL, epoch |-> epoch]]
            /\ now' = t
      BY <1>1 DEF Put
    <2>2. t \in Nat /\ p \in Plan /\ t + TTL \in Nat
      BY ClockFromNat, TTLNat, StoreAssumption DEF StoreTypeOK
    <2> QED
      BY <1>1, <1>s, <2>1, <2>2 DEF Put, StoreTypeOK, Entry
  <1>2. CASE PutFails
    BY <1>2, <1>s DEF PutFails, StoreTypeOK
  <1>3. ASSUME NEW id \in Tokens, TakeMissing(id)
        PROVE  StoreTypeOK'
    BY <1>3, <1>s DEF TakeMissing, StoreTypeOK
  <1>4. ASSUME NEW id \in Tokens, TakeExpired(id)
        PROVE  StoreTypeOK'
    BY <1>4, <1>s, ClockFromNat DEF TakeExpired, StoreTypeOK
  <1>5. ASSUME NEW id \in Tokens, NEW want \in Requests, TakeMismatch(id, want)
        PROVE  StoreTypeOK'
    BY <1>5, <1>s, ClockFromNat DEF TakeMismatch, StoreTypeOK
  <1>6. ASSUME NEW id \in Tokens, NEW want \in Requests, TakeOK(id, want)
        PROVE  StoreTypeOK'
    <2>1. PICK t \in ClockFrom(now) :
            /\ now' = t
            /\ grant' = [grant EXCEPT ![id] = [want |-> want, at |-> t]]
      BY <1>6 DEF TakeOK
    <2>2. t \in Nat /\ want \in Plan
      BY ClockFromNat, StoreAssumption DEF StoreTypeOK
    <2> QED
      BY <1>6, <1>s, <2>1, <2>2 DEF TakeOK, StoreTypeOK
  <1>7. CASE Tick
    BY <1>7 DEF Tick, StoreTypeOK
  <1>8. CASE Restart
    BY <1>8 DEF Restart, StoreTypeOK
  <1>9. CASE UNCHANGED storeVars
    BY <1>9 DEF storeVars, StoreTypeOK
  <1> QED
    BY <1>1, <1>2, <1>3, <1>4, <1>5, <1>6, <1>7, <1>8, <1>9
       DEF StoreNext, StoreCall

\* Every variable keeps its type.
THEOREM StoreTypeCorrect == StoreSpec => []StoreTypeOK
  <1>1. StoreInit => StoreTypeOK
    BY DEF StoreInit, StoreTypeOK
  <1> QED
    BY <1>1, StoreTypeStep, PTL DEF StoreSpec

----------------------------------------------------------------------------
(* The safety invariants, by one induction over the calls.                 *)

\* A step of the store preserves the inductive invariant.
LEMMA StoreInvStep == StoreInv /\ [StoreNext]_storeVars /\ StoreTypeOK' => StoreInv'
  <1> SUFFICES ASSUME StoreInv, [StoreNext]_storeVars, StoreTypeOK'
               PROVE  StoreInv'
    OBVIOUS
  <1> USE DEF StoreInv, HistoryInv, SingleUse, RedeemedAsPlanned, Timely,
              EntriesGenuine, LiveOffer, LiveOfferKept, NothingStaleKept
  <1>s. \A id \in Tokens :
          /\ Swept(now)[id] # Absent =>
               Swept(now)[id] = items[id] /\ items[id] \in Entry
                 /\ items[id].expires >= now
          /\ Swept(now)[id] = Absent =>
               items[id] = Absent \/ (items[id] \in Entry /\ now > items[id].expires)
    BY SweptKeepsLive DEF StoreTypeOK
  <1>d. DOMAIN Swept(now) = Tokens /\ Swept(now) \in [Tokens -> Entry \cup {Absent}]
    BY SweptKeepsLive DEF StoreTypeOK
  <1>1. ASSUME NEW p \in Requests, NEW id \in Tokens, Put(p, id)
        PROVE  StoreInv'
    <2>1. PICK t \in ClockFrom(now) :
            /\ items' = [Swept(now) EXCEPT ![id] = [plan |-> p, expires |-> t + TTL]]
            /\ issued' = [issued EXCEPT
                 ![id] = [plan |-> p, expires |-> t + TTL, epoch |-> epoch]]
            /\ now' = t
      BY <1>1 DEF Put
    <2>2. t \in Nat /\ t >= now /\ p \in Plan /\ t + TTL \in Nat /\ t + TTL >= now
      BY ClockFromNat, TTLNat, StoreAssumption DEF StoreTypeOK
    <2> QED
      BY <1>1, <1>s, <1>d, <2>1, <2>2, StoreAssumption DEF Put, StoreTypeOK, Entry
  <1>2. CASE PutFails
    BY <1>2, <1>s, <1>d DEF PutFails, StoreTypeOK, Entry
  <1>3. ASSUME NEW id \in Tokens, TakeMissing(id)
        PROVE  StoreInv'
    BY <1>3, <1>s, <1>d DEF TakeMissing, StoreTypeOK, Entry
  <1>4. ASSUME NEW id \in Tokens, TakeExpired(id)
        PROVE  StoreInv'
    BY <1>4, <1>s, <1>d, ClockFromNat DEF TakeExpired, Lapsed, StoreTypeOK, Entry
  <1>5. ASSUME NEW id \in Tokens, NEW want \in Requests, TakeMismatch(id, want)
        PROVE  StoreInv'
    BY <1>5, <1>s, <1>d, ClockFromNat DEF TakeMismatch, StoreTypeOK, Entry
  <1>6. ASSUME NEW id \in Tokens, NEW want \in Requests, TakeOK(id, want)
        PROVE  StoreInv'
    <2>1. PICK t \in ClockFrom(now) :
            /\ ~Lapsed(items[id], t)
            /\ now' = t
            /\ grant' = [grant EXCEPT ![id] = [want |-> want, at |-> t]]
      BY <1>6 DEF TakeOK
    <2>2. t \in Nat /\ t >= now /\ want \in Plan
      BY ClockFromNat, StoreAssumption DEF StoreTypeOK
    <2> QED
      BY <1>6, <1>s, <1>d, <2>1, <2>2
         DEF TakeOK, BindMatch, Lapsed, StoreTypeOK, Entry
  <1>7. CASE Tick
    BY <1>7 DEF Tick, StoreTypeOK, Entry
  <1>8. CASE Restart
    BY <1>8 DEF Restart, StoreTypeOK, Entry
  <1>9. CASE UNCHANGED storeVars
    BY <1>9 DEF storeVars
  <1> QED
    BY <1>1, <1>2, <1>3, <1>4, <1>5, <1>6, <1>7, <1>8, <1>9
       DEF StoreNext, StoreCall

\* The inductive invariant holds in every reachable state.
THEOREM StoreInvHolds == StoreSpec => []StoreInv
  <1>1. StoreInit => StoreInv
    BY DEF StoreInit, StoreInv, StoreTypeOK, HistoryInv, SingleUse,
           RedeemedAsPlanned, Timely, EntriesGenuine, LiveOffer, LiveOfferKept,
           NothingStaleKept
  <1> QED
    BY <1>1, StoreInvStep, StoreTypeCorrect, PTL DEF StoreSpec

\* An id authorises at most one write.
THEOREM SingleUseHolds == StoreSpec => []SingleUse
  BY StoreInvHolds, PTL DEF StoreInv

\* An id is redeemed only for the write its holder was shown.
THEOREM RedeemedAsPlannedHolds == StoreSpec => []RedeemedAsPlanned
  BY StoreInvHolds, PTL DEF StoreInv

\* An id is redeemed within its time to live.
THEOREM TimelyHolds == StoreSpec => []Timely
  BY StoreInvHolds, PTL DEF StoreInv

\* What the map holds under an id is what was issued under it, in this process.
THEOREM EntriesGenuineHolds == StoreSpec => []EntriesGenuine
  BY StoreInvHolds, PTL DEF StoreInv

\* Right after any call the map holds no entry that had lapsed when the call began.
THEOREM NothingStaleKeptHolds == StoreSpec => []NothingStaleKept
  BY StoreInvHolds, PTL DEF StoreInv

\* No call loses an offer that is still good.
THEOREM LiveOfferKeptHolds == StoreSpec => []LiveOfferKept
  BY StoreInvHolds, PTL DEF StoreInv

\* An entry leaves the map only spent, lapsed or with the process.
LEMMA LeavingStep ==
  StoreInv /\ StoreTypeOK' /\ [StoreNext]_storeVars =>
    \A id \in Tokens :
      items[id] # Absent /\ items'[id] = Absent =>
        \/ uses'[id] = uses[id] + 1
        \/ now' > items[id].expires
        \/ epoch' # epoch
  <1> SUFFICES ASSUME StoreInv, StoreTypeOK', [StoreNext]_storeVars,
                      NEW k \in Tokens, items[k] # Absent, items'[k] = Absent
               PROVE  \/ uses'[k] = uses[k] + 1
                      \/ now' > items[k].expires
                      \/ epoch' # epoch
    OBVIOUS
  <1> USE DEF StoreInv, StoreTypeOK
  <1>s. /\ Swept(now) \in [Tokens -> Entry \cup {Absent}]
        /\ Swept(now)[k] = Absent => items[k] \in Entry /\ now > items[k].expires
        /\ items[k] \in Entry /\ items[k].expires \in Nat
    BY SweptKeepsLive DEF Entry
  <1>1. ASSUME NEW p \in Requests, NEW id \in Tokens, Put(p, id)
        PROVE  now' > items[k].expires
    <2>1. PICK t \in ClockFrom(now) :
            /\ items' = [Swept(now) EXCEPT ![id] = [plan |-> p, expires |-> t + TTL]]
            /\ now' = t
      BY <1>1 DEF Put
    <2>2. t \in Nat /\ t >= now /\ p \in Plan /\ t + TTL \in Nat
      BY ClockFromNat, TTLNat, StoreAssumption
    <2>3. [plan |-> p, expires |-> t + TTL] # Absent
      BY <2>2, StoreAssumption DEF Entry
    <2> QED
      BY <1>s, <2>1, <2>2, <2>3
  <1>2. CASE PutFails
    BY <1>2, <1>s DEF PutFails
  <1>3. ASSUME NEW id \in Tokens, TakeMissing(id)
        PROVE  now' > items[k].expires
    BY <1>3, <1>s DEF TakeMissing
  <1>4. ASSUME NEW id \in Tokens, TakeExpired(id)
        PROVE  now' > items[k].expires
    BY <1>4, <1>s, ClockFromNat DEF TakeExpired, Lapsed
  <1>5. ASSUME NEW id \in Tokens, NEW want \in Requests, TakeMismatch(id, want)
        PROVE  now' > items[k].expires
    BY <1>5, <1>s, ClockFromNat DEF TakeMismatch
  <1>6. ASSUME NEW id \in Tokens, NEW want \in Requests, TakeOK(id, want)
        PROVE  uses'[k] = uses[k] + 1 \/ now' > items[k].expires
    BY <1>6, <1>s, ClockFromNat DEF TakeOK
  <1>7. CASE Tick
    BY <1>7 DEF Tick
  <1>8. CASE Restart
    BY <1>8 DEF Restart
  <1>9. CASE UNCHANGED storeVars
    BY <1>9 DEF storeVars
  <1> QED
    BY <1>1, <1>2, <1>3, <1>4, <1>5, <1>6, <1>7, <1>8, <1>9
       DEF StoreNext, StoreCall

\* A refused request spends nothing.
THEOREM OnlySpentOrLapsedLeavesHolds == StoreSpec => OnlySpentOrLapsedLeaves
  BY StoreInvHolds, StoreTypeCorrect, LeavingStep, PTL
     DEF StoreSpec, OnlySpentOrLapsedLeaves

----------------------------------------------------------------------------
(* The store implements the one-shot grant.                                *)

\* The ids that a step loses to the deadline or to a restart.
Gone == {id \in Tokens : items[id] # Absent /\ items'[id] = Absent
                            /\ uses'[id] = uses[id]}

\* The initial state of the store is that of the grant.
LEMMA GrantInitMaps == StoreInit => Grant!GrantInit
  BY DEF StoreInit, Grant!GrantInit, GrantStatus, GrantPlan

\* What the invariant says of an id that is in the map.
LEMMA OfferedIds ==
  ASSUME StoreInv, NEW id \in Tokens
  PROVE  items[id] # Absent => uses[id] = 0 /\ issued[id] # Absent
                                /\ issued[id].plan = items[id].plan
  <1> SUFFICES ASSUME items[id] # Absent
               PROVE  uses[id] = 0 /\ issued[id] # Absent
                        /\ issued[id].plan = items[id].plan
    OBVIOUS
  <1>1. /\ uses[id] = 0
        /\ issued[id] = [plan |-> items[id].plan, expires |-> items[id].expires,
                         epoch |-> epoch]
    BY DEF StoreInv, EntriesGenuine
  <1>2. issued[id] # Absent
    BY DEF StoreInv, HistoryInv
  <1>3. issued[id].plan = items[id].plan
    BY <1>1
  <1> QED
    BY <1>1, <1>2, <1>3

\* The ids a step loses were on offer.
LEMMA GoneWereOffered == StoreInv => Gone \in SUBSET Grant!Offers
  BY OfferedIds DEF Gone, Grant!Offers, GrantStatus

\* A step that offers and spends nothing is a step of the grant that voids
\* the ids that are gone.
LEMMA VoidMaps ==
  ASSUME StoreInv, StoreTypeOK', issued' = issued, uses' = uses,
         \A id \in Tokens : items'[id] = items[id] \/ items'[id] = Absent
  PROVE  Grant!GrantNext
  <1>1. Gone \in SUBSET Grant!Offers
    BY GoneWereOffered
  <1>2. GrantStatus' = Grant!Voided(Gone)
    BY OfferedIds DEF GrantStatus, Grant!Voided, Gone
  <1>3. GrantPlan' = GrantPlan
    BY DEF GrantPlan
  <1> QED
    BY <1>1, <1>2, <1>3 DEF Grant!GrantNext, Grant!Void

\* Every step of the store is a step of the grant, or a stutter.
LEMMA GrantStepMaps ==
  StoreInv /\ StoreTypeOK' /\ [StoreNext]_storeVars => [Grant!GrantNext]_<<GrantStatus, GrantPlan>>
  <1> SUFFICES ASSUME StoreInv, StoreTypeOK', [StoreNext]_storeVars
               PROVE  [Grant!GrantNext]_<<GrantStatus, GrantPlan>>
    OBVIOUS
  <1>s. /\ Swept(now) \in [Tokens -> Entry \cup {Absent}]
        /\ \A id \in Tokens : Swept(now)[id] = items[id] \/ Swept(now)[id] = Absent
    BY SweptKeepsLive DEF StoreInv, StoreTypeOK
  <1>g. Gone \in SUBSET Grant!Offers
    BY GoneWereOffered
  <1>1. ASSUME NEW p \in Requests, NEW id \in Tokens, Put(p, id)
        PROVE  Grant!GrantNext
    <2>1. PICK t \in ClockFrom(now) :
            /\ items' = [Swept(now) EXCEPT ![id] = [plan |-> p, expires |-> t + TTL]]
            /\ issued' = [issued EXCEPT
                 ![id] = [plan |-> p, expires |-> t + TTL, epoch |-> epoch]]
      BY <1>1 DEF Put
    <2>2. /\ p \in Plan
          /\ [plan |-> p, expires |-> t + TTL] # Absent
          /\ [plan |-> p, expires |-> t + TTL, epoch |-> epoch] # Absent
      BY ClockFromNat, TTLNat, StoreAssumption DEF Entry, StoreInv, StoreTypeOK
    <2>3. issued[id] = Absent /\ uses[id] = 0 /\ uses' = uses
      BY <1>1 DEF Put, StoreInv, HistoryInv
    <2>4. GrantStatus' = [Grant!Voided(Gone) EXCEPT ![id] = "offered"]
      <3>1. /\ items'[id] # Absent /\ issued'[id] # Absent /\ uses'[id] = 0
            /\ \A k \in Tokens \ {id} :
                 /\ issued'[k] = issued[k] /\ uses'[k] = uses[k]
                 /\ items'[k] = items[k] \/ items'[k] = Absent
        BY <2>1, <2>2, <2>3, <1>s DEF StoreInv, StoreTypeOK
      <3>2. id \notin Gone /\ GrantStatus'[id] = "offered"
        BY <3>1 DEF GrantStatus, Gone
      <3>3. \A k \in Tokens \ {id} : GrantStatus'[k] = Grant!Voided(Gone)[k]
        BY <3>1, OfferedIds DEF GrantStatus, Grant!Voided, Gone
      <3> QED
        BY <3>2, <3>3 DEF GrantStatus, Grant!Voided
    <2>5. GrantPlan' = [GrantPlan EXCEPT ![id] = p]
      BY <2>1, <2>2 DEF GrantPlan, StoreInv, StoreTypeOK
    <2>6. GrantStatus[id] = "unissued"
      BY <2>3 DEF GrantStatus
    <2> QED
      BY <1>g, <2>2, <2>4, <2>5, <2>6 DEF Grant!GrantNext, Grant!Offer
  <1>2. CASE PutFails
    BY <1>2, <1>s, VoidMaps DEF PutFails
  <1>3. ASSUME NEW id \in Tokens, TakeMissing(id)
        PROVE  Grant!GrantNext
    BY <1>3, <1>s, VoidMaps DEF TakeMissing
  <1>4. ASSUME NEW id \in Tokens, TakeExpired(id)
        PROVE  Grant!GrantNext
    BY <1>4, <1>s, VoidMaps DEF TakeExpired
  <1>5. ASSUME NEW id \in Tokens, NEW want \in Requests, TakeMismatch(id, want)
        PROVE  Grant!GrantNext
    BY <1>5, <1>s, VoidMaps DEF TakeMismatch
  <1>6. ASSUME NEW id \in Tokens, NEW want \in Requests, TakeOK(id, want)
        PROVE  Grant!GrantNext
    <2>1. /\ items[id] # Absent /\ uses[id] = 0 /\ issued[id] # Absent
          /\ issued[id].plan = items[id].plan
      BY <1>6, <1>s, OfferedIds DEF TakeOK
    <2>2. /\ items' = [Swept(now) EXCEPT ![id] = Absent]
          /\ uses' = [uses EXCEPT ![id] = @ + 1]
          /\ issued' = issued
          /\ BindMatch(items[id].plan, want)
      BY <1>6 DEF TakeOK
    <2>3. GrantStatus' = [Grant!Voided(Gone) EXCEPT ![id] = "spent"]
      <3>1. /\ issued' = issued /\ uses'[id] = 1
            /\ \A k \in Tokens \ {id} :
                 /\ uses'[k] = uses[k]
                 /\ items'[k] = items[k] \/ items'[k] = Absent
        BY <2>1, <2>2, <1>s DEF StoreInv, StoreTypeOK
      <3>2. id \notin Gone /\ GrantStatus'[id] = "spent"
        BY <2>1, <3>1 DEF GrantStatus, Gone
      <3>3. \A k \in Tokens \ {id} : GrantStatus'[k] = Grant!Voided(Gone)[k]
        BY <3>1, OfferedIds DEF GrantStatus, Grant!Voided, Gone
      <3> QED
        BY <3>2, <3>3 DEF GrantStatus, Grant!Voided
    <2>4. GrantPlan' = GrantPlan
      BY <2>2 DEF GrantPlan
    <2>5. GrantStatus[id] = "offered" /\ GrantPlan[id] = items[id].plan
      BY <2>1 DEF GrantStatus, GrantPlan
    <2>6. id \notin Gone
      BY <2>1, <2>2 DEF Gone, StoreInv, StoreTypeOK
    <2>7. want \in Plan
      BY StoreAssumption
    <2> QED
      BY <1>g, <2>2, <2>3, <2>4, <2>5, <2>6, <2>7 DEF Grant!GrantNext, Grant!Spend
  <1>7. CASE Tick
    BY <1>7 DEF Tick, GrantStatus, GrantPlan
  <1>8. CASE Restart
    BY <1>8, VoidMaps DEF Restart
  <1>9. CASE UNCHANGED storeVars
    BY <1>9 DEF storeVars, GrantStatus, GrantPlan
  <1> QED
    BY <1>1, <1>2, <1>3, <1>4, <1>5, <1>6, <1>7, <1>8, <1>9
       DEF StoreNext, StoreCall

\* Every behaviour of the store is one of the one-shot grant.
THEOREM StoreImplementsGrant == StoreSpec => ImplementsOneShotGrant
  BY GrantInitMaps, GrantStepMaps, StoreInvHolds, StoreTypeCorrect, PTL
     DEF StoreSpec, ImplementsOneShotGrant, Grant!GrantSpec, Grant!grantVars
=============================================================================
