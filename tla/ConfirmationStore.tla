------------------------- MODULE ConfirmationStore -------------------------
(***************************************************************************)
(* The confirmation store of internal/action/confirmation.go: the map from *)
(* a confirmation id to the write that was planned under it.  Every method *)
(* runs under Store.mu, so one call is one step; what the mutex does not   *)
(* hold still is the clock, which each method reads twice (once to sweep,  *)
(* once to stamp or to check), so the second reading may be later.         *)
(*                                                                         *)
(* The variables `issued', `uses', `grant' and `sweptAt' are history: no   *)
(* method reads them.                                                      *)
(***************************************************************************)
EXTENDS Naturals

CONSTANTS
  Tokens,      \* what newID can return
  Actions,     \* Pending.Action
  Objects,     \* Pending.APIGroup, Kind, Namespace and Name: one key
  Contexts,    \* Pending.Context
  UIDs,        \* the UIDs an API server hands out
  NoUID,       \* the empty UID string
  Args,        \* Pending.Replicas, Grace and Cordon: the parameter bound
  Requests,    \* bound: the writes the callers of the store ask for
  Absent,      \* "no entry"
  ConfigTTL,   \* the ttl NewStore is given; 0 is "not configured"
  DefaultTTL,  \* what NewStore replaces 0 with
  Drift,       \* how far the clock can move inside one method
  MaxTime,     \* bound: the clock stops here
  MaxEpoch     \* bound: how often the process restarts

VARIABLES
  items,    \* Store.items
  now,      \* time.Now
  epoch,    \* how many times the process has been restarted
  issued,   \* id -> the entry Put made for it, and in which process
  uses,     \* id -> how many times Take has returned its entry
  grant,    \* id -> what that Take was asked for, and when it looked
  sweptAt   \* the clock reading of the latest sweep

storeVars == <<items, now, epoch, issued, uses, grant, sweptAt>>

Plan == [action: Actions, obj: Objects, ctx: Contexts,
         uid: UIDs \cup {NoUID}, args: Args, hpa: BOOLEAN]
Entry == [plan: Plan, expires: Nat]

\* NewStore: a ttl of zero becomes two minutes.
TTL == IF ConfigTTL = 0 THEN DefaultTTL ELSE ConfigTTL

ASSUME StoreAssumption ==
  /\ ConfigTTL \in Nat /\ DefaultTTL \in Nat
  /\ Drift \in Nat /\ MaxTime \in Nat /\ MaxEpoch \in Nat
  /\ Requests \subseteq Plan
  /\ Absent \notin Entry
  /\ Absent \notin [plan: Plan, expires: Nat, epoch: Nat]
  /\ Absent \notin [want: Plan, at: Nat]

StoreTypeOK ==
  /\ items \in [Tokens -> Entry \cup {Absent}]
  /\ now \in Nat
  /\ epoch \in Nat
  /\ issued \in [Tokens -> [plan: Plan, expires: Nat, epoch: Nat] \cup {Absent}]
  /\ uses \in [Tokens -> Nat]
  /\ grant \in [Tokens -> [want: Plan, at: Nat] \cup {Absent}]
  /\ sweptAt \in Nat

----------------------------------------------------------------------------
(* The helpers of the store.                                               *)

\* The readings the clock may give between two calls of s.now().
ClockFrom(t) == {u \in t .. t + Drift : u <= MaxTime}

\* Mutant of Lapsed: an entry is already late at its deadline.
LapsedAtDeadline(entry, t) == t >= entry.expires

\* now.After(p.Expires): strictly later, so an entry is good at its deadline.
Lapsed(entry, t) == t > entry.expires

\* Mutant of Swept: nothing is collected.
SweptNothing(t) == items

\* gcLocked.
Swept(t) ==
  [id \in Tokens |-> IF items[id] # Absent /\ Lapsed(items[id], t)
                       THEN Absent ELSE items[id]]

\* Mutants of BindMatch: the cluster, or the parameters, are not compared.
BindMatchAnyCluster(p, want) ==
  /\ p.action = want.action /\ p.obj = want.obj /\ p.args = want.args
  /\ p.uid # NoUID /\ want.uid # NoUID => p.uid = want.uid
BindMatchAnySize(p, want) ==
  /\ p.action = want.action /\ p.obj = want.obj /\ p.ctx = want.ctx
  /\ p.uid # NoUID /\ want.uid # NoUID => p.uid = want.uid

\* bindMatch: the UIDs are compared only when both are known, and HPAPresent
\* is not compared at all.
BindMatch(p, want) ==
  /\ p.action = want.action
  /\ p.obj = want.obj
  /\ p.ctx = want.ctx
  /\ p.uid # NoUID /\ want.uid # NoUID => p.uid = want.uid
  /\ p.args = want.args

----------------------------------------------------------------------------
(* The methods.                                                            *)

StoreInit ==
  /\ items = [id \in Tokens |-> Absent]
  /\ now = 0
  /\ epoch = 0
  /\ issued = [id \in Tokens |-> Absent]
  /\ uses = [id \in Tokens |-> 0]
  /\ grant = [id \in Tokens |-> Absent]
  /\ sweptAt = 0

\* Mutant of Put: an id is new if the map does not hold it.
PutFreeSlot(p, id) ==
  /\ items[id] = Absent
  /\ \E t \in ClockFrom(now) :
       /\ items' = [Swept(now) EXCEPT ![id] = [plan |-> p, expires |-> t + TTL]]
       /\ issued' = [issued EXCEPT
            ![id] = [plan |-> p, expires |-> t + TTL, epoch |-> epoch]]
       /\ now' = t
  /\ sweptAt' = now
  /\ UNCHANGED <<epoch, uses, grant>>

\* Put.  newID draws 128 random bits: an id never comes up twice.
Put(p, id) ==
  /\ issued[id] = Absent
  /\ \E t \in ClockFrom(now) :
       /\ items' = [Swept(now) EXCEPT ![id] = [plan |-> p, expires |-> t + TTL]]
       /\ issued' = [issued EXCEPT
            ![id] = [plan |-> p, expires |-> t + TTL, epoch |-> epoch]]
       /\ now' = t
  /\ sweptAt' = now
  /\ UNCHANGED <<epoch, uses, grant>>

\* Put when newID finds no entropy: the sweep has been done, nothing is kept.
PutFails ==
  /\ items' = Swept(now)
  /\ sweptAt' = now
  /\ UNCHANGED <<now, epoch, issued, uses, grant>>

\* Take of an id that is not in the map after the sweep.
TakeMissing(id) ==
  /\ Swept(now)[id] = Absent
  /\ items' = Swept(now)
  /\ sweptAt' = now
  /\ UNCHANGED <<now, epoch, issued, uses, grant>>

\* Take of an entry that outlived the sweep and lapsed before the check.
TakeExpired(id) ==
  /\ Swept(now)[id] # Absent
  /\ \E t \in ClockFrom(now) :
       /\ Lapsed(items[id], t)
       /\ now' = t
  /\ items' = [Swept(now) EXCEPT ![id] = Absent]
  /\ sweptAt' = now
  /\ UNCHANGED <<epoch, issued, uses, grant>>

\* Mutants of TakeMismatch: the entry is deleted, or given more time.
TakeMismatchBurns(id, want) ==
  /\ Swept(now)[id] # Absent
  /\ ~BindMatch(items[id].plan, want)
  /\ items' = [Swept(now) EXCEPT ![id] = Absent]
  /\ sweptAt' = now
  /\ UNCHANGED <<now, epoch, issued, uses, grant>>
TakeMismatchRenews(id, want) ==
  /\ Swept(now)[id] # Absent
  /\ ~BindMatch(items[id].plan, want)
  /\ items' = [Swept(now) EXCEPT ![id].expires = now + TTL]
  /\ sweptAt' = now
  /\ UNCHANGED <<now, epoch, issued, uses, grant>>

\* Take for another write than the one planned: the entry stays.
TakeMismatch(id, want) ==
  /\ Swept(now)[id] # Absent
  /\ ~BindMatch(items[id].plan, want)
  /\ \E t \in ClockFrom(now) :
       /\ ~Lapsed(items[id], t)
       /\ now' = t
  /\ items' = Swept(now)
  /\ sweptAt' = now
  /\ UNCHANGED <<epoch, issued, uses, grant>>

\* Mutants of TakeOK: the entry is not deleted; the deadline is left to the sweep.
TakeKeeps(id, want) ==
  /\ Swept(now)[id] # Absent
  /\ BindMatch(items[id].plan, want)
  /\ items' = Swept(now)
  /\ uses' = [uses EXCEPT ![id] = @ + 1]
  /\ grant' = [grant EXCEPT ![id] = [want |-> want, at |-> now]]
  /\ sweptAt' = now
  /\ UNCHANGED <<now, epoch, issued>>
TakeSweptOnly(id, want) ==
  /\ Swept(now)[id] # Absent
  /\ BindMatch(items[id].plan, want)
  /\ \E t \in ClockFrom(now) :
       /\ now' = t
       /\ grant' = [grant EXCEPT ![id] = [want |-> want, at |-> t]]
  /\ items' = [Swept(now) EXCEPT ![id] = Absent]
  /\ uses' = [uses EXCEPT ![id] = @ + 1]
  /\ sweptAt' = now
  /\ UNCHANGED <<epoch, issued>>

\* Take that returns the entry: it is deleted under the same lock.
TakeOK(id, want) ==
  /\ Swept(now)[id] # Absent
  /\ BindMatch(items[id].plan, want)
  /\ \E t \in ClockFrom(now) :
       /\ ~Lapsed(items[id], t)
       /\ now' = t
       /\ grant' = [grant EXCEPT ![id] = [want |-> want, at |-> t]]
  /\ items' = [Swept(now) EXCEPT ![id] = Absent]
  /\ uses' = [uses EXCEPT ![id] = @ + 1]
  /\ sweptAt' = now
  /\ UNCHANGED <<epoch, issued>>

\* The clock moves while no method runs.
Tick ==
  /\ now < MaxTime
  /\ now' = now + 1
  /\ UNCHANGED <<items, epoch, issued, uses, grant, sweptAt>>

\* Mutant of Restart: the map is not made.
RestartNilMap ==
  /\ epoch < MaxEpoch
  /\ epoch' = epoch + 1
  /\ items' = [id \in {} |-> Absent]
  /\ UNCHANGED <<now, issued, uses, grant, sweptAt>>

\* The process is restarted: NewStore makes an empty map, nothing is saved.
Restart ==
  /\ epoch < MaxEpoch
  /\ epoch' = epoch + 1
  /\ items' = [id \in Tokens |-> Absent]
  /\ UNCHANGED <<now, issued, uses, grant, sweptAt>>

\* What a caller can ask of the store.
StoreCall ==
  \/ \E p \in Requests, id \in Tokens : Put(p, id)
  \/ PutFails
  \/ \E id \in Tokens : TakeMissing(id)
  \/ \E id \in Tokens : TakeExpired(id)
  \/ \E id \in Tokens, want \in Requests : TakeMismatch(id, want)
  \/ \E id \in Tokens, want \in Requests : TakeOK(id, want)

StoreNext == StoreCall \/ Tick \/ Restart

StoreSpec == StoreInit /\ [][StoreNext]_storeVars
=============================================================================
