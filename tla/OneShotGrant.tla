---------------------------- MODULE OneShotGrant ----------------------------
(***************************************************************************)
(* What a confirmation store promises, with no clock and no map: an id is  *)
(* offered once, for one plan; from then on it is either spent, once, by a *)
(* request for that very plan, or voided, never to be spent.               *)
(* ConfirmationStore implements it (module ConfirmationStoreProps).        *)
(***************************************************************************)
CONSTANTS
  Tokens,            \* the ids
  Plan,              \* the writes that can be planned
  NoPlan,            \* of an id that was never offered
  Matches(_, _)      \* whether a request is for the planned write

VARIABLES
  status,    \* id -> unissued, offered, spent or void
  planOf     \* id -> the plan it was offered for

grantVars == <<status, planOf>>

GrantInit ==
  /\ status = [id \in Tokens |-> "unissued"]
  /\ planOf = [id \in Tokens |-> NoPlan]

\* Any step may find that some offers have gone: S is the set of them.
Voided(S) == [id \in Tokens |-> IF id \in S THEN "void" ELSE status[id]]
Offers == {id \in Tokens : status[id] = "offered"}

Offer(id, p, S) ==
  /\ status[id] = "unissued"
  /\ status' = [Voided(S) EXCEPT ![id] = "offered"]
  /\ planOf' = [planOf EXCEPT ![id] = p]

Spend(id, want, S) ==
  /\ status[id] = "offered"
  /\ id \notin S
  /\ Matches(planOf[id], want)
  /\ status' = [Voided(S) EXCEPT ![id] = "spent"]
  /\ UNCHANGED planOf

Void(S) ==
  /\ status' = Voided(S)
  /\ UNCHANGED planOf

GrantNext ==
  \E S \in SUBSET Offers :
     \/ \E id \in Tokens, p \in Plan : Offer(id, p, S)
     \/ \E id \in Tokens, want \in Plan : Spend(id, want, S)
     \/ Void(S)

GrantSpec == GrantInit /\ [][GrantNext]_grantVars
=============================================================================
