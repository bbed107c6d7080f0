--------------------------- MODULE ConfirmedWrite ---------------------------
(***************************************************************************)
(* What the write path promises a user, with no cluster, clock, handler or *)
(* store: a write is offered under an id, the id is claimed at most once,  *)
(* by a request for that very write, and a claim leads to that write being *)
(* made once, or to nothing.  ActionEngine implements it.                  *)
(***************************************************************************)
EXTENDS Sequences

CONSTANTS
  Tokens,         \* the ids
  Plan,           \* the writes that can be planned
  Write,          \* the writes that can be made
  NoPlan,         \* of an id that was never offered
  Does(_, _)      \* whether a write is the planned one

VARIABLES
  stage,     \* id -> unissued, offered, claimed, written or void
  planOf,    \* id -> the plan it was offered for
  written    \* id -> the writes made under it

writeVars == <<stage, planOf, written>>

WriteInit ==
  /\ stage = [id \in Tokens |-> "unissued"]
  /\ planOf = [id \in Tokens |-> NoPlan]
  /\ written = [id \in Tokens |-> <<>>]

\* Any step may find that some offers or claims have come to nothing.
Open == {id \in Tokens : stage[id] \in {"offered", "claimed"}}
Voiding(S) == [id \in Tokens |-> IF id \in S THEN "void" ELSE stage[id]]

Propose(id, p, S) ==
  /\ stage[id] = "unissued"
  /\ stage' = [Voiding(S) EXCEPT ![id] = "offered"]
  /\ planOf' = [planOf EXCEPT ![id] = p]
  /\ UNCHANGED written

Claim(id, S) ==
  /\ stage[id] = "offered" /\ id \notin S
  /\ stage' = [Voiding(S) EXCEPT ![id] = "claimed"]
  /\ UNCHANGED <<planOf, written>>

MakeWrite(id, w) ==
  /\ stage[id] = "claimed"
  /\ Does(planOf[id], w)
  /\ stage' = [stage EXCEPT ![id] = "written"]
  /\ written' = [written EXCEPT ![id] = Append(@, w)]
  /\ UNCHANGED planOf

GiveUp(S) ==
  /\ stage' = Voiding(S)
  /\ UNCHANGED <<planOf, written>>

WriteNext ==
  \/ \E S \in SUBSET Open :
       \/ \E id \in Tokens, p \in Plan : Propose(id, p, S)
       \/ \E id \in Tokens : Claim(id, S)
       \/ GiveUp(S)
  \/ \E id \in Tokens, w \in Write : MakeWrite(id, w)

WriteSpec == WriteInit /\ [][WriteNext]_writeVars
=============================================================================
