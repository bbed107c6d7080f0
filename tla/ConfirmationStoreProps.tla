----------------------- MODULE ConfirmationStoreProps -----------------------
(***************************************************************************)
(* What is checked of ConfirmationStore.                                   *)
(***************************************************************************)
EXTENDS ConfirmationStore

\* A confirmation authorises one write: however the calls of concurrent
\* handlers, the sweeps and the restarts fall, Take returns an id's entry at
\* most once (confirmation.go Take; "Single-use", docs/security.md:126).
SingleUse == \A id \in Tokens : uses[id] <= 1

\* An id is redeemed only for the write its holder was shown: the same action
\* on the same target in the same cluster with the same parameters, and no
\* other object known under that name (bindMatch; "Parameter tampering after
\* confirmation", docs/security.md:197).
RedeemedAsPlanned ==
  \A id \in Tokens :
    grant[id] # Absent =>
      /\ issued[id] # Absent
      /\ LET p == issued[id].plan
             w == grant[id].want
         IN  /\ p.action = w.action /\ p.obj = w.obj
             /\ p.ctx = w.ctx /\ p.args = w.args
             /\ p.uid = w.uid \/ p.uid = NoUID \/ w.uid = NoUID

\* A plan is redeemed within its time to live: the clock reading the check
\* used is not past the deadline Put stamped, even if the clock moved while
\* the method ran.
Timely ==
  \A id \in Tokens :
    grant[id] # Absent =>
      /\ issued[id] # Absent
      /\ grant[id].at <= issued[id].expires

\* What the map holds is what Put put there, and none of it has been spent:
\* no call rewrites an entry and no call brings one back.
EntriesGenuine ==
  \A id \in Tokens :
    items[id] # Absent =>
      /\ uses[id] = 0
      /\ issued[id] = [plan |-> items[id].plan, expires |-> items[id].expires,
                       epoch |-> epoch]

\* A user who was shown a plan can still confirm it: until its deadline, and
\* in the process that issued it, no other call (a sweep, a tampered or a
\* failing Take, a Put) loses the offer.
LiveOffer(id) ==
  /\ issued[id] # Absent
  /\ issued[id].epoch = epoch
  /\ uses[id] = 0
  /\ now <= issued[id].expires
LiveOfferKept == \A id \in Tokens : LiveOffer(id) => items[id] # Absent

\* Memory: after a call nothing is left that had lapsed when it began, so the
\* map holds only what was offered during the last time to live.
NothingStaleKept ==
  \A id \in Tokens : items[id] # Absent => items[id].expires >= sweptAt

\* A request that is refused for not matching spends nothing: only a Take
\* that succeeds, the deadline and a restart remove an entry
\* (TestConfirmationTamperAndReplay).
OnlySpentOrLapsedLeaves ==
  [][\A id \in Tokens :
       items[id] # Absent /\ items'[id] = Absent =>
         \/ uses'[id] = uses[id] + 1
         \/ now' > items[id].expires
         \/ epoch' # epoch]_storeVars

----------------------------------------------------------------------------
(* The inductive invariant behind these: what is known of an id at each    *)
(* point of its life.                                                      *)

\* An id that was never issued has left no trace, and no id comes from a
\* process that has not started yet.
HistoryInv ==
  \A id \in Tokens :
    /\ issued[id] = Absent =>
         items[id] = Absent /\ uses[id] = 0 /\ grant[id] = Absent
    /\ issued[id] # Absent => issued[id].epoch <= epoch

StoreInv ==
  /\ StoreTypeOK
  /\ HistoryInv
  /\ SingleUse
  /\ RedeemedAsPlanned
  /\ Timely
  /\ EntriesGenuine
  /\ LiveOfferKept
  /\ NothingStaleKept

----------------------------------------------------------------------------
(* The store implements the one-shot grant.                                *)

GrantStatus ==
  [id \in Tokens |->
     IF issued[id] = Absent THEN "unissued"
     ELSE IF uses[id] > 0 THEN "spent"
     ELSE IF items[id] # Absent THEN "offered"
     ELSE "void"]
GrantPlan ==
  [id \in Tokens |-> IF issued[id] = Absent THEN Absent ELSE issued[id].plan]

Grant == INSTANCE OneShotGrant WITH
           NoPlan <- Absent, Matches <- BindMatch,
           status <- GrantStatus, planOf <- GrantPlan

\* Every behaviour of the store is one of OneShotGrant.
ImplementsOneShotGrant == Grant!GrantSpec
=============================================================================
