------------------------- MODULE ConfirmationAnswers -------------------------
(***************************************************************************)
(* The confirmation store with what each call returns: the error a caller  *)
(* is shown tells it why its id was refused.                               *)
(***************************************************************************)
EXTENDS ConfirmationStore

VARIABLE reply    \* the id and the error of the latest call

answerVars == <<storeVars, reply>>

Answer(id, err) == reply' = [id |-> id, err |-> err]

AnswersInit == StoreInit /\ reply = [id |-> Absent, err |-> "ok"]

AnswersNext ==
  \/ \E id \in Tokens :
       \/ \E p \in Requests : Put(p, id) /\ Answer(id, "ok")
       \/ TakeMissing(id) /\ Answer(id, "confirmation_not_found")
       \/ TakeExpired(id) /\ Answer(id, "confirmation_expired")
       \/ \E want \in Requests :
            \/ TakeMismatch(id, want) /\ Answer(id, "confirmation_mismatch")
            \/ TakeOK(id, want) /\ Answer(id, "ok")
  \/ PutFails /\ Answer(Absent, "entropy")
  \/ (Tick \/ Restart) /\ UNCHANGED reply

AnswersSpec == AnswersInit /\ [][AnswersNext]_answerVars

\* The id was offered by this process and not redeemed, and its deadline has
\* passed.
TokenLapsed(id) ==
  /\ issued[id] # Absent
  /\ issued[id].epoch = epoch
  /\ uses[id] = 0
  /\ now > issued[id].expires

\* docs/security.md:125: "Expired tokens error (`confirmation_expired`
\* message, `status: error`)": Take's answer for an id whose deadline has
\* passed says so.
ExpiredAnsweredExpired ==
  [][\A id \in Tokens :
       TokenLapsed(id) /\ reply' # reply /\ reply'.id = id
         => reply'.err = "confirmation_expired"]_answerVars
=============================================================================
