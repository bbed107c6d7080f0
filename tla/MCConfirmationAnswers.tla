----------------------- MODULE MCConfirmationAnswers -----------------------
(* An instance of ConfirmationAnswers small enough for TLC.                *)
EXTENDS ConfirmationAnswers
CONSTANTS t1, t2, c1, u1, scale, web, a1

MCRequests == {[action |-> scale, obj |-> web, ctx |-> c1, uid |-> u1,
                args |-> a1, hpa |-> FALSE]}
=============================================================================
