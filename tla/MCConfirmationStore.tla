------------------------ MODULE MCConfirmationStore ------------------------
(* Instances of ConfirmationStore small enough for TLC.                    *)
EXTENDS ConfirmationStoreProps, TLC
CONSTANTS t1, t2, c1, c2, u1, u2, scale, web, a1

Want(c, u, h) == [action |-> scale, obj |-> web, ctx |-> c, uid |-> u,
                  args |-> a1, hpa |-> h]

\* One object and its successor under the same name, its UID unknown, and
\* the object of that name in another cluster.
MCRequests == {Want(c1, u1, FALSE), Want(c1, u2, FALSE), Want(c1, NoUID, FALSE),
               Want(c2, u1, TRUE)}

\* Ids are only compared with each other.
TokenSymmetry == Permutations(Tokens)
=============================================================================
