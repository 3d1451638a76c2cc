---------------------------- MODULE MCTokenStore ----------------------------
(***************************************************************************)
(* A token with a child that may be used once, a child of that one, which  *)
(* is a root token with two uses, and a second child that is created       *)
(* meanwhile; two requests that make any of the calls and a worker of the  *)
(* expiration manager: enough for two revocations of one tree, for one     *)
(* that meets a use or a creation, for an orphaning that cuts a part of    *)
(* the tree off, and for a lookup that revokes.                            *)
(***************************************************************************)
EXTENDS TokenStore

CONSTANTS t0, t1, t2, t3, r1, r2, w1

\* t3 is a child of t1 and t1 of t0; t2 is a token to be created under t0.
Family == [t \in Tokens |-> IF t = t0 THEN Nil ELSE IF t = t3 THEN t1 ELSE t0]
FewUses == [t \in Tokens |-> IF t = t1 THEN 1 ELSE IF t = t3 THEN 2 ELSE 0]

AllCalls ==
    {<<"create", t2>>, <<"use", t1>>, <<"revokeTree", t0>>, <<"revokeOrphan", t0>>}
    \cup ({"use"} \X (Tokens \cap {t3}))

Symmetry == Permutations(Requests)
=============================================================================
