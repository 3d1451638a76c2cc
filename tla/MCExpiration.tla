---------------------------- MODULE MCExpiration ----------------------------
(***************************************************************************)
(* Small instances of Expiration: one secret and the token that made it.   *)
(***************************************************************************)
EXTENDS Expiration, TLC

CONSTANTS s1, t1, p1, p2, w1, w2

\* The secret is listed in the index of the token.
Owned == s1 :> t1

\* The secret was made with an orphan batch token.
Orphan == s1 :> None

Symmetry == Permutations(Procs) \cup Permutations(Workers)
=============================================================================
