----------------------------- MODULE MCKeyring ------------------------------
(***************************************************************************)
(* Two nodes, two calls at a time.                                         *)
(***************************************************************************)
EXTENDS Keyring, TLC

CONSTANTS n1, n2, p1, p2

Symmetry == Permutations(Nodes) \cup Permutations(Procs)
=============================================================================
