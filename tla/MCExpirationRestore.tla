----------------------- MODULE MCExpirationRestore -----------------------
(***************************************************************************)
(* Small instances of ExpirationRestore.                                   *)
(***************************************************************************)
EXTENDS ExpirationRestore

CONSTANTS a, b, w1, r1, x1, f1, g1

\* The leases all share one lock.
OneBucket == [l \in Leases |-> 0]
==========================================================================
