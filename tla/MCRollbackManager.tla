------------------------- MODULE MCRollbackManager --------------------------
(***************************************************************************)
(* One path, two requests, of which one may hold the lock for writing, and *)
(* two attempts: enough for a request that joins an attempt queued behind  *)
(* a writer, for a grabber that outlives its attempt and for an attempt    *)
(* that starts before the last one has gone.                               *)
(***************************************************************************)
EXTENDS RollbackManager

CONSTANTS p1, a1, a2, c1, c2
=============================================================================
