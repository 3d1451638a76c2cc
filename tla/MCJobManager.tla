---------------------------- MODULE MCJobManager ----------------------------
(***************************************************************************)
(* A small instance of JobManager: three jobs on two queues and two        *)
(* workers let a queue empty, be pruned and come back while another waits, *)
(* let one queue keep a backlog while another waits, and let a wake-up be  *)
(* sent while an earlier one is still in the channel.                      *)
(***************************************************************************)
EXTENDS JobManagerFairness

CONSTANTS j1, j2, j3, q1, q2, w1, w2
=============================================================================
