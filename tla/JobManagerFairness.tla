------------------------- MODULE JobManagerFairness -------------------------
(***************************************************************************)
(* JobManager with a history variable that counts overtaking: how often    *)
(* assignWork took a job from one queue while another queue kept waiting.  *)
(* The round-robin of getNextJob is meant to bound it by one.              *)
(***************************************************************************)
EXTENDS JobManager

VARIABLE
    overtaken   \* overtaken[r][q]: since r has jobs and was last served, how
                \* often q was served, counted from where q was created

fairVars == <<vars, overtaken>>

InitF ==
    /\ NewJobManager
    /\ overtaken = [r \in Queues |-> [q \in Queues |-> 0]]

\* The queue the next getNextJob serves.
ServedQueue == queuesIndex[nextQueuePosition + 1]

\* A queue that is created, or was drained and comes back, starts afresh.
Created(q) == q \notin DOMAIN queues /\ q \in DOMAIN queues'

Recount(served) ==
    overtaken' = [r \in Queues |-> [q \in Queues |->
        IF r \in served \/ r \notin DOMAIN queues' \/ Created(q) THEN 0
        ELSE IF q \in served THEN overtaken[r][q] + 1 ELSE overtaken[r][q]]]

NextF ==
    \/ getNextJob /\ Recount({ServedQueue})
    \/ Next /\ ~getNextJob /\ Recount({})

SpecF == InitF /\ [][NextF]_fairVars
FairSpecF == SpecF /\ Fairness

\* Between two queues that both keep their backlog the round-robin is fair:
\* neither is served twice while the other waits, whatever other queues are
\* created and pruned around them.  (A queue that is drained and comes back
\* before the next getNextJob can be served again first: removing index 0
\* moves the cursor to the end, just before the place of a new queue.)
RoundRobinForBacklogs ==
    \A q, r \in Queues : overtaken[r][q] <= 1
=============================================================================
