------------------------------ MODULE JobPool -------------------------------
(***************************************************************************)
(* What the fair-share job manager promises to those who add jobs, without *)
(* queues, channels and goroutines: every job that was added is executed   *)
(* by one worker, once, and each worker executes one job at a time; only   *)
(* when the pool is closed a job may be dropped instead.                   *)
(***************************************************************************)

CONSTANTS Jobs, Workers, NoJob

VARIABLES
    added,      \* the jobs that were added
    running,    \* worker -> the job it executes
    result,     \* job -> what became of it
    closed      \* the pool is closed

poolVars == <<added, running, result, closed>>

Init ==
    /\ added = {}
    /\ running = [w \in Workers |-> NoJob]
    /\ result = [j \in Jobs |-> "none"]
    /\ closed = FALSE

\* Nobody has begun with job j yet.
Waiting(j) == j \in added /\ result[j] = "none" /\ \A w \in Workers : running[w] # j

Submit(j) ==
    /\ j \notin added
    /\ added' = added \cup {j}
    /\ UNCHANGED <<running, result, closed>>

Take(w, j) ==
    /\ Waiting(j) /\ running[w] = NoJob
    /\ running' = [running EXCEPT ![w] = j]
    /\ UNCHANGED <<added, result, closed>>

Finish(w, j) ==
    /\ running[w] = j
    /\ running' = [running EXCEPT ![w] = NoJob]
    /\ \E r \in {"ok", "failed"} : result' = [result EXCEPT ![j] = r]
    /\ UNCHANGED <<added, closed>>

Drop(j) ==
    /\ closed /\ Waiting(j)
    /\ result' = [result EXCEPT ![j] = "dropped"]
    /\ UNCHANGED <<added, running, closed>>

Close ==
    /\ closed' = TRUE
    /\ UNCHANGED <<added, running, result>>

Next ==
    \/ \E j \in Jobs : Submit(j) \/ Drop(j)
    \/ \E w \in Workers, j \in Jobs : Take(w, j) \/ Finish(w, j)
    \/ Close

Spec == Init /\ [][Next]_poolVars
=============================================================================
