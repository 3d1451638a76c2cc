----------------------------- MODULE JobManager -----------------------------
(***************************************************************************)
(* The fair-share job manager of helper/fairshare: AddJob callers put jobs *)
(* on per-owner queues, one assigner goroutine takes them off in a         *)
(* round-robin and hands them to a pool of workers over an unbuffered      *)
(* channel.  The expiration manager runs every lease revocation through    *)
(* it.                                                                     *)
(*                                                                         *)
(* Each critical section under JobManager.l is one step; everything a      *)
(* goroutine does on a channel is a step of its own.  A Go select takes    *)
(* any ready case, and its default only when none is ready.                *)
(***************************************************************************)
EXTENDS Integers, Sequences, FiniteSets, SequencesExt

CONSTANTS
    Jobs,       \* every job some caller may add, each added once
    Queues,     \* the queue IDs (mount accessors)
    Workers,    \* the workers of the dispatcher
    NoJob       \* nil

ASSUME NoJobAssumption == NoJob \notin Jobs

VARIABLES
    queues,             \* JobManager.queues: live queue ID -> its list
    queuesIndex,        \* JobManager.queuesIndex
    lastQueueAccessed,  \* JobManager.lastQueueAccessed, 0-based, -1 at first
    totalJobs,          \* JobManager.totalJobs
    newWork,            \* tokens in the newWork channel, capacity 1
    quit,               \* JobManager.quit is closed
    poolQuit,           \* dispatcher.quit is closed
    caller,             \* where the AddJob call of each job stands
    assigner,           \* program counter of the assignWork goroutine
    held,               \* the job assignWork took and has not dispatched yet
    worker,             \* program counter of each worker goroutine
    running,            \* the job each worker executes
    outcome             \* what became of each job that left the queues

queueVars == <<queues, queuesIndex, lastQueueAccessed, totalJobs>>
chanVars == <<newWork, quit, poolQuit>>
workerVars == <<worker, running, outcome>>
vars == <<queueVars, chanVars, caller, assigner, held, workerVars>>

-----------------------------------------------------------------------------

TypeOK ==
    /\ DOMAIN queues \subseteq Queues
    /\ queues \in [DOMAIN queues -> Seq(Jobs)]
    /\ queuesIndex \in Seq(Queues)
    /\ lastQueueAccessed \in Int
    /\ totalJobs \in Int
    /\ newWork \in {0, 1}
    /\ quit \in BOOLEAN
    /\ poolQuit \in BOOLEAN
    /\ caller \in [Jobs -> {"ready", "notify", "returned"}]
    /\ assigner \in {"unstarted", "poll", "next", "dispatch", "wait", "exited"}
    /\ held \in Jobs \cup {NoJob}
    /\ worker \in [Workers -> {"unstarted", "idle", "executing", "failing", "exited"}]
    /\ running \in [Workers -> Jobs \cup {NoJob}]
    /\ outcome \in [Jobs -> {"none", "ok", "failed", "dropped"}]

\* newDispatcher: the pool, its workers created and not started.
newDispatcher ==
    /\ poolQuit = FALSE
    /\ worker = [w \in Workers |-> "unstarted"]
    /\ running = [w \in Workers |-> NoJob]
    /\ outcome = [j \in Jobs |-> "none"]

NewJobManager ==
    /\ queues = [q \in {} |-> <<>>]
    /\ queuesIndex = <<>>
    /\ lastQueueAccessed = -1
    /\ totalJobs = 0
    /\ newWork = 0
    /\ quit = FALSE
    /\ caller = [j \in Jobs |-> "ready"]
    /\ assigner = "unstarted"
    /\ held = NoJob
    /\ newDispatcher

-----------------------------------------------------------------------------
(* The queues.  These are the operators the critical sections apply.       *)

\* The map with queue q holding list l, as after queues[q] = l.
SetQueue(q, l) ==
    [x \in DOMAIN queues \cup {q} |-> IF x = q THEN l ELSE queues[x]]

\* addQueue with the PushBack that follows it.
PushBack(q, j) ==
    SetQueue(q, IF q \in DOMAIN queues THEN Append(queues[q], j) ELSE <<j>>)

\* The index after addQueue: a new queue goes to the end.
addQueue(q) ==
    IF q \in DOMAIN queues THEN queuesIndex ELSE Append(queuesIndex, q)

\* The next position of the round-robin; the modulus keeps it in the index.
nextQueuePosition_Stuck == IF lastQueueAccessed < 0 THEN 0 ELSE lastQueueAccessed
nextQueuePosition == (lastQueueAccessed + 1) % Len(queuesIndex)

\* The cursor after the queue at position p was removed from the index.
cursorAfterRemoval_NoShift(p) == p
cursorAfterRemoval(p) == IF p > 0 THEN p - 1 ELSE Len(queuesIndex) - 2

\* removeLastQueueAccessed at position p: the queue and its index entry go
\* and the cursor steps back.
removeLastQueueAccessed(p) ==
    LET q == queuesIndex[p + 1] IN
    /\ queues' = [x \in DOMAIN queues \ {q} |-> queues[x]]
    /\ queuesIndex' = RemoveAt(queuesIndex, p + 1)
    /\ lastQueueAccessed' = cursorAfterRemoval(p)

\* The Remove(Front()) of getNextJob with the pruning of an emptied queue.
takeFront(p) ==
    LET q == queuesIndex[p + 1] IN
    IF Len(queues[q]) = 1
    THEN removeLastQueueAccessed(p)
    ELSE /\ queues' = SetQueue(q, Tail(queues[q]))
         /\ queuesIndex' = queuesIndex
         /\ lastQueueAccessed' = p

-----------------------------------------------------------------------------
(* AddJob, called from any goroutine.                                      *)

\* The section under the lock.  The wake-up is deferred until after the
\* unlock, and only the caller that found no queue at all sends it.
AddJob_NotifyIfBusy(j, q) ==
    /\ caller[j] = "ready"
    /\ queues' = PushBack(q, j)
    /\ queuesIndex' = addQueue(q)
    /\ totalJobs' = totalJobs + 1
    /\ caller' = [caller EXCEPT ![j] =
                    IF DOMAIN queues # {} THEN "notify" ELSE "returned"]
    /\ UNCHANGED <<lastQueueAccessed, chanVars, assigner, held, workerVars>>
AddJob(j, q) ==
    /\ caller[j] = "ready"
    /\ queues' = PushBack(q, j)
    /\ queuesIndex' = addQueue(q)
    /\ totalJobs' = totalJobs + 1
    /\ caller' = [caller EXCEPT ![j] =
                    IF DOMAIN queues = {} THEN "notify" ELSE "returned"]
    /\ UNCHANGED <<lastQueueAccessed, chanVars, assigner, held, workerVars>>

\* The deferred send on newWork; it blocks while the buffer is full.
SendNewWork_NoCapacity(j) ==
    /\ caller[j] = "notify"
    /\ newWork' = newWork + 1
    /\ caller' = [caller EXCEPT ![j] = "returned"]
    /\ UNCHANGED <<queueVars, quit, poolQuit, assigner, held, workerVars>>
SendNewWork(j) ==
    /\ caller[j] = "notify"
    /\ newWork < 1
    /\ newWork' = newWork + 1
    /\ caller' = [caller EXCEPT ![j] = "returned"]
    /\ UNCHANGED <<queueVars, quit, poolQuit, assigner, held, workerVars>>

-----------------------------------------------------------------------------
(* Start and Stop; sync.Once makes a second call do nothing.               *)

Start ==
    /\ assigner = "unstarted"
    /\ worker' = [w \in Workers |-> "idle"]
    /\ assigner' = "poll"
    /\ UNCHANGED <<queueVars, chanVars, caller, held, running, outcome>>

\* Stop closes the manager's channel, then the dispatcher's.
Stop ==
    /\ ~quit
    /\ quit' = TRUE
    /\ UNCHANGED <<queueVars, newWork, poolQuit, caller, assigner, held, workerVars>>

StopPool ==
    /\ quit /\ ~poolQuit
    /\ poolQuit' = TRUE
    /\ UNCHANGED <<queueVars, newWork, quit, caller, assigner, held, workerVars>>

-----------------------------------------------------------------------------
(* The assignWork goroutine.                                               *)

AssignerExit ==
    /\ quit
    /\ assigner' = "exited"
    /\ UNCHANGED <<queueVars, chanVars, caller, held, workerVars>>

\* The select at the top of the inner loop; it never blocks.
PollQuit == assigner = "poll" /\ AssignerExit

PollNewWork_Sleep ==
    /\ assigner = "poll" /\ newWork > 0
    /\ newWork' = newWork - 1
    /\ assigner' = "wait"
    /\ UNCHANGED <<queueVars, quit, poolQuit, caller, held, workerVars>>
PollNewWork ==
    /\ assigner = "poll" /\ newWork > 0
    /\ newWork' = newWork - 1
    /\ assigner' = "next"
    /\ UNCHANGED <<queueVars, quit, poolQuit, caller, held, workerVars>>

PollDefault ==
    /\ assigner = "poll" /\ ~quit /\ newWork = 0
    /\ assigner' = "next"
    /\ UNCHANGED <<queueVars, chanVars, caller, held, workerVars>>

\* getNextJob when there is work ...
getNextJob ==
    /\ assigner = "next"
    /\ DOMAIN queues # {}
    /\ held' = Head(queues[queuesIndex[nextQueuePosition + 1]])
    /\ takeFront(nextQueuePosition)
    /\ totalJobs' = totalJobs - 1
    /\ assigner' = "dispatch"
    /\ UNCHANGED <<chanVars, caller, workerVars>>

\* ... and when it returns nil.
getNoJob_Return ==
    /\ assigner = "next"
    /\ DOMAIN queues = {}
    /\ assigner' = "exited"
    /\ UNCHANGED <<queueVars, chanVars, caller, held, workerVars>>
getNoJob ==
    /\ assigner = "next"
    /\ DOMAIN queues = {}
    /\ assigner' = "wait"
    /\ UNCHANGED <<queueVars, chanVars, caller, held, workerVars>>

\* dispatch: the send on the unbuffered channel meets an idle worker ...
dispatch(w) ==
    /\ assigner = "dispatch" /\ worker[w] = "idle"
    /\ worker' = [worker EXCEPT ![w] = "executing"]
    /\ running' = [running EXCEPT ![w] = held]
    /\ held' = NoJob
    /\ assigner' = "poll"
    /\ UNCHANGED <<queueVars, chanVars, caller, outcome>>

\* ... or the dispatcher is shutting down and the job is dropped.
dispatchQuit ==
    /\ assigner = "dispatch" /\ poolQuit
    /\ outcome' = [outcome EXCEPT ![held] = "dropped"]
    /\ held' = NoJob
    /\ assigner' = "poll"
    /\ UNCHANGED <<queueVars, chanVars, caller, worker, running>>

\* The blocking select for a wake-up.
WaitQuit_NoCase == FALSE /\ UNCHANGED vars
WaitQuit == assigner = "wait" /\ AssignerExit

WaitNewWork ==
    /\ assigner = "wait" /\ newWork > 0
    /\ newWork' = newWork - 1
    /\ assigner' = "poll"
    /\ UNCHANGED <<queueVars, quit, poolQuit, caller, held, workerVars>>

-----------------------------------------------------------------------------
(* The workers.  Receiving a job is the other half of dispatch.            *)

WorkerQuit(w) ==
    /\ worker[w] = "idle" /\ poolQuit
    /\ worker' = [worker EXCEPT ![w] = "exited"]
    /\ UNCHANGED <<queueVars, chanVars, caller, assigner, held, running, outcome>>

\* Execute returns nil, or an error that OnFailure is then called with.
Execute(w) ==
    /\ worker[w] = "executing"
    /\ \/ /\ worker' = [worker EXCEPT ![w] = "idle"]
          /\ running' = [running EXCEPT ![w] = NoJob]
          /\ outcome' = [outcome EXCEPT ![running[w]] = "ok"]
       \/ /\ worker' = [worker EXCEPT ![w] = "failing"]
          /\ UNCHANGED <<running, outcome>>
    /\ UNCHANGED <<queueVars, chanVars, caller, assigner, held>>

OnFailure_AddAgain(w) ==
    LET q == CHOOSE r \in Queues : TRUE IN
    /\ worker[w] = "failing"
    /\ worker' = [worker EXCEPT ![w] = "idle"]
    /\ running' = [running EXCEPT ![w] = NoJob]
    /\ queues' = PushBack(q, running[w])
    /\ queuesIndex' = addQueue(q)
    /\ totalJobs' = totalJobs + 1
    /\ newWork' = 1
    /\ UNCHANGED <<lastQueueAccessed, quit, poolQuit, caller, assigner, held, outcome>>
OnFailure(w) ==
    /\ worker[w] = "failing"
    /\ worker' = [worker EXCEPT ![w] = "idle"]
    /\ running' = [running EXCEPT ![w] = NoJob]
    /\ outcome' = [outcome EXCEPT ![running[w]] = "failed"]
    /\ UNCHANGED <<queueVars, chanVars, caller, assigner, held>>

-----------------------------------------------------------------------------

AssignerStep ==
    \/ PollQuit \/ PollNewWork \/ PollDefault
    \/ getNextJob \/ getNoJob
    \/ \E w \in Workers : dispatch(w)
    \/ dispatchQuit
    \/ WaitQuit \/ WaitNewWork

WorkerStep(w) == WorkerQuit(w) \/ Execute(w) \/ OnFailure(w)

Next ==
    \/ \E j \in Jobs, q \in Queues : AddJob(j, q)
    \/ \E j \in Jobs : SendNewWork(j)
    \/ Start \/ Stop \/ StopPool
    \/ AssignerStep
    \/ \E w \in Workers : WorkerStep(w)

Spec == NewJobManager /\ [][Next]_vars

\* Goroutines are scheduled, jobs end, and NewExpirationManager calls Start
\* right after creating the manager.  Nothing makes a caller add a job or
\* stop the manager.
Fairness ==
    /\ WF_vars(Start) /\ WF_vars(StopPool)
    /\ WF_vars(AssignerStep)
    /\ \A j \in Jobs : WF_vars(SendNewWork(j))
    /\ \A w \in Workers : WF_vars(WorkerStep(w))

FairSpec == Spec /\ Fairness

-----------------------------------------------------------------------------
(* Properties.                                                             *)

\* The index and the map always agree: the index lists every live queue
\* exactly once, no live queue is empty, and the cursor lies inside the
\* index.  This is what keeps the slice and list accesses of getNextJob and
\* removeLastQueueAccessed from panicking.
IndexMatchesQueues ==
    /\ IsInjective(queuesIndex)
    /\ ToSet(queuesIndex) = DOMAIN queues
    /\ \A q \in DOMAIN queues : queues[q] # <<>>
    /\ lastQueueAccessed \in -1 .. Len(queuesIndex) - 1

\* No wake-up is lost: while the assigner sleeps in its blocking select and
\* some queue holds a job, a token is in newWork or a caller of AddJob is
\* still about to send one.
NoLostWakeup ==
    assigner = "wait" /\ DOMAIN queues # {} =>
        newWork = 1 \/ \E j \in Jobs : caller[j] = "notify"

\* The manager implements the pool of jobs it stands for: every job that was
\* added is handed to one worker, once, and has one outcome, and a job that is
\* dropped is dropped after the dispatcher was stopped.
Pool == INSTANCE JobPool WITH
            added <- {j \in Jobs : caller[j] # "ready"},
            result <- outcome,
            closed <- poolQuit
ImplementsPool == Pool!Spec

\* Every job that was added is executed, unless the manager is stopped.
EveryJobRuns ==
    \A j \in Jobs :
        caller[j] # "ready" ~> (outcome[j] \in {"ok", "failed"} \/ quit)

\* AddJob returns: its send on the one-slot channel cannot block for ever
\* while the manager runs, before it is started included.
AddJobReturns ==
    \A j \in Jobs : caller[j] = "notify" ~> (caller[j] = "returned" \/ quit)

\* After Stop every goroutine of the manager ends.
StopEndsGoroutines ==
    quit ~> /\ assigner \in {"unstarted", "exited"}
            /\ \A w \in Workers : worker[w] \in {"unstarted", "exited"}
=============================================================================
