-------------------------- MODULE RollbackManager ---------------------------
(***************************************************************************)
(* The rollback manager of the core (vault/rollback.go) together with the  *)
(* state lock it works under.  A ticker starts a rollback attempt for      *)
(* every mounted path; an attempt grabs the state lock for reading with    *)
(* grabLockOrStop (vault/ha.go).  A caller of Rollback (an unmount or a    *)
(* remount) holds the state lock already, joins the attempt of its path or *)
(* starts one, and makes it give up its own wait for the lock.  Sealing    *)
(* takes the lock for writing and stops the manager under it; unsealing    *)
(* starts a new manager.                                                   *)
(*                                                                         *)
(* A step is one critical section, one channel operation or one call into  *)
(* the lock.  The goroutine in which grabLockOrStop waits for the lock is  *)
(* separate from the attempt: it outlives an attempt that stopped waiting. *)
(***************************************************************************)
EXTENDS Integers, RWMutex

CONSTANTS
    Paths,      \* the full paths of the mounted backends
    Attempts,   \* identities for rollbackState, reused once nobody has one
    Callers,    \* requests, some of which call Rollback
    Writers,    \* the callers that may hold the state lock for writing
    Core        \* the goroutine that seals and unseals

ASSUME OwnersAssumption ==
    /\ Writers \subseteq Callers
    /\ IsFiniteSet(Attempts)
    /\ Attempts \cap Callers = {}
    /\ Core \notin Attempts \cup Callers
    /\ Nobody \notin Attempts \cup Callers \cup {Core}

VARIABLES
    stateLock,      \* Core.stateLock
    inflight,       \* RollbackManager.inflight: path -> its attempt or Nobody
    attempt,        \* the rollbackState with its attemptRollback goroutine
    grabber,        \* the goroutine grabLockOrStop starts for an attempt
    inflightAll,    \* the count of the inflightAll wait group
    run,            \* the run goroutine: where it is, what is left to trigger
    shutdownCh,     \* shutdownCh is closed
    core,           \* where sealing and unsealing stands
    caller          \* each request: where it is, its lock, attempt and error

mgrVars == <<inflight, attempt, grabber, inflightAll>>
vars == <<stateLock, mgrVars, run, shutdownCh, core, caller>>

Owners == Attempts \cup Callers \cup {Core}

Unused == [pc |-> "unused", path |-> Nobody, grab |-> FALSE, cancelled |-> FALSE,
           release |-> FALSE, done |-> FALSE, answer |-> "none", lastError |-> FALSE]
Idle == [pc |-> "idle", rs |-> Nobody, err |-> FALSE]

\* What comes of an attempt: attemptRollback returns nil or an error after an
\* answer of the backend, or an error because of a shutdown.
Answers == {"none", "nil", "error", "shutdown"}
Failed(answer) == answer \in {"error", "shutdown"}

AttemptOf ==
    [pc : {"unused", "select", "stopping", "stopped", "route", "unlock",
           "finish", "leave", "over"},
     path : Paths \cup {Nobody}, grab : BOOLEAN, cancelled : BOOLEAN,
     release : BOOLEAN, done : BOOLEAN, answer : Answers, lastError : BOOLEAN]

CallerOf ==
    [pc : {"idle", "rlock", "lock", "locked", "cancel", "wait", "returned"},
     rs : Attempts \cup {Nobody}, err : BOOLEAN]

TypeOK ==
    /\ stateLock \in RWMutexOf(Owners)
    /\ inflight \in [Paths -> Attempts \cup {Nobody}]
    /\ attempt \in [Attempts -> AttemptOf]
    /\ grabber \in [Attempts -> {"start", "rlock", "done"}]
    /\ inflightAll \in 0 .. Cardinality(Attempts)
    /\ run \in [pc : {"select", "trigger", "done"}, todo : SUBSET Paths]
    /\ shutdownCh \in BOOLEAN
    /\ core \in {"unsealed", "sealing", "waitRun", "waitAll", "stopped",
                 "sealed", "unsealing"}
    /\ caller \in [Callers -> CallerOf]

Init ==
    /\ stateLock = Unlocked
    /\ inflight = [p \in Paths |-> Nobody]
    /\ attempt = [a \in Attempts |-> Unused]
    /\ grabber = [a \in Attempts |-> "done"]
    /\ inflightAll = 0
    /\ run = [pc |-> "select", todo |-> {}]
    /\ shutdownCh = FALSE
    /\ core = "unsealed"
    /\ caller = [c \in Callers |-> Idle]

-----------------------------------------------------------------------------
(* Starting or joining an attempt.                                         *)

\* An identity nobody refers to any more can stand for a new rollbackState.
Reusable(a) == attempt[a].pc = "unused" /\ grabber[a] = "done"
FreeAttempt == CHOOSE a \in Attempts : Reusable(a)

\* inflightAll.Add(1).
inflightAllAdd == inflightAll + 1

\* A new rollbackState is entered into the map and its goroutine started.
NewRollbackState(p, grab) ==
    LET a == FreeAttempt IN
    /\ \E b \in Attempts : Reusable(b)
    /\ inflight' = [inflight EXCEPT ![p] = a]
    /\ inflightAll' = inflightAllAdd
    /\ attempt' = [attempt EXCEPT ![a] =
         [Unused EXCEPT !.pc = IF grab THEN "select" ELSE "route",
                        !.path = p, !.grab = grab, !.release = grab]]
    /\ grabber' = [grabber EXCEPT ![a] = IF grab THEN "start" ELSE "done"]

\* startOrLookupRollback: one attempt per path is in flight.
startOrLookupRollback(p, grab) ==
    \/ inflight[p] = Nobody /\ NewRollbackState(p, grab)
    \/ inflight[p] # Nobody /\ UNCHANGED mgrVars

-----------------------------------------------------------------------------
(* The run goroutine.                                                      *)

\* The bound on ticks: attempts whose grabber still waits for the lock pile
\* up only as far as there are identities for them.
TickBound == Cardinality({a \in Attempts : Reusable(a)}) >= Cardinality(Paths)

RunTick ==
    /\ run.pc = "select" /\ TickBound
    /\ run' = [pc |-> "trigger", todo |-> Paths]
    /\ UNCHANGED <<stateLock, mgrVars, shutdownCh, core, caller>>

RunShutdown ==
    /\ run.pc = "select" /\ shutdownCh
    /\ run' = [run EXCEPT !.pc = "done"]
    /\ UNCHANGED <<stateLock, mgrVars, shutdownCh, core, caller>>

\* triggerRollbacks, one path at a time.
triggerRollbacks ==
    /\ run.pc = "trigger"
    /\ \E p \in run.todo :
         /\ startOrLookupRollback(p, TRUE)
         /\ run' = [pc |-> IF run.todo = {p} THEN "select" ELSE "trigger",
                    todo |-> run.todo \ {p}]
    /\ UNCHANGED <<stateLock, shutdownCh, core, caller>>

-----------------------------------------------------------------------------
(* grabLockOrStop: the goroutine that takes the lock.                      *)

\* The attempt is still waiting in grabLockOrStop.
parentWaiting(a) == attempt[a].pc \in {"select", "stopping"}

GrabberRLock(a) ==
    /\ grabber[a] = "start"
    /\ stateLock' = RLock(stateLock, a)
    /\ grabber' = [grabber EXCEPT ![a] = "rlock"]
    /\ UNCHANGED <<inflight, attempt, inflightAll, run, shutdownCh, core, caller>>

\* With the lock: keep it for an attempt that waits, else give it back.
GrabberLocked(a) ==
    /\ grabber[a] = "rlock" /\ a \in stateLock.readers
    /\ stateLock' = IF parentWaiting(a) THEN stateLock ELSE RUnlock(stateLock, a)
    /\ grabber' = [grabber EXCEPT ![a] = "done"]
    /\ UNCHANGED <<inflight, attempt, inflightAll, run, shutdownCh, core, caller>>

GrabberStep(a) == GrabberRLock(a) \/ GrabberLocked(a)

-----------------------------------------------------------------------------
(* attemptRollback.                                                        *)

Goto(a, pc) == attempt' = [attempt EXCEPT ![a].pc = pc]

\* The select of grabLockOrStop: the goroutine is done, or stopCh is closed
\* because of a shutdown or of a caller that cancelled the wait.
SelectDone(a) ==
    /\ attempt[a].pc = "select" /\ grabber[a] = "done"
    /\ Goto(a, "route")
    /\ UNCHANGED <<stateLock, inflight, grabber, inflightAll, run, shutdownCh, core, caller>>

StopRequested(a) == shutdownCh \/ attempt[a].cancelled

SelectStop(a) ==
    /\ attempt[a].pc = "select" /\ StopRequested(a)
    /\ Goto(a, "stopping")
    /\ UNCHANGED <<stateLock, inflight, grabber, inflightAll, run, shutdownCh, core, caller>>

\* parentWaiting = false, and the lock is given back if it came meanwhile.
StopGrabbing_KeepLock(a) ==
    /\ attempt[a].pc = "stopping"
    /\ Goto(a, "stopped")
    /\ UNCHANGED <<stateLock, inflight, grabber, inflightAll, run, shutdownCh, core, caller>>
StopGrabbing(a) ==
    /\ attempt[a].pc = "stopping"
    /\ stateLock' = IF grabber[a] = "done" THEN RUnlock(stateLock, a) ELSE stateLock
    /\ Goto(a, "stopped")
    /\ UNCHANGED <<inflight, grabber, inflightAll, run, shutdownCh, core, caller>>

\* Stopped by a shutdown: return an error.  Stopped by a caller: go on under
\* the lock of that caller.
AfterStop_Continue(a) ==
    /\ attempt[a].pc = "stopped"
    /\ attempt' = [attempt EXCEPT ![a].pc = "route", ![a].release = FALSE]
    /\ UNCHANGED <<stateLock, inflight, grabber, inflightAll, run, shutdownCh, core, caller>>
AfterStop(a) ==
    /\ attempt[a].pc = "stopped"
    /\ attempt' = IF shutdownCh
                  THEN [attempt EXCEPT ![a].pc = "finish", ![a].answer = "shutdown"]
                  ELSE [attempt EXCEPT ![a].pc = "route", ![a].release = FALSE]
    /\ UNCHANGED <<stateLock, inflight, grabber, inflightAll, run, shutdownCh, core, caller>>

\* An unsupported operation and read-only storage are no error to
\* attemptRollback; nor is a response that carries one, to which it does not look.
returned(answer) == IF answer = "error" THEN "error" ELSE "nil"

\* router.Route: the backend works on its partial secrets, with a deadline.
Route(a) ==
    /\ attempt[a].pc = "route"
    /\ \E answer \in {"ok", "unsupported", "readOnly", "errorResponse", "error"} :
         attempt' = [attempt EXCEPT ![a].pc = "unlock", ![a].answer = returned(answer)]
    /\ UNCHANGED <<stateLock, inflight, grabber, inflightAll, run, shutdownCh, core, caller>>

ReleaseStateLock_Never(a) ==
    /\ attempt[a].pc = "unlock"
    /\ Goto(a, "finish")
    /\ UNCHANGED <<stateLock, inflight, grabber, inflightAll, run, shutdownCh, core, caller>>
ReleaseStateLock(a) ==
    /\ attempt[a].pc = "unlock"
    /\ stateLock' = IF attempt[a].grab /\ attempt[a].release
                    THEN RUnlock(stateLock, a) ELSE stateLock
    /\ Goto(a, "finish")
    /\ UNCHANGED <<inflight, grabber, inflightAll, run, shutdownCh, core, caller>>

\* The deferred function: lastError, then Done of the two wait groups ...
Finish_DoneFirst(a) ==
    /\ attempt[a].pc = "finish"
    /\ attempt' = IF attempt[a].done
                  THEN [attempt EXCEPT ![a].pc = "leave", ![a].lastError = Failed(attempt[a].answer)]
                  ELSE [attempt EXCEPT ![a].done = TRUE]
    /\ inflightAll' = IF attempt[a].done THEN inflightAll ELSE inflightAll - 1
    /\ UNCHANGED <<stateLock, inflight, grabber, run, shutdownCh, core, caller>>
Finish(a) ==
    /\ attempt[a].pc = "finish"
    /\ attempt' = [attempt EXCEPT ![a] =
         [@ EXCEPT !.pc = "leave", !.lastError = Failed(attempt[a].answer), !.done = TRUE]]
    /\ inflightAll' = inflightAll - 1
    /\ UNCHANGED <<stateLock, inflight, grabber, run, shutdownCh, core, caller>>

\* The rollbackState of an attempt that is over, as far as the callers in refs
\* can still read it; without one it is garbage.
Remembered(a, refs) ==
    IF refs = {} THEN Unused
    ELSE [Unused EXCEPT !.pc = "over", !.done = TRUE, !.answer = attempt[a].answer,
                        !.lastError = attempt[a].lastError]
RefsTo(a) == {c \in Callers : caller[c].rs = a}

\* ... and delete(m.inflight, fullPath), which for an attempt of an earlier
\* manager is the map of that manager.
LeaveInflight(a) ==
    /\ attempt[a].pc = "leave"
    /\ inflight' = [p \in Paths |-> IF inflight[p] = a THEN Nobody ELSE inflight[p]]
    /\ attempt' = [attempt EXCEPT ![a] = Remembered(a, RefsTo(a))]
    /\ UNCHANGED <<stateLock, grabber, inflightAll, run, shutdownCh, core, caller>>

AttemptStep(a) ==
    \/ SelectDone(a) \/ SelectStop(a) \/ StopGrabbing(a) \/ AfterStop(a)
    \/ Route(a) \/ ReleaseStateLock(a) \/ Finish(a) \/ LeaveInflight(a)

-----------------------------------------------------------------------------
(* Requests.  Rollback needs the state lock of its caller, for reading or  *)
(* for writing.                                                            *)

CallerRLock(c) ==
    /\ caller[c].pc = "idle"
    /\ stateLock' = RLock(stateLock, c)
    /\ caller' = [caller EXCEPT ![c].pc = "rlock"]
    /\ UNCHANGED <<mgrVars, run, shutdownCh, core>>

CallerLock(c) ==
    /\ c \in Writers /\ caller[c].pc = "idle" /\ CanAnnounce(stateLock)
    /\ stateLock' = Announce(stateLock, c)
    /\ caller' = [caller EXCEPT ![c].pc = "lock"]
    /\ UNCHANGED <<mgrVars, run, shutdownCh, core>>

CallerLocked(c) ==
    /\ \/ caller[c].pc = "rlock" /\ c \in stateLock.readers /\ stateLock' = stateLock
       \/ caller[c].pc = "lock" /\ CanLock(stateLock, c) /\ stateLock' = Lock(stateLock, c)
    /\ caller' = [caller EXCEPT ![c].pc = "locked"]
    /\ UNCHANGED <<mgrVars, run, shutdownCh, core>>

\* Rollback: start or join; c.rollback is nil while the core is sealed.
Rollback(c, p) ==
    /\ caller[c].pc = "locked" /\ core \notin {"stopped", "sealed", "unsealing"}
    /\ startOrLookupRollback(p, FALSE)
    /\ caller' = [caller EXCEPT ![c] = [@ EXCEPT !.pc = "cancel", !.rs = inflight'[p]]]
    /\ UNCHANGED <<stateLock, run, shutdownCh, core>>

CancelLockGrab_Writers(c) ==
    /\ caller[c].pc = "cancel"
    /\ attempt' = [attempt EXCEPT ![caller[c].rs].cancelled = @ \/ stateLock.writer = c]
    /\ caller' = [caller EXCEPT ![c].pc = "wait"]
    /\ UNCHANGED <<stateLock, inflight, grabber, inflightAll, run, shutdownCh, core>>
CancelLockGrab(c) ==
    /\ caller[c].pc = "cancel"
    /\ attempt' = [attempt EXCEPT ![caller[c].rs].cancelled = TRUE]
    /\ caller' = [caller EXCEPT ![c].pc = "wait"]
    /\ UNCHANGED <<stateLock, inflight, grabber, inflightAll, run, shutdownCh, core>>

\* rs.Wait returns and Rollback returns lastError.
RollbackReturn(c) ==
    /\ caller[c].pc = "wait" /\ attempt[caller[c].rs].done
    /\ caller' = [caller EXCEPT ![c] =
         [@ EXCEPT !.pc = "returned", !.err = attempt[caller[c].rs].lastError]]
    /\ UNCHANGED <<stateLock, mgrVars, run, shutdownCh, core>>

CallerUnlock(c) ==
    /\ caller[c].pc \in {"locked", "returned"}
    /\ stateLock' = IF stateLock.writer = c THEN Unlock(stateLock) ELSE RUnlock(stateLock, c)
    /\ caller' = [caller EXCEPT ![c] = Idle]
    /\ attempt' = [a \in Attempts |->
         IF attempt[a].pc = "over" THEN Remembered(a, RefsTo(a) \ {c}) ELSE attempt[a]]
    /\ UNCHANGED <<inflight, grabber, inflightAll, run, shutdownCh, core>>

CallerStep(c) ==
    \/ CallerLocked(c) \/ CancelLockGrab(c) \/ RollbackReturn(c) \/ CallerUnlock(c)

-----------------------------------------------------------------------------
(* Sealing and unsealing, both under the state lock for writing.           *)

SealOrUnseal ==
    /\ core \in {"unsealed", "sealed"} /\ CanAnnounce(stateLock)
    /\ stateLock' = Announce(stateLock, Core)
    /\ core' = IF core = "unsealed" THEN "sealing" ELSE "unsealing"
    /\ UNCHANGED <<mgrVars, run, shutdownCh, caller>>

\* Stop, under the lock: close(shutdownCh), then wait for doneCh ...
Stop ==
    /\ core = "sealing" /\ CanLock(stateLock, Core)
    /\ stateLock' = Lock(stateLock, Core)
    /\ shutdownCh' = TRUE
    /\ core' = "waitRun"
    /\ UNCHANGED <<mgrVars, run, caller>>

StopRunDone ==
    /\ core = "waitRun" /\ run.pc = "done"
    /\ core' = "waitAll"
    /\ UNCHANGED <<stateLock, mgrVars, run, shutdownCh, caller>>

\* ... and for inflightAll.
StopInflightDone_NoWait ==
    /\ core = "waitAll"
    /\ core' = "stopped"
    /\ UNCHANGED <<stateLock, mgrVars, run, shutdownCh, caller>>
StopInflightDone ==
    /\ core = "waitAll" /\ inflightAll = 0
    /\ core' = "stopped"
    /\ UNCHANGED <<stateLock, mgrVars, run, shutdownCh, caller>>

SealUnlock ==
    /\ core = "stopped"
    /\ stateLock' = Unlock(stateLock)
    /\ core' = "sealed"
    /\ UNCHANGED <<mgrVars, run, shutdownCh, caller>>

\* startRollback of the next unseal: a new manager with an empty map.
startRollback ==
    /\ core = "unsealing" /\ CanLock(stateLock, Core)
    /\ stateLock' = Unlock(Lock(stateLock, Core))
    /\ inflight' = [p \in Paths |-> Nobody]
    /\ run' = [pc |-> "select", todo |-> {}]
    /\ shutdownCh' = FALSE
    /\ core' = "unsealed"
    /\ UNCHANGED <<attempt, grabber, inflightAll, caller>>

CoreStep ==
    \/ Stop \/ StopRunDone \/ StopInflightDone \/ SealUnlock \/ startRollback

-----------------------------------------------------------------------------

Next ==
    \/ RunTick \/ RunShutdown \/ triggerRollbacks
    \/ \E a \in Attempts : GrabberStep(a) \/ AttemptStep(a)
    \/ \E c \in Callers : CallerRLock(c) \/ CallerLock(c) \/ CallerStep(c)
    \/ \E c \in Callers, p \in Paths : Rollback(c, p)
    \/ SealOrUnseal \/ CoreStep

Spec == Init /\ [][Next]_vars

\* Every goroutine that can go on does: a select with both cases ready takes
\* the shutdown with positive probability each time, a backend returns by its
\* deadline, and a request gives the lock back.  Nothing obliges a tick, a
\* request or a seal to come.
Fairness ==
    /\ SF_vars(RunShutdown) /\ WF_vars(triggerRollbacks)
    /\ \A a \in Attempts :
         WF_vars(GrabberStep(a)) /\ WF_vars(AttemptStep(a))
    /\ \A c \in Callers : WF_vars(CallerStep(c))
    /\ WF_vars(CoreStep)

FairSpec == Spec /\ Fairness

-----------------------------------------------------------------------------
(* Properties.                                                             *)

InRoute(a) == attempt[a].pc = "route"

\* A caller that waits for attempt a, so that its lock covers a.
WaitsFor(c, a) == caller[c].rs = a /\ caller[c].pc \in {"cancel", "wait"}

\* A backend is never asked to roll back without the state lock: the attempt
\* holds it itself, or a caller that waits for the attempt holds it.
RouteProtected ==
    \A a \in Attempts : InRoute(a) =>
        \/ attempt[a].grab /\ attempt[a].release /\ a \in stateLock.readers
        \/ \E c \in Callers : WaitsFor(c, a) /\ HoldsLock(stateLock, c)

\* What Stop leaves behind: no attempt that can still reach a backend, and
\* none that counts in inflightAll.
StopQuiesces ==
    core \in {"stopped", "sealed", "unsealing"} =>
        /\ inflightAll = 0
        /\ \A a \in Attempts : attempt[a].pc \in {"unused", "leave", "over"}

\* A Rollback that returned nil, its own or one it joined, has waited for an
\* attempt that came to the backend and had an answer from it: success, or one
\* of those attemptRollback takes for it.  It was not cut short by a shutdown,
\* and no error the attempt returned was lost on the way to the caller.
NilMeansAnswered ==
    \A c \in Callers : caller[c].pc = "returned" /\ ~caller[c].err =>
        attempt[caller[c].rs].done /\ attempt[caller[c].rs].answer = "nil"

\* A read lock taken for an attempt is given back: nobody is a reader after
\* the attempt and its grabber are through.
NoLockLeft ==
    \A a \in Attempts : a \in stateLock.readers =>
        \/ grabber[a] = "rlock"
        \/ attempt[a].pc \in {"select", "stopping", "route", "unlock"}

\* Rollback returns, whatever its caller holds and whoever waits behind it.
RollbackReturns ==
    \A c \in Callers : caller[c].pc = "wait" ~> caller[c].pc = "returned"

\* Whoever announced that it wants the state lock for writing gets it: an
\* announcement ends only with the lock, and no reader is left behind.
WritersGetLock == stateLock.announced # Nobody ~> stateLock.announced = Nobody

\* Sealing comes to its end: Stop waits for attempts that cannot get the
\* lock Stop is called under.
StopReturns == core = "sealing" ~> core = "sealed"
=============================================================================
