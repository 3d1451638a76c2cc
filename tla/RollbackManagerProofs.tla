----------------------- MODULE RollbackManagerProofs ------------------------
(***************************************************************************)
(* Theorems about RollbackManager, for any paths, attempts and requests: a *)
(* backend is rolled back only under the state lock, no read lock is left  *)
(* behind, Stop leaves no attempt, and nil means that the rollback was a   *)
(* success.                                                                *)
(***************************************************************************)
EXTENDS RollbackManager, FiniteSetTheorems, TLAPS

-----------------------------------------------------------------------------
(* The inductive invariant.                                                *)

Over == {"unused", "leave", "over"}
Running == {a \in Attempts : attempt[a].pc \notin Over}

\* Some caller waits for attempt a, and holds the lock meanwhile.
Waited(a) == \E c \in Callers : WaitsFor(c, a)

\* An attempt that grabs the lock itself and has not stopped to do so.
OwnLock(a) == attempt[a].grab /\ attempt[a].release

\* Whether the lock has attempt a as a reader, by the place of the goroutine
\* that grabs it and by that of the attempt.
GrabInv(a) ==
    /\ grabber[a] = "start" => a \notin stateLock.readers \cup stateLock.queued
    /\ grabber[a] = "rlock" => /\ a \in stateLock.readers \cup stateLock.queued
                               /\ a \notin stateLock.readers \cap stateLock.queued
    /\ a \in stateLock.queued => grabber[a] = "rlock"
    /\ a \in stateLock.readers /\ grabber[a] # "rlock" =>
         \/ attempt[a].pc \in {"select", "stopping"}
         \/ attempt[a].pc \in {"route", "unlock"} /\ OwnLock(a)
    /\ attempt[a].pc \in {"select", "stopping"} /\ grabber[a] = "done" =>
         a \in stateLock.readers
    /\ attempt[a].pc \in {"route", "unlock"} /\ OwnLock(a) =>
         grabber[a] = "done" /\ a \in stateLock.readers

\* Why an attempt is where it is: what has been asked of it, and by whom.
PlaceInv(a) ==
    /\ attempt[a].pc \in {"select", "stopping", "stopped"} => OwnLock(a)
    /\ attempt[a].pc \in {"stopping", "stopped"} => StopRequested(a)
    /\ attempt[a].pc \notin Over /\ attempt[a].cancelled => Waited(a)
    /\ attempt[a].pc \in {"route", "unlock"} /\ ~OwnLock(a) => Waited(a)
    /\ attempt[a].done <=> attempt[a].pc \in {"leave", "over"}
    /\ attempt[a].done => (attempt[a].lastError <=> Failed(attempt[a].answer))
    /\ attempt[a].pc \in {"unlock", "finish", "leave", "over"} => attempt[a].answer # "none"

\* What a request has of the lock, and of an attempt.
CallerLockInv(c) ==
    /\ caller[c].pc \in {"idle", "lock"} => c \notin stateLock.readers \cup stateLock.queued
    /\ caller[c].pc = "rlock" => /\ c \in stateLock.readers \cup stateLock.queued
                                 /\ c \notin stateLock.readers \cap stateLock.queued
    /\ caller[c].pc \in {"locked", "cancel", "wait", "returned"} =>
         HoldsLock(stateLock, c) /\ c \notin stateLock.queued
    /\ caller[c].pc \in {"idle", "rlock", "lock"} => stateLock.writer # c
    /\ caller[c].pc = "lock" <=> stateLock.announced = c
CallerRsInv(c) ==
    /\ caller[c].pc \in {"idle", "rlock", "lock", "locked"} => caller[c].rs = Nobody
    /\ caller[c].pc \in {"cancel", "wait", "returned"} =>
         caller[c].rs \in Attempts /\ attempt[caller[c].rs].pc # "unused"
    /\ caller[c].pc = "returned" =>
         attempt[caller[c].rs].done /\ caller[c].err = attempt[caller[c].rs].lastError

\* The core has the lock announced, held or not at all.
CoreInv ==
    /\ core \in {"sealing", "unsealing"} <=> stateLock.announced = Core
    /\ core \in {"waitRun", "waitAll", "stopped"} <=> stateLock.writer = Core
    /\ Core \notin stateLock.readers \cup stateLock.queued
    /\ core \in {"waitAll", "stopped", "sealed", "unsealing"} => run.pc = "done"

\* A writer is alone.
WriterAlone ==
    stateLock.writer # Nobody => stateLock.announced = Nobody /\ stateLock.readers = {}

\* The map has no attempt that has left it.
MapInv ==
    \A p \in Paths : inflight[p] # Nobody => attempt[inflight[p]].pc \notin {"unused", "over"}

CountInv == inflightAll = Cardinality(Running)

LockInv == WriterAlone /\ CoreInv /\ (\A a \in Attempts : GrabInv(a))
                                  /\ (\A c \in Callers : CallerLockInv(c))
StateInv == /\ \A a \in Attempts : PlaceInv(a)
            /\ \A c \in Callers : CallerRsInv(c)
            /\ MapInv /\ CountInv /\ StopQuiesces

IInv == TypeOK /\ LockInv /\ StateInv

-----------------------------------------------------------------------------
(* The operations on the lock.                                             *)

\* RLock makes a reader if no writer is there or announced, else it queues.
LEMMA RLockFields ==
    ASSUME NEW l \in RWMutexOf(Owners), NEW p \in Owners
    PROVE  /\ RLock(l, p) \in RWMutexOf(Owners)
           /\ RLock(l, p).writer = l.writer /\ RLock(l, p).announced = l.announced
           /\ \/ /\ l.writer = Nobody
                 /\ RLock(l, p).readers = l.readers \cup {p}
                 /\ RLock(l, p).queued = l.queued
              \/ /\ RLock(l, p).readers = l.readers
                 /\ RLock(l, p).queued = l.queued \cup {p}
  BY DEF RLock, RWMutexOf

\* RUnlock takes one reader away.
LEMMA RUnlockFields ==
    ASSUME NEW l \in RWMutexOf(Owners), NEW p
    PROVE  /\ RUnlock(l, p) \in RWMutexOf(Owners)
           /\ RUnlock(l, p).writer = l.writer /\ RUnlock(l, p).announced = l.announced
           /\ RUnlock(l, p).readers = l.readers \ {p}
           /\ RUnlock(l, p).queued = l.queued
  BY DEF RUnlock, RWMutexOf

\* The two parts of Lock.
LEMMA AnnounceFields ==
    ASSUME NEW l \in RWMutexOf(Owners), NEW p \in Owners
    PROVE  /\ Announce(l, p) \in RWMutexOf(Owners)
           /\ Announce(l, p).writer = l.writer /\ Announce(l, p).announced = p
           /\ Announce(l, p).readers = l.readers /\ Announce(l, p).queued = l.queued
  BY DEF Announce, RWMutexOf

LEMMA LockFields ==
    ASSUME NEW l \in RWMutexOf(Owners), NEW p \in Owners
    PROVE  /\ Lock(l, p) \in RWMutexOf(Owners)
           /\ Lock(l, p).writer = p /\ Lock(l, p).announced = Nobody
           /\ Lock(l, p).readers = l.readers /\ Lock(l, p).queued = l.queued
  BY DEF Lock, RWMutexOf

\* Unlock lets all the queued readers in.
LEMMA UnlockFields ==
    ASSUME NEW l \in RWMutexOf(Owners)
    PROVE  /\ Unlock(l) \in RWMutexOf(Owners)
           /\ Unlock(l).writer = Nobody /\ Unlock(l).announced = l.announced
           /\ Unlock(l).readers = l.readers \cup l.queued /\ Unlock(l).queued = {}
  BY DEF Unlock, RWMutexOf

\* The goroutines that use the lock are different ones.
LEMMA Distinct ==
    /\ \A a \in Attempts : a \notin Callers /\ a # Core /\ a # Nobody /\ a \in Owners
    /\ \A c \in Callers : c \notin Attempts /\ c # Core /\ c # Nobody /\ c \in Owners
    /\ Core # Nobody /\ Core \in Owners /\ Nobody \notin Attempts /\ Writers \subseteq Callers
  BY OwnersAssumption DEF Owners

-----------------------------------------------------------------------------
(* Steps of an attempt.                                                    *)

\* The parts of the invariant, for use by name.
LEMMA Parts ==
    ASSUME IInv
    PROVE  /\ TypeOK /\ WriterAlone /\ CoreInv /\ MapInv /\ CountInv /\ StopQuiesces
           /\ \A a \in Attempts : GrabInv(a) /\ PlaceInv(a)
           /\ \A c \in Callers : CallerLockInv(c) /\ CallerRsInv(c)
  BY DEF IInv, LockInv, StateInv

\* Only attempt a changed.
Others(a) == \A b \in Attempts : b # a => attempt'[b] = attempt[b]

\* A step of attempt a on its way, with the lock as it was or without a.
LEMMA AttemptMoves ==
    ASSUME IInv, NEW a \in Attempts, attempt' \in [Attempts -> AttemptOf], Others(a),
           UNCHANGED <<inflight, grabber, inflightAll, run, shutdownCh, core, caller>>,
           stateLock' = stateLock \/ stateLock' = RUnlock(stateLock, a),
           attempt[a].pc \notin Over, attempt'[a].pc \notin Over,
           GrabInv(a)', PlaceInv(a)'
    PROVE  IInv'
<1>1. /\ stateLock' \in RWMutexOf(Owners)
      /\ stateLock'.writer = stateLock.writer /\ stateLock'.announced = stateLock.announced
      /\ stateLock'.readers \subseteq stateLock.readers
      /\ \A o \in Owners : o # a => (o \in stateLock'.readers <=> o \in stateLock.readers)
      /\ stateLock'.queued = stateLock.queued
  BY RUnlockFields, Parts DEF TypeOK
<1>2. TypeOK'
  BY <1>1, Parts DEF TypeOK
<1>3. WriterAlone' /\ CoreInv'
  BY <1>1, Parts DEF WriterAlone, CoreInv
<1>4. ASSUME NEW b \in Attempts, b # a PROVE GrabInv(b)' /\ PlaceInv(b)'
  <2>1. attempt'[b] = attempt[b] /\ GrabInv(b) /\ PlaceInv(b)
    BY <1>4, Parts DEF Others
  <2>2. GrabInv(b)'
    BY <1>1, <1>4, <2>1, Distinct DEF GrabInv, OwnLock
  <2>3. PlaceInv(b)'
    BY <2>1 DEF PlaceInv, OwnLock, StopRequested, Waited, WaitsFor
  <2>. QED  BY <2>2, <2>3
<1>5. ASSUME NEW c \in Callers PROVE CallerLockInv(c)' /\ CallerRsInv(c)'
  <2>1. CallerLockInv(c)'
    BY <1>1, Parts, Distinct DEF CallerLockInv, HoldsLock
  <2>2. CallerRsInv(c)'
    <3>1. caller[c].rs = a => caller[c].pc # "returned"
      BY Parts DEF CallerRsInv, PlaceInv, Over
    <3>2. attempt'[a].pc # "unused"
      BY DEF Over
    <3>. QED  BY <3>1, <3>2, Parts DEF CallerRsInv, Others
  <2>. QED  BY <2>1, <2>2
<1>6. MapInv'
  BY Parts DEF MapInv, Others, Over, TypeOK
<1>7. CountInv'
  <2>1. Running' = Running
    BY DEF Running, Others
  <2>. QED  BY <2>1, Parts DEF CountInv
<1>8. StopQuiesces'
  BY Parts DEF StopQuiesces, Over
<1>. QED  BY <1>2, <1>3, <1>4, <1>5, <1>6, <1>7, <1>8 DEF IInv, LockInv, StateInv

\* Goto changes the place only.
LEMMA GotoMoves ==
    ASSUME TypeOK, NEW a \in Attempts, NEW x, Goto(a, x),
           x \in {"stopping", "stopped", "route", "unlock", "finish"}
    PROVE  /\ attempt' \in [Attempts -> AttemptOf] /\ Others(a)
           /\ attempt'[a].pc = x /\ attempt'[a].grab = attempt[a].grab
           /\ attempt'[a].release = attempt[a].release
           /\ attempt'[a].cancelled = attempt[a].cancelled
           /\ attempt'[a].done = attempt[a].done /\ attempt'[a].answer = attempt[a].answer
<1> DEFINE g == [attempt[a] EXCEPT !.pc = x]
<1>1. attempt[a] \in AttemptOf /\ attempt \in [Attempts -> AttemptOf]
  BY DEF TypeOK
<1>2. /\ g \in AttemptOf /\ g.pc = x /\ g.grab = attempt[a].grab
      /\ g.release = attempt[a].release /\ g.cancelled = attempt[a].cancelled
      /\ g.done = attempt[a].done /\ g.answer = attempt[a].answer
  BY <1>1 DEF AttemptOf
<1>3. attempt' = [attempt EXCEPT ![a] = g]
  BY <1>1 DEF Goto
<1> HIDE DEF g
<1>. QED  BY <1>1, <1>2, <1>3 DEF Others

\* The grabber has the lock: the attempt goes on with it.
LEMMA SelectDoneKeeps ==
    ASSUME IInv, NEW a \in Attempts, SelectDone(a) PROVE IInv'
<1>1. /\ attempt[a].pc = "select" /\ grabber[a] = "done" /\ Goto(a, "route")
      /\ UNCHANGED <<stateLock, inflight, grabber, inflightAll, run, shutdownCh, core, caller>>
  BY DEF SelectDone
<1>2. GrabInv(a)'
  BY <1>1, GotoMoves, Parts DEF GrabInv, PlaceInv, OwnLock
<1>3. PlaceInv(a)'
  BY <1>1, GotoMoves, Parts DEF PlaceInv, OwnLock, Waited, WaitsFor, Over
<1>. QED  BY <1>1, <1>2, <1>3, GotoMoves, AttemptMoves, Parts DEF Over

\* The attempt is asked to stop waiting.
LEMMA SelectStopKeeps ==
    ASSUME IInv, NEW a \in Attempts, SelectStop(a) PROVE IInv'
<1>1. /\ attempt[a].pc = "select" /\ StopRequested(a) /\ Goto(a, "stopping")
      /\ UNCHANGED <<stateLock, inflight, grabber, inflightAll, run, shutdownCh, core, caller>>
  BY DEF SelectStop
<1>2. GrabInv(a)'
  BY <1>1, GotoMoves, Parts DEF GrabInv, PlaceInv, OwnLock
<1>3. PlaceInv(a)'
  BY <1>1, GotoMoves, Parts DEF PlaceInv, OwnLock, Waited, WaitsFor, Over, StopRequested
<1>. QED  BY <1>1, <1>2, <1>3, GotoMoves, AttemptMoves, Parts DEF Over

\* It stops, and gives back a lock that came meanwhile.
LEMMA StopGrabbingKeeps ==
    ASSUME IInv, NEW a \in Attempts, StopGrabbing(a) PROVE IInv'
<1>1. /\ attempt[a].pc = "stopping" /\ Goto(a, "stopped")
      /\ stateLock' = IF grabber[a] = "done" THEN RUnlock(stateLock, a) ELSE stateLock
      /\ UNCHANGED <<inflight, grabber, inflightAll, run, shutdownCh, core, caller>>
  BY DEF StopGrabbing
<1>2. GrabInv(a)'
  <2>1. grabber[a] \in {"start", "rlock", "done"} /\ stateLock \in RWMutexOf(Owners)
    BY Parts DEF TypeOK
  <2>2. CASE grabber[a] = "done"
    BY <1>1, <2>1, <2>2, GotoMoves, RUnlockFields, Parts DEF GrabInv, OwnLock
  <2>3. CASE grabber[a] # "done"
    BY <1>1, <2>1, <2>3, GotoMoves, Parts DEF GrabInv, OwnLock
  <2>. QED  BY <2>2, <2>3
<1>3. PlaceInv(a)'
  BY <1>1, GotoMoves, Parts DEF PlaceInv, OwnLock, Waited, WaitsFor, Over, StopRequested
<1>. QED  BY <1>1, <1>2, <1>3, GotoMoves, AttemptMoves, Parts DEF Over

\* Stopped by a shutdown it fails; stopped by a caller it goes on under the
\* lock of that caller, who waits for it.
LEMMA AfterStopKeeps ==
    ASSUME IInv, NEW a \in Attempts, AfterStop(a) PROVE IInv'
<1>1. /\ attempt[a].pc = "stopped"
      /\ UNCHANGED <<stateLock, inflight, grabber, inflightAll, run, shutdownCh, core, caller>>
  BY DEF AfterStop
<1>2. attempt[a] \in AttemptOf /\ attempt \in [Attempts -> AttemptOf]
  BY Parts DEF TypeOK
<1>3. /\ GrabInv(a) /\ PlaceInv(a) /\ ~attempt[a].done
  BY <1>1, Parts DEF PlaceInv
<1>4. CASE shutdownCh
  <2> DEFINE g == [attempt[a] EXCEPT !.pc = "finish", !.answer = "shutdown"]
  <2>1. /\ g \in AttemptOf /\ g.pc = "finish" /\ g.grab = attempt[a].grab
        /\ g.release = attempt[a].release /\ g.cancelled = attempt[a].cancelled
        /\ g.done = attempt[a].done /\ g.answer = "shutdown"
    BY <1>2 DEF AttemptOf, Answers
  <2>2. attempt' = [attempt EXCEPT ![a] = g]
    BY <1>2, <1>4 DEF AfterStop
  <2> HIDE DEF g
  <2>3. attempt' \in [Attempts -> AttemptOf] /\ Others(a) /\ attempt'[a] = g
    BY <1>2, <2>1, <2>2 DEF Others
  <2>4. GrabInv(a)'
    BY <1>1, <1>3, <2>1, <2>3 DEF GrabInv, OwnLock
  <2>5. PlaceInv(a)'
    BY <1>1, <1>3, <2>1, <2>3 DEF PlaceInv, OwnLock, Waited, WaitsFor, Over
  <2>. QED  BY <1>1, <2>1, <2>3, <2>4, <2>5, AttemptMoves DEF Over
<1>5. CASE ~shutdownCh
  <2> DEFINE g == [attempt[a] EXCEPT !.pc = "route", !.release = FALSE]
  <2>1. /\ g \in AttemptOf /\ g.pc = "route" /\ g.grab = attempt[a].grab
        /\ g.release = FALSE /\ g.cancelled = attempt[a].cancelled
        /\ g.done = attempt[a].done
    BY <1>2 DEF AttemptOf
  <2>2. attempt' = [attempt EXCEPT ![a] = g]
    BY <1>2, <1>5 DEF AfterStop
  <2> HIDE DEF g
  <2>3. attempt' \in [Attempts -> AttemptOf] /\ Others(a) /\ attempt'[a] = g
    BY <1>2, <2>1, <2>2 DEF Others
  <2>4. GrabInv(a)'
    BY <1>1, <1>3, <2>1, <2>3 DEF GrabInv, OwnLock
  <2>5. Waited(a)
    BY <1>1, <1>3, <1>5 DEF PlaceInv, StopRequested, Over
  <2>6. PlaceInv(a)'
    BY <1>1, <1>3, <2>1, <2>3, <2>5 DEF PlaceInv, OwnLock, Waited, WaitsFor, Over
  <2>. QED  BY <1>1, <2>1, <2>3, <2>4, <2>6, AttemptMoves DEF Over
<1>. QED  BY <1>4, <1>5

\* The rollback of the backend.
LEMMA RouteKeeps ==
    ASSUME IInv, NEW a \in Attempts, Route(a) PROVE IInv'
<1>1. /\ attempt[a].pc = "route"
      /\ UNCHANGED <<stateLock, inflight, grabber, inflightAll, run, shutdownCh, core, caller>>
  BY DEF Route
<1>2. attempt[a] \in AttemptOf /\ attempt \in [Attempts -> AttemptOf]
  BY Parts DEF TypeOK
<1>3. /\ GrabInv(a) /\ PlaceInv(a) /\ ~attempt[a].done
  BY <1>1, Parts DEF PlaceInv
<1>4. PICK answer \in {"nil", "error"} :
        attempt' = [attempt EXCEPT ![a].pc = "unlock", ![a].answer = answer]
  BY DEF Route, returned
<1> DEFINE g == [attempt[a] EXCEPT !.pc = "unlock", !.answer = answer]
<1>5. /\ g \in AttemptOf /\ g.pc = "unlock" /\ g.grab = attempt[a].grab
      /\ g.release = attempt[a].release /\ g.cancelled = attempt[a].cancelled
      /\ g.done = attempt[a].done /\ g.answer # "none"
  BY <1>2 DEF AttemptOf, Answers
<1>6. attempt' = [attempt EXCEPT ![a] = g]
  BY <1>2, <1>4
<1> HIDE DEF g
<1>7. attempt' \in [Attempts -> AttemptOf] /\ Others(a) /\ attempt'[a] = g
  BY <1>2, <1>5, <1>6 DEF Others
<1>8. GrabInv(a)'
  BY <1>1, <1>3, <1>5, <1>7 DEF GrabInv, OwnLock
<1>9. PlaceInv(a)'
  BY <1>1, <1>3, <1>5, <1>7 DEF PlaceInv, OwnLock, Waited, WaitsFor, Over
<1>. QED  BY <1>1, <1>5, <1>7, <1>8, <1>9, AttemptMoves DEF Over

\* An attempt that has its own lock gives it back.
LEMMA ReleaseKeeps ==
    ASSUME IInv, NEW a \in Attempts, ReleaseStateLock(a) PROVE IInv'
<1>1. /\ attempt[a].pc = "unlock" /\ Goto(a, "finish")
      /\ stateLock' = IF OwnLock(a) THEN RUnlock(stateLock, a) ELSE stateLock
      /\ UNCHANGED <<inflight, grabber, inflightAll, run, shutdownCh, core, caller>>
  BY DEF ReleaseStateLock, OwnLock
<1>2. GrabInv(a)'
  <2>1. stateLock \in RWMutexOf(Owners)
    BY Parts DEF TypeOK
  <2>2. CASE OwnLock(a)
    BY <1>1, <2>1, <2>2, GotoMoves, RUnlockFields, Parts DEF GrabInv
  <2>3. CASE ~OwnLock(a)
    BY <1>1, <2>1, <2>3, GotoMoves, Parts DEF GrabInv
  <2>. QED  BY <2>2, <2>3
<1>3. PlaceInv(a)'
  BY <1>1, GotoMoves, Parts DEF PlaceInv, OwnLock, Waited, WaitsFor, Over, StopRequested
<1>. QED  BY <1>1, <1>2, <1>3, GotoMoves, AttemptMoves, Parts DEF Over

-----------------------------------------------------------------------------
(* What a step leaves as it was.                                           *)

\* The lock is to goroutine o what it was.
SameLock(o) ==
    /\ o \in stateLock'.readers <=> o \in stateLock.readers
    /\ o \in stateLock'.queued <=> o \in stateLock.queued
    /\ stateLock'.writer = o <=> stateLock.writer = o
    /\ stateLock'.announced = o <=> stateLock.announced = o

LEMMA GrabSame ==
    ASSUME IInv, NEW a \in Attempts, SameLock(a), grabber'[a] = grabber[a],
           attempt'[a].pc = attempt[a].pc, attempt'[a].grab = attempt[a].grab,
           attempt'[a].release = attempt[a].release
    PROVE  GrabInv(a)'
  BY Parts DEF GrabInv, SameLock, OwnLock

LEMMA CallerLockSame ==
    ASSUME IInv, NEW c \in Callers, SameLock(c), caller'[c].pc = caller[c].pc
    PROVE  CallerLockInv(c)'
  BY Parts DEF CallerLockInv, SameLock, HoldsLock

LEMMA CoreSame ==
    ASSUME IInv, SameLock(Core), core' = core, run'.pc = run.pc
    PROVE  CoreInv'
  BY Parts DEF CoreInv, SameLock

\* With the lock, the grabbers and the places of all others as they were, one
\* attempt may move without any care but for its own use of the lock.
LEMMA LockKept ==
    ASSUME IInv, NEW a \in Attempts, Others(a),
           UNCHANGED <<stateLock, grabber, run, core, caller>>, GrabInv(a)'
    PROVE  LockInv'
<1>1. \A o \in Owners : SameLock(o)
  BY DEF SameLock
<1>2. ASSUME NEW b \in Attempts PROVE GrabInv(b)'
  BY <1>1, GrabSame, Distinct DEF Others
<1>3. ASSUME NEW c \in Callers PROVE CallerLockInv(c)'
  BY <1>1, CallerLockSame, Distinct
<1>4. CoreInv' /\ WriterAlone'
  BY <1>1, CoreSame, Distinct, Parts DEF WriterAlone
<1>. QED  BY <1>2, <1>3, <1>4 DEF LockInv

\* The rest of the invariant, when the attempts stay and nobody stops to wait
\* for one that runs.
LEMMA StateKept ==
    ASSUME IInv, UNCHANGED <<attempt, inflightAll>>, MapInv', StopQuiesces',
           \A a \in Attempts : attempt[a].pc \in {"stopping", "stopped"} => StopRequested(a)',
           \A a \in Running : Waited(a) => Waited(a)',
           \A c \in Callers : CallerRsInv(c)'
    PROVE  StateInv'
<1>1. ASSUME NEW a \in Attempts PROVE PlaceInv(a)'
  <2>1. OwnLock(a)' <=> OwnLock(a)
    BY DEF OwnLock
  <2>2. attempt[a].pc \notin Over => a \in Running
    BY DEF Running
  <2>. QED  BY <2>1, <2>2, Parts DEF PlaceInv, Over
<1>2. CountInv'
  BY Parts DEF CountInv, Running
<1>. QED  BY <1>1, <1>2 DEF StateInv

\* In particular when the requests do not change what they wait for.
LEMMA StateSame ==
    ASSUME IInv, UNCHANGED <<inflight, attempt, inflightAll, caller>>, StopQuiesces',
           shutdownCh => shutdownCh'
    PROVE  StateInv'
<1>1. ASSUME NEW a \in Attempts, attempt[a].pc \in {"stopping", "stopped"}
      PROVE  StopRequested(a)'
  BY <1>1, Parts DEF PlaceInv, StopRequested
<1>2. ASSUME NEW a \in Running, Waited(a) PROVE Waited(a)'
  BY <1>2 DEF Waited, WaitsFor
<1>3. ASSUME NEW c \in Callers PROVE CallerRsInv(c)'
  BY Parts DEF CallerRsInv
<1>4. MapInv'
  BY Parts DEF MapInv
<1>. QED  BY <1>1, <1>2, <1>3, <1>4, StateKept

\* A finite set of attempts with one more or one less.
LEMMA RunningFinite == IsFiniteSet(Running)
<1>1. Running \subseteq Attempts
  BY DEF Running
<1>. QED  BY <1>1, OwnersAssumption, FS_Subset

LEMMA FinishKeeps ==
    ASSUME IInv, NEW a \in Attempts, Finish(a) PROVE IInv'
<1>1. /\ attempt[a].pc = "finish" /\ inflightAll' = inflightAll - 1
      /\ UNCHANGED <<stateLock, inflight, grabber, run, shutdownCh, core, caller>>
  BY DEF Finish
<1>2. attempt[a] \in AttemptOf /\ attempt \in [Attempts -> AttemptOf]
  BY Parts DEF TypeOK
<1>3. /\ GrabInv(a) /\ PlaceInv(a) /\ ~attempt[a].done
  BY <1>1, Parts DEF PlaceInv
<1> DEFINE f == Failed(attempt[a].answer)
           g == [attempt[a] EXCEPT !.pc = "leave", !.lastError = f, !.done = TRUE]
<1>4. f \in BOOLEAN /\ attempt[a].answer # "none"
  BY <1>1, <1>3 DEF Failed, PlaceInv
<1>6. attempt' = [attempt EXCEPT ![a] = g]
  BY <1>2 DEF Finish
<1> HIDE DEF f
<1>5. /\ g \in AttemptOf /\ g.pc = "leave" /\ g.grab = attempt[a].grab
      /\ g.release = attempt[a].release /\ g.cancelled = attempt[a].cancelled
      /\ g.done = TRUE /\ g.lastError = f /\ g.answer = attempt[a].answer
  BY <1>2, <1>4 DEF AttemptOf
<1> HIDE DEF g
<1>7. attempt' \in [Attempts -> AttemptOf] /\ Others(a) /\ attempt'[a] = g
  BY <1>2, <1>5, <1>6 DEF Others
<1>8. GrabInv(a)'
  BY <1>1, <1>3, <1>5, <1>7 DEF GrabInv, OwnLock
<1>9. LockInv'
  BY <1>1, <1>7, <1>8, LockKept
<1>10. ASSUME NEW b \in Attempts PROVE PlaceInv(b)'
  <2>1. CASE b = a
    BY <1>4, <1>5, <1>7, <2>1 DEF PlaceInv, Over, f
  <2>2. CASE b # a
    <3>1. attempt'[b] = attempt[b] /\ PlaceInv(b)
      BY <1>7, <2>2, Parts DEF Others
    <3>. QED  BY <1>1, <3>1 DEF PlaceInv, OwnLock, StopRequested, Waited, WaitsFor
  <2>. QED  BY <2>1, <2>2
<1>11. ASSUME NEW c \in Callers PROVE CallerRsInv(c)'
  <2>1. caller[c].rs = a => caller[c].pc # "returned"
    BY <1>3, Parts DEF CallerRsInv
  <2>2. attempt'[a].pc # "unused"
    BY <1>5, <1>7
  <2>. QED  BY <1>1, <1>7, <2>1, <2>2, Parts DEF CallerRsInv, Others
<1>12. MapInv'
  BY <1>1, <1>5, <1>7, Parts DEF MapInv, Others, TypeOK
<1>13. CountInv' /\ inflightAll' \in 0 .. Cardinality(Attempts)
  <2>1. a \in Running
    BY <1>1 DEF Running, Over
  <2>2. Running' = Running \ {a}
    BY <1>5, <1>7 DEF Running, Others, Over
  <2>3. Cardinality(Running \ {a}) = Cardinality(Running) - 1 /\ Cardinality(Running) \in Nat
    BY <2>1, RunningFinite, FS_RemoveElement, FS_CardinalityType
  <2>4. Cardinality(Running \ {a}) \in Nat
    BY RunningFinite, FS_RemoveElement, FS_CardinalityType
  <2>5. CountInv'
    BY <1>1, <2>2, <2>3, Parts DEF CountInv
  <2>6. inflightAll' \in 0 .. Cardinality(Attempts)
    <3>1. inflightAll \in 0 .. Cardinality(Attempts) /\ inflightAll' \in Nat
      BY <1>1, <2>3, <2>4, Parts DEF CountInv, TypeOK
    <3>2. Cardinality(Attempts) \in Nat
      BY OwnersAssumption, FS_CardinalityType
    <3>. QED  BY <1>1, <3>1, <3>2
  <2>. QED  BY <2>5, <2>6
<1>14. StopQuiesces'
  BY <1>1, Parts DEF StopQuiesces
<1>15. TypeOK'
  BY <1>1, <1>7, <1>13, Parts DEF TypeOK
<1>. QED  BY <1>9, <1>10, <1>11, <1>12, <1>13, <1>14, <1>15 DEF IInv, StateInv

\* What is remembered of an attempt that is over.
LEMMA RememberedFields ==
    ASSUME NEW a \in Attempts, attempt[a] \in AttemptOf, NEW refs
    PROVE  /\ Remembered(a, refs) \in AttemptOf
           /\ Remembered(a, refs).pc = (IF refs = {} THEN "unused" ELSE "over")
           /\ Remembered(a, refs).done <=> refs # {}
           /\ refs # {} => /\ Remembered(a, refs).answer = attempt[a].answer
                           /\ Remembered(a, refs).lastError = attempt[a].lastError
<1>1. attempt[a].answer \in Answers /\ attempt[a].lastError \in BOOLEAN
  BY DEF AttemptOf
<1>2. Unused \in AttemptOf /\ Unused.pc = "unused" /\ ~Unused.done
  BY DEF AttemptOf, Unused, Answers
<1>3. CASE refs = {}
  BY <1>2, <1>3 DEF Remembered
<1>4. CASE refs # {}
  <2> DEFINE g == [pc |-> "over", path |-> Nobody, grab |-> FALSE, cancelled |-> FALSE,
                   release |-> FALSE, done |-> TRUE, answer |-> attempt[a].answer,
                   lastError |-> attempt[a].lastError]
  <2>1. Remembered(a, refs) = g
    BY <1>4 DEF Remembered, Unused
  <2>2. g \in AttemptOf
    BY <1>1 DEF AttemptOf
  <2>. QED  BY <1>4, <2>1, <2>2
<1>. QED  BY <1>3, <1>4

\* The attempt leaves the map, and is remembered by who waits for it only.
LEMMA LeaveKeeps ==
    ASSUME IInv, NEW a \in Attempts, LeaveInflight(a) PROVE IInv'
<1>1. /\ attempt[a].pc = "leave"
      /\ inflight' = [p \in Paths |-> IF inflight[p] = a THEN Nobody ELSE inflight[p]]
      /\ attempt' = [attempt EXCEPT ![a] = Remembered(a, RefsTo(a))]
      /\ UNCHANGED <<stateLock, grabber, inflightAll, run, shutdownCh, core, caller>>
  BY DEF LeaveInflight
<1>2. attempt[a] \in AttemptOf /\ attempt \in [Attempts -> AttemptOf]
  BY Parts DEF TypeOK
<1>3. GrabInv(a) /\ PlaceInv(a) /\ attempt[a].done
  BY <1>1, Parts DEF PlaceInv
<1> DEFINE g == Remembered(a, RefsTo(a))
<1>4. /\ g \in AttemptOf /\ g.pc \in {"unused", "over"}
      /\ g.pc = "unused" <=> RefsTo(a) = {}
      /\ g.done <=> g.pc = "over"
      /\ g.pc = "over" => g.lastError = attempt[a].lastError /\ g.answer = attempt[a].answer
  BY <1>2, RememberedFields
<1> HIDE DEF g
<1>5. attempt' \in [Attempts -> AttemptOf] /\ Others(a) /\ attempt'[a] = g
  BY <1>1, <1>2, <1>4 DEF Others, g
<1>6. GrabInv(a)'
  BY <1>1, <1>3, <1>4, <1>5 DEF GrabInv, OwnLock
<1>7. LockInv'
  BY <1>1, <1>5, <1>6, LockKept
<1>8. ASSUME NEW b \in Attempts PROVE PlaceInv(b)'
  <2>1. CASE b = a
    <3>1. /\ attempt[a].lastError <=> Failed(attempt[a].answer)
          /\ attempt[a].answer # "none"
      BY <1>1, <1>3 DEF PlaceInv
    <3>. QED  BY <1>4, <1>5, <2>1, <3>1 DEF PlaceInv, Over
  <2>2. CASE b # a
    <3>1. attempt'[b] = attempt[b] /\ PlaceInv(b)
      BY <1>5, <2>2, Parts DEF Others
    <3>. QED  BY <1>1, <3>1 DEF PlaceInv, OwnLock, StopRequested, Waited, WaitsFor
  <2>. QED  BY <2>1, <2>2
<1>9. ASSUME NEW c \in Callers PROVE CallerRsInv(c)'
  <2>1. CASE caller[c].rs = a
    <3>1. g.pc = "over" /\ g.done /\ g.lastError = attempt[a].lastError
      BY <1>4, <2>1 DEF RefsTo
    <3>. QED  BY <1>1, <1>5, <2>1, <3>1, Parts DEF CallerRsInv
  <2>2. CASE caller[c].rs # a
    BY <1>1, <1>5, <2>2, Parts DEF CallerRsInv, Others
  <2>. QED  BY <2>1, <2>2
<1>10. MapInv'
  <2>1. SUFFICES ASSUME NEW p \in Paths, inflight'[p] # Nobody
                 PROVE  attempt'[inflight'[p]].pc \notin {"unused", "over"}
    BY DEF MapInv
  <2>2. inflight'[p] = inflight[p] /\ inflight[p] # a /\ inflight[p] \in Attempts
    BY <1>1, <2>1, Parts DEF TypeOK
  <2>. QED  BY <1>5, <2>1, <2>2, Parts DEF MapInv, Others
<1>11. CountInv'
  <2>1. Running' = Running
    BY <1>1, <1>4, <1>5 DEF Running, Others, Over
  <2>. QED  BY <1>1, <2>1, Parts DEF CountInv
<1>12. StopQuiesces'
  BY <1>1, <1>4, <1>5, Parts DEF StopQuiesces, Others
<1>13. TypeOK'
  <2>1. inflight' \in [Paths -> Attempts \cup {Nobody}]
    BY <1>1, Parts DEF TypeOK
  <2>. QED  BY <1>1, <1>5, <2>1, Parts DEF TypeOK
<1>. QED  BY <1>7, <1>8, <1>9, <1>10, <1>11, <1>12, <1>13 DEF IInv, StateInv

LEMMA AttemptKeeps ==
    ASSUME IInv, NEW a \in Attempts, AttemptStep(a) PROVE IInv'
  BY SelectDoneKeeps, SelectStopKeeps, StopGrabbingKeeps, AfterStopKeeps, RouteKeeps,
     ReleaseKeeps, FinishKeeps, LeaveKeeps DEF AttemptStep

-----------------------------------------------------------------------------
(* Steps of the goroutine that takes the lock for an attempt.              *)

LEMMA GrabberRLockKeeps ==
    ASSUME IInv, NEW a \in Attempts, GrabberRLock(a) PROVE IInv'
<1>1. /\ grabber[a] = "start" /\ stateLock' = RLock(stateLock, a)
      /\ grabber' = [grabber EXCEPT ![a] = "rlock"]
      /\ UNCHANGED <<inflight, attempt, inflightAll, run, shutdownCh, core, caller>>
  BY DEF GrabberRLock
<1>2. stateLock \in RWMutexOf(Owners) /\ grabber \in [Attempts -> {"start", "rlock", "done"}]
  BY Parts DEF TypeOK
<1>3. a \in Owners
  BY Distinct
<1>4. ASSUME NEW o \in Owners, o # a PROVE SameLock(o)
  BY <1>1, <1>2, <1>3, <1>4, RLockFields DEF SameLock
<1>5. /\ grabber'[a] = "rlock" /\ \A b \in Attempts : b # a => grabber'[b] = grabber[b]
      /\ grabber' \in [Attempts -> {"start", "rlock", "done"}]
  BY <1>1, <1>2
<1>6. GrabInv(a)'
  <2>1. a \notin stateLock.readers \cup stateLock.queued
    BY <1>1, Parts DEF GrabInv
  <2>2. /\ a \in stateLock'.readers \cup stateLock'.queued
        /\ a \notin stateLock'.readers \cap stateLock'.queued
    BY <1>1, <1>2, <1>3, <2>1, RLockFields
  <2>3. ~(attempt[a].pc \in {"route", "unlock"} /\ OwnLock(a))
    BY <1>1, Parts DEF GrabInv
  <2>. QED  BY <1>1, <1>5, <2>2, <2>3 DEF GrabInv, OwnLock
<1>7. ASSUME NEW b \in Attempts PROVE GrabInv(b)'
  BY <1>1, <1>4, <1>5, <1>6, GrabSame, Distinct
<1>8. ASSUME NEW c \in Callers PROVE CallerLockInv(c)'
  BY <1>1, <1>4, CallerLockSame, Distinct
<1>9. CoreInv'
  BY <1>1, <1>4, CoreSame, Distinct
<1>10. WriterAlone'
  BY <1>1, <1>2, <1>3, RLockFields, Parts DEF WriterAlone
<1>11. StateInv'
  BY <1>1, StateSame, Parts DEF StopQuiesces
<1>12. TypeOK'
  BY <1>1, <1>2, <1>3, <1>5, RLockFields, Parts DEF TypeOK
<1>. QED  BY <1>7, <1>8, <1>9, <1>10, <1>11, <1>12 DEF IInv, LockInv

\* The goroutine has the lock: it keeps it for an attempt that waits.
LEMMA GrabberLockedKeeps ==
    ASSUME IInv, NEW a \in Attempts, GrabberLocked(a) PROVE IInv'
<1>1. /\ grabber[a] = "rlock" /\ a \in stateLock.readers
      /\ stateLock' = IF parentWaiting(a) THEN stateLock ELSE RUnlock(stateLock, a)
      /\ grabber' = [grabber EXCEPT ![a] = "done"]
      /\ UNCHANGED <<inflight, attempt, inflightAll, run, shutdownCh, core, caller>>
  BY DEF GrabberLocked
<1>2. stateLock \in RWMutexOf(Owners) /\ grabber \in [Attempts -> {"start", "rlock", "done"}]
  BY Parts DEF TypeOK
<1>3. /\ stateLock' \in RWMutexOf(Owners) /\ stateLock'.readers \subseteq stateLock.readers
      /\ stateLock'.writer = stateLock.writer /\ stateLock'.announced = stateLock.announced
      /\ stateLock'.queued = stateLock.queued
      /\ a \in stateLock'.readers <=> parentWaiting(a)
  BY <1>1, <1>2, RUnlockFields
<1>4. ASSUME NEW o \in Owners, o # a PROVE SameLock(o)
  BY <1>1, <1>2, <1>4, RUnlockFields DEF SameLock
<1>5. /\ grabber'[a] = "done" /\ \A b \in Attempts : b # a => grabber'[b] = grabber[b]
      /\ grabber' \in [Attempts -> {"start", "rlock", "done"}]
  BY <1>1, <1>2
<1>6. GrabInv(a)'
  <2>1. a \notin stateLock'.queued
    BY <1>1, <1>3, Parts DEF GrabInv
  <2>2. ~(attempt[a].pc \in {"route", "unlock"} /\ OwnLock(a))
    BY <1>1, Parts DEF GrabInv
  <2>. QED  BY <1>1, <1>3, <1>5, <2>1, <2>2 DEF GrabInv, OwnLock, parentWaiting
<1>7. ASSUME NEW b \in Attempts PROVE GrabInv(b)'
  BY <1>1, <1>4, <1>5, <1>6, GrabSame, Distinct
<1>8. ASSUME NEW c \in Callers PROVE CallerLockInv(c)'
  BY <1>1, <1>4, CallerLockSame, Distinct
<1>9. CoreInv'
  BY <1>1, <1>4, CoreSame, Distinct
<1>10. WriterAlone'
  BY <1>3, Parts DEF WriterAlone
<1>11. StateInv'
  BY <1>1, StateSame, Parts DEF StopQuiesces
<1>12. TypeOK'
  BY <1>1, <1>3, <1>5, Parts DEF TypeOK
<1>. QED  BY <1>7, <1>8, <1>9, <1>10, <1>11, <1>12 DEF IInv, LockInv

-----------------------------------------------------------------------------
(* Steps of the core and of the run goroutine.                             *)

\* A step of the core alone, with the lock to everyone else as it was.
LEMMA CoreMoves ==
    ASSUME IInv, UNCHANGED <<inflight, attempt, grabber, inflightAll, caller>>,
           \A o \in Owners : o # Core => SameLock(o),
           shutdownCh => shutdownCh',
           TypeOK', CoreInv', WriterAlone', StopQuiesces'
    PROVE  IInv'
<1>1. ASSUME NEW a \in Attempts PROVE GrabInv(a)'
  BY GrabSame, Distinct
<1>2. ASSUME NEW c \in Callers PROVE CallerLockInv(c)'
  BY CallerLockSame, Distinct
<1>3. StateInv'
  BY StateSame
<1>. QED  BY <1>1, <1>2, <1>3 DEF IInv, LockInv

LEMMA RunKeeps ==
    ASSUME IInv, RunTick \/ RunShutdown PROVE IInv'
<1>1. /\ run.pc = "select" /\ run' \in [pc : {"trigger", "done"}, todo : SUBSET Paths]
      /\ UNCHANGED <<stateLock, mgrVars, shutdownCh, core, caller>>
  BY Parts DEF RunTick, RunShutdown, TypeOK
<1>2. TypeOK'
  BY <1>1, Parts DEF TypeOK, mgrVars
<1>3. CoreInv' /\ WriterAlone' /\ StopQuiesces'
  BY <1>1, Parts DEF CoreInv, WriterAlone, StopQuiesces, mgrVars
<1>. QED  BY <1>1, <1>2, <1>3, CoreMoves DEF SameLock, mgrVars

LEMMA SealOrUnsealKeeps ==
    ASSUME IInv, SealOrUnseal PROVE IInv'
<1>1. /\ core \in {"unsealed", "sealed"} /\ stateLock.writer = Nobody
      /\ stateLock.announced = Nobody /\ stateLock' = Announce(stateLock, Core)
      /\ core' = IF core = "unsealed" THEN "sealing" ELSE "unsealing"
      /\ UNCHANGED <<mgrVars, run, shutdownCh, caller>>
  BY DEF SealOrUnseal, CanAnnounce
<1>2. stateLock \in RWMutexOf(Owners)
  BY Parts DEF TypeOK
<1>3. /\ stateLock' \in RWMutexOf(Owners)
      /\ stateLock'.writer = Nobody /\ stateLock'.announced = Core
      /\ stateLock'.readers = stateLock.readers /\ stateLock'.queued = stateLock.queued
  BY <1>1, <1>2, AnnounceFields, Distinct
<1>4. TypeOK'
  BY <1>1, <1>3, Parts DEF TypeOK, mgrVars
<1>5. CoreInv'
  BY <1>1, <1>3, Parts, Distinct DEF CoreInv
<1>6. WriterAlone' /\ StopQuiesces'
  BY <1>1, <1>3, Parts DEF WriterAlone, StopQuiesces, mgrVars
<1>7. ASSUME NEW o \in Owners, o # Core PROVE SameLock(o)
  <2>1. o # Nobody
    BY OwnersAssumption DEF Owners
  <2>. QED  BY <1>1, <1>3, <1>7, <2>1 DEF SameLock
<1>. QED  BY <1>1, <1>4, <1>5, <1>6, <1>7, CoreMoves DEF mgrVars

LEMMA StopKeeps ==
    ASSUME IInv, Stop PROVE IInv'
<1>1. /\ core = "sealing" /\ stateLock.announced = Core /\ stateLock.readers = {}
      /\ stateLock' = Lock(stateLock, Core) /\ shutdownCh' = TRUE /\ core' = "waitRun"
      /\ UNCHANGED <<mgrVars, run, caller>>
  BY DEF Stop, CanLock
<1>2. stateLock \in RWMutexOf(Owners)
  BY Parts DEF TypeOK
<1>3. /\ stateLock' \in RWMutexOf(Owners)
      /\ stateLock'.writer = Core /\ stateLock'.announced = Nobody
      /\ stateLock'.readers = {} /\ stateLock'.queued = stateLock.queued
  BY <1>1, <1>2, LockFields, Distinct
<1>4. TypeOK'
  BY <1>1, <1>3, Parts DEF TypeOK, mgrVars
<1>5. CoreInv'
  BY <1>1, <1>3, Parts, Distinct DEF CoreInv
<1>6. WriterAlone' /\ StopQuiesces'
  BY <1>1, <1>3 DEF WriterAlone, StopQuiesces
<1>7. ASSUME NEW o \in Owners, o # Core PROVE SameLock(o)
  <2>1. o # Nobody
    BY OwnersAssumption DEF Owners
  <2>2. stateLock.writer = Nobody
    BY <1>1, Parts, Distinct DEF WriterAlone
  <2>. QED  BY <1>1, <1>3, <1>7, <2>1, <2>2 DEF SameLock
<1>. QED  BY <1>1, <1>4, <1>5, <1>6, <1>7, CoreMoves DEF mgrVars

\* Stop waited for the run goroutine, and then for every attempt.
LEMMA StopWaitsKeeps ==
    ASSUME IInv, StopRunDone \/ StopInflightDone PROVE IInv'
<1>1. UNCHANGED <<stateLock, mgrVars, run, shutdownCh, caller>>
  BY DEF StopRunDone, StopInflightDone
<1>2. TypeOK' /\ WriterAlone'
  BY <1>1, Parts DEF TypeOK, WriterAlone, mgrVars, StopRunDone, StopInflightDone
<1>3. CoreInv'
  BY <1>1, Parts DEF CoreInv, StopRunDone, StopInflightDone
<1>4. StopQuiesces'
  <2>1. CASE StopRunDone
    BY <2>1 DEF StopRunDone, StopQuiesces
  <2>2. CASE StopInflightDone
    <3>1. Cardinality(Running) = 0
      BY <2>2, Parts DEF StopInflightDone, CountInv
    <3>2. Running = {}
      BY <3>1, RunningFinite, FS_EmptySet
    <3>3. \A a \in Attempts : attempt[a].pc \in Over
      BY <3>2 DEF Running
    <3>. QED  BY <1>1, <2>2, <3>3 DEF StopInflightDone, StopQuiesces, mgrVars, Over
  <2>. QED  BY <2>1, <2>2
<1>. QED  BY <1>1, <1>2, <1>3, <1>4, CoreMoves DEF SameLock, mgrVars

\* Unlock makes readers of those queued, to which only the goroutines that
\* wait in RLock belong.
LEMMA UnlockedGrab ==
    ASSUME IInv, NEW a \in Attempts, stateLock'.readers = stateLock.readers \cup stateLock.queued,
           stateLock'.queued = {}, grabber'[a] = grabber[a], attempt'[a].pc = attempt[a].pc,
           attempt'[a].grab = attempt[a].grab, attempt'[a].release = attempt[a].release
    PROVE  GrabInv(a)'
  BY Parts DEF GrabInv, OwnLock

LEMMA UnlockedCaller ==
    ASSUME IInv, NEW c \in Callers, stateLock'.readers = stateLock.readers \cup stateLock.queued,
           stateLock'.queued = {}, stateLock'.writer = Nobody, stateLock.writer # c,
           stateLock'.announced = c <=> stateLock.announced = c, caller'[c] = caller[c]
    PROVE  CallerLockInv(c)'
<1>1. caller[c] \in CallerOf
  BY Parts DEF TypeOK
<1>2. c \in stateLock.queued => caller[c].pc = "rlock"
  BY <1>1, Parts DEF CallerLockInv, CallerOf
<1>. QED  BY <1>2, Parts, Distinct DEF CallerLockInv, HoldsLock

LEMMA SealUnlockKeeps ==
    ASSUME IInv, SealUnlock PROVE IInv'
<1>1. /\ core = "stopped" /\ stateLock' = Unlock(stateLock) /\ core' = "sealed"
      /\ UNCHANGED <<mgrVars, run, shutdownCh, caller>>
  BY DEF SealUnlock
<1>2. stateLock \in RWMutexOf(Owners) /\ stateLock.writer = Core
  BY <1>1, Parts DEF TypeOK, CoreInv
<1>3. /\ stateLock' \in RWMutexOf(Owners)
      /\ stateLock'.writer = Nobody /\ stateLock'.announced = stateLock.announced
      /\ stateLock'.readers = stateLock.readers \cup stateLock.queued /\ stateLock'.queued = {}
  BY <1>1, <1>2, UnlockFields
<1>4. ASSUME NEW a \in Attempts PROVE GrabInv(a)'
  BY <1>1, <1>3, UnlockedGrab DEF mgrVars
<1>5. ASSUME NEW c \in Callers PROVE CallerLockInv(c)'
  BY <1>1, <1>2, <1>3, UnlockedCaller, Distinct
<1>6. CoreInv' /\ WriterAlone'
  BY <1>1, <1>3, Parts, Distinct DEF CoreInv, WriterAlone
<1>7. StateInv'
  <2>1. StopQuiesces'
    BY <1>1, Parts DEF StopQuiesces, mgrVars
  <2>. QED  BY <1>1, <2>1, StateSame DEF mgrVars
<1>8. TypeOK'
  BY <1>1, <1>3, Parts DEF TypeOK, mgrVars
<1>. QED  BY <1>4, <1>5, <1>6, <1>7, <1>8 DEF IInv, LockInv

\* A new manager, which knows of no attempt: the shutdown is over, and nobody
\* is left who was stopped by it.
LEMMA startRollbackKeeps ==
    ASSUME IInv, startRollback PROVE IInv'
<1>1. /\ core = "unsealing" /\ stateLock.announced = Core /\ stateLock.readers = {}
      /\ stateLock' = Unlock(Lock(stateLock, Core)) /\ inflight' = [p \in Paths |-> Nobody]
      /\ run' = [pc |-> "select", todo |-> {}] /\ shutdownCh' = FALSE /\ core' = "unsealed"
      /\ UNCHANGED <<attempt, grabber, inflightAll, caller>>
  BY DEF startRollback, CanLock
<1>2. stateLock \in RWMutexOf(Owners) /\ stateLock.writer = Nobody
  BY <1>1, Parts, Distinct DEF TypeOK, WriterAlone
<1>3. /\ stateLock' \in RWMutexOf(Owners)
      /\ stateLock'.writer = Nobody /\ stateLock'.announced = Nobody
      /\ stateLock'.readers = stateLock.readers \cup stateLock.queued /\ stateLock'.queued = {}
  <2> DEFINE l == Lock(stateLock, Core)
  <2>1. /\ l \in RWMutexOf(Owners) /\ l.announced = Nobody
        /\ l.readers = stateLock.readers /\ l.queued = stateLock.queued
    BY <1>2, LockFields, Distinct
  <2>2. stateLock' = Unlock(l)
    BY <1>1
  <2> HIDE DEF l
  <2>. QED  BY <2>1, <2>2, UnlockFields
<1>4. ASSUME NEW a \in Attempts PROVE GrabInv(a)'
  BY <1>1, <1>3, UnlockedGrab
<1>5. ASSUME NEW c \in Callers PROVE CallerLockInv(c)'
  BY <1>1, <1>2, <1>3, UnlockedCaller, Distinct
<1>6. CoreInv' /\ WriterAlone'
  BY <1>1, <1>3, Parts, Distinct DEF CoreInv, WriterAlone
<1>7. StateInv'
  <2>1. MapInv' /\ StopQuiesces'
    BY <1>1 DEF MapInv, StopQuiesces
  <2>2. \A a \in Attempts : attempt[a].pc \notin {"stopping", "stopped"}
    BY <1>1, Parts DEF StopQuiesces
  <2>3. ASSUME NEW a \in Running, Waited(a) PROVE Waited(a)'
    BY <1>1, <2>3 DEF Waited, WaitsFor
  <2>4. ASSUME NEW c \in Callers PROVE CallerRsInv(c)'
    BY <1>1, Parts DEF CallerRsInv
  <2>. QED  BY <1>1, <2>1, <2>2, <2>3, <2>4, StateKept
<1>8. TypeOK'
  BY <1>1, <1>3, Parts DEF TypeOK
<1>. QED  BY <1>4, <1>5, <1>6, <1>7, <1>8 DEF IInv, LockInv

LEMMA CoreKeeps ==
    ASSUME IInv, SealOrUnseal \/ CoreStep PROVE IInv'
  BY SealOrUnsealKeeps, StopKeeps, StopWaitsKeeps, SealUnlockKeeps, startRollbackKeeps DEF CoreStep

-----------------------------------------------------------------------------
(* Steps of a request.                                                     *)

\* A step of request c alone, with the lock to everyone else as it was.
LEMMA CallerMoves ==
    ASSUME IInv, NEW c \in Callers, caller' \in [Callers -> CallerOf],
           \A d \in Callers : d # c => caller'[d] = caller[d],
           UNCHANGED <<mgrVars, run, shutdownCh, core>>,
           stateLock' \in RWMutexOf(Owners), WriterAlone',
           \A o \in Owners : o # c => SameLock(o),
           CallerLockInv(c)', CallerRsInv(c)',
           \A a \in Running : WaitsFor(c, a) => WaitsFor(c, a)'
    PROVE  IInv'
<1>1. UNCHANGED <<inflight, attempt, grabber, inflightAll>>
  BY DEF mgrVars
<1>2. ASSUME NEW a \in Attempts PROVE GrabInv(a)'
  BY <1>1, GrabSame, Distinct
<1>3. ASSUME NEW d \in Callers PROVE CallerLockInv(d)' /\ CallerRsInv(d)'
  <2>1. CASE d = c
    BY <2>1
  <2>2. CASE d # c
    <3>1. caller'[d] = caller[d] /\ SameLock(d)
      BY <2>2, Distinct
    <3>2. CallerLockInv(d)'
      BY <3>1, CallerLockSame
    <3>3. CallerRsInv(d)'
      BY <1>1, <3>1, Parts DEF CallerRsInv
    <3>. QED  BY <3>2, <3>3
  <2>. QED  BY <2>1, <2>2
<1>4. CoreInv'
  BY CoreSame, Distinct
<1>5. StateInv'
  <2>1. ASSUME NEW a \in Attempts, attempt[a].pc \in {"stopping", "stopped"}
        PROVE  StopRequested(a)'
    BY <1>1, <2>1, Parts DEF PlaceInv, StopRequested
  <2>2. ASSUME NEW a \in Running, Waited(a) PROVE Waited(a)'
    <3>1. PICK d \in Callers : WaitsFor(d, a)
      BY <2>2 DEF Waited
    <3>2. d # c => WaitsFor(d, a)'
      BY <3>1 DEF WaitsFor
    <3>3. WaitsFor(d, a)'
      BY <3>1, <3>2
    <3>. QED  BY <3>3 DEF Waited
  <2>3. MapInv' /\ StopQuiesces'
    BY <1>1, Parts DEF MapInv, StopQuiesces
  <2>. QED  BY <1>1, <1>3, <2>1, <2>2, <2>3, StateKept
<1>6. TypeOK'
  BY <1>1, Parts DEF TypeOK
<1>. QED  BY <1>2, <1>3, <1>4, <1>5, <1>6 DEF IInv, LockInv

\* A request that changes its place only.
LEMMA PcMoves ==
    ASSUME IInv, NEW c \in Callers, NEW x, caller' = [caller EXCEPT ![c].pc = x],
           x \in {"rlock", "lock", "locked", "wait"}
    PROVE  /\ caller' \in [Callers -> CallerOf]
           /\ \A d \in Callers : d # c => caller'[d] = caller[d]
           /\ caller'[c].pc = x /\ caller'[c].rs = caller[c].rs
<1> DEFINE g == [caller[c] EXCEPT !.pc = x]
<1>1. caller[c] \in CallerOf /\ caller \in [Callers -> CallerOf]
  BY Parts DEF TypeOK
<1>2. g \in CallerOf /\ g.pc = x /\ g.rs = caller[c].rs
  BY <1>1 DEF CallerOf
<1>3. caller' = [caller EXCEPT ![c] = g]
  BY <1>1
<1> HIDE DEF g
<1>. QED  BY <1>1, <1>2, <1>3

LEMMA CallerRLockKeeps ==
    ASSUME IInv, NEW c \in Callers, CallerRLock(c) PROVE IInv'
<1>1. /\ caller[c].pc = "idle" /\ stateLock' = RLock(stateLock, c)
      /\ caller' = [caller EXCEPT ![c].pc = "rlock"]
      /\ UNCHANGED <<mgrVars, run, shutdownCh, core>>
  BY DEF CallerRLock
<1>2. /\ caller' \in [Callers -> CallerOf] /\ \A d \in Callers : d # c => caller'[d] = caller[d]
      /\ caller'[c].pc = "rlock" /\ caller'[c].rs = caller[c].rs
  BY <1>1, PcMoves
<1>3. stateLock \in RWMutexOf(Owners) /\ c \in Owners
  BY Parts, Distinct DEF TypeOK
<1>4. stateLock' \in RWMutexOf(Owners) /\ WriterAlone'
  BY <1>1, <1>3, RLockFields, Parts DEF WriterAlone
<1>5. ASSUME NEW o \in Owners, o # c PROVE SameLock(o)
  BY <1>1, <1>3, <1>5, RLockFields DEF SameLock
<1>6. CallerLockInv(c)'
  <2>1. c \notin stateLock.readers \cup stateLock.queued /\ stateLock.announced # c
        /\ stateLock.writer # c
    BY <1>1, Parts DEF CallerLockInv
  <2>2. /\ c \in stateLock'.readers \cup stateLock'.queued
        /\ c \notin stateLock'.readers \cap stateLock'.queued
        /\ stateLock'.announced # c /\ stateLock'.writer # c
    BY <1>1, <1>3, <2>1, RLockFields
  <2>. QED  BY <1>1, <2>2, <1>2 DEF CallerLockInv
<1>7. CallerRsInv(c)' /\ \A a \in Running : ~WaitsFor(c, a)
  BY <1>1, <1>2, Parts DEF CallerRsInv, WaitsFor
<1>. QED  BY <1>1, <1>4, <1>5, <1>6, <1>7, <1>2, CallerMoves

LEMMA CallerLockKeeps ==
    ASSUME IInv, NEW c \in Callers, CallerLock(c) PROVE IInv'
<1>1. /\ caller[c].pc = "idle" /\ stateLock.writer = Nobody /\ stateLock.announced = Nobody
      /\ stateLock' = Announce(stateLock, c)
      /\ caller' = [caller EXCEPT ![c].pc = "lock"]
      /\ UNCHANGED <<mgrVars, run, shutdownCh, core>>
  BY DEF CallerLock, CanAnnounce
<1>2. /\ caller' \in [Callers -> CallerOf] /\ \A d \in Callers : d # c => caller'[d] = caller[d]
      /\ caller'[c].pc = "lock" /\ caller'[c].rs = caller[c].rs
  BY <1>1, PcMoves
<1>3. stateLock \in RWMutexOf(Owners) /\ c \in Owners
  BY Parts, Distinct DEF TypeOK
<1>4. /\ stateLock' \in RWMutexOf(Owners)
      /\ stateLock'.writer = Nobody /\ stateLock'.announced = c
      /\ stateLock'.readers = stateLock.readers /\ stateLock'.queued = stateLock.queued
  BY <1>1, <1>3, AnnounceFields
<1>5. ASSUME NEW o \in Owners, o # c PROVE SameLock(o)
  <2>1. o # Nobody
    BY OwnersAssumption DEF Owners
  <2>. QED  BY <1>1, <1>4, <1>5, <2>1 DEF SameLock
<1>6. CallerLockInv(c)'
  <2>1. c \notin stateLock.readers \cup stateLock.queued /\ c # Nobody
    BY <1>1, Parts, Distinct DEF CallerLockInv
  <2>. QED  BY <1>1, <1>4, <2>1, <1>2 DEF CallerLockInv
<1>7. CallerRsInv(c)' /\ \A a \in Running : ~WaitsFor(c, a)
  BY <1>1, <1>2, Parts DEF CallerRsInv, WaitsFor
<1>8. WriterAlone'
  BY <1>4 DEF WriterAlone
<1>. QED  BY <1>1, <1>4, <1>5, <1>6, <1>7, <1>2, <1>8, CallerMoves

LEMMA CallerLockedKeeps ==
    ASSUME IInv, NEW c \in Callers, CallerLocked(c) PROVE IInv'
<1>1. /\ \/ caller[c].pc = "rlock" /\ c \in stateLock.readers /\ stateLock' = stateLock
         \/ /\ caller[c].pc = "lock" /\ stateLock.announced = c /\ stateLock.readers = {}
            /\ stateLock' = Lock(stateLock, c)
      /\ caller' = [caller EXCEPT ![c].pc = "locked"]
      /\ UNCHANGED <<mgrVars, run, shutdownCh, core>>
  BY DEF CallerLocked, CanLock
<1>2. /\ caller' \in [Callers -> CallerOf] /\ \A d \in Callers : d # c => caller'[d] = caller[d]
      /\ caller'[c].pc = "locked" /\ caller'[c].rs = caller[c].rs
  BY <1>1, PcMoves
<1>3. stateLock \in RWMutexOf(Owners) /\ c \in Owners /\ c # Nobody
  BY Parts, Distinct DEF TypeOK
<1>4. CallerRsInv(c)' /\ \A a \in Running : ~WaitsFor(c, a)
  BY <1>1, <1>2, Parts DEF CallerRsInv, WaitsFor
<1>5. CASE caller[c].pc = "rlock"
  <2>1. stateLock' = stateLock /\ c \in stateLock.readers
    BY <1>1, <1>5
  <2>2. CallerLockInv(c)'
    BY <1>1, <1>5, <2>1, <1>2, Parts DEF CallerLockInv, HoldsLock
  <2>3. WriterAlone' /\ \A o \in Owners : SameLock(o)
    BY <2>1, Parts DEF WriterAlone, SameLock
  <2>. QED  BY <1>1, <1>3, <1>4, <1>2, <2>1, <2>2, <2>3, CallerMoves
<1>6. CASE caller[c].pc = "lock"
  <2>1. stateLock' = Lock(stateLock, c) /\ stateLock.announced = c /\ stateLock.readers = {}
    BY <1>1, <1>6
  <2>2. /\ stateLock' \in RWMutexOf(Owners)
        /\ stateLock'.writer = c /\ stateLock'.announced = Nobody
        /\ stateLock'.readers = {} /\ stateLock'.queued = stateLock.queued
    BY <1>3, <2>1, LockFields
  <2>3. CallerLockInv(c)'
    <3>1. c \notin stateLock.queued
      BY <1>6, Parts DEF CallerLockInv
    <3>. QED  BY <1>1, <1>3, <2>2, <3>1, <1>2 DEF CallerLockInv, HoldsLock
  <2>4. ASSUME NEW o \in Owners, o # c PROVE SameLock(o)
    <3>1. o # Nobody
      BY OwnersAssumption DEF Owners
    <3>2. stateLock.writer = Nobody
      BY <1>3, <2>1, Parts DEF WriterAlone
    <3>. QED  BY <2>1, <2>2, <2>4, <3>1, <3>2 DEF SameLock
  <2>5. WriterAlone'
    BY <2>2 DEF WriterAlone
  <2>. QED  BY <1>1, <1>4, <1>2, <2>2, <2>3, <2>4, <2>5, CallerMoves
<1>. QED  BY <1>1, <1>5, <1>6

\* Rollback returns what the attempt, which is over, left as its last error.
LEMMA RollbackReturnKeeps ==
    ASSUME IInv, NEW c \in Callers, RollbackReturn(c) PROVE IInv'
<1> DEFINE g == [caller[c] EXCEPT !.pc = "returned", !.err = attempt[caller[c].rs].lastError]
<1>1. /\ caller[c].pc = "wait" /\ attempt[caller[c].rs].done
      /\ caller' = [caller EXCEPT ![c] = g]
      /\ UNCHANGED <<stateLock, mgrVars, run, shutdownCh, core>>
  BY Parts DEF RollbackReturn, TypeOK
<1>2. caller[c] \in CallerOf /\ caller \in [Callers -> CallerOf] /\ caller[c].rs \in Attempts
      /\ attempt[caller[c].rs].pc # "unused"
  BY <1>1, Parts DEF TypeOK, CallerRsInv
<1>3. attempt[caller[c].rs] \in AttemptOf
  BY <1>2, Parts DEF TypeOK
<1>4. /\ g \in CallerOf /\ g.pc = "returned" /\ g.rs = caller[c].rs
      /\ g.err = attempt[caller[c].rs].lastError
  BY <1>2, <1>3 DEF CallerOf, AttemptOf
<1> HIDE DEF g
<1>5. /\ caller' \in [Callers -> CallerOf] /\ caller'[c] = g
      /\ \A d \in Callers : d # c => caller'[d] = caller[d]
  BY <1>1, <1>2, <1>4
<1>6. CallerLockInv(c)'
  BY <1>1, <1>4, <1>5, Parts DEF CallerLockInv, HoldsLock
<1>7. CallerRsInv(c)'
  BY <1>1, <1>2, <1>4, <1>5 DEF CallerRsInv, mgrVars
<1>8. \A a \in Running : ~WaitsFor(c, a)
  <2>1. caller[c].rs \notin Running
    BY <1>1, <1>2, Parts DEF Running, PlaceInv, Over
  <2>. QED  BY <2>1 DEF WaitsFor
<1>9. WriterAlone' /\ stateLock' \in RWMutexOf(Owners) /\ \A o \in Owners : SameLock(o)
  BY <1>1, Parts DEF WriterAlone, TypeOK, SameLock
<1>. QED  BY <1>1, <1>5, <1>6, <1>7, <1>8, <1>9, CallerMoves

\* CancelLockGrab: the attempt will go on under the lock of c, who waits.
LEMMA CancelKeeps ==
    ASSUME IInv, NEW c \in Callers, CancelLockGrab(c) PROVE IInv'
<1> DEFINE r == caller[c].rs
           g == [attempt[r] EXCEPT !.cancelled = TRUE]
<1>1. /\ caller[c].pc = "cancel" /\ caller' = [caller EXCEPT ![c].pc = "wait"]
      /\ attempt' = [attempt EXCEPT ![r].cancelled = TRUE]
      /\ UNCHANGED <<stateLock, inflight, grabber, inflightAll, run, shutdownCh, core>>
  BY DEF CancelLockGrab
<1>2. r \in Attempts /\ attempt[r] \in AttemptOf /\ attempt \in [Attempts -> AttemptOf]
  BY <1>1, Parts DEF CallerRsInv, TypeOK
<1>3. /\ caller' \in [Callers -> CallerOf] /\ \A d \in Callers : d # c => caller'[d] = caller[d]
      /\ caller'[c].pc = "wait" /\ caller'[c].rs = caller[c].rs
  BY <1>1, PcMoves
<1>4. /\ g \in AttemptOf /\ g.cancelled /\ g.pc = attempt[r].pc /\ g.grab = attempt[r].grab
      /\ g.release = attempt[r].release /\ g.done = attempt[r].done /\ g.answer = attempt[r].answer
      /\ g.lastError = attempt[r].lastError
  BY <1>2 DEF AttemptOf
<1>5. attempt' = [attempt EXCEPT ![r] = g]
  BY <1>1, <1>2
<1> HIDE DEF g
<1>6. attempt' \in [Attempts -> AttemptOf] /\ Others(r) /\ attempt'[r] = g
  BY <1>2, <1>4, <1>5 DEF Others
<1>7. \A a \in Attempts : /\ attempt'[a].pc = attempt[a].pc /\ attempt'[a].grab = attempt[a].grab
                          /\ attempt'[a].release = attempt[a].release
                          /\ attempt'[a].done = attempt[a].done /\ attempt'[a].answer = attempt[a].answer
                          /\ attempt'[a].lastError = attempt[a].lastError
  BY <1>4, <1>6 DEF Others
<1>8. \A o \in Owners : SameLock(o)
  BY <1>1 DEF SameLock
<1>9. ASSUME NEW a \in Attempts PROVE GrabInv(a)'
  BY <1>1, <1>7, <1>8, GrabSame, Distinct
<1>10. ASSUME NEW a \in Attempts PROVE PlaceInv(a)'
  <2>1. a = r => Waited(a)'
    BY <1>3 DEF Waited, WaitsFor
  <2>2. Waited(a) => Waited(a)'
    BY <1>1, <1>3 DEF Waited, WaitsFor
  <2>3. StopRequested(a) => StopRequested(a)'
    BY <1>1, <1>4, <1>6 DEF StopRequested, Others
  <2>4. attempt'[a].cancelled => attempt[a].cancelled \/ a = r
    BY <1>6 DEF Others
  <2>5. OwnLock(a)' <=> OwnLock(a)
    BY <1>7 DEF OwnLock
  <2>. QED  BY <1>7, <2>1, <2>2, <2>3, <2>4, <2>5, Parts DEF PlaceInv
<1>11. ASSUME NEW d \in Callers PROVE CallerLockInv(d)' /\ CallerRsInv(d)'
  <2>1. CASE d = c
    <3>1. CallerLockInv(c)'
      BY <1>1, <1>3, Parts DEF CallerLockInv, HoldsLock
    <3>2. CallerRsInv(c)'
      BY <1>1, <1>3, <1>7, Parts DEF CallerRsInv
    <3>. QED  BY <2>1, <3>1, <3>2
  <2>2. CASE d # c
    <3>1. CallerLockInv(d)'
      BY <1>3, <1>8, <2>2, CallerLockSame, Distinct
    <3>2. CallerRsInv(d)'
      BY <1>3, <1>7, <2>2, Parts DEF CallerRsInv
    <3>. QED  BY <3>1, <3>2
  <2>. QED  BY <2>1, <2>2
<1>12. CoreInv' /\ WriterAlone'
  BY <1>1, <1>8, CoreSame, Distinct, Parts DEF WriterAlone
<1>13. MapInv' /\ StopQuiesces'
  BY <1>1, <1>7, Parts DEF MapInv, StopQuiesces, TypeOK
<1>14. CountInv'
  <2>1. Running' = Running
    BY <1>7 DEF Running
  <2>. QED  BY <1>1, <2>1, Parts DEF CountInv
<1>15. TypeOK'
  BY <1>1, <1>3, <1>6, Parts DEF TypeOK
<1>. QED  BY <1>9, <1>10, <1>11, <1>12, <1>13, <1>14, <1>15 DEF IInv, LockInv, StateInv

\* The request is over: it gives the lock back, and an attempt that is over is
\* forgotten with the last request that had it.
LEMMA CallerUnlockKeeps ==
    ASSUME IInv, NEW c \in Callers, CallerUnlock(c) PROVE IInv'
<1>1. /\ caller[c].pc \in {"locked", "returned"} /\ caller' = [caller EXCEPT ![c] = Idle]
      /\ stateLock' = IF stateLock.writer = c THEN Unlock(stateLock) ELSE RUnlock(stateLock, c)
      /\ attempt' = [a \in Attempts |->
           IF attempt[a].pc = "over" THEN Remembered(a, RefsTo(a) \ {c}) ELSE attempt[a]]
      /\ UNCHANGED <<inflight, grabber, inflightAll, run, shutdownCh, core>>
  BY DEF CallerUnlock
<1>2. /\ stateLock \in RWMutexOf(Owners) /\ attempt \in [Attempts -> AttemptOf]
      /\ caller \in [Callers -> CallerOf]
  BY Parts DEF TypeOK
<1>3. /\ caller' \in [Callers -> CallerOf] /\ caller'[c].pc = "idle" /\ caller'[c].rs = Nobody
      /\ \A d \in Callers : d # c => caller'[d] = caller[d]
  BY <1>1, <1>2 DEF CallerOf, Idle
<1>4. ASSUME NEW a \in Attempts
      PROVE  /\ attempt'[a] \in AttemptOf
             /\ attempt[a].pc # "over" => attempt'[a] = attempt[a]
             /\ attempt[a].pc = "over" =>
                  /\ attempt'[a].pc \in {"unused", "over"}
                  /\ attempt'[a].done <=> attempt'[a].pc = "over"
                  /\ attempt'[a].pc = "unused" <=> RefsTo(a) \ {c} = {}
                  /\ attempt'[a].pc = "over" => /\ attempt'[a].answer = attempt[a].answer
                                                /\ attempt'[a].lastError = attempt[a].lastError
  <2>1. attempt[a] \in AttemptOf
    BY <1>2
  <2>2. CASE attempt[a].pc = "over"
    <3> DEFINE g == Remembered(a, RefsTo(a) \ {c})
    <3>1. /\ g \in AttemptOf /\ g.pc \in {"unused", "over"}
          /\ g.pc = "unused" <=> RefsTo(a) \ {c} = {}
          /\ g.done <=> g.pc = "over"
          /\ g.pc = "over" => g.lastError = attempt[a].lastError /\ g.answer = attempt[a].answer
      BY <2>1, RememberedFields
    <3>2. attempt'[a] = g
      BY <1>1, <2>2
    <3> HIDE DEF g
    <3>. QED  BY <2>2, <3>1, <3>2
  <2>3. CASE attempt[a].pc # "over"
    BY <1>1, <2>1, <2>3
  <2>. QED  BY <2>2, <2>3
<1>5. attempt' \in [Attempts -> AttemptOf]
  BY <1>1, <1>4
<1>6. ASSUME NEW a \in Attempts PROVE PlaceInv(a)'
  <2>1. CASE attempt[a].pc = "over"
    BY <1>4, <2>1, Parts DEF PlaceInv, Over
  <2>2. CASE attempt[a].pc # "over"
    <3>1. attempt'[a] = attempt[a]
      BY <1>4, <2>2
    <3>2. Waited(a) => Waited(a)'
      BY <1>1, <1>3 DEF Waited, WaitsFor
    <3>3. OwnLock(a)' <=> OwnLock(a)
      BY <3>1 DEF OwnLock
    <3>4. StopRequested(a)' <=> StopRequested(a)
      BY <1>1, <3>1 DEF StopRequested
    <3>. QED  BY <3>1, <3>2, <3>3, <3>4, Parts DEF PlaceInv
  <2>. QED  BY <2>1, <2>2
<1>7. ASSUME NEW d \in Callers PROVE CallerRsInv(d)'
  <2>1. CASE d = c
    BY <1>3, <2>1 DEF CallerRsInv
  <2>2. CASE d # c
    <3>1. caller'[d] = caller[d]
      BY <1>3, <2>2
    <3>2. CASE caller[d].pc \in {"cancel", "wait", "returned"}
      <4> DEFINE a == caller[d].rs
      <4>1. a \in Attempts /\ attempt[a].pc # "unused"
        BY <3>2, Parts DEF CallerRsInv
      <4>2. d \in RefsTo(a) \ {c}
        BY <2>2 DEF RefsTo
      <4>3. attempt[a].pc = "over" => attempt'[a].pc = "over" /\ attempt'[a].done
        BY <1>4, <4>1, <4>2
      <4>4. attempt'[a].pc # "unused" /\ attempt'[a].lastError = attempt[a].lastError
            /\ (attempt[a].done => attempt'[a].done)
        BY <1>4, <4>1, <4>3
      <4>. QED  BY <3>1, <3>2, <4>1, <4>4, Parts DEF CallerRsInv
    <3>3. CASE caller[d].pc \notin {"cancel", "wait", "returned"}
      BY <3>1, <3>3, Parts DEF CallerRsInv
    <3>. QED  BY <3>2, <3>3
  <2>. QED  BY <2>1, <2>2
<1>8. MapInv'
  BY <1>1, <1>4, Parts DEF MapInv, TypeOK
<1>9. CountInv'
  <2>1. Running' = Running
    BY <1>4 DEF Running, Over
  <2>. QED  BY <1>1, <2>1, Parts DEF CountInv
<1>10. StopQuiesces'
  BY <1>1, <1>4, Parts DEF StopQuiesces
<1>11. c \notin stateLock.queued /\ stateLock.announced # c /\ HoldsLock(stateLock, c)
  BY <1>1, Parts DEF CallerLockInv
<1>12. ASSUME NEW a \in Attempts
       PROVE  /\ \/ attempt'[a] = attempt[a]
                 \/ attempt[a].pc = "over" /\ attempt'[a].pc \in {"unused", "over"}
  BY <1>4
<1>13. LockInv' /\ stateLock' \in RWMutexOf(Owners)
  <2>1. CASE stateLock.writer = c
    <3>1. /\ stateLock' \in RWMutexOf(Owners)
          /\ stateLock'.writer = Nobody /\ stateLock'.announced = stateLock.announced
          /\ stateLock'.readers = stateLock.readers \cup stateLock.queued
          /\ stateLock'.queued = {} /\ stateLock.readers = {}
      BY <1>1, <1>2, <2>1, UnlockFields, Parts, Distinct DEF WriterAlone
    <3>2. ASSUME NEW a \in Attempts PROVE GrabInv(a)'
      <4>1. CASE attempt'[a] = attempt[a]
        BY <1>1, <3>1, <4>1, UnlockedGrab
      <4>2. CASE attempt[a].pc = "over" /\ attempt'[a].pc \in {"unused", "over"}
        BY <1>1, <3>1, <4>2, Parts DEF GrabInv
      <4>. QED  BY <1>12, <4>1, <4>2
    <3>3. ASSUME NEW d \in Callers PROVE CallerLockInv(d)'
      <4>1. CASE d = c
        BY <1>3, <1>11, <3>1, <4>1, Distinct DEF CallerLockInv
      <4>2. CASE d # c
        BY <1>3, <2>1, <3>1, <4>2, UnlockedCaller
      <4>. QED  BY <4>1, <4>2
    <3>4. CoreInv' /\ WriterAlone'
      BY <1>1, <2>1, <3>1, Parts, Distinct DEF CoreInv, WriterAlone
    <3>. QED  BY <3>1, <3>2, <3>3, <3>4 DEF LockInv
  <2>2. CASE stateLock.writer # c
    <3>1. /\ stateLock' \in RWMutexOf(Owners)
          /\ stateLock'.writer = stateLock.writer /\ stateLock'.announced = stateLock.announced
          /\ stateLock'.readers = stateLock.readers \ {c} /\ stateLock'.queued = stateLock.queued
      BY <1>1, <1>2, <2>2, RUnlockFields
    <3>2. ASSUME NEW o \in Owners, o # c PROVE SameLock(o)
      BY <3>1, <3>2 DEF SameLock
    <3>3. ASSUME NEW a \in Attempts PROVE GrabInv(a)'
      <4>1. SameLock(a)
        BY <3>2, Distinct
      <4>2. CASE attempt'[a] = attempt[a]
        BY <1>1, <4>1, <4>2, GrabSame
      <4>3. CASE attempt[a].pc = "over" /\ attempt'[a].pc \in {"unused", "over"}
        BY <1>1, <4>1, <4>3, Parts DEF GrabInv, SameLock
      <4>. QED  BY <1>12, <4>2, <4>3
    <3>4. ASSUME NEW d \in Callers PROVE CallerLockInv(d)'
      <4>1. CASE d = c
        BY <1>3, <1>11, <2>2, <3>1, <4>1 DEF CallerLockInv
      <4>2. CASE d # c
        BY <1>3, <3>2, <4>2, CallerLockSame, Distinct
      <4>. QED  BY <4>1, <4>2
    <3>5. CoreInv' /\ WriterAlone'
      <4>1. CoreInv'
        BY <1>1, <3>2, CoreSame, Distinct
      <4>2. WriterAlone'
        BY <3>1, Parts DEF WriterAlone
      <4>. QED  BY <4>1, <4>2
    <3>. QED  BY <3>1, <3>3, <3>4, <3>5 DEF LockInv
  <2>. QED  BY <2>1, <2>2
<1>14. TypeOK'
  BY <1>1, <1>3, <1>5, <1>13, Parts DEF TypeOK
<1>. QED  BY <1>6, <1>7, <1>8, <1>9, <1>10, <1>13, <1>14 DEF IInv, StateInv

-----------------------------------------------------------------------------
(* Starting or joining an attempt.                                         *)

\* The new attempt has an identity that stood for none.
LEMMA NewAttempt ==
    ASSUME IInv, NEW p \in Paths, NEW grab \in BOOLEAN, NewRollbackState(p, grab)
    PROVE  \E a \in Attempts :
             /\ Reusable(a) /\ Others(a) /\ attempt' \in [Attempts -> AttemptOf]
             /\ attempt'[a].pc = (IF grab THEN "select" ELSE "route")
             /\ attempt'[a].grab = grab /\ attempt'[a].release = grab
             /\ ~attempt'[a].cancelled /\ ~attempt'[a].done
             /\ inflight' = [inflight EXCEPT ![p] = a] /\ inflightAll' = inflightAll + 1
             /\ grabber' \in [Attempts -> {"start", "rlock", "done"}]
             /\ grabber'[a] = (IF grab THEN "start" ELSE "done")
             /\ \A b \in Attempts : b # a => grabber'[b] = grabber[b]
<1> DEFINE a == FreeAttempt
           g == [Unused EXCEPT !.pc = IF grab THEN "select" ELSE "route",
                               !.path = p, !.grab = grab, !.release = grab]
<1>1. /\ \E b \in Attempts : Reusable(b)
      /\ inflight' = [inflight EXCEPT ![p] = a] /\ inflightAll' = inflightAll + 1
      /\ attempt' = [attempt EXCEPT ![a] = g]
      /\ grabber' = [grabber EXCEPT ![a] = IF grab THEN "start" ELSE "done"]
  BY DEF NewRollbackState, inflightAllAdd
<1>2. a \in Attempts /\ Reusable(a)
  BY <1>1 DEF FreeAttempt
<1>3. /\ g \in AttemptOf /\ g.pc = (IF grab THEN "select" ELSE "route")
      /\ g.grab = grab /\ g.release = grab /\ ~g.cancelled /\ ~g.done
  BY DEF AttemptOf, Unused, Answers
<1>4. /\ attempt \in [Attempts -> AttemptOf]
      /\ grabber \in [Attempts -> {"start", "rlock", "done"}]
  BY Parts DEF TypeOK
<1> HIDE DEF a, g
<1>5. attempt'[a] = g /\ Others(a) /\ attempt' \in [Attempts -> AttemptOf]
  BY <1>1, <1>2, <1>3, <1>4 DEF Others
<1>6. /\ grabber' \in [Attempts -> {"start", "rlock", "done"}]
      /\ grabber'[a] = (IF grab THEN "start" ELSE "done")
      /\ \A b \in Attempts : b # a => grabber'[b] = grabber[b]
  BY <1>1, <1>2, <1>4
<1>. QED  BY <1>1, <1>2, <1>3, <1>5, <1>6

\* A new attempt waits for the lock itself, or has a caller that holds it.
LEMMA NewAttemptKeeps ==
    ASSUME IInv, NEW p \in Paths, NEW grab \in BOOLEAN, NewRollbackState(p, grab),
           UNCHANGED <<stateLock, shutdownCh, core>>,
           run' \in [pc : {"select", "trigger", "done"}, todo : SUBSET Paths],
           run'.pc = "done" <=> run.pc = "done",
           core \notin {"stopped", "sealed", "unsealing"},
           caller' \in [Callers -> CallerOf],
           \A d \in Callers :
              \/ caller'[d] = caller[d]
              \/ /\ caller[d].pc = "locked" /\ caller'[d].pc = "cancel"
                 /\ caller'[d].rs = inflight'[p],
           ~grab => \E d \in Callers : caller'[d].pc = "cancel" /\ caller'[d].rs = inflight'[p]
    PROVE  IInv'
<1>1. PICK a \in Attempts :
             /\ Reusable(a) /\ Others(a) /\ attempt' \in [Attempts -> AttemptOf]
             /\ attempt'[a].pc = (IF grab THEN "select" ELSE "route")
             /\ attempt'[a].grab = grab /\ attempt'[a].release = grab
             /\ ~attempt'[a].cancelled /\ ~attempt'[a].done
             /\ inflight' = [inflight EXCEPT ![p] = a] /\ inflightAll' = inflightAll + 1
             /\ grabber' \in [Attempts -> {"start", "rlock", "done"}]
             /\ grabber'[a] = (IF grab THEN "start" ELSE "done")
             /\ \A b \in Attempts : b # a => grabber'[b] = grabber[b]
  BY NewAttempt
<1>2. /\ attempt[a].pc = "unused" /\ grabber[a] = "done"
      /\ attempt'[a].pc \in {"select", "route"}
  BY <1>1 DEF Reusable
<1>3. inflight \in [Paths -> Attempts \cup {Nobody}]
  BY Parts DEF TypeOK
<1>4. /\ inflight' \in [Paths -> Attempts \cup {Nobody}] /\ inflight'[p] = a
      /\ \A q \in Paths : q # p => inflight'[q] = inflight[q]
  BY <1>1, <1>3
<1>5. \A o \in Owners : SameLock(o)
  BY DEF SameLock
<1>6. ASSUME NEW b \in Attempts PROVE GrabInv(b)'
  <2>1. CASE b = a
    <3>1. a \notin stateLock.readers \cup stateLock.queued
      BY <1>2, Parts DEF GrabInv
    <3>. QED  BY <1>1, <2>1, <3>1 DEF GrabInv, OwnLock
  <2>2. CASE b # a
    BY <1>1, <1>5, <2>2, GrabSame, Distinct DEF Others
  <2>. QED  BY <2>1, <2>2
<1>7. ASSUME NEW b \in Attempts, Waited(b) PROVE Waited(b)'
  <2>1. PICK d \in Callers : WaitsFor(d, b)
    BY <1>7 DEF Waited
  <2>2. caller'[d] = caller[d]
    BY <2>1 DEF WaitsFor
  <2>. QED  BY <2>1, <2>2 DEF Waited, WaitsFor
<1>8. ASSUME NEW b \in Attempts PROVE PlaceInv(b)'
  <2>1. CASE b = a
    <3>1. grab => OwnLock(a)'
      BY <1>1 DEF OwnLock
    <3>2. ~grab => Waited(a)'
      BY <1>4 DEF Waited, WaitsFor
    <3>. QED  BY <1>1, <2>1, <3>1, <3>2 DEF PlaceInv
  <2>2. CASE b # a
    <3>1. attempt'[b] = attempt[b] /\ PlaceInv(b)
      BY <1>1, <2>2, Parts DEF Others
    <3>2. (OwnLock(b)' <=> OwnLock(b)) /\ (StopRequested(b)' <=> StopRequested(b))
      BY <3>1 DEF OwnLock, StopRequested
    <3>. QED  BY <1>7, <3>1, <3>2 DEF PlaceInv
  <2>. QED  BY <2>1, <2>2
<1>9. ASSUME NEW d \in Callers PROVE CallerLockInv(d)' /\ CallerRsInv(d)'
  <2>1. CASE caller'[d] = caller[d]
    <3>1. CallerLockInv(d)'
      BY <1>5, <2>1, CallerLockSame, Distinct
    <3>2. CASE caller[d].pc \in {"cancel", "wait", "returned"}
      <4>1. caller[d].rs \in Attempts /\ caller[d].rs # a
        BY <1>2, <3>2, Parts DEF CallerRsInv
      <4>2. attempt'[caller[d].rs] = attempt[caller[d].rs]
        BY <1>1, <4>1 DEF Others
      <4>3. CallerRsInv(d)'
        BY <2>1, <4>2, Parts DEF CallerRsInv
      <4>. QED  BY <3>1, <4>3
    <3>3. CASE caller[d].pc \notin {"cancel", "wait", "returned"}
      BY <2>1, <3>1, <3>3, Parts DEF CallerRsInv
    <3>. QED  BY <3>2, <3>3
  <2>2. CASE caller[d].pc = "locked" /\ caller'[d].pc = "cancel" /\ caller'[d].rs = inflight'[p]
    <3>1. CallerLockInv(d)'
      BY <2>2, Parts DEF CallerLockInv, HoldsLock
    <3>2. CallerRsInv(d)'
      BY <1>2, <1>4, <2>2 DEF CallerRsInv
    <3>. QED  BY <3>1, <3>2
  <2>. QED  BY <2>1, <2>2
<1>10. CoreInv' /\ WriterAlone'
  BY Parts DEF CoreInv, WriterAlone
<1>11. MapInv'
  <2>1. SUFFICES ASSUME NEW q \in Paths, inflight'[q] # Nobody
                 PROVE  attempt'[inflight'[q]].pc \notin {"unused", "over"}
    BY DEF MapInv
  <2>2. CASE inflight'[q] = a
    BY <1>2, <2>2
  <2>3. CASE inflight'[q] # a
    <3>1. inflight'[q] = inflight[q] /\ inflight[q] \in Attempts
      BY <1>3, <1>4, <2>1, <2>3
    <3>2. attempt'[inflight[q]] = attempt[inflight[q]]
      BY <1>1, <2>3, <3>1 DEF Others
    <3>. QED  BY <2>1, <3>1, <3>2, Parts DEF MapInv
  <2>. QED  BY <2>2, <2>3
<1>12. CountInv' /\ inflightAll' \in 0 .. Cardinality(Attempts)
  <2>1. a \notin Running
    BY <1>2 DEF Running, Over
  <2>2. Running' = Running \cup {a}
    BY <1>1, <1>2 DEF Running, Others, Over
  <2>3. Cardinality(Running \cup {a}) = Cardinality(Running) + 1 /\ IsFiniteSet(Running \cup {a})
    BY <2>1, RunningFinite, FS_AddElement
  <2>4. CountInv'
    BY <1>1, <2>2, <2>3, Parts DEF CountInv
  <2>5. Running \cup {a} \subseteq Attempts
    BY DEF Running
  <2>6. /\ Cardinality(Running \cup {a}) <= Cardinality(Attempts)
        /\ Cardinality(Attempts) \in Nat /\ Cardinality(Running \cup {a}) \in Nat
    BY <2>3, <2>5, OwnersAssumption, FS_Subset, FS_CardinalityType
  <2>7. inflightAll' = Cardinality(Running \cup {a})
    BY <2>2, <2>4 DEF CountInv
  <2>. QED  BY <2>4, <2>6, <2>7
<1>13. StopQuiesces'
  BY DEF StopQuiesces
<1>14. TypeOK'
  BY <1>1, <1>4, <1>12, Parts DEF TypeOK
<1>. QED  BY <1>6, <1>8, <1>9, <1>10, <1>11, <1>12, <1>13, <1>14 DEF IInv, LockInv, StateInv

LEMMA TriggerKeeps ==
    ASSUME IInv, triggerRollbacks PROVE IInv'
<1>1. PICK p \in run.todo :
        /\ startOrLookupRollback(p, TRUE)
        /\ run' = [pc |-> IF run.todo = {p} THEN "select" ELSE "trigger", todo |-> run.todo \ {p}]
  BY DEF triggerRollbacks
<1>2. run.pc = "trigger" /\ UNCHANGED <<stateLock, shutdownCh, core, caller>>
  BY DEF triggerRollbacks
<1>3. run \in [pc : {"select", "trigger", "done"}, todo : SUBSET Paths] /\ p \in Paths
  BY <1>1, Parts DEF TypeOK
<1>4. run'.pc \in {"select", "trigger"}
      /\ run' \in [pc : {"select", "trigger", "done"}, todo : SUBSET Paths]
  BY <1>1, <1>3
<1>5. core \notin {"waitAll", "stopped", "sealed", "unsealing"}
  BY <1>2, Parts DEF CoreInv
<1>6. caller \in [Callers -> CallerOf]
  BY Parts DEF TypeOK
<1>7. CASE NewRollbackState(p, TRUE)
  BY <1>2, <1>3, <1>4, <1>5, <1>6, <1>7, NewAttemptKeeps
<1>8. CASE UNCHANGED mgrVars
  <2>1. TypeOK'
    BY <1>2, <1>4, <1>8, Parts DEF TypeOK, mgrVars
  <2>2. CoreInv' /\ WriterAlone' /\ StopQuiesces'
    BY <1>2, <1>5, <1>8, Parts DEF CoreInv, WriterAlone, StopQuiesces, mgrVars
  <2>. QED  BY <1>2, <1>8, <2>1, <2>2, CoreMoves DEF SameLock, mgrVars
<1>. QED  BY <1>1, <1>7, <1>8 DEF startOrLookupRollback

\* Rollback finds an attempt that is in the map still, or starts one.
LEMMA RollbackKeeps ==
    ASSUME IInv, NEW c \in Callers, NEW p \in Paths, Rollback(c, p) PROVE IInv'
<1> DEFINE g == [caller[c] EXCEPT !.pc = "cancel", !.rs = inflight'[p]]
<1>1. /\ caller[c].pc = "locked" /\ core \notin {"stopped", "sealed", "unsealing"}
      /\ startOrLookupRollback(p, FALSE)
      /\ caller' = [caller EXCEPT ![c] = g]
      /\ UNCHANGED <<stateLock, run, shutdownCh, core>>
  BY Parts DEF Rollback, TypeOK
<1>2. /\ caller \in [Callers -> CallerOf] /\ caller[c] \in CallerOf
      /\ inflight \in [Paths -> Attempts \cup {Nobody}]
      /\ run \in [pc : {"select", "trigger", "done"}, todo : SUBSET Paths]
  BY Parts DEF TypeOK
<1>3. inflight'[p] \in Attempts
  <2>1. CASE NewRollbackState(p, FALSE)
    <3>1. PICK a \in Attempts : inflight' = [inflight EXCEPT ![p] = a]
      BY <2>1, NewAttempt
    <3>. QED  BY <1>2, <3>1
  <2>2. CASE inflight[p] # Nobody /\ UNCHANGED mgrVars
    BY <1>2, <2>2 DEF mgrVars
  <2>. QED  BY <1>1, <2>1, <2>2 DEF startOrLookupRollback
<1>4. g \in CallerOf /\ g.pc = "cancel" /\ g.rs = inflight'[p]
  BY <1>2, <1>3 DEF CallerOf
<1> HIDE DEF g
<1>5. /\ caller' \in [Callers -> CallerOf] /\ caller'[c].pc = "cancel"
      /\ caller'[c].rs = inflight'[p]
      /\ \A d \in Callers : d # c => caller'[d] = caller[d]
  BY <1>1, <1>2, <1>4
<1>6. CASE NewRollbackState(p, FALSE)
  BY <1>1, <1>2, <1>5, <1>6, NewAttemptKeeps
<1>7. CASE inflight[p] # Nobody /\ UNCHANGED mgrVars
  <2>1. CallerLockInv(c)'
    BY <1>1, <1>5, Parts DEF CallerLockInv, HoldsLock
  <2>2. CallerRsInv(c)'
    BY <1>3, <1>5, <1>7, Parts DEF CallerRsInv, MapInv, mgrVars
  <2>3. WriterAlone' /\ stateLock' \in RWMutexOf(Owners) /\ \A o \in Owners : SameLock(o)
    BY <1>1, Parts DEF WriterAlone, TypeOK, SameLock
  <2>4. \A a \in Running : ~WaitsFor(c, a)
    BY <1>1 DEF WaitsFor
  <2>. QED  BY <1>1, <1>5, <1>7, <2>1, <2>2, <2>3, <2>4, CallerMoves
<1>. QED  BY <1>1, <1>6, <1>7 DEF startOrLookupRollback

-----------------------------------------------------------------------------
(* The theorems.                                                           *)

LEMMA InitIInv == Init => IInv
<1> SUFFICES ASSUME Init PROVE IInv
  OBVIOUS
<1>1. TypeOK
  <2>1. Cardinality(Attempts) \in Nat
    BY OwnersAssumption, FS_CardinalityType
  <2>2. stateLock \in RWMutexOf(Owners)
    BY DEF Init, RWMutexOf, Unlocked
  <2>3. attempt \in [Attempts -> AttemptOf] /\ caller \in [Callers -> CallerOf]
    BY DEF Init, AttemptOf, CallerOf, Unused, Idle, Answers
  <2>4. inflightAll \in 0 .. Cardinality(Attempts)
    BY <2>1 DEF Init
  <2>5. /\ inflight \in [Paths -> Attempts \cup {Nobody}]
        /\ grabber \in [Attempts -> {"start", "rlock", "done"}]
    BY DEF Init
  <2>6. run \in [pc : {"select", "trigger", "done"}, todo : SUBSET Paths]
    BY DEF Init
  <2>7. shutdownCh \in BOOLEAN /\ core = "unsealed"
    BY DEF Init
  <2>. QED  BY <2>2, <2>3, <2>4, <2>5, <2>6, <2>7 DEF TypeOK
<1>2. LockInv
  <2>1. WriterAlone /\ CoreInv
    BY Distinct DEF Init, Unlocked, WriterAlone, CoreInv
  <2>2. \A a \in Attempts : GrabInv(a)
    BY DEF Init, Unlocked, Unused, GrabInv
  <2>3. \A c \in Callers : CallerLockInv(c)
    BY Distinct DEF Init, Unlocked, Idle, CallerLockInv
  <2>. QED  BY <2>1, <2>2, <2>3 DEF LockInv
<1>3. StateInv
  <2>1. \A a \in Attempts : PlaceInv(a)
    BY DEF Init, Unused, PlaceInv, Over
  <2>2. \A c \in Callers : CallerRsInv(c)
    BY DEF Init, Idle, CallerRsInv
  <2>3. MapInv /\ StopQuiesces
    BY DEF Init, MapInv, StopQuiesces
  <2>4. CountInv
    <3>1. Running = {}
      BY DEF Init, Running, Unused, Over
    <3>. QED  BY <3>1, FS_EmptySet DEF CountInv, Init
  <2>. QED  BY <2>1, <2>2, <2>3, <2>4 DEF StateInv
<1>. QED  BY <1>1, <1>2, <1>3 DEF IInv

LEMMA StutterKeeps ==
    ASSUME IInv, UNCHANGED vars PROVE IInv'
<1>1. TypeOK' /\ CoreInv' /\ WriterAlone' /\ StopQuiesces'
  BY Parts DEF TypeOK, CoreInv, WriterAlone, StopQuiesces, vars, mgrVars
<1>. QED  BY <1>1, CoreMoves DEF SameLock, vars, mgrVars

LEMMA NextIInv == IInv /\ [Next]_vars => IInv'
<1> SUFFICES ASSUME IInv, [Next]_vars PROVE IInv'
  OBVIOUS
<1>1. CASE RunTick \/ RunShutdown \/ triggerRollbacks
  BY <1>1, RunKeeps, TriggerKeeps
<1>2. ASSUME NEW a \in Attempts, GrabberStep(a) \/ AttemptStep(a) PROVE IInv'
  BY <1>2, GrabberRLockKeeps, GrabberLockedKeeps, AttemptKeeps DEF GrabberStep
<1>3. ASSUME NEW c \in Callers, CallerRLock(c) \/ CallerLock(c) \/ CallerStep(c) PROVE IInv'
  BY <1>3, CallerRLockKeeps, CallerLockKeeps, CallerLockedKeeps, CancelKeeps,
     RollbackReturnKeeps, CallerUnlockKeeps DEF CallerStep
<1>4. ASSUME NEW c \in Callers, NEW p \in Paths, Rollback(c, p) PROVE IInv'
  BY <1>4, RollbackKeeps
<1>5. CASE SealOrUnseal \/ CoreStep
  BY <1>5, CoreKeeps
<1>6. CASE UNCHANGED vars
  BY <1>6, StutterKeeps
<1>. QED  BY <1>1, <1>2, <1>3, <1>4, <1>5, <1>6 DEF Next

\* Where every goroutine is, what it has of the state lock and who waits for
\* it agree, in every state the rollback manager reaches.
THEOREM RollbackInvariant == Spec => []IInv
  BY InitIInv, NextIInv, PTL DEF Spec

\* A backend is asked to roll back only under the state lock: the attempt's
\* own, or that of a caller of Rollback who waits for the attempt, also when
\* CancelLockGrab, a shutdown and the grabber meet in any order.
THEOREM RouteSafety == Spec => []RouteProtected
<1>1. IInv => RouteProtected
  <2> SUFFICES ASSUME IInv, NEW a \in Attempts, attempt[a].pc = "route"
               PROVE  \/ OwnLock(a) /\ a \in stateLock.readers
                      \/ \E c \in Callers : WaitsFor(c, a) /\ HoldsLock(stateLock, c)
    BY DEF RouteProtected, InRoute, OwnLock
  <2>1. OwnLock(a) => a \in stateLock.readers
    BY Parts DEF GrabInv
  <2>2. ~OwnLock(a) => \E c \in Callers : WaitsFor(c, a)
    BY Parts DEF PlaceInv, Waited
  <2>3. \A c \in Callers : WaitsFor(c, a) => HoldsLock(stateLock, c)
    BY Parts DEF WaitsFor, CallerLockInv
  <2>. QED  BY <2>1, <2>2, <2>3
<1>. QED  BY <1>1, RollbackInvariant, PTL

\* Once Stop has returned, and until the next manager starts, no attempt of
\* the manager can reach a backend, and none counts in inflightAll.
THEOREM StopSafety == Spec => []StopQuiesces
<1>1. IInv => StopQuiesces
  BY Parts
<1>. QED  BY <1>1, RollbackInvariant, PTL

\* A caller of Rollback that got nil had an attempt that is over and had its
\* answer from the backend, whether it started the attempt or joined it, and the
\* answer is no error to attemptRollback.
THEOREM NilSafety == Spec => []NilMeansAnswered
<1>1. IInv => NilMeansAnswered
  <2> SUFFICES ASSUME IInv, NEW c \in Callers, caller[c].pc = "returned", ~caller[c].err
               PROVE  attempt[caller[c].rs].done /\ attempt[caller[c].rs].answer = "nil"
    BY DEF NilMeansAnswered
  <2>1. /\ caller[c].rs \in Attempts /\ attempt[caller[c].rs].done
        /\ ~attempt[caller[c].rs].lastError
    BY Parts DEF CallerRsInv
  <2>2. attempt[caller[c].rs].answer \in Answers
    BY <2>1, Parts DEF TypeOK, AttemptOf
  <2>. QED  BY <2>1, <2>2, Parts DEF PlaceInv, Failed, Answers
<1>. QED  BY <1>1, RollbackInvariant, PTL

\* The read lock taken for an attempt is given back by the attempt or by the
\* goroutine that took it, and by one of them only: nobody is left a reader.
THEOREM LockSafety == Spec => []NoLockLeft
<1>1. IInv => NoLockLeft
  BY Parts DEF NoLockLeft, GrabInv
<1>. QED  BY <1>1, RollbackInvariant, PTL
=============================================================================
