------------------------------ MODULE RWMutex -------------------------------
(***************************************************************************)
(* Go's sync.RWMutex as a value, for Core.stateLock.  What matters about   *)
(* it here is its preference for writers: from the moment a writer has     *)
(* announced itself no new reader gets in, so a reader that waits for a    *)
(* second reader waits for the writer too.  Unlock lets in every reader    *)
(* that queued up meanwhile before the next writer.                        *)
(***************************************************************************)
EXTENDS FiniteSets

CONSTANT Nobody         \* no goroutine

Unlocked == [writer |-> Nobody, announced |-> Nobody, readers |-> {}, queued |-> {}]

RWMutexOf(Owners) ==
    [writer : Owners \cup {Nobody}, announced : Owners \cup {Nobody},
     readers : SUBSET Owners, queued : SUBSET Owners]

\* RLock by p: it holds the lock or it is queued behind a writer.
RLock(l, p) ==
    IF l.writer = Nobody /\ l.announced = Nobody
    THEN [l EXCEPT !.readers = @ \cup {p}]
    ELSE [l EXCEPT !.queued = @ \cup {p}]

RUnlock(l, p) == [l EXCEPT !.readers = @ \ {p}]

\* Lock by p: the writers' own mutex is free and p announces itself ...
CanAnnounce(l) == l.writer = Nobody /\ l.announced = Nobody
Announce(l, p) == [l EXCEPT !.announced = p]

\* ... and holds the lock when the readers it found have gone.
CanLock(l, p) == l.announced = p /\ l.readers = {}
Lock(l, p) == [l EXCEPT !.writer = p, !.announced = Nobody]

Unlock(l) == [l EXCEPT !.writer = Nobody, !.readers = @ \cup l.queued, !.queued = {}]

HoldsLock(l, p) == l.writer = p \/ p \in l.readers
=============================================================================
