-------------------------- MODULE ExpirationRestore --------------------------
(***************************************************************************)
(* Restore mode of the expiration manager (vault/expiration.go): the pool  *)
(* that loads every stored lease after an unseal, and the locks it shares  *)
(* with requests, with OnFailure of the revocation jobs and with Stop.     *)
(*                                                                         *)
(* Module Expiration takes a load in restore mode as one step; here it is  *)
(* the sequence of lock operations it is in the code.  What is loaded is   *)
(* left out: a lease is in tracked once one of the maps pending,           *)
(* nonexpiring and irrevocable holds it.  A thread runs once: a request,   *)
(* a prefix revocation, a failed job and a call of FetchLeaseTimes, which  *)
(* loads a lease without any of these locks, are each one call.            *)
(***************************************************************************)
EXTENDS Integers, FiniteSets

CONSTANTS
    Existing,       \* the leases in storage when Restore collects them
    Registered,     \* leases that were stored after that
    Registering,    \* those of both whose Register has stored the entry and is not done
    Bucket,         \* the lock of each lease: LockForKey hashes its ID
    RestoreWorkers, \* the goroutines of the pool
    Requests,       \* calls of Renew, LazyRevoke or Revoke of one lease
    Prefixes,       \* calls of RevokePrefix over all leases, sync = FALSE
    Failures,       \* OnFailure of jobs that give up
    Fetches,        \* calls of FetchLeaseTimes of one lease
    MaxCalls,       \* how many of these calls a behaviour makes
    StorageFaults,  \* whether storage and backends may fail
    Main,           \* the goroutine of Restore
    None

Leases == Existing \cup Registered
Threads == RestoreWorkers \cup Requests \cup Prefixes \cup Failures \cup Fetches
Buckets == {Bucket[l] : l \in Leases}

\* Both channels are made with len(existing), which counts the namespaces
\* (one), not the leases.
Capacity == 1

ASSUME RestoreAssumption ==
    /\ Existing \cap Registered = {} /\ IsFiniteSet(Existing)
    /\ Registering \subseteq Leases
    /\ DOMAIN Bucket = Leases
    /\ StorageFaults \in BOOLEAN /\ MaxCalls \in Nat
    /\ Main \notin Threads /\ None \notin Threads \cup Leases \cup {Main}
    /\ RestoreWorkers \cap (Requests \cup Prefixes \cup Failures \cup Fetches) = {}
    /\ Requests \cap (Prefixes \cup Failures \cup Fetches) = {}
    /\ Prefixes \cap (Failures \cup Fetches) = {} /\ Failures \cap Fetches = {}

VARIABLES
    restoreMode,
    restoreLocks,       \* FALSE once the slice of lease locks is nil
    restoreLoaded,
    tracked,            \* the leases in one of the maps
    loads,              \* how often each lease was set up under its lease lock
    stored,             \* the leases whose entry is in storage
    deleted,            \* (history) those whose entry was deleted at some time
    registering,        \* those whose Register is not done
    pendingLock,        \* its holder between steps
    leaseLock,          \* the holder of each bucket
    restoreModeLock,
    restoreRequestLock,
    main,               \* where Restore stands
    received,           \* results it has received
    broker,             \* the distributor: what it sends, what is left
    errs, result,       \* how many messages each channel holds
    quit, quitCh,       \* closed channels
    stop,               \* where Stop stands
    proc

locks == <<pendingLock, leaseLock, restoreModeLock, restoreRequestLock>>
entries == <<stored, deleted, registering>>
manager == <<restoreMode, restoreLocks, restoreLoaded, tracked, loads, entries>>
channels == <<broker, errs, result, quit, quitCh>>
vars == <<manager, locks, main, received, channels, stop, proc>>

\* A sync.RWMutex: a waiting writer keeps new readers out.
RWMutex == [readers : SUBSET Threads, waiting : SUBSET (Prefixes \cup {Main}),
            writer : Prefixes \cup {Main, None}]
Unlocked == [readers |-> {}, waiting |-> {}, writer |-> None]
CanRLock(m) == m.writer = None /\ m.waiting = {}
CanLock(m) == m.writer = None /\ m.readers = {}

TypeOK ==
    /\ restoreMode \in BOOLEAN /\ restoreLocks \in BOOLEAN
    /\ restoreLoaded \subseteq Leases /\ tracked \subseteq Leases
    /\ loads \in [Leases -> Nat]
    /\ stored \subseteq Leases /\ deleted \subseteq Leases /\ registering \subseteq Registering
    /\ pendingLock \in Failures \cup {None}
    /\ leaseLock \in [Buckets -> Threads \cup {None}]
    /\ restoreModeLock \in RWMutex /\ restoreRequestLock \in RWMutex
    /\ main \in {"collect", "receive", "modeLock", "done", "return", "failed"}
    /\ received \in 0 .. Cardinality(Existing)
    /\ broker \in [pc : {"none", "select", "send", "closed", "quit"},
                   lease : Existing \cup {None}, todo : SUBSET Existing]
    /\ errs \in 0 .. Capacity /\ result \in 0 .. Capacity
    /\ quit \in BOOLEAN /\ quitCh \in BOOLEAN
    /\ stop \in {"running", "clear", "waiting", "stopped"}
    /\ proc \in [Threads -> [pc : {"idle", "select", "process", "requestLock", "next",
                                   "enter", "modeRLock", "lockLease", "read", "setup",
                                   "release", "report", "section", "clear", "mark", "done"},
                             lease : Leases \cup {None}, err : BOOLEAN, nil : BOOLEAN,
                             todo : SUBSET Leases]]

\* A goroutine without a call in hand.
Fresh(l) == [pc |-> l, lease |-> None, err |-> FALSE, nil |-> FALSE, todo |-> {}]

Init ==
    /\ restoreMode = TRUE /\ restoreLocks = TRUE
    /\ restoreLoaded = {} /\ tracked = Registered \ Registering
    /\ loads = [l \in Leases |-> 0]
    /\ stored = Leases /\ deleted = {} /\ registering = Registering
    /\ pendingLock = None
    /\ leaseLock = [b \in Buckets |-> None]
    /\ restoreModeLock = Unlocked /\ restoreRequestLock = Unlocked
    /\ main = "collect" /\ received = 0
    /\ broker = [pc |-> "none", lease |-> None, todo |-> {}]
    /\ errs = 0 /\ result = 0
    /\ quit = FALSE /\ quitCh = FALSE
    /\ stop = "running"
    /\ proc = [t \in Threads |-> Fresh("idle")]

At(t, l) == proc[t].pc = l
Goto(t, l) == proc' = [proc EXCEPT ![t].pc = l]
Return(t, l) == proc' = [proc EXCEPT ![t] = Fresh(l)]
Lease(t) == proc[t].lease
Waiting(t) == At(t, "idle") /\ Cardinality({q \in Threads \ RestoreWorkers : ~At(q, "idle")}) < MaxCalls
HoldsLease(t) == \E b \in Buckets : leaseLock[b] = t

-----------------------------------------------------------------------------
(* The pool of Restore: main, distributor, workers.                        *)

\* The goroutines start once the leases are collected.
collectLeases ==
    /\ main = "collect"
    /\ \/ /\ main' = "receive"
          /\ broker' = [broker EXCEPT !.pc = "select", !.todo = Existing]
          /\ proc' = [t \in Threads |-> IF t \in RestoreWorkers
                                        THEN [proc[t] EXCEPT !.pc = "select"] ELSE proc[t]]
       \/ StorageFaults /\ main' = "return" /\ UNCHANGED <<broker, proc>>
    /\ UNCHANGED <<manager, locks, received, errs, result, quit, quitCh, stop>>

\* The select of the distributor; its default blocks on the broker.
distribute ==
    /\ broker.pc = "select"
    /\ \/ /\ broker.todo = {}
          /\ broker' = [broker EXCEPT !.pc = "closed"]
       \/ /\ broker.todo # {} /\ (quit \/ quitCh)
          /\ broker' = [broker EXCEPT !.pc = "quit"]
       \/ /\ ~quit /\ ~quitCh
          /\ \E l \in broker.todo : broker' = [pc |-> "send", lease |-> l, todo |-> broker.todo \ {l}]
    /\ UNCHANGED <<manager, locks, main, received, errs, result, quit, quitCh, stop, proc>>

\* A worker receives from the broker.
receiveLease(w) ==
    /\ At(w, "select") /\ broker.pc = "send"
    /\ proc' = [proc EXCEPT ![w] = [@ EXCEPT !.pc = "process", !.lease = broker.lease,
                                            !.err = FALSE, !.nil = FALSE]]
    /\ broker' = [broker EXCEPT !.pc = "select", !.lease = None]
    /\ UNCHANGED <<manager, locks, main, received, errs, result, quit, quitCh, stop>>

workerDone(w) ==
    /\ At(w, "select")
    /\ broker.pc = "closed" \/ quit \/ quitCh
    /\ Return(w, "done")
    /\ UNCHANGED <<manager, locks, main, received, channels, stop>>

\* processRestore up to its first look at restoreLoaded.
processRestore(w) ==
    /\ At(w, "process")
    /\ CanRLock(restoreRequestLock)
    /\ restoreRequestLock' = [restoreRequestLock EXCEPT !.readers = @ \cup {w}]
    /\ Goto(w, IF Lease(w) \in restoreLoaded THEN "release" ELSE "lockLease")
    /\ UNCHANGED <<manager, pendingLock, leaseLock, restoreModeLock, main, received, channels, stop>>

\* Mutant: a lease that could not be loaded counts as done.
report_IgnoreError(w) ==
    /\ At(w, "report")
    /\ result < Capacity /\ result' = result + 1
    /\ Return(w, "select")
    /\ UNCHANGED <<manager, locks, main, received, broker, errs, quit, quitCh, stop>>

\* The worker sends the error or the result.
report(w) ==
    /\ At(w, "report")
    /\ \/ proc[w].err /\ errs < Capacity /\ errs' = errs + 1 /\ UNCHANGED result
       \/ ~proc[w].err /\ result < Capacity /\ result' = result + 1 /\ UNCHANGED errs
    /\ Return(w, "select")
    /\ UNCHANGED <<manager, locks, main, received, broker, quit, quitCh, stop>>

\* Mutant: the loop does not look at quitCh.
receive_NoQuitCh ==
    /\ main = "receive" /\ received < Cardinality(Existing)
    /\ \/ errs > 0 /\ errs' = errs - 1 /\ quit' = TRUE /\ main' = "return" /\ UNCHANGED <<result, received>>
       \/ /\ result > 0 /\ result' = result - 1 /\ received' = received + 1
          /\ UNCHANGED <<errs, quit, main>>
    /\ UNCHANGED <<manager, locks, broker, quitCh, stop, proc>>

\* The loop over the results.
receive ==
    /\ main = "receive" /\ received < Cardinality(Existing)
    /\ \/ errs > 0 /\ errs' = errs - 1 /\ quit' = TRUE /\ main' = "return" /\ UNCHANGED <<result, received>>
       \/ quitCh /\ quit' = TRUE /\ main' = "return" /\ UNCHANGED <<errs, result, received>>
       \/ /\ result > 0 /\ result' = result - 1 /\ received' = received + 1
          /\ UNCHANGED <<errs, quit, main>>
    /\ UNCHANGED <<manager, locks, broker, quitCh, stop, proc>>

\* wg.Wait, then restoreModeLock.Lock is called.
waitGroup ==
    /\ main = "receive" /\ received = Cardinality(Existing)
    /\ broker.pc \in {"closed", "quit"}
    /\ \A w \in RestoreWorkers : At(w, "done")
    /\ main' = "modeLock"
    /\ restoreModeLock' = [restoreModeLock EXCEPT !.waiting = @ \cup {Main}]
    /\ UNCHANGED <<manager, pendingLock, leaseLock, restoreRequestLock, received, channels, stop, proc>>

\* The section under restoreModeLock that ends restore mode.
restoreComplete ==
    /\ main = "modeLock" /\ CanLock(restoreModeLock)
    /\ restoreModeLock' = [restoreModeLock EXCEPT !.waiting = @ \ {Main}]
    /\ restoreMode' = FALSE /\ restoreLoaded' = {} /\ restoreLocks' = FALSE
    /\ main' = "done"
    /\ UNCHANGED <<tracked, loads, entries, pendingLock, leaseLock, restoreRequestLock,
                   received, channels, stop, proc>>

\* The deferred function of Restore after an error or quitCh, without a lock.
restoreReturn ==
    /\ main = "return"
    /\ restoreMode' = FALSE
    /\ main' = "failed"
    /\ UNCHANGED <<restoreLocks, restoreLoaded, tracked, loads, entries, locks, received, channels, stop, proc>>

-----------------------------------------------------------------------------
(* loadEntry and loadEntryInternal, by a request, a prefix revocation, a   *)
(* failed job or (without restoreModeLock) a worker.                       *)

\* inRestoreMode is read before restoreModeLock is taken.
loadEntry(t) ==
    /\ At(t, "enter")
    /\ Goto(t, IF restoreMode THEN "modeRLock" ELSE "read")
    /\ UNCHANGED <<manager, locks, main, received, channels, stop>>

\* Mutant: restore mode is not checked again under the lock.
modeRLock_NoRecheck(t) ==
    /\ At(t, "modeRLock") /\ CanRLock(restoreModeLock)
    /\ restoreModeLock' = [restoreModeLock EXCEPT !.readers = @ \cup {t}]
    /\ Goto(t, "lockLease")
    /\ UNCHANGED <<manager, pendingLock, leaseLock, restoreRequestLock, main, received, channels, stop>>

modeRLock(t) ==
    /\ At(t, "modeRLock") /\ CanRLock(restoreModeLock)
    /\ restoreModeLock' = [restoreModeLock EXCEPT !.readers = @ \cup {t}]
    /\ Goto(t, IF restoreMode THEN "lockLease" ELSE "read")
    /\ UNCHANGED <<manager, pendingLock, leaseLock, restoreRequestLock, main, received, channels, stop>>

lockLease(t) ==
    /\ At(t, "lockLease")
    /\ leaseLock[Bucket[Lease(t)]] = None
    /\ leaseLock' = [leaseLock EXCEPT ![Bucket[Lease(t)]] = t]
    /\ Goto(t, "read")
    /\ UNCHANGED <<manager, pendingLock, restoreModeLock, restoreRequestLock, main, received, channels, stop>>

\* Mutant: a worker does not look at restoreLoaded again.
seen_Once(t) == t \notin RestoreWorkers /\ Lease(t) \in restoreLoaded

\* The lease has been seen: the second look of processRestore, checkRestored
\* of loadEntryInternal.
seen(t) == Lease(t) \in restoreLoaded

\* Who sets the lease up: the first to come with its lock, and every call of
\* FetchLeaseTimes, which passes restoreMode TRUE and checkRestored FALSE, has
\* no lock and does not ask whether restore mode is over.
setsUp(t) == t \in Fetches \/ (HoldsLease(t) /\ ~seen(t))

\* A worker that sees the lease loaded does not read its entry.
passesOver(t) == t \in RestoreWorkers /\ seen(t)

\* The entry is read: that fails, there is none, or the lease is loaded.
loadEntryInternal(t) ==
    /\ At(t, "read")
    /\ \/ /\ ~passesOver(t) /\ StorageFaults
          /\ proc' = [proc EXCEPT ![t] = [@ EXCEPT !.pc = "release", !.err = TRUE]]
          /\ UNCHANGED restoreLoaded
       \/ /\ ~passesOver(t) /\ Lease(t) \notin stored
          /\ proc' = [proc EXCEPT ![t] = [@ EXCEPT !.pc = "release", !.nil = TRUE]]
          /\ UNCHANGED restoreLoaded
       \/ /\ Lease(t) \in stored /\ setsUp(t)
          /\ restoreLoaded' = restoreLoaded \cup {Lease(t)}
          /\ Goto(t, "setup")
       \/ /\ passesOver(t) \/ (Lease(t) \in stored /\ ~setsUp(t))
          /\ Goto(t, "release")
          /\ UNCHANGED restoreLoaded
    /\ UNCHANGED <<restoreMode, restoreLocks, tracked, loads, entries, locks, main, received, channels, stop>>

\* updatePending takes pendingLock, even when OnFailure holds it already.
updatePending(t) ==
    /\ At(t, "setup") /\ pendingLock = None
    /\ tracked' = tracked \cup {Lease(t)}
    /\ loads' = IF t \in Fetches THEN loads ELSE [loads EXCEPT ![Lease(t)] = @ + 1]
    /\ Goto(t, "release")
    /\ UNCHANGED <<restoreMode, restoreLocks, restoreLoaded, entries, locks, main, received, channels, stop>>

\* Where the caller goes on.  Without an entry there is nothing to do.
afterLoad(t) ==
    CASE t \in RestoreWorkers -> "report"
      [] t \in Failures -> "mark"
      [] t \in Fetches -> "done"
      [] t \in Requests -> IF proc[t].err \/ proc[t].nil THEN "done" ELSE "section"
      [] t \in Prefixes -> IF proc[t].err \/ proc[t].nil THEN "next" ELSE "section"

\* After an error a prefix revocation does not go on.
goesOn(t) ==
    IF afterLoad(t) = "done" THEN Fresh("done")
    ELSE [proc[t] EXCEPT !.pc = afterLoad(t), !.todo = IF proc[t].err THEN {} ELSE @]

\* The deferred unlocks.
release(t) ==
    /\ At(t, "release")
    /\ leaseLock' = [b \in Buckets |-> IF leaseLock[b] = t THEN None ELSE leaseLock[b]]
    /\ restoreModeLock' = [restoreModeLock EXCEPT !.readers = @ \ {t}]
    /\ restoreRequestLock' = [restoreRequestLock EXCEPT !.readers = @ \ {t}]
    /\ proc' = [proc EXCEPT ![t] = goesOn(t)]
    /\ UNCHANGED <<manager, pendingLock, main, received, channels, stop>>

-----------------------------------------------------------------------------
(* The callers.                                                            *)

\* A request on one lease.  It holds the state lock, which Stop needs.
Request(t, l) ==
    /\ t \in Requests /\ Waiting(t) /\ stop = "running"
    /\ proc' = [proc EXCEPT ![t].pc = "enter", ![t].lease = l]
    /\ UNCHANGED <<manager, locks, main, received, channels, stop>>

\* Renew and LazyRevoke: the section under pendingLock that saves the entry
\* and resets its timer.  After an error a prefix revocation does not go on.
section(t) ==
    /\ At(t, "section") /\ pendingLock = None
    /\ \/ /\ stored' = stored \cup {Lease(t)}
          /\ tracked' = tracked \cup {Lease(t)}
          /\ IF t \in Prefixes THEN Goto(t, "next") ELSE Return(t, "done")
       \/ /\ StorageFaults
          /\ Return(t, IF t \in Prefixes THEN "next" ELSE "done")
          /\ UNCHANGED <<stored, tracked>>
    /\ UNCHANGED <<restoreMode, restoreLocks, restoreLoaded, loads, deleted, registering, locks,
                   main, received, channels, stop>>

\* Revoke: once the backend has revoked the secret, the entry is deleted.
\* Either may fail, as the backend's part of Renew may.
deleteEntry(t) ==
    /\ t \in Requests /\ At(t, "section")
    /\ \/ /\ stored' = stored \ {Lease(t)} /\ deleted' = deleted \cup {Lease(t)}
          /\ Goto(t, "clear")
       \/ /\ StorageFaults /\ Return(t, "done")
          /\ UNCHANGED <<stored, deleted>>
    /\ UNCHANGED <<restoreMode, restoreLocks, restoreLoaded, tracked, loads, registering, locks,
                   main, received, channels, stop>>

\* The end of revokeCommon, unless the token index could not be changed.
clearPending(t) ==
    /\ At(t, "clear")
    /\ \/ pendingLock = None /\ tracked' = tracked \ {Lease(t)}
       \/ StorageFaults /\ UNCHANGED tracked
    /\ Return(t, "done")
    /\ UNCHANGED <<restoreMode, restoreLocks, restoreLoaded, loads, entries, locks, main, received, channels, stop>>

\* The end of Register: updatePending, or, when the token index could not be
\* written, the deferred roll back, whose deleteEntry may fail too.
registerDone(l) ==
    /\ l \in registering /\ pendingLock = None
    /\ registering' = registering \ {l}
    /\ tracked' = tracked \cup {l}
    /\ UNCHANGED <<restoreMode, restoreLocks, restoreLoaded, loads, stored, deleted, locks,
                   main, received, channels, stop, proc>>

registerFails(l) ==
    /\ l \in registering /\ StorageFaults
    /\ registering' = registering \ {l}
    /\ \/ stored' = stored \ {l} /\ deleted' = deleted \cup {l}
       \/ UNCHANGED <<stored, deleted>>
    /\ UNCHANGED <<restoreMode, restoreLocks, restoreLoaded, tracked, loads, locks,
                   main, received, channels, stop, proc>>

\* FetchLeaseTimes answers from pending and irrevocable when it can; a lease in
\* nonexpiring it reads.  The token store's tidy calls it without the state lock.
FetchLeaseTimes(t, l) ==
    /\ t \in Fetches /\ Waiting(t)
    /\ \/ proc' = [proc EXCEPT ![t].pc = "read", ![t].lease = l]
       \/ l \in tracked /\ Return(t, "done")
    /\ UNCHANGED <<manager, locks, main, received, channels, stop>>

\* The keys that revokePrefixCommon collects.
Collected == {stored} \cup (IF StorageFaults THEN {{}} ELSE {})

\* revokePrefixCommon: in restore mode it keeps the restore workers out.
revokePrefixCommon(t) ==
    /\ t \in Prefixes /\ Waiting(t) /\ stop = "running"
    /\ \/ /\ restoreMode
          /\ Goto(t, "requestLock")
          /\ restoreRequestLock' = [restoreRequestLock EXCEPT !.waiting = @ \cup {t}]
       \/ /\ ~restoreMode
          /\ \E keys \in Collected : proc' = [proc EXCEPT ![t].pc = "next", ![t].todo = keys]
          /\ UNCHANGED restoreRequestLock
    /\ UNCHANGED <<manager, pendingLock, leaseLock, restoreModeLock, main, received, channels, stop>>

requestLock(t) ==
    /\ At(t, "requestLock") /\ CanLock(restoreRequestLock)
    /\ restoreRequestLock' = [restoreRequestLock EXCEPT !.waiting = @ \ {t}, !.writer = t]
    /\ \E keys \in Collected : proc' = [proc EXCEPT ![t].pc = "next", ![t].todo = keys]
    /\ UNCHANGED <<manager, pendingLock, leaseLock, restoreModeLock, main, received, channels, stop>>

\* A load of lease l, with the rest of the keys to follow.
Turn(l, rest) == [pc |-> "enter", lease |-> l, err |-> FALSE, nil |-> FALSE, todo |-> rest]

\* The loop of revokePrefixCommon over the leases.
nextLease(t) ==
    /\ At(t, "next")
    /\ \/ /\ proc[t].todo = {}
          /\ Return(t, "done")
          /\ restoreRequestLock' = IF restoreRequestLock.writer = t
                                   THEN [restoreRequestLock EXCEPT !.writer = None]
                                   ELSE restoreRequestLock
       \/ /\ \E l \in proc[t].todo :
                proc' = [proc EXCEPT ![t] = Turn(l, proc[t].todo \ {l})]
          /\ UNCHANGED restoreRequestLock
    /\ UNCHANGED <<manager, pendingLock, leaseLock, restoreModeLock, main, received, channels, stop>>

\* OnFailure gives up on a lease: it calls loadEntry with pendingLock held.
OnFailure(t, l) ==
    /\ t \in Failures /\ Waiting(t)
    /\ pendingLock = None /\ l \in tracked
    /\ pendingLock' = t
    /\ proc' = [proc EXCEPT ![t].pc = "enter", ![t].lease = l]
    /\ UNCHANGED <<manager, leaseLock, restoreModeLock, restoreRequestLock, main, received, channels, stop>>

\* markLeaseIrrevocable, if there is an entry, and the deferred unlock.  The
\* lease stays in a map; an error of persistEntry is ignored.
markLeaseIrrevocable(t) ==
    /\ At(t, "mark")
    /\ pendingLock' = None
    /\ \/ ~proc[t].err /\ ~proc[t].nil /\ stored' = stored \cup {Lease(t)}
       \/ (proc[t].err \/ proc[t].nil \/ StorageFaults) /\ UNCHANGED stored
    /\ Return(t, "done")
    /\ UNCHANGED <<restoreMode, restoreLocks, restoreLoaded, tracked, loads, deleted, registering,
                   leaseLock, restoreModeLock, restoreRequestLock, main, received, channels, stop>>

\* Stop, called with the state lock held.
Stop ==
    /\ stop = "running"
    /\ registering = {} /\ \A t \in Requests \cup Prefixes : proc[t].pc \in {"idle", "done"}
    /\ quitCh' = TRUE
    /\ stop' = "clear"
    /\ UNCHANGED <<manager, locks, main, received, broker, errs, result, quit, proc>>

stopTimers ==
    /\ stop = "clear" /\ pendingLock = None
    /\ tracked' = {}
    /\ stop' = "waiting"
    /\ UNCHANGED <<restoreMode, restoreLocks, restoreLoaded, loads, entries, locks, main, received, channels, proc>>

\* The polling loop that ends Stop.
stopWait ==
    /\ stop = "waiting" /\ ~restoreMode
    /\ stop' = "stopped"
    /\ UNCHANGED <<manager, locks, main, received, channels, proc>>

-----------------------------------------------------------------------------

Restore == collectLeases \/ receive \/ waitGroup \/ restoreComplete \/ restoreReturn

Steps(t) ==
    \/ receiveLease(t) \/ workerDone(t) \/ processRestore(t) \/ report(t)
    \/ loadEntry(t) \/ modeRLock(t) \/ lockLease(t) \/ loadEntryInternal(t)
    \/ updatePending(t) \/ release(t)
    \/ section(t) \/ deleteEntry(t) \/ clearPending(t)
    \/ requestLock(t) \/ nextLease(t) \/ markLeaseIrrevocable(t)

Registers(l) == registerDone(l) \/ registerFails(l)

Stopping == stopTimers \/ stopWait

Next ==
    \/ Restore \/ distribute \/ Stopping \/ Stop
    \/ \E t \in Threads : Steps(t)
    \/ \E t \in Threads, l \in Leases : Request(t, l) \/ OnFailure(t, l) \/ FetchLeaseTimes(t, l)
    \/ \E l \in Leases : Registers(l)
    \/ \E t \in Threads : revokePrefixCommon(t)

Spec == Init /\ [][Next]_vars

\* Every goroutine that can go on does; nobody has to make a request or to
\* call Stop.  Each call runs once, so weak fairness of a lock is enough.
Fairness ==
    /\ WF_vars(Restore) /\ WF_vars(distribute) /\ WF_vars(Stopping)
    /\ \A t \in Threads : WF_vars(Steps(t))

FairSpec == Spec /\ Fairness

-----------------------------------------------------------------------------
(* Properties.                                                             *)

\* Of all who look at restoreLoaded under the lock of the lease (processRestore
\* and loadEntry, whatever lease shares that lock) at most one sets a lease up
\* from storage: a second would reset its timer to an expiration time that a
\* renewal has changed since.  FetchLeaseTimes does not look, so it may set a
\* lease up beside them; this is no promise about it.
LoadedOnce == \A l \in Leases : loads[l] <= 1

\* No goroutine is about to lock or unlock a lease lock after restoreLocks
\* was set to nil, although restoreMode is first read without a lock.
NoNilLocks ==
    \A t \in Threads : At(t, "lockLease") \/ HoldsLease(t) => restoreLocks

\* When restore mode ends normally, every lease that was in storage and was not
\* deleted since is in one of the maps, whoever loaded it, or a call of
\* FetchLeaseTimes has it in hand: that call stores the lease in restoreLoaded
\* before it sets it up, without a lock, so the worker passes the lease over and
\* Restore does not wait for it.  Every goroutine of the pool is gone.
AllRestored ==
    main = "done" =>
        /\ stop = "running" =>
             \A l \in Existing \ deleted :
                l \in tracked \/ \E t \in Fetches : At(t, "setup") /\ Lease(t) = l
        /\ \A w \in RestoreWorkers : At(w, "done")

\* Restore mode ends, successfully or with an error, however requests, prefix
\* revocations and storage get in its way.  The one thing that can keep it from
\* ending is an OnFailure that never gives pendingLock back (StopReturns).
RestoreEnds == <>~restoreMode \/ <>[](pendingLock # None)

\* Stop "must be called before sealing the view": it returns.
StopReturns == (stop = "clear") ~> (stop = "stopped")
=============================================================================
