----------------------- MODULE ExpirationRestoreProofs -----------------------
(***************************************************************************)
(* Theorems about ExpirationRestore, for any leases, lease locks, workers  *)
(* and callers: under its lease lock a lease is set up once, the lock of a *)
(* lease is never used after the slice is gone, and restore mode ends      *)
(* normally only when every lease is tracked or in the hands of a call of  *)
(* FetchLeaseTimes.                                                        *)
(***************************************************************************)
EXTENDS ExpirationRestore, FiniteSetTheorems, TLAPS

-----------------------------------------------------------------------------
(* The inductive invariant.                                                *)

\* The places of a restore worker, those where it works on a lease, and those
\* that only a worker knows.
Working == {"process", "lockLease", "read", "setup", "release", "report"}
WorkerPlaces == Working \cup {"idle", "select", "done"}
WorkerOnly == {"select", "process", "report"}

\* The places of any thread that has a lease.
Loading == Working \cup {"enter", "modeRLock", "section", "clear", "mark"}

Call == [pc : WorkerPlaces \cup Loading \cup {"requestLock", "next", "mark"},
         lease : Leases \cup {None}, err : BOOLEAN, nil : BOOLEAN, todo : SUBSET Leases]

Shape ==
    /\ loads \in [Leases -> Nat] /\ stored \subseteq Leases
    /\ leaseLock \in [Buckets -> Threads \cup {None}]
    /\ restoreModeLock \in RWMutex
    /\ main \in {"collect", "receive", "modeLock", "done", "return", "failed"}
    /\ received \in Nat /\ errs \in Nat /\ result \in Nat
    /\ broker \in [pc : {"none", "select", "send", "closed", "quit"},
                   lease : Existing \cup {None}, todo : SUBSET Existing]
    /\ proc \in [Threads -> Call]

\* Where t is tells which locks it has.
Placed(t) ==
    /\ t \in RestoreWorkers => proc[t].pc \in WorkerPlaces
    /\ t \notin RestoreWorkers => proc[t].pc \notin WorkerOnly
    /\ proc[t].pc \in Loading => proc[t].lease \in Leases
    /\ \A b \in Buckets : leaseLock[b] = t =>
         proc[t].pc \in {"read", "setup", "release"} /\ b = Bucket[proc[t].lease]
    /\ (proc[t].pc = "setup" /\ t \notin Fetches) \/ (proc[t].pc = "read" /\ t \in RestoreWorkers) =>
         leaseLock[Bucket[proc[t].lease]] = t
    /\ proc[t].pc = "lockLease" \/ HoldsLease(t) =>
         restoreLocks /\ (t \in RestoreWorkers \/ t \in restoreModeLock.readers)

\* What t knows of its lease: the first to come under its lock, a worker that
\* is done with it, and a revocation that has deleted its entry.
Loaded(t) ==
    /\ proc[t].pc = "setup" /\ t \notin Fetches =>
         proc[t].lease \in restoreLoaded /\ loads[proc[t].lease] = 0
    /\ t \in RestoreWorkers /\ proc[t].pc \in {"release", "report"} /\ ~proc[t].err =>
         proc[t].lease \in restoreLoaded \cup deleted
    /\ proc[t].pc = "clear" => proc[t].lease \in deleted

\* The lease is in a map, about to be, or revoked.
Watched(l) ==
    l \in tracked \/ l \in deleted \/ \E t \in Threads : proc[t].pc = "setup" /\ proc[t].lease = l

\* Restore has passed the lease, or may pass it over.
Passed(l) == l \in restoreLoaded \/ (main = "done" /\ l \in Existing)

Up == stop \in {"running", "clear"}

\* Until restore mode ends, restoreLoaded has the leases that were set up under
\* their lock.  What Restore passes over is watched until Stop.
LoadsInv ==
    \A l \in Leases :
        /\ loads[l] \in {0, 1}
        /\ restoreLocks /\ l \notin restoreLoaded => loads[l] = 0
        /\ Up /\ Passed(l) => Watched(l)

\* An entry is missing only because it was deleted.
GoneInv == \A l \in Leases : l \notin stored => l \in deleted

MainInv ==
    /\ restoreLocks <=> main # "done"
    /\ main = "done" => ~restoreMode
    /\ main \in {"modeLock", "done"} => \A w \in RestoreWorkers : proc[w].pc = "done"
    /\ main = "modeLock" => Existing \subseteq restoreLoaded \cup deleted
    /\ main = "collect" => /\ received = 0 /\ errs = 0 /\ result = 0 /\ broker.pc = "none"
                           /\ \A w \in RestoreWorkers : proc[w].pc = "idle"

Busy(w) == w \in RestoreWorkers /\ proc[w].pc \in Working

\* A lease is with the distributor or with one worker.
Apart ==
    /\ broker.pc = "send" => broker.lease \in Existing \ broker.todo
    /\ \A w \in RestoreWorkers : Busy(w) =>
         /\ proc[w].lease \in Existing \ broker.todo
         /\ broker.pc = "send" => broker.lease # proc[w].lease
    /\ \A v, w \in RestoreWorkers : Busy(v) /\ Busy(w) /\ proc[v].lease = proc[w].lease => v = w

\* The leases whose result, or error, a worker has sent.
Reported ==
    {l \in Existing : /\ l \notin broker.todo
                      /\ ~(broker.pc = "send" /\ broker.lease = l)
                      /\ \A w \in RestoreWorkers : ~(Busy(w) /\ proc[w].lease = l)}

CountInv ==
    main = "receive" =>
        /\ received + result + errs <= Cardinality(Reported)
        /\ errs = 0 => Reported \subseteq restoreLoaded \cup deleted

IInv == /\ Shape /\ (\A t \in Threads : Placed(t) /\ Loaded(t))
        /\ LoadsInv /\ GoneInv /\ MainInv /\ Apart /\ CountInv

-----------------------------------------------------------------------------
(* What a step leaves as it was.                                           *)

LEMMA Parts ==
    ASSUME IInv
    PROVE  /\ Shape /\ LoadsInv /\ GoneInv /\ MainInv /\ Apart /\ CountInv
           /\ \A t \in Threads : Placed(t) /\ Loaded(t)
  BY DEF IInv

LEMMA CallType ==
    ASSUME IInv, NEW t \in Threads
    PROVE  /\ proc \in [Threads -> Call] /\ proc[t] \in Call
           /\ proc[t].lease \in Leases \cup {None} /\ proc[t].err \in BOOLEAN
           /\ proc[t].todo \subseteq Leases
<1>1. proc \in [Threads -> Call] /\ proc[t] \in Call
  BY Parts DEF Shape
<1>. QED  BY <1>1 DEF Call

LEMMA BucketIn == ASSUME NEW l \in Leases PROVE Bucket[l] \in Buckets
  BY DEF Buckets

LEMMA KindsDiffer ==
    /\ None \notin Threads /\ RestoreWorkers \subseteq Threads
    /\ \A t \in RestoreWorkers : /\ t \notin Requests /\ t \notin Prefixes
                                 /\ t \notin Failures /\ t \notin Fetches
    /\ \A t \in Requests : t \notin Prefixes /\ t \notin Failures /\ t \notin Fetches
    /\ \A t \in Prefixes : t \notin Failures /\ t \notin Fetches
    /\ \A t \in Failures : t \notin Fetches
  BY RestoreAssumption DEF Threads

\* A thread that did not move and lost no lock.
LEMMA PlacedSame ==
    ASSUME IInv, NEW q \in Threads, proc'[q] = proc[q], restoreLocks => restoreLocks',
           \A b \in Buckets : leaseLock'[b] = q <=> leaseLock[b] = q,
           q \in restoreModeLock.readers => q \in restoreModeLock'.readers
    PROVE  Placed(q)'
<1>1. Placed(q)
  BY Parts
<1>2. HoldsLease(q)' <=> HoldsLease(q)
  BY DEF HoldsLease
<1>3. proc[q].pc \in {"setup", "read"} => Bucket[proc[q].lease] \in Buckets
  BY <1>1, BucketIn DEF Placed, Loading, Working
<1>. QED  BY <1>1, <1>2, <1>3 DEF Placed

\* No lease is lost from the maps but by a revocation or by Stop.
Kept == /\ deleted \subseteq deleted' /\ stored' \subseteq Leases
        /\ \A l \in Leases : l \notin stored' => l \in deleted'
        /\ main' = "done" => main = "done"
        /\ Up' => Up /\ \A l \in Leases : l \in tracked => l \in tracked' \/ l \in deleted'

LEMMA KeptSame ==
    ASSUME IInv, UNCHANGED <<tracked, stored, deleted, main, stop>> PROVE Kept
  BY Parts DEF Kept, Shape, GoneInv, Up

LEMMA LoadedSame ==
    ASSUME IInv, NEW q \in Threads, proc'[q] = proc[q], restoreLoaded \subseteq restoreLoaded', Kept,
           proc[q].pc = "setup" /\ q \notin Fetches => loads'[proc[q].lease] = loads[proc[q].lease]
    PROVE  Loaded(q)'
  BY Parts DEF Loaded, Kept

LEMMA LoadsSame ==
    ASSUME IInv, UNCHANGED <<loads, restoreLoaded, restoreLocks>>, Kept,
           \A q \in Threads : proc[q].pc = "setup" => proc'[q] = proc[q]
    PROVE  LoadsInv' /\ GoneInv'
<1>1. GoneInv'
  BY DEF Kept, GoneInv
<1>2. ASSUME NEW l \in Leases
      PROVE  /\ loads[l] \in {0, 1}
             /\ restoreLocks /\ l \notin restoreLoaded => loads[l] = 0
             /\ Up' /\ Passed(l)' => Watched(l)'
  <2>1. /\ loads[l] \in {0, 1}
        /\ restoreLocks /\ l \notin restoreLoaded => loads[l] = 0
        /\ Up /\ Passed(l) => Watched(l)
    BY Parts DEF LoadsInv
  <2>2. Passed(l)' => Passed(l)
    BY DEF Passed, Kept
  <2>3. Up' /\ Watched(l) => Watched(l)'
    BY DEF Watched, Kept
  <2>. QED  BY <2>1, <2>2, <2>3 DEF Kept
<1>. QED  BY <1>1, <1>2 DEF LoadsInv

LEMMA MainSame ==
    ASSUME IInv, UNCHANGED <<restoreLocks, main, restoreMode, received, errs, result, broker>>,
           restoreLoaded \subseteq restoreLoaded', Kept,
           \A w \in RestoreWorkers : proc[w].pc \in {"idle", "done"} => proc'[w].pc = proc[w].pc
    PROVE  MainInv'
  BY Parts DEF MainInv, Kept

\* Every worker keeps the lease it works on.
WorkSame == \A w \in RestoreWorkers : /\ Busy(w)' <=> Busy(w)
                                      /\ Busy(w) => proc'[w].lease = proc[w].lease

LEMMA PoolSame ==
    ASSUME IInv, broker' = broker, WorkSame PROVE Apart' /\ Reported' = Reported
<1>1. Apart'
  BY Parts DEF Apart, WorkSame
<1>2. Reported' = Reported
  BY DEF Reported, WorkSame
<1>. QED  BY <1>1, <1>2

LEMMA CountSame ==
    ASSUME IInv, WorkSame, UNCHANGED <<broker, main, received, result, errs>>,
           restoreLoaded \subseteq restoreLoaded', Kept
    PROVE  CountInv'
<1>1. Reported' = Reported
  BY PoolSame
<1>. QED  BY <1>1, Parts DEF CountInv, Kept

\* Only thread t moved.
OnlyThread(t) == proc' \in [Threads -> Call] /\ \A q \in Threads : q # t => proc'[q] = proc[q]

LEMMA CallAt ==
    ASSUME IInv, NEW t \in Threads, NEW c \in Call, proc' = [proc EXCEPT ![t] = c]
    PROVE  proc'[t] = c /\ OnlyThread(t) /\ proc' \in [Threads -> Call]
  BY CallType DEF OnlyThread

\* A thread moves, and perhaps takes or gives back a lock; no lease is loaded.
LEMMA MoveKeeps ==
    ASSUME IInv, NEW t \in Threads, NEW c \in Call, proc' = [proc EXCEPT ![t] = c],
           UNCHANGED <<loads, restoreLoaded, restoreLocks, restoreMode, main, received, errs,
                       result, broker, stop>>,
           UNCHANGED <<tracked, stored, deleted>> \/ Kept,
           leaseLock' \in [Buckets -> Threads \cup {None}], restoreModeLock' \in RWMutex,
           \A q \in Threads : q # t =>
              /\ \A b \in Buckets : leaseLock'[b] = q <=> leaseLock[b] = q
              /\ q \in restoreModeLock.readers => q \in restoreModeLock'.readers,
           Placed(t)', Loaded(t)', proc[t].pc # "setup",
           t \in RestoreWorkers =>
              /\ proc[t].pc \notin {"idle", "done"}
              /\ proc[t].pc \in Working <=> c.pc \in Working
              /\ proc[t].pc \in Working => c.lease = proc[t].lease
    PROVE  IInv'
<1>1. proc'[t] = c /\ OnlyThread(t) /\ proc' \in [Threads -> Call]
  BY CallAt
<1>0. Kept
  BY KeptSame
<1>2. Shape'
  BY <1>0, <1>1, Parts DEF Shape, Kept
<1>3. ASSUME NEW q \in Threads PROVE Placed(q)' /\ Loaded(q)'
  <2>1. CASE q = t
    BY <2>1
  <2>2. CASE q # t
    <3>1. proc'[q] = proc[q]
      BY <1>1, <2>2 DEF OnlyThread
    <3>. QED  BY <1>0, <2>2, <3>1, PlacedSame, LoadedSame
  <2>. QED  BY <2>1, <2>2
<1>4. LoadsInv' /\ GoneInv'
  BY <1>0, <1>1, LoadsSame DEF OnlyThread
<1>5. \A w \in RestoreWorkers : w \in Threads
  BY KindsDiffer
<1>6. MainInv'
  BY <1>0, <1>1, <1>5, MainSame DEF OnlyThread
<1>7. WorkSame
  BY <1>1, <1>5 DEF OnlyThread, WorkSame, Busy
<1>8. Apart' /\ CountInv'
  BY <1>0, <1>7, PoolSame, CountSame
<1>. QED  BY <1>2, <1>3, <1>4, <1>6, <1>8 DEF IInv

\* A thread moves and all locks stay as they are.
LEMMA WalkKeeps ==
    ASSUME IInv, NEW t \in Threads, NEW c \in Call, proc' = [proc EXCEPT ![t] = c],
           UNCHANGED <<loads, restoreLoaded, restoreLocks, restoreMode, main, received, errs,
                       result, broker, stop, leaseLock, restoreModeLock>>,
           UNCHANGED <<tracked, stored, deleted>> \/ Kept,
           Placed(t)', Loaded(t)', proc[t].pc # "setup",
           t \in RestoreWorkers =>
              /\ proc[t].pc \notin {"idle", "done"}
              /\ proc[t].pc \in Working <=> c.pc \in Working
              /\ proc[t].pc \in Working => c.lease = proc[t].lease
    PROVE  IInv'
<1>1. leaseLock \in [Buckets -> Threads \cup {None}] /\ restoreModeLock \in RWMutex
  BY Parts DEF Shape
<1>. QED  BY <1>1, MoveKeeps

\* Who is not at "read", "setup" or "release" has no lease lock.
LEMMA FreeHands ==
    ASSUME IInv, NEW t \in Threads, proc[t].pc \notin {"read", "setup", "release"}
    PROVE  ~HoldsLease(t) /\ \A b \in Buckets : leaseLock[b] # t
  BY Parts DEF Placed, HoldsLease

\* A caller, not a worker, that has no lease lock goes to a place where it needs
\* none.
LEMMA CallerKeeps ==
    ASSUME IInv, NEW t \in Threads, NEW c \in Call, proc' = [proc EXCEPT ![t] = c],
           UNCHANGED <<loads, restoreLoaded, restoreLocks, restoreMode, main, received, errs,
                       result, broker, stop, leaseLock, restoreModeLock>>,
           UNCHANGED <<tracked, stored, deleted>> \/ Kept,
           proc[t].pc \notin {"read", "setup", "release"},
           t \notin RestoreWorkers,
           c.pc \notin WorkerOnly \cup {"lockLease", "setup"},
           c.pc \in Loading => c.lease \in Leases,
           c.pc = "clear" => c.lease \in deleted'
    PROVE  IInv'
<1>1. proc'[t] = c
  BY CallAt
<1>2. ~HoldsLease(t)' /\ \A b \in Buckets : leaseLock'[b] # t
  BY FreeHands DEF HoldsLease
<1>3. Placed(t)'
  BY <1>1, <1>2 DEF Placed
<1>4. Loaded(t)'
  BY <1>1 DEF Loaded
<1>. QED  BY <1>3, <1>4, WalkKeeps

-----------------------------------------------------------------------------
(* Steps of the callers.                                                   *)

\* [proc EXCEPT ![t].pc = x] as a record.
LEMMA GotoCall ==
    ASSUME IInv, NEW t \in Threads, NEW x \in WorkerPlaces \cup Loading \cup {"requestLock", "next", "mark"},
           proc' = [proc EXCEPT ![t].pc = x]
    PROVE  \E c \in Call : /\ proc' = [proc EXCEPT ![t] = c]
                           /\ c.pc = x /\ c.lease = proc[t].lease /\ c.err = proc[t].err
<1> DEFINE c == [proc[t] EXCEPT !.pc = x]
<1>1. proc \in [Threads -> Call] /\ proc[t] \in Call
  BY CallType
<1>2. proc' = [proc EXCEPT ![t] = c]
  BY <1>1
<1>3. c \in Call /\ c.pc = x /\ c.lease = proc[t].lease /\ c.err = proc[t].err
  BY <1>1 DEF Call
<1> HIDE DEF c
<1>. QED  BY <1>2, <1>3

\* Return(t, x): the call is over.
LEMMA FreshCall ==
    ASSUME NEW x \in WorkerPlaces \cup Loading \cup {"requestLock", "next", "mark"}
    PROVE  Fresh(x) \in Call /\ Fresh(x).pc = x /\ ~Fresh(x).err
  BY DEF Fresh, Call

\* A place that only callers know.
LEMMA IsCaller ==
    ASSUME IInv, NEW t \in Threads,
           proc[t].pc \in {"requestLock", "next", "mark", "enter", "modeRLock", "section", "clear"}
    PROVE  t \notin RestoreWorkers
  BY Parts DEF Placed, WorkerPlaces, Working

\* A place where a lease is at hand.
LEMMA HasLease ==
    ASSUME IInv, NEW t \in Threads, proc[t].pc \in Loading
    PROVE  proc[t].lease \in Leases
  BY Parts DEF Placed

LEMMA LoadEntryKeeps ==
    ASSUME IInv, NEW t \in Threads, loadEntry(t) PROVE IInv'
<1> DEFINE x == IF restoreMode THEN "modeRLock" ELSE "read"
<1>1. /\ proc[t].pc = "enter" /\ proc' = [proc EXCEPT ![t].pc = x]
      /\ UNCHANGED <<loads, restoreLoaded, restoreLocks, restoreMode, main, received, errs, result,
                     broker, stop, leaseLock, restoreModeLock, tracked, stored, deleted>>
  BY DEF loadEntry, At, Goto, manager, entries, locks, channels
<1>2. x \in {"modeRLock", "read"}
  OBVIOUS
<1> HIDE DEF x
<1>3. PICK c \in Call : /\ proc' = [proc EXCEPT ![t] = c]
                        /\ c.pc = x /\ c.lease = proc[t].lease /\ c.err = proc[t].err
  BY <1>1, <1>2, GotoCall DEF Loading, Working
<1>4. t \notin RestoreWorkers /\ proc[t].lease \in Leases
  BY <1>1, IsCaller, HasLease DEF Loading
<1>. QED  BY <1>1, <1>2, <1>3, <1>4, CallerKeeps DEF WorkerOnly

\* A caller returns, or goes on to the next lease.
LEMMA ReturnKeeps ==
    ASSUME IInv, NEW t \in Threads, NEW x \in {"done", "next"}, Return(t, x),
           UNCHANGED <<loads, restoreLoaded, restoreLocks, restoreMode, main, received, errs,
                       result, broker, stop, leaseLock, restoreModeLock>>,
           UNCHANGED <<tracked, stored, deleted>> \/ Kept,
           proc[t].pc \notin {"read", "setup", "release"}, t \notin RestoreWorkers
    PROVE  IInv'
<1>1. Fresh(x) \in Call /\ Fresh(x).pc = x
  BY FreshCall DEF WorkerPlaces
<1>2. proc' = [proc EXCEPT ![t] = Fresh(x)]
  BY DEF Return
<1>. QED  BY <1>1, <1>2, CallerKeeps DEF WorkerOnly, Loading, Working

LEMMA SectionKeeps ==
    ASSUME IInv, NEW t \in Threads, section(t) PROVE IInv'
<1>1. /\ proc[t].pc = "section"
      /\ UNCHANGED <<loads, restoreLoaded, restoreLocks, restoreMode, main, received, errs, result,
                     broker, stop, leaseLock, restoreModeLock, deleted>>
      /\ tracked \subseteq tracked' /\ stored' \in {stored, stored \cup {proc[t].lease}}
  BY DEF section, At, Lease, locks, channels
<1>2. t \notin RestoreWorkers /\ proc[t].lease \in Leases
  BY <1>1, IsCaller, HasLease DEF Loading
<1>3. Kept
  BY <1>1, <1>2, Parts DEF Kept, Shape, GoneInv, Up
<1>4. CASE Goto(t, "next")
  <2> DEFINE x == "next"
  <2>0. /\ x \in WorkerPlaces \cup Loading \cup {"requestLock", "next", "mark"}
        /\ x = "next" /\ proc' = [proc EXCEPT ![t].pc = x]
    BY <1>4 DEF Goto
  <2> HIDE DEF x
  <2>1. PICK c \in Call : /\ proc' = [proc EXCEPT ![t] = c]
                          /\ c.pc = x /\ c.lease = proc[t].lease /\ c.err = proc[t].err
    BY <2>0, GotoCall
  <2>. QED  BY <1>1, <1>2, <1>3, <2>0, <2>1, CallerKeeps DEF WorkerOnly, Loading, Working
<1>5. CASE \E x \in {"done", "next"} : Return(t, x)
  BY <1>1, <1>2, <1>3, <1>5, ReturnKeeps
<1>. QED  BY <1>4, <1>5 DEF section

LEMMA DeleteEntryKeeps ==
    ASSUME IInv, NEW t \in Threads, deleteEntry(t) PROVE IInv'
<1>1. /\ proc[t].pc = "section"
      /\ UNCHANGED <<loads, restoreLoaded, restoreLocks, restoreMode, main, received, errs, result,
                     broker, stop, leaseLock, restoreModeLock, tracked>>
  BY DEF deleteEntry, At, locks, channels
<1>2. t \notin RestoreWorkers /\ proc[t].lease \in Leases
  BY <1>1, IsCaller, HasLease DEF Loading
<1>3. Kept
  BY <1>1, <1>2, Parts DEF deleteEntry, Lease, Kept, Shape, GoneInv, Up
<1>4. CASE deleted' = deleted \cup {proc[t].lease} /\ Goto(t, "clear")
  <2> DEFINE x == "clear"
  <2>0. /\ x \in WorkerPlaces \cup Loading \cup {"requestLock", "next", "mark"}
        /\ x = "clear" /\ proc' = [proc EXCEPT ![t].pc = x]
    BY <1>4 DEF Goto, Loading
  <2> HIDE DEF x
  <2>1. PICK c \in Call : /\ proc' = [proc EXCEPT ![t] = c]
                          /\ c.pc = x /\ c.lease = proc[t].lease /\ c.err = proc[t].err
    BY <2>0, GotoCall
  <2>. QED  BY <1>1, <1>2, <1>3, <1>4, <2>0, <2>1, CallerKeeps DEF WorkerOnly
<1>5. CASE Return(t, "done")
  BY <1>1, <1>2, <1>3, <1>5, ReturnKeeps
<1>. QED  BY <1>4, <1>5 DEF deleteEntry, Lease

\* Who is about to clear the maps has deleted the entry.
LEMMA ClearPendingKeeps ==
    ASSUME IInv, NEW t \in Threads, clearPending(t) PROVE IInv'
<1>1. /\ proc[t].pc = "clear" /\ Return(t, "done")
      /\ UNCHANGED <<loads, restoreLoaded, restoreLocks, restoreMode, main, received, errs, result,
                     broker, stop, leaseLock, restoreModeLock, stored, deleted>>
      /\ tracked' = tracked \/ tracked' = tracked \ {proc[t].lease}
  BY DEF clearPending, At, Lease, entries, locks, channels
<1>2. t \notin RestoreWorkers
  BY <1>1, IsCaller
<1>3. proc[t].lease \in deleted
  BY <1>1, Parts DEF Loaded
<1>4. Kept
  BY <1>1, <1>3, Parts DEF Kept, Shape, GoneInv, Up
<1>. QED  BY <1>1, <1>2, <1>4, ReturnKeeps

LEMMA MarkKeeps ==
    ASSUME IInv, NEW t \in Threads, markLeaseIrrevocable(t) PROVE IInv'
<1>1. /\ proc[t].pc = "mark" /\ Return(t, "done")
      /\ UNCHANGED <<loads, restoreLoaded, restoreLocks, restoreMode, main, received, errs, result,
                     broker, stop, leaseLock, restoreModeLock, tracked, deleted>>
      /\ stored' \in {stored, stored \cup {proc[t].lease}}
  BY DEF markLeaseIrrevocable, At, Lease, channels
<1>2. t \notin RestoreWorkers /\ proc[t].lease \in Leases
  BY <1>1, IsCaller, HasLease DEF Loading
<1>3. Kept
  BY <1>1, <1>2, Parts DEF Kept, Shape, GoneInv, Up
<1>. QED  BY <1>1, <1>2, <1>3, ReturnKeeps

\* The keys of a prefix are leases.
LEMMA CollectedLeases ==
    ASSUME IInv, NEW keys \in Collected PROVE keys \subseteq Leases
  BY Parts DEF Collected, Shape

LEMMA CollectKeeps ==
    ASSUME IInv, NEW t \in Threads, NEW keys \in Collected,
           proc' = [proc EXCEPT ![t].pc = "next", ![t].todo = keys],
           UNCHANGED <<loads, restoreLoaded, restoreLocks, restoreMode, main, received, errs, result,
                       broker, stop, leaseLock, restoreModeLock, tracked, stored, deleted>>,
           proc[t].pc \notin {"read", "setup", "release"}, t \notin RestoreWorkers
    PROVE  IInv'
<1> DEFINE c == [proc[t] EXCEPT !.pc = "next", !.todo = keys]
<1>1. proc \in [Threads -> Call] /\ proc[t] \in Call /\ keys \subseteq Leases
  BY CallType, CollectedLeases
<1>2. proc' = [proc EXCEPT ![t] = c]
  BY <1>1
<1>3. c \in Call /\ c.pc = "next"
  BY <1>1 DEF Call
<1> HIDE DEF c
<1>. QED  BY <1>2, <1>3, CallerKeeps DEF WorkerOnly, Loading, Working

LEMMA RequestLockKeeps ==
    ASSUME IInv, NEW t \in Threads, requestLock(t) PROVE IInv'
<1>1. /\ proc[t].pc = "requestLock"
      /\ \E keys \in Collected : proc' = [proc EXCEPT ![t].pc = "next", ![t].todo = keys]
      /\ UNCHANGED <<loads, restoreLoaded, restoreLocks, restoreMode, main, received, errs, result,
                     broker, stop, leaseLock, restoreModeLock, tracked, stored, deleted>>
  BY DEF requestLock, At, manager, entries, channels
<1>2. t \notin RestoreWorkers
  BY <1>1, IsCaller
<1>. QED  BY <1>1, <1>2, CollectKeeps

LEMMA NextLeaseKeeps ==
    ASSUME IInv, NEW t \in Threads, nextLease(t) PROVE IInv'
<1>1. /\ proc[t].pc = "next"
      /\ UNCHANGED <<loads, restoreLoaded, restoreLocks, restoreMode, main, received, errs, result,
                     broker, stop, leaseLock, restoreModeLock, tracked, stored, deleted>>
  BY DEF nextLease, At, manager, entries, channels
<1>2. t \notin RestoreWorkers
  BY <1>1, IsCaller
<1>3. CASE Return(t, "done")
  BY <1>1, <1>2, <1>3, ReturnKeeps
<1>4. ASSUME NEW l \in proc[t].todo,
             proc' = [proc EXCEPT ![t] = Turn(l, proc[t].todo \ {l})]
      PROVE  IInv'
  <2> DEFINE c == Turn(l, proc[t].todo \ {l})
  <2>2. l \in Leases /\ proc[t].todo \ {l} \subseteq Leases
    BY CallType
  <2>3. proc' = [proc EXCEPT ![t] = c]
    BY <1>4
  <2>4. c \in Call /\ c.pc = "enter" /\ c.lease = l
    BY <2>2 DEF Call, Turn, Loading
  <2> HIDE DEF c
  <2>. QED  BY <1>1, <1>2, <2>2, <2>3, <2>4, CallerKeeps DEF WorkerOnly
<1>. QED  BY <1>3, <1>4 DEF nextLease

LEMMA BeginKeeps ==
    ASSUME IInv, NEW t \in Threads, NEW l \in Leases,
           Request(t, l) \/ OnFailure(t, l) \/ FetchLeaseTimes(t, l)
    PROVE  IInv'
<1>1. /\ proc[t].pc = "idle" /\ t \in Requests \cup Failures \cup Fetches
      /\ \/ \E x \in {"enter", "read"} : proc' = [proc EXCEPT ![t].pc = x, ![t].lease = l]
         \/ Return(t, "done")
      /\ UNCHANGED <<loads, restoreLoaded, restoreLocks, restoreMode, main, received, errs, result,
                     broker, stop, leaseLock, restoreModeLock, tracked, stored, deleted>>
  BY DEF Request, OnFailure, FetchLeaseTimes, Waiting, At, manager, entries, channels, locks
<1>2. proc \in [Threads -> Call] /\ proc[t] \in Call
  BY CallType
<1>3. t \notin RestoreWorkers
  BY <1>1, KindsDiffer
<1>4. ASSUME NEW x \in {"enter", "read"}, proc' = [proc EXCEPT ![t].pc = x, ![t].lease = l]
      PROVE  IInv'
  <2> DEFINE c == [proc[t] EXCEPT !.pc = x, !.lease = l]
  <2>1. proc' = [proc EXCEPT ![t] = c]
    BY <1>2, <1>4
  <2>2. c \in Call /\ c.pc = x /\ c.lease = l
    BY <1>2 DEF Call, Loading, Working
  <2> HIDE DEF c
  <2>. QED  BY <1>1, <1>3, <2>1, <2>2, CallerKeeps DEF WorkerOnly
<1>5. CASE Return(t, "done")
  BY <1>1, <1>3, <1>5, ReturnKeeps
<1>. QED  BY <1>1, <1>4, <1>5

LEMMA RevokePrefixKeeps ==
    ASSUME IInv, NEW t \in Threads, revokePrefixCommon(t) PROVE IInv'
<1>1. /\ proc[t].pc = "idle" /\ t \in Prefixes
      /\ \/ proc' = [proc EXCEPT ![t].pc = "requestLock"]
         \/ \E keys \in Collected : proc' = [proc EXCEPT ![t].pc = "next", ![t].todo = keys]
      /\ UNCHANGED <<loads, restoreLoaded, restoreLocks, restoreMode, main, received, errs, result,
                     broker, stop, leaseLock, restoreModeLock, tracked, stored, deleted>>
  BY DEF revokePrefixCommon, Waiting, At, Goto, manager, entries, channels
<1>2. t \notin RestoreWorkers
  BY <1>1, KindsDiffer
<1>3. CASE proc' = [proc EXCEPT ![t].pc = "requestLock"]
  <2> DEFINE x == "requestLock"
  <2>0. /\ x \in WorkerPlaces \cup Loading \cup {"requestLock", "next", "mark"}
        /\ x = "requestLock" /\ proc' = [proc EXCEPT ![t].pc = x]
    BY <1>3 DEF Loading
  <2> HIDE DEF x
  <2>1. PICK c \in Call : /\ proc' = [proc EXCEPT ![t] = c]
                          /\ c.pc = x /\ c.lease = proc[t].lease /\ c.err = proc[t].err
    BY <2>0, GotoCall
  <2>. QED  BY <1>1, <1>2, <2>0, <2>1, CallerKeeps DEF WorkerOnly, Loading, Working
<1>4. CASE \E keys \in Collected : proc' = [proc EXCEPT ![t].pc = "next", ![t].todo = keys]
  BY <1>1, <1>2, <1>4, CollectKeeps
<1>. QED  BY <1>1, <1>3, <1>4

-----------------------------------------------------------------------------
(* The locks of a load.                                                    *)

\* restoreModeLock is taken, and restore mode is looked at again.
LEMMA ModeRLockKeeps ==
    ASSUME IInv, NEW t \in Threads, modeRLock(t) PROVE IInv'
<1> DEFINE x == IF restoreMode THEN "lockLease" ELSE "read"
<1>1. /\ proc[t].pc = "modeRLock" /\ proc' = [proc EXCEPT ![t].pc = x]
      /\ restoreModeLock' = [restoreModeLock EXCEPT !.readers = @ \cup {t}]
      /\ UNCHANGED <<loads, restoreLoaded, restoreLocks, restoreMode, main, received, errs, result,
                     broker, stop, leaseLock, tracked, stored, deleted>>
  BY DEF modeRLock, At, Goto, manager, entries, channels
<1>2. x \in {"lockLease", "read"} /\ (x = "lockLease" => restoreLocks)
  BY Parts DEF MainInv
<1> HIDE DEF x
<1>3. PICK c \in Call : /\ proc' = [proc EXCEPT ![t] = c]
                        /\ c.pc = x /\ c.lease = proc[t].lease /\ c.err = proc[t].err
  BY <1>1, <1>2, GotoCall DEF Loading, Working
<1>4. t \notin RestoreWorkers /\ proc[t].lease \in Leases
  BY <1>1, IsCaller, HasLease DEF Loading
<1>5. /\ restoreModeLock' \in RWMutex
      /\ restoreModeLock'.readers = restoreModeLock.readers \cup {t}
  BY <1>1, Parts DEF Shape, RWMutex
<1>6. leaseLock \in [Buckets -> Threads \cup {None}] /\ proc'[t] = c
  BY <1>3, CallAt, Parts DEF Shape
<1>7. ~HoldsLease(t)' /\ \A b \in Buckets : leaseLock'[b] # t
  BY <1>1, FreeHands DEF HoldsLease
<1>8. Placed(t)'
  BY <1>1, <1>2, <1>3, <1>4, <1>5, <1>6, <1>7 DEF Placed, WorkerOnly
<1>9. Loaded(t)'
  BY <1>2, <1>3, <1>4, <1>6 DEF Loaded
<1>. QED  BY <1>1, <1>3, <1>4, <1>5, <1>6, <1>8, <1>9, MoveKeeps

\* The lock of the lease is taken.
LEMMA LockLeaseKeeps ==
    ASSUME IInv, NEW t \in Threads, lockLease(t) PROVE IInv'
<1> DEFINE k == Bucket[proc[t].lease]
           c == [proc[t] EXCEPT !.pc = "read"]
<1>1. /\ proc[t].pc = "lockLease" /\ proc' = [proc EXCEPT ![t].pc = "read"]
      /\ leaseLock[k] = None /\ leaseLock' = [leaseLock EXCEPT ![k] = t]
      /\ UNCHANGED <<loads, restoreLoaded, restoreLocks, restoreMode, main, received, errs, result,
                     broker, stop, restoreModeLock, tracked, stored, deleted>>
  BY DEF lockLease, At, Goto, Lease, manager, entries, channels
<1>2. c \in Call /\ c.pc = "read" /\ c.lease = proc[t].lease /\ proc' = [proc EXCEPT ![t] = c]
  <2>1. proc \in [Threads -> Call] /\ proc[t] \in Call
    BY CallType
  <2>2. proc' = [proc EXCEPT ![t] = c]
    BY <1>1, <2>1
  <2>3. c \in Call /\ c.pc = "read" /\ c.lease = proc[t].lease
    BY <2>1 DEF Call, Loading, Working
  <2>. QED  BY <2>2, <2>3
<1> HIDE DEF c
<1>3. proc[t].lease \in Leases
  BY <1>1, HasLease DEF Loading, Working
<1>4. k \in Buckets /\ leaseLock \in [Buckets -> Threads \cup {None}] /\ restoreModeLock \in RWMutex
  BY <1>3, BucketIn, Parts DEF Shape
<1>5. /\ leaseLock' \in [Buckets -> Threads \cup {None}] /\ leaseLock'[k] = t
      /\ \A b \in Buckets : b # k => leaseLock'[b] = leaseLock[b]
  BY <1>1, <1>4
<1>6. proc'[t] = c /\ \A b \in Buckets : leaseLock[b] # t
  BY <1>1, <1>2, CallAt, FreeHands
<1>7. \A b \in Buckets : leaseLock'[b] = t => b = k
  BY <1>5, <1>6
<1>8. /\ restoreLocks /\ (t \in RestoreWorkers \/ t \in restoreModeLock.readers)
      /\ t \in RestoreWorkers => c.pc \in WorkerPlaces
      /\ c.pc \notin WorkerOnly
  BY <1>1, <1>2, Parts DEF Placed, WorkerPlaces, Working, WorkerOnly
<1>9. Bucket[proc'[t].lease] = k
  BY <1>2, <1>6
<1> HIDE DEF k
<1>10. Placed(t)'
  BY <1>1, <1>2, <1>3, <1>5, <1>6, <1>7, <1>8, <1>9 DEF Placed, Loading, Working
<1>11. Loaded(t)'
  BY <1>2, <1>6 DEF Loaded
<1>12. ASSUME NEW q \in Threads, q # t
       PROVE  \A b \in Buckets : leaseLock'[b] = q <=> leaseLock[b] = q
  BY <1>1, <1>5, <1>12, KindsDiffer
<1>13. proc[t].pc \in Working /\ c.pc \in Working
  BY <1>1, <1>2 DEF Working
<1>14. /\ proc[t].pc \notin {"setup", "idle", "done"} /\ restoreModeLock' \in RWMutex
       /\ restoreModeLock'.readers = restoreModeLock.readers
       /\ UNCHANGED <<loads, restoreLoaded, restoreLocks, restoreMode, main, received, errs,
                      result, broker, stop, tracked, stored, deleted>>
  BY <1>1, <1>4
<1>. QED  BY <1>2, <1>5, <1>10, <1>11, <1>12, <1>13, <1>14, MoveKeeps

\* Only callers and workers that have the lock of their lease set it up.
LEMMA ReadFacts ==
    ASSUME IInv, NEW t \in Threads, proc[t].pc = "read"
    PROVE  /\ proc[t].lease \in Leases /\ Bucket[proc[t].lease] \in Buckets
           /\ t \in RestoreWorkers => HoldsLease(t)
           /\ HoldsLease(t) => leaseLock[Bucket[proc[t].lease]] = t /\ restoreLocks
<1>1. proc[t].lease \in Leases /\ Placed(t)
  BY HasLease, Parts DEF Loading, Working
<1>2. Bucket[proc[t].lease] \in Buckets
  BY <1>1, BucketIn
<1>. QED  BY <1>1, <1>2 DEF Placed, HoldsLease

\* A load that fails, or that finds nothing to do.
LEMMA ReadReleases ==
    ASSUME IInv, NEW t \in Threads, NEW c \in Call, proc[t].pc = "read",
           proc' = [proc EXCEPT ![t] = c], c.pc = "release", c.lease = proc[t].lease,
           c.err \/ t \notin RestoreWorkers \/ proc[t].lease \in restoreLoaded \cup deleted,
           UNCHANGED <<loads, restoreLoaded, restoreLocks, restoreMode, main, received, errs,
                       result, broker, stop, leaseLock, restoreModeLock, tracked, stored, deleted>>
    PROVE  IInv'
<1>1. proc'[t] = c
  BY CallAt
<1>2. proc[t].lease \in Leases /\ Placed(t)
  BY ReadFacts, Parts
<1>3. HoldsLease(t)' <=> HoldsLease(t)
  BY DEF HoldsLease
<1>4. Placed(t)'
  BY <1>1, <1>2, <1>3 DEF Placed, WorkerPlaces, Working, WorkerOnly, Loading
<1>5. Loaded(t)'
  BY <1>1 DEF Loaded
<1>6. proc[t].pc \in Working /\ c.pc \in Working /\ proc[t].pc \notin {"idle", "done", "setup"}
  BY DEF Working
<1>. QED  BY <1>4, <1>5, <1>6, WalkKeeps

\* The first to come with the lock of the lease goes on to set it up, and so
\* does every call of FetchLeaseTimes.
LEMMA ReadSetsUp ==
    ASSUME IInv, NEW t \in Threads, NEW c \in Call, proc[t].pc = "read", setsUp(t),
           proc' = [proc EXCEPT ![t] = c], c.pc = "setup", c.lease = proc[t].lease,
           restoreLoaded' = restoreLoaded \cup {proc[t].lease},
           UNCHANGED <<loads, restoreLocks, restoreMode, main, received, errs,
                       result, broker, stop, leaseLock, restoreModeLock, tracked, stored, deleted>>
    PROVE  IInv'
<1> DEFINE l == proc[t].lease
<1>1. proc'[t] = c /\ OnlyThread(t) /\ proc' \in [Threads -> Call]
  BY CallAt
<1>2. l \in Leases /\ Placed(t)
  BY ReadFacts, Parts
<1>3. t \notin Fetches => leaseLock[Bucket[l]] = t /\ restoreLocks /\ l \notin restoreLoaded
  BY ReadFacts DEF setsUp, seen, Lease
<1>31. t \notin Fetches => loads[l] = 0
  BY <1>2, <1>3, Parts DEF LoadsInv
<1>0. Kept
  BY KeptSame
<1>4. Shape'
  BY <1>1, Parts DEF Shape
<1>5. HoldsLease(t)' <=> HoldsLease(t)
  BY DEF HoldsLease
<1>6. Placed(t)'
  BY <1>1, <1>2, <1>3, <1>5 DEF Placed, WorkerPlaces, Working, WorkerOnly, Loading
<1>7. Loaded(t)'
  BY <1>1, <1>31 DEF Loaded
<1>8. ASSUME NEW q \in Threads PROVE Placed(q)' /\ Loaded(q)'
  <2>1. CASE q = t
    BY <1>6, <1>7, <2>1
  <2>2. CASE q # t
    <3>1. proc'[q] = proc[q]
      BY <1>1, <2>2 DEF OnlyThread
    <3>. QED  BY <1>0, <3>1, PlacedSame, LoadedSame
  <2>. QED  BY <2>1, <2>2
<1>9. LoadsInv' /\ GoneInv'
  <2>0. \A q \in Threads : proc[q].pc = "setup" => proc'[q] = proc[q]
    BY <1>1 DEF OnlyThread
  <2>1. ASSUME NEW k \in Leases
        PROVE  /\ loads[k] \in {0, 1}
               /\ restoreLocks /\ k \notin restoreLoaded' => loads[k] = 0
               /\ Up' /\ Passed(k)' => Watched(k)'
    <3>1. /\ loads[k] \in {0, 1} /\ (restoreLocks /\ k \notin restoreLoaded => loads[k] = 0)
          /\ Up /\ Passed(k) => Watched(k)
      BY Parts DEF LoadsInv
    <3>2. CASE k = l
      <4>1. Watched(k)'
        BY <1>1, <3>2 DEF Watched
      <4>. QED  BY <3>1, <3>2, <4>1
    <3>3. CASE k # l
      <4>1. Passed(k)' => Passed(k)
        BY <3>3 DEF Passed
      <4>2. Watched(k) => Watched(k)'
        BY <2>0 DEF Watched
      <4>. QED  BY <3>1, <3>3, <4>1, <4>2 DEF Up
    <3>. QED  BY <3>2, <3>3
  <2>2. LoadsInv'
    BY <2>1 DEF LoadsInv
  <2>. QED  BY <2>2, Parts DEF GoneInv
<1>10. \A w \in RestoreWorkers : w \in Threads
  BY KindsDiffer
<1>11. MainInv'
  BY <1>0, <1>1, <1>10, MainSame DEF OnlyThread
<1>12. WorkSame
  BY <1>1, <1>10 DEF OnlyThread, WorkSame, Busy, Working
<1>13. Apart' /\ CountInv'
  BY <1>0, <1>12, PoolSame, CountSame
<1>. QED  BY <1>4, <1>8, <1>9, <1>11, <1>13 DEF IInv

LEMMA LoadEntryInternalKeeps ==
    ASSUME IInv, NEW t \in Threads, loadEntryInternal(t) PROVE IInv'
<1>1. /\ proc[t].pc = "read"
      /\ UNCHANGED <<loads, restoreLocks, restoreMode, main, received, errs,
                     result, broker, stop, leaseLock, restoreModeLock, tracked, stored, deleted>>
  BY DEF loadEntryInternal, At, entries, locks, channels
<1>2. proc \in [Threads -> Call] /\ proc[t] \in Call /\ proc[t].lease \in Leases
  BY <1>1, CallType, ReadFacts
<1>3. CASE /\ proc' = [proc EXCEPT ![t] = [@ EXCEPT !.pc = "release", !.err = TRUE]]
           /\ restoreLoaded' = restoreLoaded
  <2> DEFINE c == [proc[t] EXCEPT !.pc = "release", !.err = TRUE]
  <2>1. proc' = [proc EXCEPT ![t] = c]
    BY <1>2, <1>3
  <2>2. c \in Call /\ c.pc = "release" /\ c.lease = proc[t].lease /\ c.err
    BY <1>2 DEF Call, Loading, Working
  <2> HIDE DEF c
  <2>. QED  BY <1>1, <1>3, <2>1, <2>2, ReadReleases
<1>4. CASE /\ proc' = [proc EXCEPT ![t] = [@ EXCEPT !.pc = "release", !.nil = TRUE]]
           /\ restoreLoaded' = restoreLoaded /\ Lease(t) \notin stored
  <2> DEFINE c == [proc[t] EXCEPT !.pc = "release", !.nil = TRUE]
  <2>1. proc' = [proc EXCEPT ![t] = c]
    BY <1>2, <1>4
  <2>2. c \in Call /\ c.pc = "release" /\ c.lease = proc[t].lease
    BY <1>2 DEF Call, Loading, Working
  <2>3. proc[t].lease \in deleted
    BY <1>2, <1>4, Parts DEF GoneInv, Lease
  <2> HIDE DEF c
  <2>. QED  BY <1>1, <1>4, <2>1, <2>2, <2>3, ReadReleases
<1>5. CASE setsUp(t) /\ restoreLoaded' = restoreLoaded \cup {Lease(t)} /\ Goto(t, "setup")
  <2> DEFINE c == [proc[t] EXCEPT !.pc = "setup"]
  <2>1. proc' = [proc EXCEPT ![t] = c]
    BY <1>2, <1>5 DEF Goto
  <2>2. c \in Call /\ c.pc = "setup" /\ c.lease = proc[t].lease
    BY <1>2 DEF Call, Loading, Working
  <2> HIDE DEF c
  <2>. QED  BY <1>1, <1>5, <2>1, <2>2, ReadSetsUp DEF Lease
<1>6. CASE (passesOver(t) \/ ~setsUp(t)) /\ Goto(t, "release") /\ restoreLoaded' = restoreLoaded
  <2> DEFINE c == [proc[t] EXCEPT !.pc = "release"]
  <2>1. proc' = [proc EXCEPT ![t] = c]
    BY <1>2, <1>6 DEF Goto
  <2>2. c \in Call /\ c.pc = "release" /\ c.lease = proc[t].lease
    BY <1>2 DEF Call, Loading, Working
  <2>3. t \notin RestoreWorkers \/ proc[t].lease \in restoreLoaded
    BY <1>1, <1>6, ReadFacts DEF passesOver, setsUp, seen, Lease
  <2> HIDE DEF c
  <2>. QED  BY <1>1, <1>6, <2>1, <2>2, <2>3, ReadReleases
<1>. QED  BY <1>3, <1>4, <1>5, <1>6 DEF loadEntryInternal

\* The lease is set up, under its lock only by the one thread that came first.
LEMMA UpdatePendingKeeps ==
    ASSUME IInv, NEW t \in Threads, updatePending(t) PROVE IInv'
<1> DEFINE l == proc[t].lease
           c == [proc[t] EXCEPT !.pc = "release"]
<1>1. /\ proc[t].pc = "setup" /\ tracked' = tracked \cup {l}
      /\ loads' = IF t \in Fetches THEN loads ELSE [loads EXCEPT ![l] = @ + 1]
      /\ proc' = [proc EXCEPT ![t].pc = "release"]
      /\ UNCHANGED <<restoreLoaded, restoreLocks, restoreMode, main, received, errs,
                     result, broker, stop, leaseLock, restoreModeLock, stored, deleted>>
  BY DEF updatePending, At, Goto, Lease, entries, locks, channels
<1>2. proc \in [Threads -> Call] /\ proc[t] \in Call /\ loads \in [Leases -> Nat]
  BY CallType, Parts DEF Shape
<1>3. proc' = [proc EXCEPT ![t] = c]
  BY <1>1, <1>2
<1>4. c \in Call /\ c.pc = "release" /\ c.lease = l
  BY <1>2 DEF Call, Loading, Working
<1>5. /\ l \in Leases /\ Placed(t)
      /\ t \notin Fetches => leaseLock[Bucket[l]] = t /\ l \in restoreLoaded /\ loads[l] = 0
  BY <1>1, HasLease, Parts DEF Placed, Loaded, Loading, Working
<1> HIDE DEF c, l
<1>7. /\ loads' \in [Leases -> Nat] /\ (t \notin Fetches => loads'[l] = 1)
      /\ t \in Fetches => loads' = loads
      /\ \A k \in Leases : k # l => loads'[k] = loads[k]
  BY <1>1, <1>2, <1>5
<1>8. proc'[t] = c /\ OnlyThread(t) /\ proc' \in [Threads -> Call]
  BY <1>3, <1>4, CallAt
<1>0. Kept
  BY <1>1, Parts DEF Kept, Shape, GoneInv, Up
<1>9. Shape'
  BY <1>1, <1>7, <1>8, Parts DEF Shape
<1>10. HoldsLease(t)' <=> HoldsLease(t)
  BY <1>1 DEF HoldsLease
<1>11. Placed(t)'
  BY <1>1, <1>4, <1>5, <1>8, <1>10 DEF Placed, WorkerPlaces, Working, WorkerOnly, Loading, l
<1>12. Loaded(t)'
  <2>0. restoreLoaded' = restoreLoaded /\ (t \in RestoreWorkers => t \notin Fetches)
    BY <1>1, KindsDiffer
  <2>1. proc'[t].pc = "release" /\ (t \in RestoreWorkers => proc'[t].lease \in restoreLoaded')
    BY <1>4, <1>5, <1>8, <2>0
  <2>. QED  BY <2>1 DEF Loaded
<1>13. ASSUME NEW q \in Threads, q # t, proc[q].pc = "setup", q \notin Fetches, t \notin Fetches
       PROVE  proc[q].lease \in Leases /\ proc[q].lease # l
  <2>1. proc[q].lease \in Leases /\ leaseLock[Bucket[proc[q].lease]] = q
    BY <1>13, HasLease, Parts DEF Placed, Loading, Working
  <2>. QED  BY <1>5, <1>13, <2>1
<1>14. ASSUME NEW q \in Threads PROVE Placed(q)' /\ Loaded(q)'
  <2>1. CASE q = t
    BY <1>11, <1>12, <2>1
  <2>2. CASE q # t
    <3>1. proc'[q] = proc[q]
      BY <1>8, <2>2 DEF OnlyThread
    <3>2. proc[q].pc = "setup" /\ q \notin Fetches => loads'[proc[q].lease] = loads[proc[q].lease]
      BY <1>7, <1>13, <2>2
    <3>3. Loaded(q)'
      BY <1>0, <1>1, <3>1, <3>2, LoadedSame
    <3>. QED  BY <1>1, <3>1, <3>3, PlacedSame
  <2>. QED  BY <2>1, <2>2
<1>15. LoadsInv' /\ GoneInv'
  <2>1. ASSUME NEW k \in Leases
        PROVE  /\ loads'[k] \in {0, 1}
               /\ restoreLocks /\ k \notin restoreLoaded => loads'[k] = 0
               /\ Up' /\ Passed(k)' => Watched(k)'
    <3>1. /\ loads[k] \in {0, 1} /\ (restoreLocks /\ k \notin restoreLoaded => loads[k] = 0)
          /\ Up /\ Passed(k) => Watched(k)
      BY Parts DEF LoadsInv
    <3>2. /\ loads'[k] \in {0, 1}
          /\ restoreLocks /\ k \notin restoreLoaded => loads'[k] = 0
      BY <1>5, <1>7, <3>1
    <3>3. CASE k = l
      <4>1. Watched(k)'
        BY <1>1, <3>3 DEF Watched
      <4>. QED  BY <3>2, <4>1
    <3>4. CASE k # l
      <4>1. Passed(k)' => Passed(k)
        BY <1>1 DEF Passed
      <4>2. ASSUME NEW q \in Threads, proc[q].lease = k PROVE proc'[q] = proc[q]
        BY <1>8, <3>4, <4>2 DEF OnlyThread, l
      <4>3. Watched(k) => Watched(k)'
        BY <1>1, <4>2 DEF Watched
      <4>. QED  BY <1>1, <3>1, <3>2, <4>1, <4>3 DEF Up
    <3>. QED  BY <3>3, <3>4
  <2>2. LoadsInv'
    BY <1>1, <2>1 DEF LoadsInv
  <2>. QED  BY <1>0, <2>2 DEF GoneInv, Kept
<1>16. \A w \in RestoreWorkers : w \in Threads
  BY KindsDiffer
<1>17. MainInv'
  <2>1. \A w \in RestoreWorkers : proc[w].pc \in {"idle", "done"} => proc'[w].pc = proc[w].pc
    BY <1>1, <1>8, <1>16 DEF OnlyThread
  <2>. QED  BY <1>0, <1>1, <2>1, MainSame
<1>18. WorkSame
  BY <1>1, <1>4, <1>8, <1>16 DEF OnlyThread, WorkSame, Busy, Working, l
<1>19. Apart' /\ CountInv'
  BY <1>0, <1>1, <1>18, PoolSame, CountSame
<1>. QED  BY <1>9, <1>14, <1>15, <1>17, <1>19 DEF IInv

\* The deferred unlocks.
LEMMA ReleaseKeeps ==
    ASSUME IInv, NEW t \in Threads, release(t) PROVE IInv'
<1> DEFINE x == afterLoad(t)
           c == goesOn(t)
<1>1. /\ proc[t].pc = "release"
      /\ leaseLock' = [b \in Buckets |-> IF leaseLock[b] = t THEN None ELSE leaseLock[b]]
      /\ restoreModeLock' = [restoreModeLock EXCEPT !.readers = @ \ {t}]
      /\ proc' = [proc EXCEPT ![t] = c]
      /\ UNCHANGED <<loads, restoreLoaded, restoreLocks, restoreMode, main, received, errs,
                     result, broker, stop, tracked, stored, deleted>>
  BY DEF release, At, manager, entries, channels
<1>2. /\ t \in RestoreWorkers => x = "report"
      /\ t \notin RestoreWorkers => x \in {"mark", "done", "section", "next"}
  <2>1. CASE t \in RestoreWorkers
    BY <2>1, KindsDiffer DEF afterLoad
  <2>2. CASE t \in Failures
    BY <2>2, KindsDiffer DEF afterLoad
  <2>3. CASE t \in Requests
    BY <2>3, KindsDiffer DEF afterLoad
  <2>4. CASE t \in Prefixes
    BY <2>4, KindsDiffer DEF afterLoad
  <2>5. CASE t \in Fetches
    BY <2>5, KindsDiffer DEF afterLoad
  <2>. QED  BY <2>1, <2>2, <2>3, <2>4, <2>5, KindsDiffer DEF Threads
<1>4. proc' = [proc EXCEPT ![t] = c]
  BY <1>1
<1>5. /\ c \in Call /\ c.pc = x
      /\ c.pc # "done" => c.lease = proc[t].lease /\ c.err = proc[t].err
  <2> HIDE DEF x
  <2>1. CASE x = "done"
    <3>1. c = Fresh("done")
      BY <2>1 DEF goesOn, x
    <3>2. "done" \in WorkerPlaces
      BY DEF WorkerPlaces
    <3>. QED  BY <2>1, <3>1, <3>2, FreshCall
  <2>2. CASE x # "done"
    <3> DEFINE rest == IF proc[t].err THEN {} ELSE proc[t].todo
    <3>1. proc[t] \in Call /\ rest \subseteq Leases
      BY CallType
    <3>2. c = [proc[t] EXCEPT !.pc = x, !.todo = rest]
      BY <2>2, <3>1 DEF goesOn, x, Call
    <3> HIDE DEF rest, c
    <3>. QED  BY <1>2, <3>1, <3>2 DEF Call, Loading, Working, WorkerPlaces
  <2>. QED  BY <2>1, <2>2
<1> HIDE DEF c, x
<1>6. /\ leaseLock \in [Buckets -> Threads \cup {None}] /\ restoreModeLock \in RWMutex
      /\ proc[t].lease \in Leases /\ Loaded(t)
  BY <1>1, HasLease, Parts DEF Shape, Loading, Working
<1>7. /\ restoreModeLock' \in RWMutex
      /\ restoreModeLock'.readers = restoreModeLock.readers \ {t}
  BY <1>1, <1>6 DEF RWMutex
<1>8. leaseLock' \in [Buckets -> Threads \cup {None}] /\ \A b \in Buckets : leaseLock'[b] # t
  BY <1>1, <1>6, KindsDiffer
<1>9. ASSUME NEW q \in Threads, q # t
      PROVE  \A b \in Buckets : leaseLock'[b] = q <=> leaseLock[b] = q
  BY <1>1, <1>9, KindsDiffer
<1>10. proc'[t] = c /\ ~HoldsLease(t)'
  BY <1>4, <1>5, <1>8, CallAt DEF HoldsLease
<1>11. Placed(t)'
  BY <1>2, <1>5, <1>6, <1>8, <1>10 DEF Placed, WorkerPlaces, Working, WorkerOnly, Loading
<1>12. Loaded(t)'
  BY <1>1, <1>2, <1>5, <1>6, <1>10 DEF Loaded
<1>13. t \in RestoreWorkers => proc[t].pc \in Working /\ c.pc \in Working /\ c.lease = proc[t].lease
  BY <1>1, <1>2, <1>5 DEF Working
<1>14. \A q \in Threads : q # t => (q \in restoreModeLock.readers => q \in restoreModeLock'.readers)
  BY <1>7
<1>15. /\ UNCHANGED <<loads, restoreLoaded, restoreLocks, restoreMode, main, received, errs,
                      result, broker, stop, tracked, stored, deleted>>
       /\ proc[t].pc \notin {"setup", "idle", "done"}
  BY <1>1
<1>. QED  BY <1>4, <1>5, <1>7, <1>8, <1>9, <1>11, <1>12, <1>13, <1>14, <1>15, MoveKeeps

-----------------------------------------------------------------------------
(* Steps of the workers and of the distributor.                            *)

\* While a worker is not done, restore mode has its lease locks.
LEMMA LocksThere ==
    ASSUME IInv, NEW w \in RestoreWorkers, proc[w].pc # "done"
    PROVE  restoreLocks /\ main \notin {"modeLock", "done"}
  BY Parts DEF MainInv

LEMMA IsWorker ==
    ASSUME IInv, NEW t \in Threads, proc[t].pc \in WorkerOnly PROVE t \in RestoreWorkers
  BY Parts DEF Placed

LEMMA WorkerDoneKeeps ==
    ASSUME IInv, NEW t \in Threads, workerDone(t) PROVE IInv'
<1> DEFINE c == Fresh("done")
<1>1. /\ proc[t].pc = "select" /\ proc' = [proc EXCEPT ![t] = c]
      /\ UNCHANGED <<loads, restoreLoaded, restoreLocks, restoreMode, main, received, errs,
                     result, broker, stop, leaseLock, restoreModeLock, tracked, stored, deleted>>
  BY DEF workerDone, At, Return, manager, entries, locks, channels
<1>2. t \in RestoreWorkers
  BY <1>1, IsWorker DEF WorkerOnly
<1>3. proc' = [proc EXCEPT ![t] = c]
  BY <1>1
<1>4. c \in Call /\ c.pc = "done"
  BY FreshCall DEF WorkerPlaces
<1> HIDE DEF c
<1>5. /\ proc'[t] = c /\ ~HoldsLease(t)' /\ \A b \in Buckets : leaseLock'[b] # t
  BY <1>1, <1>3, <1>4, CallAt, FreeHands DEF HoldsLease
<1>6. Placed(t)'
  BY <1>2, <1>4, <1>5 DEF Placed, WorkerPlaces, Working, Loading
<1>7. Loaded(t)'
  BY <1>4, <1>5 DEF Loaded
<1>8. proc[t].pc \notin Working /\ c.pc \notin Working
  BY <1>1, <1>4 DEF Working
<1>. QED  BY <1>1, <1>3, <1>4, <1>6, <1>7, <1>8, WalkKeeps

LEMMA ProcessRestoreKeeps ==
    ASSUME IInv, NEW t \in Threads, processRestore(t) PROVE IInv'
<1> DEFINE x == IF proc[t].lease \in restoreLoaded THEN "release" ELSE "lockLease"
           c == [proc[t] EXCEPT !.pc = x]
<1>1. /\ proc[t].pc = "process" /\ proc' = [proc EXCEPT ![t].pc = x]
      /\ UNCHANGED <<loads, restoreLoaded, restoreLocks, restoreMode, main, received, errs,
                     result, broker, stop, leaseLock, restoreModeLock, tracked, stored, deleted>>
  BY DEF processRestore, At, Goto, Lease, manager, entries, channels
<1>2. x \in {"release", "lockLease"} /\ (x = "release" => proc[t].lease \in restoreLoaded)
  OBVIOUS
<1> HIDE DEF x
<1>3. proc \in [Threads -> Call] /\ proc[t] \in Call /\ t \in RestoreWorkers
  BY <1>1, CallType, IsWorker DEF WorkerOnly
<1>4. proc' = [proc EXCEPT ![t] = c]
  BY <1>1, <1>3
<1>5. c \in Call /\ c.pc = x /\ c.lease = proc[t].lease
  BY <1>2, <1>3 DEF Call, WorkerPlaces, Working
<1> HIDE DEF c
<1>6. proc[t].lease \in Leases /\ restoreLocks
  BY <1>1, <1>3, HasLease, LocksThere DEF Loading, Working
<1>7. /\ proc'[t] = c /\ ~HoldsLease(t)' /\ \A b \in Buckets : leaseLock'[b] # t
  BY <1>1, <1>4, <1>5, CallAt, FreeHands DEF HoldsLease
<1>8. Placed(t)'
  BY <1>1, <1>2, <1>3, <1>5, <1>6, <1>7 DEF Placed, WorkerPlaces, Working, Loading
<1>9. Loaded(t)'
  BY <1>1, <1>2, <1>5, <1>7 DEF Loaded
<1>10. proc[t].pc \in Working /\ c.pc \in Working /\ proc[t].pc \notin {"idle", "done", "setup"}
  BY <1>1, <1>2, <1>5 DEF Working
<1>. QED  BY <1>1, <1>4, <1>5, <1>8, <1>9, <1>10, WalkKeeps

\* A worker that has no lease lock and is not setting up goes on; the messages
\* of the pool may change.
LEMMA WorkerMoves ==
    ASSUME IInv, NEW t \in RestoreWorkers, NEW c \in Call, proc' = [proc EXCEPT ![t] = c],
           UNCHANGED <<loads, restoreLoaded, restoreLocks, main, stop, leaseLock, restoreModeLock,
                       tracked, stored, deleted>>,
           proc[t].pc \in {"select", "report"}, c.pc \in {"select", "process"},
           c.pc = "process" => c.lease \in Leases
    PROVE  (\A q \in Threads : Placed(q)' /\ Loaded(q)') /\ LoadsInv' /\ GoneInv'
<1>0. t \in Threads /\ Kept
  BY KindsDiffer, KeptSame
<1>1. proc'[t] = c /\ OnlyThread(t)
  BY <1>0, CallAt
<1>2. ~HoldsLease(t)' /\ \A b \in Buckets : leaseLock'[b] # t
  BY <1>0, FreeHands DEF HoldsLease
<1>3. Placed(t)'
  BY <1>1, <1>2 DEF Placed, WorkerPlaces, Working, Loading
<1>4. Loaded(t)'
  BY <1>1 DEF Loaded
<1>5. ASSUME NEW q \in Threads PROVE Placed(q)' /\ Loaded(q)'
  <2>1. CASE q = t
    BY <1>3, <1>4, <2>1
  <2>2. CASE q # t
    <3>1. proc'[q] = proc[q]
      BY <1>1, <2>2 DEF OnlyThread
    <3>. QED  BY <1>0, <3>1, PlacedSame, LoadedSame
  <2>. QED  BY <2>1, <2>2
<1>6. LoadsInv' /\ GoneInv'
  BY <1>0, <1>1, LoadsSame DEF OnlyThread
<1>. QED  BY <1>5, <1>6

\* A lease goes from the distributor to a worker.
LEMMA ReceiveLeaseKeeps ==
    ASSUME IInv, NEW t \in Threads, receiveLease(t) PROVE IInv'
<1> DEFINE l == broker.lease
           c == [proc[t] EXCEPT !.pc = "process", !.lease = l, !.err = FALSE, !.nil = FALSE]
<1>1. /\ proc[t].pc = "select" /\ broker.pc = "send"
      /\ proc' = [proc EXCEPT ![t] = [@ EXCEPT !.pc = "process", !.lease = l,
                                               !.err = FALSE, !.nil = FALSE]]
      /\ broker' = [broker EXCEPT !.pc = "select", !.lease = None]
      /\ UNCHANGED <<loads, restoreLoaded, restoreLocks, restoreMode, main, received, errs,
                     result, stop, leaseLock, restoreModeLock, tracked, stored, deleted>>
  BY DEF receiveLease, At, manager, entries, locks
<1>2. proc \in [Threads -> Call] /\ proc[t] \in Call /\ t \in RestoreWorkers
  BY <1>1, CallType, IsWorker DEF WorkerOnly
<1>3. /\ broker \in [pc : {"none", "select", "send", "closed", "quit"},
                     lease : Existing \cup {None}, todo : SUBSET Existing]
      /\ l \in Existing \ broker.todo /\ l \in Leases
  BY <1>1, Parts DEF Shape, Apart, Leases
<1>4. proc' = [proc EXCEPT ![t] = c]
  BY <1>1, <1>2
<1>5. c \in Call /\ c.pc = "process" /\ c.lease = l
  BY <1>2, <1>3 DEF Call, WorkerPlaces, Working
<1>6. /\ broker' \in [pc : {"none", "select", "send", "closed", "quit"},
                      lease : Existing \cup {None}, todo : SUBSET Existing]
      /\ broker'.pc = "select" /\ broker'.todo = broker.todo
  BY <1>1, <1>3
<1> HIDE DEF c, l
<1>7. proc'[t] = c /\ OnlyThread(t) /\ proc' \in [Threads -> Call]
  BY <1>4, <1>5, CallAt
<1>8. Shape'
  BY <1>1, <1>6, <1>7, Parts DEF Shape
<1>9. (\A q \in Threads : Placed(q)' /\ Loaded(q)') /\ LoadsInv' /\ GoneInv'
  BY <1>1, <1>2, <1>3, <1>4, <1>5, WorkerMoves
<1>10. MainInv'
  <2>1. main \notin {"modeLock", "done", "collect"}
    BY <1>1, <1>2, Parts DEF MainInv
  <2>. QED  BY <1>1, <2>1, Parts DEF MainInv
<1>11. Busy(t)' /\ ~Busy(t) /\ proc'[t].lease = l
  BY <1>1, <1>2, <1>5, <1>7 DEF Busy, Working
<1>12. ASSUME NEW w \in RestoreWorkers, w # t PROVE proc'[w] = proc[w] /\ (Busy(w)' <=> Busy(w))
  BY <1>7, <1>12, KindsDiffer DEF OnlyThread, Busy
<1>13. \A w \in RestoreWorkers : Busy(w) => proc[w].lease \in Existing \ broker.todo /\ proc[w].lease # l
  BY <1>1, Parts DEF Apart, l
<1>14. Apart'
  <2>1. \A w \in RestoreWorkers : Busy(w)' => proc'[w].lease \in Existing \ broker.todo
    BY <1>3, <1>11, <1>12, <1>13
  <2>2. \A v, w \in RestoreWorkers :
          Busy(v)' /\ Busy(w)' /\ proc'[v].lease = proc'[w].lease => v = w
    <3>1. \A v, w \in RestoreWorkers : Busy(v) /\ Busy(w) /\ proc[v].lease = proc[w].lease => v = w
      BY Parts DEF Apart
    <3>. QED  BY <1>11, <1>12, <1>13, <3>1
  <2>. QED  BY <1>6, <2>1, <2>2 DEF Apart
<1>15. Reported' = Reported
  <2>1. ASSUME NEW k \in Existing PROVE k \in Reported' <=> k \in Reported
    <3>1. k \in Reported <=> /\ k \notin broker.todo /\ k # l
                             /\ \A w \in RestoreWorkers : ~(Busy(w) /\ proc[w].lease = k)
      BY <1>1 DEF Reported, l
    <3>2. k \in Reported' <=> /\ k \notin broker.todo
                              /\ \A w \in RestoreWorkers : ~(Busy(w)' /\ proc'[w].lease = k)
      BY <1>6 DEF Reported
    <3>. QED  BY <1>2, <1>11, <1>12, <3>1, <3>2
  <2>2. Reported \subseteq Existing /\ Reported' \subseteq Existing
    BY DEF Reported
  <2>. QED  BY <2>1, <2>2
<1>16. CountInv'
  BY <1>1, <1>15, Parts DEF CountInv
<1>. QED  BY <1>8, <1>9, <1>10, <1>14, <1>16 DEF IInv

\* A worker sends its result, or its error: one more lease is reported.
LEMMA ReportKeeps ==
    ASSUME IInv, NEW t \in Threads, report(t) PROVE IInv'
<1> DEFINE l == proc[t].lease
           c == Fresh("select")
<1>1. /\ proc[t].pc = "report" /\ proc' = [proc EXCEPT ![t] = c]
      /\ \/ proc[t].err /\ errs' = errs + 1 /\ UNCHANGED result
         \/ ~proc[t].err /\ result' = result + 1 /\ UNCHANGED errs
      /\ UNCHANGED <<loads, restoreLoaded, restoreLocks, restoreMode, main, received, broker,
                     stop, leaseLock, restoreModeLock, tracked, stored, deleted>>
  BY DEF report, At, Return, manager, entries, locks
<1>2. t \in RestoreWorkers
  BY <1>1, IsWorker DEF WorkerOnly
<1>3. proc' = [proc EXCEPT ![t] = c]
  BY <1>1
<1>4. c \in Call /\ c.pc = "select"
  BY FreshCall DEF WorkerPlaces
<1> HIDE DEF c
<1>5. proc'[t] = c /\ OnlyThread(t) /\ proc' \in [Threads -> Call]
  BY <1>3, <1>4, CallAt
<1>6. received \in Nat /\ errs \in Nat /\ result \in Nat
  BY Parts DEF Shape
<1>7. Shape'
  BY <1>1, <1>5, <1>6, Parts DEF Shape
<1>8. (\A q \in Threads : Placed(q)' /\ Loaded(q)') /\ LoadsInv' /\ GoneInv'
  BY <1>1, <1>2, <1>3, <1>4, WorkerMoves
<1>9. MainInv'
  <2>1. main \notin {"modeLock", "done", "collect"}
    BY <1>1, <1>2, Parts DEF MainInv
  <2>. QED  BY <1>1, <2>1, Parts DEF MainInv
<1>10. ~Busy(t)' /\ Busy(t)
  BY <1>1, <1>2, <1>4, <1>5 DEF Busy, Working
<1>11. ASSUME NEW w \in RestoreWorkers, w # t PROVE proc'[w] = proc[w] /\ (Busy(w)' <=> Busy(w))
  BY <1>5, <1>11, KindsDiffer DEF OnlyThread, Busy
<1>12. Apart'
  <2>1. \A w \in RestoreWorkers : Busy(w)' => Busy(w) /\ proc'[w] = proc[w]
    BY <1>10, <1>11
  <2>. QED  BY <1>1, <2>1, Parts DEF Apart
<1>13. /\ l \in Existing /\ l \notin broker.todo /\ ~(broker.pc = "send" /\ broker.lease = l)
       /\ \A w \in RestoreWorkers : Busy(w) /\ proc[w].lease = l => w = t
  BY <1>2, <1>10, Parts DEF Apart
<1> HIDE DEF l
<1>14. Reported' = Reported \cup {l} /\ l \notin Reported
  <2>1. ASSUME NEW k \in Existing PROVE k \in Reported' <=> k \in Reported \/ k = l
    <3>1. k \in Reported <=> /\ k \notin broker.todo /\ ~(broker.pc = "send" /\ broker.lease = k)
                             /\ \A w \in RestoreWorkers : ~(Busy(w) /\ proc[w].lease = k)
      BY DEF Reported
    <3>2. k \in Reported' <=> /\ k \notin broker.todo /\ ~(broker.pc = "send" /\ broker.lease = k)
                              /\ \A w \in RestoreWorkers : ~(Busy(w)' /\ proc'[w].lease = k)
      BY <1>1 DEF Reported
    <3>3. CASE k = l
      BY <1>10, <1>11, <1>13, <3>2, <3>3
    <3>4. CASE k # l
      <4>1. \A w \in RestoreWorkers : (Busy(w)' /\ proc'[w].lease = k) <=> (Busy(w) /\ proc[w].lease = k)
        BY <1>10, <1>11, <3>4 DEF l
      <4>. QED  BY <3>1, <3>2, <3>4, <4>1
    <3>. QED  BY <3>3, <3>4
  <2>2. Reported \subseteq Existing /\ Reported' \subseteq Existing
    BY DEF Reported
  <2>3. l \notin Reported
    BY <1>2, <1>10 DEF Reported, l
  <2>. QED  BY <1>13, <2>1, <2>2, <2>3
<1>15. /\ Cardinality(Reported') = Cardinality(Reported) + 1
       /\ Cardinality(Reported) \in Nat
  <2>1. IsFiniteSet(Reported)
    BY FS_Subset, RestoreAssumption DEF Reported
  <2>. QED  BY <1>14, <2>1, FS_AddElement, FS_CardinalityType
<1>16. CountInv'
  <2>1. SUFFICES ASSUME main = "receive"
                 PROVE  /\ received + result' + errs' <= Cardinality(Reported')
                        /\ errs' = 0 => Reported' \subseteq restoreLoaded \cup deleted
    BY <1>1 DEF CountInv
  <2>2. received + result + errs <= Cardinality(Reported) /\ (errs = 0 => Reported \subseteq restoreLoaded \cup deleted)
    BY <2>1, Parts DEF CountInv
  <2>3. received + result' + errs' <= Cardinality(Reported')
    BY <1>1, <1>6, <1>15, <2>2
  <2>4. ~proc[t].err => l \in restoreLoaded \cup deleted
    BY <1>1, <1>2, Parts DEF Loaded, l
  <2>5. errs' = 0 => ~proc[t].err /\ errs = 0
    BY <1>1, <1>6
  <2>. QED  BY <1>14, <2>2, <2>3, <2>4, <2>5
<1>. QED  BY <1>7, <1>8, <1>9, <1>12, <1>16 DEF IInv

\* The threads, when none of them moves and no lease is loaded.
LEMMA NobodyMoves ==
    ASSUME IInv, UNCHANGED <<loads, restoreLoaded, restoreLocks, leaseLock, proc>>,
           \A q \in Threads : q \in restoreModeLock.readers => q \in restoreModeLock'.readers,
           (UNCHANGED <<tracked, stored, deleted, stop>> /\ main' # "done") \/ Kept
    PROVE  (\A q \in Threads : Placed(q)' /\ Loaded(q)') /\ LoadsInv' /\ GoneInv' /\ WorkSame
<1>0. Kept
  BY Parts DEF Kept, Shape, GoneInv, Up
<1>1. \A q \in Threads : Placed(q)'
  BY PlacedSame
<1>2. \A q \in Threads : Loaded(q)'
  BY <1>0, LoadedSame
<1>3. LoadsInv' /\ GoneInv'
  BY <1>0, LoadsSame
<1>4. WorkSame
  BY DEF WorkSame, Busy
<1>. QED  BY <1>1, <1>2, <1>3, <1>4

\* The distributor takes the next lease, or ends.
LEMMA DistributeKeeps ==
    ASSUME IInv, distribute PROVE IInv'
<1>1. /\ broker.pc = "select"
      /\ UNCHANGED <<loads, restoreLoaded, restoreLocks, restoreMode, main, received, errs, result,
                     proc, stop, leaseLock, restoreModeLock, tracked, stored, deleted>>
  BY DEF distribute, manager, entries, locks
<1>2. broker \in [pc : {"none", "select", "send", "closed", "quit"},
                  lease : Existing \cup {None}, todo : SUBSET Existing]
  BY Parts DEF Shape
<1>3. WorkSame /\ (\A q \in Threads : Placed(q)' /\ Loaded(q)') /\ LoadsInv' /\ GoneInv'
  BY <1>1, KeptSame, NobodyMoves
<1>4. MainInv'
  <2>1. main # "collect"
    BY <1>1, Parts DEF MainInv
  <2>. QED  BY <1>1, <2>1, Parts DEF MainInv
<1>5. CASE \E x \in {"closed", "quit"} : broker' = [broker EXCEPT !.pc = x]
  <2>1. /\ broker' \in [pc : {"none", "select", "send", "closed", "quit"},
                        lease : Existing \cup {None}, todo : SUBSET Existing]
        /\ broker'.pc # "send" /\ broker'.todo = broker.todo
    BY <1>2, <1>5
  <2>2. Shape'
    BY <1>1, <2>1, Parts DEF Shape
  <2>3. Apart'
    BY <1>1, <2>1, Parts DEF Apart, Busy
  <2>4. Reported' = Reported
    BY <1>1, <2>1 DEF Reported, Busy
  <2>5. CountInv'
    BY <1>1, <2>4, Parts DEF CountInv
  <2>. QED  BY <1>3, <1>4, <2>2, <2>3, <2>5 DEF IInv
<1>6. ASSUME NEW l \in broker.todo,
             broker' = [pc |-> "send", lease |-> l, todo |-> broker.todo \ {l}]
      PROVE  IInv'
  <2>1. /\ broker' \in [pc : {"none", "select", "send", "closed", "quit"},
                        lease : Existing \cup {None}, todo : SUBSET Existing]
        /\ broker'.pc = "send" /\ broker'.todo = broker.todo \ {l} /\ broker'.lease = l
        /\ l \in Existing
    BY <1>2, <1>6
  <2>2. Shape'
    BY <1>1, <2>1, Parts DEF Shape
  <2>3. \A w \in RestoreWorkers : /\ Busy(w)' <=> Busy(w)
                                  /\ Busy(w) => proc[w].lease \in Existing \ broker.todo
    BY <1>1, Parts DEF Apart, Busy
  <2>4. Apart'
    <3>1. \A v, w \in RestoreWorkers : Busy(v) /\ Busy(w) /\ proc[v].lease = proc[w].lease => v = w
      BY Parts DEF Apart
    <3>. QED  BY <1>1, <2>1, <2>3, <3>1 DEF Apart
  <2>5. Reported' = Reported
    BY <1>1, <2>1, <2>3 DEF Reported
  <2>6. CountInv'
    BY <1>1, <2>5, Parts DEF CountInv
  <2>. QED  BY <1>3, <1>4, <2>2, <2>4, <2>6 DEF IInv
<1>. QED  BY <1>5, <1>6 DEF distribute

-----------------------------------------------------------------------------
(* Steps of Restore and Stop.                                              *)

\* The leases are collected and the pool starts, or the collection fails.
LEMMA CollectLeasesKeeps ==
    ASSUME IInv, collectLeases PROVE IInv'
<1>1. /\ main = "collect"
      /\ UNCHANGED <<loads, restoreLoaded, restoreLocks, restoreMode, received, errs, result,
                     stop, leaseLock, restoreModeLock, tracked, stored, deleted>>
  BY DEF collectLeases, manager, entries, locks
<1>2. /\ received = 0 /\ errs = 0 /\ result = 0 /\ broker.pc = "none" /\ restoreLocks
      /\ \A w \in RestoreWorkers : proc[w].pc = "idle"
  BY <1>1, Parts DEF MainInv
<1>3. CASE main' = "return" /\ UNCHANGED <<broker, proc>>
  <2>1. Shape'
    BY <1>1, <1>3, Parts DEF Shape
  <2>2. WorkSame /\ (\A q \in Threads : Placed(q)' /\ Loaded(q)') /\ LoadsInv' /\ GoneInv'
    BY <1>1, <1>3, NobodyMoves
  <2>3. MainInv' /\ CountInv'
    BY <1>1, <1>2, <1>3 DEF MainInv, CountInv
  <2>4. Apart'
    BY <1>3, <2>2, PoolSame
  <2>. QED  BY <2>1, <2>2, <2>3, <2>4 DEF IInv
<1>4. CASE /\ main' = "receive"
           /\ broker' = [broker EXCEPT !.pc = "select", !.todo = Existing]
           /\ proc' = [t \in Threads |-> IF t \in RestoreWorkers
                                         THEN [proc[t] EXCEPT !.pc = "select"] ELSE proc[t]]
  <2>1. \A t \in Threads : t \notin RestoreWorkers => proc'[t] = proc[t]
    BY <1>4
  <2>2. ASSUME NEW t \in RestoreWorkers
        PROVE  t \in Threads /\ proc'[t] \in Call /\ proc'[t].pc = "select"
    <3>1. t \in Threads /\ proc[t] \in Call
      BY KindsDiffer, CallType
    <3>2. proc'[t] = [proc[t] EXCEPT !.pc = "select"]
      BY <1>4, <3>1
    <3>. QED  BY <3>1, <3>2 DEF Call, WorkerPlaces
  <2>3. proc' \in [Threads -> Call]
    <3>1. proc' = [t \in Threads |-> proc'[t]]
      BY <1>4
    <3>2. \A t \in Threads : proc'[t] \in Call
      BY <2>1, <2>2, CallType
    <3>. QED  BY <3>1, <3>2
  <2>4. broker \in [pc : {"none", "select", "send", "closed", "quit"},
                    lease : Existing \cup {None}, todo : SUBSET Existing]
    BY Parts DEF Shape
  <2>5. /\ broker' \in [pc : {"none", "select", "send", "closed", "quit"},
                        lease : Existing \cup {None}, todo : SUBSET Existing]
        /\ broker'.pc = "select" /\ broker'.todo = Existing
    BY <1>4, <2>4
  <2>6. Shape'
    BY <1>1, <1>4, <2>3, <2>5, Parts DEF Shape
  <2>61. Kept
    BY <1>1, <1>4, Parts DEF Kept, Shape, GoneInv, Up
  <2>7. ASSUME NEW q \in Threads PROVE Placed(q)' /\ Loaded(q)'
    <3>1. CASE q \in RestoreWorkers
      <4>1. proc[q].pc = "idle" /\ proc'[q].pc = "select"
        BY <1>2, <2>2, <3>1
      <4>2. ~HoldsLease(q)' /\ \A b \in Buckets : leaseLock'[b] # q
        BY <1>1, <4>1, FreeHands DEF HoldsLease
      <4>3. Placed(q)'
        BY <3>1, <4>1, <4>2 DEF Placed, WorkerPlaces, Working, Loading
      <4>4. Loaded(q)'
        BY <4>1 DEF Loaded
      <4>. QED  BY <4>3, <4>4
    <3>2. CASE q \notin RestoreWorkers
      BY <1>1, <2>1, <2>61, <3>2, PlacedSame, LoadedSame
    <3>. QED  BY <3>1, <3>2
  <2>8. LoadsInv' /\ GoneInv'
    <3>1. \A q \in Threads : proc[q].pc = "setup" => proc'[q] = proc[q]
      BY <1>2, <2>1
    <3>. QED  BY <1>1, <2>61, <3>1, LoadsSame
  <2>9. MainInv'
    BY <1>1, <1>2, <1>4 DEF MainInv
  <2>10. \A w \in RestoreWorkers : ~Busy(w)'
    BY <2>2 DEF Busy, Working
  <2>11. Apart'
    BY <2>5, <2>10 DEF Apart
  <2>12. Reported' = {}
    BY <2>5 DEF Reported
  <2>13. CountInv'
    BY <1>1, <1>2, <2>12, FS_EmptySet DEF CountInv
  <2>. QED  BY <2>6, <2>7, <2>8, <2>9, <2>11, <2>13 DEF IInv
<1>. QED  BY <1>3, <1>4 DEF collectLeases

\* Restore receives a result, an error or the end of quitCh.
LEMMA ReceiveKeeps ==
    ASSUME IInv, receive PROVE IInv'
<1>1. /\ main = "receive"
      /\ UNCHANGED <<loads, restoreLoaded, restoreLocks, restoreMode, broker, proc,
                     stop, leaseLock, restoreModeLock, tracked, stored, deleted>>
      /\ \/ main' = "return" /\ (errs' = errs \/ (errs > 0 /\ errs' = errs - 1))
            /\ UNCHANGED <<result, received>>
         \/ /\ result > 0 /\ result' = result - 1 /\ received' = received + 1
            /\ UNCHANGED <<errs, main>>
  BY DEF receive, manager, entries, locks
<1>2. received \in Nat /\ errs \in Nat /\ result \in Nat
  BY Parts DEF Shape
<1>3. received' \in Nat /\ errs' \in Nat /\ result' \in Nat
  BY <1>1, <1>2
<1>4. Shape'
  BY <1>1, <1>3, Parts DEF Shape
<1>5. WorkSame /\ (\A q \in Threads : Placed(q)' /\ Loaded(q)') /\ LoadsInv' /\ GoneInv'
  BY <1>1, NobodyMoves
<1>6. MainInv'
  BY <1>1, Parts DEF MainInv
<1>7. Apart' /\ Reported' = Reported
  BY <1>1, <1>5, PoolSame
<1>8. CountInv'
  <2>1. SUFFICES ASSUME main' = "receive"
                 PROVE  /\ received' + result' + errs' <= Cardinality(Reported)
                        /\ errs' = 0 => Reported \subseteq restoreLoaded \cup deleted
    BY <1>1, <1>7 DEF CountInv
  <2>2. received' + result' + errs' = received + result + errs /\ errs' = errs
    BY <1>1, <1>2, <2>1
  <2>. QED  BY <1>1, <2>2, Parts DEF CountInv
<1>. QED  BY <1>4, <1>5, <1>6, <1>7, <1>8 DEF IInv

\* All results are there, so none was an error: every lease was seen.
LEMMA WaitGroupKeeps ==
    ASSUME IInv, waitGroup PROVE IInv'
<1>1. /\ main = "receive" /\ main' = "modeLock" /\ received = Cardinality(Existing)
      /\ \A w \in RestoreWorkers : proc[w].pc = "done"
      /\ restoreModeLock' = [restoreModeLock EXCEPT !.waiting = @ \cup {Main}]
      /\ UNCHANGED <<loads, restoreLoaded, restoreLocks, restoreMode, received, errs, result, broker,
                     proc, stop, leaseLock, tracked, stored, deleted>>
  BY DEF waitGroup, At, manager, entries, channels
<1>2. /\ restoreModeLock' \in RWMutex
      /\ restoreModeLock'.readers = restoreModeLock.readers
  BY <1>1, Parts DEF Shape, RWMutex
<1>3. Shape'
  BY <1>1, <1>2, Parts DEF Shape
<1>4. WorkSame /\ (\A q \in Threads : Placed(q)' /\ Loaded(q)') /\ LoadsInv' /\ GoneInv'
  BY <1>1, <1>2, NobodyMoves
<1>5. Existing \subseteq restoreLoaded \cup deleted
  <2>1. received \in Nat /\ errs \in Nat /\ result \in Nat
    BY Parts DEF Shape
  <2>2. received + result + errs <= Cardinality(Reported) /\ (errs = 0 => Reported \subseteq restoreLoaded \cup deleted)
    BY <1>1, Parts DEF CountInv
  <2>3. Reported \in SUBSET Existing /\ IsFiniteSet(Existing)
    BY RestoreAssumption DEF Reported
  <2>4. /\ Cardinality(Reported) <= Cardinality(Existing)
        /\ Cardinality(Existing) = Cardinality(Reported) => Existing = Reported
        /\ Cardinality(Reported) \in Nat
    BY <2>3, FS_Subset, FS_CardinalityType
  <2>5. errs = 0 /\ Cardinality(Reported) = Cardinality(Existing)
    BY <1>1, <2>1, <2>2, <2>4
  <2>. QED  BY <2>2, <2>4, <2>5
<1>6. MainInv'
  BY <1>1, <1>5, Parts DEF MainInv
<1>7. Apart' /\ CountInv'
  BY <1>1, <1>4, PoolSame DEF CountInv
<1>. QED  BY <1>3, <1>4, <1>6, <1>7 DEF IInv

\* Restore mode ends: nobody can be inside a load that has or wants a lease lock.
LEMMA RestoreCompleteKeeps ==
    ASSUME IInv, restoreComplete PROVE IInv'
<1>1. /\ main = "modeLock" /\ main' = "done" /\ restoreModeLock.readers = {}
      /\ restoreModeLock' = [restoreModeLock EXCEPT !.waiting = @ \ {Main}]
      /\ restoreMode' = FALSE /\ restoreLocks' = FALSE
      /\ restoreLoaded' = {}
      /\ UNCHANGED <<loads, received, errs, result, broker, proc, stop, leaseLock, tracked,
                     stored, deleted>>
  BY DEF restoreComplete, CanLock, entries, channels
<1>2. restoreModeLock' \in RWMutex
  BY <1>1, Parts DEF Shape, RWMutex
<1>3. Shape'
  BY <1>1, <1>2, Parts DEF Shape
<1>4. /\ \A w \in RestoreWorkers : proc[w].pc = "done"
      /\ Existing \subseteq restoreLoaded \cup deleted /\ restoreLocks
  BY <1>1, Parts DEF MainInv
<1>5. ASSUME NEW q \in Threads
      PROVE  proc[q].pc # "lockLease" /\ ~HoldsLease(q) /\ (proc[q].pc = "setup" => q \in Fetches)
  <2>1. Placed(q)
    BY Parts
  <2>2. proc[q].pc # "lockLease" /\ ~HoldsLease(q)
    <3>1. CASE q \in RestoreWorkers
      <4>1. proc[q].pc = "done"
        BY <1>4, <3>1
      <4>. QED  BY <4>1, FreeHands
    <3>2. CASE q \notin RestoreWorkers
      BY <1>1, <2>1, <3>2 DEF Placed
    <3>. QED  BY <3>1, <3>2
  <2>3. ASSUME proc[q].pc = "setup", q \notin Fetches PROVE FALSE
    <3>1. Bucket[proc[q].lease] \in Buckets
      BY <2>3, HasLease, BucketIn DEF Loading, Working
    <3>. QED  BY <2>1, <2>2, <2>3, <3>1 DEF Placed, HoldsLease
  <2>. QED  BY <2>2, <2>3
<1>6. ASSUME NEW q \in Threads PROVE Placed(q)'
  <2>1. Placed(q) /\ (HoldsLease(q)' <=> HoldsLease(q))
    BY <1>1, Parts DEF HoldsLease
  <2>. QED  BY <1>1, <1>5, <2>1 DEF Placed
<1>7. ASSUME NEW q \in Threads PROVE Loaded(q)'
  <2>1. Loaded(q) /\ (q \in RestoreWorkers => proc'[q].pc = "done") /\ proc'[q] = proc[q]
    BY <1>1, <1>4, Parts
  <2>. QED  BY <1>1, <1>5, <2>1 DEF Loaded
<1>8. LoadsInv' /\ GoneInv'
  <2>1. ASSUME NEW l \in Leases
        PROVE  loads[l] \in {0, 1} /\ (Up' /\ Passed(l)' => Watched(l)')
    <3>1. loads[l] \in {0, 1} /\ (Up /\ Passed(l) => Watched(l))
      BY Parts DEF LoadsInv
    <3>2. Passed(l)' => Passed(l) \/ l \in deleted
      BY <1>1, <1>4 DEF Passed
    <3>3. l \in deleted \/ Watched(l) => Watched(l)'
      BY <1>1 DEF Watched
    <3>. QED  BY <1>1, <3>1, <3>2, <3>3 DEF Up
  <2>2. LoadsInv'
    BY <1>1, <2>1 DEF LoadsInv
  <2>. QED  BY <1>1, <2>2, Parts DEF GoneInv
<1>9. MainInv'
  BY <1>1, <1>4 DEF MainInv
<1>10. WorkSame
  BY <1>1 DEF WorkSame, Busy
<1>11. Apart' /\ CountInv'
  BY <1>1, <1>10, PoolSame DEF CountInv
<1>. QED  BY <1>3, <1>6, <1>7, <1>8, <1>9, <1>11 DEF IInv

\* Restore returns with an error, and Stop.
LEMMA QuietKeeps ==
    ASSUME IInv, restoreReturn \/ Stop \/ stopTimers \/ stopWait PROVE IInv'
<1>1. /\ UNCHANGED <<loads, restoreLoaded, restoreLocks, received, errs, result, broker, proc,
                     leaseLock, restoreModeLock>>
      /\ \/ main = "return" /\ main' = "failed"
         \/ UNCHANGED <<main, restoreMode>>
      /\ tracked' = tracked \/ ~Up'
      /\ Up' => Up
      /\ UNCHANGED <<stored, deleted>>
  BY DEF restoreReturn, Stop, stopTimers, stopWait, manager, entries, locks, channels, Up
<1>0. Kept
  BY <1>1, Parts DEF Kept, Shape, GoneInv
<1>2. Shape'
  BY <1>1, Parts DEF Shape
<1>3. WorkSame /\ (\A q \in Threads : Placed(q)' /\ Loaded(q)') /\ LoadsInv' /\ GoneInv'
  BY <1>0, <1>1, NobodyMoves
<1>4. MainInv'
  BY <1>1, Parts DEF MainInv
<1>5. Apart' /\ Reported' = Reported
  BY <1>1, <1>3, PoolSame
<1>6. CountInv'
  BY <1>1, <1>5, Parts DEF CountInv
<1>. QED  BY <1>2, <1>3, <1>4, <1>5, <1>6 DEF IInv

\* The end of a Register.
LEMMA RegistersKeep ==
    ASSUME IInv, NEW l \in Leases, Registers(l) PROVE IInv'
<1>1. /\ UNCHANGED <<loads, restoreLoaded, restoreLocks, restoreMode, main, received, errs, result,
                     broker, proc, stop, leaseLock, restoreModeLock>>
      /\ tracked \subseteq tracked' /\ deleted \subseteq deleted'
      /\ stored' \subseteq stored /\ stored \ deleted' \subseteq stored'
  BY DEF Registers, registerDone, registerFails, locks, channels
<1>2. Kept
  BY <1>1, Parts DEF Kept, Shape, GoneInv, Up
<1>3. Shape'
  BY <1>1, Parts DEF Shape
<1>4. WorkSame /\ (\A q \in Threads : Placed(q)' /\ Loaded(q)') /\ LoadsInv' /\ GoneInv'
  BY <1>1, <1>2, NobodyMoves
<1>5. MainInv' /\ CountInv' /\ Apart'
  BY <1>1, <1>2, <1>4, MainSame, CountSame, PoolSame
<1>. QED  BY <1>3, <1>4, <1>5 DEF IInv

-----------------------------------------------------------------------------
(* The theorems.                                                           *)

LEMMA InitIInv == Init => IInv
<1> SUFFICES ASSUME Init PROVE IInv
  OBVIOUS
<1> DEFINE first == Fresh("idle")
<1>1. /\ restoreLocks /\ restoreLoaded = {} /\ loads = [l \in Leases |-> 0]
      /\ leaseLock = [b \in Buckets |-> None] /\ restoreModeLock = Unlocked
      /\ main = "collect" /\ received = 0 /\ errs = 0 /\ result = 0
      /\ broker = [pc |-> "none", lease |-> None, todo |-> {}]
      /\ proc = [t \in Threads |-> first] /\ stored = Leases
  BY DEF Init
<1>2. first \in Call /\ first.pc = "idle"
  BY FreshCall DEF WorkerPlaces
<1>3. Unlocked \in RWMutex
  BY DEF Unlocked, RWMutex
<1> HIDE DEF first
<1>4. proc \in [Threads -> Call] /\ \A t \in Threads : proc[t].pc = "idle"
  BY <1>1, <1>2
<1>5. Shape
  BY <1>1, <1>3, <1>4 DEF Shape
<1>6. ASSUME NEW t \in Threads PROVE Placed(t) /\ Loaded(t)
  <2>1. ~HoldsLease(t) /\ \A b \in Buckets : leaseLock[b] # t
    BY <1>1, KindsDiffer DEF HoldsLease
  <2>2. Placed(t)
    BY <1>4, <2>1 DEF Placed, WorkerPlaces, WorkerOnly, Loading, Working
  <2>3. Loaded(t)
    BY <1>4 DEF Loaded
  <2>. QED  BY <2>2, <2>3
<1>7. LoadsInv /\ GoneInv
  BY <1>1 DEF LoadsInv, GoneInv, Passed
<1>8. \A w \in RestoreWorkers : proc[w].pc = "idle" /\ ~Busy(w)
  BY <1>4, KindsDiffer DEF Busy, Working
<1>9. MainInv /\ CountInv
  BY <1>1, <1>8 DEF MainInv, CountInv
<1>10. Apart
  BY <1>1, <1>8 DEF Apart
<1>. QED  BY <1>5, <1>6, <1>7, <1>9, <1>10 DEF IInv

LEMMA StutterIInv == IInv /\ UNCHANGED vars => IInv'
<1> SUFFICES ASSUME IInv, UNCHANGED vars PROVE IInv'
  OBVIOUS
<1>1. UNCHANGED <<loads, restoreLoaded, restoreLocks, restoreMode, main, received, errs, result,
                  broker, proc, stop, leaseLock, restoreModeLock, tracked, stored, deleted>>
  BY DEF vars, manager, entries, locks, channels
<1>0. Kept
  BY <1>1, KeptSame
<1>2. Shape'
  BY <1>1, Parts DEF Shape
<1>3. WorkSame /\ (\A q \in Threads : Placed(q)' /\ Loaded(q)') /\ LoadsInv' /\ GoneInv'
  BY <1>0, <1>1, NobodyMoves
<1>4. MainInv'
  BY <1>0, <1>1, MainSame
<1>5. Apart' /\ CountInv'
  BY <1>0, <1>1, <1>3, PoolSame, CountSame
<1>. QED  BY <1>2, <1>3, <1>4, <1>5 DEF IInv

LEMMA StepsKeep ==
    ASSUME IInv, NEW t \in Threads, Steps(t) PROVE IInv'
  BY ReceiveLeaseKeeps, WorkerDoneKeeps, ProcessRestoreKeeps, ReportKeeps, LoadEntryKeeps,
     ModeRLockKeeps, LockLeaseKeeps, LoadEntryInternalKeeps, UpdatePendingKeeps, ReleaseKeeps,
     SectionKeeps, DeleteEntryKeeps, ClearPendingKeeps, RequestLockKeeps, NextLeaseKeeps,
     MarkKeeps DEF Steps

LEMMA NextIInv == IInv /\ [Next]_vars => IInv'
<1> SUFFICES ASSUME IInv, [Next]_vars PROVE IInv'
  OBVIOUS
<1>1. CASE Next
  BY <1>1, CollectLeasesKeeps, ReceiveKeeps, WaitGroupKeeps, RestoreCompleteKeeps, QuietKeeps,
     DistributeKeeps, StepsKeep, BeginKeeps, RegistersKeep, RevokePrefixKeeps
     DEF Next, Restore, Stopping
<1>2. CASE UNCHANGED vars
  BY <1>2, StutterIInv
<1>. QED  BY <1>1, <1>2

\* The inductive invariant of restore mode, for any leases, lease locks, workers
\* and callers, whatever reads fail and whenever Stop is called.
THEOREM RestoreInvariant == Spec => []IInv
  BY InitIInv, NextIInv, PTL DEF Spec

\* Under the lock of the lease, a lease is set up from storage at most once,
\* although processRestore and loadEntry race for it, leases share locks and
\* FetchLeaseTimes, which looks at nothing, sets leases up beside them.
THEOREM LoadedOnceSafety == Spec => []LoadedOnce
<1>1. IInv => LoadedOnce
  BY DEF IInv, LoadsInv, LoadedOnce
<1>. QED  BY <1>1, RestoreInvariant, PTL

\* Nobody is about to lock, or has to unlock, a lease lock once restoreLocks is
\* nil, although loadEntry reads restoreMode before it takes restoreModeLock.
THEOREM NilLocksSafety == Spec => []NoNilLocks
<1>1. IInv => NoNilLocks
  BY DEF IInv, Placed, NoNilLocks, At
<1>. QED  BY <1>1, RestoreInvariant, PTL

\* When restore mode ends normally, every lease that was in storage and was not
\* deleted is tracked or about to be set up by a call of FetchLeaseTimes, and the
\* goroutines of the pool are gone: Restore counts one result for every lease, an
\* error takes the place of a result, and who passes a lease over leaves it with
\* the thread that set it up.
THEOREM RestoredSafety == Spec => []AllRestored
<1>1. IInv => AllRestored
  <2> SUFFICES ASSUME IInv, main = "done"
               PROVE  /\ stop = "running" =>
                           \A l \in Existing \ deleted :
                              l \in tracked \/ \E t \in Fetches : proc[t].pc = "setup" /\ proc[t].lease = l
                      /\ \A w \in RestoreWorkers : proc[w].pc = "done"
    BY DEF AllRestored, At, Lease
  <2>1. ~restoreLocks /\ \A w \in RestoreWorkers : proc[w].pc = "done"
    BY Parts DEF MainInv
  <2>2. ASSUME NEW t \in Threads, proc[t].pc = "setup" PROVE t \in Fetches
    <3>1. Placed(t) /\ Bucket[proc[t].lease] \in Buckets
      BY <2>2, Parts, HasLease, BucketIn DEF Loading, Working
    <3>. QED  BY <2>1, <2>2, <3>1 DEF Placed, HoldsLease
  <2>3. ASSUME stop = "running", NEW l \in Existing, l \notin deleted
        PROVE  l \in tracked \/ \E t \in Fetches : proc[t].pc = "setup" /\ proc[t].lease = l
    <3>1. Watched(l)
      BY <2>3, Parts DEF LoadsInv, Leases, Passed, Up
    <3>. QED  BY <2>2, <2>3, <3>1 DEF Watched
  <2>. QED  BY <2>1, <2>3
<1>. QED  BY <1>1, RestoreInvariant, PTL
=============================================================================
