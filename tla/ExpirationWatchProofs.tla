----------------------- MODULE ExpirationWatchProofs ------------------------
(***************************************************************************)
(* What finds a live secret again: the index of its token, the timer, job  *)
(* or worker that will expire it, and the count of leases, for any number  *)
(* of leases, requests, workers and restarts.  The argument stands on the  *)
(* invariant of ExpirationProofs: an entry is only deleted once its secret *)
(* is given up.                                                            *)
(***************************************************************************)
EXTENDS ExpirationProofs, FiniteSetTheorems

\* What goroutine p knows of its lease at the places Local says nothing of:
\* the index and the maps are cleared for what is given up, and an entry is
\* written back for what is stored or given up.
Knows(p) ==
    /\ proc[p].lease \in Secrets =>
         /\ proc[p].pc \in {"unindex", "clear", "rollbackIndex"} =>
              grant[proc[p].lease] \notin {"none", "live"}
         /\ proc[p].pc \in {"renewing", "save", "markIrrevocable"}
              /\ grant[proc[p].lease] = "live" => idView[proc[p].lease] # None
    /\ proc[p].pc = "expireSave" /\ grant[proc[p].sub] = "live" => idView[proc[p].sub] # None
    /\ proc[p].pc = "persist" => ~proc[p].le.RevokeErr
    /\ p \in Workers => proc[p].pc # "renewing"
    /\ proc[p].pc = "idle" => proc[p].lease = None

KnowsInv == \A p \in Gs : Knows(p)

\* Between the two steps of OnFailure the worker has pendingLock and its
\* lease is still in pending.
Locked(p) ==
    proc[p].pc = "markIrrevocable" =>
        p \in Workers /\ pendingLock = p /\ proc[p].lease \in Pending

LockInv == \A p \in Gs : Locked(p)

\* Where a registration, or FetchLeaseTimes, still has to set up the timer.
Registers == {"persist", "index", "pend", "rollback"}

\* A goroutine will set up l as irrevocable.
Marked(l) ==
    \E p \in Gs : proc[p].lease = l /\ proc[p].pc = "pend" /\ proc[p].le.RevokeErr

\* Restore comes to l and l is not loaded.
Unseen(l) == (restore = "collect" \/ l \in toRestore) /\ l \notin restoreLoaded

Armed(l) == pending[l] # None /\ pending[l].timer # Off

\* A live secret is in one of the maps, or about to get there.
Kept(l) == pending[l] # None \/ l \in irrevocable \/ InFlight(l, Registers) \/ Unseen(l)

\* What is stored as irrevocable is in the irrevocable map, or about to be.
MarkKept(l) ==
    idView[l] # None /\ idView[l].RevokeErr => l \in irrevocable \/ Marked(l) \/ Unseen(l)

\* Watched, where Restore only counts for what it has not loaded.
WatchKept(l) ==
    \/ Armed(l) \/ jobs[l] > 0 \/ l \in irrevocable
    \/ \E w \in Workers : proc[w].lease = l
    \/ InFlight(l, Registers) \/ Unseen(l)

Good(l) == Kept(l) /\ MarkKept(l) /\ WatchKept(l)

\* Where LiveSecretWatched is claimed: storage that does not fail, and a
\* manager that is not stopped.
Claimed == ~StorageFault /\ status = "active"

GoodInv == Claimed => \A l \in Secrets : grant[l] = "live" => Good(l)

\* LiveSecretIndexed, for one secret.
Indexed(l) ==
    ClientToken[l] # None /\ idView[l] # None
        => l \in tokenView \/ InFlight(l, {"index", "rollback"})

IndexInv == restarts = 0 => \A l \in Secrets : grant[l] = "live" => Indexed(l)

\* The inductive invariant of LiveSecretIndexed, LiveSecretWatched and
\* LeaseCountCovers.
WInv == KnowsInv /\ LockInv /\ GoodInv /\ IndexInv /\ LeaseCountCovers

-----------------------------------------------------------------------------
(* The maps and their count.                                               *)

USE DEF store, backends, maps, memory, restoring, lifetime

\* One more and one less element.
LEMMA Cards ==
    ASSUME NEW S, IsFiniteSet(S), NEW l
    PROVE  /\ Cardinality(S) \in Nat
           /\ IsFiniteSet(S \cup {l}) /\ IsFiniteSet(S \ {l})
           /\ Cardinality(S \cup {l}) = Cardinality(S) + One(l \notin S)
           /\ Cardinality(S \ {l}) = Cardinality(S) - One(l \in S)
<1>1. Cardinality(S) \in Nat
  BY FS_CardinalityType
<1>2. /\ IsFiniteSet(S \cup {l})
      /\ Cardinality(S \cup {l}) = IF l \in S THEN Cardinality(S) ELSE Cardinality(S) + 1
  BY FS_AddElement
<1>3. /\ IsFiniteSet(S \ {l})
      /\ Cardinality(S \ {l}) = IF l \in S THEN Cardinality(S) - 1 ELSE Cardinality(S)
  BY FS_RemoveElement
<1> QED BY <1>1, <1>2, <1>3 DEF One

\* The maps are finite (pending, irrevocable).
LEMMA FiniteMaps ==
    ASSUME TypeOK
    PROVE  IsFiniteSet(Pending) /\ IsFiniteSet(irrevocable) /\ leaseCount \in Int
BY LeaseAssumption, FS_Subset DEF TypeOK, Pending

\* A lease leaves pending, ...
LEMMA PendingLess ==
    ASSUME TypeOK, NEW l \in Leases, pending' = [pending EXCEPT ![l] = None]
    PROVE  Pending' = Pending \ {l}
BY DEF TypeOK, Pending

\* ... enters it or stays there.
LEMMA PendingMore ==
    ASSUME TypeOK, NEW l \in Leases, NEW i \in pendingInfo, pending' = [pending EXCEPT ![l] = i]
    PROVE  Pending' = Pending \cup {l}
BY NoneAssumption DEF TypeOK, Pending

\* What the section under pendingLock does to lease l (updatePendingInternal).
LEMMA updateEffect ==
    ASSUME TypeOK, NEW l \in Leases, NEW e \in leaseEntry, updatePendingInternal(l, e)
    PROVE  /\ pendingLock = None /\ pendingLock' = None
           /\ \A k \in Leases : k # l => /\ pending'[k] = pending[k]
                                         /\ (k \in irrevocable' <=> k \in irrevocable)
           /\ l \in irrevocable => l \in irrevocable'
           /\ \/ updateNonexpiring(l) /\ l \in RootTokens
              \/ updateIrrevocable(l) /\ e.RevokeErr
              \/ /\ updateTimer(l, e) /\ ~e.RevokeErr
                 /\ \E i \in pendingInfo :
                      /\ pending' = [pending EXCEPT ![l] = i]
                      /\ i.timer # Off
<1>1. pendingLock = None /\ pendingLock' = None
  BY DEF updatePendingInternal
<1>2. CASE updateNonexpiring(l) /\ l \in RootTokens
  BY <1>1, <1>2 DEF TypeOK, updateNonexpiring
<1>3. CASE updateIrrevocable(l) /\ e.RevokeErr
  BY <1>1, <1>3 DEF TypeOK, updateIrrevocable
<1>4. CASE updateTimer(l, e) /\ ~e.RevokeErr
  <2> DEFINE n == IF l \in Pending THEN pending[l].revokesAttempted ELSE 0
             i == [timer |-> e.ExpireTime, revokesAttempted |-> n]
  <2>1. n \in Nat /\ e.ExpireTime \in Int /\ e.ExpireTime # Off
    BY DEF TypeOK, Pending, pendingInfo, leaseEntry, Zero, Off
  <2>2. pending' = [pending EXCEPT ![l] = i] /\ UNCHANGED irrevocable
    BY <1>4 DEF updateTimer
  <2> HIDE DEF n
  <2>3. i \in pendingInfo /\ i.timer # Off
    BY <2>1 DEF pendingInfo
  <2> HIDE DEF i
  <2> QED BY <1>1, <1>4, <2>2, <2>3 DEF TypeOK
<1> QED
  BY <1>2, <1>3, <1>4 DEF updatePendingInternal, nonexpiringToken, isIrrevocable

\* It counts what it adds and no more (updatePendingInternal).
LEMMA updateCount ==
    ASSUME TypeOK, LeaseCountCovers, NEW l \in Leases, NEW e \in leaseEntry,
           updatePendingInternal(l, e)
    PROVE  LeaseCountCovers'
<1>1. /\ Cardinality(Pending) \in Nat /\ Cardinality(irrevocable) \in Nat /\ leaseCount \in Int
      /\ Cardinality(Pending \cup {l}) = Cardinality(Pending) + One(l \notin Pending)
      /\ Cardinality(Pending \ {l}) = Cardinality(Pending) - One(l \in Pending)
      /\ Cardinality(irrevocable \cup {l}) = Cardinality(irrevocable) + One(l \notin irrevocable)
  BY FiniteMaps, Cards
<1>2. CASE updateNonexpiring(l)
  <2>1. /\ Pending' = Pending \ {l} /\ irrevocable' = irrevocable
        /\ leaseCount' = leaseCount - One(l \in Pending)
    BY <1>2, PendingLess DEF updateNonexpiring
  <2> QED BY <1>1, <2>1 DEF LeaseCountCovers, One
<1>3. CASE updateIrrevocable(l)
  <2>1. /\ Pending' = Pending \ {l} /\ irrevocable' = irrevocable \cup {l}
        /\ leaseCount' = leaseCount + One(l \notin Pending \cup irrevocable)
    BY <1>3, PendingLess DEF updateIrrevocable
  <2> QED BY <1>1, <2>1 DEF LeaseCountCovers, One
<1>4. CASE updateTimer(l, e) /\ \E i \in pendingInfo : pending' = [pending EXCEPT ![l] = i]
  <2>1. /\ Pending' = Pending \cup {l} /\ irrevocable' = irrevocable
        /\ leaseCount' = leaseCount + One(l \notin Pending)
    BY <1>4, PendingMore DEF updateTimer
  <2> QED BY <1>1, <2>1 DEF LeaseCountCovers, One
<1> QED
  BY <1>2, <1>3, <1>4, updateEffect

\* So does the end of a revocation (clearLease).
LEMMA clearCount ==
    ASSUME TypeOK, LeaseCountCovers, NEW l \in Leases, clearLease(l)
    PROVE  LeaseCountCovers'
<1>1. /\ Cardinality(Pending) \in Nat /\ Cardinality(irrevocable) \in Nat /\ leaseCount \in Int
      /\ Cardinality(Pending \ {l}) = Cardinality(Pending) - One(l \in Pending)
      /\ Cardinality(irrevocable \ {l}) = Cardinality(irrevocable) - One(l \in irrevocable)
  BY FiniteMaps, Cards
<1>2. /\ Pending' = Pending \ {l} /\ irrevocable' = irrevocable \ {l}
      /\ leaseCount' = leaseCount - One(l \in Pending)
  BY PendingLess DEF clearLease
<1> QED BY <1>1, <1>2 DEF LeaseCountCovers, One

\* A step under pendingLock, or one that leaves the maps alone, keeps the
\* count and what the holder of the lock knows (pendingLock).
MapStep ==
    \/ UNCHANGED memory
    \/ Pending' = Pending /\ UNCHANGED <<irrevocable, leaseCount, pendingLock>>
    \/ \E l \in Leases, e \in leaseEntry : updatePendingInternal(l, e)
    \/ \E l \in Leases : clearLease(l)

\* (LeaseCountCovers, OnFailure)
LEMMA MapKeeps ==
    ASSUME TypeOK, LockInv, LeaseCountCovers, MapStep, NEW p \in Gs,
           \A q \in Gs : q # p => proc'[q] = proc[q], proc'[p].pc # "markIrrevocable"
    PROVE  LockInv' /\ LeaseCountCovers'
<1>0. CASE Pending' = Pending /\ UNCHANGED <<irrevocable, leaseCount, pendingLock>>
  BY <1>0 DEF LockInv, Locked, LeaseCountCovers
<1>1. CASE UNCHANGED memory
  BY <1>0, <1>1 DEF Pending
<1>2. ASSUME pendingLock = None PROVE LockInv'
  BY <1>2, ProcAssumption DEF LockInv, Locked
<1>3. ASSUME NEW l \in Leases, NEW e \in leaseEntry, updatePendingInternal(l, e)
      PROVE  LockInv' /\ LeaseCountCovers'
  BY <1>2, <1>3, updateEffect, updateCount
<1>4. ASSUME NEW l \in Leases, clearLease(l) PROVE LockInv' /\ LeaseCountCovers'
  BY <1>2, <1>4, clearCount DEF clearLease
<1> QED BY <1>0, <1>1, <1>3, <1>4 DEF MapStep

\* A load in restore mode is such a step (loadEntry).
LEMMA loadMap ==
    ASSUME TypeOK, NEW l \in Leases, loadEntry(l)
    PROVE  MapStep
<1>1. CASE restoreMode /\ l \in Stored \ restoreLoaded
  <2>1. idView[l] \in leaseEntry
    BY <1>1 DEF TypeOK, Stored
  <2> QED BY <1>1, <2>1 DEF loadEntry, MapStep
<1>2. CASE ~(restoreMode /\ l \in Stored \ restoreLoaded)
  BY <1>2 DEF loadEntry, MapStep
<1> QED BY <1>1, <1>2

\* What updatePendingInternal achieves for a secret: a timer or a place in
\* the irrevocable map.
LEMMA updateSets ==
    ASSUME TypeOK, NEW l \in Secrets, NEW e \in leaseEntry, updatePendingInternal(l, e)
    PROVE  /\ Armed(l)' \/ l \in irrevocable'
           /\ e.RevokeErr => l \in irrevocable'
<1>1. l \in Leases /\ l \notin RootTokens
  BY LeaseAssumption DEF Leases
<1>2. CASE updateIrrevocable(l)
  BY <1>2 DEF updateIrrevocable
<1>3. ASSUME NEW i \in pendingInfo, pending' = [pending EXCEPT ![l] = i], i.timer # Off,
             ~e.RevokeErr
      PROVE  Armed(l)' /\ ~e.RevokeErr
  <2>1. pending'[l] = i /\ i # None
    BY <1>1, <1>3, NoneAssumption DEF TypeOK
  <2> QED BY <1>3, <2>1 DEF Armed
<1> QED
  BY <1>1, <1>2, <1>3, updateEffect

-----------------------------------------------------------------------------
(* What a step of one goroutine must do to keep the invariant.             *)

\* Nothing about lease k changes, beside the goroutines.
Untouched(k) ==
    /\ grant'[k] = grant[k] /\ idView'[k] = idView[k] /\ pending'[k] = pending[k]
    /\ (k \in irrevocable' <=> k \in irrevocable)
    /\ (k \in restoreLoaded' <=> k \in restoreLoaded)
    /\ (k \in tokenView' <=> k \in tokenView)

\* Goroutine p does not let go of k.
Stays(p, k) ==
    proc[p].lease = k /\ (p \in Workers \/ proc[p].pc \in Registers) =>
        /\ proc'[p].lease = k
        /\ proc[p].pc \in Registers => proc'[p].pc \in Registers
        /\ proc[p].pc = "pend" => proc'[p].pc = "pend" /\ proc'[p].le = proc[p].le

\* Goroutine p moves, and k is watched as it was, ...
Calm(p, k) ==
    /\ Stays(p, k)
    /\ idView'[k] = idView[k] /\ pending'[k] = pending[k]
    /\ k \in irrevocable => k \in irrevocable'
    /\ k \in restoreLoaded' => k \in restoreLoaded

\* ... or indexed as it was.
CalmIndex(p, k) ==
    /\ idView'[k] # None => idView[k] # None
    /\ k \in tokenView => k \in tokenView'
    /\ proc[p].lease = k /\ proc[p].pc \in {"index", "rollback"} =>
         proc'[p].lease = k /\ proc'[p].pc \in {"index", "rollback"}

\* A goroutine moves and k stays watched (LiveSecretWatched).
LEMMA CalmKeeps ==
    ASSUME NEW p \in Gs, NEW k \in Secrets, \A q \in Gs : q # p => proc'[q] = proc[q],
           Good(k), Calm(p, k), UNCHANGED <<jobs, restore, toRestore>>
    PROVE  Good(k)'
<1>1. InFlight(k, Registers) => InFlight(k, Registers)'
  BY DEF InFlight, Calm, Stays, Gs
<1>2. Marked(k) => Marked(k)'
  BY DEF Marked, Calm, Stays, Registers
<1>3. (\E w \in Workers : proc[w].lease = k) => (\E w \in Workers : proc'[w].lease = k)
  BY DEF Calm, Stays, Gs
<1>4. (Unseen(k) => Unseen(k)') /\ (Armed(k) => Armed(k)')
  BY DEF Unseen, Armed, Calm
<1>5. Kept(k)'
  BY <1>1, <1>4 DEF Good, Kept, Calm
<1>6. MarkKept(k)'
  BY <1>2, <1>4 DEF Good, MarkKept, Calm
<1>7. WatchKept(k)'
  BY <1>1, <1>3, <1>4 DEF Good, WatchKept, Calm
<1> QED BY <1>5, <1>6, <1>7 DEF Good

\* A goroutine moves and k stays indexed (LiveSecretIndexed).
LEMMA CalmIndexKeeps ==
    ASSUME NEW p \in Gs, NEW k \in Secrets, \A q \in Gs : q # p => proc'[q] = proc[q],
           Indexed(k), CalmIndex(p, k)
    PROVE  Indexed(k)'
<1>1. InFlight(k, {"index", "rollback"}) => InFlight(k, {"index", "rollback"})'
  BY DEF InFlight, CalmIndex, Gs
<1> QED BY <1>1 DEF Indexed, CalmIndex

\* The others still know what they knew (Knows).
LEMMA OthersKnow ==
    ASSUME IInv, KnowsInv, LeaseStep, NEW p \in Gs, NEW q \in Gs, q # p, proc'[q] = proc[q]
    PROVE  Knows(q)'
<1>1. Knows(q) /\ Local(q)
  BY Facts DEF KnowsInv
<1>2. proc[q].pc = "expireSave" => proc[q].sub \in Secrets
  BY <1>1 DEF Local
<1> QED
  BY <1>1, <1>2 DEF Knows, LeaseStep

\* Goroutine p moves, and only lease d is touched (WInv).
LEMMA OneLeaseMoves ==
    ASSUME IInv, WInv, NEW p \in Gs, NEW d, \A q \in Gs : q # p => proc'[q] = proc[q],
           Knows(p)', LockInv', LeaseCountCovers', LeaseStep,
           UNCHANGED <<jobs, restore, toRestore, status, restarts>>,
           proc[p].lease \in Secrets \ {d} => p \notin Workers /\ proc[p].pc \notin Registers,
           \A k \in Secrets : k # d => Untouched(k),
           d \in Secrets /\ grant'[d] = "live" => Indexed(d)' \/ CalmIndex(p, d),
           Claimed /\ d \in Secrets /\ grant'[d] = "live" => Good(d)' \/ Calm(p, d)
    PROVE  WInv'
<1>2. KnowsInv'
  BY OthersKnow DEF WInv, KnowsInv
<1>4. ASSUME NEW k \in Secrets, k # d PROVE Calm(p, k) /\ CalmIndex(p, k)
  <2>1. proc[p].lease = k => p \notin Workers /\ proc[p].pc \notin Registers
    BY <1>4
  <2>2. Untouched(k)
    BY <1>4
  <2> QED BY <2>1, <2>2 DEF Calm, Stays, CalmIndex, Untouched, Registers
<1>5. GoodInv'
  <2> SUFFICES ASSUME Claimed', NEW k \in Secrets, grant'[k] = "live" PROVE Good(k)'
    BY DEF GoodInv
  <2>1. Claimed /\ grant[k] = "live"
    BY DEF Claimed, StorageFault, LeaseStep
  <2>2. Good(k)
    BY <2>1 DEF WInv, GoodInv
  <2>3. Good(k)' \/ Calm(p, k)
    BY <1>4, <2>1
  <2> QED BY <2>2, <2>3, CalmKeeps
<1>6. IndexInv'
  <2> SUFFICES ASSUME restarts' = 0, NEW k \in Secrets, grant'[k] = "live" PROVE Indexed(k)'
    BY DEF IndexInv
  <2>1. restarts = 0 /\ grant[k] = "live"
    BY DEF LeaseStep
  <2>2. Indexed(k)
    BY <2>1 DEF WInv, IndexInv
  <2>3. Indexed(k)' \/ CalmIndex(p, k)
    BY <1>4
  <2> QED BY <2>2, <2>3, CalmIndexKeeps
<1> QED BY <1>2, <1>5, <1>6 DEF WInv

\* So it does with a step under pendingLock (MapStep).
LEMMA OneLease ==
    ASSUME IInv, WInv, NEW p \in Gs, NEW d, NEW x, NEW l, NEW e, NEW s,
           Moved(p, x, l, e, s), x # "markIrrevocable", Knows(p)', MapStep, LeaseStep,
           UNCHANGED <<jobs, restore, toRestore, status, restarts>>,
           proc[p].lease \in Secrets \ {d} => p \notin Workers /\ proc[p].pc \notin Registers,
           \A k \in Secrets : k # d => Untouched(k),
           d \in Secrets /\ grant'[d] = "live" => Indexed(d)' \/ CalmIndex(p, d),
           Claimed /\ d \in Secrets /\ grant'[d] = "live" => Good(d)' \/ Calm(p, d)
    PROVE  WInv'
<1>1. (\A q \in Gs : q # p => proc'[q] = proc[q]) /\ proc'[p].pc = x
  BY DEF Moved
<1>2. LockInv' /\ LeaseCountCovers'
  BY <1>1, Facts, MapKeeps DEF WInv
<1> QED BY <1>1, <1>2, OneLeaseMoves

-----------------------------------------------------------------------------
(* Why a lease is watched after a step.                                    *)

\* It has its timer or is irrevocable.
LEMMA Settled ==
    ASSUME NEW l, Armed(l)' \/ l \in irrevocable',
           idView'[l] # None /\ idView'[l].RevokeErr
               => l \in irrevocable' \/ Marked(l)' \/ Unseen(l)'
    PROVE  Good(l)'
BY DEF Good, Kept, MarkKept, WatchKept, Armed

\* Its registration goes on.
LEMMA StillRegisters ==
    ASSUME NEW l, NEW p \in Gs, proc'[p].lease = l, proc'[p].pc \in Registers,
           ~(idView'[l] # None /\ idView'[l].RevokeErr)
    PROVE  Good(l)'
<1>1. InFlight(l, Registers)'
  BY DEF InFlight, Gs
<1> QED BY <1>1 DEF Good, Kept, MarkKept, WatchKept

\* It is live and not stored, so another goroutine registers it.
LEMMA OtherRegisters ==
    ASSUME IInv, NEW k \in Secrets, grant[k] = "live", idView[k] = None, idView'[k] = None,
           NEW p \in Gs, proc[p].pc \notin {"persist", "rollback"},
           \A q \in Gs : q # p => proc'[q] = proc[q]
    PROVE  Good(k)'
<1>1. PICK q \in Gs : proc[q].lease = k /\ proc[q].pc \in {"persist", "rollback"}
  BY Facts DEF Safety, LiveSecretTracked, Stored, InFlight, Gs
<1>2. proc'[q].lease = k /\ proc'[q].pc \in Registers
  BY <1>1 DEF Registers
<1> QED BY <1>2, StillRegisters

\* Lease k is as it was in the maps.
SameMaps(k) ==
    /\ pending'[k] = pending[k]
    /\ (k \in irrevocable' <=> k \in irrevocable)
    /\ (k \in restoreLoaded' <=> k \in restoreLoaded)

\* What a load does: nothing, or it sets up the timer of its lease (loadEntry).
LEMMA loadEffect ==
    ASSUME TypeOK, NEW l \in Leases, loadEntry(l)
    PROVE  /\ \A k \in Leases : k # l => SameMaps(k)
           /\ l \in Secrets =>
                \/ SameMaps(l) /\ (restoreMode => idView[l] = None \/ l \in restoreLoaded)
                \/ /\ Armed(l)' \/ l \in irrevocable'
                   /\ idView[l].RevokeErr => l \in irrevocable'
           /\ idView[l] = None => SameMaps(l)
<1>1. CASE restoreMode /\ l \in Stored \ restoreLoaded
  <2>1. /\ idView[l] \in leaseEntry /\ idView[l] # None
        /\ updatePendingInternal(l, idView[l])
        /\ restoreLoaded' = restoreLoaded \cup {l}
    BY <1>1 DEF TypeOK, Stored, loadEntry
  <2>2. \A k \in Leases : k # l => SameMaps(k)
    BY <2>1, updateEffect DEF SameMaps
  <2>3. l \in Secrets => /\ Armed(l)' \/ l \in irrevocable'
                         /\ idView[l].RevokeErr => l \in irrevocable'
    BY <2>1, updateSets
  <2> QED BY <2>1, <2>2, <2>3
<1>2. CASE ~(restoreMode /\ l \in Stored \ restoreLoaded)
  BY <1>2 DEF loadEntry, SameMaps, Stored
<1> QED BY <1>1, <1>2

\* A goroutine that loads l, and is not on another secret, keeps the
\* invariant (loadEntry).
LEMMA LoadKeeps ==
    ASSUME IInv, WInv, NEW p \in Gs, NEW l \in Leases, loadEntry(l), Stays(p, l),
           proc[p].lease \in Secrets \ {l} => p \notin Workers /\ proc[p].pc \notin Registers,
           proc[p].pc \notin {"index", "rollback"},
           NEW x, NEW m, NEW e, NEW s, Moved(p, x, m, e, s), x # "markIrrevocable", Knows(p)',
           UNCHANGED <<store, backends, jobs, restore, toRestore, status, restarts>>
    PROVE  WInv'
<1>1. MapStep /\ LeaseStep
  BY Facts, loadMap, SameLeases
<1>2. \A k \in Secrets : k # l => Untouched(k)
  BY Facts, loadEffect DEF SameMaps, Untouched, Leases
<1>3. l \in Secrets => CalmIndex(p, l)
  BY DEF CalmIndex
<1>4. l \in Secrets => Good(l)' \/ Calm(p, l)
  <2> SUFFICES ASSUME l \in Secrets PROVE Good(l)' \/ Calm(p, l)
    OBVIOUS
  <2>1. CASE SameMaps(l)
    BY <2>1 DEF Calm, SameMaps
  <2>2. CASE (Armed(l)' \/ l \in irrevocable') /\ (idView[l].RevokeErr => l \in irrevocable')
    BY <2>2, Settled
  <2> QED BY <2>1, <2>2, Facts, loadEffect
<1> QED
  BY <1>1, <1>2, <1>3, <1>4, OneLease

\* A goroutine that leaves the leases and the maps alone and does not let go
\* of its secret, unless it is given up, keeps the invariant.
LEMMA QuietKeeps ==
    ASSUME IInv, WInv, NEW p \in Gs, NEW x, NEW l, NEW e, NEW s, Moved(p, x, l, e, s),
           x # "markIrrevocable", Knows(p)', proc[p].pc \notin {"index", "rollback"},
           proc[p].lease \in Secrets /\ grant[proc[p].lease] = "live" =>
               Stays(p, proc[p].lease),
           UNCHANGED <<store, grant, memory, restoreLoaded>>,
           UNCHANGED <<jobs, restore, toRestore, status, restarts>>
    PROVE  WInv'
<1> DEFINE d == proc[p].lease
<1>1. MapStep /\ LeaseStep
  BY Facts, SameLeases DEF MapStep
<1>2. \A k \in Secrets : k # d => Untouched(k)
  BY DEF Untouched
<1>3. d \in Secrets => CalmIndex(p, d)
  BY DEF CalmIndex
<1>4. d \in Secrets /\ grant[d] = "live" => Calm(p, d)
  BY DEF Calm
<1> QED
  BY <1>1, <1>2, <1>3, <1>4, OneLease

-----------------------------------------------------------------------------
(* Requests.                                                               *)

\* Register and RegisterAuth: the new lease is watched by its registration.
LEMMA BeginWatch ==
    ASSUME IInv, WInv, NEW p \in Procs, NEW l \in Leases, NEW op, Request(p, op),
           grant[l] = "none", grant' = [grant EXCEPT ![l] = "live"],
           Begin(p, "persist", l, NewEntry(l)),
           UNCHANGED <<now, store, pendingDeletion, memory, jobs, restoring, status, restarts>>
    PROVE  WInv'
<1>0. p \in Gs /\ p \notin Workers /\ proc[p].pc = "idle"
  BY ProcAssumption DEF Gs, Request, At
<1>1. Moved(p, "persist", l, NewEntry(l), None)
  BY <1>0, Facts, NewEntryType, BeginMoves DEF Places
<1>2. /\ \A q \in Gs : q # p => proc'[q] = proc[q]
      /\ proc'[p].pc = "persist" /\ proc'[p].lease = l /\ ~proc'[p].le.RevokeErr
  BY <1>1 DEF Moved, NewEntry
<1>3. \A k \in Secrets : k # l => grant'[k] = grant[k]
  BY Facts DEF TypeOK, Leases
<1>4. l \in Secrets => idView[l] = None
  BY Facts DEF Safety, StoredGranted
<1>5. KnowsInv'
  <2> SUFFICES ASSUME NEW q \in Gs PROVE Knows(q)'
    BY DEF KnowsInv
  <2>1. CASE q = p
    BY <1>0, <1>2, <2>1 DEF Knows
  <2>2. CASE q # p
    <3>1. proc'[q] = proc[q] /\ Knows(q) /\ Local(q)
      BY <1>2, <2>2, Facts DEF WInv, KnowsInv
    <3>2. proc[q].pc = "expireSave" => proc[q].sub \in Secrets /\ proc[q].sub # l
      BY <3>1 DEF Local
    <3>3. proc[q].lease \in Secrets
            /\ proc[q].pc \in {"unindex", "clear", "rollbackIndex", "renewing", "save",
                               "markIrrevocable"} => proc[q].lease # l
      BY <3>1 DEF Local, Knows, Granted
    <3> QED
      BY <1>3, <3>1, <3>2, <3>3 DEF Knows
  <2> QED BY <2>1, <2>2
<1>6. LockInv' /\ LeaseCountCovers'
  BY <1>0, <1>2, Facts, MapKeeps DEF WInv, MapStep
<1>7. GoodInv'
  <2> SUFFICES ASSUME Claimed', NEW k \in Secrets, grant'[k] = "live" PROVE Good(k)'
    BY DEF GoodInv
  <2>1. CASE k = l
    BY <1>0, <1>2, <1>4, <2>1, StillRegisters DEF Registers
  <2>2. CASE k # l
    <3>1. Claimed /\ grant[k] = "live"
      BY <1>3, <2>2 DEF Claimed, StorageFault
    <3>2. Calm(p, k)
      BY <1>0 DEF Calm, Stays, Registers
    <3> QED BY <1>0, <1>2, <3>1, <3>2, CalmKeeps DEF WInv, GoodInv
  <2> QED BY <2>1, <2>2
<1>8. IndexInv'
  <2> SUFFICES ASSUME restarts' = 0, NEW k \in Secrets, grant'[k] = "live" PROVE Indexed(k)'
    BY DEF IndexInv
  <2>1. CASE k = l
    BY <1>4, <2>1 DEF Indexed
  <2>2. CASE k # l
    <3>1. Indexed(k)
      BY <1>3, <2>2 DEF WInv, IndexInv
    <3>2. CalmIndex(p, k)
      BY <1>0 DEF CalmIndex
    <3> QED BY <1>0, <1>2, <3>1, <3>2, CalmIndexKeeps
  <2> QED BY <2>1, <2>2
<1> QED BY <1>5, <1>6, <1>7, <1>8 DEF WInv

\* FetchLeaseTimes takes a lease for loaded and carries its entry to the
\* timers.
LEMMA FetchWatch ==
    ASSUME IInv, WInv, NEW p \in Procs, NEW l \in Leases, FetchLeaseTimes(p, l)
    PROVE  WInv'
<1>0. p \in Gs /\ p \notin Workers /\ proc[p].pc = "idle"
  BY ProcAssumption DEF Gs, FetchLeaseTimes, Request, At
<1>1. /\ l \in Stored /\ restoreLoaded' = restoreLoaded \cup {l}
      /\ Begin(p, "pend", l, idView[l])
      /\ UNCHANGED <<now, store, backends, memory, jobs, restore, toRestore, status, restarts>>
  BY DEF FetchLeaseTimes
<1>2. Moved(p, "pend", l, idView[l], None)
  BY <1>0, <1>1, Facts, StoredEntry, BeginMoves DEF Places
<1>3. Knows(p)'
  BY <1>0, <1>2 DEF Knows, Moved
<1>4. MapStep /\ LeaseStep
  BY <1>1, Facts, SameLeases DEF MapStep
<1>5. \A k \in Secrets : k # l => Untouched(k)
  BY <1>1 DEF Untouched
<1>6. CalmIndex(p, l)
  BY <1>0, <1>1 DEF CalmIndex
<1>7. Good(l)'
  <2>1. proc'[p].pc = "pend" /\ proc'[p].lease = l /\ proc'[p].le = idView[l]
    BY <1>2 DEF Moved
  <2>2. InFlight(l, Registers)'
    BY <1>0, <2>1 DEF InFlight, Registers, Gs
  <2>3. idView'[l].RevokeErr => Marked(l)'
    BY <1>0, <1>1, <2>1 DEF Marked
  <2> QED BY <2>2, <2>3 DEF Good, Kept, MarkKept, WatchKept
<1>8. proc[p].lease \in Secrets \ {l} => p \notin Workers /\ proc[p].pc \notin Registers
  BY <1>0 DEF Registers
<1> QED
  BY <1>0, <1>1, <1>2, <1>3, <1>4, <1>5, <1>6, <1>7, <1>8, OneLease

\* A request that begins with a load keeps the invariant (loadEntry).
LEMMA RequestLoad ==
    ASSUME IInv, WInv, NEW p \in Procs, NEW op, Request(p, op), NEW l \in Leases, loadEntry(l),
           NEW x \in {"load", "create", "renewing", "save", "revoke"}, NEW e,
           Moved(p, x, l, e, None), x \in {"renewing", "save"} => idView[l] # None,
           UNCHANGED <<store, backends, jobs, restore, toRestore, status, restarts>>
    PROVE  WInv'
<1>0. p \in Gs /\ p \notin Workers /\ proc[p].pc = "idle"
  BY ProcAssumption DEF Gs, Request, At
<1>1. Stays(p, l) /\ proc[p].pc \notin Registers
  BY <1>0 DEF Stays, Registers
<1>2. Knows(p)'
  BY <1>0 DEF Knows, Moved
<1> QED
  BY <1>0, <1>1, <1>2, LoadKeeps

\* Every request that begins keeps the invariant (Requests).
LEMMA RequestsWatch ==
    ASSUME IInv, WInv, NEW p \in Procs, Requests(p)
    PROVE  WInv'
<1>0. p \in Gs /\ p \notin Workers /\ now \in Nat
  BY ProcAssumption, Facts DEF Gs, TypeOK
<1>1. ASSUME NEW l \in Secrets, Register(p, l) PROVE WInv'
  BY <1>1, BeginWatch DEF Register, Leases
<1>2. ASSUME NEW t \in Tokens, RegisterAuth(p, t) PROVE WInv'
  BY <1>2, BeginWatch DEF RegisterAuth, Leases
<1>3. ASSUME NEW t \in Tokens, CreateOrFetchRevocationLeaseByToken(p, t) PROVE WInv'
  <2>1. t \in Leases
    BY DEF Leases
  <2>2. PICK x \in {"load", "create"} : Begin(p, x, t, None)
    BY <1>3 DEF CreateOrFetchRevocationLeaseByToken
  <2>3. Moved(p, x, t, None, None)
    BY <1>0, <2>1, <2>2, Facts, BeginMoves DEF Places
  <2> QED
    BY <1>3, <2>1, <2>3, RequestLoad DEF CreateOrFetchRevocationLeaseByToken
<1>4. ASSUME NEW l \in Leases, Renew(p, l) PROVE WInv'
  <2>1. l \in Stored /\ idView[l] # None
    BY <1>4 DEF Renew, Stored
  <2>2. Moved(p, "renewing", l, idView[l], None)
    BY <1>0, <1>4, <2>1, Facts, StoredEntry, BeginMoves DEF Renew, Places
  <2> QED
    BY <1>4, <2>1, <2>2, RequestLoad DEF Renew
<1>5. ASSUME NEW l \in Leases, LazyRevoke(p, l) PROVE WInv'
  <2>1. l \in Stored /\ idView[l] # None
    BY <1>5 DEF LazyRevoke, Stored
  <2> DEFINE e == [idView[l] EXCEPT !.ExpireTime = now]
  <2>2. e \in leaseEntry
    BY <1>0, <2>1, StoredEntry, EntryTypes
  <2>3. Begin(p, "save", l, e)
    BY <1>5 DEF LazyRevoke
  <2> HIDE DEF e
  <2>4. Moved(p, "save", l, e, None)
    BY <1>0, <2>2, <2>3, Facts, BeginMoves DEF Places
  <2> QED
    BY <1>5, <2>1, <2>4, RequestLoad DEF LazyRevoke
<1>6. ASSUME NEW l \in Leases, FetchLeaseTimes(p, l) PROVE WInv'
  BY <1>6, FetchWatch
<1>7. ASSUME NEW l \in Leases, NEW force \in BOOLEAN, Revoke(p, l, force) PROVE WInv'
  <2> DEFINE g == [Idle EXCEPT !.pc = "revoke", !.lease = l, !.force = force]
  <2>1. g \in Goroutine /\ g.pc = "revoke" /\ g.lease = l /\ g.le = None /\ g.sub = None
    BY IdleType DEF Goroutine, Places
  <2>2. proc' = [proc EXCEPT ![p] = g] /\ loadEntry(l)
    BY <1>7 DEF Revoke
  <2> HIDE DEF g
  <2>3. Moved(p, "revoke", l, None, None)
    BY <1>0, <2>1, <2>2, Facts DEF Moved, ProcType
  <2>4. UNCHANGED <<store, backends, jobs, restore, toRestore, status, restarts>>
    BY <1>7 DEF Revoke
  <2>5. PICK op : Request(p, op)
    BY <1>7 DEF Revoke
  <2> QED
    BY <2>2, <2>3, <2>4, <2>5, RequestLoad
<1> QED
  BY <1>1, <1>2, <1>3, <1>4, <1>5, <1>6, <1>7 DEF Requests

-----------------------------------------------------------------------------
(* The steps of a registration and of a renewal.                           *)

\* Only the lease of p is touched by what p does to storage or the grants.
LEMMA OthersUntouched ==
    ASSUME IInv, NEW l \in Leases,
           \/ UNCHANGED idView \/ deleteEntry(l) \/ \E e \in leaseEntry : persistEntry(l, e),
           UNCHANGED grant \/ \E g : grant' = [grant EXCEPT ![l] = g],
           \A k \in Leases : k # l => SameMaps(k),
           UNCHANGED tokenView \/ createIndexByToken(l) \/ removeIndexByToken(l)
    PROVE  \A k \in Secrets : k # l => Untouched(k)
<1>1. \A k \in Leases : k # l => idView'[k] = idView[k]
  BY Facts DEF TypeOK, deleteEntry, persistEntry
<1>2. \A k \in Leases : k # l => grant'[k] = grant[k]
  BY Facts DEF TypeOK
<1>3. \A k \in Leases : k # l => (k \in tokenView' <=> k \in tokenView)
  BY DEF createIndexByToken, removeIndexByToken
<1> QED BY <1>1, <1>2, <1>3 DEF Untouched, SameMaps, Leases

\* RegisterPersist: the entry of a secret with a token goes on to its index.
LEMMA RegisterPersistWatch ==
    ASSUME IInv, WInv, NEW p \in Gs, RegisterPersist(p)
    PROVE  WInv'
<1>0. PICK l \in Leases :
      /\ proc[p].lease = l /\ proc[p].le \in leaseEntry /\ proc[p].pc = "persist"
      /\ l \in Secrets => grant[l] # "none"
      /\ p \notin Workers /\ ~proc[p].le.RevokeErr
  BY Facts DEF Local, RegisterPersist, At, CarriesEntry, Granted, WInv, KnowsInv, Knows
<1>1. /\ UNCHANGED <<tokenView, memory, restoreLoaded>>
      /\ UNCHANGED <<jobs, restore, toRestore, status, restarts>>
  BY DEF RegisterPersist
<1>2. MapStep /\ \A k \in Leases : k # l => SameMaps(k)
  BY <1>1 DEF MapStep, SameMaps
<1>3. CASE /\ persistEntry(l, proc[p].le) /\ UNCHANGED grant
           /\ Goto(p, IF l \in Secrets /\ ClientToken[l] # None THEN "index" ELSE "pend")
  <2> DEFINE x == IF l \in Secrets /\ ClientToken[l] # None THEN "index" ELSE "pend"
  <2>1. Moved(p, x, l, proc[p].le, proc[p].sub)
    BY <1>0, <1>3, Facts, GotoMoves DEF Places
  <2>2. LeaseStep /\ \A k \in Secrets : k # l => Untouched(k)
    BY <1>0, <1>1, <1>2, <1>3, Facts, PersistGranted, OthersUntouched
  <2>3. Knows(p)' /\ proc'[p].pc = x /\ proc'[p].lease = l
    BY <1>0, <2>1 DEF Knows, Moved
  <2>4. idView'[l] = proc[p].le
    BY <1>0, <1>3, Facts DEF persistEntry, TypeOK
  <2>5. Good(l)'
    BY <1>0, <2>3, <2>4, StillRegisters DEF Registers
  <2>6. l \in Secrets => Indexed(l)'
    BY <2>3 DEF Indexed, InFlight, Gs
  <2> QED
    BY <1>0, <1>1, <1>2, <2>1, <2>2, <2>3, <2>5, <2>6, OneLease
<1>4. CASE StorageFault /\ l \in Secrets /\ Goto(p, "rollback") /\ UNCHANGED <<idView, grant>>
  <2>1. Moved(p, "rollback", l, proc[p].le, proc[p].sub)
    BY <1>0, <1>4, Facts, GotoMoves DEF Places
  <2>2. LeaseStep /\ \A k \in Secrets : k # l => Untouched(k)
    BY <1>0, <1>1, <1>2, <1>4, Facts, SameLeases, OthersUntouched
  <2>3. Knows(p)' /\ proc'[p].pc = "rollback" /\ proc'[p].lease = l
    BY <1>0, <2>1 DEF Knows, Moved
  <2>4. Indexed(l)' /\ ~Claimed
    BY <1>4, <2>3 DEF Indexed, InFlight, Gs, Claimed
  <2> QED
    BY <1>0, <1>1, <1>2, <2>1, <2>2, <2>3, <2>4, OneLease
<1>5. CASE /\ l \in Tokens /\ grant' = [grant EXCEPT ![l] = "leaked"]
           /\ Return(p) /\ UNCHANGED idView
  <2>1. Moved(p, "idle", None, None, None)
    BY <1>5, Facts, ReturnMoves
  <2>2. l \notin Secrets /\ \A k \in Secrets : grant'[k] = grant[k]
    BY <1>5, Facts, LeaseAssumption DEF TypeOK, Leases
  <2>3. LeaseStep /\ \A k \in Secrets : k # l => Untouched(k)
    BY <1>0, <1>1, <1>2, <1>5, <2>2, Facts, OthersUntouched
       DEF LeaseStep, Safety, StoredGranted
  <2>4. Knows(p)'
    BY <1>0, <2>1, LeaseAssumption DEF Knows, Moved, Leases
  <2> QED
    BY <1>0, <1>1, <1>2, <2>1, <2>2, <2>3, <2>4, OneLease
<1> QED
  BY <1>0, <1>3, <1>4, <1>5 DEF RegisterPersist, Lease

\* RegisterIndex: the secret is indexed, or rolled back.
LEMMA RegisterIndexWatch ==
    ASSUME IInv, WInv, NEW p \in Gs, RegisterIndex(p)
    PROVE  WInv'
<1>0. PICK l \in Leases : proc[p].lease = l /\ proc[p].pc = "index" /\ l \in Secrets
  BY Facts DEF RegisterIndex, At, Local, Leases
<1>1. /\ UNCHANGED <<idView, grant, memory, restoreLoaded>>
      /\ UNCHANGED <<jobs, restore, toRestore, status, restarts>>
  BY DEF RegisterIndex
<1>2. PICK x \in {"pend", "rollback"} : Goto(p, x)
  BY DEF RegisterIndex
<1>3. Moved(p, x, l, proc[p].le, proc[p].sub)
  BY <1>0, <1>2, Facts, GotoMoves DEF Places
<1>4. Knows(p)' /\ proc'[p].pc = x /\ proc'[p].lease = l
  BY <1>3 DEF Knows, Moved
<1>5. MapStep /\ LeaseStep /\ \A k \in Secrets : k # l => SameMaps(k)
  BY <1>1, Facts, SameLeases DEF MapStep, SameMaps
<1>6. \A k \in Secrets : k # l => Untouched(k)
  BY <1>0, <1>1, <1>5 DEF Untouched, SameMaps, RegisterIndex, createIndexByToken, Lease
<1>7. Indexed(l)'
  <2>1. CASE createIndexByToken(l)
    BY <2>1 DEF createIndexByToken, Indexed
  <2>2. CASE Goto(p, "rollback")
    BY <1>0, <2>2, Facts, GotoMoves DEF Moved, Places, Indexed, InFlight, Gs
  <2> QED BY <1>0, <2>1, <2>2 DEF RegisterIndex, Lease
<1>8. Calm(p, l)
  BY <1>0, <1>1, <1>4 DEF Calm, Stays, Registers
<1> QED
  BY <1>0, <1>1, <1>3, <1>4, <1>5, <1>6, <1>7, <1>8, OneLease

\* updatePending: the timer takes over from the registration.
LEMMA updatePendingWatch ==
    ASSUME IInv, WInv, NEW p \in Gs, updatePending(p)
    PROVE  WInv'
<1>0. PICK l \in Leases : proc[p].lease = l /\ proc[p].pc = "pend" /\ proc[p].le \in leaseEntry
  BY Facts DEF updatePending, At, Local, CarriesEntry
<1>1. /\ updatePendingInternal(l, proc[p].le) /\ Return(p)
      /\ UNCHANGED <<store, grant, restoreLoaded>>
      /\ UNCHANGED <<jobs, restore, toRestore, status, restarts>>
  BY <1>0 DEF updatePending, Lease
<1>2. Moved(p, "idle", None, None, None)
  BY <1>1, Facts, ReturnMoves
<1>3. Knows(p)' /\ (\A q \in Gs : q # p => proc'[q] = proc[q])
  BY <1>2, LeaseAssumption DEF Knows, Moved, Leases
<1>4. MapStep /\ LeaseStep /\ \A k \in Leases : k # l => SameMaps(k)
  BY <1>0, <1>1, Facts, SameLeases, updateEffect DEF MapStep, SameMaps
<1>5. \A k \in Secrets : k # l => Untouched(k)
  BY <1>0, <1>1, <1>4, OthersUntouched
<1>6. CalmIndex(p, l)
  BY <1>0, <1>1 DEF CalmIndex
<1>7. Claimed /\ l \in Secrets /\ grant[l] = "live" => Good(l)'
  <2> SUFFICES ASSUME Claimed, l \in Secrets, grant[l] = "live" PROVE Good(l)'
    OBVIOUS
  <2>1. /\ Armed(l)' \/ l \in irrevocable'
        /\ proc[p].le.RevokeErr => l \in irrevocable'
        /\ l \in irrevocable => l \in irrevocable'
    BY <1>0, <1>1, Facts, updateSets, updateEffect
  <2>2. MarkKept(l)
    BY DEF WInv, GoodInv, Good
  <2>3. Marked(l) => Marked(l)' \/ l \in irrevocable'
    BY <1>0, <1>3, <2>1 DEF Marked
  <2>4. Unseen(l) => Unseen(l)'
    BY <1>1 DEF Unseen
  <2> QED
    BY <1>1, <2>1, <2>2, <2>3, <2>4, Settled DEF MarkKept
<1>8. UNCHANGED <<jobs, restore, toRestore, status, restarts>> /\ grant' = grant
  BY <1>1
<1>9. proc[p].lease \notin Secrets \ {l}
  BY <1>0
<1> QED
  BY <1>2, <1>3, <1>4, <1>5, <1>6, <1>7, <1>8, <1>9, OneLease

\* The places where Knows asks something.
KnowsAt == {"unindex", "clear", "rollbackIndex", "renewing", "save", "markIrrevocable",
            "expireSave", "persist"}

\* Everywhere else there is nothing to know (Knows).
LEMMA PlainKnows ==
    ASSUME NEW p \in Gs, NEW x, NEW l, NEW e, NEW s, Moved(p, x, l, e, s), x \notin KnowsAt,
           x = "idle" => l = None
    PROVE  Knows(p)'
BY DEF Knows, KnowsAt, Moved

\* A step of a goroutine on a lease that is a token's or is given up, which
\* touches no other lease.
LEMMA GivenUpKeeps ==
    ASSUME IInv, WInv, NEW p \in Gs, NEW l \in Leases, proc[p].lease = l,
           l \in Secrets => grant'[l] # "live",
           NEW x, NEW m, NEW e, NEW s, Moved(p, x, m, e, s), x # "markIrrevocable", Knows(p)',
           MapStep, LeaseStep, \A k \in Secrets : k # l => Untouched(k),
           UNCHANGED <<jobs, restore, toRestore, status, restarts>>
    PROVE  WInv'
<1>1. proc[p].lease \notin Secrets \ {l}
  OBVIOUS
<1> QED BY <1>1, OneLease

\* A goroutine that goes on, or ends, with its lease given up.
LEMMA GivenUpGoto ==
    ASSUME IInv, WInv, NEW p \in Gs, NEW l \in Leases, proc[p].lease = l,
           l \in Secrets => grant'[l] \notin {"none", "live"},
           NEW x \in {"rollbackDelete", "rollbackIndex", "delete", "unindex", "clear",
                      "onFailure", "idle"},
           IF x = "idle" THEN Return(p) ELSE Goto(p, x),
           MapStep, LeaseStep, \A k \in Secrets : k # l => Untouched(k),
           UNCHANGED <<jobs, restore, toRestore, status, restarts>>
    PROVE  WInv'
<1>1. CASE x = "idle"
  <2>1. Moved(p, "idle", None, None, None)
    BY <1>1, Facts, ReturnMoves
  <2>2. Knows(p)'
    BY <2>1, PlainKnows DEF KnowsAt
  <2> QED BY <2>1, <2>2, GivenUpKeeps
<1>2. CASE x # "idle"
  <2>1. Moved(p, x, l, proc[p].le, proc[p].sub)
    BY <1>2, Facts, GotoMoves DEF Places
  <2>2. Knows(p)'
    BY <1>2, <2>1 DEF Knows, Moved
  <2> QED BY <2>1, <2>2, GivenUpKeeps
<1> QED BY <1>1, <1>2

\* A goroutine that fails leaves everything as it is; a worker keeps its
\* lease for OnFailure (Fail).
LEMMA FailWatch ==
    ASSUME IInv, WInv, NEW p \in Gs, Fail(p), proc[p].pc \notin Registers,
           UNCHANGED <<store, grant, memory, restoreLoaded>>,
           UNCHANGED <<jobs, restore, toRestore, status, restarts>>
    PROVE  WInv'
<1>0. proc[p].pc \notin {"index", "rollback"}
  BY DEF Registers
<1>1. CASE p \in Workers
  <2>1. Moved(p, "onFailure", proc[p].lease, proc[p].le, proc[p].sub)
    BY <1>1, Facts, GotoMoves DEF Fail, Places
  <2>2. Stays(p, proc[p].lease) /\ Knows(p)'
    BY <2>1, PlainKnows DEF Stays, Moved, KnowsAt, Registers
  <2> QED BY <1>0, <2>1, <2>2, QuietKeeps
<1>2. CASE p \notin Workers
  <2>1. Moved(p, "idle", None, None, None)
    BY <1>2, Facts, ReturnMoves DEF Fail
  <2>2. Stays(p, proc[p].lease) /\ Knows(p)'
    BY <1>2, <2>1, PlainKnows DEF Stays, KnowsAt
  <2> QED BY <1>0, <2>1, <2>2, QuietKeeps
<1> QED BY <1>1, <1>2

\* The rollback of Register: first the secret is given up, then its entry
\* and its index go.
LEMMA RollbackWatch ==
    ASSUME IInv, WInv, NEW p \in Gs,
           RollbackRevoke(p) \/ RollbackDelete(p) \/ RollbackIndex(p)
    PROVE  WInv'
<1>0. PICK l \in Leases : proc[p].lease = l
  BY Facts DEF RollbackRevoke, RollbackDelete, RollbackIndex, At, Local
<1>1. /\ UNCHANGED <<memory, restoreLoaded>>
      /\ UNCHANGED <<jobs, restore, toRestore, status, restarts>>
  BY DEF RollbackRevoke, RollbackDelete, RollbackIndex
<1>2. MapStep /\ \A k \in Leases : k # l => SameMaps(k)
  BY <1>1 DEF MapStep, SameMaps
<1>3. CASE RollbackRevoke(p)
  <2>1. PICK g \in {"revoked", "leaked"} : grant' = [grant EXCEPT ![l] = g]
    BY <1>0, <1>3 DEF RollbackRevoke, Lease
  <2>2. grant'[l] = g /\ \A k \in Leases : k # l => grant'[k] = grant[k]
    BY <2>1, Facts DEF TypeOK
  <2>3. UNCHANGED store /\ Goto(p, "rollbackDelete")
    BY <1>3 DEF RollbackRevoke
  <2>4. LeaseStep
    BY <2>2, <2>3, Facts DEF LeaseStep, Safety, StoredGranted, Leases
  <2>5. \A k \in Secrets : k # l => Untouched(k)
    BY <1>2, <2>1, <2>3, OthersUntouched
  <2> QED BY <1>0, <1>1, <1>2, <2>2, <2>3, <2>4, <2>5, GivenUpGoto
<1>4. CASE RollbackDelete(p)
  <2>1. l \in Secrets => grant[l] \notin {"none", "live"}
    BY <1>0, <1>4, Facts DEF RollbackDelete, At, Local, GivenUp
  <2>2. /\ deleteEntry(l) \/ UNCHANGED idView
        /\ UNCHANGED <<tokenView, grant>> /\ Goto(p, "rollbackIndex")
    BY <1>0, <1>4 DEF RollbackDelete, Lease
  <2>3. LeaseStep
    BY <2>1, <2>2, Facts, DeleteGivenUp, SameLeases
  <2>4. \A k \in Secrets : k # l => Untouched(k)
    BY <1>2, <2>2, OthersUntouched
  <2> QED BY <1>0, <1>1, <1>2, <2>1, <2>2, <2>3, <2>4, GivenUpGoto
<1>5. CASE RollbackIndex(p)
  <2>1. l \in Secrets => grant[l] \notin {"none", "live"}
    BY <1>0, <1>5 DEF RollbackIndex, At, WInv, KnowsInv, Knows
  <2>2. /\ removeIndexByToken(l) \/ UNCHANGED tokenView
        /\ UNCHANGED <<idView, grant>> /\ Return(p)
    BY <1>0, <1>5 DEF RollbackIndex, Lease
  <2>3. LeaseStep
    BY <2>2, Facts, SameLeases
  <2>4. \A k \in Secrets : k # l => Untouched(k)
    BY <1>2, <2>2, OthersUntouched
  <2> QED BY <1>0, <1>1, <1>2, <2>1, <2>2, <2>3, <2>4, GivenUpGoto
<1> QED BY <1>3, <1>4, <1>5

\* A request at a renewal watches nothing (renewEntry).
LEMMA renewEntryWatch ==
    ASSUME IInv, WInv, NEW p \in Gs, renewEntry(p)
    PROVE  WInv'
<1>0. /\ proc[p].pc = "renewing" /\ proc[p].le \in leaseEntry /\ p \notin Workers
      /\ Knows(p) /\ TypeOK /\ ProcType
  BY Facts DEF renewEntry, At, Local, CarriesEntry, WInv, KnowsInv, Knows
<1>1. /\ UNCHANGED <<store, grant, memory, restoreLoaded>>
      /\ UNCHANGED <<jobs, restore, toRestore, status, restarts>>
  BY DEF renewEntry
<1>2. Stays(p, proc[p].lease) /\ proc[p].pc \notin {"index", "rollback"}
  BY <1>0 DEF Stays, Registers
<1>3. CASE Return(p)
  <2>1. Moved(p, "idle", None, None, None)
    BY <1>3, Facts, ReturnMoves
  <2>2. Knows(p)'
    BY <2>1, PlainKnows DEF KnowsAt
  <2> QED BY <1>1, <1>2, <2>1, <2>2, QuietKeeps
<1>4. CASE proc' = [proc EXCEPT ![p].le.ExpireTime = now + TTL, ![p].pc = "save"]
  <2> DEFINE e == [proc[p].le EXCEPT !.ExpireTime = now + TTL]
             g == [proc[p] EXCEPT !.le = e, !.pc = "save"]
  <2>1. e \in leaseEntry
    BY <1>0, EntryTypes, BoundAssumption DEF TypeOK
  <2>2. proc' = [proc EXCEPT ![p] = g]
    BY <1>0, <1>4 DEF ProcType, Goroutine
  <2> HIDE DEF e
  <2>3. /\ g \in Goroutine /\ g.pc = "save" /\ g.lease = proc[p].lease /\ g.le = e
        /\ g.sub = proc[p].sub
    BY <1>0, <2>1 DEF ProcType, Goroutine, Places
  <2> HIDE DEF g
  <2>4. Moved(p, "save", proc[p].lease, e, proc[p].sub)
    BY <1>0, <2>2, <2>3 DEF Moved, ProcType
  <2>5. Knows(p)'
    BY <1>0, <1>1, <2>4 DEF Knows, Moved
  <2> QED BY <1>1, <1>2, <2>4, <2>5, QuietKeeps
<1> QED BY <1>3, <1>4 DEF renewEntry

\* A section that writes an entry back and sets up its timer keeps the
\* invariant, for the lease of a request or of a token (Renew, LazyRevoke,
\* RevokeByToken).
LEMMA WriteBack ==
    ASSUME IInv, WInv, NEW p \in Gs, NEW l \in Leases, NEW f \in leaseEntry,
           persistEntry(l, f), updatePendingInternal(l, f),
           l \in Secrets => grant[l] # "none" /\ (grant[l] = "live" => idView[l] # None),
           proc[p].lease \in Secrets \ {l} => p \notin Workers /\ proc[p].pc \notin Registers,
           proc[p].pc \notin {"index", "rollback"},
           NEW x, NEW m, NEW e, NEW s, Moved(p, x, m, e, s), x \notin KnowsAt,
           x = "idle" => m = None,
           UNCHANGED <<tokenView, backends, jobs, restoring, lifetime>>
    PROVE  WInv'
<1>1. LeaseStep /\ MapStep /\ Knows(p)' /\ x # "markIrrevocable"
  BY Facts, PersistGranted, PlainKnows DEF MapStep, KnowsAt
<1>2. \A k \in Leases : k # l => SameMaps(k)
  BY Facts, updateEffect DEF SameMaps
<1>3. \A k \in Secrets : k # l => Untouched(k)
  BY <1>2, OthersUntouched
<1>4. idView'[l] = f
  BY Facts DEF persistEntry, TypeOK
<1>5. l \in Secrets => Good(l)'
  <2> SUFFICES ASSUME l \in Secrets PROVE Good(l)'
    OBVIOUS
  <2>1. (Armed(l)' \/ l \in irrevocable') /\ (f.RevokeErr => l \in irrevocable')
    BY Facts, updateSets
  <2> QED BY <1>4, <2>1, Settled
<1>6. l \in Secrets /\ grant'[l] = "live" => CalmIndex(p, l)
  BY DEF CalmIndex
<1>7. UNCHANGED <<jobs, restore, toRestore, status, restarts>>
  OBVIOUS
<1> QED BY <1>1, <1>3, <1>5, <1>6, <1>7, OneLease

\* The end of Renew and LazyRevoke (saveEntry).
LEMMA saveEntryWatch ==
    ASSUME IInv, WInv, NEW p \in Gs, saveEntry(p)
    PROVE  WInv'
<1>0. PICK l \in Leases :
      /\ proc[p].lease = l /\ proc[p].pc = "save" /\ proc[p].le \in leaseEntry
      /\ l \in Secrets => grant[l] # "none" /\ (grant[l] = "live" => idView[l] # None)
  BY Facts DEF saveEntry, At, Local, CarriesEntry, Granted, WInv, KnowsInv, Knows
<1>1. Moved(p, "idle", None, None, None)
  BY Facts, ReturnMoves DEF saveEntry
<1>2. CASE persistEntry(l, proc[p].le) /\ updatePendingInternal(l, proc[p].le)
  <2>1. proc[p].lease \notin Secrets \ {l} /\ proc[p].pc \notin {"index", "rollback"}
    BY <1>0
  <2>2. UNCHANGED <<tokenView, backends, jobs, restoring, lifetime>>
    BY DEF saveEntry
  <2> QED BY <1>0, <1>1, <1>2, <2>1, <2>2, WriteBack DEF KnowsAt
<1>3. CASE StorageFault /\ UNCHANGED <<idView, memory>>
  <2>1. LeaseStep /\ MapStep /\ Knows(p)'
    BY <1>1, <1>3, Facts, SameLeases, PlainKnows DEF saveEntry, MapStep, KnowsAt
  <2>2. /\ UNCHANGED <<jobs, restore, toRestore, status, restarts>>
        /\ \A k \in Secrets : k # l => Untouched(k)
    BY <1>3 DEF saveEntry, Untouched
  <2>3. CalmIndex(p, l) /\ ~Claimed /\ proc[p].lease \notin Secrets \ {l}
    BY <1>0, <1>3 DEF saveEntry, CalmIndex, Claimed
  <2> QED BY <1>1, <2>1, <2>2, <2>3, OneLease
<1> QED BY <1>0, <1>2, <1>3 DEF saveEntry, Lease

-----------------------------------------------------------------------------
(* The steps of a revocation.                                              *)

\* revokeLoad: what is not stored any more is given up, or registered by
\* another goroutine.
LEMMA revokeLoadWatch ==
    ASSUME IInv, WInv, NEW p \in Gs, revokeLoad(p)
    PROVE  WInv'
<1>0. PICK l \in Leases : proc[p].lease = l /\ proc[p].pc = "load"
  BY Facts DEF revokeLoad, At, Local
<1>1. UNCHANGED <<store, backends, jobs, restore, toRestore, status, restarts>>
  BY DEF revokeLoad
<1>2. CASE Fail(p) /\ UNCHANGED <<restoreLoaded, memory>>
  BY <1>0, <1>1, <1>2, FailWatch DEF Registers
<1>3. CASE loadEntry(l) /\ l \in Stored /\ Goto(p, "revoke")
  <2>1. Moved(p, "revoke", l, proc[p].le, proc[p].sub)
    BY <1>0, <1>3, Facts, GotoMoves DEF Places
  <2>2. Stays(p, l) /\ Knows(p)' /\ proc[p].pc \notin {"index", "rollback"}
    BY <1>0, <2>1, PlainKnows DEF Stays, Moved, KnowsAt, Registers
  <2>3. proc[p].lease \notin Secrets \ {l}
    BY <1>0
  <2> QED BY <1>1, <1>3, <2>1, <2>2, <2>3, LoadKeeps
<1>4. CASE loadEntry(l) /\ l \notin Stored /\ Return(p)
  <2>1. Moved(p, "idle", None, None, None)
    BY <1>4, Facts, ReturnMoves
  <2>2. idView[l] = None /\ \A k \in Leases : SameMaps(k)
    BY <1>4, Facts, loadEffect DEF Stored
  <2>3. MapStep /\ LeaseStep /\ Knows(p)'
    BY <1>1, <1>4, <2>1, Facts, loadMap, SameLeases, PlainKnows DEF KnowsAt
  <2>4. \A k \in Secrets : k # l => Untouched(k)
    BY <1>1, <2>2 DEF Untouched, SameMaps, Leases
  <2>5. CalmIndex(p, l) /\ proc[p].lease \notin Secrets \ {l}
    BY <1>0, <1>1 DEF CalmIndex
  <2>6. l \in Secrets /\ grant'[l] = "live" => Good(l)'
    BY <1>0, <1>1, <2>1, <2>2, OtherRegisters DEF Moved
  <2> QED BY <1>1, <2>1, <2>3, <2>4, <2>5, <2>6, OneLease
<1> QED BY <1>0, <1>2, <1>3, <1>4 DEF revokeLoad, Lease

\* revokeEntry: the secret is given up, or its revocation failed.
LEMMA revokeEntryWatch ==
    ASSUME IInv, WInv, NEW p \in Gs, revokeEntry(p)
    PROVE  WInv'
<1>0. PICK l \in Leases :
        proc[p].lease = l /\ proc[p].pc = "revoke" /\ l \in Secrets /\ grant[l] # "none"
  BY Facts DEF revokeEntry, At, Local, Lease, Granted, Leases
<1>1. /\ UNCHANGED <<store, memory, restoreLoaded>>
      /\ UNCHANGED <<jobs, restore, toRestore, status, restarts>>
  BY DEF revokeEntry
<1>2. CASE Fail(p) /\ UNCHANGED grant
  BY <1>0, <1>1, <1>2, FailWatch DEF Registers
<1>3. ASSUME NEW g \in {"revoking", "revoked", "leaked"}, Goto(p, "delete"),
             grant' = [grant EXCEPT ![l] = g]
      PROVE  WInv'
  <2>1. grant'[l] = g /\ \A k \in Leases : k # l => grant'[k] = grant[k]
    BY <1>3, Facts DEF TypeOK
  <2>2. LeaseStep
    BY <1>1, <2>1, Facts DEF LeaseStep, Safety, StoredGranted, Leases
  <2>3. MapStep /\ \A k \in Leases : k # l => SameMaps(k)
    BY <1>1 DEF MapStep, SameMaps
  <2>4. \A k \in Secrets : k # l => Untouched(k)
    BY <1>1, <1>3, <2>3, OthersUntouched
  <2> QED BY <1>0, <1>1, <1>3, <2>1, <2>2, <2>3, <2>4, GivenUpGoto
<1>4. CASE /\ grant' = [grant EXCEPT ![l] = IF @ = "live" THEN "leaked" ELSE @]
           /\ Goto(p, "delete")
  <2> DEFINE g == IF grant[l] = "live" THEN "leaked" ELSE grant[l]
  <2>1. g \in {"revoking", "revoked", "leaked"}
    BY <1>0, Facts DEF TypeOK
  <2> QED BY <1>3, <1>4, <2>1
<1> QED BY <1>0, <1>2, <1>3, <1>4 DEF revokeEntry, Lease

\* The end of revokeCommon: the entry, the index and the maps of a lease
\* that is given up.
LEMMA revokeEndWatch ==
    ASSUME IInv, WInv, NEW p \in Gs,
           revokeDelete(p) \/ revokeUnindex(p) \/ revokeClear(p)
    PROVE  WInv'
<1>0. PICK l \in Leases :
        /\ proc[p].lease = l /\ proc[p].pc \in {"delete", "unindex", "clear"}
        /\ l \in Secrets => grant[l] \notin {"none", "live"}
  BY Facts DEF revokeDelete, revokeUnindex, revokeClear, At, Local, GivenUp,
               WInv, KnowsInv, Knows
<1>1. /\ UNCHANGED <<grant, restoreLoaded>>
      /\ UNCHANGED <<jobs, restore, toRestore, status, restarts>>
  BY DEF revokeDelete, revokeUnindex, revokeClear
<1>2. CASE Fail(p) /\ UNCHANGED <<store, memory>>
  BY <1>0, <1>1, <1>2, FailWatch DEF Registers
<1>3. ASSUME UNCHANGED memory, deleteEntry(l), UNCHANGED tokenView,
             NEW x \in {"unindex", "clear"}, Goto(p, x)
      PROVE  WInv'
  <2>1. LeaseStep
    BY <1>0, <1>1, <1>3, Facts, DeleteGivenUp
  <2>2. MapStep /\ \A k \in Leases : k # l => SameMaps(k)
    BY <1>1, <1>3 DEF MapStep, SameMaps
  <2>3. \A k \in Secrets : k # l => Untouched(k)
    BY <1>1, <1>3, <2>2, OthersUntouched
  <2> QED BY <1>0, <1>1, <1>3, <2>1, <2>2, <2>3, GivenUpGoto
<1>4. CASE UNCHANGED memory /\ removeIndexByToken(l) /\ UNCHANGED idView /\ Goto(p, "clear")
  <2>1. LeaseStep
    BY <1>1, <1>4, Facts, SameLeases
  <2>2. MapStep /\ \A k \in Leases : k # l => SameMaps(k)
    BY <1>1, <1>4 DEF MapStep, SameMaps
  <2>3. \A k \in Secrets : k # l => Untouched(k)
    BY <1>1, <1>4, <2>2, OthersUntouched
  <2> QED BY <1>0, <1>1, <1>4, <2>1, <2>2, <2>3, GivenUpGoto
<1>5. CASE UNCHANGED store /\ clearLease(l) /\ Return(p)
  <2>1. LeaseStep
    BY <1>1, <1>5, Facts, SameLeases
  <2>2. MapStep /\ \A k \in Leases : k # l => SameMaps(k)
    BY <1>1, <1>5, Facts DEF MapStep, SameMaps, clearLease, TypeOK
  <2>3. \A k \in Secrets : k # l => Untouched(k)
    BY <1>1, <1>5, <2>2, OthersUntouched
  <2> QED BY <1>0, <1>1, <1>5, <2>1, <2>2, <2>3, GivenUpGoto
<1> QED
  BY <1>0, <1>2, <1>3, <1>4, <1>5 DEF revokeDelete, revokeUnindex, revokeClear, Lease

-----------------------------------------------------------------------------
(* The steps of the revocation of a token.                                 *)

\* A step on a token touches no secret.
LEMMA TokenKeeps ==
    ASSUME IInv, WInv, NEW p \in Gs, proc[p].lease \in Tokens,
           NEW x, NEW m, NEW e, NEW s, Moved(p, x, m, e, s), x \notin KnowsAt,
           x = "idle" => m = None, MapStep,
           \A k \in Secrets : Untouched(k),
           UNCHANGED <<jobs, restore, toRestore, status, restarts>>
    PROVE  WInv'
<1>1. PICK l \in Leases : proc[p].lease = l /\ l \notin Secrets
  BY LeaseAssumption DEF Leases
<1>2. LeaseStep
  BY Facts DEF Untouched, LeaseStep, Safety, StoredGranted
<1>3. Knows(p)' /\ x # "markIrrevocable"
  BY PlainKnows DEF KnowsAt
<1> QED BY <1>1, <1>2, <1>3, GivenUpKeeps

\* The places a revocation of a token goes on to.
LEMMA TokenGotoKeeps ==
    ASSUME IInv, WInv, NEW p \in Gs, proc[p].lease \in Tokens,
           NEW x \in {"load", "mark", "byToken", "ownDelete", "ownClear", "deleteToken",
                      "delete", "onFailure", "idle"},
           IF x = "idle" THEN Return(p) ELSE Goto(p, x), MapStep,
           \A k \in Secrets : Untouched(k),
           UNCHANGED <<jobs, restore, toRestore, status, restarts>>
    PROVE  WInv'
<1>1. x \notin KnowsAt /\ x \in Places
  BY DEF KnowsAt, Places
<1>2. CASE x = "idle"
  BY <1>1, <1>2, Facts, ReturnMoves, TokenKeeps
<1>3. CASE x # "idle"
  BY <1>1, <1>3, Facts, GotoMoves, TokenKeeps
<1> QED BY <1>2, <1>3

\* A revocation of a token that fails (tokenFail).
LEMMA tokenFailWatch ==
    ASSUME IInv, WInv, NEW p \in Gs, proc[p].lease \in Tokens, tokenFail(p),
           UNCHANGED <<store, grant, memory, restoreLoaded>>,
           UNCHANGED <<jobs, restore, toRestore, status, restarts>>
    PROVE  WInv'
<1>1. PICK x \in {"delete", "onFailure", "idle"} : IF x = "idle" THEN Return(p) ELSE Goto(p, x)
  BY DEF tokenFail, Fail
<1>2. MapStep /\ \A k \in Secrets : Untouched(k)
  BY DEF MapStep, Untouched
<1> QED BY <1>1, <1>2, TokenGotoKeeps

\* (retryLater)
LEMMA retryLaterWatch ==
    ASSUME IInv, WInv, NEW p \in Gs, proc[p].lease \in Tokens, retryLater(p)
    PROVE  WInv'
BY tokenFailWatch DEF retryLater

\* What a step does to the entry and the grant of a token says nothing of
\* the secrets.
LEMMA TokenUntouched ==
    ASSUME IInv, NEW t \in Tokens,
           \/ UNCHANGED idView \/ deleteEntry(t) \/ \E e \in leaseEntry : persistEntry(t, e),
           UNCHANGED grant \/ \E g : grant' = [grant EXCEPT ![t] = g],
           \A k \in Leases : k # t => SameMaps(k), UNCHANGED tokenView
    PROVE  \A k \in Secrets : Untouched(k)
BY LeaseAssumption, OthersUntouched DEF Leases

\* The steps of revokeInternal before RevokeByToken, and the lease it creates
\* (CreateOrFetchRevocationLeaseByToken).
LEMMA tokenBeginWatch ==
    ASSUME IInv, WInv, NEW p \in Gs,
           createRevocationLease(p) \/ revokeInternal(p) \/ revokeMark(p)
    PROVE  WInv'
<1>0. proc[p].lease \in Tokens
  BY TokenFacts DEF createRevocationLease, revokeInternal, revokeMark, At, RevokesToken, Lease
<1>1. /\ UNCHANGED <<tokenView, memory, restoreLoaded>>
      /\ UNCHANGED <<jobs, restore, toRestore, status, restarts>>
  BY DEF createRevocationLease, revokeInternal, revokeMark
<1>2. MapStep /\ \A k \in Leases : SameMaps(k)
  BY <1>1 DEF MapStep, SameMaps
<1>3. CASE createRevocationLease(p)
  <2>1. [ExpireTime |-> now, RevokeErr |-> FALSE] \in leaseEntry
    BY EntryTypes, Facts DEF TypeOK
  <2>2. /\ UNCHANGED idView \/ \E e \in leaseEntry : persistEntry(proc[p].lease, e)
        /\ UNCHANGED grant
    BY <1>3, <2>1 DEF createRevocationLease, Lease
  <2>3. PICK x \in {"load", "idle"} : IF x = "idle" THEN Return(p) ELSE Goto(p, x)
    BY <1>3 DEF createRevocationLease
  <2>4. \A k \in Secrets : Untouched(k)
    BY <1>0, <1>1, <1>2, <2>2, TokenUntouched
  <2> QED BY <1>0, <1>1, <1>2, <2>3, <2>4, TokenGotoKeeps
<1>4. CASE revokeInternal(p)
  <2>1. UNCHANGED <<idView, grant>>
    BY <1>4 DEF revokeInternal
  <2>2. PICK x \in {"delete", "mark"} : Goto(p, x)
    BY <1>4 DEF revokeInternal
  <2>3. \A k \in Secrets : Untouched(k)
    BY <1>0, <1>1, <1>2, <2>1, TokenUntouched
  <2> QED BY <1>0, <1>1, <1>2, <2>2, <2>3, TokenGotoKeeps
<1>5. CASE revokeMark(p)
  <2>1. UNCHANGED idView
    BY <1>5 DEF revokeMark
  <2>2. CASE tokenFail(p) /\ UNCHANGED grant
    BY <1>0, <1>1, <2>1, <2>2, tokenFailWatch
  <2>3. ASSUME UNCHANGED grant \/ \E g : grant' = [grant EXCEPT ![proc[p].lease] = g],
               NEW x \in {"byToken", "delete"}, Goto(p, x)
        PROVE  WInv'
    <3>1. \A k \in Secrets : Untouched(k)
      BY <1>0, <1>1, <1>2, <2>1, <2>3, TokenUntouched
    <3> QED BY <1>0, <1>1, <1>2, <2>3, <3>1, TokenGotoKeeps
  <2> QED BY <1>5, <2>2, <2>3 DEF revokeMark, Lease
<1> QED BY <1>3, <1>4, <1>5

\* The leases of the token are looked up (RevokeByToken).
LEMMA RevokeByTokenWatch ==
    ASSUME IInv, WInv, NEW p \in Gs, RevokeByToken(p)
    PROVE  WInv'
<1>0. proc[p].lease \in Tokens
  BY TokenFacts DEF RevokeByToken, At, RevokesToken
<1>1. CASE retryLater(p)
  BY <1>0, <1>1, retryLaterWatch
<1>2. CASE /\ proc' = [proc EXCEPT ![p].pc = "expire",
                                   ![p].todo = lookupLeasesByToken(Lease(p))]
           /\ UNCHANGED <<now, store, backends, memory, jobs, restoring, lifetime>>
  <2> DEFINE ls == lookupLeasesByToken(Lease(p))
             g == [proc[p] EXCEPT !.pc = "expire", !.todo = ls]
  <2>1. ls \in SUBSET Secrets
    BY Facts DEF lookupLeasesByToken, TypeOK
  <2>2. proc' = [proc EXCEPT ![p].pc = "expire", ![p].todo = ls]
    BY <1>2
  <2> HIDE DEF ls
  <2>3. proc \in [Gs -> Goroutine] /\ proc[p] \in Goroutine
    BY Facts DEF ProcType
  <2>4. /\ g \in Goroutine /\ g.pc = "expire" /\ g.lease = proc[p].lease
        /\ g.le = proc[p].le /\ g.sub = proc[p].sub
    BY <2>1, <2>3 DEF Goroutine, Places
  <2>5. proc' = [proc EXCEPT ![p] = g]
    BY <2>2, <2>3
  <2> HIDE DEF g
  <2>6. Moved(p, "expire", proc[p].lease, proc[p].le, proc[p].sub)
    BY <2>3, <2>4, <2>5 DEF Moved, ProcType
  <2>7. MapStep /\ \A k \in Secrets : Untouched(k)
    BY <1>2 DEF MapStep, Untouched
  <2>8. UNCHANGED <<jobs, restore, toRestore, status, restarts>>
    BY <1>2
  <2> QED BY <1>0, <2>6, <2>7, <2>8, TokenKeeps DEF KnowsAt
<1> QED BY <1>1, <1>2 DEF RevokeByToken

\* A secret of the token is loaded (RevokeByToken).
LEMMA expireLoadWatch ==
    ASSUME IInv, WInv, NEW p \in Gs, NEW l \in Secrets, expireLoad(p, l)
    PROVE  WInv'
<1>0. proc[p].lease \in Tokens /\ proc[p].lease \notin Secrets /\ proc[p].pc = "expire" /\ l \in Leases
  BY TokenFacts DEF expireLoad, At, RevokesToken, Leases
<1>1. CASE retryLater(p)
  BY <1>0, <1>1, retryLaterWatch
<1> DEFINE x == IF l \in Stored THEN "expireSave" ELSE "expire"
           s == IF l \in Stored THEN l ELSE None
           e == IF l \in Stored THEN [idView[l] EXCEPT !.ExpireTime = now] ELSE None
<1>2. CASE /\ loadEntry(l)
           /\ proc' = [proc EXCEPT ![p].todo = @ \ {l}, ![p].pc = x, ![p].sub = s, ![p].le = e]
           /\ UNCHANGED <<now, store, backends, jobs, restore, toRestore, lifetime>>
  <2>1. /\ x \in Places /\ s \in Secrets \cup {None} /\ x \in {"expire", "expireSave"}
        /\ x = "expireSave" => idView[s] # None
    BY DEF Places, Stored
  <2>2. e \in leaseEntry \cup {None}
    BY StoredEntry, EntryTypes, Facts DEF TypeOK
  <2> HIDE DEF x, s, e
  <2> DEFINE g == [proc[p] EXCEPT !.todo = @ \ {l}, !.pc = x, !.sub = s, !.le = e]
  <2>3. g \in Goroutine /\ g.pc = x /\ g.lease = proc[p].lease /\ g.le = e /\ g.sub = s
    BY <2>1, <2>2, Facts DEF ProcType, Goroutine
  <2>4. proc' = [proc EXCEPT ![p] = g]
    BY <1>2, Facts DEF ProcType, Goroutine
  <2> HIDE DEF g
  <2>5. Moved(p, x, proc[p].lease, e, s)
    BY <2>3, <2>4, Facts DEF Moved, ProcType
  <2>6. Knows(p)'
    BY <1>0, <1>2, <2>1, <2>5 DEF Knows, Moved
  <2>7. Stays(p, l)
    BY <1>0 DEF Stays
  <2>8. UNCHANGED <<store, backends, jobs, restore, toRestore, status, restarts>>
    BY <1>2
  <2> QED BY <1>0, <1>2, <2>1, <2>5, <2>6, <2>7, <2>8, LoadKeeps
<1> QED BY <1>1, <1>2 DEF expireLoad

\* It is written back and set to expire now (RevokeByToken).
LEMMA expireSaveWatch ==
    ASSUME IInv, WInv, NEW p \in Gs, expireSave(p)
    PROVE  WInv'
<1>0. /\ proc[p].lease \in Tokens /\ proc[p].lease \notin Secrets
      /\ proc[p].pc = "expireSave" /\ proc[p].le \in leaseEntry
  BY Facts, TokenFacts DEF expireSave, At, RevokesToken, CarriesEntry, Local
<1>1. PICK l \in Leases :
        /\ proc[p].sub = l /\ l \in Secrets /\ grant[l] # "none"
        /\ grant[l] = "live" => idView[l] # None
  BY <1>0, Facts DEF Local, Leases, WInv, KnowsInv, Knows
<1>2. CASE retryLater(p)
  BY <1>0, <1>2, retryLaterWatch
<1>3. CASE /\ persistEntry(l, proc[p].le) /\ updatePendingInternal(l, proc[p].le)
           /\ proc' = [proc EXCEPT ![p].pc = "expire", ![p].sub = None, ![p].le = None]
           /\ UNCHANGED <<now, tokenView, backends, jobs, restoring, lifetime>>
  <2> DEFINE g == [proc[p] EXCEPT !.pc = "expire", !.sub = None, !.le = None]
  <2>0. proc[p] \in Goroutine
    BY Facts DEF ProcType
  <2>1. /\ g \in Goroutine /\ g.pc = "expire" /\ g.lease = proc[p].lease
        /\ g.le = None /\ g.sub = None
    BY <2>0 DEF Goroutine, Places
  <2>2. proc' = [proc EXCEPT ![p] = g]
    BY <1>3, Facts DEF ProcType, Goroutine
  <2> HIDE DEF g
  <2>3. Moved(p, "expire", proc[p].lease, None, None)
    BY <2>1, <2>2, Facts DEF Moved, ProcType
  <2>4. proc[p].pc \notin {"index", "rollback"} /\ "expire" \notin KnowsAt
    BY <1>0 DEF KnowsAt
  <2>5. UNCHANGED <<tokenView, backends, jobs, restoring, lifetime>>
    BY <1>3
  <2> QED BY <1>0, <1>1, <1>3, <2>3, <2>4, <2>5, WriteBack
<1> QED BY <1>1, <1>2, <1>3 DEF expireSave

\* The token's own lease, and its entry in the token store (revokeInternal).
LEMMA tokenEndWatch ==
    ASSUME IInv, WInv, NEW p \in Gs,
           ownLoad(p) \/ ownDelete(p) \/ ownClear(p) \/ deleteToken(p)
    PROVE  WInv'
<1>0. PICK t \in Tokens : proc[p].lease = t /\ t \in Leases
  BY TokenFacts DEF ownLoad, ownDelete, ownClear, deleteToken, At, RevokesToken
<1>1. CASE retryLater(p)
  BY <1>0, <1>1, retryLaterWatch
<1>2. ASSUME NEW x \in {"ownDelete", "ownClear", "deleteToken", "delete"}, Goto(p, x),
             UNCHANGED idView \/ deleteEntry(t),
             UNCHANGED grant \/ \E g : grant' = [grant EXCEPT ![t] = g],
             MapStep, \A k \in Leases : k # t => SameMaps(k), UNCHANGED tokenView,
             UNCHANGED <<jobs, restore, toRestore, status, restarts>>
      PROVE  WInv'
  <2>1. \A k \in Secrets : Untouched(k)
    BY <1>2, TokenUntouched
  <2> QED BY <1>0, <1>2, <2>1, TokenGotoKeeps
<1>3. CASE ownLoad(p) /\ ~retryLater(p)
  <2>1. /\ loadEntry(t)
        /\ UNCHANGED <<store, grant>> /\ UNCHANGED <<jobs, restore, toRestore, status, restarts>>
    BY <1>0, <1>3 DEF ownLoad, Lease
  <2>2. PICK x \in {"ownDelete", "deleteToken"} : Goto(p, x)
    BY <1>3 DEF ownLoad
  <2>3. MapStep /\ \A k \in Leases : k # t => SameMaps(k)
    BY <1>0, <2>1, Facts, loadMap, loadEffect
  <2> QED BY <1>2, <2>1, <2>2, <2>3
<1>4. CASE ownDelete(p) /\ ~retryLater(p)
  <2>1. /\ deleteEntry(t) /\ Goto(p, "ownClear") /\ UNCHANGED memory
        /\ UNCHANGED <<tokenView, grant, restoreLoaded>>
        /\ UNCHANGED <<jobs, restore, toRestore, status, restarts>>
    BY <1>0, <1>4 DEF ownDelete, Lease
  <2>2. MapStep /\ \A k \in Leases : k # t => SameMaps(k)
    BY <2>1 DEF MapStep, SameMaps
  <2> QED BY <1>2, <2>1, <2>2
<1>5. CASE ownClear(p)
  <2>1. /\ clearLease(t) /\ Goto(p, "deleteToken")
        /\ UNCHANGED <<store, grant, restoreLoaded>>
        /\ UNCHANGED <<jobs, restore, toRestore, status, restarts>>
    BY <1>0, <1>5 DEF ownClear, Lease
  <2>2. MapStep /\ \A k \in Leases : k # t => SameMaps(k)
    BY <1>0, <2>1, Facts DEF MapStep, SameMaps, clearLease, TypeOK
  <2> QED BY <1>2, <2>1, <2>2
<1>6. CASE deleteToken(p) /\ ~retryLater(p)
  <2>1. /\ grant' = [grant EXCEPT ![t] = "revoked"] /\ Goto(p, "delete")
        /\ UNCHANGED <<store, memory, restoreLoaded>>
        /\ UNCHANGED <<jobs, restore, toRestore, status, restarts>>
    BY <1>0, <1>6 DEF deleteToken, Lease
  <2>2. MapStep /\ \A k \in Leases : k # t => SameMaps(k)
    BY <2>1 DEF MapStep, SameMaps
  <2> QED BY <1>2, <2>1, <2>2
<1> QED BY <1>1, <1>3, <1>4, <1>5, <1>6

-----------------------------------------------------------------------------
(* The timers, the jobs and the life of the manager.                       *)

\* A goroutine that registers nothing lets go of k, which something else
\* watches.
LEMMA ReleaseKeeps ==
    ASSUME NEW p \in Gs, NEW k \in Secrets, Good(k), proc[p].pc \notin Registers,
           \A q \in Gs : q # p => proc'[q] = proc[q],
           UNCHANGED <<idView, restoring>>,
           k \in irrevocable => k \in irrevocable',
           pending[k] # None => pending'[k] # None,
           Armed(k)' \/ k \in irrevocable' \/ InFlight(k, Registers) \/ Unseen(k)
    PROVE  Good(k)'
<1>1. InFlight(k, Registers) => InFlight(k, Registers)'
  BY DEF InFlight, Gs
<1>2. (Marked(k) => Marked(k)') /\ (Unseen(k) => Unseen(k)')
  BY DEF Marked, Unseen, Registers
<1>3. Kept(k)'
  BY <1>1, <1>2 DEF Good, Kept
<1>4. MarkKept(k)'
  BY <1>2 DEF Good, MarkKept
<1>5. WatchKept(k)'
  BY <1>1, <1>2 DEF WatchKept
<1> QED BY <1>3, <1>4, <1>5 DEF Good

\* OnFailure of a lease that is not in pending: it is irrevocable, or still
\* to be set up.
LEMMA onFailureGoneWatch ==
    ASSUME IInv, WInv, NEW w \in Workers, onFailureGone(w)
    PROVE  WInv'
<1>0. PICK l \in Leases :
        w \in Gs /\ proc[w].lease = l /\ proc[w].pc = "onFailure" /\ pending[l] = None
  BY Facts DEF onFailureGone, At, Local, Lease, Pending, Gs
<1>1. /\ UNCHANGED <<store, grant, memory, restoring>> /\ Return(w)
      /\ UNCHANGED <<jobs, restore, toRestore, status, restarts>>
  BY DEF onFailureGone
<1>2. Moved(w, "idle", None, None, None)
  BY <1>0, <1>1, Facts, ReturnMoves
<1>3. Knows(w)' /\ MapStep /\ LeaseStep /\ \A q \in Gs : q # w => proc'[q] = proc[q]
  BY <1>0, <1>1, <1>2, Facts, SameLeases, PlainKnows DEF KnowsAt, MapStep, Moved
<1>4. \A k \in Secrets : k # l => Untouched(k)
  BY <1>1 DEF Untouched
<1>5. CalmIndex(w, l) /\ proc[w].lease \notin Secrets \ {l} /\ proc[w].pc \notin Registers
  BY <1>0, <1>1 DEF CalmIndex, Registers
<1>6. Claimed /\ l \in Secrets /\ grant'[l] = "live" => Good(l)'
  <2> SUFFICES ASSUME Claimed, l \in Secrets, grant[l] = "live" PROVE Good(l)'
    BY <1>1
  <2>1. Good(l)
    BY DEF WInv, GoodInv
  <2>2. l \in irrevocable \/ InFlight(l, Registers) \/ Unseen(l)
    BY <1>0, <2>1 DEF Good, Kept
  <2> QED BY <1>0, <1>1, <1>3, <1>5, <2>1, <2>2, ReleaseKeeps
<1>7. w \in Gs /\ UNCHANGED <<jobs, restore, toRestore, status, restarts>>
  BY <1>0, <1>1
<1> QED BY <1>2, <1>3, <1>4, <1>5, <1>6, <1>7, OneLease

\* OnFailure resets the timer.
LEMMA onFailureRetryWatch ==
    ASSUME IInv, WInv, NEW w \in Workers, onFailureRetry(w)
    PROVE  WInv'
<1>0. PICK l \in Leases :
        w \in Gs /\ proc[w].lease = l /\ proc[w].pc = "onFailure" /\ pending[l] \in pendingInfo
  BY Facts DEF onFailureRetry, At, Local, Lease, Pending, Gs, TypeOK
<1> DEFINE i == [timer |-> now, revokesAttempted |-> pending[l].revokesAttempted + 1]
<1>1. /\ UNCHANGED <<store, grant, irrevocable, leaseCount, pendingLock, restoring>> /\ Return(w)
      /\ UNCHANGED <<jobs, restore, toRestore, status, restarts>>
      /\ pending' = [pending EXCEPT ![l] = i]
  BY <1>0, Facts DEF onFailureRetry, Lease, TypeOK
<1>2. i \in pendingInfo /\ i.timer # Off
  BY <1>0, Facts DEF pendingInfo, TypeOK, Off
<1> HIDE DEF i
<1>3. Moved(w, "idle", None, None, None)
  BY <1>0, <1>1, Facts, ReturnMoves
<1>4. /\ pending'[l] = i /\ i # None
      /\ \A k \in Leases : k # l => pending'[k] = pending[k]
      /\ pending[l] # None
  BY <1>0, <1>1, <1>2, Facts, NoneAssumption DEF TypeOK
<1>5. Pending' = Pending
  BY <1>4 DEF Pending
<1>6. Knows(w)' /\ MapStep /\ LeaseStep /\ \A q \in Gs : q # w => proc'[q] = proc[q]
  BY <1>0, <1>1, <1>3, <1>5, Facts, SameLeases, PlainKnows DEF KnowsAt, MapStep, Moved
<1>7. \A k \in Secrets : k # l => Untouched(k)
  BY <1>1, <1>4 DEF Untouched, Leases
<1>8. CalmIndex(w, l) /\ proc[w].lease \notin Secrets \ {l} /\ proc[w].pc \notin Registers
  BY <1>0, <1>1 DEF CalmIndex, Registers
<1>9. Claimed /\ l \in Secrets /\ grant'[l] = "live" => Good(l)'
  <2> SUFFICES ASSUME Claimed, l \in Secrets, grant[l] = "live" PROVE Good(l)'
    BY <1>1
  <2>1. Good(l)
    BY DEF WInv, GoodInv
  <2>2. Armed(l)'
    BY <1>2, <1>4 DEF Armed
  <2> QED BY <1>0, <1>1, <1>4, <1>6, <1>8, <2>1, <2>2, ReleaseKeeps
<1>10. w \in Gs /\ UNCHANGED <<jobs, restore, toRestore, status, restarts>>
  BY <1>0, <1>1
<1> QED BY <1>3, <1>6, <1>7, <1>8, <1>9, <1>10, OneLease

\* OnFailure takes pendingLock and loads the lease; a lease that is gone is
\* registered by another goroutine or given up, and one that is stored as
\* irrevocable is in the map or about to be.
LEMMA onFailureLoadWatch ==
    ASSUME IInv, WInv, NEW w \in Workers, onFailureLoad(w)
    PROVE  WInv'
<1>0. PICK l \in Leases :
        /\ w \in Gs /\ proc[w].lease = l /\ proc[w].pc = "onFailure" /\ l \in Pending
        /\ pendingLock = None
  BY Facts DEF onFailureLoad, At, Local, Lease, Gs
<1>1. /\ UNCHANGED <<store, grant, maps, restoring>>
      /\ UNCHANGED <<jobs, restore, toRestore, status, restarts>>
  BY DEF onFailureLoad
<1>2. LeaseStep /\ \A k \in Secrets : k # l => Untouched(k)
  BY <1>1, Facts, SameLeases DEF Untouched
<1>3. CalmIndex(w, l) /\ proc[w].lease \notin Secrets \ {l} /\ proc[w].pc \notin Registers
  BY <1>0, <1>1 DEF CalmIndex, Registers
<1>4. CASE /\ l \in Stored /\ pendingLock' = w
           /\ Begin(w, "markIrrevocable", l, idView[l])
  <2>1. Moved(w, "markIrrevocable", l, idView[l], None)
    BY <1>0, <1>4, Facts, StoredEntry, BeginMoves DEF Places
  <2>2. /\ \A q \in Gs : q # w => proc'[q] = proc[q]
        /\ proc'[w].pc = "markIrrevocable" /\ proc'[w].lease = l
    BY <2>1 DEF Moved
  <2>3. Knows(w)'
    BY <1>1, <1>4, <2>2 DEF Knows, Stored
  <2>4. Pending' = Pending
    BY <1>1 DEF Pending
  <2>5. LockInv'
    BY <1>0, <1>4, <2>2, <2>4, ProcAssumption DEF WInv, LockInv, Locked
  <2>6. LeaseCountCovers'
    BY <1>1, <2>4 DEF WInv, LeaseCountCovers
  <2>7. Calm(w, l)
    BY <1>1, <1>3, <2>2 DEF Calm, Stays, Registers
  <2> QED BY <1>0, <1>1, <1>2, <1>3, <2>2, <2>3, <2>5, <2>6, <2>7, OneLeaseMoves
<1>5. CASE /\ StorageFault \/ l \notin Stored \/ (l \in Stored /\ isIrrevocable(idView[l]))
           /\ Return(w) /\ UNCHANGED pendingLock
  <2>1. Moved(w, "idle", None, None, None)
    BY <1>0, <1>5, Facts, ReturnMoves
  <2>2. Knows(w)' /\ MapStep /\ \A q \in Gs : q # w => proc'[q] = proc[q]
    BY <1>0, <1>1, <1>5, <2>1, PlainKnows DEF KnowsAt, MapStep, Moved
  <2>3. Claimed /\ l \in Secrets /\ grant'[l] = "live" => Good(l)'
    <3> SUFFICES ASSUME Claimed, l \in Secrets, grant[l] = "live" PROVE Good(l)'
      BY <1>1
    <3>1. Good(l)
      BY DEF WInv, GoodInv
    <3>2. CASE idView[l] = None
      BY <1>0, <1>1, <2>2, <3>2, OtherRegisters
    <3>3. CASE idView[l] # None /\ idView[l].RevokeErr
      <4>1. l \in irrevocable \/ Marked(l) \/ Unseen(l)
        BY <3>1, <3>3 DEF Good, MarkKept
      <4>2. Marked(l) => InFlight(l, Registers)
        BY DEF Marked, InFlight, Registers, Gs
      <4> QED BY <1>0, <1>1, <1>3, <2>2, <3>1, <4>1, <4>2, ReleaseKeeps
    <3> QED BY <1>5, <3>2, <3>3 DEF Claimed, Stored, isIrrevocable
  <2>4. w \in Gs /\ UNCHANGED <<jobs, restore, toRestore, status, restarts>>
    BY <1>0, <1>1
  <2> QED BY <1>2, <1>3, <2>1, <2>2, <2>3, <2>4, OneLease
<1> QED BY <1>0, <1>4, <1>5 DEF onFailureLoad, Lease

\* The lease is marked irrevocable: it moves from one map to the other and
\* is counted once (markLeaseIrrevocable).
LEMMA markWatch ==
    ASSUME IInv, WInv, NEW w \in Workers, markLeaseIrrevocable(w)
    PROVE  WInv'
<1>0. PICK l \in Leases :
        /\ w \in Gs /\ proc[w].lease = l /\ proc[w].pc = "markIrrevocable"
        /\ proc[w].le \in leaseEntry /\ l \in Pending /\ pendingLock = w
        /\ l \in Secrets => grant[l] # "none" /\ (grant[l] = "live" => idView[l] # None)
  BY Facts DEF markLeaseIrrevocable, At, Local, CarriesEntry, Granted, Gs,
               WInv, KnowsInv, Knows, LockInv, Locked
<1>1. /\ irrevocable' = irrevocable \cup {l} /\ pending' = [pending EXCEPT ![l] = None]
      /\ UNCHANGED <<tokenView, grant, leaseCount, restoring>> /\ Return(w)
      /\ UNCHANGED <<jobs, restore, toRestore, status, restarts>>
  BY <1>0 DEF markLeaseIrrevocable, Lease
<1>2. UNCHANGED idView \/ \E f \in leaseEntry : persistEntry(l, f)
  BY <1>0, EntryTypes DEF markLeaseIrrevocable, Lease
<1>3. LeaseStep
  BY <1>0, <1>1, <1>2, Facts, SameLeases, PersistGranted
<1>4. Moved(w, "idle", None, None, None)
  BY <1>0, <1>1, Facts, ReturnMoves
<1>5. Knows(w)' /\ proc'[w].pc = "idle" /\ \A q \in Gs : q # w => proc'[q] = proc[q]
  BY <1>0, <1>4, PlainKnows DEF KnowsAt, Moved
<1>6. \A k \in Leases : k # l => SameMaps(k)
  BY <1>1, Facts DEF SameMaps, TypeOK
<1>7. \A k \in Secrets : k # l => Untouched(k)
  BY <1>1, <1>2, <1>6, OthersUntouched
<1>8. LockInv'
  BY <1>0, <1>5 DEF WInv, LockInv, Locked
<1>9. LeaseCountCovers'
  <2>1. Pending' = Pending \ {l}
    BY <1>1, Facts, PendingLess
  <2>0. IsFiniteSet(Pending) /\ IsFiniteSet(irrevocable)
    BY Facts, FiniteMaps
  <2>2. /\ Cardinality(Pending) \in Nat /\ Cardinality(irrevocable) \in Nat
        /\ Cardinality(Pending \ {l}) = Cardinality(Pending) - One(l \in Pending)
        /\ Cardinality(irrevocable \cup {l}) = Cardinality(irrevocable) + One(l \notin irrevocable)
    BY <2>0, Cards
  <2>3. leaseCount >= Cardinality(Pending) + Cardinality(irrevocable)
    BY DEF WInv, LeaseCountCovers
  <2>4. leaseCount \in Int /\ leaseCount' = leaseCount /\ irrevocable' = irrevocable \cup {l}
    BY <1>1, Facts, FiniteMaps
  <2> QED BY <1>0, <2>1, <2>2, <2>3, <2>4 DEF LeaseCountCovers, One
<1>10. l \in Secrets => Good(l)'
  BY <1>1, Settled
<1>11. l \in Secrets /\ grant'[l] = "live" => CalmIndex(w, l)
  BY <1>0, <1>1 DEF CalmIndex
<1>12. proc[w].lease \notin Secrets \ {l}
  BY <1>0
<1> QED
  BY <1>0, <1>1, <1>3, <1>5, <1>7, <1>8, <1>9, <1>10, <1>11, <1>12, OneLeaseMoves

\* A step that moves no goroutine and touches no entry, grant or index.
LEMMA StillKeeps ==
    ASSUME WInv, UNCHANGED <<proc, grant, idView, tokenView, restarts>>,
           LockInv', LeaseCountCovers', GoodInv'
    PROVE  WInv'
<1>1. KnowsInv'
  BY DEF WInv, KnowsInv, Knows
<1>2. IndexInv'
  BY DEF WInv, IndexInv, Indexed, InFlight
<1> QED BY <1>1, <1>2 DEF WInv

\* The maps do not change, or only a timer does (expireLease).
LEMMA SamePending ==
    ASSUME WInv, UNCHANGED <<proc, irrevocable, leaseCount, pendingLock>>, Pending' = Pending
    PROVE  LockInv' /\ LeaseCountCovers'
BY DEF WInv, LockInv, Locked, LeaseCountCovers

\* A timer that fires leaves a job behind (expireLeaseStrategyFairsharing).
LEMMA expireLeaseWatch ==
    ASSUME IInv, WInv, NEW l \in Leases, expireLease(l)
    PROVE  WInv'
<1>1. /\ UNCHANGED <<proc, irrevocable, leaseCount, pendingLock, restoring>>
      /\ UNCHANGED <<grant, idView, tokenView, restarts, status>>
  BY DEF expireLease
<1> DEFINE i == [pending[l] EXCEPT !.timer = Off]
<1>2. pending[l] \in pendingInfo /\ pending[l] # None /\ pending' = [pending EXCEPT ![l] = i]
  BY Facts DEF expireLease, Pending, TypeOK
<1>3. i \in pendingInfo
  BY <1>2 DEF pendingInfo, Off
<1> HIDE DEF i
<1>4. pending'[l] # None /\ \A k \in Leases : k # l => pending'[k] = pending[k]
  BY <1>2, <1>3, Facts, NoneAssumption DEF TypeOK
<1>5. jobs'[l] > 0 /\ \A k \in Leases : k # l => jobs'[k] = jobs[k]
  BY Facts DEF expireLease, TypeOK
<1>6. Pending' = Pending
  BY <1>2, <1>4 DEF Pending
<1>7. GoodInv'
  <2> SUFFICES ASSUME Claimed', NEW k \in Secrets, grant'[k] = "live" PROVE Good(k)'
    BY DEF GoodInv
  <2>1. Good(k) /\ k \in Leases
    BY <1>1 DEF WInv, GoodInv, Claimed, StorageFault, Leases
  <2>2. /\ InFlight(k, Registers)' = InFlight(k, Registers) /\ Marked(k)' = Marked(k)
        /\ Unseen(k)' = Unseen(k)
    BY <1>1 DEF InFlight, Marked, Unseen
  <2>3. Kept(k)' /\ MarkKept(k)'
    BY <1>1, <1>2, <1>4, <2>1, <2>2 DEF Good, Kept, MarkKept
  <2>4. WatchKept(k)'
    BY <1>1, <1>4, <1>5, <2>1, <2>2 DEF Good, WatchKept, Armed
  <2> QED BY <2>3, <2>4 DEF Good
<1> QED BY <1>1, <1>6, <1>7, SamePending, StillKeeps

\* A job that leaves the queue has its worker (Execute).
LEMMA ExecuteWatch ==
    ASSUME IInv, WInv, NEW w \in Workers, NEW l \in Leases, Execute(w, l)
    PROVE  WInv'
<1>0. w \in Gs /\ proc[w].pc = "idle"
  BY DEF Gs, Execute, At
<1>1. /\ UNCHANGED <<store, grant, memory, restoring>> /\ UNCHANGED <<restarts, status>>
      /\ Begin(w, "load", l, None)
  BY DEF Execute
<1>2. Moved(w, "load", l, None, None)
  BY <1>0, <1>1, Facts, BeginMoves DEF Places
<1>3. /\ \A q \in Gs : q # w => proc'[q] = proc[q]
      /\ proc'[w].pc = "load" /\ proc'[w].lease = l
  BY <1>2 DEF Moved
<1>4. \A k \in Leases : k # l => jobs'[k] = jobs[k]
  BY Facts DEF Execute, TypeOK
<1>5. KnowsInv'
  <2>1. LeaseStep /\ Knows(w)'
    BY <1>0, <1>1, <1>2, Facts, SameLeases, PlainKnows DEF KnowsAt
  <2> QED BY <1>0, <1>3, <2>1, OthersKnow DEF WInv, KnowsInv
<1>6. LockInv' /\ LeaseCountCovers'
  BY <1>0, <1>1, <1>3, Facts, MapKeeps DEF WInv, MapStep
<1>7. GoodInv'
  <2> SUFFICES ASSUME Claimed', NEW k \in Secrets, grant'[k] = "live" PROVE Good(k)'
    BY DEF GoodInv
  <2>1. Good(k) /\ k \in Leases
    BY <1>1 DEF WInv, GoodInv, Claimed, StorageFault, Leases
  <2>2. InFlight(k, Registers) => InFlight(k, Registers)'
    BY <1>0, <1>3 DEF InFlight, Registers, Gs
  <2>3. (Marked(k) => Marked(k)') /\ (Unseen(k) => Unseen(k)') /\ (Armed(k) => Armed(k)')
    BY <1>0, <1>1, <1>3 DEF Marked, Unseen, Armed
  <2>4. Kept(k)' /\ MarkKept(k)'
    BY <1>1, <2>1, <2>2, <2>3 DEF Good, Kept, MarkKept
  <2>5. CASE k = l
    <3>1. WatchKept(k)'
      BY <1>3, <2>5 DEF WatchKept
    <3> QED BY <2>4, <3>1 DEF Good
  <2>6. CASE k # l
    <3>1. (\E v \in Workers : proc[v].lease = k /\ v # w) => \E v \in Workers : proc'[v].lease = k
      BY <1>3 DEF Gs
    <3>2. proc[w].lease # k
      BY <1>0, <2>1, LeaseAssumption DEF WInv, KnowsInv, Knows
    <3>3. WatchKept(k)'
      BY <1>1, <1>4, <2>1, <2>2, <2>3, <2>6, <3>1, <3>2 DEF Good, WatchKept
    <3> QED BY <2>4, <3>3 DEF Good
  <2> QED BY <2>5, <2>6
<1>8. IndexInv'
  <2> SUFFICES ASSUME restarts' = 0, NEW k \in Secrets, grant'[k] = "live" PROVE Indexed(k)'
    BY DEF IndexInv
  <2>1. Indexed(k) /\ CalmIndex(w, k)
    BY <1>0, <1>1 DEF WInv, IndexInv, CalmIndex
  <2> QED BY <1>0, <1>3, <2>1, CalmIndexKeeps
<1> QED BY <1>5, <1>6, <1>7, <1>8 DEF WInv

\* Restore: what it has not come to is unseen, and what it passes over was
\* set up by the request that loaded it.
LEMMA RestoringWatch ==
    ASSUME IInv, WInv, Restoring
    PROVE  WInv'
<1>0. UNCHANGED <<proc, grant, idView, tokenView, restarts, jobs>>
  BY DEF Restoring, collectLeases, processRestore, restoreDone, restoreAbort
<1>1. ASSUME NEW k
      PROVE  /\ InFlight(k, Registers)' = InFlight(k, Registers)
             /\ Marked(k)' = Marked(k)
             /\ (\E w \in Workers : proc'[w].lease = k) = (\E w \in Workers : proc[w].lease = k)
  BY <1>0 DEF InFlight, Marked
<1>3. ASSUME UNCHANGED <<memory, status>>,
             \A k \in Secrets : grant[k] = "live" /\ Unseen(k) => Unseen(k)' \/ idView[k] = None
      PROVE  WInv'
  <2>1. GoodInv'
    <3> SUFFICES ASSUME Claimed', NEW k \in Secrets, grant'[k] = "live" PROVE Good(k)'
      BY DEF GoodInv
    <3>1. Good(k) /\ grant[k] = "live" /\ (Armed(k) => Armed(k)')
      BY <1>0, <1>3 DEF WInv, GoodInv, Claimed, StorageFault, Armed
    <3>2. CASE idView[k] = None
      <4>1. InFlight(k, {"persist", "rollback"})
        BY <3>1, <3>2, Facts DEF Safety, LiveSecretTracked, Stored
      <4>2. InFlight(k, Registers)'
        BY <1>1, <4>1 DEF InFlight, Registers
      <4> QED BY <1>0, <3>2, <4>2 DEF Good, Kept, MarkKept, WatchKept
    <3>3. CASE idView[k] # None
      <4>1. Unseen(k) => Unseen(k)'
        BY <1>3, <3>1, <3>3
      <4>2. Kept(k)' /\ MarkKept(k)'
        BY <1>0, <1>1, <1>3, <3>1, <4>1 DEF Good, Kept, MarkKept
      <4>3. WatchKept(k)'
        BY <1>0, <1>1, <1>3, <3>1, <4>1 DEF Good, WatchKept
      <4> QED BY <4>2, <4>3 DEF Good
    <3> QED BY <3>2, <3>3
  <2>2. LockInv' /\ LeaseCountCovers'
    BY <1>0, <1>3, SamePending DEF Pending
  <2> QED BY <1>0, <2>1, <2>2, StillKeeps
<1>4. CASE collectLeases
  BY <1>3, <1>4 DEF collectLeases, Unseen, Stored, Leases
<1>5. CASE restoreDone
  BY <1>3, <1>5 DEF restoreDone, Unseen
<1>6. CASE restoreAbort
  <2>1. ~Claimed' /\ UNCHANGED memory
    BY <1>6 DEF restoreAbort, Claimed, StorageFault
  <2>2. LockInv' /\ LeaseCountCovers'
    BY <2>1, <1>0, SamePending DEF Pending
  <2> QED BY <1>0, <2>1, <2>2, StillKeeps DEF GoodInv
<1>7. ASSUME NEW l \in Leases, processRestore(l) PROVE WInv'
  <2>1. /\ loadEntry(l) /\ restore = "load" /\ restore' = "load" /\ toRestore' = toRestore \ {l}
        /\ UNCHANGED status
    BY <1>7 DEF processRestore
  <2>2. LockInv' /\ LeaseCountCovers'
    <3>1. MapStep
      BY <2>1, Facts, loadMap
    <3>2. ASSUME UNCHANGED memory \/ (Pending' = Pending
                    /\ UNCHANGED <<irrevocable, leaseCount, pendingLock>>)
          PROVE  LockInv' /\ LeaseCountCovers'
      BY <1>0, <3>2, SamePending DEF Pending
    <3>3. ASSUME pendingLock = None PROVE LockInv'
      BY <1>0, <3>3, ProcAssumption DEF WInv, LockInv, Locked
    <3>4. ASSUME NEW k \in Leases, NEW e \in leaseEntry, updatePendingInternal(k, e)
          PROVE  LockInv' /\ LeaseCountCovers'
      BY <3>3, <3>4, Facts, updateEffect, updateCount DEF WInv
    <3>5. ASSUME NEW k \in Leases, clearLease(k) PROVE LockInv' /\ LeaseCountCovers'
      BY <3>3, <3>5, Facts, clearCount DEF WInv, clearLease
    <3> QED BY <3>1, <3>2, <3>4, <3>5 DEF MapStep
  <2>3. GoodInv'
    <3> SUFFICES ASSUME Claimed', NEW k \in Secrets, grant'[k] = "live" PROVE Good(k)'
      BY DEF GoodInv
    <3>1. Good(k) /\ grant[k] = "live" /\ k \in Leases
      BY <1>0, <2>1 DEF WInv, GoodInv, Claimed, StorageFault, Leases
    <3>2. ASSUME SameMaps(k), Unseen(k) => Unseen(k)' PROVE Good(k)'
      <4>1. Kept(k)' /\ MarkKept(k)'
        BY <1>0, <1>1, <3>1, <3>2 DEF Good, Kept, MarkKept, SameMaps
      <4>2. WatchKept(k)'
        BY <1>0, <1>1, <3>1, <3>2 DEF Good, WatchKept, SameMaps, Armed
      <4> QED BY <4>1, <4>2 DEF Good
    <3>3. CASE k # l
      <4>1. SameMaps(k)
        BY <2>1, <3>1, <3>3, Facts, loadEffect
      <4>2. Unseen(k) => Unseen(k)'
        BY <2>1, <3>3, <4>1 DEF Unseen, SameMaps
      <4> QED BY <3>2, <4>1, <4>2
    <3>4. CASE k = l /\ SameMaps(l) /\ l \in restoreLoaded
      BY <3>2, <3>4 DEF Unseen
    <3>5. CASE k = l /\ SameMaps(l) /\ idView[l] = None
      <4>1. InFlight(k, {"persist", "rollback"})
        BY <3>1, <3>5, Facts DEF Safety, LiveSecretTracked, Stored
      <4>2. InFlight(k, Registers)'
        BY <1>1, <4>1 DEF InFlight, Registers
      <4> QED BY <1>0, <3>5, <4>2 DEF Good, Kept, MarkKept, WatchKept
    <3>6. CASE /\ k = l /\ (Armed(l)' \/ l \in irrevocable')
               /\ idView[l].RevokeErr => l \in irrevocable'
      BY <1>0, <3>6, Settled
    <3> QED
      BY <2>1, <3>3, <3>4, <3>5, <3>6, Facts, loadEffect DEF restoreMode
  <2> QED BY <1>0, <2>2, <2>3, StillKeeps
<1> QED BY <1>4, <1>5, <1>6, <1>7 DEF Restoring

\* A manager with empty maps counts no lease (NewExpirationManager).
LEMMA EmptyMaps ==
    ASSUME pending' = [l \in Leases |-> None], irrevocable' = {}, leaseCount' = 0
    PROVE  LeaseCountCovers'
<1>1. Pending' = {}
  BY DEF Pending
<1> QED BY <1>1, FS_EmptySet DEF LeaseCountCovers

\* Stop empties the maps, and LiveSecretWatched is not claimed any more.
LEMMA StopWatch ==
    ASSUME IInv, WInv, Stop
    PROVE  WInv'
<1>1. LeaseCountCovers' /\ ~Claimed'
  BY EmptyMaps DEF Stop, Claimed
<1>2. LockInv'
  BY ProcAssumption DEF Stop, WInv, LockInv, Locked
<1>3. UNCHANGED <<proc, grant, idView, tokenView, restarts>>
  BY DEF Stop
<1> QED BY <1>1, <1>2, <1>3, StillKeeps DEF GoodInv

\* After a restart Restore comes to every lease.
LEMMA RestartWatch ==
    ASSUME IInv, Restart
    PROVE  WInv'
<1>1. proc' = [p \in Gs |-> Idle]
  BY DEF Restart, Gs
<1>2. KnowsInv' /\ LockInv'
  BY <1>1, IdleType, LeaseAssumption DEF KnowsInv, Knows, LockInv, Locked, Leases
<1>3. LeaseCountCovers'
  BY EmptyMaps DEF Restart
<1>4. \A l \in Secrets : Good(l)'
  BY DEF Restart, Good, Kept, MarkKept, WatchKept, Unseen
<1>5. restarts' # 0
  BY Facts, BoundAssumption DEF Restart, TypeOK
<1> QED BY <1>2, <1>3, <1>4, <1>5 DEF WInv, GoodInv, IndexInv

\* The clock only moves the clock, and a stutter nothing (Tick).
LEMMA TickWatch ==
    ASSUME WInv, Tick \/ UNCHANGED vars
    PROVE  WInv'
<1>1. /\ UNCHANGED <<proc, grant, idView, tokenView, restarts>> /\ UNCHANGED memory
      /\ UNCHANGED <<jobs, status, restoring>>
  BY DEF Tick, vars
<1>2. LockInv' /\ LeaseCountCovers'
  BY <1>1, SamePending DEF Pending
<1>3. ASSUME NEW k PROVE Good(k)' = Good(k)
  BY <1>1 DEF Good, Kept, MarkKept, WatchKept, InFlight, Marked, Unseen, Armed
<1>4. GoodInv'
  BY <1>1, <1>3 DEF WInv, GoodInv, Claimed, StorageFault
<1> QED BY <1>1, <1>2, <1>4, StillKeeps

-----------------------------------------------------------------------------

\* WInv holds initially (NewExpirationManager).
LEMMA InitWInv == Init => WInv
<1> SUFFICES ASSUME Init PROVE WInv
  OBVIOUS
<1>1. proc = [p \in Gs |-> Idle]
  BY DEF Init, Gs
<1>2. KnowsInv /\ LockInv
  BY <1>1, IdleType, LeaseAssumption DEF KnowsInv, Knows, LockInv, Locked, Leases
<1>3. LeaseCountCovers
  <2>1. Pending = {}
    BY DEF Pending, Init, NewExpirationManager
  <2> QED BY <2>1, FS_EmptySet DEF LeaseCountCovers, Init, NewExpirationManager
<1>4. GoodInv /\ IndexInv
  BY DEF Init, GoodInv, IndexInv, Leases
<1> QED BY <1>2, <1>3, <1>4 DEF WInv

\* Every step of a request or a job keeps WInv (Steps).
LEMMA StepsWatch ==
    ASSUME IInv, WInv, NEW p \in Gs, Steps(p)
    PROVE  WInv'
BY RegisterPersistWatch, RegisterIndexWatch, updatePendingWatch, RollbackWatch,
   renewEntryWatch, saveEntryWatch, tokenBeginWatch, revokeLoadWatch, revokeEntryWatch,
   revokeEndWatch, RevokeByTokenWatch, expireLoadWatch, expireSaveWatch, tokenEndWatch
   DEF Steps

\* Every step keeps WInv (Next).
LEMMA NextWInv == IInv /\ WInv /\ [Next]_vars => WInv'
<1> SUFFICES ASSUME IInv, WInv, [Next]_vars PROVE WInv'
  OBVIOUS
<1>1. ASSUME NEW p \in Procs, Requests(p) PROVE WInv'
  BY <1>1, RequestsWatch
<1>2. ASSUME NEW p \in Gs, Steps(p) PROVE WInv'
  BY <1>2, StepsWatch
<1>3. ASSUME NEW w \in Workers, OnFailure(w) PROVE WInv'
  BY <1>3, onFailureGoneWatch, onFailureRetryWatch, onFailureLoadWatch, markWatch DEF OnFailure
<1>4. ASSUME NEW l \in Leases, expireLease(l) PROVE WInv'
  BY <1>4, expireLeaseWatch
<1>5. ASSUME NEW w \in Workers, NEW l \in Leases, Execute(w, l) PROVE WInv'
  BY <1>5, ExecuteWatch
<1>6. CASE Restoring \/ Stop \/ Restart
  BY <1>6, RestoringWatch, StopWatch, RestartWatch
<1>7. CASE Tick \/ UNCHANGED vars
  BY <1>7, TickWatch
<1> QED BY <1>1, <1>2, <1>3, <1>4, <1>5, <1>6, <1>7 DEF Next, Gs

\* The two inductive invariants of the expiration manager, for any leases,
\* requests, workers, faults and restarts.
THEOREM WatchInvariant == Spec => [](IInv /\ WInv)
BY InitIInv, NextIInv, InitWInv, NextWInv, PTL DEF Spec

\* The index by token lists every live secret of the token once Register is
\* past createIndexByToken, whatever storage and backends refuse, until the
\* first restart: only what is given up is taken out of the index.
THEOREM IndexSafety == Spec => []LiveSecretIndexed
<1>1. WInv => LiveSecretIndexed
  BY DEF WInv, IndexInv, Indexed, LiveSecretIndexed, Stored, Leases
<1> QED BY <1>1, WatchInvariant, PTL

\* While the manager is active and storage does not fail, a live secret
\* always has an armed timer, a job, a worker, a registration in progress, a
\* place in the irrevocable map, or Restore still before it: no interleaving
\* of timers, failed jobs, renewals, loads and restarts forgets it.
THEOREM WatchSafety ==
    ASSUME "storage" \notin Faults
    PROVE  Spec => []LiveSecretWatched
<1>1. WInv => LiveSecretWatched
  <2> SUFFICES ASSUME WInv, status = "active", NEW l \in Secrets, grant[l] = "live"
               PROVE  Watched(l)
    BY DEF LiveSecretWatched
  <2>1. WatchKept(l) /\ l \in Leases
    BY DEF WInv, GoodInv, Claimed, StorageFault, Good, Leases
  <2> QED
    BY <2>1 DEF WatchKept, Watched, Armed, Pending, Lease, Unseen, Registers
<1> QED BY <1>1, WatchInvariant, PTL

\* leaseCount never counts fewer leases than pending and irrevocable hold,
\* whatever fails and however the sections under pendingLock interleave.
THEOREM CountSafety == Spec => []LeaseCountCovers
<1>1. WInv => LeaseCountCovers
  BY DEF WInv
<1> QED BY <1>1, WatchInvariant, PTL
=============================================================================
