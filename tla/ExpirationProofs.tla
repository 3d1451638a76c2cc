-------------------------- MODULE ExpirationProofs --------------------------
(***************************************************************************)
(* Type correctness of the expiration manager, and the safety of leases: a *)
(* live secret never loses its entry, for any number of leases, requests,  *)
(* workers, faults and restarts; and a root token never gets a timer.      *)
(***************************************************************************)
EXTENDS Expiration, TLAPS

Gs == Procs \cup Workers

\* Where the entry a goroutine carries is used.
CarriesEntry == {"persist", "index", "pend", "renewing", "save", "expireSave", "markIrrevocable"}

\* Where a goroutine revokes a token.
RevokesToken == {"create", "mark", "byToken", "expire", "expireSave", "ownDelete",
                 "ownClear", "deleteToken"}

\* Where a goroutine works on a lease that was granted, ...
Granted == {"persist", "index", "rollback", "renewing", "save", "revoke", "markIrrevocable"}

\* ... and where the backend has given it up already.
GivenUp == {"delete", "rollbackDelete"}

\* What goroutine p knows of its lease at each of its places.
Local(p) ==
    /\ proc[p].pc # "idle" => proc[p].lease \in Leases
    /\ proc[p].pc \in CarriesEntry => proc[p].le \in leaseEntry
    /\ proc[p].pc = "index" => proc[p].lease \in Secrets
    /\ proc[p].pc \in RevokesToken => proc[p].lease \in Tokens
    /\ proc[p].pc = "expireSave" => proc[p].sub \in Secrets /\ grant[proc[p].sub] # "none"
    /\ p \in Workers => proc[p].pc \notin {"persist", "index", "rollback"}
    /\ proc[p].lease \in Secrets =>
         /\ proc[p].pc \in Granted => grant[proc[p].lease] # "none"
         /\ proc[p].pc \in GivenUp => grant[proc[p].lease] \notin {"none", "live"}

LocalInv == \A p \in Gs : Local(p)

\* An entry in storage was granted.
StoredGranted == \A l \in Secrets : idView[l] # None => grant[l] # "none"

\* The inductive invariant of LiveSecretTracked: an entry is deleted from
\* GivenUp only, and no lease is granted twice.
Safety == LocalInv /\ StoredGranted /\ LiveSecretTracked

IInv == TypeOK /\ Safety

-----------------------------------------------------------------------------
(* What the helpers do to the types.                                       *)

ProcType == proc \in [Gs -> Goroutine]

MemoryType ==
    /\ pending \in [Leases -> pendingInfo \cup {None}]
    /\ nonexpiring \subseteq Leases
    /\ irrevocable \subseteq Leases
    /\ leaseCount \in Int
    /\ pendingLock \in Workers \cup {None}

\* Only goroutine p moves: to place x, with lease l, entry e and secret s.
Moved(p, x, l, e, s) ==
    /\ ProcType'
    /\ \A q \in Gs : q # p => proc'[q] = proc[q]
    /\ proc'[p].pc = x /\ proc'[p].lease = l /\ proc'[p].le = e /\ proc'[p].sub = s

\* Fresh entries and changed ones are entries (leaseEntry).
LEMMA EntryTypes ==
    /\ \A n \in Nat \cup {Zero} : [ExpireTime |-> n, RevokeErr |-> FALSE] \in leaseEntry
    /\ \A n \in Nat \cup {Zero}, e \in leaseEntry : [e EXCEPT !.ExpireTime = n] \in leaseEntry
    /\ \A e \in leaseEntry : [e EXCEPT !.RevokeErr = TRUE] \in leaseEntry
<1>1. FALSE \in BOOLEAN /\ TRUE \in BOOLEAN
  BY Zenon
<1> QED
  BY <1>1 DEF leaseEntry

\* An idle goroutine is a goroutine (Idle).
LEMMA IdleType ==
    /\ Idle \in Goroutine
    /\ Idle.pc = "idle" /\ Idle.lease = None /\ Idle.le = None /\ Idle.sub = None
<1>1. FALSE \in BOOLEAN
  BY Zenon
<1> QED
  BY <1>1 DEF Idle, Goroutine, Places

\* Goto changes the place of one goroutine (Goto).
LEMMA GotoMoves ==
    ASSUME ProcType, NEW p \in Gs, NEW x \in Places, Goto(p, x)
    PROVE  Moved(p, x, proc[p].lease, proc[p].le, proc[p].sub)
BY DEF Goto, Moved, ProcType, Goroutine

\* Begin starts a goroutine on a lease (Begin).
LEMMA BeginMoves ==
    ASSUME ProcType, NEW p \in Gs, NEW x \in Places, NEW l \in Leases,
           NEW e \in leaseEntry \cup {None}, Begin(p, x, l, e)
    PROVE  Moved(p, x, l, e, None)
<1>1. [Idle EXCEPT !.pc = x, !.lease = l, !.le = e] \in Goroutine
  BY IdleType DEF Goroutine
<1> QED
  BY <1>1, IdleType DEF Begin, Moved, ProcType, Goroutine

\* Return leaves a goroutine idle (Return).
LEMMA ReturnMoves ==
    ASSUME ProcType, NEW p \in Gs, Return(p)
    PROVE  Moved(p, "idle", None, None, None)
BY IdleType DEF Return, Moved, ProcType

\* Fail leaves a request idle and a job in OnFailure (Fail).
LEMMA FailMoves ==
    ASSUME ProcType, NEW p \in Gs, Fail(p)
    PROVE  \/ Moved(p, "idle", None, None, None)
           \/ Moved(p, "onFailure", proc[p].lease, proc[p].le, proc[p].sub)
<1>1. CASE Goto(p, "onFailure")
  <2>1. "onFailure" \in Places BY DEF Places
  <2> QED BY <1>1, <2>1, GotoMoves
<1>2. CASE Return(p)
  BY <1>2, ReturnMoves
<1> QED BY <1>1, <1>2 DEF Fail

\* The section under pendingLock keeps the maps well-formed
\* (updatePendingInternal).
LEMMA updatePendingInternalType ==
    ASSUME MemoryType, NEW l \in Leases, NEW e \in leaseEntry, updatePendingInternal(l, e)
    PROVE  MemoryType'
<1>1. e.ExpireTime \in Int
  BY DEF leaseEntry, Zero
<1> QED
  BY <1>1 DEF MemoryType, updatePendingInternal, updateNonexpiring, updateIrrevocable,
              updateTimer, pendingInfo, One, Pending

\* So does the end of a revocation (revokeCommon).
LEMMA clearLeaseType ==
    ASSUME MemoryType, NEW l \in Leases, clearLease(l)
    PROVE  MemoryType'
BY DEF MemoryType, clearLease, One

\* So does a load in restore mode (loadEntry).
LEMMA loadEntryType ==
    ASSUME TypeOK, NEW l \in Leases, loadEntry(l)
    PROVE  MemoryType' /\ restoreLoaded' \subseteq Leases
<1>1. MemoryType
  BY DEF TypeOK, MemoryType
<1>2. CASE restoreMode /\ l \in Stored \ restoreLoaded
  <2>1. idView[l] \in leaseEntry
    BY <1>2 DEF TypeOK, Stored
  <2> QED
    BY <1>1, <1>2, <2>1, updatePendingInternalType DEF loadEntry, TypeOK
<1>3. CASE ~(restoreMode /\ l \in Stored \ restoreLoaded)
  BY <1>1, <1>3 DEF loadEntry, TypeOK, MemoryType, memory, maps
<1> QED BY <1>2, <1>3

-----------------------------------------------------------------------------
(* What a step of one goroutine must do to keep the safety invariant.      *)

\* No secret is granted, only what is given up loses its entry, and only
\* what was granted has one.
LeaseStep ==
    \A l \in Secrets :
        /\ grant[l] # "none" => grant'[l] # "none"
        /\ grant'[l] = "live" => grant[l] = "live"
        /\ grant'[l] = "live" /\ idView[l] # None => idView'[l] # None
        /\ idView'[l] # None => grant'[l] # "none"

\* The others still know what they knew of their leases (Local).
LEMMA OthersKeep ==
    ASSUME LocalInv, NEW p \in Gs, NEW q \in Gs, q # p, proc'[q] = proc[q],
           \A l \in Secrets :
             /\ grant[l] # "none" => grant'[l] # "none"
             /\ grant[l] \notin {"none", "live"} => grant'[l] \notin {"none", "live"}
    PROVE  Local(q)'
BY DEF LocalInv, Local

\* A step of a goroutine that registers nothing is safe (LiveSecretTracked).
LEMMA SafeStep ==
    ASSUME Safety, LeaseStep, NEW p \in Gs, proc[p].pc \notin {"persist", "rollback"},
           \A q \in Gs : q # p => proc'[q] = proc[q], Local(p)'
    PROVE  Safety'
<1>1. LocalInv'
  BY OthersKeep DEF Safety, LocalInv, LeaseStep
<1>2. StoredGranted'
  BY DEF LeaseStep, StoredGranted
<1>3. LiveSecretTracked'
  <2> SUFFICES ASSUME NEW l \in Secrets, grant'[l] = "live"
               PROVE  idView'[l] # None \/ InFlight(l, {"persist", "rollback"})'
    BY DEF LiveSecretTracked, Stored, Leases
  <2>1. grant[l] = "live" /\ (idView[l] # None => idView'[l] # None)
    BY DEF LeaseStep
  <2>2. CASE idView[l] # None
    BY <2>1, <2>2
  <2>3. CASE idView[l] = None
    <3>1. PICK q \in Gs : proc[q].lease = l /\ proc[q].pc \in {"persist", "rollback"}
      BY <2>1, <2>3 DEF Safety, LiveSecretTracked, Stored, InFlight, Gs
    <3> QED
      BY <3>1 DEF InFlight, Gs
  <2> QED BY <2>2, <2>3
<1> QED
  BY <1>1, <1>2, <1>3 DEF Safety

\* A step that moves no goroutine and touches no lease is safe.
LEMMA QuietStep ==
    ASSUME Safety, UNCHANGED <<proc, grant, idView>>
    PROVE  Safety'
BY DEF Safety, LocalInv, Local, StoredGranted, LiveSecretTracked, Stored, InFlight

\* A step that touches no lease (LeaseStep).
LEMMA SameLeases ==
    ASSUME Safety, UNCHANGED <<grant, idView>>
    PROVE  LeaseStep
BY DEF Safety, StoredGranted, LeaseStep

\* A step that writes an entry of a lease that was granted (persistEntry).
LEMMA PersistGranted ==
    ASSUME TypeOK, Safety, NEW l \in Leases, NEW e \in leaseEntry, persistEntry(l, e),
           l \in Secrets => grant[l] # "none", UNCHANGED grant
    PROVE  LeaseStep /\ idView' \in [Leases -> leaseEntry \cup {None}]
BY NoneAssumption DEF TypeOK, Safety, StoredGranted, LeaseStep, persistEntry, Leases

\* A step that deletes the entry of a lease that is given up (deleteEntry).
LEMMA DeleteGivenUp ==
    ASSUME TypeOK, Safety, NEW l \in Leases, deleteEntry(l),
           l \in Secrets => grant[l] # "live", UNCHANGED grant
    PROVE  LeaseStep /\ idView' \in [Leases -> leaseEntry \cup {None}]
BY DEF TypeOK, Safety, StoredGranted, LeaseStep, deleteEntry, Leases
-----------------------------------------------------------------------------
(* Every step of a request or a job keeps the invariant.                   *)

USE DEF store, backends, maps, memory, restoring, lifetime

\* What every step may use (IInv).
LEMMA Facts ==
    ASSUME IInv
    PROVE  TypeOK /\ Safety /\ ProcType /\ MemoryType /\ \A p \in Gs : Local(p)
BY DEF IInv, Safety, LocalInv, TypeOK, ProcType, MemoryType, Gs

\* A fresh entry is an entry (NewEntry).
LEMMA NewEntryType ==
    ASSUME TypeOK, NEW l \in Leases
    PROVE  NewEntry(l) \in leaseEntry
<1>1. (IF l \in RootTokens THEN Zero ELSE now + TTL) \in Nat \cup {Zero}
  BY BoundAssumption DEF TypeOK, Zero
<1> QED
  BY <1>1, EntryTypes DEF NewEntry

\* Register and RegisterAuth grant a lease and carry its entry to
\* RegisterPersist.
LEMMA BeginRegistration ==
    ASSUME IInv, NEW p \in Procs, NEW l \in Leases, NEW op, Request(p, op),
           grant[l] = "none", grant' = [grant EXCEPT ![l] = "live"],
           Begin(p, "persist", l, NewEntry(l)),
           UNCHANGED <<now, store, pendingDeletion, memory, jobs, restoring, status, restarts>>
    PROVE  IInv'
<1>0. p \in Gs
  BY DEF Gs
<1>1. Moved(p, "persist", l, NewEntry(l), None)
  BY <1>0, Facts, NewEntryType, BeginMoves DEF Places
<1>2. TypeOK'
  BY <1>1, Facts, BoundAssumption DEF TypeOK, Moved, ProcType, Gs, Request
<1>3. LocalInv'
  <2>1. Local(p)'
    BY <1>1, Facts, NewEntryType, ProcAssumption
       DEF Local, Moved, TypeOK, CarriesEntry, RevokesToken, Granted, GivenUp
  <2>2. \A q \in Gs : q # p => Local(q)'
    <3> SUFFICES ASSUME NEW q \in Gs, q # p PROVE Local(q)'
      OBVIOUS
    <3>1. \A k \in Secrets :
             /\ grant[k] # "none" => grant'[k] # "none"
             /\ grant[k] \notin {"none", "live"} => grant'[k] \notin {"none", "live"}
      BY Facts DEF TypeOK, Leases
    <3> QED
      BY <1>0, <1>1, <3>1, Facts, OthersKeep DEF Moved, Safety
  <2> QED BY <2>1, <2>2 DEF LocalInv
<1>4. StoredGranted'
  BY Facts DEF StoredGranted, Safety, TypeOK, Leases
<1>5. LiveSecretTracked'
  <2> SUFFICES ASSUME NEW k \in Secrets, grant'[k] = "live"
               PROVE  idView'[k] # None \/ InFlight(k, {"persist", "rollback"})'
    BY DEF LiveSecretTracked, Stored, Leases
  <2>1. CASE k = l
    BY <1>0, <1>1, <2>1 DEF InFlight, Moved, Gs
  <2>2. CASE k # l
    <3>1. grant[k] = "live"
      BY <2>2, Facts DEF TypeOK, Leases
    <3>2. CASE idView[k] # None
      BY <3>2
    <3>3. CASE idView[k] = None
      <4>1. PICK q \in Gs : proc[q].lease = k /\ proc[q].pc \in {"persist", "rollback"}
        BY <3>1, <3>3, Facts DEF Safety, LiveSecretTracked, Stored, InFlight, Gs
      <4>2. q # p
        BY <4>1 DEF Request, At
      <4> QED
        BY <1>1, <4>1, <4>2 DEF InFlight, Gs, Moved
    <3> QED BY <3>2, <3>3
  <2> QED BY <2>1, <2>2
<1> QED
  BY <1>2, <1>3, <1>4, <1>5 DEF IInv, Safety

\* RegisterPersist stores the entry, or hands the secret to the rollback.
LEMMA RegisterPersistStep ==
    ASSUME IInv, NEW p \in Gs, RegisterPersist(p)
    PROVE  IInv'
<1> DEFINE l == proc[p].lease
<1>0. /\ l \in Leases /\ proc[p].le \in leaseEntry /\ proc[p].pc = "persist"
      /\ l \in Secrets => grant[l] # "none"
      /\ p \notin Workers
  BY Facts DEF Local, RegisterPersist, At, CarriesEntry, Granted
<1>1. CASE /\ persistEntry(l, proc[p].le) /\ UNCHANGED grant
           /\ Goto(p, IF l \in Secrets /\ ClientToken[l] # None THEN "index" ELSE "pend")
  <2> DEFINE x == IF l \in Secrets /\ ClientToken[l] # None THEN "index" ELSE "pend"
  <2>1. Moved(p, x, l, proc[p].le, proc[p].sub)
    BY <1>1, Facts, GotoMoves DEF Places
  <2>2. LeaseStep /\ idView' \in [Leases -> leaseEntry \cup {None}]
    BY <1>0, <1>1, Facts, PersistGranted
  <2>3. TypeOK'
    BY <1>1, <2>1, <2>2, Facts DEF TypeOK, Moved, ProcType, Gs, RegisterPersist
  <2>4. Local(p)'
    BY <1>0, <1>1, <2>1 DEF Local, Moved, CarriesEntry, RevokesToken, Granted, GivenUp
  <2>5. LocalInv' /\ StoredGranted'
    BY <2>1, <2>2, <2>4, Facts, OthersKeep DEF LocalInv, StoredGranted, LeaseStep, Moved, Safety
  <2>6. LiveSecretTracked'
    <3> SUFFICES ASSUME NEW k \in Secrets, grant'[k] = "live"
                 PROVE  idView'[k] # None \/ InFlight(k, {"persist", "rollback"})'
      BY DEF LiveSecretTracked, Stored, Leases
    <3>1. CASE k = l
      BY <1>0, <1>1, <3>1, Facts, NoneAssumption DEF persistEntry, TypeOK, Leases
    <3>2. CASE k # l /\ idView[k] # None
      BY <2>2, <3>2, <1>1 DEF LeaseStep
    <3>3. CASE k # l /\ idView[k] = None
      <4>1. PICK q \in Gs : proc[q].lease = k /\ proc[q].pc \in {"persist", "rollback"}
        BY <1>1, <3>3, Facts DEF Safety, LiveSecretTracked, Stored, InFlight, Gs
      <4> QED
        BY <2>1, <3>3, <4>1 DEF InFlight, Gs, Moved
    <3> QED BY <3>1, <3>2, <3>3
  <2> QED BY <2>3, <2>5, <2>6 DEF IInv, Safety
<1>2. CASE l \in Secrets /\ Goto(p, "rollback") /\ UNCHANGED <<idView, grant>>
  <2>1. Moved(p, "rollback", l, proc[p].le, proc[p].sub)
    BY <1>2, Facts, GotoMoves DEF Places
  <2>2. TypeOK'
    BY <1>2, <2>1, Facts DEF TypeOK, Moved, ProcType, Gs, RegisterPersist
  <2>3. Local(p)'
    BY <1>0, <1>2, <2>1 DEF Local, Moved, CarriesEntry, RevokesToken, Granted, GivenUp
  <2>4. LocalInv' /\ StoredGranted'
    BY <1>2, <2>1, <2>3, Facts, OthersKeep DEF LocalInv, StoredGranted, Moved, Safety
  <2>5. LiveSecretTracked'
    BY <1>0, <1>2, <2>1, Facts DEF LiveSecretTracked, Stored, InFlight, Moved, Safety, Gs
  <2> QED BY <2>2, <2>4, <2>5 DEF IInv, Safety
<1>3. CASE /\ l \in Tokens /\ grant' = [grant EXCEPT ![l] = "leaked"]
           /\ Return(p) /\ UNCHANGED idView
  <2>1. Moved(p, "idle", None, None, None)
    BY <1>3, Facts, ReturnMoves
  <2>2. TypeOK'
    BY <1>3, <2>1, Facts DEF TypeOK, Moved, ProcType, Gs, RegisterPersist
  <2>3. \A k \in Secrets : k # l /\ grant'[k] = grant[k]
    BY <1>3, Facts, LeaseAssumption DEF TypeOK, Leases
  <2>4. Local(p)'
    BY <2>1, LeaseAssumption
       DEF Local, Moved, CarriesEntry, RevokesToken, Granted, GivenUp, Leases
  <2>5. LocalInv' /\ StoredGranted'
    BY <1>3, <2>1, <2>3, <2>4, Facts, OthersKeep DEF LocalInv, StoredGranted, Moved, Safety
  <2>6. LiveSecretTracked'
    BY <1>3, <2>1, <2>3, Facts DEF LiveSecretTracked, Stored, InFlight, Moved, Safety, Gs
  <2> QED BY <2>2, <2>5, <2>6 DEF IInv, Safety
<1> QED
  BY <1>1, <1>2, <1>3 DEF RegisterPersist, Lease

\* What the steps of a goroutine change, beside the goroutines.
DataType ==
    /\ MemoryType
    /\ restoreLoaded \subseteq Leases
    /\ idView \in [Leases -> leaseEntry \cup {None}]
    /\ tokenView \subseteq Secrets
    /\ grant \in [Leases -> {"none", "live", "revoking", "revoked", "leaked"}]
    /\ pendingDeletion \subseteq Tokens

\* A step of a goroutine that has begun keeps the invariant (SafeStep).
LEMMA StepKeeps ==
    ASSUME IInv, NEW p \in Gs, NEW x, NEW l, NEW e, NEW s, Moved(p, x, l, e, s),
           proc[p].pc \notin {"persist", "rollback"}, Local(p)', LeaseStep, DataType',
           UNCHANGED <<now, jobs, restore, toRestore, lifetime>>
    PROVE  IInv'
<1>1. TypeOK'
  BY Facts DEF TypeOK, DataType, MemoryType, Moved, ProcType, Gs
<1> QED
  BY <1>1, Facts, SafeStep DEF IInv, Moved

\* A request that begins keeps the invariant (Request).
LEMMA RequestKeeps ==
    ASSUME IInv, NEW p \in Procs, NEW op, Request(p, op),
           NEW x, NEW l, NEW e, Moved(p, x, l, e, None), Local(p)',
           MemoryType', restoreLoaded' \subseteq Leases,
           UNCHANGED <<now, store, backends, jobs, restore, toRestore, status, restarts>>
    PROVE  IInv'
<1>1. TypeOK'
  BY Facts, BoundAssumption DEF TypeOK, MemoryType, Moved, ProcType, Gs, Request
<1>2. p \in Gs /\ LeaseStep /\ proc[p].pc = "idle"
  BY Facts, SameLeases DEF Gs, Request, At
<1> QED
  BY <1>1, <1>2, Facts, SafeStep DEF IInv, Moved

\* The entry of a stored lease (loadEntry).
LEMMA StoredEntry ==
    ASSUME IInv, NEW l \in Stored
    PROVE  /\ l \in Leases /\ idView[l] \in leaseEntry
           /\ l \in Secrets => grant[l] # "none"
BY Facts DEF TypeOK, Stored, Safety, StoredGranted

\* Renew, LazyRevoke, FetchLeaseTimes, Revoke and the revocation of a token
\* begin with a lease that was granted.
LEMMA RequestsStep ==
    ASSUME IInv, NEW p \in Procs, Requests(p)
    PROVE  IInv'
<1>0. p \in Gs /\ p \notin Workers /\ now \in Nat
  BY ProcAssumption, Facts DEF Gs, TypeOK
<1>1. ASSUME NEW l \in Secrets, Register(p, l) PROVE IInv'
  BY <1>1, BeginRegistration DEF Register, Leases
<1>2. ASSUME NEW t \in Tokens, RegisterAuth(p, t) PROVE IInv'
  BY <1>2, BeginRegistration DEF RegisterAuth, Leases
<1>3. ASSUME NEW t \in Tokens, CreateOrFetchRevocationLeaseByToken(p, t) PROVE IInv'
  <2> DEFINE x == IF t \in Stored THEN "load" ELSE "create"
  <2>1. t \in Leases /\ t \notin Secrets
    BY LeaseAssumption DEF Leases
  <2>2. Moved(p, x, t, None, None)
    BY <1>0, <1>3, <2>1, Facts, BeginMoves DEF CreateOrFetchRevocationLeaseByToken, Places
  <2>3. Local(p)'
    BY <1>0, <2>1, <2>2 DEF Local, Moved, CarriesEntry, RevokesToken
  <2>4. MemoryType' /\ restoreLoaded' \subseteq Leases
    BY <1>3, <2>1, Facts, loadEntryType DEF CreateOrFetchRevocationLeaseByToken
  <2> QED
    BY <1>3, <2>2, <2>3, <2>4, RequestKeeps DEF CreateOrFetchRevocationLeaseByToken
<1>4. ASSUME NEW l \in Leases, Renew(p, l) PROVE IInv'
  <2>1. l \in Stored
    BY <1>4 DEF Renew
  <2>2. Moved(p, "renewing", l, idView[l], None)
    BY <1>0, <1>4, <2>1, Facts, StoredEntry, BeginMoves DEF Renew, Places
  <2>3. Local(p)'
    BY <1>0, <1>4, <2>1, <2>2, StoredEntry
       DEF Renew, Local, Moved, CarriesEntry, RevokesToken, Granted, GivenUp
  <2>4. MemoryType' /\ restoreLoaded' \subseteq Leases
    BY <1>4, Facts, loadEntryType DEF Renew
  <2> QED
    BY <1>4, <2>2, <2>3, <2>4, RequestKeeps DEF Renew
<1>5. ASSUME NEW l \in Leases, LazyRevoke(p, l) PROVE IInv'
  <2>1. l \in Stored
    BY <1>5 DEF LazyRevoke
  <2> DEFINE e == [idView[l] EXCEPT !.ExpireTime = now]
  <2>2. e \in leaseEntry
    BY <1>0, <2>1, StoredEntry, EntryTypes
  <2>3. Moved(p, "save", l, e, None)
    <3> HIDE DEF e
    <3>1. Begin(p, "save", l, e)
      BY <1>5 DEF LazyRevoke, e
    <3> QED BY <1>0, <2>2, <3>1, Facts, BeginMoves DEF Places
  <2>4. Local(p)'
    <3> HIDE DEF e
    <3> QED BY <1>0, <1>5, <2>1, <2>2, <2>3, StoredEntry
               DEF LazyRevoke, Local, Moved, CarriesEntry, RevokesToken, Granted, GivenUp
  <2>5. MemoryType' /\ restoreLoaded' \subseteq Leases
    BY <1>5, Facts, loadEntryType DEF LazyRevoke
  <2> QED
    BY <1>5, <2>3, <2>4, <2>5, RequestKeeps DEF LazyRevoke
<1>6. ASSUME NEW l \in Leases, FetchLeaseTimes(p, l) PROVE IInv'
  <2>1. l \in Stored
    BY <1>6 DEF FetchLeaseTimes
  <2>2. Moved(p, "pend", l, idView[l], None)
    BY <1>0, <1>6, <2>1, Facts, StoredEntry, BeginMoves DEF FetchLeaseTimes, Places
  <2>3. Local(p)'
    BY <1>0, <2>1, <2>2, StoredEntry DEF Local, Moved, CarriesEntry, RevokesToken, Granted, GivenUp
  <2>4. MemoryType' /\ restoreLoaded' \subseteq Leases
    BY <1>6, Facts DEF FetchLeaseTimes, MemoryType, TypeOK
  <2> QED
    BY <1>6, <2>2, <2>3, <2>4, RequestKeeps DEF FetchLeaseTimes
<1>7. ASSUME NEW l \in Leases, NEW force \in BOOLEAN, Revoke(p, l, force) PROVE IInv'
  <2>1. l \in Stored
    BY <1>7 DEF Revoke
  <2> DEFINE g == [Idle EXCEPT !.pc = "revoke", !.lease = l, !.force = force]
  <2>2. g \in Goroutine /\ g.pc = "revoke" /\ g.lease = l /\ g.le = None /\ g.sub = None
    BY IdleType DEF Goroutine, Places
  <2>3. proc' = [proc EXCEPT ![p] = g]
    BY <1>7 DEF Revoke
  <2> HIDE DEF g
  <2>4. Moved(p, "revoke", l, None, None)
    BY <1>0, <2>2, <2>3, Facts DEF Moved, ProcType
  <2>5. Local(p)'
    BY <1>0, <1>7, <2>1, <2>4, StoredEntry
       DEF Revoke, Local, Moved, CarriesEntry, RevokesToken, Granted, GivenUp
  <2>6. MemoryType' /\ restoreLoaded' \subseteq Leases
    BY <1>7, Facts, loadEntryType DEF Revoke
  <2>7. UNCHANGED <<now, store, backends, jobs, restore, toRestore, status, restarts>>
    BY <1>7 DEF Revoke
  <2>8. PICK op : Request(p, op)
    BY <1>7 DEF Revoke
  <2> QED
    BY <2>4, <2>5, <2>6, <2>7, <2>8, RequestKeeps
<1> QED
  BY <1>1, <1>2, <1>3, <1>4, <1>5, <1>6, <1>7 DEF Requests

-----------------------------------------------------------------------------
(* The steps of a registration and of a renewal.                           *)

\* The data of a step that touches no data.
LEMMA SameData ==
    ASSUME IInv
    PROVE  DataType
BY Facts DEF DataType, TypeOK

\* A registration goes on with the index, or is rolled back (Register).
LEMMA RegisterIndexStep ==
    ASSUME IInv, NEW p \in Gs, RegisterIndex(p)
    PROVE  IInv'
<1>0. proc[p].pc = "index" /\ Local(p) /\ proc[p].lease \in Secrets
  BY Facts DEF RegisterIndex, At, Local
<1>1. LeaseStep
  BY Facts, SameLeases DEF RegisterIndex
<1>2. DataType'
  BY <1>0, SameData DEF RegisterIndex, DataType, MemoryType, createIndexByToken, Lease
<1>3. PICK x \in {"pend", "rollback"} : Goto(p, x)
  BY DEF RegisterIndex
<1>4. Moved(p, x, proc[p].lease, proc[p].le, proc[p].sub)
  BY <1>3, Facts, GotoMoves DEF Places
<1>5. Local(p)'
  BY <1>0, <1>4 DEF Local, Moved, RegisterIndex, CarriesEntry, RevokesToken, Granted, GivenUp
<1> QED
  BY <1>0, <1>1, <1>2, <1>4, <1>5, StepKeeps DEF RegisterIndex

\* The timer of a registration or of FetchLeaseTimes is set up (updatePending).
LEMMA updatePendingStep ==
    ASSUME IInv, NEW p \in Gs, updatePending(p)
    PROVE  IInv'
<1>0. proc[p].pc = "pend" /\ proc[p].lease \in Leases /\ proc[p].le \in leaseEntry
  BY Facts DEF updatePending, At, Local, CarriesEntry
<1>1. LeaseStep
  BY Facts, SameLeases DEF updatePending
<1>2. MemoryType'
  BY <1>0, Facts, updatePendingInternalType DEF updatePending, Lease
<1>3. DataType'
  BY <1>2, SameData DEF updatePending, DataType
<1>4. Moved(p, "idle", None, None, None)
  BY Facts, ReturnMoves DEF updatePending
<1>5. Local(p)'
  BY <1>4, LeaseAssumption
     DEF Local, Moved, CarriesEntry, RevokesToken, Granted, GivenUp, Leases
<1> QED
  BY <1>0, <1>1, <1>3, <1>4, <1>5, StepKeeps DEF updatePending

\* The secret is revoked or leaked before its entry is deleted.
LEMMA RollbackRevokeStep ==
    ASSUME IInv, NEW p \in Gs, RollbackRevoke(p)
    PROVE  IInv'
<1> DEFINE l == proc[p].lease
<1>0. proc[p].pc = "rollback" /\ l \in Leases
  BY Facts DEF RollbackRevoke, At, Local
<1>1. PICK g \in {"revoked", "leaked"} : grant' = [grant EXCEPT ![l] = g]
  BY DEF RollbackRevoke, Lease
<1>2. Moved(p, "rollbackDelete", l, proc[p].le, proc[p].sub)
  BY Facts, GotoMoves DEF RollbackRevoke, Places
<1>3. TypeOK'
  BY <1>0, <1>1, <1>2, Facts DEF TypeOK, Moved, ProcType, Gs, RollbackRevoke
<1>4. \A k \in Secrets : grant'[k] = IF k = l THEN g ELSE grant[k]
  BY <1>0, <1>1, Facts DEF TypeOK, Leases
<1>5. Local(p)'
  BY <1>0, <1>1, <1>2, <1>4 DEF Local, Moved, CarriesEntry, RevokesToken, Granted, GivenUp
<1>6. LocalInv' /\ StoredGranted'
  <2>1. \A k \in Secrets :
           /\ grant[k] # "none" => grant'[k] # "none"
           /\ grant[k] \notin {"none", "live"} => grant'[k] \notin {"none", "live"}
    BY <1>1, <1>4
  <2> QED
    BY <1>2, <1>5, <2>1, Facts, OthersKeep
       DEF LocalInv, StoredGranted, Moved, Safety, RollbackRevoke
<1>7. LiveSecretTracked'
  <2> SUFFICES ASSUME NEW k \in Secrets, grant'[k] = "live"
               PROVE  idView'[k] # None \/ InFlight(k, {"persist", "rollback"})'
    BY DEF LiveSecretTracked, Stored, Leases
  <2>1. k # l /\ grant[k] = "live"
    BY <1>1, <1>4
  <2>2. CASE idView[k] # None
    BY <2>2 DEF RollbackRevoke
  <2>3. CASE idView[k] = None
    <3>1. PICK q \in Gs : proc[q].lease = k /\ proc[q].pc \in {"persist", "rollback"}
      BY <2>1, <2>3, Facts DEF Safety, LiveSecretTracked, Stored, InFlight, Gs
    <3> QED
      BY <1>2, <2>1, <3>1 DEF InFlight, Gs, Moved
  <2> QED BY <2>2, <2>3
<1> QED
  BY <1>3, <1>6, <1>7 DEF IInv, Safety

\* The rollback deletes the entry of a secret that is revoked or leaked (Register).
LEMMA RollbackDeleteStep ==
    ASSUME IInv, NEW p \in Gs, RollbackDelete(p)
    PROVE  IInv'
<1>0. /\ proc[p].pc = "rollbackDelete" /\ Local(p) /\ proc[p].lease \in Leases
      /\ proc[p].lease \in Secrets => grant[proc[p].lease] # "live"
  BY Facts DEF RollbackDelete, At, Local, GivenUp
<1>1. LeaseStep /\ idView' \in [Leases -> leaseEntry \cup {None}]
  BY <1>0, Facts, DeleteGivenUp, SameLeases DEF RollbackDelete, Lease, TypeOK
<1>2. DataType'
  BY <1>1, SameData DEF RollbackDelete, DataType, MemoryType
<1>3. Moved(p, "rollbackIndex", proc[p].lease, proc[p].le, proc[p].sub)
  BY Facts, GotoMoves DEF RollbackDelete, Places
<1>4. Local(p)'
  BY <1>0, <1>3 DEF Local, Moved, CarriesEntry, RevokesToken, Granted, GivenUp
<1> QED
  BY <1>0, <1>1, <1>2, <1>3, <1>4, StepKeeps DEF RollbackDelete

\* A step that ends in Return and touches no lease.
LEMMA ReturnKeeps ==
    ASSUME IInv, NEW p \in Gs, proc[p].pc \notin {"persist", "rollback"}, Return(p),
           LeaseStep, DataType', UNCHANGED <<now, jobs, restore, toRestore, lifetime>>
    PROVE  IInv'
<1>1. Moved(p, "idle", None, None, None)
  BY Facts, ReturnMoves
<1>2. Local(p)'
  BY <1>1, LeaseAssumption
     DEF Local, Moved, CarriesEntry, RevokesToken, Granted, GivenUp, Leases
<1> QED
  BY <1>1, <1>2, StepKeeps

\* The rollback removes the index entry last (Register).
LEMMA RollbackIndexStep ==
    ASSUME IInv, NEW p \in Gs, RollbackIndex(p)
    PROVE  IInv'
<1>1. LeaseStep /\ proc[p].pc = "rollbackIndex"
  BY Facts, SameLeases DEF RollbackIndex, At
<1>2. DataType'
  BY SameData DEF RollbackIndex, DataType, MemoryType, removeIndexByToken
<1> QED
  BY <1>1, <1>2, ReturnKeeps DEF RollbackIndex

\* The backend extends the entry a renewal carries, or refuses (renewEntry).
LEMMA renewEntryStep ==
    ASSUME IInv, NEW p \in Gs, renewEntry(p)
    PROVE  IInv'
<1>0. /\ proc[p].pc = "renewing" /\ Local(p) /\ proc[p].lease \in Leases
      /\ proc[p].le \in leaseEntry
  BY Facts DEF renewEntry, At, Local, CarriesEntry
<1>1. LeaseStep
  BY Facts, SameLeases DEF renewEntry
<1>2. DataType'
  BY SameData DEF renewEntry, DataType, MemoryType
<1>3. CASE Return(p)
  BY <1>0, <1>1, <1>2, <1>3, ReturnKeeps DEF renewEntry
<1>4. CASE proc' = [proc EXCEPT ![p].le.ExpireTime = now + TTL, ![p].pc = "save"]
  <2> DEFINE e == [proc[p].le EXCEPT !.ExpireTime = now + TTL]
             g == [proc[p] EXCEPT !.le = e, !.pc = "save"]
  <2>1. e \in leaseEntry
    BY <1>0, EntryTypes, Facts, BoundAssumption DEF TypeOK
  <2>2. proc' = [proc EXCEPT ![p] = g]
    BY <1>4, Facts DEF ProcType, Goroutine
  <2> HIDE DEF e
  <2>3. /\ g \in Goroutine /\ g.pc = "save" /\ g.lease = proc[p].lease /\ g.le = e
        /\ g.sub = proc[p].sub
    BY <2>1, Facts DEF ProcType, Goroutine, Places
  <2> HIDE DEF g
  <2>4. Moved(p, "save", proc[p].lease, e, proc[p].sub)
    BY <2>2, <2>3, Facts DEF Moved, ProcType
  <2>5. Local(p)'
    BY <1>0, <2>1, <2>4
       DEF renewEntry, Local, Moved, CarriesEntry, RevokesToken, Granted, GivenUp
  <2> QED
    BY <1>0, <1>1, <1>2, <2>4, <2>5, StepKeeps DEF renewEntry
<1> QED
  BY <1>3, <1>4 DEF renewEntry

\* A renewal or LazyRevoke writes the entry of a lease that was granted, even
\* if the lease was revoked since it was loaded (Renew, LazyRevoke).
LEMMA saveEntryStep ==
    ASSUME IInv, NEW p \in Gs, saveEntry(p)
    PROVE  IInv'
<1>0. /\ proc[p].pc = "save" /\ proc[p].lease \in Leases /\ proc[p].le \in leaseEntry
      /\ proc[p].lease \in Secrets => grant[proc[p].lease] # "none"
  BY Facts DEF saveEntry, At, Local, CarriesEntry, Granted
<1>1. LeaseStep /\ idView' \in [Leases -> leaseEntry \cup {None}]
  BY <1>0, Facts, PersistGranted, SameLeases DEF saveEntry, Lease, TypeOK
<1>2. MemoryType'
  <2>1. CASE UNCHANGED memory
    BY <2>1, Facts DEF MemoryType
  <2>2. CASE updatePendingInternal(proc[p].lease, proc[p].le)
    BY <1>0, <2>2, Facts, updatePendingInternalType
  <2> QED BY <2>1, <2>2 DEF saveEntry, Lease
<1>3. DataType'
  BY <1>1, <1>2, SameData DEF saveEntry, DataType
<1> QED
  BY <1>0, <1>1, <1>3, ReturnKeeps DEF saveEntry

-----------------------------------------------------------------------------
(* The steps of a revocation.                                              *)

\* A goroutine goes on with the lease it has; every place but the ones
\* below asks no more of it than that it is a lease.
LEMMA GotoKeeps ==
    ASSUME IInv, NEW p \in Gs, proc[p].pc \notin {"persist", "rollback", "idle"},
           NEW x \in Places, Goto(p, x), x \notin CarriesEntry \cup {"rollback"},
           x \in RevokesToken => proc[p].lease \in Tokens,
           proc[p].lease \in Secrets =>
             /\ x \in Granted => grant'[proc[p].lease] # "none"
             /\ x \in GivenUp => grant'[proc[p].lease] \notin {"none", "live"},
           LeaseStep, DataType', UNCHANGED <<now, jobs, restore, toRestore, lifetime>>
    PROVE  IInv'
<1>1. Moved(p, x, proc[p].lease, proc[p].le, proc[p].sub)
  BY Facts, GotoMoves
<1>2. proc[p].lease \in Leases
  BY Facts DEF Local
<1>3. Local(p)'
  BY <1>1, <1>2 DEF Local, Moved, CarriesEntry
<1> QED
  BY <1>1, <1>3, StepKeeps

\* A revocation that fails keeps the invariant (Fail).
LEMMA FailKeeps ==
    ASSUME IInv, NEW p \in Gs, proc[p].pc \notin {"persist", "rollback", "idle"}, Fail(p),
           LeaseStep, DataType', UNCHANGED <<now, jobs, restore, toRestore, lifetime>>
    PROVE  IInv'
<1>1. CASE Return(p)
  BY <1>1, ReturnKeeps
<1>2. CASE Goto(p, "onFailure")
  BY <1>2, GotoKeeps DEF Places, CarriesEntry, RevokesToken, Granted, GivenUp
<1> QED
  BY <1>1, <1>2 DEF Fail

\* The grant of a token says nothing of the secrets (revokeInternal).
LEMMA TokenGrant ==
    ASSUME IInv, NEW t \in Tokens, NEW g \in {"revoking", "revoked"},
           grant' = [grant EXCEPT ![t] = g], UNCHANGED idView
    PROVE  /\ LeaseStep
           /\ grant' \in [Leases -> {"none", "live", "revoking", "revoked", "leaked"}]
<1>1. \A k \in Secrets : grant'[k] = grant[k]
  BY Facts, LeaseAssumption DEF TypeOK, Leases
<1> QED
  BY <1>1, Facts DEF TypeOK, Leases, LeaseStep, Safety, StoredGranted

\* The revocation lease of a token that has none is stored
\* (CreateOrFetchRevocationLeaseByToken).
LEMMA createRevocationLeaseStep ==
    ASSUME IInv, NEW p \in Gs, createRevocationLease(p)
    PROVE  IInv'
<1>0. /\ proc[p].pc = "create" /\ proc[p].lease \in Leases
      /\ proc[p].lease \in Tokens /\ proc[p].lease \notin Secrets
  BY Facts, LeaseAssumption DEF createRevocationLease, At, Local, RevokesToken, Leases
<1>1. [ExpireTime |-> now, RevokeErr |-> FALSE] \in leaseEntry
  BY EntryTypes, Facts DEF TypeOK
<1>2. LeaseStep /\ idView' \in [Leases -> leaseEntry \cup {None}]
  <2>1. CASE UNCHANGED idView
    BY <2>1, Facts, SameLeases DEF createRevocationLease, TypeOK
  <2>2. CASE persistEntry(Lease(p), [ExpireTime |-> now, RevokeErr |-> FALSE])
    BY <1>0, <1>1, <2>2, Facts, PersistGranted DEF createRevocationLease, Lease
  <2> QED BY <2>1, <2>2 DEF createRevocationLease
<1>3. DataType'
  BY <1>2, SameData DEF createRevocationLease, DataType, MemoryType
<1>4. CASE Return(p)
  BY <1>0, <1>2, <1>3, <1>4, ReturnKeeps DEF createRevocationLease
<1>5. CASE Goto(p, "load")
  BY <1>0, <1>2, <1>3, <1>5, GotoKeeps
     DEF createRevocationLease, Places, CarriesEntry, RevokesToken, Granted, GivenUp
<1> QED
  BY <1>4, <1>5 DEF createRevocationLease

\* What is loaded for revocation was granted (revokeCommon).
LEMMA revokeLoadStep ==
    ASSUME IInv, NEW p \in Gs, revokeLoad(p)
    PROVE  IInv'
<1>0. proc[p].pc = "load" /\ proc[p].lease \in Leases
  BY Facts DEF revokeLoad, At, Local
<1>1. LeaseStep
  BY Facts, SameLeases DEF revokeLoad
<1>2. DataType'
  <2>1. MemoryType' /\ restoreLoaded' \subseteq Leases
    <3>1. CASE loadEntry(proc[p].lease)
      BY <1>0, <3>1, Facts, loadEntryType
    <3>2. CASE UNCHANGED <<restoreLoaded, memory>>
      BY <3>2, Facts DEF MemoryType, TypeOK
    <3> QED BY <3>1, <3>2 DEF revokeLoad, Lease
  <2> QED
    BY <2>1, SameData DEF revokeLoad, DataType
<1>3. CASE Return(p)
  BY <1>0, <1>1, <1>2, <1>3, ReturnKeeps DEF revokeLoad
<1>4. CASE Fail(p)
  BY <1>0, <1>1, <1>2, <1>4, FailKeeps DEF revokeLoad
<1>5. CASE proc[p].lease \in Stored /\ Goto(p, "revoke")
  <2>1. proc[p].lease \in Secrets => grant'[proc[p].lease] # "none"
    BY <1>5, StoredEntry DEF revokeLoad
  <2> QED
    BY <1>0, <1>1, <1>2, <1>5, <2>1, GotoKeeps
       DEF revokeLoad, Places, CarriesEntry, RevokesToken, Granted, GivenUp
<1> QED
  BY <1>3, <1>4, <1>5 DEF revokeLoad, Lease

\* Once the backend revoked a secret, or a forced revocation gave it up, its
\* entry may be deleted (revokeEntry).
LEMMA revokeEntryStep ==
    ASSUME IInv, NEW p \in Gs, revokeEntry(p)
    PROVE  IInv'
<1> DEFINE l == proc[p].lease
<1>0. proc[p].pc = "revoke" /\ l \in Secrets /\ l \in Leases /\ grant[l] # "none"
  BY Facts DEF revokeEntry, At, Local, Lease, Granted, Leases
<1>1. CASE Fail(p) /\ UNCHANGED grant
  <2>1. LeaseStep
    BY <1>1, Facts, SameLeases DEF revokeEntry
  <2>2. DataType'
    BY <1>1, SameData DEF revokeEntry, DataType, MemoryType
  <2> QED
    BY <1>0, <1>1, <2>1, <2>2, FailKeeps DEF revokeEntry
<1>2. ASSUME NEW g \in {"revoking", "revoked", "leaked"}, Goto(p, "delete"),
             grant' = [grant EXCEPT ![l] = g]
      PROVE  IInv'
  <2>1. \A k \in Secrets : grant'[k] = IF k = l THEN g ELSE grant[k]
    BY <1>0, <1>2, Facts DEF TypeOK, Leases
  <2>2. LeaseStep
    BY <1>2, <2>1, Facts DEF LeaseStep, Safety, StoredGranted, revokeEntry
  <2>3. grant' \in [Leases -> {"none", "live", "revoking", "revoked", "leaked"}]
    BY <1>2, Facts DEF TypeOK
  <2>4. DataType'
    BY <2>3, SameData DEF revokeEntry, DataType, MemoryType
  <2> QED
    BY <1>0, <1>2, <2>1, <2>2, <2>4, GotoKeeps
       DEF revokeEntry, Places, CarriesEntry, RevokesToken, Granted, GivenUp
<1>3. CASE /\ grant' = [grant EXCEPT ![l] = IF @ = "live" THEN "leaked" ELSE @]
           /\ Goto(p, "delete")
  <2> DEFINE g == IF grant[l] = "live" THEN "leaked" ELSE grant[l]
  <2>1. g \in {"revoking", "revoked", "leaked"}
    BY <1>0, Facts DEF TypeOK
  <2> QED
    BY <1>2, <1>3, <2>1
<1> QED
  BY <1>1, <1>2, <1>3 DEF revokeEntry, Lease

\* Only a lease that is given up loses its entry (revokeCommon).
LEMMA revokeDeleteStep ==
    ASSUME IInv, NEW p \in Gs, revokeDelete(p)
    PROVE  IInv'
<1>0. /\ proc[p].pc = "delete" /\ proc[p].lease \in Leases
      /\ proc[p].lease \in Secrets => grant[proc[p].lease] # "live"
  BY Facts DEF revokeDelete, At, Local, GivenUp
<1>1. LeaseStep /\ idView' \in [Leases -> leaseEntry \cup {None}]
  BY <1>0, Facts, DeleteGivenUp, SameLeases DEF revokeDelete, Lease, TypeOK
<1>2. DataType'
  BY <1>1, SameData DEF revokeDelete, DataType, MemoryType
<1>3. CASE Fail(p)
  BY <1>0, <1>1, <1>2, <1>3, FailKeeps DEF revokeDelete
<1>4. ASSUME NEW x \in {"unindex", "clear"}, Goto(p, x)
      PROVE  IInv'
  BY <1>0, <1>1, <1>2, <1>4, GotoKeeps
     DEF revokeDelete, Places, CarriesEntry, RevokesToken, Granted, GivenUp
<1> QED
  BY <1>3, <1>4 DEF revokeDelete

\* The index entry goes after the lease entry (removeIndexByToken).
LEMMA revokeUnindexStep ==
    ASSUME IInv, NEW p \in Gs, revokeUnindex(p)
    PROVE  IInv'
<1>1. LeaseStep /\ proc[p].pc = "unindex"
  BY Facts, SameLeases DEF revokeUnindex, At
<1>2. DataType'
  BY SameData DEF revokeUnindex, DataType, MemoryType, removeIndexByToken
<1>3. CASE Fail(p)
  BY <1>1, <1>2, <1>3, FailKeeps DEF revokeUnindex
<1>4. CASE Goto(p, "clear")
  BY <1>1, <1>2, <1>4, GotoKeeps
     DEF revokeUnindex, Places, CarriesEntry, RevokesToken, Granted, GivenUp
<1> QED
  BY <1>3, <1>4 DEF revokeUnindex

\* The maps forget a lease whose entry is gone (clearLease).
LEMMA revokeClearStep ==
    ASSUME IInv, NEW p \in Gs, revokeClear(p)
    PROVE  IInv'
<1>1. LeaseStep /\ proc[p].pc = "clear" /\ proc[p].lease \in Leases
  BY Facts, SameLeases DEF revokeClear, At, Local
<1>2. MemoryType'
  BY <1>1, Facts, clearLeaseType DEF revokeClear, Lease
<1>3. DataType'
  BY <1>2, SameData DEF revokeClear, DataType
<1> QED
  BY <1>1, <1>3, ReturnKeeps DEF revokeClear

-----------------------------------------------------------------------------
(* The steps of the revocation of a token.                                 *)

\* A goroutine at such a place has a token (Local).
LEMMA TokenFacts ==
    ASSUME IInv, NEW p \in Gs, proc[p].pc \in RevokesToken \/ Lease(p) \in Tokens
    PROVE  proc[p].lease \in Tokens /\ proc[p].lease \in Leases /\ proc[p].lease \notin Secrets
BY Facts, LeaseAssumption DEF Local, Lease, Leases

\* A revocation of a token that fails keeps the invariant (tokenFail).
LEMMA tokenFailKeeps ==
    ASSUME IInv, NEW p \in Gs, proc[p].pc \in RevokesToken, tokenFail(p),
           LeaseStep, DataType', UNCHANGED <<now, jobs, restore, toRestore, lifetime>>
    PROVE  IInv'
<1>0. proc[p].pc \notin {"persist", "rollback", "idle"} /\ proc[p].lease \notin Secrets
  BY TokenFacts DEF RevokesToken
<1>1. CASE Goto(p, "delete")
  BY <1>0, <1>1, GotoKeeps DEF Places, CarriesEntry, RevokesToken, Granted, GivenUp
<1>2. CASE Fail(p)
  BY <1>0, <1>2, FailKeeps
<1> QED
  BY <1>1, <1>2 DEF tokenFail

\* So does one that fails with the deferred function in place (retryLater).
LEMMA retryLaterKeeps ==
    ASSUME IInv, NEW p \in Gs, proc[p].pc \in RevokesToken, retryLater(p)
    PROVE  IInv'
<1>1. LeaseStep
  BY Facts, SameLeases DEF retryLater
<1>2. DataType'
  BY SameData DEF retryLater, DataType, MemoryType
<1> QED
  BY <1>1, <1>2, tokenFailKeeps DEF retryLater

\* A goroutine that revokes a token goes on to another such place, or to
\* the end of revokeCommon.
LEMMA TokenGoto ==
    ASSUME IInv, NEW p \in Gs, proc[p].pc \in RevokesToken \/ At(p, "revoke"),
           proc[p].lease \in Tokens,
           NEW x \in {"mark", "byToken", "ownDelete", "ownClear", "deleteToken", "delete"},
           Goto(p, x), LeaseStep, DataType',
           UNCHANGED <<now, jobs, restore, toRestore, lifetime>>
    PROVE  IInv'
<1>1. proc[p].pc \notin {"persist", "rollback", "idle"} /\ proc[p].lease \notin Secrets
  BY LeaseAssumption DEF RevokesToken, At
<1> QED
  BY <1>1, GotoKeeps DEF Places, CarriesEntry, Granted, GivenUp

\* The token is put into tokensPendingDeletion (revokeInternal).
LEMMA revokeInternalStep ==
    ASSUME IInv, NEW p \in Gs, revokeInternal(p)
    PROVE  IInv'
<1>0. proc[p].lease \in Tokens
  BY DEF revokeInternal, Lease
<1>1. LeaseStep
  BY Facts, SameLeases DEF revokeInternal
<1>2. DataType'
  BY <1>0, SameData DEF revokeInternal, DataType, MemoryType, Lease
<1>3. PICK x \in {"delete", "mark"} : Goto(p, x)
  BY DEF revokeInternal
<1> QED
  BY <1>0, <1>1, <1>2, <1>3, TokenGoto DEF revokeInternal

\* The token is stored with tokenRevocationPending (revokeInternal).
LEMMA revokeMarkStep ==
    ASSUME IInv, NEW p \in Gs, revokeMark(p)
    PROVE  IInv'
<1>0. proc[p].pc = "mark" /\ proc[p].pc \in RevokesToken /\ proc[p].lease \in Tokens
  BY TokenFacts DEF revokeMark, At, RevokesToken
<1>1. CASE UNCHANGED grant
  <2>1. LeaseStep
    BY <1>1, Facts, SameLeases DEF revokeMark
  <2>2. DataType'
    BY <1>1, SameData DEF revokeMark, DataType, MemoryType
  <2>3. CASE tokenFail(p)
    BY <1>0, <2>1, <2>2, <2>3, tokenFailKeeps DEF revokeMark
  <2>4. ASSUME NEW x \in {"delete", "byToken"}, Goto(p, x) PROVE IInv'
    BY <1>0, <2>1, <2>2, <2>4, TokenGoto DEF revokeMark
  <2> QED BY <2>3, <2>4 DEF revokeMark
<1>2. CASE grant' = [grant EXCEPT ![Lease(p)] = "revoking"] /\ Goto(p, "byToken")
  <2>1. LeaseStep /\ grant' \in [Leases -> {"none", "live", "revoking", "revoked", "leaked"}]
    BY <1>0, <1>2, TokenGrant DEF revokeMark, Lease
  <2>2. DataType'
    BY <2>1, SameData DEF revokeMark, DataType, MemoryType
  <2> QED
    BY <1>0, <1>2, <2>1, <2>2, TokenGoto DEF revokeMark
<1> QED
  BY <1>1, <1>2 DEF revokeMark

\* The leases of the token are looked up (RevokeByToken).
LEMMA RevokeByTokenStep ==
    ASSUME IInv, NEW p \in Gs, RevokeByToken(p)
    PROVE  IInv'
<1>0. proc[p].pc = "byToken" /\ proc[p].pc \in RevokesToken /\ Local(p)
  BY Facts DEF RevokeByToken, At, RevokesToken
<1>1. CASE retryLater(p)
  BY <1>0, <1>1, retryLaterKeeps
<1>2. CASE /\ proc' = [proc EXCEPT ![p].pc = "expire",
                                   ![p].todo = lookupLeasesByToken(Lease(p))]
           /\ UNCHANGED <<now, store, backends, memory, jobs, restoring, lifetime>>
  <2>1. LeaseStep
    BY <1>2, Facts, SameLeases
  <2>2. DataType'
    BY <1>2, SameData DEF DataType, MemoryType
  <2>3. lookupLeasesByToken(Lease(p)) \subseteq Secrets
    BY Facts DEF lookupLeasesByToken, TypeOK
  <2>4. Moved(p, "expire", proc[p].lease, proc[p].le, proc[p].sub)
    <3> DEFINE ls == lookupLeasesByToken(Lease(p))
               g == [proc[p] EXCEPT !.pc = "expire", !.todo = ls]
    <3>1. proc' = [proc EXCEPT ![p].pc = "expire", ![p].todo = ls] /\ ls \in SUBSET Secrets
      BY <1>2, <2>3
    <3> HIDE DEF ls
    <3>2. proc \in [Gs -> Goroutine] /\ proc[p] \in Goroutine
      BY Facts DEF ProcType
    <3>3. /\ g \in Goroutine /\ g.pc = "expire" /\ g.lease = proc[p].lease
          /\ g.le = proc[p].le /\ g.sub = proc[p].sub
      BY <3>1, <3>2 DEF Goroutine, Places
    <3>4. proc' = [proc EXCEPT ![p] = g]
      BY <3>1, <3>2
    <3> HIDE DEF g
    <3>. QED  BY <3>2, <3>3, <3>4 DEF Moved, ProcType
  <2>5. Local(p)'
    BY <1>0, <2>4, TokenFacts DEF Local, Moved, CarriesEntry, RevokesToken, Granted, GivenUp
  <2> QED
    BY <1>0, <1>2, <2>1, <2>2, <2>4, <2>5, StepKeeps
<1> QED
  BY <1>1, <1>2 DEF RevokeByToken

\* A lease of the token is loaded; it was granted if it is stored
\* (RevokeByToken).
LEMMA expireLoadStep ==
    ASSUME IInv, NEW p \in Gs, NEW l \in Secrets, expireLoad(p, l)
    PROVE  IInv'
<1>0. proc[p].pc = "expire" /\ proc[p].pc \in RevokesToken /\ Local(p) /\ l \in Leases
  BY Facts DEF expireLoad, At, RevokesToken, Leases
<1>1. CASE retryLater(p)
  BY <1>0, <1>1, retryLaterKeeps
<1> DEFINE x == IF l \in Stored THEN "expireSave" ELSE "expire"
           s == IF l \in Stored THEN l ELSE None
           e == IF l \in Stored THEN [idView[l] EXCEPT !.ExpireTime = now] ELSE None
<1>2. CASE /\ loadEntry(l)
           /\ proc' = [proc EXCEPT ![p].todo = @ \ {l}, ![p].pc = x, ![p].sub = s, ![p].le = e]
           /\ UNCHANGED <<now, store, backends, jobs, restore, toRestore, lifetime>>
  <2>1. LeaseStep
    BY <1>2, Facts, SameLeases
  <2>2. DataType'
    BY <1>0, <1>2, Facts, SameData, loadEntryType DEF DataType
  <2>3. /\ x \in Places /\ s \in Secrets \cup {None}
        /\ x = "expireSave" => s \in Secrets /\ grant[s] # "none"
        /\ x \in {"expire", "expireSave"}
    BY StoredEntry DEF Places
  <2>4. e \in leaseEntry \cup {None} /\ (x = "expireSave" => e \in leaseEntry)
    BY StoredEntry, EntryTypes, Facts DEF TypeOK
  <2> HIDE DEF x, s, e
  <2>5. Moved(p, x, proc[p].lease, e, s)
    <3> DEFINE g == [proc[p] EXCEPT !.todo = @ \ {l}, !.pc = x, !.sub = s, !.le = e]
    <3>1. g \in Goroutine /\ g.pc = x /\ g.lease = proc[p].lease /\ g.le = e /\ g.sub = s
      BY <2>3, <2>4, Facts DEF ProcType, Goroutine
    <3>2. proc' = [proc EXCEPT ![p] = g]
      BY <1>2, Facts DEF ProcType, Goroutine
    <3> HIDE DEF g
    <3> QED BY <3>1, <3>2, Facts DEF Moved, ProcType
  <2>6. Local(p)'
    BY <1>0, <1>2, <2>3, <2>4, <2>5, TokenFacts
       DEF Local, Moved, CarriesEntry, RevokesToken, Granted, GivenUp
  <2> QED
    BY <1>0, <1>2, <2>1, <2>2, <2>5, <2>6, StepKeeps DEF RevokesToken
<1> QED
  BY <1>1, <1>2 DEF expireLoad

\* The entry of a lease of the token is written with its new time
\* (RevokeByToken).
LEMMA expireSaveStep ==
    ASSUME IInv, NEW p \in Gs, expireSave(p)
    PROVE  IInv'
<1>0. /\ proc[p].pc = "expireSave" /\ proc[p].pc \in RevokesToken /\ Local(p)
      /\ proc[p].sub \in Secrets /\ proc[p].sub \in Leases /\ proc[p].le \in leaseEntry
      /\ grant[proc[p].sub] # "none"
  BY Facts DEF expireSave, At, RevokesToken, CarriesEntry, Local, Leases
<1>1. CASE retryLater(p)
  BY <1>0, <1>1, retryLaterKeeps
<1>2. CASE /\ persistEntry(proc[p].sub, proc[p].le)
           /\ updatePendingInternal(proc[p].sub, proc[p].le)
           /\ proc' = [proc EXCEPT ![p].pc = "expire", ![p].sub = None, ![p].le = None]
           /\ UNCHANGED <<now, tokenView, backends, jobs, restoring, lifetime>>
  <2>1. LeaseStep /\ idView' \in [Leases -> leaseEntry \cup {None}]
    BY <1>0, <1>2, Facts, PersistGranted
  <2>2. MemoryType'
    BY <1>0, <1>2, Facts, updatePendingInternalType
  <2>3. DataType'
    BY <1>2, <2>1, <2>2, SameData DEF DataType
  <2>4. Moved(p, "expire", proc[p].lease, None, None)
    <3> DEFINE g == [proc[p] EXCEPT !.pc = "expire", !.sub = None, !.le = None]
    <3>0. proc[p] \in Goroutine
      BY Facts DEF ProcType
    <3>1. /\ g \in Goroutine /\ g.pc = "expire" /\ g.lease = proc[p].lease
          /\ g.le = None /\ g.sub = None
      BY <3>0 DEF Goroutine, Places
    <3>2. proc' = [proc EXCEPT ![p] = g]
      BY <1>2, Facts DEF ProcType, Goroutine
    <3> HIDE DEF g
    <3> QED BY <3>1, <3>2, Facts DEF Moved, ProcType
  <2>5. Local(p)'
    BY <1>0, <2>4, TokenFacts DEF Local, Moved, CarriesEntry, RevokesToken, Granted, GivenUp
  <2> QED
    BY <1>0, <1>2, <2>1, <2>3, <2>4, <2>5, StepKeeps
<1> QED
  BY <1>1, <1>2 DEF expireSave

\* The token's own lease is loaded (revokeCommon with skipToken).
LEMMA ownLoadStep ==
    ASSUME IInv, NEW p \in Gs, ownLoad(p)
    PROVE  IInv'
<1>0. /\ proc[p].pc = "expire" /\ proc[p].pc \in RevokesToken
      /\ proc[p].lease \in Tokens /\ proc[p].lease \in Leases
  BY TokenFacts DEF ownLoad, At, RevokesToken
<1>1. CASE retryLater(p)
  BY <1>0, <1>1, retryLaterKeeps
<1>2. ASSUME loadEntry(proc[p].lease), NEW x \in {"ownDelete", "deleteToken"}, Goto(p, x),
             UNCHANGED <<now, store, backends, jobs, restore, toRestore, lifetime>>
      PROVE  IInv'
  <2>1. LeaseStep
    BY <1>2, Facts, SameLeases
  <2>2. DataType'
    BY <1>0, <1>2, Facts, SameData, loadEntryType DEF DataType
  <2> QED
    BY <1>0, <1>2, <2>1, <2>2, TokenGoto
<1> QED
  BY <1>1, <1>2 DEF ownLoad, Lease

\* ... deleted ...
LEMMA ownDeleteStep ==
    ASSUME IInv, NEW p \in Gs, ownDelete(p)
    PROVE  IInv'
<1>0. /\ proc[p].pc = "ownDelete" /\ proc[p].pc \in RevokesToken
      /\ proc[p].lease \in Tokens /\ proc[p].lease \in Leases /\ proc[p].lease \notin Secrets
  BY TokenFacts DEF ownDelete, At, RevokesToken
<1>1. CASE retryLater(p)
  BY <1>0, <1>1, retryLaterKeeps
<1>2. CASE /\ deleteEntry(proc[p].lease) /\ Goto(p, "ownClear")
           /\ UNCHANGED <<now, tokenView, backends, memory, jobs, restoring, lifetime>>
  <2>1. LeaseStep /\ idView' \in [Leases -> leaseEntry \cup {None}]
    BY <1>0, <1>2, Facts, DeleteGivenUp
  <2>2. DataType'
    BY <1>2, <2>1, SameData DEF DataType, MemoryType
  <2> QED
    BY <1>0, <1>2, <2>1, <2>2, TokenGoto
<1> QED
  BY <1>1, <1>2 DEF ownDelete, Lease

\* ... and cleared.
LEMMA ownClearStep ==
    ASSUME IInv, NEW p \in Gs, ownClear(p)
    PROVE  IInv'
<1>0. /\ proc[p].pc = "ownClear" /\ proc[p].pc \in RevokesToken
      /\ proc[p].lease \in Tokens /\ proc[p].lease \in Leases
  BY TokenFacts DEF ownClear, At, RevokesToken
<1>1. LeaseStep
  BY Facts, SameLeases DEF ownClear
<1>2. MemoryType'
  BY <1>0, Facts, clearLeaseType DEF ownClear, Lease
<1>3. DataType'
  BY <1>2, SameData DEF ownClear, DataType
<1> QED
  BY <1>0, <1>1, <1>3, TokenGoto DEF ownClear

\* The token entry is deleted last (revokeInternal).
LEMMA deleteTokenStep ==
    ASSUME IInv, NEW p \in Gs, deleteToken(p)
    PROVE  IInv'
<1>0. /\ proc[p].pc = "deleteToken" /\ proc[p].pc \in RevokesToken
      /\ proc[p].lease \in Tokens
  BY TokenFacts DEF deleteToken, At, RevokesToken
<1>1. CASE retryLater(p)
  BY <1>0, <1>1, retryLaterKeeps
<1>2. CASE /\ grant' = [grant EXCEPT ![proc[p].lease] = "revoked"]
           /\ pendingDeletion' = pendingDeletion \ {proc[p].lease}
           /\ Goto(p, "delete")
           /\ UNCHANGED <<now, store, memory, jobs, restoring, lifetime>>
  <2>1. LeaseStep /\ grant' \in [Leases -> {"none", "live", "revoking", "revoked", "leaked"}]
    BY <1>0, <1>2, TokenGrant
  <2>2. DataType'
    BY <1>2, <2>1, SameData DEF DataType, MemoryType
  <2> QED
    BY <1>0, <1>2, <2>1, <2>2, TokenGoto
<1> QED
  BY <1>1, <1>2 DEF deleteToken, Lease

-----------------------------------------------------------------------------
(* The timers, the jobs and the life of the manager.                       *)

\* A timer that fires queues a job and touches no entry
\* (expireLeaseStrategyFairsharing).
LEMMA expireLeaseStep ==
    ASSUME IInv, NEW l \in Leases, expireLease(l)
    PROVE  IInv'
<1>1. pending' \in [Leases -> pendingInfo \cup {None}]
  BY Facts DEF expireLease, TypeOK, Pending, pendingInfo, Off
<1>2. jobs' \in [Leases -> 0 .. MaxJobs]
  BY Facts, BoundAssumption DEF expireLease, TypeOK
<1>3. TypeOK'
  BY <1>1, <1>2, Facts DEF expireLease, TypeOK
<1> QED
  BY <1>3, Facts, QuietStep DEF expireLease, IInv

\* A worker takes a job; what it loads, it loads later (Execute).
LEMMA ExecuteStep ==
    ASSUME IInv, NEW w \in Workers, NEW l \in Leases, Execute(w, l)
    PROVE  IInv'
<1>0. w \in Gs /\ proc[w].pc = "idle"
  BY DEF Gs, Execute, At
<1>1. Moved(w, "load", l, None, None)
  BY <1>0, Facts, BeginMoves DEF Execute, Places
<1>2. jobs' \in [Leases -> 0 .. MaxJobs]
  BY Facts, BoundAssumption DEF Execute, TypeOK
<1>3. TypeOK'
  BY <1>1, <1>2, Facts DEF Execute, TypeOK, Moved, ProcType, Gs
<1>4. LeaseStep
  BY Facts, SameLeases DEF Execute
<1>5. Local(w)'
  BY <1>1 DEF Local, Moved, CarriesEntry, RevokesToken, Granted, GivenUp
<1> QED
  BY <1>0, <1>1, <1>3, <1>4, <1>5, Facts, SafeStep DEF IInv, Moved

\* A job that failed is forgotten, retried or marked irrevocable; its entry
\* stays (OnFailure).
LEMMA OnFailureStep ==
    ASSUME IInv, NEW w \in Workers, OnFailure(w)
    PROVE  IInv'
<1>0. w \in Gs
  BY DEF Gs
<1>1. CASE onFailureGone(w)
  BY <1>0, <1>1, Facts, SameLeases, SameData, ReturnKeeps
     DEF onFailureGone, At, DataType, MemoryType
<1>2. CASE onFailureRetry(w)
  <2>1. proc[w].pc = "onFailure" /\ proc[w].lease \in Leases
    BY <1>0, <1>2, Facts DEF onFailureRetry, At, Local
  <2>2. pending[proc[w].lease] \in pendingInfo /\ now \in Int
    BY <1>2, <2>1, Facts DEF onFailureRetry, TypeOK, Pending, Lease
  <2>3. pending' \in [Leases -> pendingInfo \cup {None}]
    BY <1>2, <2>1, <2>2, Facts DEF onFailureRetry, TypeOK, pendingInfo, Lease
  <2>4. DataType'
    BY <1>2, <2>3, SameData DEF onFailureRetry, DataType, MemoryType
  <2>5. LeaseStep
    BY <1>2, Facts, SameLeases DEF onFailureRetry
  <2> QED
    BY <1>0, <1>2, <2>1, <2>4, <2>5, ReturnKeeps DEF onFailureRetry
<1>3. CASE onFailureLoad(w)
  <2>1. proc[w].pc = "onFailure" /\ LeaseStep
    BY <1>3, Facts, SameLeases DEF onFailureLoad, At
  <2>2. DataType'
    BY <1>3, SameData DEF onFailureLoad, DataType, MemoryType
  <2>3. CASE Return(w)
    BY <1>0, <1>3, <2>1, <2>2, <2>3, ReturnKeeps DEF onFailureLoad
  <2>4. CASE Lease(w) \in Stored /\ Begin(w, "markIrrevocable", Lease(w), idView[Lease(w)])
    <3> DEFINE l == Lease(w)
    <3>1. Moved(w, "markIrrevocable", l, idView[l], None)
      BY <1>0, <2>4, Facts, StoredEntry, BeginMoves DEF Places
    <3>2. Local(w)'
      BY <1>3, <2>4, <3>1, StoredEntry
         DEF onFailureLoad, Local, Moved, CarriesEntry, RevokesToken, Granted, GivenUp
    <3> QED
      BY <1>0, <1>3, <2>1, <2>2, <3>1, <3>2, StepKeeps DEF onFailureLoad
  <2> QED BY <1>3, <2>3, <2>4 DEF onFailureLoad
<1>4. CASE markLeaseIrrevocable(w)
  <2>1. /\ proc[w].pc = "markIrrevocable" /\ proc[w].lease \in Leases
        /\ proc[w].le \in leaseEntry
        /\ proc[w].lease \in Secrets => grant[proc[w].lease] # "none"
    BY <1>0, <1>4, Facts DEF markLeaseIrrevocable, At, Local, CarriesEntry, Granted
  <2>2. [proc[w].le EXCEPT !.RevokeErr = TRUE] \in leaseEntry
    BY <2>1, EntryTypes
  <2>3. LeaseStep /\ idView' \in [Leases -> leaseEntry \cup {None}]
    <3>1. CASE UNCHANGED idView
      BY <1>4, <3>1, Facts, SameLeases DEF markLeaseIrrevocable, TypeOK
    <3>2. CASE persistEntry(Lease(w), [proc[w].le EXCEPT !.RevokeErr = TRUE])
      BY <1>4, <2>1, <2>2, <3>2, Facts, PersistGranted DEF markLeaseIrrevocable, Lease
    <3> QED BY <1>4, <3>1, <3>2 DEF markLeaseIrrevocable
  <2>4. MemoryType'
    BY <1>4, <2>1, Facts DEF markLeaseIrrevocable, MemoryType, Lease
  <2>5. DataType'
    BY <1>4, <2>3, <2>4, SameData DEF markLeaseIrrevocable, DataType
  <2> QED
    BY <1>0, <1>4, <2>1, <2>3, <2>5, ReturnKeeps DEF markLeaseIrrevocable
<1> QED
  BY <1>1, <1>2, <1>3, <1>4 DEF OnFailure

\* Restore sets up timers and touches no entry (Restore).
LEMMA RestoringStep ==
    ASSUME IInv, Restoring
    PROVE  IInv'
<1>1. CASE collectLeases
  BY <1>1, Facts, QuietStep DEF collectLeases, TypeOK, IInv, Stored
<1>2. ASSUME NEW l \in Leases, processRestore(l) PROVE IInv'
  <2>1. MemoryType' /\ restoreLoaded' \subseteq Leases
    BY <1>2, Facts, loadEntryType DEF processRestore
  <2>2. TypeOK'
    BY <1>2, <2>1, Facts DEF processRestore, TypeOK, MemoryType
  <2> QED
    BY <1>2, <2>2, Facts, QuietStep DEF processRestore, IInv
<1>3. CASE restoreDone
  BY <1>3, Facts, QuietStep DEF restoreDone, TypeOK, IInv
<1>4. CASE restoreAbort
  BY <1>4, Facts, QuietStep DEF restoreAbort, TypeOK, IInv
<1> QED
  BY <1>1, <1>2, <1>3, <1>4 DEF Restoring

\* Stop forgets the maps and no entry (Stop).
LEMMA StopStep ==
    ASSUME IInv, Stop
    PROVE  IInv'
<1>1. TypeOK'
  BY Facts DEF Stop, TypeOK
<1> QED
  BY <1>1, Facts, QuietStep DEF Stop, IInv

\* A crash loses the registrations that had not reached storage, and only
\* those (NewExpirationManager).
LEMMA RestartStep ==
    ASSUME IInv, Restart
    PROVE  IInv'
<1>1. grant' \in [Leases -> {"none", "live", "revoking", "revoked", "leaked"}]
  BY Facts DEF Restart, TypeOK
<1>2. proc' = [p \in Gs |-> Idle] /\ proc' \in [Gs -> Goroutine]
  BY IdleType DEF Restart, Gs
<1>3. restarts' \in 0 .. MaxRestarts
  BY Facts, BoundAssumption DEF Restart, TypeOK
<1>4. TypeOK'
  BY <1>1, <1>2, <1>3, Facts, BoundAssumption DEF Restart, TypeOK, Gs
<1>5. LocalInv'
  BY <1>2, IdleType, LeaseAssumption
     DEF LocalInv, Local, CarriesEntry, RevokesToken, Granted, GivenUp, Leases
<1>6. StoredGranted'
  <2> SUFFICES ASSUME NEW l \in Secrets, idView'[l] # None PROVE grant'[l] # "none"
    BY DEF StoredGranted
  <2>1. l \in Stored /\ grant[l] # "none"
    BY Facts DEF Restart, Safety, StoredGranted, Stored, Leases
  <2> QED
    BY <2>1 DEF Restart, Leases
<1>7. LiveSecretTracked'
  <2> SUFFICES ASSUME NEW l \in Secrets, grant'[l] = "live" PROVE idView'[l] # None
    BY DEF LiveSecretTracked, Stored, Leases
  <2>1. /\ grant[l] = "live"
        /\ \/ l \in Stored
           \/ ~\E p \in Procs : Lease(p) = l /\ proc[p].pc \in {"persist", "rollback"}
    BY DEF Restart, Leases
  <2>2. CASE l \in Stored
    BY <2>2 DEF Stored, Restart
  <2>3. CASE l \notin Stored
    <3>1. PICK q \in Gs : proc[q].lease = l /\ proc[q].pc \in {"persist", "rollback"}
      BY <2>1, <2>3, Facts DEF Safety, LiveSecretTracked, InFlight, Gs
    <3>2. q \in Procs
      BY <3>1, Facts DEF Local, Gs
    <3> QED
      BY <2>1, <2>3, <3>1, <3>2 DEF Lease
  <2> QED BY <2>2, <2>3
<1> QED
  BY <1>4, <1>5, <1>6, <1>7 DEF IInv, Safety

\* The clock only moves the clock (Tick).
LEMMA TickStep ==
    ASSUME IInv, Tick
    PROVE  IInv'
<1>1. now' \in 0 .. MaxTime
  BY Facts, BoundAssumption DEF Tick, TypeOK
<1>2. TypeOK'
  BY <1>1, Facts DEF Tick, TypeOK
<1> QED
  BY <1>2, Facts, QuietStep DEF Tick, IInv

-----------------------------------------------------------------------------

\* IInv holds initially (NewExpirationManager).
LEMMA InitIInv == Init => IInv
<1> SUFFICES ASSUME Init PROVE IInv
  OBVIOUS
<1>1. proc = [p \in Gs |-> Idle] /\ proc \in [Gs -> Goroutine]
  BY IdleType DEF Init, Gs
<1>2. TypeOK
  BY <1>1, BoundAssumption DEF Init, NewExpirationManager, TypeOK, Gs
<1>3. Safety
  BY <1>1, IdleType, LeaseAssumption
     DEF Init, Safety, LocalInv, Local, StoredGranted, LiveSecretTracked, Leases,
         CarriesEntry, RevokesToken, Granted, GivenUp
<1> QED
  BY <1>2, <1>3 DEF IInv

\* Every step of a request or a job keeps IInv (Steps).
LEMMA StepsStep ==
    ASSUME IInv, NEW p \in Gs, Steps(p)
    PROVE  IInv'
BY RegisterPersistStep, RegisterIndexStep, updatePendingStep, RollbackRevokeStep,
   RollbackDeleteStep, RollbackIndexStep, renewEntryStep, saveEntryStep,
   createRevocationLeaseStep, revokeLoadStep, revokeEntryStep, revokeDeleteStep,
   revokeUnindexStep, revokeClearStep, revokeInternalStep, revokeMarkStep,
   RevokeByTokenStep, expireLoadStep, expireSaveStep, ownLoadStep, ownDeleteStep,
   ownClearStep, deleteTokenStep DEF Steps

\* Every step keeps IInv (Next).
LEMMA NextIInv == IInv /\ [Next]_vars => IInv'
<1> SUFFICES ASSUME IInv, [Next]_vars PROVE IInv'
  OBVIOUS
<1>1. CASE UNCHANGED vars
  <2>1. TypeOK'
    BY <1>1, Facts DEF TypeOK, vars
  <2> QED
    BY <1>1, <2>1, Facts, QuietStep DEF vars, IInv
<1>2. CASE Next
  <2>1. ASSUME NEW p \in Procs, Requests(p) PROVE IInv'
    BY <2>1, RequestsStep
  <2>2. ASSUME NEW p \in Gs, Steps(p) PROVE IInv'
    BY <2>2, StepsStep
  <2>3. ASSUME NEW w \in Workers, OnFailure(w) PROVE IInv'
    BY <2>3, OnFailureStep
  <2>4. ASSUME NEW l \in Leases, expireLease(l) PROVE IInv'
    BY <2>4, expireLeaseStep
  <2>5. ASSUME NEW w \in Workers, NEW l \in Leases, Execute(w, l) PROVE IInv'
    BY <2>5, ExecuteStep
  <2>6. CASE Restoring \/ Stop \/ Restart \/ Tick
    BY <2>6, RestoringStep, StopStep, RestartStep, TickStep
  <2> QED
    BY <1>2, <2>1, <2>2, <2>3, <2>4, <2>5, <2>6 DEF Next, Gs
<1> QED BY <1>1, <1>2

\* The state of the expiration manager keeps its type: no operation builds
\* an entry, a timer or a goroutine that is malformed (expiration.go).
THEOREM TypeCorrect == Spec => []TypeOK
<1>1. IInv => TypeOK
  BY DEF IInv
<1> QED
  BY <1>1, InitIInv, NextIInv, PTL DEF Spec

\* A secret that its backend honours never loses its lease entry, for any
\* number of leases, requests, workers, faults and crashes: only revokeCommon
\* after revokeEntry, and the rollback of Register, delete an entry.
THEOREM LeaseSafety == Spec => []LiveSecretTracked
<1>1. IInv => LiveSecretTracked
  BY DEF IInv, Safety
<1> QED
  BY <1>1, InitIInv, NextIInv, PTL DEF Spec

-----------------------------------------------------------------------------
(* Root tokens.  Only LazyRevoke and the revocation lease of a token give  *)
(* an entry without expiration a time at which it is due; without them no  *)
(* timer is ever set for a root token.                                     *)

\* No request asks for the lease of a token to become due.
NoneMadeDue == Ops \cap {"lazyRevoke", "revokeToken"} = {}

\* The entry of t, if it has one, does not expire, and neither a timer nor a
\* job is there for it.
RootData(t) ==
    /\ idView[t] # None => idView[t].ExpireTime = Zero
    /\ pending[t] = None
    /\ jobs[t] = 0

\* No worker has t, and what a goroutine carries for t does not expire.
RootLocal(p, t) ==
    proc[p].lease = t =>
        /\ p \notin Workers
        /\ proc[p].pc \notin {"create", "renewing", "save", "markIrrevocable"}
        /\ proc[p].pc \in {"persist", "index", "pend"} => proc[p].le.ExpireTime = Zero

\* The inductive invariant of RootTokenKept: it holds of a root token
\* whether it is live or not.
RootInv(t) == RootData(t) /\ \A p \in Gs : RootLocal(p, t)

\* Only goroutine p moves (RootInv).
LEMMA RootKeeps ==
    ASSUME NEW t, RootInv(t), NEW p \in Gs, \A q \in Gs : q # p => proc'[q] = proc[q],
           RootLocal(p, t)', RootData(t)'
    PROVE  RootInv(t)'
BY DEF RootInv, RootLocal

\* A goroutine that returns, fails, or goes where no entry is used
\* (Goto, Return, Fail).
LEMMA RootGoto ==
    ASSUME IInv, NEW t \in RootTokens, RootInv(t), RootData(t)', NEW p \in Gs, NEW x \in Places,
           x \notin {"create", "renewing", "save", "markIrrevocable", "persist", "index", "pend"},
           Goto(p, x) \/ Return(p) \/ Fail(p)
    PROVE  RootInv(t)'
<1>0. t \in Leases /\ t # None /\ ProcType
  BY Facts, LeaseAssumption DEF Leases
<1>1. PICK y, l, e, s : /\ Moved(p, y, l, e, s) /\ l \in {None, proc[p].lease}
                        /\ y \notin {"create", "renewing", "save", "markIrrevocable",
                                     "persist", "index", "pend"}
  BY <1>0, GotoMoves, ReturnMoves, FailMoves
<1>2. RootLocal(p, t)'
  BY <1>0, <1>1 DEF RootLocal, Moved, RootInv
<1> QED
  BY <1>1, <1>2, RootKeeps DEF Moved

\* Nothing sets a timer for t when the entry does not expire
\* (updatePendingInternal, loadEntry, clearLease).
LEMMA RootTimers ==
    ASSUME IInv, NEW t \in RootTokens, RootInv(t), NEW l \in Leases, NEW e \in leaseEntry,
           \/ updatePendingInternal(l, e) /\ (l = t => e.ExpireTime = Zero)
           \/ loadEntry(l)
           \/ clearLease(l)
    PROVE  pending'[t] = None
<1>0. t \in Leases /\ pending \in [Leases -> pendingInfo \cup {None}] /\ pending[t] = None
  BY Facts, LeaseAssumption DEF Leases, MemoryType, RootInv, RootData
<1>1. ASSUME NEW f \in leaseEntry, updatePendingInternal(l, f), l = t => f.ExpireTime = Zero
      PROVE  pending'[t] = None
  <2>1. CASE l = t
    BY <1>0, <1>1, <2>1 DEF updatePendingInternal, updateNonexpiring, updateIrrevocable, nonexpiringToken
  <2>2. CASE l # t
    BY <1>0, <1>1, <2>2 DEF updatePendingInternal, updateNonexpiring, updateIrrevocable, updateTimer
  <2> QED BY <2>1, <2>2
<1>2. CASE loadEntry(l)
  <2>1. CASE l \in Stored /\ updatePendingInternal(l, idView[l])
    <3>1. idView[l] \in leaseEntry /\ (l = t => idView[l].ExpireTime = Zero)
      BY <2>1, StoredEntry DEF RootInv, RootData, Stored
    <3> QED BY <1>1, <2>1, <3>1
  <2>2. CASE UNCHANGED pending
    BY <1>0, <2>2
  <2> QED BY <1>2, <2>1, <2>2 DEF loadEntry
<1>3. CASE clearLease(l)
  BY <1>0, <1>3 DEF clearLease
<1> QED BY <1>1, <1>2, <1>3

\* A request begins: on another lease, with an entry that does not expire, or
\* on the way to a revocation (Requests).
LEMMA RootRequests ==
    ASSUME IInv, NoneMadeDue, NEW t \in RootTokens, RootInv(t), NEW p \in Procs, Requests(p)
    PROVE  RootInv(t)'
<1>0. /\ p \in Gs /\ p \notin Workers /\ t \in Leases /\ t \in Tokens /\ ProcType
      /\ "lazyRevoke" \notin Ops /\ "revokeToken" \notin Ops
  BY ProcAssumption, LeaseAssumption, Facts DEF Gs, Leases, NoneMadeDue
<1>1. ASSUME NEW l \in Leases, Begin(p, "persist", l, NewEntry(l)), UNCHANGED <<store, memory, jobs>>
      PROVE  RootInv(t)'
  <2>1. Moved(p, "persist", l, NewEntry(l), None)
    BY <1>0, <1>1, Facts, NewEntryType, BeginMoves DEF Places
  <2>2. RootLocal(p, t)'
    BY <1>0, <2>1 DEF RootLocal, Moved, NewEntry
  <2>3. RootData(t)'
    BY <1>1 DEF RootData, RootInv
  <2> QED BY <1>0, <2>1, <2>2, <2>3, RootKeeps DEF Moved
<1>2. ASSUME NEW l \in Leases, Renew(p, l) PROVE RootInv(t)'
  <2>1. l \in Stored /\ l # t
    BY <1>2 DEF Renew, renewable, RootInv, RootData, Stored
  <2>2. Moved(p, "renewing", l, idView[l], None)
    BY <1>0, <1>2, <2>1, Facts, StoredEntry, BeginMoves DEF Renew, Places
  <2>3. RootLocal(p, t)'
    BY <2>1, <2>2 DEF RootLocal, Moved
  <2>4. pending'[t] = None
    BY <1>2, <2>1, StoredEntry, RootTimers DEF Renew
  <2>5. RootData(t)'
    BY <1>2, <2>4 DEF RootData, RootInv, Renew
  <2> QED BY <1>0, <2>2, <2>3, <2>5, RootKeeps DEF Moved
<1>3. ASSUME NEW l \in Leases, FetchLeaseTimes(p, l) PROVE RootInv(t)'
  <2>1. l \in Stored
    BY <1>3 DEF FetchLeaseTimes
  <2>2. Moved(p, "pend", l, idView[l], None)
    BY <1>0, <1>3, <2>1, Facts, StoredEntry, BeginMoves DEF FetchLeaseTimes, Places
  <2>3. RootLocal(p, t)'
    BY <1>0, <2>1, <2>2 DEF RootLocal, Moved, RootInv, RootData, Stored
  <2>4. RootData(t)'
    BY <1>3 DEF RootData, RootInv, FetchLeaseTimes
  <2> QED BY <1>0, <2>2, <2>3, <2>4, RootKeeps DEF Moved
<1>4. ASSUME NEW l \in Leases, NEW force \in BOOLEAN, Revoke(p, l, force) PROVE RootInv(t)'
  <2>1. l \in Stored
    BY <1>4 DEF Revoke
  <2> DEFINE g == [Idle EXCEPT !.pc = "revoke", !.lease = l, !.force = force]
  <2>2. g.pc = "revoke" /\ g.lease = l
    BY DEF Idle
  <2>3. proc' = [proc EXCEPT ![p] = g]
    BY <1>4 DEF Revoke
  <2> HIDE DEF g
  <2>4. proc'[p].pc = "revoke" /\ \A q \in Gs : q # p => proc'[q] = proc[q]
    BY <1>0, <2>2, <2>3 DEF ProcType
  <2>5. RootLocal(p, t)'
    BY <1>0, <2>4 DEF RootLocal
  <2>6. pending'[t] = None
    BY <1>4, <2>1, StoredEntry, RootTimers DEF Revoke
  <2>7. RootData(t)'
    BY <1>4, <2>6 DEF RootData, RootInv, Revoke
  <2> QED BY <1>0, <2>4, <2>5, <2>7, RootKeeps
<1>5. ASSUME NEW l \in Secrets, Register(p, l) PROVE RootInv(t)'
  BY <1>1, <1>5 DEF Register, Leases
<1>6. ASSUME NEW l \in Tokens, RegisterAuth(p, l) PROVE RootInv(t)'
  BY <1>1, <1>6 DEF RegisterAuth, Leases
<1> QED
  BY <1>0, <1>2, <1>3, <1>4, <1>5, <1>6
     DEF Requests, LazyRevoke, CreateOrFetchRevocationLeaseByToken, Request

\* The entry of another lease is written, or one is deleted (persistEntry,
\* deleteEntry).
LEMMA RootEntries ==
    ASSUME IInv, NEW t \in RootTokens, RootInv(t), NEW l \in Leases, NEW e \in leaseEntry,
           \/ persistEntry(l, e) /\ (l = t => e.ExpireTime = Zero)
           \/ deleteEntry(l)
           \/ UNCHANGED idView
    PROVE  idView'[t] # None => idView'[t].ExpireTime = Zero
<1>1. t \in Leases /\ idView \in [Leases -> leaseEntry \cup {None}]
  BY Facts, LeaseAssumption DEF Leases, TypeOK
<1> QED
  BY <1>1 DEF RootInv, RootData, persistEntry, deleteEntry

\* The steps of a registration (Register, RegisterAuth, updatePending).
LEMMA RootRegistration ==
    ASSUME IInv, NEW t \in RootTokens, RootInv(t), NEW p \in Gs,
           \/ RegisterPersist(p) \/ RegisterIndex(p) \/ updatePending(p)
           \/ RollbackRevoke(p) \/ RollbackDelete(p) \/ RollbackIndex(p)
    PROVE  RootInv(t)'
<1> DEFINE l == proc[p].lease
<1>0. /\ t \in Leases /\ l \in Leases /\ ProcType
      /\ proc[p].pc \in {"persist", "index", "pend"} =>
           proc[p].le \in leaseEntry /\ (l = t => proc[p].le.ExpireTime = Zero)
  BY Facts, LeaseAssumption
     DEF Leases, Local, CarriesEntry, RootInv, RootLocal, At, RegisterPersist, RegisterIndex,
         updatePending, RollbackRevoke, RollbackDelete, RollbackIndex
<1>1. CASE RegisterPersist(p)
  <2>1. proc[p].pc = "persist"
    BY <1>1 DEF RegisterPersist, At
  <2>2. RootData(t)'
    <3>1. idView'[t] # None => idView'[t].ExpireTime = Zero
      BY <1>0, <1>1, <2>1, RootEntries DEF RegisterPersist, Lease
    <3> QED BY <1>1, <3>1 DEF RegisterPersist, RootInv, RootData
  <2>3. CASE Goto(p, IF l \in Secrets /\ ClientToken[l] # None THEN "index" ELSE "pend")
    <3> DEFINE x == IF l \in Secrets /\ ClientToken[l] # None THEN "index" ELSE "pend"
    <3>1. Moved(p, x, l, proc[p].le, proc[p].sub)
      BY <1>0, <2>3, GotoMoves DEF Places
    <3>2. RootLocal(p, t)'
      BY <1>0, <2>1, <3>1 DEF RootLocal, Moved, RootInv
    <3> QED BY <2>2, <3>1, <3>2, RootKeeps DEF Moved
  <2>4. CASE Goto(p, "rollback") \/ Return(p)
    BY <2>2, <2>4, RootGoto DEF Places
  <2> QED BY <1>1, <2>3, <2>4 DEF RegisterPersist, Lease
<1>2. CASE RegisterIndex(p)
  <2>1. proc[p].pc = "index" /\ RootData(t)'
    BY <1>2 DEF RegisterIndex, At, RootInv, RootData
  <2>2. CASE Goto(p, "pend")
    <3>1. Moved(p, "pend", l, proc[p].le, proc[p].sub)
      BY <1>0, <2>2, GotoMoves DEF Places
    <3>2. RootLocal(p, t)'
      BY <1>0, <2>1, <3>1 DEF RootLocal, Moved, RootInv
    <3> QED BY <2>1, <3>1, <3>2, RootKeeps DEF Moved
  <2>3. CASE Goto(p, "rollback")
    BY <2>1, <2>3, RootGoto DEF Places
  <2> QED BY <1>2, <2>2, <2>3 DEF RegisterIndex
<1>3. CASE updatePending(p)
  <2>1. proc[p].pc = "pend"
    BY <1>3 DEF updatePending, At
  <2>2. pending'[t] = None
    BY <1>0, <1>3, <2>1, RootTimers DEF updatePending, Lease
  <2>3. RootData(t)'
    BY <1>3, <2>2 DEF updatePending, RootInv, RootData
  <2> QED BY <1>3, <2>3, RootGoto DEF updatePending, Places
<1>4. CASE RollbackRevoke(p) \/ RollbackIndex(p)
  <2>1. RootData(t)'
    BY <1>4 DEF RollbackRevoke, RollbackIndex, RootInv, RootData
  <2> QED BY <1>4, <2>1, RootGoto DEF RollbackRevoke, RollbackIndex, Places
<1>5. CASE RollbackDelete(p)
  <2>1. idView'[t] # None => idView'[t].ExpireTime = Zero
    BY <1>0, <1>5, RootEntries, EntryTypes DEF RollbackDelete, Lease
  <2>2. RootData(t)'
    BY <1>5, <2>1 DEF RollbackDelete, RootInv, RootData
  <2> QED BY <1>5, <2>2, RootGoto DEF RollbackDelete, Places
<1> QED BY <1>1, <1>2, <1>3, <1>4, <1>5

\* A renewal and the entry of a revocation are of other leases (Renew,
\* LazyRevoke, createRevocationLease).
LEMMA RootRenewal ==
    ASSUME IInv, NEW t \in RootTokens, RootInv(t), NEW p \in Gs,
           renewEntry(p) \/ saveEntry(p) \/ createRevocationLease(p)
    PROVE  RootInv(t)'
<1> DEFINE l == proc[p].lease
<1>0. /\ t \in Leases /\ l \in Leases /\ l # t /\ t # None /\ ProcType /\ now \in Nat
      /\ proc[p].pc = "save" => proc[p].le \in leaseEntry
  BY Facts, LeaseAssumption
     DEF Leases, Local, CarriesEntry, RootInv, RootLocal, At, renewEntry, saveEntry,
         createRevocationLease, TypeOK
<1>1. RootLocal(p, t)' /\ \A q \in Gs : q # p => proc'[q] = proc[q]
  <2>1. CASE Goto(p, "load") \/ Return(p)
    <3>1. PICK x, k, e, s : Moved(p, x, k, e, s) /\ k \in {None, l}
      BY <1>0, <2>1, GotoMoves, ReturnMoves DEF Places
    <3> QED BY <1>0, <3>1 DEF Moved, RootLocal
  <2>2. CASE proc' = [proc EXCEPT ![p].le.ExpireTime = now + TTL, ![p].pc = "save"]
    BY <1>0, <2>2 DEF RootLocal, ProcType, Goroutine
  <2> QED BY <2>1, <2>2 DEF renewEntry, saveEntry, createRevocationLease
<1>2. idView'[t] # None => idView'[t].ExpireTime = Zero
  <2>1. CASE renewEntry(p)
    BY <2>1 DEF renewEntry, RootInv, RootData
  <2>2. CASE saveEntry(p)
    BY <1>0, <2>2, RootEntries DEF saveEntry, At, Lease
  <2>3. CASE createRevocationLease(p)
    <3> DEFINE e == [ExpireTime |-> now, RevokeErr |-> FALSE]
    <3>1. e \in leaseEntry
      BY <1>0, EntryTypes
    <3> HIDE DEF e
    <3>2. persistEntry(l, e) \/ UNCHANGED idView
      BY <2>3 DEF createRevocationLease, Lease, e
    <3> QED BY <1>0, <3>1, <3>2, RootEntries
  <2> QED BY <2>1, <2>2, <2>3
<1>3. pending'[t] = None
  <2>1. CASE saveEntry(p) /\ updatePendingInternal(l, proc[p].le)
    BY <1>0, <2>1, RootTimers DEF saveEntry, At
  <2>2. CASE UNCHANGED pending
    BY <2>2 DEF RootInv, RootData
  <2> QED
    BY <2>1, <2>2 DEF renewEntry, saveEntry, createRevocationLease, Lease
<1>4. RootData(t)'
  BY <1>2, <1>3 DEF renewEntry, saveEntry, createRevocationLease, RootInv, RootData
<1> QED BY <1>1, <1>4, RootKeeps

\* The steps of a revocation (revokeCommon, revokeEntry).
LEMMA RootRevocation ==
    ASSUME IInv, NEW t \in RootTokens, RootInv(t), NEW p \in Gs,
           \/ revokeLoad(p) \/ revokeEntry(p)
           \/ revokeDelete(p) \/ revokeUnindex(p) \/ revokeClear(p)
    PROVE  RootInv(t)'
<1> DEFINE l == proc[p].lease
<1>0. t \in Leases /\ l \in Leases
  BY Facts, LeaseAssumption
     DEF Leases, Local, At, revokeLoad, revokeEntry, revokeDelete, revokeUnindex, revokeClear
<1>1. PICK e : e \in leaseEntry
  BY EntryTypes
<1>2. idView'[t] # None => idView'[t].ExpireTime = Zero
  BY <1>0, <1>1, RootEntries
     DEF revokeLoad, revokeEntry, revokeDelete, revokeUnindex, revokeClear, Lease
<1>3. pending'[t] = None
  <2>1. CASE loadEntry(l) \/ clearLease(l)
    BY <1>0, <1>1, <2>1, RootTimers
  <2>2. CASE UNCHANGED pending
    BY <2>2 DEF RootInv, RootData
  <2> QED
    BY <2>1, <2>2 DEF revokeLoad, revokeEntry, revokeDelete, revokeUnindex, revokeClear, Lease
<1>4. RootData(t)'
  BY <1>2, <1>3 DEF RootInv, RootData, revokeLoad, revokeEntry, revokeDelete, revokeUnindex,
                    revokeClear
<1>5. PICK x \in {"revoke", "delete", "unindex", "clear"} : Goto(p, x) \/ Return(p) \/ Fail(p)
  BY DEF revokeLoad, revokeEntry, revokeDelete, revokeUnindex, revokeClear
<1> QED
  BY <1>4, <1>5, RootGoto DEF Places

\* The steps of the revocation of a token that touch no secret
\* (revokeInternal, RevokeByToken).
LEMMA RootTokenSteps ==
    ASSUME IInv, NEW t \in RootTokens, RootInv(t), NEW p \in Gs,
           \/ revokeInternal(p) \/ revokeMark(p) \/ ownLoad(p) \/ ownDelete(p)
           \/ ownClear(p) \/ deleteToken(p) \/ (retryLater(p) /\ proc[p].pc # "idle")
    PROVE  RootInv(t)'
<1> DEFINE l == proc[p].lease
<1>0. t \in Leases /\ l \in Leases
  BY Facts, LeaseAssumption
     DEF Leases, Local, At, revokeInternal, revokeMark, ownLoad, ownDelete, ownClear, deleteToken
<1>1. PICK e : e \in leaseEntry
  BY EntryTypes
<1>2. idView'[t] # None => idView'[t].ExpireTime = Zero
  BY <1>0, <1>1, RootEntries
     DEF revokeInternal, revokeMark, ownLoad, ownDelete, ownClear, deleteToken, retryLater, Lease
<1>3. pending'[t] = None
  <2>1. CASE loadEntry(l) \/ clearLease(l)
    BY <1>0, <1>1, <2>1, RootTimers
  <2>2. CASE UNCHANGED pending
    BY <2>2 DEF RootInv, RootData
  <2> QED
    BY <2>1, <2>2
       DEF revokeInternal, revokeMark, ownLoad, ownDelete, ownClear, deleteToken, retryLater, Lease
<1>4. RootData(t)'
  BY <1>2, <1>3 DEF RootInv, RootData, revokeInternal, revokeMark, ownLoad, ownDelete,
                    ownClear, deleteToken, retryLater
<1>5. PICK x \in {"delete", "mark", "byToken", "ownDelete", "ownClear", "deleteToken"} :
         Goto(p, x) \/ Return(p) \/ Fail(p)
  BY DEF revokeInternal, revokeMark, ownLoad, ownDelete, ownClear, deleteToken, retryLater, tokenFail
<1> QED
  BY <1>4, <1>5, RootGoto DEF Places

\* The leases a token made are secrets (RevokeByToken).
LEMMA RootByToken ==
    ASSUME IInv, NEW t \in RootTokens, RootInv(t), NEW p \in Gs, NEW l,
           RevokeByToken(p) \/ (l \in Secrets /\ expireLoad(p, l)) \/ expireSave(p)
    PROVE  RootInv(t)'
<1>0. t \in Leases /\ t \notin Secrets /\ ProcType
  BY Facts, LeaseAssumption DEF Leases
<1>1. CASE retryLater(p) /\ proc[p].pc # "idle"
  BY <1>1, RootTokenSteps
<1>2. ASSUME RootData(t)', NEW f, proc' = [proc EXCEPT ![p] = f], f.lease = proc[p].lease,
             f.pc \in {"expire", "expireSave"}
      PROVE  RootInv(t)'
  <2>1. proc'[p].lease = proc[p].lease /\ proc'[p].pc \in {"expire", "expireSave"}
    BY <1>0, <1>2 DEF ProcType
  <2>2. RootLocal(p, t)' /\ \A q \in Gs : q # p => proc'[q] = proc[q]
    BY <1>0, <1>2, <2>1 DEF RootLocal, RootInv, ProcType
  <2> QED BY <1>2, <2>2, RootKeeps
<1>3. CASE RevokeByToken(p)
  <2>1. CASE /\ proc' = [proc EXCEPT ![p].pc = "expire",
                                     ![p].todo = lookupLeasesByToken(Lease(p))]
             /\ UNCHANGED <<now, store, backends, memory, jobs, restoring, lifetime>>
    <3>1. RootData(t)'
      BY <2>1 DEF RootInv, RootData
    <3>2. proc[p] \in Goroutine
      BY <1>0 DEF ProcType
    <3> DEFINE f == [proc[p] EXCEPT !.pc = "expire", !.todo = lookupLeasesByToken(Lease(p))]
    <3>3. f.lease = proc[p].lease /\ f.pc = "expire"
      BY <3>2 DEF Goroutine
    <3>4. proc' = [proc EXCEPT ![p] = f]
      BY <1>0, <2>1 DEF ProcType
    <3> HIDE DEF f
    <3> QED BY <1>2, <3>1, <3>3, <3>4
  <2> QED BY <1>1, <1>3, <2>1 DEF RevokeByToken, At
<1>4. CASE l \in Secrets /\ expireLoad(p, l)
  <2>1. CASE retryLater(p)
    BY <1>1, <1>4, <2>1 DEF expireLoad, At
  <2> DEFINE a == IF l \in Stored THEN "expireSave" ELSE "expire"
             b == IF l \in Stored THEN l ELSE None
             c == IF l \in Stored THEN [idView[l] EXCEPT !.ExpireTime = now] ELSE None
  <2>2. CASE /\ loadEntry(l)
             /\ proc' = [proc EXCEPT ![p].todo = @ \ {l}, ![p].pc = a, ![p].sub = b, ![p].le = c]
             /\ UNCHANGED <<now, store, backends, jobs, restore, toRestore, lifetime>>
    <3>1. pending'[t] = None
      <4>1. l \in Leases /\ loadEntry(l)
        BY <1>4, <2>2 DEF Leases
      <4>2. PICK e : e \in leaseEntry
        BY EntryTypes
      <4> QED BY <4>1, <4>2, RootTimers
    <3>2. RootData(t)'
      BY <2>2, <3>1 DEF RootInv, RootData
    <3>3. proc[p] \in Goroutine
      BY <1>0 DEF ProcType
    <3> DEFINE f == [proc[p] EXCEPT !.todo = @ \ {l}, !.pc = a, !.sub = b, !.le = c]
    <3>4. proc' = [proc EXCEPT ![p].todo = @ \ {l}, ![p].pc = a, ![p].sub = b, ![p].le = c]
      BY <2>2
    <3>5. a \in {"expire", "expireSave"}
      OBVIOUS
    <3> HIDE DEF a, b, c
    <3>6. f.lease = proc[p].lease /\ f.pc \in {"expire", "expireSave"}
      BY <3>3, <3>5 DEF Goroutine
    <3>7. proc' = [proc EXCEPT ![p] = f]
      BY <1>0, <3>4 DEF ProcType
    <3> HIDE DEF f
    <3> QED BY <1>2, <3>2, <3>6, <3>7
  <2> QED BY <1>4, <2>1, <2>2 DEF expireLoad
<1>5. CASE expireSave(p)
  <2>0. proc[p].pc = "expireSave" /\ proc[p].sub \in Secrets /\ proc[p].le \in leaseEntry
    BY <1>5, Facts DEF expireSave, At, Local, CarriesEntry
  <2>1. CASE retryLater(p)
    BY <1>1, <2>0, <2>1
  <2>2. CASE ~retryLater(p)
    <3>1. proc[p].sub \in Leases /\ proc[p].sub # t
      BY <1>0, <2>0 DEF Leases
    <3>2. pending'[t] = None /\ (idView'[t] # None => idView'[t].ExpireTime = Zero)
      BY <1>5, <2>0, <2>2, <3>1, RootTimers, RootEntries DEF expireSave
    <3>3. RootData(t)'
      BY <1>5, <2>2, <3>2 DEF RootInv, RootData, expireSave
    <3>4. proc[p] \in Goroutine
      BY <1>0 DEF ProcType
    <3> DEFINE f == [proc[p] EXCEPT !.pc = "expire", !.sub = None, !.le = None]
    <3>5. f.lease = proc[p].lease /\ f.pc = "expire"
      BY <3>4 DEF Goroutine
    <3>6. proc' = [proc EXCEPT ![p] = f]
      BY <1>0, <1>5, <2>2 DEF ProcType, expireSave
    <3> HIDE DEF f
    <3> QED BY <1>2, <3>3, <3>5, <3>6
  <2> QED BY <2>1, <2>2
<1> QED BY <1>3, <1>4, <1>5

\* Every step of a request or a job keeps RootInv (Steps).
LEMMA RootSteps ==
    ASSUME IInv, NEW t \in RootTokens, RootInv(t), NEW p \in Gs, Steps(p)
    PROVE  RootInv(t)'
<1>1. ASSUME NEW l \in Secrets, expireLoad(p, l) PROVE RootInv(t)'
  BY <1>1, RootByToken
<1>2. CASE RevokeByToken(p) \/ expireSave(p)
  BY <1>2, RootByToken
<1> QED
  BY <1>1, <1>2, RootRegistration, RootRenewal, RootRevocation, RootTokenSteps DEF Steps

\* No timer fires for t and no job of it is handed out or fails
\* (expireLease, Execute, OnFailure).
LEMMA RootJobs ==
    ASSUME IInv, NEW t \in RootTokens, RootInv(t), NEW w, NEW l,
           \/ l \in Leases /\ expireLease(l)
           \/ w \in Workers /\ l \in Leases /\ Execute(w, l)
           \/ w \in Workers /\ OnFailure(w)
    PROVE  RootInv(t)'
<1>0. /\ t \in Leases /\ t # None /\ ProcType /\ MemoryType /\ jobs \in [Leases -> 0 .. MaxJobs]
      /\ idView \in [Leases -> leaseEntry \cup {None}]
      /\ pending[t] = None /\ jobs[t] = 0
      /\ w \in Workers => w \in Gs /\ proc[w].lease # t
  BY Facts, LeaseAssumption DEF Leases, TypeOK, RootInv, RootData, RootLocal, Gs
<1>1. CASE l \in Leases /\ expireLease(l)
  <2>1. l # t
    BY <1>0, <1>1 DEF expireLease, Pending
  <2>2. RootData(t)'
    BY <1>0, <1>1, <2>1 DEF expireLease, RootInv, RootData, MemoryType
  <2> QED BY <1>1, <2>2 DEF expireLease, RootInv, RootLocal
<1>2. CASE w \in Workers /\ l \in Leases /\ Execute(w, l)
  <2>1. l # t
    BY <1>0, <1>2 DEF Execute
  <2>2. RootData(t)'
    BY <1>0, <1>2, <2>1 DEF Execute, RootInv, RootData
  <2>3. Moved(w, "load", l, None, None)
    BY <1>0, <1>2, BeginMoves DEF Execute, Places
  <2>4. RootLocal(w, t)'
    BY <2>1, <2>3 DEF RootLocal, Moved
  <2> QED BY <1>0, <1>2, <2>2, <2>3, <2>4, RootKeeps DEF Moved
<1>3. CASE w \in Workers /\ OnFailure(w)
  <2>0. /\ w \in Gs /\ proc[w].lease # t /\ proc[w].lease \in Leases
        /\ proc[w].pc = "markIrrevocable" => proc[w].le \in leaseEntry
    BY <1>0, <1>3, Facts DEF OnFailure, onFailureGone, onFailureRetry, onFailureLoad,
                             markLeaseIrrevocable, At, Local, CarriesEntry
  <2>1. RootData(t)'
    <3>1. CASE onFailureGone(w) \/ onFailureLoad(w)
      BY <3>1 DEF onFailureGone, onFailureLoad, RootInv, RootData
    <3>2. CASE onFailureRetry(w)
      BY <1>0, <2>0, <3>2 DEF onFailureRetry, RootInv, RootData, MemoryType, Lease
    <3>3. CASE markLeaseIrrevocable(w)
      BY <1>0, <2>0, <3>3
         DEF markLeaseIrrevocable, RootInv, RootData, MemoryType, Lease, persistEntry
    <3> QED BY <1>3, <3>1, <3>2, <3>3 DEF OnFailure
  <2>2. CASE Return(w)
    <3>1. "delete" \in Places BY DEF Places
    <3> QED BY <2>0, <2>1, <2>2, <3>1, RootGoto
  <2>3. CASE /\ Lease(w) \in Stored
             /\ Begin(w, "markIrrevocable", Lease(w), idView[Lease(w)])
    <3>1. Moved(w, "markIrrevocable", Lease(w), idView[Lease(w)], None)
      BY <1>0, <2>0, <2>3, StoredEntry, BeginMoves DEF Places, Lease
    <3>2. RootLocal(w, t)'
      BY <2>0, <3>1 DEF RootLocal, Moved, Lease
    <3> QED BY <2>0, <2>1, <3>1, <3>2, RootKeeps DEF Moved
  <2> QED
    BY <1>3, <2>2, <2>3 DEF OnFailure, onFailureGone, onFailureRetry, onFailureLoad,
                            markLeaseIrrevocable
<1> QED BY <1>1, <1>2, <1>3

\* Restore sets no timer for t, and Stop and Restart clear what there is
\* (Restore, Stop, NewExpirationManager).
LEMMA RootRestart ==
    ASSUME IInv, NEW t \in RootTokens, RootInv(t), Restoring \/ Stop \/ Restart \/ Tick
    PROVE  RootInv(t)'
<1>0. t \in Leases /\ t # None
  BY LeaseAssumption DEF Leases
<1>1. CASE Restoring
  <2>1. ASSUME NEW l \in Leases, processRestore(l) PROVE pending'[t] = None
    <3>1. PICK e : e \in leaseEntry
      BY EntryTypes
    <3> QED BY <2>1, <3>1, RootTimers DEF processRestore
  <2>2. pending'[t] = None
    BY <1>1, <2>1 DEF Restoring, collectLeases, restoreDone, restoreAbort, RootInv, RootData
  <2>3. UNCHANGED <<idView, jobs, proc>>
    BY <1>1 DEF Restoring, collectLeases, processRestore, restoreDone, restoreAbort
  <2> QED BY <2>2, <2>3 DEF RootInv, RootData, RootLocal
<1>2. CASE Stop \/ Tick
  BY <1>0, <1>2 DEF Stop, Tick, RootInv, RootData, RootLocal
<1>3. CASE Restart
  <2>1. RootData(t)'
    BY <1>0, <1>3 DEF Restart, RootInv, RootData
  <2>2. \A p \in Gs : proc'[p].lease # t
    BY <1>0, <1>3, IdleType DEF Restart, Gs
  <2> QED BY <2>1, <2>2 DEF RootInv, RootLocal
<1> QED BY <1>1, <1>2, <1>3

\* Every step keeps RootInv (Next).
LEMMA RootNext ==
    ASSUME IInv, NoneMadeDue, NEW t \in RootTokens, RootInv(t), [Next]_vars
    PROVE  RootInv(t)'
<1>1. CASE UNCHANGED vars
  BY <1>1 DEF vars, RootInv, RootData, RootLocal
<1>2. CASE Next
  <2>1. ASSUME NEW p \in Procs, Requests(p) PROVE RootInv(t)'
    BY <2>1, RootRequests
  <2>2. ASSUME NEW p \in Gs, Steps(p) PROVE RootInv(t)'
    BY <2>2, RootSteps
  <2>3. ASSUME NEW w \in Workers, OnFailure(w) PROVE RootInv(t)'
    BY <2>3, RootJobs
  <2>4. ASSUME NEW l \in Leases, expireLease(l) PROVE RootInv(t)'
    BY <2>4, RootJobs
  <2>5. ASSUME NEW w \in Workers, NEW l \in Leases, Execute(w, l) PROVE RootInv(t)'
    BY <2>5, RootJobs
  <2>6. CASE Restoring \/ Stop \/ Restart \/ Tick
    BY <2>6, RootRestart
  <2> QED
    BY <1>2, <2>1, <2>2, <2>3, <2>4, <2>5, <2>6 DEF Next, Gs
<1> QED BY <1>1, <1>2

\* A root token does not expire: unless a client asks for a lease to become
\* due (LazyRevoke, or the revocation lease of a token), a live root token
\* has neither a timer nor a job, for any number of leases, requests, workers,
\* faults and crashes.  Neither loadEntry in restore mode, nor Restore, nor
\* FetchLeaseTimes, nor a revocation of its lease that fails or overlaps
\* another sets one (updatePendingInternal).
THEOREM RootTokenSafety ==
    ASSUME NoneMadeDue
    PROVE  Spec => []RootTokenKept
<1> DEFINE RI == IInv /\ \A t \in RootTokens : RootInv(t)
<1>1. Init => RI
  <2> SUFFICES ASSUME Init, NEW t \in RootTokens PROVE RootInv(t)
    BY InitIInv
  <2>1. t \in Leases /\ t # None /\ \A p \in Gs : proc[p].lease = None
    BY LeaseAssumption, IdleType DEF Leases, Init, Gs
  <2> QED
    BY <2>1 DEF RootInv, RootData, RootLocal, Init, NewExpirationManager
<1>2. RI /\ [Next]_vars => RI'
  BY NextIInv, RootNext
<1>3. RI => RootTokenKept
  BY DEF RootTokenKept, RootInv, RootData, Pending
<1> QED
  BY <1>1, <1>2, <1>3, PTL DEF Spec
=============================================================================
