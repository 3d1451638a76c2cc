----------------------------- MODULE Expiration -----------------------------
(***************************************************************************)
(* The expiration manager of vault/expiration.go: the life of leases       *)
(* between storage (the lease entries and the index by token), memory (the *)
(* pending, nonexpiring and irrevocable maps, the timers, leaseCount) and  *)
(* the secret backends and the token store, which honour what was leased.  *)
(*                                                                         *)
(* A step ends at a storage operation, a call of a backend, or the end of  *)
(* a critical section under pendingLock: between those, every other        *)
(* goroutine may run.  A section that writes one entry and then updates    *)
(* the maps is one step, since the maps are only touched under the lock;   *)
(* OnFailure, which reads an entry and writes it back, holds the lock over *)
(* two steps.  Each storage operation and each backend call may fail.  A   *)
(* token is identified with the lease of the token, since the lease ID of  *)
(* a token is computed from the token.                                     *)
(***************************************************************************)
EXTENDS Integers, FiniteSets

CONSTANTS
    Secrets,            \* leases of secrets
    Tokens,             \* leases of service tokens
    RootTokens,         \* the tokens that never expire
    ClientToken,        \* the token whose index lists each secret (its own or
                        \* its parent's), None for an orphan batch token
    BatchSecrets,       \* the secrets made with batch tokens
    Procs,              \* goroutines serving requests
    Workers,            \* workers of the job manager
    Ops,                \* the requests that are made
    Faults,             \* what may fail: "storage", "backend"
    TTL,                \* what a registration or a renewal grants
    MaxRequests,        \* bound on the requests made
    MaxTime,            \* bound on the clock
    MaxJobs,            \* bound on the queued jobs of one lease
    MaxRestarts,        \* bound on crashes and seals
    maxRevokeAttempts,
    None

Leases == Secrets \cup Tokens

ASSUME LeaseAssumption ==
    /\ Secrets \cap Tokens = {} /\ None \notin Leases /\ IsFiniteSet(Leases)
    /\ RootTokens \subseteq Tokens
    /\ ClientToken \in [Secrets -> Tokens \cup {None}]
    /\ {s \in Secrets : ClientToken[s] = None} \subseteq BatchSecrets
    /\ BatchSecrets \subseteq Secrets

ASSUME ProcAssumption == Procs \cap Workers = {} /\ None \notin Workers

ASSUME BoundAssumption ==
    /\ TTL \in Nat \ {0} /\ MaxTime \in Nat /\ MaxJobs \in Nat /\ MaxRequests \in Nat
    /\ MaxRestarts \in Nat /\ maxRevokeAttempts \in Nat

VARIABLES
    now,            \* the clock
    idView,         \* lease entries in storage
    tokenView,      \* the secrets in the index by token
    grant,          \* what the backend or the token store honours
    pendingDeletion,\* TokenStore.tokensPendingDeletion, the entries that are true
    pending,        \* pendingInfo of a lease: when its timer fires, attempts
    nonexpiring,
    irrevocable,
    leaseCount,
    pendingLock,    \* the worker whose OnFailure holds it between steps
    jobs,           \* queued revocation jobs of each lease
    proc,           \* local state of every goroutine
    requests,       \* how many requests were made
    restore,        \* where Restore stands; not "done" is restoreMode
    toRestore,      \* the leases Restore still hands to its workers
    restoreLoaded,
    status,         \* "active"; "failed": Restore gave up; "stopped": after Stop
    restarts

store == <<idView, tokenView>>
backends == <<grant, pendingDeletion>>
maps == <<pending, nonexpiring, irrevocable, leaseCount>>
memory == <<maps, pendingLock>>
restoring == <<restore, toRestore, restoreLoaded>>
lifetime == <<status, restarts, requests>>
vars == <<now, store, backends, memory, jobs, proc, restoring, lifetime>>

Zero == -1      \* the zero time: no expiration
Off == -2       \* a timer that fired or was stopped

leaseEntry == [ExpireTime : Nat \cup {Zero}, RevokeErr : BOOLEAN]
pendingInfo == [timer : Int, revokesAttempted : Nat]
Places == {"idle", "persist", "index", "pend", "rollback", "rollbackDelete", "rollbackIndex",
           "renewing", "save", "create", "load", "revoke", "delete", "unindex", "clear",
           "mark", "byToken", "expire", "expireSave", "ownDelete", "ownClear", "deleteToken",
           "onFailure", "markIrrevocable"}
Goroutine == [pc : Places, lease : Leases \cup {None},
              le : leaseEntry \cup {None}, force : BOOLEAN,
              todo : SUBSET Secrets, sub : Secrets \cup {None}]

Idle == [pc |-> "idle", lease |-> None, le |-> None, force |-> FALSE,
         todo |-> {}, sub |-> None]

\* None stands for an entry, or a pendingInfo, that is not there.
ASSUME NoneAssumption == None \notin leaseEntry /\ None \notin pendingInfo

restoreMode == restore # "done"
Stored == {l \in Leases : idView[l] # None}
Pending == {l \in Leases : pending[l] # None}

TypeOK ==
    /\ now \in 0 .. MaxTime
    /\ idView \in [Leases -> leaseEntry \cup {None}]
    /\ tokenView \subseteq Secrets
    /\ grant \in [Leases -> {"none", "live", "revoking", "revoked", "leaked"}]
    /\ pendingDeletion \subseteq Tokens
    /\ pending \in [Leases -> pendingInfo \cup {None}]
    /\ nonexpiring \subseteq Leases
    /\ irrevocable \subseteq Leases
    /\ leaseCount \in Int
    /\ pendingLock \in Workers \cup {None}
    /\ jobs \in [Leases -> 0 .. MaxJobs]
    /\ proc \in [Procs \cup Workers -> Goroutine]
    /\ requests \in 0 .. MaxRequests
    /\ restore \in {"collect", "load", "done"}
    /\ toRestore \subseteq Leases
    /\ restoreLoaded \subseteq Leases
    /\ status \in {"active", "failed", "stopped"}
    /\ restarts \in 0 .. MaxRestarts

\* A manager that NewExpirationManager just created: in restore mode, with
\* nothing in memory.
NewExpirationManager ==
    /\ pending = [l \in Leases |-> None]
    /\ nonexpiring = {}
    /\ irrevocable = {}
    /\ leaseCount = 0
    /\ pendingLock = None
    /\ jobs = [l \in Leases |-> 0]
    /\ restore = "collect"
    /\ toRestore = {}
    /\ restoreLoaded = {}

Init ==
    /\ now = 0
    /\ idView = [l \in Leases |-> None]
    /\ tokenView = {}
    /\ grant = [l \in Leases |-> "none"]
    /\ pendingDeletion = {}
    /\ NewExpirationManager
    /\ proc = [p \in Procs \cup Workers |-> Idle]
    /\ requests = 0
    /\ status = "active"
    /\ restarts = 0

-----------------------------------------------------------------------------
(* Storage and memory.                                                     *)

\* A storage operation or a backend call that returns an error.
StorageFault == "storage" \in Faults
BackendFault == "backend" \in Faults

persistEntry(l, e) == idView' = [idView EXCEPT ![l] = e]
deleteEntry(l) == idView' = [idView EXCEPT ![l] = None]
createIndexByToken(l) == tokenView' = tokenView \cup {l}
removeIndexByToken(l) == tokenView' = tokenView \ {l}

\* The secrets lookupLeasesByToken finds for token t.
lookupLeasesByToken(t) == {l \in tokenView : ClientToken[l] = t}

One(b) == IF b THEN 1 ELSE 0

\* Mutant: every lease that has no expiration is taken to be overdue.
nonexpiringToken_Never(l) == FALSE

nonexpiringToken(l) == l \in RootTokens
isIrrevocable(e) == e.RevokeErr

\* updatePendingInternal for a root token without expiration, ...
updateNonexpiring(l) ==
    /\ nonexpiring' = nonexpiring \cup {l}
    /\ pending' = [pending EXCEPT ![l] = None]
    /\ leaseCount' = leaseCount - One(l \in Pending)
    /\ UNCHANGED irrevocable

\* ... for a lease that was marked irrevocable, ...
updateIrrevocable(l) ==
    /\ irrevocable' = irrevocable \cup {l}
    /\ pending' = [pending EXCEPT ![l] = None]
    /\ leaseCount' = leaseCount + One(l \notin Pending \cup irrevocable)
    /\ UNCHANGED nonexpiring

\* ... and for every other lease, whose timer is created or reset.
updateTimer(l, e) ==
    /\ pending' = [pending EXCEPT ![l] =
         [timer |-> e.ExpireTime,
          revokesAttempted |-> IF l \in Pending THEN pending[l].revokesAttempted ELSE 0]]
    /\ leaseCount' = leaseCount + One(l \notin Pending)
    /\ UNCHANGED <<nonexpiring, irrevocable>>

updatePendingInternal(l, e) ==
    /\ pendingLock = None /\ UNCHANGED pendingLock
    /\ CASE e.ExpireTime = Zero /\ nonexpiringToken(l) -> updateNonexpiring(l)
         [] isIrrevocable(e) -> updateIrrevocable(l)
         [] OTHER -> updateTimer(l, e)

\* Mutant: the counter is decremented although the lease is not in pending.
clearLease_Decrement(l) ==
    /\ pendingLock = None /\ UNCHANGED pendingLock
    /\ pending' = [pending EXCEPT ![l] = None]
    /\ leaseCount' = leaseCount - 1
    /\ nonexpiring' = nonexpiring \ {l}
    /\ irrevocable' = irrevocable \ {l}

\* removeFromPending with decrementCounters, and the rest of the section
\* that ends revokeCommon.
clearLease(l) ==
    /\ pendingLock = None /\ UNCHANGED pendingLock
    /\ pending' = [pending EXCEPT ![l] = None]
    /\ leaseCount' = leaseCount - One(l \in Pending)
    /\ nonexpiring' = nonexpiring \ {l}
    /\ irrevocable' = irrevocable \ {l}

\* Mutant: a lease is taken for restored before its timer is set up.
loadEntry_NoTimer(l) ==
    /\ restoreLoaded' = IF restoreMode /\ l \in Stored THEN restoreLoaded \cup {l}
                        ELSE restoreLoaded
    /\ UNCHANGED memory

\* What loadEntry does beside reading idView[l]: in restore mode the first
\* load of a lease sets up its timer.  It holds the lock of the lease and no
\* writer of the entry runs without having loaded it, so it is one step.
loadEntry(l) ==
    IF restoreMode /\ l \in Stored \ restoreLoaded
    THEN /\ restoreLoaded' = restoreLoaded \cup {l}
         /\ updatePendingInternal(l, idView[l])
    ELSE UNCHANGED <<restoreLoaded, memory>>

-----------------------------------------------------------------------------
(* Goroutines.                                                             *)

Goto(p, l) == proc' = [proc EXCEPT ![p].pc = l]
Begin(p, l, lease, e) ==
    proc' = [proc EXCEPT ![p] = [Idle EXCEPT !.pc = l, !.lease = lease, !.le = e]]
Return(p) == proc' = [proc EXCEPT ![p] = Idle]

\* A revocation returned an error: to OnFailure in a job, else to the client.
Fail(p) == IF p \in Workers THEN Goto(p, "onFailure") ELSE Return(p)

At(p, l) == proc[p].pc = l
Lease(p) == proc[p].lease
Request(p, op) ==
    /\ op \in Ops /\ p \in Procs /\ At(p, "idle")
    /\ status # "stopped"
    /\ requests < MaxRequests
    /\ requests' = requests + 1

\* A fresh entry.
NewEntry(l) ==
    [ExpireTime |-> IF l \in RootTokens THEN Zero ELSE now + TTL, RevokeErr |-> FALSE]

-----------------------------------------------------------------------------
(* Register and RegisterAuth.                                              *)

\* A request made with a live token obtained secret l from its backend and
\* Register takes over.
Register(p, l) ==
    /\ Request(p, "register") /\ l \in Secrets
    /\ grant[l] = "none"
    /\ ClientToken[l] # None => grant[ClientToken[l]] = "live"
    /\ grant' = [grant EXCEPT ![l] = "live"]
    /\ Begin(p, "persist", l, NewEntry(l))
    /\ UNCHANGED <<now, store, pendingDeletion, memory, jobs, restoring, status, restarts>>

\* A token was created in the token store and RegisterAuth takes over.
RegisterAuth(p, t) ==
    /\ Request(p, "registerAuth") /\ t \in Tokens
    /\ grant[t] = "none"
    /\ grant' = [grant EXCEPT ![t] = "live"]
    /\ Begin(p, "persist", t, NewEntry(t))
    /\ UNCHANGED <<now, store, pendingDeletion, memory, jobs, restoring, status, restarts>>

\* Mutant: the index by token is not created.
RegisterPersist_NoIndex(p) ==
    /\ At(p, "persist")
    /\ persistEntry(Lease(p), proc[p].le)
    /\ Goto(p, "pend")
    /\ UNCHANGED <<now, tokenView, backends, memory, jobs, restoring, lifetime>>

RegisterPersist(p) ==
    /\ At(p, "persist")
    /\ \/ /\ persistEntry(Lease(p), proc[p].le)
          /\ Goto(p, IF Lease(p) \in Secrets /\ ClientToken[Lease(p)] # None
                     THEN "index" ELSE "pend")
          /\ UNCHANGED grant
       \/ /\ StorageFault /\ Lease(p) \in Secrets
          /\ Goto(p, "rollback")
          /\ UNCHANGED <<idView, grant>>
       \* RegisterAuth leaves the clean-up of the token to its caller.
       \/ /\ StorageFault /\ Lease(p) \in Tokens
          /\ grant' = [grant EXCEPT ![Lease(p)] = "leaked"]
          /\ Return(p)
          /\ UNCHANGED idView
    /\ UNCHANGED <<now, tokenView, pendingDeletion, memory, jobs, restoring, lifetime>>

RegisterIndex(p) ==
    /\ At(p, "index")
    /\ \/ createIndexByToken(Lease(p)) /\ Goto(p, "pend")
       \/ StorageFault /\ UNCHANGED tokenView /\ Goto(p, "rollback")
    /\ UNCHANGED <<now, idView, backends, memory, jobs, restoring, lifetime>>

updatePending(p) ==
    /\ At(p, "pend")
    /\ updatePendingInternal(Lease(p), proc[p].le)
    /\ Return(p)
    /\ UNCHANGED <<now, store, backends, jobs, restoring, lifetime>>

\* The deferred rollback of Register: revoke the secret, delete the entry,
\* remove the index.  Errors are collected and change nothing else, so a
\* secret whose revocation fails here is leaked.
RollbackRevoke(p) ==
    /\ At(p, "rollback")
    /\ \/ grant' = [grant EXCEPT ![Lease(p)] = "revoked"]
       \/ BackendFault /\ grant' = [grant EXCEPT ![Lease(p)] = "leaked"]
    /\ Goto(p, "rollbackDelete")
    /\ UNCHANGED <<now, store, pendingDeletion, memory, jobs, restoring, lifetime>>

RollbackDelete(p) ==
    /\ At(p, "rollbackDelete")
    /\ deleteEntry(Lease(p)) \/ (StorageFault /\ UNCHANGED idView)
    /\ Goto(p, "rollbackIndex")
    /\ UNCHANGED <<now, tokenView, backends, memory, jobs, restoring, lifetime>>

RollbackIndex(p) ==
    /\ At(p, "rollbackIndex")
    /\ removeIndexByToken(Lease(p)) \/ (StorageFault /\ UNCHANGED tokenView)
    /\ Return(p)
    /\ UNCHANGED <<now, idView, backends, memory, jobs, restoring, lifetime>>

-----------------------------------------------------------------------------
(* Renew, RenewToken, LazyRevoke and FetchLeaseTimes.                      *)

\* renewable, for a stored lease, as Renew takes it: no error.  A secret of a
\* batch token passes though it has expired.
renewable(l, e) ==
    /\ ~isIrrevocable(e) /\ e.ExpireTime # Zero
    /\ l \in BatchSecrets \/ e.ExpireTime >= now

Renew(p, l) ==
    /\ Request(p, "renew")
    /\ l \in Stored /\ renewable(l, idView[l])
    /\ loadEntry(l)
    /\ Begin(p, "renewing", l, idView[l])
    /\ UNCHANGED <<now, store, backends, jobs, restore, toRestore, status, restarts>>

\* renewEntry or renewAuthEntry: the backend grants a new TTL or refuses.
renewEntry(p) ==
    /\ At(p, "renewing")
    /\ \/ proc' = [proc EXCEPT ![p].le.ExpireTime = now + TTL, ![p].pc = "save"]
       \/ Return(p)
    /\ UNCHANGED <<now, store, backends, memory, jobs, restoring, lifetime>>

LazyRevoke(p, l) ==
    /\ Request(p, "lazyRevoke")
    /\ l \in Stored
    /\ loadEntry(l)
    /\ Begin(p, "save", l, [idView[l] EXCEPT !.ExpireTime = now])
    /\ UNCHANGED <<now, store, backends, jobs, restore, toRestore, status, restarts>>

\* The section under pendingLock that ends Renew, RenewToken and LazyRevoke:
\* the entry read by loadEntry is written back with its new ExpireTime.
saveEntry(p) ==
    /\ At(p, "save")
    /\ \/ persistEntry(Lease(p), proc[p].le) /\ updatePendingInternal(Lease(p), proc[p].le)
       \/ StorageFault /\ UNCHANGED <<idView, memory>>
    /\ Return(p)
    /\ UNCHANGED <<now, tokenView, backends, jobs, restoring, lifetime>>

\* A lease that is in neither map is loaded as if restored, without its lock
\* and in any mode; the timer is set up in a second step (updatePending).
FetchLeaseTimes(p, l) ==
    /\ Request(p, "fetch")
    /\ l \in Stored \ (Pending \cup irrevocable)
    /\ restoreLoaded' = restoreLoaded \cup {l}
    /\ Begin(p, "pend", l, idView[l])
    /\ UNCHANGED <<now, store, backends, memory, jobs, restore, toRestore, status, restarts>>

-----------------------------------------------------------------------------
(* Revocation.                                                             *)

\* Revoke, and RevokeForce of one lease, up to the end of loadEntry.
Revoke(p, l, force) ==
    /\ Request(p, IF force THEN "revokeForce" ELSE "revoke")
    /\ l \in Stored
    /\ loadEntry(l)
    /\ proc' = [proc EXCEPT ![p] = [Idle EXCEPT !.pc = "revoke", !.lease = l, !.force = force]]
    /\ UNCHANGED <<now, store, backends, jobs, restore, toRestore, status, restarts>>

\* A client revokes live token t: CreateOrFetchRevocationLeaseByToken, ...
CreateOrFetchRevocationLeaseByToken(p, t) ==
    /\ Request(p, "revokeToken")
    /\ t \in Tokens /\ grant[t] = "live"
    /\ loadEntry(t)
    /\ Begin(p, IF t \in Stored THEN "load" ELSE "create", t, None)
    /\ UNCHANGED <<now, store, backends, jobs, restore, toRestore, status, restarts>>

\* ... which persists an entry that is due and has no timer, then Revoke.
createRevocationLease(p) ==
    /\ At(p, "create")
    /\ \/ /\ persistEntry(Lease(p), [ExpireTime |-> now, RevokeErr |-> FALSE])
          /\ Goto(p, "load")
       \/ StorageFault /\ UNCHANGED idView /\ Return(p)
    /\ UNCHANGED <<now, tokenView, backends, memory, jobs, restoring, lifetime>>

\* loadEntry in revokeCommon.  After Stop the context is cancelled and the
\* read fails.
revokeLoad(p) ==
    /\ At(p, "load")
    /\ \/ /\ status # "stopped"
          /\ loadEntry(Lease(p))
          /\ IF Lease(p) \in Stored THEN Goto(p, "revoke") ELSE Return(p)
       \/ /\ status = "stopped" \/ StorageFault
          /\ Fail(p)
          /\ UNCHANGED <<restoreLoaded, memory>>
    /\ UNCHANGED <<now, store, backends, jobs, restore, toRestore, lifetime>>

\* Mutant: an error of the backend is ignored without force, too.
revokeEntry_IgnoreError(p) ==
    /\ At(p, "revoke") /\ Lease(p) \in Secrets
    /\ \/ grant' = [grant EXCEPT ![Lease(p)] = "revoked"]
       \/ BackendFault /\ UNCHANGED grant
    /\ Goto(p, "delete")
    /\ UNCHANGED <<now, store, pendingDeletion, memory, jobs, restoring, lifetime>>

\* revokeEntry of a secret.  With force an error is ignored, and what the
\* backend still honours is given up.
revokeEntry(p) ==
    /\ At(p, "revoke") /\ Lease(p) \in Secrets
    /\ \/ grant' = [grant EXCEPT ![Lease(p)] = "revoked"] /\ Goto(p, "delete")
       \/ /\ BackendFault /\ proc[p].force
          /\ grant' = [grant EXCEPT ![Lease(p)] = IF @ = "live" THEN "leaked" ELSE @]
          /\ Goto(p, "delete")
       \/ BackendFault /\ ~proc[p].force /\ UNCHANGED grant /\ Fail(p)
    /\ UNCHANGED <<now, store, pendingDeletion, memory, jobs, restoring, lifetime>>

revokeDelete(p) ==
    /\ At(p, "delete")
    /\ \/ /\ deleteEntry(Lease(p))
          /\ Goto(p, IF Lease(p) \in Secrets /\ ClientToken[Lease(p)] # None
                     THEN "unindex" ELSE "clear")
       \/ StorageFault /\ UNCHANGED idView /\ Fail(p)
    /\ UNCHANGED <<now, tokenView, backends, memory, jobs, restoring, lifetime>>

revokeUnindex(p) ==
    /\ At(p, "unindex")
    /\ \/ removeIndexByToken(Lease(p)) /\ Goto(p, "clear")
       \/ StorageFault /\ UNCHANGED tokenView /\ Fail(p)
    /\ UNCHANGED <<now, idView, backends, memory, jobs, restoring, lifetime>>

revokeClear(p) ==
    /\ At(p, "clear")
    /\ clearLease(Lease(p))
    /\ Return(p)
    /\ UNCHANGED <<now, store, backends, jobs, restoring, lifetime>>

-----------------------------------------------------------------------------
(* revokeEntry of a token: TokenStore.revokeTree down to revokeInternal,   *)
(* for a token without children, and RevokeByToken, which revokeInternal   *)
(* calls back.                                                             *)

\* revokeInternal returned an error.
tokenFail(p) == IF proc[p].force THEN Goto(p, "delete") ELSE Fail(p)

\* LoadOrStore on tokensPendingDeletion: a revocation in progress makes this
\* one return at once, without an error.
revokeInternal(p) ==
    /\ At(p, "revoke") /\ Lease(p) \in Tokens
    /\ pendingDeletion' = pendingDeletion \cup {Lease(p)}
    /\ Goto(p, IF Lease(p) \in pendingDeletion THEN "delete" ELSE "mark")
    /\ UNCHANGED <<now, store, grant, memory, jobs, restoring, lifetime>>

\* The token is looked up and stored with tokenRevocationPending.  None of
\* the early returns here clears its entry of tokensPendingDeletion: the
\* error path stores false under the unsalted ID.
revokeMark(p) ==
    /\ At(p, "mark")
    /\ \/ /\ grant[Lease(p)] \in {"live", "revoking"}
          /\ grant' = [grant EXCEPT ![Lease(p)] = "revoking"]
          /\ Goto(p, "byToken")
       \/ grant[Lease(p)] \notin {"live", "revoking"} /\ UNCHANGED grant /\ Goto(p, "delete")
       \/ StorageFault /\ UNCHANGED grant /\ tokenFail(p)
    /\ UNCHANGED <<now, store, pendingDeletion, memory, jobs, restoring, lifetime>>

\* An error after the deferred function of revokeInternal is in place.
retryLater(p) ==
    /\ StorageFault
    /\ pendingDeletion' = pendingDeletion \ {Lease(p)}
    /\ tokenFail(p)
    /\ UNCHANGED <<now, store, grant, memory, jobs, restoring, lifetime>>

RevokeByToken(p) ==
    /\ At(p, "byToken")
    /\ \/ /\ proc' = [proc EXCEPT ![p].pc = "expire",
                                  ![p].todo = lookupLeasesByToken(Lease(p))]
          /\ UNCHANGED <<now, store, backends, memory, jobs, restoring, lifetime>>
       \/ retryLater(p)

\* The next lease of the token is loaded and set to expire now ...
expireLoad(p, l) ==
    /\ At(p, "expire") /\ l \in proc[p].todo
    /\ \/ /\ loadEntry(l)
          /\ proc' = [proc EXCEPT ![p].todo = @ \ {l},
               ![p].pc  = IF l \in Stored THEN "expireSave" ELSE "expire",
               ![p].sub = IF l \in Stored THEN l ELSE None,
               ![p].le  = IF l \in Stored THEN [idView[l] EXCEPT !.ExpireTime = now] ELSE None]
          /\ UNCHANGED <<now, store, backends, jobs, restore, toRestore, lifetime>>
       \/ retryLater(p)

\* ... and handed to the timers under pendingLock.
expireSave(p) ==
    /\ At(p, "expireSave")
    /\ \/ /\ persistEntry(proc[p].sub, proc[p].le)
          /\ updatePendingInternal(proc[p].sub, proc[p].le)
          /\ proc' = [proc EXCEPT ![p].pc = "expire", ![p].sub = None, ![p].le = None]
          /\ UNCHANGED <<now, tokenView, backends, jobs, restoring, lifetime>>
       \/ retryLater(p)

\* The last call of RevokeByToken, revokeCommon of the token's own lease
\* with skipToken: load, delete and clear it.
ownLoad(p) ==
    /\ At(p, "expire") /\ proc[p].todo = {}
    /\ \/ /\ loadEntry(Lease(p))
          /\ Goto(p, IF Lease(p) \in Stored THEN "ownDelete" ELSE "deleteToken")
          /\ UNCHANGED <<now, store, backends, jobs, restore, toRestore, lifetime>>
       \/ retryLater(p)

ownDelete(p) ==
    /\ At(p, "ownDelete")
    /\ \/ /\ deleteEntry(Lease(p)) /\ Goto(p, "ownClear")
          /\ UNCHANGED <<now, tokenView, backends, memory, jobs, restoring, lifetime>>
       \/ retryLater(p)

ownClear(p) ==
    /\ At(p, "ownClear")
    /\ clearLease(Lease(p))
    /\ Goto(p, "deleteToken")
    /\ UNCHANGED <<now, store, backends, jobs, restoring, lifetime>>

\* The deferred delete of the token entry; revokeCommon of the caller goes
\* on to delete the lease it loaded.
deleteToken(p) ==
    /\ At(p, "deleteToken")
    /\ \/ /\ grant' = [grant EXCEPT ![Lease(p)] = "revoked"]
          /\ pendingDeletion' = pendingDeletion \ {Lease(p)}
          /\ Goto(p, "delete")
          /\ UNCHANGED <<now, store, memory, jobs, restoring, lifetime>>
       \/ retryLater(p)

-----------------------------------------------------------------------------
(* Timers and revocation jobs.  The job manager hands out the queued jobs  *)
(* in some order (module JobManager).                                      *)

\* The timer function, expireLeaseStrategyFairsharing, adds a job.
expireLease(l) ==
    /\ l \in Pending /\ pending[l].timer # Off
    /\ pending[l].timer <= now
    /\ jobs[l] < MaxJobs
    /\ pending' = [pending EXCEPT ![l].timer = Off]
    /\ jobs' = [jobs EXCEPT ![l] = @ + 1]
    /\ UNCHANGED <<now, store, backends, nonexpiring, irrevocable, leaseCount,
                   pendingLock, proc, restoring, lifetime>>

\* Mutant: a worker takes a job no timer queued.
Execute_NoJob(w, l) ==
    /\ At(w, "idle") /\ l \in Stored
    /\ status # "stopped"
    /\ jobs' = [jobs EXCEPT ![l] = @ - 1]
    /\ Begin(w, "load", l, None)
    /\ UNCHANGED <<now, store, backends, memory, restoring, lifetime>>

\* Execute up to the state lock; revokeLoad is its first step below it.
Execute(w, l) ==
    /\ At(w, "idle") /\ jobs[l] > 0
    /\ status # "stopped"
    /\ jobs' = [jobs EXCEPT ![l] = @ - 1]
    /\ Begin(w, "load", l, None)
    /\ UNCHANGED <<now, store, backends, memory, restoring, lifetime>>

\* OnFailure.  No entry in pending: no retry.
onFailureGone(w) ==
    /\ At(w, "onFailure") /\ pendingLock = None
    /\ Lease(w) \notin Pending
    /\ Return(w)
    /\ UNCHANGED <<now, store, backends, memory, jobs, restoring, lifetime>>

\* Mutant: the attempt is counted and the timer is not reset.
onFailureRetry_NoReset(w) ==
    /\ At(w, "onFailure") /\ pendingLock = None
    /\ Lease(w) \in Pending
    /\ pending[Lease(w)].revokesAttempted + 1 < maxRevokeAttempts
    /\ pending' = [pending EXCEPT ![Lease(w)].revokesAttempted = @ + 1]
    /\ Return(w)
    /\ UNCHANGED <<now, store, backends, nonexpiring, irrevocable, leaseCount,
                   pendingLock, jobs, restoring, lifetime>>

\* revokeExponentialBackoff only says when the timer fires at the earliest.
onFailureRetry(w) ==
    /\ At(w, "onFailure") /\ pendingLock = None
    /\ Lease(w) \in Pending
    /\ pending[Lease(w)].revokesAttempted + 1 < maxRevokeAttempts
    /\ pending' = [pending EXCEPT ![Lease(w)] =
                     [timer |-> now, revokesAttempted |-> @.revokesAttempted + 1]]
    /\ Return(w)
    /\ UNCHANGED <<now, store, backends, nonexpiring, irrevocable, leaseCount,
                   pendingLock, jobs, restoring, lifetime>>

\* Out of attempts, or an error of a backend that errIsUnrecoverable: the
\* lease is loaded.  (In restore mode loadEntry would lock pendingLock again
\* for a lease that is not in restoreLoaded; module ExpirationRestore.)
onFailureLoad(w) ==
    /\ At(w, "onFailure") /\ pendingLock = None
    /\ Lease(w) \in Pending
    /\ \/ pending[Lease(w)].revokesAttempted + 1 >= maxRevokeAttempts
       \/ BackendFault
    /\ restoreMode => Lease(w) \in restoreLoaded
    /\ \/ /\ Lease(w) \in Stored /\ ~isIrrevocable(idView[Lease(w)])
          /\ pendingLock' = w
          /\ Begin(w, "markIrrevocable", Lease(w), idView[Lease(w)])
       \* Not loaded, gone or marked before: OnFailure returns and leaves
       \* the maps and the timer that fired as they are.
       \/ /\ \/ StorageFault \/ Lease(w) \notin Stored
             \/ Lease(w) \in Stored /\ isIrrevocable(idView[Lease(w)])
          /\ Return(w)
          /\ UNCHANGED pendingLock
    /\ UNCHANGED <<now, store, backends, maps, jobs, restoring, lifetime>>

\* The error of persistEntry is ignored.
markLeaseIrrevocable(w) ==
    /\ At(w, "markIrrevocable")
    /\ \/ persistEntry(Lease(w), [proc[w].le EXCEPT !.RevokeErr = TRUE])
       \/ StorageFault /\ UNCHANGED idView
    /\ irrevocable' = irrevocable \cup {Lease(w)}
    /\ pending' = [pending EXCEPT ![Lease(w)] = None]
    /\ nonexpiring' = nonexpiring \ {Lease(w)}
    /\ pendingLock' = None
    /\ Return(w)
    /\ UNCHANGED <<now, tokenView, backends, leaseCount, jobs, restoring, lifetime>>

-----------------------------------------------------------------------------
(* Restore, Stop and restarts.                                             *)

collectLeases ==
    /\ restore = "collect"
    /\ toRestore' = Stored
    /\ restore' = "load"
    /\ UNCHANGED <<now, store, backends, memory, jobs, proc, restoreLoaded, lifetime>>

\* A restore worker; the lock of the lease makes it one step.
processRestore(l) ==
    /\ restore = "load" /\ l \in toRestore
    /\ toRestore' = toRestore \ {l}
    /\ loadEntry(l)
    /\ UNCHANGED <<now, store, backends, jobs, proc, restore, lifetime>>

restoreDone ==
    /\ restore = "load" /\ toRestore = {}
    /\ restore' = "done"
    /\ restoreLoaded' = {}
    /\ UNCHANGED <<now, store, backends, memory, jobs, proc, toRestore, lifetime>>

\* An error ends restore mode and shuts the core down.  So does quitCh.
restoreAbort ==
    /\ restoreMode
    /\ StorageFault \/ status = "stopped"
    /\ restore' = "done"
    /\ status' = IF status = "stopped" THEN status ELSE "failed"
    /\ UNCHANGED <<now, store, backends, memory, jobs, proc, toRestore, restoreLoaded,
                   restarts, requests>>

\* Stop, called with the state lock held, which every request and every
\* revocation of a job holds while it runs.
Stop ==
    /\ status # "stopped"
    /\ \A p \in Procs : At(p, "idle")
    /\ \A w \in Workers : proc[w].pc \in {"idle", "load", "onFailure", "markIrrevocable"}
    /\ pendingLock = None
    /\ status' = "stopped"
    /\ pending' = [l \in Leases |-> None]
    /\ nonexpiring' = {}
    /\ irrevocable' = {}
    /\ leaseCount' = 0
    /\ UNCHANGED <<now, store, backends, pendingLock, jobs, proc, restoring, restarts, requests>>

\* The process dies, or is unsealed again after Stop: storage and backends
\* keep what they have and NewExpirationManager starts over.  A registration
\* that had not reached storage is lost.
Restart ==
    /\ restarts < MaxRestarts
    /\ restarts' = restarts + 1
    /\ status' = "active"
    /\ pending' = [l \in Leases |-> None]
    /\ nonexpiring' = {} /\ irrevocable' = {}
    /\ leaseCount' = 0 /\ pendingLock' = None
    /\ jobs' = [l \in Leases |-> 0]
    /\ restore' = "collect" /\ toRestore' = {} /\ restoreLoaded' = {}
    /\ proc' = [p \in Procs \cup Workers |-> Idle]
    /\ pendingDeletion' = {}
    /\ grant' = [l \in Leases |->
         IF l \notin Stored /\ (\E p \in Procs : Lease(p) = l /\ proc[p].pc \in {"persist", "rollback"})
         THEN "leaked" ELSE grant[l]]
    /\ UNCHANGED <<now, store, requests>>

Tick ==
    /\ now < MaxTime
    /\ now' = now + 1
    /\ UNCHANGED <<store, backends, memory, jobs, proc, restoring, lifetime>>

-----------------------------------------------------------------------------

Requests(p) ==
    \/ \E l \in Secrets : Register(p, l)
    \/ \E t \in Tokens : RegisterAuth(p, t) \/ CreateOrFetchRevocationLeaseByToken(p, t)
    \/ \E l \in Leases : Renew(p, l) \/ LazyRevoke(p, l) \/ FetchLeaseTimes(p, l)
    \/ \E l \in Leases, force \in BOOLEAN : Revoke(p, l, force)

\* The steps of a request or a job that has begun.
Steps(p) ==
    \/ RegisterPersist(p) \/ RegisterIndex(p) \/ updatePending(p)
    \/ RollbackRevoke(p) \/ RollbackDelete(p) \/ RollbackIndex(p)
    \/ renewEntry(p) \/ saveEntry(p) \/ createRevocationLease(p)
    \/ revokeLoad(p) \/ revokeEntry(p)
    \/ revokeDelete(p) \/ revokeUnindex(p) \/ revokeClear(p)
    \/ revokeInternal(p) \/ revokeMark(p) \/ RevokeByToken(p)
    \/ (\E l \in Secrets : expireLoad(p, l)) \/ expireSave(p)
    \/ ownLoad(p) \/ ownDelete(p) \/ ownClear(p) \/ deleteToken(p)

OnFailure(w) ==
    \/ onFailureGone(w) \/ onFailureRetry(w)
    \/ onFailureLoad(w) \/ markLeaseIrrevocable(w)

Restoring ==
    \/ collectLeases
    \/ \E l \in Leases : processRestore(l)
    \/ restoreDone \/ restoreAbort

Next ==
    \/ \E p \in Procs : Requests(p)
    \/ \E p \in Procs \cup Workers : Steps(p)
    \/ \E w \in Workers : OnFailure(w)
    \/ \E l \in Leases : expireLease(l)
    \/ \E w \in Workers, l \in Leases : Execute(w, l)
    \/ Restoring
    \/ Stop \/ Restart \/ Tick

Spec == Init /\ [][Next]_vars

\* Goroutines run, timers fire, Restore runs, and the job manager hands
\* every queued job to a worker (EveryJobRuns of module JobManager).  No
\* client has to make a request and nothing makes time pass.
Fairness ==
    /\ \A p \in Procs \cup Workers : WF_vars(Steps(p))
    /\ \A w \in Workers : WF_vars(OnFailure(w))
    /\ \A l \in Leases : WF_vars(expireLease(l))
    /\ \A l \in Leases : SF_vars(\E w \in Workers : Execute(w, l))
    /\ WF_vars(Restoring)

FairSpec == Spec /\ Fairness

-----------------------------------------------------------------------------
(* Properties.                                                             *)

\* Some goroutine works on l at one of the places S.
InFlight(l, S) ==
    \E p \in Procs \cup Workers : proc[p].lease = l /\ proc[p].pc \in S

\* A secret the backend honours never loses its lease entry: between
\* registrations, renewals, revocations, failures and restarts, an entry is
\* only deleted once its secret is revoked (or was given up by a forced
\* revocation or a failed rollback).
LiveSecretTracked ==
    \A l \in Secrets :
        grant[l] = "live" => l \in Stored \/ InFlight(l, {"persist", "rollback"})

\* What still watches a secret: an armed timer, a queued job, a worker on it,
\* the registration in progress, the irrevocable map, or Restore, which has
\* not come to it yet.
Watched(l) ==
    \/ l \in Pending /\ pending[l].timer # Off
    \/ jobs[l] > 0
    \/ l \in irrevocable
    \/ \E w \in Workers : Lease(w) = l
    \/ InFlight(l, {"persist", "index", "pend", "rollback"})
    \/ restore = "collect" \/ l \in toRestore

\* While the manager is active, a secret the backend honours is always
\* watched, so its expiration cannot be forgotten: not by a timer that fires
\* during a renewal, a job that fails, or a lease loaded by a request before
\* Restore comes to it.
LiveSecretWatched ==
    status = "active" => \A l \in Secrets : grant[l] = "live" => Watched(l)

\* The index by token lists every live secret of the token, so that revoking
\* the token finds it, once Register is past createIndexByToken.  A crash
\* between persistEntry and createIndexByToken leaves a lease without index.
LiveSecretIndexed ==
    restarts = 0 => \A l \in Secrets :
        grant[l] = "live" /\ l \in Stored /\ ClientToken[l] # None
            => l \in tokenView \/ InFlight(l, {"index", "rollback"})

\* A root token does not expire: while it is live it has no timer and no
\* job, whether its lease came from RegisterAuth, from Restore or from a
\* request in restore mode.  (LazyRevoke of its lease would make it due.)
RootTokenKept ==
    \A t \in RootTokens : grant[t] = "live" => t \notin Pending /\ jobs[t] = 0

\* leaseCount, the metric the lease quotas follow, never counts fewer
\* leases than pending and irrevocable hold.
LeaseCountCovers ==
    leaseCount >= Cardinality(Pending) + Cardinality(irrevocable)

\* A lease that expired is revoked, marked irrevocable, or was renewed in
\* time, however often its revocation fails and through restarts, unless the
\* manager is stopped.
ExpiredSecretRevoked ==
    \A l \in Secrets :
        (grant[l] = "live" /\ l \in Stored /\ idView[l].ExpireTime <= now)
        ~> \/ grant[l] # "live" \/ l \in irrevocable
           \/ l \in Stored /\ idView[l].ExpireTime > now
           \/ status # "active"
=============================================================================
