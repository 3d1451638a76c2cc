# A TLA+ development of Vault

Vault hands out secrets and tokens under leases and promises to take them back:
when they expire, when their token is revoked, when an operator asks. It keeps
everything it stores encrypted under keys that can be rotated while it runs. This
development models the parts of the server that keep these promises: the
expiration manager, its restore mode and the job manager that runs its
revocations; the token store and its trees of tokens; the rollback manager and
the state lock; the mount table and the router; the keyring of the barrier in a
cluster, with rotation, rekeying and takeover. TLC checks them on small
instances, and TLAPS proves the most important invariants, and a refinement, for
instances of any size. Every definition is translated from the Go source;
`PROJECT.json` ("map") names the lines.

## 1. Inventory of the system

The server is a `Core` (`vault/core.go`) around an encrypted storage barrier.
The parts, the state they keep, and how they interact:

| Part | State | Operations | Interacts with |
|---|---|---|---|
| Job manager, `helper/fairshare` | queues by mount, index slice, cursor, one-slot channel `newWork`, quit channels, worker goroutines | `AddJob`, `Start`, `Stop`, `getNextJob`, `assignWork`, `dispatch`, worker loop | timers of the expiration manager add jobs; jobs call back `Execute` and `OnFailure` |
| Expiration manager, `vault/expiration.go` | lease entries and index by token in storage; `pending`, `nonexpiring`, `irrevocable`, `leaseCount`, timers in memory; restore mode | `Register`, `RegisterAuth`, `Renew`, `RenewToken`, `LazyRevoke`, `Revoke`, `RevokeForce`, `RevokePrefix`, `RevokeByToken`, `FetchLeaseTimes`, `Restore`, `Stop`, `Tidy` | request handling calls it; it calls the backends (revoke, renew) and the token store (`revokeTree`), which calls it back (`RevokeByToken`) |
| Token store, `vault/token_store.go` | token entries, parent and accessor indexes, cubbyholes, `tokensPendingDeletion`, striped locks | `create`, `UseToken`, `lookupInternal`, `revokeInternal`, `revokeTreeInternal`, `revokeOrphan`, tidy | every request uses a token; revocation recurses through the expiration manager |
| Rollback manager, `vault/rollback.go` | `inflight` map, ticker | periodic and on-demand rollback of backends | unmounting waits for it, holding the state lock |
| Rekey and generate-root, `vault/rekey.go`, `vault/generate_root.go` | progress, nonce, shares | init, update, verify, cancel | writes seal configuration, stored keys and the barrier's keyring |
| Barrier and keyring, `vault/barrier_aes_gcm.go`, `vault/keyring.go` | keyring by term, root key, upgrade entries | encrypt, rotate, rekey, create and check upgrades | everything stored goes through it; standbys follow its upgrade path |
| Seal and HA, `vault/core.go`, `vault/ha.go` | sealed flag, state lock, leadership lock, active context | unseal, `postUnseal`, `preSeal`, step-down, standby loop | starts and stops every other part |
| Mounts and router, `vault/mount.go`, `vault/router.go` | mount tables, radix tree | mount, unmount, remount, taint | unmounting revokes leases by prefix |
| Request handling, response wrapping, policies, identity, audit, activity log, quotas | per request, or in-memory indexes | | call the parts above |
| Physical storage, raft, cache, shamir, CLI, API, UI, agent, plugins | | | below or outside the core |

What is hard here:

* **Concurrency.** Timers, revocation jobs, requests, restore workers and `Stop`
  all work on the same lease. Storage operations and backend calls happen
  between critical sections, so an entry that was loaded may be stale when it is
  written back. Three kinds of locks (`pendingLock`, lease locks, the restore
  locks) are taken in more than one order.
* **Failure.** Every storage operation and every backend call may fail, also in
  the clean-up of an earlier failure. Revocation is retried with a bounded number
  of attempts, then the lease is marked irrevocable.
* **Crashes.** Storage has no transactions: a registration is two writes and a
  map update, a revocation a backend call and two deletes. What is in memory is
  rebuilt by `Restore`, which runs while requests are served already.
* **Ordering.** A timer can fire while the lease is being renewed or revoked, and
  the job it queues is not withdrawn. Standbys see any prefix of the writes of a
  rotation or a rekey.
* **Mutual calls.** Lookups revoke, revocations walk trees and look tokens up, and
  each goes through the expiration manager and back.
* **Locks that are not kept.** An unmount or a remount takes and releases
  `mountsLock` between its steps; a rollback may run under a lock somebody else
  holds for it.
* **Arithmetic at edges.** The job manager's cursor when a queue is pruned; the
  zero expiration time of a root token; `leaseCount`, which moves in five places.

What makes each modelled part correct:

* job manager: no job is lost or run twice, no wake-up is lost, the index matches
  the queues, queues with a backlog take turns, everything ends on `Stop`;
* expiration manager: a live secret keeps its lease entry, its index entry and
  something that will expire it; an expired secret is revoked or visibly given up;
  a root token never expires; `leaseCount` does not fall below the leases;
* restore mode: every lease is set up, and only once by those who look under its
  lock; no lock is used after it is gone, restore mode ends and `Stop` returns (which
  it need not: section 3);
* rollback manager: a backend is rolled back only under somebody's state lock, no
  read lock is left behind, and callers, writers and `Stop` get through;
* token store: a token is not used more often than it may be, once revoked it
  stays revoked, a revoked tree leaves nothing usable, every call returns;
* mounts: router, table and storage agree, a half-deleted mount stays out of
  service, leases lead to the mount that made them, a removed mount leaves nothing;
* keyring: what was written stays readable, standbys take over, the operators'
  shares open the vault, upgrade keys do not stay.

`PROJECT.json` lists every component ("components") and every hazard at its line
("hazards"), with the properties that would catch it.

## 2. Modules

```
JobPool   <──implements── JobManager ── JobManagerFairness  (a history variable)
                                          └─ JobManagerProofs     (theorems)
Expiration ── ExpirationProofs ── ExpirationWatchProofs           (theorems)
ExpirationRestore ── ExpirationRestoreProofs                      (theorems)
RWMutex ── RollbackManager ── RollbackManagerProofs               (theorems)
TokenStore ── TokenStoreProofs                                    (theorems)
Mounts ── MountsProofs                                            (theorems)
Keyring ── KeyringProofs                                          (theorems)
MCJobManager, MCExpiration, MCExpirationRestore, MCRollbackManager,
MCTokenStore, MCMounts, MCKeyring                                (instances)
```

The modules use each other through what the parts promise:

* `Expiration` takes it that a queued job is handed to a worker eventually, in any
  order: `EveryJobRuns` and `ImplementsPool` of `JobManager`;
* `Expiration` takes a load in restore mode as one step, which all but
  `FetchLeaseTimes` take once: `LoadedOnce` of `ExpirationRestore`. There the load of
  `OnFailure` waits until it can be made; that it need not get anywhere is the subject
  of the run `restore_stop`;
* `TokenStore` has of the expiration manager the state of each token's lease and
  the calls in both directions; `Expiration` has of the token store the revocation
  of a token without children;
* `Mounts` takes a rollback and the revocation of a prefix as synchronous calls:
  `NilMeansAnswered` and `RollbackReturns` of `RollbackManager`.

`TypeOK` is checked, and proved, for `JobManager` and `Expiration`. For `Mounts` and
`RollbackManager` it is proved as a part of the inductive invariant, for `Keyring`,
`ExpirationRestore` and `TokenStore` the invariant has a part `Shape` for it; there
`TypeOK` documents the state.

### JobManager (`helper/fairshare/jobmanager.go`, `workerpool.go`)

| State | Code |
|---|---|
| `queues`, `queuesIndex`, `lastQueueAccessed`, `totalJobs` | the fields of `JobManager` under its lock |
| `newWork` | tokens in the channel of capacity 1 |
| `quit`, `poolQuit` | the closed quit channels of the manager and the worker pool |
| `caller[j]` | where the `AddJob` call for job `j` is: not made, before its deferred send, returned |
| `assigner`, `held` | where `assignWork` is and the job in its hand |
| `worker`, `running`, `outcome` | each worker, its job, what became of each job |

`AddJob` is two actions because the deferred function sends on `newWork` after
the lock is released. `assignWork` is a polling select (`PollQuit`,
`PollNewWork`, `PollDefault`), `getNextJob` under the lock, a hand-over or the
shutdown (`dispatch`, `dispatchQuit`) and a blocking select (`WaitQuit`,
`WaitNewWork`). `Stop` closes the two quit channels in two steps. The doubly
linked lists are sequences; metrics and logging are left out.
`JobManagerFairness` counts how often another queue is served while a queue holds
a backlog.

`JobPool` is what the manager promises to those who add jobs, without queues,
channels and goroutines: a job that was added is taken by one worker, once, and has
one outcome; only a closed pool drops a job. `JobManager` implements it under the
mapping `added <- {j : caller[j] # "ready"}`, `result <- outcome`,
`closed <- poolQuit`; everything the assigner does with the queues is a stutter,
and a hand-over is `Take`.

### Expiration (`vault/expiration.go`, `revokeInternal` of `vault/token_store.go`)

A step ends at a storage operation, at a call of a backend, or at the end of a
critical section under `pendingLock`. The token of a lease is identified with
the token's own lease, since its lease ID is computed from the token.

| State | Code |
|---|---|
| `idView`, `tokenView` | lease entries and the index by token, in storage |
| `grant` | what the backend or token store honours: `none`, `live`, `revoking` (stored with `tokenRevocationPending`), `revoked`, `leaked` (given up by a forced revocation, a failed rollback, or a crash before the entry was stored) |
| `pending`, `nonexpiring`, `irrevocable`, `leaseCount` | the maps and the counter; `pending[l].timer` is the time the timer fires at, `Off` once it fired |
| `pendingLock` | held between steps by `OnFailure` only |
| `jobs` | queued revocation jobs per lease |
| `pendingDeletion` | the true entries of `tokensPendingDeletion` |
| `proc[p]` | a goroutine: place in the code, lease, the entry it loaded, `force`, the leases of a token still to expire |
| `restore`, `toRestore`, `restoreLoaded`, `status` | restore mode, and whether `Restore` failed or the manager was stopped |

Actions keep the names of the functions; a function with several steps is one
action per step (`RegisterPersist`, `RegisterIndex`, `updatePending`,
`RollbackRevoke`, ...). An error return is a disjunct guarded by `StorageFault`
or `BackendFault`. `Restart` is a crash or a seal followed by an unseal:
storage and backends keep what they have, memory is what
`NewExpirationManager` makes.

Abstractions: an entry is its expiration time and whether it is irrevocable; the
clock is a counter that may stand still or pass; the exponential backoff is only
a lower bound of when the timer fires, so the timer may fire at once; a secret is
granted once. A registration whose context ends is covered by the storage error.
A renewal grants the TTL or nothing; that it is capped by the life of a batch token is
left out. The checks of the maps and the read of `FetchLeaseTimes` are one step, and so
are the lookup and the store that mark a token, whose error returns are those of the
store. Of the look at the batch token in `revokeCommon` (`expiration.go:978-985`) only
the outcome is there.

### ExpirationRestore (`Restore`, `processRestore`, `loadEntry`, `Stop`)

Where `Expiration` takes a load in restore mode as one step, this module is the
sequence of lock operations it is in the code: `restoreModeLock` and
`restoreRequestLock` as read-write mutexes whose waiting writer keeps new readers
out, the lease locks by bucket (leases can share one), `pendingLock`, the
distributor, the workers, and the two channels of capacity 1. Threads are
requests, prefix revocations (with `sync` false, which queue the revocations), failed
jobs (`OnFailure`), calls of `FetchLeaseTimes` and the pool. `FetchLeaseTimes` loads as
if restored, in any mode, and takes none of the locks nor a look at `restoreLoaded`.
What is loaded is left out; `tracked` says which leases are in one of the maps, `stored`
which have an entry (a revocation deletes it, `deleteEntry`, and a load that finds none
returns nothing), and `registering` those whose `Register` has stored the entry and not
set the timer. `loads` counts how often a lease is set up under its lock. `MaxCalls`
bounds the calls of a behaviour.

Requests hold the state lock, which `Stop` needs, so `Stop` begins when they are done;
`FetchLeaseTimes` is also called by the tidy of the token store, without it. Left out is
the tidy of leases, whose loads and revocations run without it too.

### RollbackManager (`vault/rollback.go`, `grabLockOrStop` of `vault/ha.go`)

| State | Code |
|---|---|
| `stateLock` | `Core.stateLock`, a `sync.RWMutex` (module `RWMutex`, external): readers, the writer, a writer that is announced and keeps new readers out |
| `inflight`, `inflightAll` | the map by path and the wait group |
| `attempt[a]` | a `rollbackState` and the goroutine in `attemptRollback`: place, whether it grabs the lock, whether it was cancelled, has to release, is done, `lastError` |
| `grabber[a]` | the goroutine `grabLockOrStop` starts, which outlives an attempt that gave up |
| `run`, `shutdownCh` | the ticker goroutine and the channel `Stop` closes |
| `caller[c]` | a request that takes the state lock, for reading or writing, and may call `Rollback` |
| `core` | sealing (`Stop` under the write lock) and unsealing (a new manager) |

A step is one critical section, one channel operation, or one call into the lock.
`Route` has the answers a backend may give, and `returned` what `attemptRollback` makes
of them: an unsupported operation and read-only storage are no error to it, and a
response that carries an error with a nil `err` is not looked at (`rollback.go:231-240`).
The identity of an attempt is used again once nobody refers to it, so the model has
finitely many states without a bound on time.

### TokenStore (`vault/token_store.go`)

`idView` and `parentView` are the entries and the index of children in storage,
`tokensPendingDeletion` the map of revocations under way, `tokenLocks` the locks,
`lease[t]` the lease of a token as the expiration manager has it (`bare` is the
expired one without a timer that `CreateOrFetchRevocationLeaseByToken` stores).
`proc[p]` is a stack of activations, because the functions call each other both
ways: `handleRevokeTree` revokes through the lease, which calls
`revokeTreeInternal`, which calls `revokeInternal` for each token of its walk,
which looks children up, and a lookup that finds a token without a lease revokes
it. Each access to storage is a step. An error unwinds the stack, and the deferred
function of each `revokeInternal` on it leaves its flag. A token stands for its
salted ID; history variables record what was created, used, revoked to the end, stored
again after that, and orphaned.

A root token without a time to live (`Root`) is looked up without its lease, as the
code does (`token_store.go:1299-1307`). The tokens there are at first have a lease, root
tokens too; those that `init` and `generate-root` make (`rootToken`) have none until
`revokeCommon` makes one for their revocation, which for them is the only difference.
A lookup reads the entry and fetches the lease in one step. Left out are the upgrade of
old entries, which stores what was read (`1353-1358`), and the lookup at the start of
`revokeTreeInternal` (`1606`), which finds the namespace.

### Mounts (`vault/mount.go`, `vault/router.go`)

| State | Code |
|---|---|
| `mounts`, `entry`, `stored` | the mount table in memory, its entries (the router refers to the same ones), the two tables in storage |
| `root`, `tainted` | the radix tree of the router and the taint of its route entries |
| `view`, `leases` | which mounts have data in storage; the secrets handed out and the path of the request that made them |
| `proc[p]` | a call of mount, unmount or remount, or a request on its way through the router |
| `up` | the last unseal set the mounts up |

What the code does in one stretch under `mountsLock` has one write and is one step;
between stretches everybody else runs. A path is a model value, `Below` says which
is a prefix of which. `setupMounts` is the restart after a crash anywhere.

### Keyring (`barrier_aes_gcm.go`, `keyring.go`, `rekey.go`, `ha.go`)

`keyring`, `masterKey`, `upgrade`, `stored`, `config` and `written` are the entries
in storage, `ring[n]` the keyring in the memory of a node, `role[n]` where it is
between sealed, standby, the three stages of `performKeyUpgrades` and active. A
ciphertext is its term and key. A step is one operation on storage; the write lock
of the barrier is held over the two writes of `persistKeyring`, and `Put` picks its
key under the lock and writes after it. Operators hold `shares`: those of the first
unseal key, and of a new one when its rekey was answered. `suspect`, `torn`,
`unfinished` and `kept` name what a cut-off call left behind.

Assumed, as it is outside the repository or of the configuration: the lock service
keeps the lock for the active node until it has stepped down; the seal is Shamir's
with a stored master key; a call ends and every standby has looked for upgrades
within the grace period (`GracePeriodOver`: 90 and 10 of 120 seconds). The timers of a
node that stepped down may still destroy an upgrade in the model; in the code their
context is cancelled, and the successor has timers of its own. An unseal asks for
the shares of the stored configuration's key.

## 3. Runs

All bounds are constants of the configurations.

| Run | Instance | Checks |
|---|---|---|
| `jobmanager` | 3 jobs, 2 queues, 2 workers | `TypeOK`, `IndexMatchesQueues`, `NoLostWakeup`, `RoundRobinForBacklogs`; `ImplementsPool`; under fairness `EveryJobRuns`, `AddJobReturns`, `StopEndsGoroutines` |
| `expiration` | 1 secret of an orphan batch token, which may be renewed after it expired, 2 requests at a time and 4 in all, 1 worker, failing backends, 1 restart | `TypeOK`, `LiveSecretTracked`, `LiveSecretWatched`, `LeaseCountCovers` |
| `expiration_token` | a token and its secret, 3 requests one at a time, 1 worker, storage and backends fail | `LiveSecretIndexed` |
| `expiration_live` | a root token and its secret, failing backends, 1 restart, fairness | `RootTokenKept`, `ExpiredSecretRevoked` |
| `restore` | 1 restore worker, a lease whose `Register` is not done and one registered later, on one lock; any 2 of a request, a prefix revocation, a failed job and a `FetchLeaseTimes`; failing storage; fairness | `LoadedOnce`, `NoNilLocks`, `AllRestored`, `RestoreEnds` |
| `restore_stop` | 1 lease, 1 restore worker, 1 failed job, fairness | `StopReturns`, which is violated |
| `rollback` | 1 path, 2 attempts, 2 requests of which 1 may write, sealing again and again | `RouteProtected`, `StopQuiesces`, `NilMeansAnswered`, `NoLockLeft`; under fairness `RollbackReturns`, `WritersGetLock`, `StopReturns`; no deadlock |
| `tokenstore` | a token, a child that may be used once and expires, a child of that one that is a root token with 2 uses, another child of the first that is being created, 2 requests with any of 5 calls, 1 worker, 1 fault or crash | `UsesBoundedUnlessOrphaned`, `RevokedStaysRevoked`, `TreeRevoked` |
| `tokenstore_live` | a token that expires, a child and a root token that is created under it, calls without faults, fairness | `CallsReturn` |
| `mounts` | 2 mounts (one local), 3 paths of which one is below another, 4 calls, moves there and back, 2 faults or crashes | `RouterMatchesTable`, `StorageMatchesTable`, `WipedOutOfService`, `LeaseLeadsHome`, `DisabledLeavesNothing` |
| `mounts_nested` | a mount apart that may move to a path above another mount | `UnsealSucceeds`, which is violated |
| `keyring` | 2 nodes, 2 calls at a time, 3 encryption keys, 2 master keys, 2 faults or crashes | `DataReadable`, `Unsealable`, `UpgradeWillGo`, `TakeoverSucceeds` |

Every property of these runs holds, except in two. In `restore_stop` an `OnFailure` that
gives up on a lease in restore mode calls `loadEntry` with `pendingLock` held
(`expiration.go:243`); a lease that `Register` has put into `pending` is not in
`restoreLoaded`, so it is set up once more, and `updatePending` takes `pendingLock` again
(`1955`, `1726`). The goroutine waits for itself, and `Stop`, which needs that lock
(`864`), waits with it; the comment on `Stop` says that it "must be called before sealing
the view" (`852-853`). The other way to the same end is a restore worker that has the
lock of the lease and wants `pendingLock`. In `mounts_nested`, `mountInternal` and
`Router.Mount` refuse a mount above or below another one, `remount` only looks for
a mount at or above its destination (`mount.go:875` and `909`). It moves `x/` to
`a/` while `a/b/` is mounted; after the next restart `setupMounts` mounts `a/`,
`Router.Mount` refuses `a/b/`, and the vault cannot be unsealed.

**Why the bounds are enough.** The races of the job manager are between one
`AddJob` before its send, another one behind it in the channel, and the assigner;
three jobs on two queues let a queue be pruned and come back meanwhile. The
entries of two leases never touch each other except through the index of a token
and the lock of a bucket, so one secret, with or without its token, is where the
conflicts of `Expiration` are, and two goroutines plus a worker are what it takes
for one to hold a stale entry while two others act. A clock of two or three times
(`MaxTime` 1, and 2 in `expiration`; `TTL = 1`) separates due from not due, lets a
renewal move the expiration, and lets the lease of a batch token be renewed past it. Two attempts (`maxRevokeAttempts = 2`; the code has 6) have one retry
and one last failure; `expiration_token`, where everything may fail, has one.
Four requests register, and leave three to interfere.
In `restore` the two leases share a lock, so that who works on one shuts out the other,
and differ in what `Restore` knows of them; two calls beside the worker are what it takes
for one to load a lease while another deletes, registers or fetches it (`MaxCalls = 2`,
790 thousand states). In `restore_stop` one call is enough.
Attempts of the rollback manager meet only at their path and at the state lock: one
path, a request that holds the lock and joins, another that waits behind it, and a
writer are the cases, and a second attempt is one that outlives the first.
In `tokenstore` two requests and the worker make three goroutines on a chain of
three tokens and one that is being created beside it (1.4 million states): a walk
has a token above, below and after each of its steps, and an orphaning in the middle
of the chain cuts off a part of it, which takes a third generation. Four calls on
the mount table let an unmount and a remount, or a move and the move back, overlap
with a new mount at the same path and a request that was routed before (630 thousand
states); two mishaps are a fault and the crash after it. In `keyring` three keys are two
rotations, so that a term is one or two behind; one of the keys may be lost to a
failed write; two nodes are the active one and one that takes over, and after a
crash the roles change.
Symmetry is declared for requests, workers, nodes and calls in safety runs only.

**Fairness.** The goroutines of the Go scheduler run (weak fairness of each
goroutine's steps), timers fire, and `Restore` runs. A job in the queue gets a
worker: strong fairness of `Execute`, which `EveryJobRuns` justifies, as the
manager serves the queues in turn. Nothing makes a client send a request, an
operator call `Stop` or time pass. The backend may fail for ever: the attempts
are bounded by the code, not by an assumption. In `ExpirationRestore` every
thread runs once, so weak fairness of taking a lock is enough. `RestoreEnds` excepts
behaviours in which an `OnFailure` has `pendingLock` for ever; `restore_stop` shows that
there are such.
In `RollbackManager` the steps of each goroutine are weakly fair: a request gives
the state lock back, a backend returns from its rollback (the context has a
deadline), a lock that stays free for a waiting goroutine is taken; the select of
the run goroutine takes the closed `shutdownCh` if it is offered again and again,
though the ticker may be ready as well (strong fairness of `RunShutdown`). In
`TokenStore` the steps of each goroutine, the expiry of a token that may expire and
the job for a lease that is due are weakly fair. No fault, crash or call is fair.

Deadlock is checked in `rollback`, where ticks, requests and sealing never end.
Elsewhere it is not: a system in which all jobs ran, the requests are used up or
the manager is stopped really stops. What must go on is stated as a liveness
property instead.

## 4. Proofs

Checked by TLAPS for any sets of jobs, queues, workers, leases, requests, mounts and
paths and any bounds.

**JobManagerProofs** (`TypeCorrect`, `IndexSafety`, `WakeupSafety`,
`PoolRefinement`, `RoundRobinSafety`). The inductive invariant is
`TypeOK /\ IndexMatchesQueues /\ NoLostWakeup`. The index has to be right for
`getNextJob` to find the queue it prunes; a wake-up is not lost because only
`AddJob` makes the set of queues non-empty, and it then still owes its send.
Assumption: `Jobs` does not contain `NoJob`.

`PoolRefinement` is `Spec => ImplementsPool`: the job manager implements `JobPool`.
A step of the manager maps to a step of the pool only if the job in the assigner's
hand is one nobody has begun with, and nothing in the state of the pool says so.
`JobsPlaced` does: a job stands at one position of one queue (`QueuedOnce`), a
queued job and the held one have been added and have neither a worker nor an
outcome (`QueuedUntouched`, `HeldUntouched`), a job runs on one worker
(`RunningOnce`), only an added job has an outcome (`DoneWasAdded`), and nothing
runs before `Start` (`IdleUntilStart`). It is inductive together with the first
invariant; what a removal from the front of a queue does to positions is the part
that needs work. TLC checks the same refinement on its instance.

`RoundRobinSafety` is `SpecF => []RoundRobinForBacklogs`, about the specification of
`JobManagerFairness`, which counts for each pair of queues how often one was served
while the other waited. `RoundRobinInv` ties the count to the cursor: a queue that was
overtaken once stands before the other one on the way round from the cursor
(`OvertakenComesFirst`, by `ServedBefore`). Pruning a queue shifts positions and
moves the cursor, at index 0 to the end of the slice; the order of the queues that
remain, seen from the cursor, is the same, and that is the part to prove.

**ExpirationProofs** (`TypeCorrect`, `LeaseSafety`, `RootTokenSafety`). `LeaseSafety` is
`Spec => []LiveSecretTracked`: whatever fails, crashes or interleaves, a secret
its backend honours has its lease entry in storage, or the registration that owes
it is still in progress. The invariant is not inductive: it says nothing of what
a goroutine carries from an earlier step. `IInv` adds

* `LocalInv`: what each goroutine knows of its lease at each place, in particular
  that it comes to delete an entry only after the backend gave the secret up
  (`GivenUp`), that what it writes back is an entry of a lease that was granted
  (`Granted`), and that a job never registers;
* `StoredGranted`: no entry without a grant. With it, a load yields a lease that
  was granted, so a stale write-back never precedes a later registration.

TLC checked `IInv` on the instances of the runs before it was proved. The proof
has one lemma per action. `SafeStep` reduces each to three facts: the goroutine
that moved knows what its new place asks for, the others did not move, and the
step is a `LeaseStep` (it grants no secret, deletes the entry of none that stays
live, and writes none for a lease that was not granted). The steps outside that
pattern, the beginning of a registration, `RegisterPersist`, `RollbackRevoke` and
`Restart`, are proved on their own. Assumptions: secrets and tokens are disjoint,
requests and workers are disjoint and do not contain `None`, which is no lease and no
entry either, leases are finitely many and the bounds are naturals.

`RootTokenSafety` has the hypothesis `NoneMadeDue`: no request makes the lease of a
token due (`LazyRevoke`, or a revocation of the token by its ID, which stores a lease
that has expired). With such a request, a crash before the revocation is over leaves a
root token with an entry that is due, and `Restore` sets a timer for it. Without one,
`RootInv` is inductive: the entry of a root token does not expire, neither in storage
nor in the hand of a goroutine, no timer or job is there for it, and no worker has it.

**ExpirationWatchProofs** (`WatchInvariant`, `IndexSafety`, `WatchSafety`,
`CountSafety`) shows that a live secret is found again: by the index of its token
(`LiveSecretIndexed`), by what will expire it (`LiveSecretWatched`) and in the count
(`LeaseCountCovers`). It stands on `IInv` and adds `WInv`:

* `KnowsInv`: a goroutine that clears the index or the maps has a secret that is given
  up, and one that writes an entry back has a lease that is stored, or given up;
* `LockInv`: between its two steps `OnFailure` has `pendingLock`, and the lease is
  still in `pending`, so the move to `irrevocable` loses nobody;
* `GoodInv`: a live secret is in one of the maps (`Kept`), what is stored as
  irrevocable is in that map or will be (`MarkKept`), and a timer, a queued job, a
  worker or a goroutine that owes the timer has it (`WatchKept`). In restore mode
  "Restore comes to it" is not enough: a lease that a request loaded is passed over,
  and so `Unseen` leaves it out. `Marked` is there for a `FetchLeaseTimes` with an
  entry from before the lease was given up;
* `IndexInv`, and `LeaseCountCovers` itself, which is inductive with the others: the
  count goes down only together with an entry of a map, for one that was in it.

`WatchSafety` has the hypothesis that storage does not fail: an `OnFailure` that
cannot load the lease leaves it without a timer (section 5). `IndexSafety` and
`CountSafety` hold under every fault. TLC checked `WInv` on the instances of both
safety runs and on random behaviours of a larger one.

**ExpirationRestoreProofs** (`RestoreInvariant`, `LoadedOnceSafety`,
`NilLocksSafety`, `RestoredSafety`): for any number of leases, locks, workers and
callers, calls of `FetchLeaseTimes` among them, a lease is set up once by those who hold
its lock (`LoadedOnce`), no lock is used after the locks are gone (`NoNilLocks`), and
restore mode ends without error only when every lease is there, deleted, or in the hand
of a `FetchLeaseTimes` that is about to set it up (`AllRestored`). The invariant says

* which locks a thread has at each place (`Placed`): who has a lease lock, or is about
  to take one, is a restore worker or a reader of `restoreModeLock`. `Restore` drops
  the locks when it is the writer and has all workers behind it, so nobody is left;
* that what was set up under its lock is in `restoreLoaded` until the locks are gone, and
  who is setting a lease up under its lock is the first (`LoadsInv`, `Loaded`), so the
  check under that lock is enough. `FetchLeaseTimes` adds to `restoreLoaded` without the
  lock, which can only make others pass a lease over;
* that a lease which `Restore` has passed, or may pass over (`Passed`), is in a map, about
  to be set up, or deleted (`Watched`), and that an entry is missing only if it was
  deleted (`GoneInv`): a worker that finds no entry reports the lease all the same;
* that a lease is with the distributor or one worker (`Apart`), and that the results
  received and under way are no more than the leases reported (`CountInv`): an error
  leaves the count short, and `Restore` does not end normally.

Assumptions: leases are finitely many, goroutines of different kinds are different,
a lock for each lease, and `None` is nothing else.

**RollbackManagerProofs** (`RollbackInvariant`, `RouteSafety`, `StopSafety`,
`NilSafety`, `LockSafety`) state the four safety properties of `RollbackManager`
for any paths, attempts and requests. The reader of a lock is not recorded where the
code holds it: an attempt may run under the lock of the caller that waits for it,
under its own, or under one that its helper goroutine still waits for. So the
invariant says, at each pair of places, whether the attempt is a reader or queued
(`GrabInv`), what it was asked for and by whom (`PlaceInv`), which lock the callers and
the core have (`CallerLockInv`, `CoreInv`), what a caller knows of the attempt it
waits for (`CallerRsInv`), that a writer is alone and that `inflightAll` counts the
attempts that run (`CountInv`). Assumption (`OwnersAssumption`): who owns the lock
are different goroutines, and finitely many attempts are there at a time.

**KeyringProofs** (`KeyringInvariant`, `DataSafety`, `UnsealSafety`, `UpgradeSafety`,
`TakeInvariant`, `TakeoverSafety`): what was written stays readable (`DataReadable`),
the operators' shares open the vault unless a rekey is unfinished (`Unsealable`) and
the active node will remove every upgrade key that no failure has kept
(`UpgradeWillGo`). The keyring in storage and the one in the memory of the active node
differ while a rotation or a rekey is between its writes, and nothing but the write
lock of the barrier and the rekey lock keeps calls apart (`LockAlone`, `RekeyAlone`).
The invariant says that one node leads (`OneLeader`), that a keyring only ever grows
(`ActiveRing`, by `Extends`), what each call knows of the keyring of its node and of
the master key at each place (`CallRing`, `CallRekey`), and that the active node has a
timer for each upgrade (`ActiveDestroys`). Assumption (`KeyringAssumption`): there is
a node, `Nil` is neither a node nor an upgrade, and the bounds are naturals.

`TakeoverSafety` is about a step: `Spec => TakeoverSucceeds`, a node that got the lock
does not shut down for want of a key. What it rests on is `TakeInv`, about each node
that is not sealed and not `suspect`:

* `Behind`: its keys are the first ones of the keyring in storage;
* `Chained`: from each term it does not have yet there is an upgrade, or the call that
  creates it is on its way;
* `CaughtUp`: a node that has looked for the upgrade of a term (`checked`) has the
  key, unless the creation of that upgrade or an earlier one is on its way. So the
  upgrade may be destroyed, and a node that found no more upgrades can open the master
  key.

It needs to know which key an upgrade leads to (`UpgradeKeys`), that a rotation adds
one key (`NewKeys`), and of which term the master key is (`MasterKeyRead`), while
`persistKeyring` is between its writes and after it was cut off there (`torn`).

**TokenStoreProofs** (`TokenInvariant`, `UsesSafety`, `RevokedSafety`,
`TreeInvariant`, `TreeSafety`): for any tokens, goroutines, calls, faults and restarts
a token is used no more often than it may be (`UsesBoundedUnlessOrphaned`), and one
that was revoked to the end is not let through again (`RevokedStaysRevoked`), with the
exceptions the properties name. `RevokedSafety` is about a step: it shows that a
request is let through only by one of the two lookups of a use (`GrantedLooks`), and
that what those need, an entry that is not revoked and a live lease, is not there
together for a token that is gone. Of a root token the lookup asks for the entry alone,
and `RestoredInv`, which is inductive by itself over the invariant, says that the entry
of a token that was deleted is gone unless somebody stored it again. The invariant has

* `Shape`: the stacks. A request's own activation is at the bottom (`Base`), above it
  are only revocations, and a use that waits for a call has no entry (`StackOK`).
  `Derived` says how a step changes a stack, so that one lemma serves all calls,
  returns and moves;
* `CreateInv`, `UnbornInv`, `LeaseInv`: a token is created by one goroutine, has no
  entry before `storePrimary`, and no live lease and no use before `RegisterAuth`, where
  a root token may be used as soon as it is stored (`Fresh`);
* `UseLockInv`, `UsesInv`: who has read the entry in `UseToken` holds the lock, and
  the uses made and those left in the entry, in storage or in its hand, are no more
  than the token was created with;
* `RevokeInv`, `DeletedInv`: what `revokeInternal` knows at each place. From the mark
  on its token is `Marked`, after `RevokeByToken` it is `Gone`: created to the end and
  without a live lease (which nothing but `RegisterAuth` makes), or `Closed`, which is
  a token still being created whose entry no lookup returns and nobody will store, or
  excepted.

`StoreStep` and `OpsKept` are what almost every step satisfies, and `QuietStep` that
the invariant survives it; `CoreStep` serves the four that store a token, its lease or
its use. TLC checked a first form of the invariant on the instance of the run and on
part of one with four requests; the proof asked for three conjuncts more. Assumptions
(`TokenAssumption`): tokens are finitely many, `Nil` is neither token, goroutine nor
entry, and a token is created under a parent.

`TreeSafety` is `Spec => []TreeRevoked`: a tree that was revoked leaves no token of it
usable, but for those another revocation works on or has cut off. Many walks may be in
one tree, each with its own `dfs` and `seenIDs`, over an index that the others change;
a walk may not meet a token, and return success, because another one took it out of
the index. The argument is in five sets of tokens that, without a mishap, never lose
one: `Flagged` (its revocation has begun or is over), `Shut` (flagged, an orphan, or
about to be one for certain), `Leaving` (shut, or it will be unless its parent is
gone), `NotLive` and `Attended` (not live, or being revoked; a root token, which needs no
lease, is not live when it is deleted: `Ended`). What an activation has
once found out by them stays true whatever the others do, so that the invariant
`TreeInv` can say

* `IndexInv`: the index leads from its parent to each token that was there at first,
  unless that is flagged: a walk that does not find a child need not;
* `OrderInv`: a token loses its lease or its entry after its children were shut; a
  flagged one has a revocation that works on it, or has ended;
* `TreeStacks`: who called whom; what each `revokeInternal` knows at each place
  (`RevokeOK`); that a walk has the tokens of `dfs` in the order of their depth, and
  that a token it has seen and that is not on `dfs` is flagged (`WalkOK`). This is
  what makes `revokeInternal` with `skipOrphan` sound: the children of the token it
  is called for are flagged;
* `DoomInv`: what a request has to revoke is what the index led to from a root that
  is flagged at the end, so the tree is, link by link, flagged or cut off.

The hypothesis `Forest` says that parents make trees of finite depth and that a token
that is there at first is there with its parent. The depth is needed: on a cycle the
order of `dfs` means nothing. The instance of `tokenstore` is such a forest.
`TreeInv` holds while `mishaps = 0` (`CalmInv`): after a failed access a flag stays
and later revocations return success without doing anything (section 5). TLC checked
`TreeInv` on three instances before it was proved.

**MountsProofs** (`MountsInvariant`, `StorageSafety`, `RouterSafety`, `OutOfService`,
`HomeInvariant`, `LeaseHomeSafety`, `DisabledSafety`): `StorageMatchesTable`,
`RouterMatchesTable` and `WipedOutOfService` hold for any number of mounts, unmounts,
remounts, requests, faults and restarts at once. None is inductive alone, and nothing
but the state of the table and the router keeps two calls apart, so `IInv` says how
they do:

* `PathsApart`, `RootInjective`: an entry and a route to each path and mount. Without
  them a lookup by path, which every later step of a call makes anew, could find
  another mount than the one before;
* `UnrouteAlone`: between `removeMountEntry` and `Router.Unmount` the route stands
  without an entry, and this is what keeps a mount, a remount and a second unmount
  off the path until it is gone;
* `Known`, `FreshMounts`: what is about to be mounted is nowhere yet, so that it is
  neither deleted nor in the hand of another call;
* `UnmountInv`: what an unmount knows of the mount it began with, at each place:
  that it has not moved, that its entry in storage is tainted, that its route is,
  unless a remount took it away meanwhile (`revived`). From it follows that what is
  deleted is out of service; the taint in storage carries that over a restart;
* `CallShape`, `Quiet`: the fields of a call, and that a sealed vault has no calls.

The proof has one lemma per action. `QuietStep` and `TaintsStep` serve the actions
that leave table and router alone; `Persisted` says what a write of one of the two
tables leaves in storage. Assumptions: a UUID is at one path at first, the
calls are what the handlers make, `Nil` is no mount, path or entry, and being a
prefix of is an order in which the prefixes of a path have a longest one. TLC
checked `IInv` on the instances of both runs before.

`LeaseHomeSafety` and `DisabledSafety` (`LeaseLeadsHome`, `DisabledLeavesNothing`)
stand on `IInv` and `HomeInv`: a mount that is not in the table, and that no race
has met, has neither data nor leases (`GoneEmpty`), because the unmount that came to
remove it has revoked the leases and cleared the data, in that order, and nobody could
use it since (`Emptied`); a remount that is about to move a mount still has it tainted
and without leases, if the mount is where the remount began (`Moving`), so no lease
is left at the old path; and the router finds the mount of a lease by the longest
prefix after each change of a route (`LeasesHome`). `RoutedGone` and `StaysDown` are
about the routes that stand without an entry and about a vault that could not be
unsealed.

**Only model-checked.** Every invariant and every action property that a run checks
is a theorem. What is left to TLC is liveness, which rests on fairness (the prover has
no rules for `ENABLED` and fairness): `EveryJobRuns`, `AddJobReturns`,
`StopEndsGoroutines`, `ExpiredSecretRevoked`, `RestoreEnds`, `RollbackReturns`,
`WritersGetLock`, `StopReturns` of the rollback manager and `CallsReturn`; and the
counterexamples of `restore_stop` and `mounts_nested`.

## 5. Observations

Behaviour of the code that the models have and that the properties leave room for.
Where a document promises more than the code keeps, the property is stated as weak
as the code, and the exception has a name.

Leases:

* a timer fires during a renewal; the job it queued is not withdrawn and revokes
  the secret after the renewal succeeded (`expiration.go:216`; data "will be valid
  for the given duration", `website/content/docs/concepts/lease.mdx:13`);
* `Register` creates the index after it stored the lease: a `RevokeByToken` that
  looked the index up in between misses the secret, which lives for its whole TTL
  (`expiration.go:1498`, `lease.mdx:35`);
* `OnFailure` at the last attempt returns when it cannot load the entry, and leaves
  a lease without timer, job or mark until a restart (`expiration.go:243`,
  `lease.mdx:34`);
* in restore mode `OnFailure`, which has `pendingLock`, can wait for that lock itself or
  for a lease lock whose holder waits for it, and `Stop` with it for ever
  (`expiration.go:243` and `864`; the run `restore_stop`);
* `FetchLeaseTimes` loads without the lock of the lease and without a look at
  `restoreLoaded` (`expiration.go:1648`): a lease is set up a second time beside
  whoever does so under the lock, and a worker passes over a lease that such a call has
  marked and not yet set up, so that restore mode can end a moment before the lease has
  its timer. The exception in `AllRestored`, and why `LoadedOnce` does not speak of it;
* `leaseCount` stays one too high when an irrevocable lease is revoked by hand, so
  only a lower bound is stated;
* a renewal that saves between `deleteEntry` and the end of `revokeCommon` leaves an
  entry in storage that no map holds until the next restart, and a stale save after
  `markLeaseIrrevocable` puts the lease back into `pending`;
* `FetchLeaseTimes` may put a lease back into `pending` whose entry is gone; its
  timer fires, the job finds nothing and returns;
* a revocation of a root token by its ID, or a `LazyRevoke` of its lease, stores an
  entry that is due; after a crash before the revocation is over the token is live and
  the next `Restore` sets a timer for it, which completes the revocation;
* after an error of `Restore` the distributor, and workers that have a second error
  or result to send, block for ever.

Tokens:

* a child that is created while the tree of its parent is revoked may be neither
  revoked nor orphaned (`token_store.go:979` and `1642`, `tokens.mdx:85-87`);
  `TreeRevoked` is about the tokens that were there;
* a `revoke-orphan` in the middle of a tree whose revocation is under way cuts off all
  that is below: the whole of it stays usable after the revocation of the tree has
  returned success (`CutOff`). It takes a third generation to see more than the
  orphan itself;
* orphaning stores an entry that was read before the lock was taken, and gives back
  a use made in between (`token_store.go:1551`, `api-docs/auth/token.mdx:100`): the
  exception in `UsesBoundedUnlessOrphaned`;
* `RegisterAuth` does not look whether the token is still there (`expiration.go:1519`):
  a token that is revoked between its creation and `RegisterAuth` gets a live lease
  afterwards, and an orphaning that read its entry before makes it usable again. It
  takes four goroutines; the first exception in `RevokedStaysRevoked`;
* a lookup of a root token asks for no lease (`token_store.go:1299-1307`). A `UseToken`
  of a root token with a use count that looked it up before its revocation ended, or
  an orphaning that did, stores the entry again after `revokeInternal` deleted it, and
  the token is usable for ever (`1080`, `1551`): the exception `Root \cap restored` in
  `RevokedStaysRevoked` and `TreeRevoked`. Both properties fail on the instance of
  `tokenstore` without it;
* the error path of `token_store.go:1412` clears the flag under the unsalted ID, and
  the early returns before it leave the flag as well: later revocations return
  success without doing anything until a restart. `TreeRevoked` is stated without
  mishaps for this reason;
* the lease that `CreateOrFetchRevocationLeaseByToken` stores has no timer; if the
  revocation fails only a restart finds it.

Rollback, mounts:

* a rollback that the backend does not support, that its storage refuses as read-only,
  or that answers with an error response and a nil `err` (as `framework.Backend` does
  when it cannot list its write-ahead log, `sdk/framework/backend.go:507`) counts as a
  success (`rollback.go:231-240`). So the rollback "a final time" of an unmount
  (`mount.go:669`) may return nil without one having been made: `NilMeansAnswered` says
  that the backend answered, not that it rolled back;
* an attempt is done before it leaves the inflight map, so that the rollback "a
  final time" of an unmount (`mount.go:669`) may be one that was over before the
  mount was tainted;
* a remount clears the taint of an unmount that is at work on the same mount, or
  has deleted part of its data (`revived`);
* a request routed before the taint may write data or register a lease after both
  were cleared (`late`; the code says "in-flight requests are uncertain");
* `removeMountEntry` and `remount` act on the entry at the path, which need not be
  the mount the call began with (`mistaken`);
* of two remounts, there and back, that overlap, the first one's `Untaint` releases
  the mount while the second is between revoking its leases and moving it; a lease
  that a request gets meanwhile is left at the path the mount moves away from
  (`mount.go:950`; also `mistaken`).

Keys:

* a crash between `SetStoredKeys` and the end of a rekey leaves a stored master key
  that does not open the keyring, or a configuration whose shares nobody has
  (`rekey.go:545`): `Unsealable` excepts an unfinished rekey;
* `VerificationKey` is cleared before the configuration is stored: when that write
  fails the verification cannot be repeated;
* a failed `CreateUpgrade` is only logged, and a cut-off `persistKeyring` leaves the
  standbys without the way to the new term: a standby that takes over then shuts
  down and has to be unsealed (`suspect`).

Job manager:

* when the queue at index 0 is pruned the cursor goes to the last queue, so the
  order of queues without a backlog is not strictly round-robin;
* `AddJob` after `Stop` can block on its send.

## 6. Not modelled, and why

* The rest of `expiration.go`: `Tidy`, the loops of `RevokePrefix` and
  `RevokeForce` over many leases (each is a sequence of the modelled revocation of
  one lease), the counters and listings, and the emission of metrics.
* Of the token store: batch tokens, roles, accessors, cubbyholes, tidy, the upgrade of
  old entries.
* Of the mounts: auth mounts (`auth.go` has the same shape), tuning, plugins,
  replication and filtered mounts, the upgrade of old tables. A mount whose plugin did
  not load has no backend, and its unmount skips rollback and revocation
  (`mount.go:668` and `674`). The four reads of the router at the start of an unmount are
  one step.
* Of the keys: the counting of shares and nonces of a rekey, recovery keys, auto
  seals and the migration between seals, root token generation, the rotation
  configuration, and the reload of the Shamir key by `performKeyUpgrades`.
* Of sealing and high availability: clustering, forwarding, the order of `preSeal`
  and `postUnseal`.
* Cryptography, encoding, audit formatting, policy evaluation, the identity
  store's MemDB, raft (a library), the command line, the API client, the agent and
  the UI: no state machine of Vault's own, or out of a model checker's reach.
  `PROJECT.json` has the reason for each.
* Namespaces: the open-source build has only the root namespace.

## 7. Plan

In this order:

1. **Abstract specifications**: a lease as granted, expired and revoked, which
   `Expiration` implements; a token with a number of uses, which `TokenStore`
   implements up to the exceptions of section 5.
2. **Seal and HA**: the order of `postUnseal` and `preSeal`, step-down, with the
   parts that are started and stopped.
3. **Rekey**: the shares, nonces and cancellations of rekey and of root token
   generation.
4. **Expiration**, the rest: `Tidy`, `RevokePrefix` over several leases. Tidy of the
   token store, auth mounts, response wrapping, the storage cache.
