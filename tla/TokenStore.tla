----------------------------- MODULE TokenStore -----------------------------
(***************************************************************************)
(* The token store (vault/token_store.go): creation under a parent, use    *)
(* counts, lookup, revocation of a token with its tree of children and     *)
(* revocation that leaves the children as orphans, with the calls it makes *)
(* into the expiration manager and that one's calls back.                  *)
(*                                                                         *)
(* Every access to storage is a step, between any two of them other        *)
(* requests run, and any of them may fail.  A goroutine is a stack of      *)
(* activations, because the functions call each other both ways: a lookup  *)
(* that finds a token without a lease revokes it, which walks the tree of  *)
(* the token, which looks tokens up.                                       *)
(***************************************************************************)
EXTENDS Integers, Sequences, FiniteSets, SequencesExt

CONSTANTS
    Tokens,
    Existing,       \* the tokens there are at first, each with its lease
    Parent,         \* token -> the token it is (or will be) created under
    NumUses,        \* token -> how many uses it is created with, 0: any number
    Requests,       \* goroutines of requests, each makes one call
    Workers,        \* goroutines that revoke the leases that are due
    Calls,          \* the calls they make: pairs of an operation and a token
    Expiring,       \* the tokens whose time to live may run out
    Root,           \* the root tokens without a time to live
    MaxMishaps,     \* how many storage accesses fail or crashes happen
    Nil             \* no token, no entry, no goroutine

Procs == Requests \cup Workers

ASSUME TokenAssumption ==
    /\ IsFiniteSet(Tokens) /\ Existing \subseteq Tokens /\ Expiring \subseteq Tokens
    /\ Root \subseteq Tokens \ Expiring
    /\ Nil \notin Tokens \cup Procs /\ Nil \notin [uses : Int, parent : Tokens \cup {Nil}]
    /\ Parent \in [Tokens -> Tokens \cup {Nil}]
    /\ NumUses \in [Tokens -> Nat]
    /\ Calls \subseteq {"create", "use", "revokeTree", "revokeOrphan"} \X Tokens
    /\ \A call \in Calls : call[1] = "create" => Parent[call[2]] # Nil
    /\ MaxMishaps \in Nat

VARIABLES
    idView,                 \* stored entries: token -> its uses and parent
    parentView,             \* the index <<parent, child>> of children
    lease,                  \* the lease of each token's authentication
    tokensPendingDeletion,  \* the sync.Map of revocations under way
    tokenLocks,             \* token -> who holds its lock for writing
    proc,                   \* goroutine -> its stack and result
    mishaps,                \* storage faults and crashes so far
    created,                \* history: the tokens there are or were asked for
    used,                   \* history: the uses granted to each token
    deleted,                \* history: the tokens revoked to the end
    restored,               \* history: those stored again since their deletion
    orphaned,               \* history: the tokens an orphaning has stored
    doomed                  \* history: request -> the tree it had to revoke

storeVars == <<idView, parentView, tokensPendingDeletion>>
histVars == <<created, used, deleted, restored, orphaned, doomed>>
vars == <<storeVars, lease, tokenLocks, proc, mishaps, histVars>>

tokenRevocationPending == -1

\* A lease is live, due (expired, with a timer that queues its revocation)
\* or bare: expired and stored, without a timer, as
\* CreateOrFetchRevocationLeaseByToken leaves it.
LeaseStates == {"none", "live", "due", "bare"}

\* An activation of function fn for token t.
Frame(fn, t, pc) ==
    [fn |-> fn, t |-> t, pc |-> pc, entry |-> Nil, skipOrphan |-> FALSE,
     dfs |-> <<t>>, seenIDs |-> {}, todo |-> {}]

Entry == [uses : {tokenRevocationPending} \cup Nat, parent : Tokens \cup {Nil}]

TypeOK ==
    /\ idView \in [Tokens -> Entry \cup {Nil}]
    /\ parentView \subseteq Tokens \X Tokens
    /\ lease \in [Tokens -> LeaseStates]
    /\ tokensPendingDeletion \in [Tokens -> {"absent", "true", "false"}]
    /\ tokenLocks \in [Tokens -> Procs \cup {Nil}]
    /\ \A p \in Procs :
         /\ proc[p].result \in {"none", "running", "ok", "failed"}
         /\ \A i \in DOMAIN proc[p].stack : proc[p].stack[i].t \in Tokens
    /\ mishaps \in 0 .. MaxMishaps

Quiet(result) == [stack |-> <<>>, result |-> result]

Init ==
    /\ idView = [t \in Tokens |->
         IF t \in Existing THEN [uses |-> NumUses[t], parent |-> Parent[t]] ELSE Nil]
    /\ parentView = {<<Parent[t], t>> : t \in {c \in Existing : Parent[c] # Nil}}
    /\ lease = [t \in Tokens |-> IF t \in Existing THEN "live" ELSE "none"]
    /\ tokensPendingDeletion = [t \in Tokens |-> "absent"]
    /\ tokenLocks = [t \in Tokens |-> Nil]
    /\ proc = [p \in Procs |-> Quiet("none")]
    /\ mishaps = 0
    /\ used = [t \in Tokens |-> 0]
    /\ deleted = {}
    /\ restored = {}
    /\ created = Existing
    /\ orphaned = {}
    /\ doomed = [p \in Procs |-> {}]

-----------------------------------------------------------------------------
(* Calls and returns.                                                      *)

Top(p) == Head(proc[p].stack)
Rest(p) == Tail(proc[p].stack)
At(p, fn, pc) == proc[p].stack # <<>> /\ Top(p).fn = fn /\ Top(p).pc = pc

SetStack(p, s) ==
    proc' = [proc EXCEPT ![p] = IF s = <<>> THEN Quiet("ok") ELSE [@ EXCEPT !.stack = s]]

Become(p, f) == SetStack(p, <<f>> \o Rest(p))
Goto(p, pc) == Become(p, [Top(p) EXCEPT !.pc = pc])
Call(p, f, g) == SetStack(p, <<g, f>> \o Rest(p))

\* The stack s, to which an activation has just returned: revokeTreeInternal
\* takes the token that was revoked off dfs, and returns with the last one.
Resumed(s) ==
    IF s = <<>> \/ Head(s).pc # "pop" THEN s
    ELSE IF Len(Head(s).dfs) = 1 THEN Tail(s)
    ELSE <<[Head(s) EXCEPT !.pc = "list", !.dfs = Front(@)]>> \o Tail(s)
Return(p) == SetStack(p, Resumed(Rest(p)))

\* Every activation from the top down returns the error.  The deferred
\* function of revokeInternal, once in place, marks the revocation so that
\* the next call retries it; UseToken releases its lock.  A RegisterAuth that
\* failed makes the request revoke the token it created.
Deferred == {"leases", "index", "children", "child", "orphan", "delete"}
retryStates(p) ==
    [t \in Tokens |->
       IF \E i \in DOMAIN proc[p].stack :
            LET f == proc[p].stack[i] IN
            f.fn = "revokeInternal" /\ f.t = t /\ f.pc \in Deferred
       THEN "false" ELSE tokensPendingDeletion[t]]
ReturnErr(p) ==
    /\ tokensPendingDeletion' = retryStates(p)
    /\ tokenLocks' = [t \in Tokens |-> IF tokenLocks[t] = p THEN Nil ELSE tokenLocks[t]]
    /\ proc' = [proc EXCEPT ![p] =
         IF At(p, "create", "register")
         THEN [@ EXCEPT !.stack = <<Frame("revokeInternal", Top(p).t, "flag")>>]
         ELSE Quiet("failed")]

-----------------------------------------------------------------------------
(* lookupInternal.                                                         *)

\* The entry is there and the caller wants it, but it has no lease, which only
\* a root token may do without.
Leaseless(t, tainted) ==
    /\ idView[t] # Nil /\ t \notin Root
    /\ tainted \/ idView[t].uses >= 0
    /\ lease[t] = "none"

\* What lookupInternal returns for a token that has a lease, for a root token,
\* whose lease it does not look at, and for one without an entry.
lookupResult(t, tainted) ==
    IF /\ idView[t] # Nil
       /\ tainted \/ (idView[t].uses >= 0 /\ (t \in Root \/ lease[t] = "live"))
    THEN idView[t] ELSE Nil

\* lookupInternal, called by the activation on top of p's stack, which goes
\* on at pc with the entry.  A token without a lease gets an expired one and
\* is revoked through it first; the lookup then returns nothing.
lookupInternal_NoLease(p, t, tainted, pc) ==
    /\ Become(p, [Top(p) EXCEPT !.pc = pc, !.entry =
         IF lease[t] = "none" /\ idView[t] # Nil /\ idView[t].uses >= 0
         THEN idView[t] ELSE lookupResult(t, tainted)])
    /\ UNCHANGED lease
lookupInternal(p, t, tainted, pc) ==
    IF Leaseless(t, tainted)
    THEN /\ lease' = [lease EXCEPT ![t] = "bare"]
         /\ Call(p, [Top(p) EXCEPT !.pc = pc, !.entry = Nil], Frame("Revoke", t, "load"))
    ELSE /\ Become(p, [Top(p) EXCEPT !.pc = pc, !.entry = lookupResult(t, tainted)])
         /\ UNCHANGED lease

\* Lookup: the same under the read lock of the token.
Lookup(p, t, pc) == tokenLocks[t] = Nil /\ lookupInternal(p, t, FALSE, pc)

-----------------------------------------------------------------------------
(* create and RegisterAuth: the index and the entry of the token and then  *)
(* its lease.                                                              *)

\* An entry of t is stored: it may be that of a token that was deleted.
storedAgain(t) == restored \cup ({t} \cap deleted)

storeParentLookup(p) ==
    /\ At(p, "create", "parent")
    /\ Lookup(p, Parent[Top(p).t], "index")
    /\ UNCHANGED <<storeVars, tokenLocks, mishaps, histVars>>

storeIndex(p) ==
    LET t == Top(p).t IN
    /\ At(p, "create", "index")
    /\ IF Top(p).entry = Nil
       THEN ReturnErr(p) /\ UNCHANGED parentView
       ELSE /\ parentView' = parentView \cup {<<Parent[t], t>>}
            /\ Goto(p, "primary") /\ UNCHANGED <<tokensPendingDeletion, tokenLocks>>
    /\ UNCHANGED <<idView, lease, mishaps, histVars>>

storePrimary(p) ==
    LET t == Top(p).t IN
    /\ At(p, "create", "primary")
    /\ idView' = [idView EXCEPT ![t] = [uses |-> NumUses[t], parent |-> Parent[t]]]
    /\ restored' = storedAgain(t)
    /\ Goto(p, "register")
    /\ UNCHANGED <<parentView, tokensPendingDeletion, lease, tokenLocks, mishaps,
                   created, used, deleted, orphaned, doomed>>

RegisterAuth(p) ==
    /\ At(p, "create", "register")
    /\ lease' = [lease EXCEPT ![Top(p).t] = "live"]
    /\ Return(p)
    /\ UNCHANGED <<storeVars, tokenLocks, mishaps, histVars>>

Create(p) == storeParentLookup(p) \/ storeIndex(p) \/ storePrimary(p) \/ RegisterAuth(p)

-----------------------------------------------------------------------------
(* A request that uses a token: the lookup of the request, UseToken, and   *)
(* the deferred revocation of a token that had its last use.               *)

useLookup(p) ==
    /\ At(p, "use", "lookup")
    /\ Lookup(p, Top(p).t, "lock")
    /\ UNCHANGED <<storeVars, tokenLocks, mishaps, histVars>>

\* UseToken: a token without a count is let through; else the entry is read
\* again under the lock of the token.
useLock_Shared(t, p) == UNCHANGED tokenLocks
useLock(t, p) == tokenLocks[t] = Nil /\ tokenLocks' = [tokenLocks EXCEPT ![t] = p]

UseToken(p) ==
    LET e == Top(p).entry IN
    /\ At(p, "use", "lock")
    /\ \/ e = Nil /\ ReturnErr(p) /\ UNCHANGED lease
       \/ /\ e # Nil /\ e.uses = 0
          /\ Return(p) /\ UNCHANGED <<tokensPendingDeletion, lease, tokenLocks>>
       \/ /\ e # Nil /\ e.uses # 0
          /\ useLock(Top(p).t, p)
          /\ lookupInternal(p, Top(p).t, FALSE, "store")
          /\ UNCHANGED tokensPendingDeletion
    /\ UNCHANGED <<idView, parentView, mishaps, histVars>>

usesAfter(n) == IF n = 1 THEN tokenRevocationPending ELSE n - 1

useStore(p) ==
    LET t == Top(p).t  e == Top(p).entry IN
    /\ At(p, "use", "store")
    /\ IF e = Nil
       THEN ReturnErr(p) /\ UNCHANGED <<idView, used, restored>>
       ELSE /\ idView' = [idView EXCEPT ![t] = [e EXCEPT !.uses = usesAfter(e.uses)]]
            /\ tokenLocks' = [tokenLocks EXCEPT ![t] = Nil]
            /\ used' = [used EXCEPT ![t] = @ + 1]
            /\ restored' = storedAgain(t)
            /\ IF e.uses = 1 THEN Goto(p, "lazyRevoke") ELSE Return(p)
            /\ UNCHANGED tokensPendingDeletion
    /\ UNCHANGED <<parentView, lease, mishaps, created, deleted, orphaned, doomed>>

\* CreateOrFetchRevocationLeaseByToken with LazyRevoke of its lease.
LazyRevoke(p) ==
    /\ At(p, "use", "lazyRevoke")
    /\ lease' = [lease EXCEPT ![Top(p).t] = "due"]
    /\ Return(p)
    /\ UNCHANGED <<storeVars, tokenLocks, mishaps, histVars>>

Use(p) == useLookup(p) \/ UseToken(p) \/ useStore(p) \/ LazyRevoke(p)

-----------------------------------------------------------------------------
(* The handlers that revoke: handleRevokeTree and handleRevokeOrphan.      *)

\* The tokens that the edges E lead to from t: those in every set with t that
\* no edge leaves.
Reach(t, E) ==
    {d \in Tokens : \A S \in SUBSET Tokens :
        t \in S /\ (\A e \in E : e[1] \in S => e[2] \in S) => d \in S}

\* The token with all its descendants in the index.
TreeOf(t) == Reach(t, parentView)

revokeLookup(p) ==
    /\ \/ At(p, "revokeTree", "lookup") \/ At(p, "revokeOrphan", "lookup")
    /\ Lookup(p, Top(p).t, "revoke")
    /\ UNCHANGED <<storeVars, tokenLocks, mishaps, histVars>>

\* revokeCommon: through the lease of the token, which is made if need be.
handleRevokeTree(p) ==
    LET t == Top(p).t IN
    /\ At(p, "revokeTree", "revoke")
    /\ IF Top(p).entry = Nil
       THEN Return(p) /\ UNCHANGED <<lease, doomed>>
       ELSE /\ lease' = [lease EXCEPT ![t] = IF @ = "none" THEN "bare" ELSE @]
            /\ doomed' = [doomed EXCEPT ![p] = TreeOf(t)]
            /\ Become(p, Frame("Revoke", t, "load"))
    /\ UNCHANGED <<storeVars, tokenLocks, mishaps, created, used, deleted, restored, orphaned>>

handleRevokeOrphan(p) ==
    /\ At(p, "revokeOrphan", "revoke")
    /\ IF Top(p).entry = Nil THEN ReturnErr(p)
       ELSE Become(p, Frame("revokeInternal", Top(p).t, "flag"))
            /\ UNCHANGED <<tokensPendingDeletion, tokenLocks>>
    /\ UNCHANGED <<idView, parentView, lease, mishaps, histVars>>

RevokeHandler(p) == revokeLookup(p) \/ handleRevokeTree(p) \/ handleRevokeOrphan(p)

-----------------------------------------------------------------------------
(* The expiration manager: Revoke of the lease of a token calls revokeTree *)
(* and deletes the lease when that succeeded.                              *)

\* The lookup at the start of revokeTreeInternal only finds the namespace; it
\* is one step with the load of the lease, which it therefore finds too.
RevokeLoad(p) ==
    /\ At(p, "Revoke", "load")
    /\ IF lease[Top(p).t] = "none" THEN Return(p)
       ELSE Call(p, [Top(p) EXCEPT !.pc = "delete"],
                 Frame("revokeTreeInternal", Top(p).t, "list"))
    /\ UNCHANGED <<storeVars, lease, tokenLocks, mishaps, histVars>>

RevokeDelete(p) ==
    /\ At(p, "Revoke", "delete")
    /\ lease' = [lease EXCEPT ![Top(p).t] = "none"]
    /\ Return(p)
    /\ UNCHANGED <<storeVars, tokenLocks, mishaps, histVars>>

Revoke(p) == RevokeLoad(p) \/ RevokeDelete(p)

-----------------------------------------------------------------------------
(* revokeTreeInternal: depth first, children before parents.               *)

\* The children of the token on top of dfs that were never on dfs before.
unseen_All(f, kids) == kids
unseen_MarkedFirst(f, kids) == kids \ (f.seenIDs \cup kids)
unseen(f, kids) == kids \ (f.seenIDs \cup {Last(f.dfs)})

\* The index entries of children already seen are removed; a token without
\* other children is a leaf and revoked.
revokeTreeInternal(p) ==
    LET f == Top(p)
        id == Last(f.dfs)
        kids == {c \in Tokens : <<id, c>> \in parentView}
        g == [f EXCEPT !.seenIDs = @ \cup {id}] IN
    /\ At(p, "revokeTreeInternal", "list")
    /\ parentView' = parentView \ {<<id, c>> : c \in kids \ unseen(f, kids)}
    /\ IF unseen(f, kids) = {}
       THEN Call(p, [g EXCEPT !.pc = "pop"],
                 [Frame("revokeInternal", id, "flag") EXCEPT !.skipOrphan = TRUE])
       ELSE Become(p, [g EXCEPT !.dfs = @ \o SetToSeq(unseen(f, kids))])
    /\ UNCHANGED <<idView, tokensPendingDeletion, lease, tokenLocks, mishaps, histVars>>

-----------------------------------------------------------------------------
(* revokeInternal.                                                         *)

\* LoadOrStore of true: a revocation under way is left to its owner, and one
\* that failed is retried with its state false as it is.
LoadOrStore(p) ==
    LET t == Top(p).t IN
    /\ At(p, "revokeInternal", "flag")
    /\ IF tokensPendingDeletion[t] = "true"
       THEN Return(p) /\ UNCHANGED tokensPendingDeletion
       ELSE /\ tokensPendingDeletion' = [tokensPendingDeletion EXCEPT ![t] =
                 IF @ = "absent" THEN "true" ELSE @]
            /\ Goto(p, "lookup")
    /\ UNCHANGED <<idView, parentView, lease, tokenLocks, mishaps, histVars>>

internalLookup(p) ==
    /\ At(p, "revokeInternal", "lookup")
    /\ lookupInternal(p, Top(p).t, TRUE, "mark")
    /\ UNCHANGED <<storeVars, tokenLocks, mishaps, histVars>>

\* The entry is stored with its revocation pending; without an entry the
\* function returns and leaves the state in the map.
markRevoked(p) ==
    LET t == Top(p).t  e == Top(p).entry IN
    /\ At(p, "revokeInternal", "mark")
    /\ IF e = Nil THEN Return(p) ELSE Goto(p, "leases")
    /\ IF e = Nil \/ e.uses = tokenRevocationPending THEN UNCHANGED <<idView, restored>>
       ELSE /\ idView' = [idView EXCEPT ![t] = [e EXCEPT !.uses = tokenRevocationPending]]
            /\ restored' = storedAgain(t)
    /\ UNCHANGED <<parentView, tokensPendingDeletion, lease, tokenLocks, mishaps,
                   created, used, deleted, orphaned, doomed>>

\* The cubbyhole goes, the leases of the token are handed to the expiration
\* manager (module Expiration) and its own lease is removed.
RevokeByToken(p) ==
    /\ At(p, "revokeInternal", "leases")
    /\ lease' = [lease EXCEPT ![Top(p).t] = "none"]
    /\ Goto(p, "index")
    /\ UNCHANGED <<storeVars, tokenLocks, mishaps, histVars>>

clearParentIndex(p) ==
    LET f == Top(p) IN
    /\ At(p, "revokeInternal", "index")
    /\ parentView' = parentView \ {<<f.entry.parent, f.t>>}
    /\ Goto(p, IF f.skipOrphan THEN "delete" ELSE "children")
    /\ UNCHANGED <<idView, tokensPendingDeletion, lease, tokenLocks, mishaps, histVars>>

\* Orphaning: the children are listed, and each is looked up, locked and
\* stored without its parent.  The Delete of the index entry that follows
\* names the child without its parent, which is no key of the index.
listChildren(p) ==
    LET kids == {c \in Tokens : <<Top(p).t, c>> \in parentView} IN
    /\ At(p, "revokeInternal", "children")
    /\ Become(p, [Top(p) EXCEPT !.todo = kids, !.pc = IF kids = {} THEN "delete" ELSE "child"])
    /\ UNCHANGED <<storeVars, lease, tokenLocks, mishaps, histVars>>

Child(p) == CHOOSE c \in Top(p).todo : TRUE

childLookup(p) ==
    /\ At(p, "revokeInternal", "child")
    /\ lookupInternal(p, Child(p), TRUE, "orphan")
    /\ UNCHANGED <<storeVars, tokenLocks, mishaps, histVars>>

orphanChild(p) ==
    LET f == Top(p)  c == Child(p) IN
    /\ At(p, "revokeInternal", "orphan")
    /\ IF f.entry = Nil THEN UNCHANGED <<idView, restored, orphaned>>
       ELSE /\ tokenLocks[c] = Nil
            /\ idView' = [idView EXCEPT ![c] = [f.entry EXCEPT !.parent = Nil]]
            /\ restored' = storedAgain(c)
            /\ orphaned' = orphaned \cup {c}
    /\ Become(p, [f EXCEPT !.todo = @ \ {c}, !.entry = Nil,
                           !.pc = IF f.todo = {c} THEN "delete" ELSE "child"])
    /\ UNCHANGED <<parentView, tokensPendingDeletion, lease, tokenLocks, mishaps,
                   created, used, deleted, doomed>>

\* The deferred function, all went well: the entry goes and then the state.
deleteEntry(p) ==
    LET t == Top(p).t IN
    /\ At(p, "revokeInternal", "delete")
    /\ idView' = [idView EXCEPT ![t] = Nil]
    /\ tokensPendingDeletion' = [tokensPendingDeletion EXCEPT ![t] = "absent"]
    /\ deleted' = deleted \cup {t}
    /\ restored' = restored \ {t}
    /\ Return(p)
    /\ UNCHANGED <<parentView, lease, tokenLocks, mishaps, created, used, orphaned, doomed>>

revokeInternal(p) ==
    \/ LoadOrStore(p) \/ internalLookup(p) \/ markRevoked(p) \/ RevokeByToken(p)
    \/ clearParentIndex(p) \/ listChildren(p)
    \/ childLookup(p) \/ orphanChild(p) \/ deleteEntry(p)

-----------------------------------------------------------------------------
(* Failures.                                                               *)

\* The places of an activation that access storage.
StorageAccess ==
    {"parent", "index", "primary", "register", "lookup", "lock", "store",
     "lazyRevoke", "load", "delete", "list", "mark", "leases", "children", "child", "orphan"}

\* A storage access fails; the function that made it returns the error.
Fault(p) ==
    /\ mishaps < MaxMishaps
    /\ proc[p].stack # <<>> /\ Top(p).pc \in StorageAccess
    /\ mishaps' = mishaps + 1
    /\ ReturnErr(p)
    /\ UNCHANGED <<idView, parentView, lease, histVars>>

\* A crash and the restart: goroutines, locks and the map are gone, and the
\* restored expiration manager has a timer for every stored lease.
Restart ==
    /\ mishaps < MaxMishaps
    /\ mishaps' = mishaps + 1
    /\ proc' = [p \in Procs |->
         IF proc[p].stack = <<>> THEN proc[p]
         ELSE Quiet(IF p \in Workers THEN "none" ELSE "failed")]
    /\ tokenLocks' = [t \in Tokens |-> Nil]
    /\ tokensPendingDeletion' = [t \in Tokens |-> "absent"]
    /\ lease' = [t \in Tokens |-> IF lease[t] = "bare" THEN "due" ELSE lease[t]]
    /\ UNCHANGED <<idView, parentView, histVars>>

-----------------------------------------------------------------------------

\* A request makes its call.  A token is created once, under a parent.
firstPlace(op) == IF op = "create" THEN "parent" ELSE "lookup"
Begin(p, op, t) ==
    /\ p \in Requests /\ proc[p].result = "none"
    /\ op = "create" => t \notin created
    /\ created' = IF op = "create" THEN created \cup {t} ELSE created
    /\ proc' = [proc EXCEPT ![p] =
         [stack |-> <<Frame(op, t, firstPlace(op))>>, result |-> "running"]]
    /\ UNCHANGED <<storeVars, lease, tokenLocks, mishaps, used, deleted, restored, orphaned, doomed>>

\* The time to live of a token runs out.
Expire(t) ==
    /\ lease[t] = "live"
    /\ lease' = [lease EXCEPT ![t] = "due"]
    /\ UNCHANGED <<storeVars, tokenLocks, proc, mishaps, histVars>>

\* The job of a lease that is due; a job that failed is queued again.
ExpireJob(p, t) ==
    /\ p \in Workers /\ proc[p].stack = <<>> /\ lease[t] = "due"
    /\ proc' = [proc EXCEPT ![p] =
         [stack |-> <<Frame("Revoke", t, "load")>>, result |-> "running"]]
    /\ UNCHANGED <<storeVars, lease, tokenLocks, mishaps, histVars>>

Step(p) ==
    \/ Create(p) \/ Use(p) \/ RevokeHandler(p) \/ Revoke(p)
    \/ revokeTreeInternal(p) \/ revokeInternal(p)

Next ==
    \/ \E p \in Requests, call \in Calls : Begin(p, call[1], call[2])
    \/ \E p \in Workers, t \in Tokens : ExpireJob(p, t)
    \/ \E p \in Procs : Step(p) \/ Fault(p)
    \/ \E t \in Expiring : Expire(t)
    \/ Restart

Spec == Init /\ [][Next]_vars

\* Goroutines go on, workers take up what is due and time passes.  Faults
\* and restarts may happen and need not.
Fairness ==
    /\ \A p \in Procs : WF_vars(Step(p))
    /\ \A p \in Workers, t \in Tokens : WF_vars(ExpireJob(p, t))
    /\ \A t \in Expiring : WF_vars(Expire(t))

FairSpec == Spec /\ Fairness

-----------------------------------------------------------------------------
(* Properties.                                                             *)

Usable(t) == lookupResult(t, FALSE) # Nil

\* The request of p has just been let through with its token.
Granted(p) ==
    /\ proc[p].stack # <<>>
    /\ Top(p).fn = "use" /\ Top(p).pc \in {"lock", "store"} /\ Top(p).entry # Nil

\* A token that was revoked to the end is never looked up successfully again,
\* although an orphaning or a UseToken that read its entry before may store
\* the entry once more: what is missing then is its lease.  There are two
\* exceptions.  A token that is revoked before RegisterAuth has stored its
\* lease gets the lease afterwards, and such an orphaning may make it usable
\* again.  And the lookup of a root token asks for no lease: if its entry is
\* stored again, it is usable for ever.
RevokedStaysRevoked ==
    [][\A p \in Procs : Granted(p)' /\ Top(p)'.pc # Top(p).pc =>
         \/ Top(p)'.t \notin deleted
         \/ Top(p)'.t \in orphaned \ Existing
         \/ Top(p)'.t \in Root \cap restored]_vars

\* A token is used no more often than it was created for: its lock keeps two
\* requests from sharing the last use.  It does not keep an orphaning from
\* storing an entry that it read before a use, which gives that use back.
UsesBoundedUnlessOrphaned ==
    \A t \in Tokens : NumUses[t] > 0 /\ t \notin orphaned => used[t] <= NumUses[t]

\* Somebody is revoking t.
BeingRevoked(t) ==
    \E p \in Procs : \E i \in DOMAIN proc[p].stack :
        /\ proc[p].stack[i].fn = "revokeInternal" /\ proc[p].stack[i].t = t
        /\ proc[p].stack[i].pc # "flag"

\* Somebody is revoking the parent of t and leaves its children as orphans.
Orphaning(t) ==
    \E p \in Procs : \E i \in DOMAIN proc[p].stack :
        /\ proc[p].stack[i].fn = "revokeInternal" /\ proc[p].stack[i].t = Parent[t]
        /\ proc[p].stack[i].pc # "flag" /\ ~proc[p].stack[i].skipOrphan

\* Token t is at or below a token of the tree, not its root, that was made an
\* orphan or is about to be.
CutOff(t, tree) ==
    \E s \in tree :
        /\ Parent[s] \in tree /\ t \in Reach(s, {<<Parent[c], c>> : c \in Tokens})
        /\ s \in orphaned \/ Orphaning(s)

\* A revocation of a tree that returned success, with no mishap on the way,
\* left no token usable that was in the tree when it began, unless another
\* revocation works on that token still, or has cut it off from the tree: it
\* made the token, or one above it in the tree, an orphan or is about to.  A
\* root token is left usable by a UseToken that stores its entry once more
\* after the deletion.  The property is about tokens that were there before:
\* one that is being created under the tree while it is revoked may stay behind.
TreeRevoked ==
    \A p \in Requests : proc[p].result = "ok" /\ mishaps = 0 =>
        \A t \in doomed[p] \cap Existing :
            Usable(t) =>
                BeingRevoked(t) \/ CutOff(t, doomed[p]) \/ t \in Root \cap restored

\* Every call returns: no walk of a tree goes round for ever.
CallsReturn ==
    \A p \in Procs : proc[p].stack # <<>> ~> proc[p].stack = <<>>
=============================================================================
