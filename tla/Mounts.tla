------------------------------- MODULE Mounts -------------------------------
(***************************************************************************)
(* Secrets engines and where they are mounted: the mount table, in memory  *)
(* and in storage (vault/mount.go), the router (vault/router.go), and the  *)
(* operations that have to keep them in step: mount, unmount, remount and  *)
(* the setup after a restart.  Requests are routed meanwhile, any storage  *)
(* operation may fail and the process may crash between any two steps.     *)
(*                                                                         *)
(* A step ends where mountsLock is released or at a call that takes time.  *)
(* What the operations do under mountsLock has one write to storage and is *)
(* one step.  Nothing else keeps two operations apart: the handlers of     *)
(* sys/mounts and sys/remount hold the state lock for reading only.        *)
(***************************************************************************)
EXTENDS Naturals, FiniteSets

CONSTANTS
    Mounts,         \* secrets engines, by the UUID of their mount entry
    Local,          \* the ones that are persisted in the table of local mounts
    Paths,          \* mount points
    Below,          \* pairs <<q, p>> of paths: p is a proper prefix of q
    Initially,      \* path -> the secrets engine mounted there at first
    Procs,          \* goroutines of requests, each makes one call
    Calls,          \* the calls: <<operation, path, mount or destination>>
    MaxMishaps,     \* how many storage faults and restarts happen
    Nil

Entry == [path : Paths, tainted : BOOLEAN]

ASSUME MountAssumption ==
    /\ Local \subseteq Mounts
    /\ Initially \in [Paths -> Mounts \cup {Nil}]
    /\ \A q, r \in Paths : Initially[q] = Initially[r] /\ Initially[q] # Nil => q = r
    /\ Nil \notin Mounts \cup Paths \cup Entry
    /\ MaxMishaps \in Nat

ASSUME CallAssumption ==
    Calls \subseteq ({"mount"} \X Paths \X Mounts) \cup ({"remount"} \X Paths \X Paths)
                      \cup ({"unmount", "request"} \X Paths \X {Nil})

\* q is the path p or a path below it.
Within(q, p) == q = p \/ <<q, p>> \in Below
Overlap(q, p) == Within(q, p) \/ Within(p, q)

\* Of the prefixes of a path that are in a set one is the longest.
ASSUME PrefixAssumption ==
    /\ Below \subseteq Paths \X Paths
    /\ \A q, r \in Paths : <<q, r>> \in Below => <<r, q>> \notin Below /\ q # r
    /\ \A path \in Paths : \A S \in SUBSET {q \in Paths : Within(path, q)} :
         S # {} => \E q \in S : \A r \in S : Within(q, r)

VARIABLES
    mounts,     \* the entries of the mount table in memory
    entry,      \* mount -> its MountEntry, shared by the table and the router
    stored,     \* mount -> its entry in storage
    root,       \* the radix tree of the router: path -> mount
    tainted,    \* mount -> the taint of its route entry
    view,       \* the mounts that have data in storage
    leases,     \* secrets handed out: <<path of the request, mount>>
    proc,       \* goroutine -> its call and where it is
    up,         \* the vault is unsealed
    mishaps,    \* storage faults and restarts so far
    born,       \* history: the mounts there are or were
    wiped,      \* history: the mounts whose data was cleared, at least partly
    late,       \* history: the mounts used by a request after they were tainted
    revived,    \* history: the mounts a remount released while an unmount
                \* worked on them, or after it had cleared them
    mistaken    \* history: the mounts whose entry was removed or moved by a
                \* call that had begun with the mount before it at that path,
                \* or that a remount released while another was moving it

tableVars == <<mounts, entry, stored>>
routerVars == <<root, tainted>>
dataVars == <<view, leases>>
histVars == <<born, wiped, late, revived, mistaken>>
vars == <<tableVars, routerVars, dataVars, proc, up, mishaps, histVars>>

Idle == [op |-> "none", pc |-> "idle", path |-> Nil, arg |-> Nil, m |-> Nil]

Call == [op : {"none", "mount", "unmount", "remount", "request"},
         pc : {"idle", "mount", "unmount", "remount", "taintEntry", "taintRoute",
               "revoke", "clear", "remove", "unroute", "move", "untaint",
               "route", "backend", "register", "done"},
         path : Paths \cup {Nil}, arg : Mounts \cup Paths \cup {Nil},
         m : Mounts \cup {Nil}]

TypeOK ==
    /\ mounts \subseteq Mounts /\ view \subseteq Mounts
    /\ entry \in [Mounts -> Entry \cup {Nil}]
    /\ stored \in [Mounts -> Entry \cup {Nil}]
    /\ root \in [Paths -> Mounts \cup {Nil}]
    /\ tainted \in [Mounts -> BOOLEAN]
    /\ leases \subseteq Paths \X Mounts
    /\ proc \in [Procs -> Call]
    /\ born \subseteq Mounts /\ wiped \subseteq Mounts
    /\ up \in BOOLEAN
    /\ mishaps \in 0 .. MaxMishaps

InitialEntry(m) ==
    IF \E q \in Paths : Initially[q] = m
    THEN [path |-> CHOOSE q \in Paths : Initially[q] = m, tainted |-> FALSE]
    ELSE Nil

Init ==
    /\ entry = [m \in Mounts |-> InitialEntry(m)]
    /\ stored = entry
    /\ mounts = {m \in Mounts : InitialEntry(m) # Nil}
    /\ root = Initially
    /\ tainted = [m \in Mounts |-> FALSE]
    /\ view = mounts
    /\ leases = {}
    /\ proc = [p \in Procs |-> Idle]
    /\ up = TRUE
    /\ mishaps = 0
    /\ born = mounts
    /\ wiped = {} /\ late = {} /\ revived = {} /\ mistaken = {}

-----------------------------------------------------------------------------
(* Helpers.                                                                *)

At(p, pc) == proc[p].pc = pc
Goto(p, pc) == proc' = [proc EXCEPT ![p].pc = pc]
Finish(p) == proc' = [proc EXCEPT ![p] = [Idle EXCEPT !.pc = "done"]]

noteMistaken(p, m) ==
    mistaken' = IF m = proc[p].m THEN mistaken ELSE mistaken \cup {m}

StorageFault == mishaps < MaxMishaps /\ mishaps' = mishaps + 1

\* The longest mounted prefix of a path, and the mount there.
LongestPrefix(path) ==
    LET prefixes == {q \in Paths : root[q] # Nil /\ Within(path, q)} IN
    IF prefixes = {} THEN Nil
    ELSE CHOOSE q \in prefixes : \A r \in prefixes : Within(q, r)
MatchingMountEntry(path) ==
    IF LongestPrefix(path) = Nil THEN Nil ELSE root[LongestPrefix(path)]

MountConflict(path) == \E q \in Paths : root[q] # Nil /\ Overlap(q, path)

\* Taint and Untaint of the router: of the route entry of the longest prefix.
SetTaint(path, value) ==
    tainted' = [m \in Mounts |-> IF m = MatchingMountEntry(path) THEN value ELSE tainted[m]]

\* What is in storage after persistMounts of table ms with entries es: the
\* table of local mounts is written, or the other one.
persistMounts_OtherTable(ms, es, local) ==
    stored' = [m \in Mounts |->
        IF (m \in Local) = local THEN stored[m]
        ELSE IF m \in ms THEN es[m] ELSE Nil]
persistMounts(ms, es, local) ==
    stored' = [m \in Mounts |->
        IF (m \in Local) # local THEN stored[m]
        ELSE IF m \in ms THEN es[m] ELSE Nil]

\* The entries of the table at a path.
EntriesAt(path) == {m \in mounts : entry[m].path = path}

-----------------------------------------------------------------------------
(* mount.                                                                  *)

\* The new path is a prefix of one in use, or the other way round, in the
\* table or in the router.
conflicts(path) ==
    MountConflict(path) \/ \E n \in mounts : Overlap(entry[n].path, path)

mountInternal(p) ==
    LET path == proc[p].path  m == proc[p].arg
        newTable == mounts \cup {m}
        newEntry == [entry EXCEPT ![m] = [path |-> path, tainted |-> FALSE]] IN
    /\ At(p, "mount")
    /\ \/ /\ conflicts(path)
          /\ UNCHANGED <<tableVars, routerVars, mishaps>>
       \/ /\ ~conflicts(path)
          /\ StorageFault
          /\ UNCHANGED <<tableVars, routerVars>>
       \/ /\ ~conflicts(path)
          /\ persistMounts(newTable, newEntry, m \in Local)
          /\ mounts' = newTable /\ entry' = newEntry
          /\ root' = [root EXCEPT ![path] = m]
          /\ tainted' = [tainted EXCEPT ![m] = FALSE]
          /\ UNCHANGED mishaps
    /\ Finish(p)
    /\ UNCHANGED <<dataVars, up, histVars>>

-----------------------------------------------------------------------------
(* What unmount and remount begin with: the write-ahead taint of the entry *)
(* and of the route, the last rollback and the revocation of the leases.   *)

\* setTaint changes the entry in memory, whether or not it can be stored.
taintMountEntry(p) ==
    LET path == proc[p].path IN
    /\ At(p, "taintEntry")
    /\ \/ /\ EntriesAt(path) = {}
          /\ Finish(p) /\ UNCHANGED <<tableVars, mishaps>>
       \/ \E m \in EntriesAt(path) :
            /\ entry' = [entry EXCEPT ![m].tainted = TRUE]
            /\ UNCHANGED mounts
            /\ \/ /\ persistMounts(mounts, entry', m \in Local)
                  /\ Goto(p, "taintRoute") /\ UNCHANGED mishaps
               \/ StorageFault /\ Finish(p) /\ UNCHANGED stored
    /\ UNCHANGED <<routerVars, dataVars, up, histVars>>

Taint(p) ==
    /\ At(p, "taintRoute")
    /\ SetTaint(proc[p].path, TRUE)
    /\ Goto(p, "revoke")
    /\ UNCHANGED <<tableVars, root, dataVars, up, mishaps, histVars>>

\* Rollback and RevokePrefix, both synchronous.  A lease is revoked by the
\* mount its path leads to: without one that is an error, and with another
\* one than the lease was made by it may be.
leasesWithin_Below(path) == {l \in leases : <<l[1], path>> \in Below}
leasesWithin(path) == {l \in leases : Within(l[1], path)}
afterRevoke(op) == IF op = "unmount" THEN "clear" ELSE "move"
RevokePrefix(p) ==
    LET path == proc[p].path
        due == leasesWithin(path)
        routed == {l \in due : MatchingMountEntry(l[1]) # Nil} IN
    /\ At(p, "revoke")
    /\ \/ /\ MatchingMountEntry(path) = Nil
          /\ Finish(p) /\ UNCHANGED <<leases, mishaps>>
       \/ /\ MatchingMountEntry(path) # Nil /\ routed = due
          /\ leases' = leases \ due
          /\ Goto(p, afterRevoke(proc[p].op)) /\ UNCHANGED mishaps
       \/ /\ \/ StorageFault
             \/ /\ \E l \in due : MatchingMountEntry(l[1]) # l[2]
                /\ UNCHANGED mishaps
          /\ \E some \in SUBSET routed : leases' = leases \ some
          /\ Finish(p)
    /\ UNCHANGED <<tableVars, routerVars, view, up, histVars>>

-----------------------------------------------------------------------------
(* unmount.                                                                *)

\* unmountInternal asks the router for the mount at exactly this path, and
\* keeps its view and its entry.
unmountInternal(p) ==
    LET path == proc[p].path IN
    /\ At(p, "unmount")
    /\ IF LongestPrefix(path) = path
       THEN proc' = [proc EXCEPT ![p].pc = "taintEntry", ![p].m = root[path]]
       ELSE Finish(p)
    /\ UNCHANGED <<tableVars, routerVars, dataVars, up, mishaps, histVars>>

\* ClearViewWithLogging of the view it kept; a failure leaves part of it.
clearView_Skip(p) ==
    /\ At(p, "clear")
    /\ wiped' = wiped \cup {proc[p].m}
    /\ Goto(p, "remove")
    /\ UNCHANGED <<tableVars, routerVars, dataVars, up, mishaps, born, late, revived, mistaken>>
clearView(p) ==
    LET m == proc[p].m IN
    /\ At(p, "clear")
    /\ wiped' = wiped \cup {m}
    /\ \/ view' = view \ {m} /\ Goto(p, "remove") /\ UNCHANGED mishaps
       \/ StorageFault /\ Finish(p) /\ UNCHANGED view
    /\ UNCHANGED <<tableVars, routerVars, leases, up, born, late, revived, mistaken>>

\* removeMountEntry removes the entry at the path.
removeMountEntry(p) ==
    /\ At(p, "remove")
    /\ \/ /\ EntriesAt(proc[p].path) = {}
          /\ Finish(p) /\ UNCHANGED <<mounts, stored, mishaps, mistaken>>
       \/ /\ EntriesAt(proc[p].path) # {} /\ StorageFault
          /\ Finish(p) /\ UNCHANGED <<mounts, stored, mistaken>>
       \/ \E n \in EntriesAt(proc[p].path) :
            /\ mounts' = mounts \ {n}
            /\ persistMounts(mounts', entry, n \in Local)
            /\ noteMistaken(p, n)
            /\ Goto(p, "unroute") /\ UNCHANGED mishaps
    /\ UNCHANGED <<entry, routerVars, dataVars, up, born, wiped, late, revived>>

Unmount(p) ==
    /\ At(p, "unroute")
    /\ root' = [root EXCEPT ![proc[p].path] = Nil]
    /\ Finish(p)
    /\ UNCHANGED <<tableVars, tainted, dataVars, up, mishaps, histVars>>

-----------------------------------------------------------------------------
(* remount.                                                                *)

remount(p) ==
    /\ At(p, "remount")
    /\ IF MatchingMountEntry(proc[p].path) # Nil /\ MatchingMountEntry(proc[p].arg) = Nil
       THEN proc' = [proc EXCEPT ![p].pc = "taintEntry",
                                 ![p].m = MatchingMountEntry(proc[p].path)]
       ELSE Finish(p)
    /\ UNCHANGED <<tableVars, routerVars, dataVars, up, mishaps, histVars>>

\* Some unmount works on m, or has cleared it.
BeingUnmounted(m) ==
    m \in wiped \/ \E p \in Procs : proc[p].op = "unmount" /\ proc[p].m = m

\* Some remount has tainted the route of m and is yet to move m.
BeingMoved(m) ==
    \E p \in Procs : /\ proc[p].op = "remount" /\ proc[p].m = m
                     /\ proc[p].pc \in {"revoke", "move"}

\* Under mountsLock the entry gets its new path and is stored, and the route
\* follows; when it cannot be stored the entry is put back, still tainted.
moveEntry_KeepPath(p) ==
    LET src == proc[p].path  dst == proc[p].arg IN
    /\ At(p, "move")
    /\ \E m \in EntriesAt(src) :
         /\ entry' = [entry EXCEPT ![m].tainted = FALSE]
         /\ persistMounts(mounts, entry', m \in Local)
         /\ root' = [root EXCEPT ![src] = Nil, ![dst] = root[src]]
    /\ Goto(p, "untaint")
    /\ UNCHANGED <<mounts, tainted, dataVars, up, mishaps, histVars>>
moveEntry(p) ==
    LET src == proc[p].path  dst == proc[p].arg IN
    /\ At(p, "move")
    /\ \/ /\ MatchingMountEntry(dst) # Nil \/ EntriesAt(src) = {}
          /\ Finish(p) /\ UNCHANGED <<entry, stored, root, mishaps, revived, mistaken>>
       \/ /\ MatchingMountEntry(dst) = Nil
          /\ \E m \in EntriesAt(src) :
               \/ /\ StorageFault
                  /\ entry' = [entry EXCEPT ![m].tainted = TRUE]
                  /\ Finish(p) /\ UNCHANGED <<stored, root, revived, mistaken>>
               \/ /\ entry' = [entry EXCEPT ![m] = [path |-> dst, tainted |-> FALSE]]
                  /\ persistMounts(mounts, entry', m \in Local)
                  /\ root' = [root EXCEPT ![src] = Nil, ![dst] = root[src]]
                  /\ revived' = IF BeingUnmounted(m) THEN revived \cup {m} ELSE revived
                  /\ noteMistaken(p, m)
                  /\ Goto(p, "untaint") /\ UNCHANGED mishaps
    /\ UNCHANGED <<mounts, tainted, dataVars, up, born, wiped, late>>

Untaint(p) ==
    LET m == MatchingMountEntry(proc[p].arg) IN
    /\ At(p, "untaint")
    /\ SetTaint(proc[p].arg, FALSE)
    /\ revived' = IF BeingUnmounted(m) THEN revived \cup {m} ELSE revived
    /\ mistaken' = IF BeingMoved(m) THEN mistaken \cup {m} ELSE mistaken
    /\ Finish(p)
    /\ UNCHANGED <<tableVars, root, dataVars, up, mishaps, born, wiped, late>>

-----------------------------------------------------------------------------
(* A request to a secrets engine: it is routed, the engine writes to its   *)
(* view, and a secret it returns is registered under the request's path.   *)

admits(m) == m # Nil /\ ~tainted[m]

routeCommon(p) ==
    LET m == MatchingMountEntry(proc[p].path) IN
    /\ At(p, "route")
    /\ IF admits(m) THEN proc' = [proc EXCEPT ![p].pc = "backend", ![p].m = m]
       ELSE Finish(p)
    /\ UNCHANGED <<tableVars, routerVars, dataVars, up, mishaps, histVars>>

TooLate(p) ==
    tainted[proc[p].m] \/ MatchingMountEntry(proc[p].path) # proc[p].m
noteLate(p) == late' = IF TooLate(p) THEN late \cup {proc[p].m} ELSE late

handleRequest(p) ==
    /\ At(p, "backend")
    /\ view' = view \cup {proc[p].m}
    /\ noteLate(p)
    /\ Goto(p, "register") \/ Finish(p)
    /\ UNCHANGED <<tableVars, routerVars, leases, up, mishaps, born, wiped, revived, mistaken>>

registerLease(p) ==
    /\ At(p, "register")
    /\ leases' = IF MatchingMountEntry(proc[p].path) = Nil THEN leases
                 ELSE leases \cup {<<proc[p].path, proc[p].m>>}
    /\ noteLate(p)
    /\ Finish(p)
    /\ UNCHANGED <<tableVars, routerVars, view, up, mishaps, born, wiped, revived, mistaken>>

-----------------------------------------------------------------------------

\* A crash, or a seal, and the unseal: loadMounts reads the table, and
\* setupMounts fills the router from it, shorter paths first.  It refuses to
\* mount below a mount, and then the vault stays sealed.
NestedMounts ==
    \E m, n \in Mounts : /\ stored[m] # Nil /\ stored[n] # Nil
                         /\ <<stored[m].path, stored[n].path>> \in Below

restoredTaint_Clear(m) == FALSE
restoredTaint(m) == stored[m] # Nil /\ stored[m].tainted

setupMounts ==
    /\ StorageFault
    /\ proc' = [p \in Procs |-> IF At(p, "idle") THEN Idle ELSE [Idle EXCEPT !.pc = "done"]]
    /\ mounts' = {m \in Mounts : stored[m] # Nil}
    /\ entry' = stored
    /\ up' = ~NestedMounts
    /\ root' = [q \in Paths |->
         IF NestedMounts \/ \A m \in Mounts : stored[m] = Nil \/ stored[m].path # q THEN Nil
         ELSE CHOOSE m \in Mounts : stored[m] # Nil /\ stored[m].path = q]
    /\ tainted' = [m \in Mounts |-> restoredTaint(m)]
    /\ UNCHANGED <<stored, dataVars, histVars>>

\* A request begins.  Every mount is a new one, with a UUID of its own.
firstPlace(op) == IF op = "request" THEN "route" ELSE op
Begin(p, op, path, arg) ==
    /\ At(p, "idle") /\ up
    /\ op = "mount" => arg \notin born
    /\ born' = IF op = "mount" THEN born \cup {arg} ELSE born
    /\ proc' = [proc EXCEPT ![p] =
         [op |-> op, pc |-> firstPlace(op), path |-> path, arg |-> arg, m |-> Nil]]
    /\ UNCHANGED <<tableVars, routerVars, dataVars, up, mishaps, wiped, late, revived, mistaken>>

Step(p) ==
    \/ mountInternal(p)
    \/ unmountInternal(p) \/ remount(p)
    \/ taintMountEntry(p) \/ Taint(p) \/ RevokePrefix(p)
    \/ clearView(p) \/ removeMountEntry(p) \/ Unmount(p)
    \/ moveEntry(p) \/ Untaint(p)
    \/ routeCommon(p) \/ handleRequest(p) \/ registerLease(p)

Next ==
    \/ \E p \in Procs, call \in Calls : Begin(p, call[1], call[2], call[3])
    \/ \E p \in Procs : Step(p)
    \/ setupMounts

Spec == Init /\ [][Next]_vars

-----------------------------------------------------------------------------
(* Properties.                                                             *)

\* An unmount has removed the entry at q and will remove the route.
Unrouting(q) == \E p \in Procs : At(p, "unroute") /\ proc[p].path = q

\* The router and the mount table agree on what is mounted where, although
\* neither is changed under the lock of the other: only the route of an entry
\* that an unmount has just removed is left for a moment.
RouterMatchesTable ==
    up => /\ \A m \in mounts : root[entry[m].path] = m
          /\ \A q \in Paths : root[q] # Nil =>
               Unrouting(q) \/ (root[q] \in mounts /\ entry[root[q]].path = q)

\* A restart finds every mount where it was.  A taint in storage is one in
\* memory; the converse fails when an entry could not be stored as tainted.
StorageMatchesTable ==
    \A m \in Mounts :
        /\ (stored[m] # Nil) <=> m \in mounts
        /\ stored[m] # Nil => /\ stored[m].path = entry[m].path
                              /\ stored[m].tainted => entry[m].tainted

\* Once unmount has begun to delete the data of a mount, no request reaches
\* it: it stays tainted through every failure and every restart, until it is
\* removed or a remount releases it.
WipedOutOfService ==
    \A m \in wiped \ revived :
        /\ \A q \in Paths : root[q] = m => tainted[m]
        /\ stored[m] # Nil => stored[m].tainted

\* Two operations on one mount overlapped: a request that was under way when
\* the mount was tainted used it later ("in-flight requests are uncertain"),
\* a remount took away the taint of an unmount or of another remount, or a
\* call that had begun with another mount at its path ended with this one.
Raced(m) == m \in late \cup revived \cup mistaken

\* "Secret leases are tied to the path they were created at": the path of a
\* lease leads to the mount that made it, so that it can be revoked.
LeaseLeadsHome ==
    up => \A l \in leases : Raced(l[2]) \/ MatchingMountEntry(l[1]) = l[2]

\* A mount that was removed has left neither data nor leases behind.
DisabledLeavesNothing ==
    \A m \in born \ mounts : Raced(m) \/ (m \notin view /\ \A l \in leases : l[2] # m)

\* The vault can be unsealed: no mount is below another one, as mountInternal
\* and Router.Mount insist.
UnsealSucceeds == up
=============================================================================
