---------------------------- MODULE MountsProofs ----------------------------
(***************************************************************************)
(* Theorems about Mounts, for any mounts, paths, calls and mishaps: table, *)
(* storage and router agree, a mount whose data an unmount began to delete *)
(* stays out of service, leases lead to the mount that made them, and a    *)
(* mount that was removed leaves nothing behind.                           *)
(***************************************************************************)
EXTENDS Mounts, TLAPS

-----------------------------------------------------------------------------
(* The inductive invariant.                                                *)

TableEntries == \A m \in mounts : entry[m] \in Entry

PathsApart == \A m, n \in mounts : entry[m].path = entry[n].path => m = n

RootInjective ==
    \A q, r \in Paths : root[q] = root[r] /\ root[q] # Nil => q = r

\* The route an unmount is about to remove is there, without an entry, and no
\* other call is about to remove it.
UnrouteAt(p) ==
    At(p, "unroute") =>
        /\ root[proc[p].path] # Nil
        /\ \A m \in mounts : entry[m].path # proc[p].path
        /\ \A r \in Procs : At(r, "unroute") /\ proc[r].path = proc[p].path => r = p
UnrouteAlone == \A p \in Procs : UnrouteAt(p)

\* Everything there is was mounted by somebody ...
Known ==
    /\ mounts \subseteq born /\ wiped \subseteq born
    /\ \A q \in Paths : root[q] \in born \cup {Nil}
    /\ \A p \in Procs : proc[p].m \in born \cup {Nil}

\* ... and what is about to be mounted is not yet anywhere.
FreshAt(p) ==
    At(p, "mount") =>
        /\ proc[p].arg \in born \ (mounts \cup wiped)
        /\ \A q \in Paths : root[q] # proc[p].arg
        /\ \A r \in Procs : proc[r].m # proc[p].arg
        /\ \A r \in Procs : At(r, "mount") /\ proc[r].arg = proc[p].arg => r = p
FreshMounts == \A p \in Procs : FreshAt(p)

\* The fields of a call at each of its places.
ShapeAt(p) ==
    /\ proc[p].pc \notin {"idle", "done"} => proc[p].path \in Paths
    /\ proc[p].pc \in {"remount", "move", "untaint"} => proc[p].arg \in Paths
    /\ proc[p].op = "remount" => proc[p].arg \in Paths
    /\ proc[p].pc \in {"taintEntry", "taintRoute", "revoke"} =>
         proc[p].op \in {"unmount", "remount"} /\ proc[p].m \in Mounts
    /\ proc[p].pc \in {"backend", "register"} => proc[p].m \in Mounts
    /\ proc[p].pc = "clear" => proc[p].op = "unmount" /\ proc[p].m \in Mounts
    /\ proc[p].pc = "unmount" => proc[p].op = "unmount"
    /\ proc[p].pc \in {"remount", "move"} => proc[p].op = "remount"
CallShape == \A p \in Procs : ShapeAt(p)

\* A vault that could not be unsealed has nobody at work.
Quiet == ~up => \A p \in Procs : proc[p].pc \in {"idle", "done"}

Tainting == {"taintEntry", "taintRoute", "revoke", "clear"}

\* What an unmount has done to the mount it works on, unless a remount took
\* that mount away: it is where it was, first its entry and then its route is
\* tainted.
UnmountAt(p) ==
    proc[p].op = "unmount" /\ proc[p].pc \in Tainting /\ proc[p].m \notin revived =>
        /\ \A q \in Paths : root[q] = proc[p].m => q = proc[p].path
        /\ proc[p].m \in mounts => entry[proc[p].m].path = proc[p].path
        /\ proc[p].pc # "taintEntry" /\ stored[proc[p].m] # Nil =>
             stored[proc[p].m].tainted
        /\ proc[p].pc \in {"revoke", "clear"} =>
             \A q \in Paths : root[q] = proc[p].m => tainted[proc[p].m]
UnmountInv == \A p \in Procs : UnmountAt(p)

TableInv == TableEntries /\ StorageMatchesTable /\ PathsApart
RouterInv == RouterMatchesTable /\ RootInjective /\ UnrouteAlone
FreshInv == Known /\ FreshMounts
CallInv == CallShape /\ Quiet /\ UnmountInv

IInv == TypeOK /\ TableInv /\ RouterInv /\ FreshInv /\ CallInv /\ WipedOutOfService

\* What the leases rest on, in addition to IInv.  A mount the router still has
\* after it left the table is one whose data was cleared, or a mistaken one.
RoutedGone == \A q \in Paths : root[q] \in mounts \cup wiped \cup mistaken \cup {Nil}

\* A vault that could not be unsealed will not be.
StaysDown == ~up => NestedMounts

\* The leases of a mount in the table lead to it.
LeasesHome == up => \A l \in leases : ~Raced(l[2]) => MatchingMountEntry(l[1]) = l[2]

NoLeases(m) == \A l \in leases : l[2] # m

\* What is not in the table has neither data nor leases.
GoneEmpty == \A m \in Mounts \ mounts : ~Raced(m) => m \notin view /\ NoLeases(m)

\* An unmount has revoked the leases of its mount, and then cleared its data.
EmptiedAt(p) ==
    /\ At(p, "clear") \/ At(p, "remove") => Raced(proc[p].m) \/ NoLeases(proc[p].m)
    /\ At(p, "remove") => /\ proc[p].op = "unmount" /\ proc[p].m \in wiped
                          /\ Raced(proc[p].m) \/ proc[p].m \notin view
Emptied == \A p \in Procs : EmptiedAt(p)

\* A remount has tainted the mount it works on, and then revoked its leases,
\* if that mount is still, or again, at the source.
MovingAt(p) ==
    LET m == proc[p].m IN
    /\ proc[p].op = "remount" /\ proc[p].pc \in {"revoke", "move"}
    /\ m \in mounts /\ entry[m].path = proc[p].path /\ ~Raced(m)
    => tainted[m] /\ (At(p, "move") => NoLeases(m))
Moving == \A p \in Procs : MovingAt(p)

HomeInv == RoutedGone /\ StaysDown /\ LeasesHome /\ GoneEmpty /\ Emptied /\ Moving

-----------------------------------------------------------------------------
(* How a call moves, and what the router finds.                            *)

Places == {"idle", "mount", "unmount", "remount", "taintEntry", "taintRoute",
           "revoke", "clear", "remove", "unroute", "move", "untaint",
           "route", "backend", "register", "done"}

\* Only the call of p goes on.
Alone(p) == \A r \in Procs : r # p => proc'[r] = proc[r]

\* Goto changes the place of one call and nothing else.
LEMMA GotoMoves ==
    ASSUME TypeOK, NEW p \in Procs, NEW x \in Places, Goto(p, x)
    PROVE  /\ proc' \in [Procs -> Call] /\ Alone(p)
           /\ proc'[p].pc = x /\ proc'[p].op = proc[p].op /\ proc'[p].m = proc[p].m
           /\ proc'[p].path = proc[p].path /\ proc'[p].arg = proc[p].arg
  BY DEF TypeOK, Goto, Alone, Call, Places

\* A call that found its mount keeps it.
LEMMA FindMoves ==
    ASSUME TypeOK, NEW p \in Procs, NEW x \in Places, NEW m \in Mounts,
           proc' = [proc EXCEPT ![p].pc = x, ![p].m = m]
    PROVE  /\ proc' \in [Procs -> Call] /\ Alone(p)
           /\ proc'[p].pc = x /\ proc'[p].op = proc[p].op /\ proc'[p].m = m
           /\ proc'[p].path = proc[p].path /\ proc'[p].arg = proc[p].arg
<1> DEFINE g == [proc[p] EXCEPT !.pc = x, !.m = m]
<1>1. proc \in [Procs -> Call] /\ proc[p] \in Call
  BY DEF TypeOK
<1>2. /\ g \in Call /\ g.pc = x /\ g.op = proc[p].op /\ g.m = m
      /\ g.path = proc[p].path /\ g.arg = proc[p].arg
  <2> DEFINE h == [proc[p] EXCEPT !.pc = x]
  <2>1. /\ h \in Call /\ h.pc = x /\ h.op = proc[p].op
        /\ h.path = proc[p].path /\ h.arg = proc[p].arg
    BY <1>1 DEF Call, Places
  <2>2. g = [h EXCEPT !.m = m]
    OBVIOUS
  <2> HIDE DEF g, h
  <2>. QED  BY <2>1, <2>2 DEF Call
<1>3. proc' = [proc EXCEPT ![p] = g]
  BY <1>1
<1> HIDE DEF g
<1>4. proc' \in [Procs -> Call] /\ proc'[p] = g /\ \A r \in Procs : r # p => proc'[r] = proc[r]
  BY <1>1, <1>2, <1>3
<1>. QED  BY <1>2, <1>4 DEF Alone

\* A call that returned keeps nothing.
LEMMA FinishMoves ==
    ASSUME TypeOK, NEW p \in Procs, Finish(p)
    PROVE  /\ proc' \in [Procs -> Call] /\ Alone(p)
           /\ proc'[p].pc = "done" /\ proc'[p].op = "none" /\ proc'[p].m = Nil
  BY DEF TypeOK, Finish, Alone, Call, Idle

\* The router finds the mount at a path itself first, finds nothing only when
\* nothing is there, and finds only what is mounted somewhere.
LEMMA Matching ==
    ASSUME TypeOK, NEW path \in Paths
    PROVE  /\ root[path] # Nil => LongestPrefix(path) = path /\ MatchingMountEntry(path) = root[path]
           /\ MatchingMountEntry(path) # Nil =>
                MatchingMountEntry(path) \in Mounts /\ \E q \in Paths : root[q] = MatchingMountEntry(path)
           /\ LongestPrefix(path) = path => root[path] # Nil
<1> DEFINE prefixes == {q \in Paths : root[q] # Nil /\ Within(path, q)}
<1>1. /\ prefixes = {} => LongestPrefix(path) = Nil
      /\ prefixes # {} => LongestPrefix(path) \in prefixes
                          /\ \A r \in prefixes : Within(LongestPrefix(path), r)
  <2>1. prefixes # {} => \E q \in prefixes : \A r \in prefixes : Within(q, r)
    <3>1. prefixes \in SUBSET {q \in Paths : Within(path, q)}
      OBVIOUS
    <3>. QED  BY <3>1, PrefixAssumption
  <2>. QED  BY <2>1 DEF LongestPrefix
<1>2. root[path] # Nil => path \in prefixes
  BY DEF Within
<1>3. ASSUME path \in prefixes PROVE LongestPrefix(path) = path
  BY <1>1, <1>3, PrefixAssumption DEF Within
<1>4. path # Nil /\ \A q \in Paths : q # Nil
  BY MountAssumption
<1>5. root \in [Paths -> Mounts \cup {Nil}]
  BY DEF TypeOK
<1>6. prefixes # {} => LongestPrefix(path) # Nil /\ root[LongestPrefix(path)] # Nil
                       /\ LongestPrefix(path) \in Paths
  BY <1>1, <1>4
<1>. QED  BY <1>1, <1>2, <1>3, <1>4, <1>5, <1>6 DEF MatchingMountEntry

\* The parts of the invariant, for use by name.
LEMMA Parts ==
    ASSUME IInv
    PROVE  /\ TypeOK /\ TableEntries /\ StorageMatchesTable /\ PathsApart
           /\ RouterMatchesTable /\ RootInjective /\ UnrouteAlone
           /\ Known /\ FreshMounts /\ CallShape /\ Quiet /\ UnmountInv
           /\ WipedOutOfService
  BY DEF IInv, TableInv, RouterInv, FreshInv, CallInv

\* Only a call at work moves, and then the vault is unsealed.
LEMMA AtWork ==
    ASSUME IInv, NEW p \in Procs, proc[p].pc \notin {"idle", "done"}
    PROVE  up /\ proc[p].path \in Paths
  BY Parts DEF Quiet, CallShape, ShapeAt

-----------------------------------------------------------------------------
(* Steps that leave table and router alone.                                *)

\* What such a step of p has to show: that the call is in order at its new
\* place.
LEMMA QuietStep ==
    ASSUME IInv, NEW p \in Procs, Alone(p), TypeOK',
           UNCHANGED <<mounts, entry, stored, root, tainted, up, wiped, revived, born>>,
           up, proc[p].pc # "unroute", proc'[p].pc \notin {"mount", "unroute"},
           proc'[p].m \in born \cup {Nil},
           \A r \in Procs : At(r, "mount") => proc[r].arg # proc'[p].m,
           ShapeAt(p)', UnmountAt(p)'
    PROVE  IInv'
<1>1. \A r \in Procs : r # p => proc'[r] = proc[r]
  BY DEF Alone
<1>2. TableInv'
  BY Parts DEF TableInv, TableEntries, StorageMatchesTable, PathsApart
<1>3. \A r \in Procs : At(r, "unroute")' <=> At(r, "unroute")
  BY <1>1 DEF At
<1>4. \A r \in Procs : At(r, "unroute") => proc'[r] = proc[r]
  BY <1>1 DEF At
<1>5. RouterMatchesTable'
  <2>1. \A q \in Paths : Unrouting(q) => Unrouting(q)'
    BY <1>3, <1>4 DEF Unrouting
  <2>. QED  BY <2>1, Parts DEF RouterMatchesTable
<1>6. RootInjective' /\ UnrouteAlone'
  BY <1>3, <1>4, Parts DEF RootInjective, UnrouteAlone, UnrouteAt
<1>7. Known'
  BY <1>1, Parts DEF Known
<1>8. FreshMounts'
  <2>1. \A r \in Procs : At(r, "mount")' => At(r, "mount") /\ r # p /\ proc'[r] = proc[r]
    BY <1>1 DEF At
  <2>. QED  BY <1>1, <2>1, Parts DEF FreshMounts, FreshAt
<1>9. CallInv'
  BY <1>1, Parts DEF CallInv, CallShape, ShapeAt, Quiet, UnmountInv, UnmountAt
<1>10. WipedOutOfService'
  BY Parts DEF WipedOutOfService
<1>. QED  BY <1>2, <1>5, <1>6, <1>7, <1>8, <1>9, <1>10 DEF IInv, RouterInv, FreshInv

\* Nothing that is mounted, or that a call works on, is about to be mounted.
LEMMA NotFresh ==
    ASSUME IInv, NEW m \in Mounts \cup {Nil},
           \/ m = Nil
           \/ m \in mounts \cup wiped
           \/ \E q \in Paths : root[q] = m
           \/ \E p \in Procs : proc[p].m = m
    PROVE  /\ m \in born \cup {Nil}
           /\ \A r \in Procs : At(r, "mount") => proc[r].arg # m
<1>1. m \in born \cup {Nil}
  BY Parts DEF Known
<1>2. \A r \in Procs : At(r, "mount") => proc[r].arg # m
  BY Parts, MountAssumption DEF FreshMounts, FreshAt, TypeOK
<1>. QED  BY <1>1, <1>2

\* unmountInternal keeps the mount it finds at the path, which is the one the
\* table has there.
LEMMA UnmountBegins ==
    ASSUME IInv, NEW p \in Procs, unmountInternal(p) PROVE IInv'
<1>0. /\ At(p, "unmount")
      /\ UNCHANGED <<tableVars, routerVars, dataVars, up, mishaps, histVars>>
  BY DEF unmountInternal
<1>1. up /\ proc[p].path \in Paths
  BY <1>0, AtWork DEF At
<1>2. CASE LongestPrefix(proc[p].path) # proc[p].path
  <2>1. Finish(p)
    BY <1>2 DEF unmountInternal
  <2>2. TypeOK' /\ ShapeAt(p)' /\ UnmountAt(p)'
    BY <1>0, <2>1, FinishMoves, Parts
       DEF TypeOK, tableVars, routerVars, dataVars, histVars, ShapeAt, UnmountAt
  <2>. QED
    BY <1>0, <1>1, <2>1, <2>2, FinishMoves, Parts, NotFresh, QuietStep
       DEF tableVars, routerVars, dataVars, histVars, At
<1>3. CASE LongestPrefix(proc[p].path) = proc[p].path
  <2> DEFINE path == proc[p].path
             m == root[path]
  <2>1. proc' = [proc EXCEPT ![p].pc = "taintEntry", ![p].m = m]
    BY <1>3 DEF unmountInternal
  <2>2. m \in Mounts /\ root[path] # Nil
    BY <1>1, <1>3, Matching, Parts DEF TypeOK
  <2>3. /\ proc' \in [Procs -> Call] /\ Alone(p)
        /\ proc'[p].pc = "taintEntry" /\ proc'[p].op = proc[p].op /\ proc'[p].m = m
        /\ proc'[p].path = path /\ proc'[p].arg = proc[p].arg
    <3>1. "taintEntry" \in Places
      BY DEF Places
    <3>. QED  BY <2>1, <2>2, <3>1, FindMoves, Parts
  <2>4. \A q \in Paths : root[q] = m => q = path
    BY <1>1, <2>2, Parts DEF RootInjective
  <2>5. m \in mounts => entry[m].path = path
    BY <1>1, <2>4, Parts DEF RouterMatchesTable, TableEntries, Entry
  <2>. QED
    <3>1. TypeOK'
      BY <1>0, <2>3, Parts DEF TypeOK, tableVars, routerVars, dataVars, histVars
    <3>2. ShapeAt(p)'
      BY <1>0, <1>1, <2>2, <2>3, Parts DEF CallShape, ShapeAt, At
    <3>3. UnmountAt(p)'
      BY <1>0, <2>3, <2>4, <2>5 DEF UnmountAt, tableVars, routerVars, histVars
    <3>4. m \in born \cup {Nil} /\ \A r \in Procs : At(r, "mount") => proc[r].arg # m
      BY <1>1, <2>2, NotFresh
    <3>. QED
      BY <1>0, <1>1, <2>3, <3>1, <3>2, <3>3, <3>4, QuietStep
         DEF tableVars, routerVars, dataVars, histVars, At
<1>. QED  BY <1>2, <1>3

\* A call that returns without a step of its own to table and router.
LEMMA QuietFinish ==
    ASSUME IInv, NEW p \in Procs, Finish(p), proc[p].pc \notin {"idle", "done", "unroute"},
           UNCHANGED <<mounts, entry, stored, root, tainted, up, wiped, revived, born>>,
           view' \subseteq Mounts, leases' \subseteq Paths \X Mounts,
           mishaps' \in 0 .. MaxMishaps
    PROVE  IInv'
<1>1. up
  BY AtWork
<1>2. TypeOK' /\ ShapeAt(p)' /\ UnmountAt(p)'
  BY FinishMoves, Parts DEF TypeOK, ShapeAt, UnmountAt
<1>3. Nil \in born \cup {Nil} /\ \A r \in Procs : At(r, "mount") => proc[r].arg # Nil
  BY NotFresh
<1>. QED  BY <1>1, <1>2, <1>3, FinishMoves, Parts, QuietStep

\* remount keeps the mount it finds; nothing has been done to it yet.
LEMMA RemountBegins ==
    ASSUME IInv, NEW p \in Procs, remount(p) PROVE IInv'
<1>0. /\ At(p, "remount")
      /\ UNCHANGED <<tableVars, routerVars, dataVars, up, mishaps, histVars>>
  BY DEF remount
<1>1. up /\ proc[p].path \in Paths
  BY <1>0, AtWork DEF At
<1>2. CASE Finish(p)
  BY <1>0, <1>2, QuietFinish, Parts
     DEF At, TypeOK, tableVars, routerVars, dataVars, histVars
<1>3. CASE ~Finish(p)
  <2> DEFINE m == MatchingMountEntry(proc[p].path)
  <2>1. m # Nil /\ proc' = [proc EXCEPT ![p].pc = "taintEntry", ![p].m = m]
    BY <1>3 DEF remount
  <2>2. m \in Mounts /\ \E q \in Paths : root[q] = m
    BY <1>1, <2>1, Matching, Parts
  <2> HIDE DEF m
  <2>3. /\ proc' \in [Procs -> Call] /\ Alone(p)
        /\ proc'[p].pc = "taintEntry" /\ proc'[p].op = proc[p].op /\ proc'[p].m = m
        /\ proc'[p].path = proc[p].path /\ proc'[p].arg = proc[p].arg
    <3>1. "taintEntry" \in Places
      BY DEF Places
    <3>. QED  BY <2>1, <2>2, <3>1, FindMoves, Parts
  <2>4. TypeOK'
    BY <1>0, <2>3, Parts DEF TypeOK, tableVars, routerVars, dataVars, histVars
  <2>5. proc'[p].op = "remount" /\ ShapeAt(p)' /\ UnmountAt(p)'
    BY <1>0, <1>1, <2>2, <2>3, Parts DEF CallShape, ShapeAt, UnmountAt, At
  <2>6. m \in born \cup {Nil} /\ \A r \in Procs : At(r, "mount") => proc[r].arg # m
    BY <2>2, NotFresh
  <2>. QED
    BY <1>0, <1>1, <2>3, <2>4, <2>5, <2>6, QuietStep
       DEF tableVars, routerVars, dataVars, histVars, At
<1>. QED  BY <1>2, <1>3

\* RevokePrefix touches leases only, and the call goes on or returns.
LEMMA LeasesRevoked ==
    ASSUME IInv, NEW p \in Procs, RevokePrefix(p) PROVE IInv'
<1>0. /\ At(p, "revoke")
      /\ UNCHANGED <<tableVars, routerVars, view, up, histVars>>
  BY DEF RevokePrefix
<1>1. up /\ proc[p].path \in Paths
  BY <1>0, AtWork DEF At
<1>2. leases' \subseteq leases
  BY DEF RevokePrefix
<1>3. mishaps' \in 0 .. MaxMishaps
  BY Parts, MountAssumption DEF RevokePrefix, StorageFault, TypeOK
<1>4. leases' \subseteq Paths \X Mounts /\ view' \subseteq Mounts
  BY <1>0, <1>2, Parts DEF TypeOK
<1>5. CASE Finish(p)
  BY <1>0, <1>3, <1>4, <1>5, QuietFinish DEF At, tableVars, routerVars, histVars
<1>6. CASE ~Finish(p)
  <2>1. Goto(p, afterRevoke(proc[p].op))
    BY <1>6 DEF RevokePrefix
  <2>2. /\ proc[p].op \in {"unmount", "remount"} /\ proc[p].m \in Mounts
        /\ proc[p].op = "remount" => proc[p].arg \in Paths
    BY <1>0, Parts DEF CallShape, ShapeAt, At
  <2>3. afterRevoke(proc[p].op) = (IF proc[p].op = "unmount" THEN "clear" ELSE "move")
    BY DEF afterRevoke
  <2>4. afterRevoke(proc[p].op) \in Places
    BY <2>3 DEF Places
  <2>5. /\ proc' \in [Procs -> Call] /\ Alone(p)
        /\ proc'[p].pc = afterRevoke(proc[p].op)
        /\ proc'[p].op = proc[p].op /\ proc'[p].m = proc[p].m
        /\ proc'[p].path = proc[p].path /\ proc'[p].arg = proc[p].arg
    BY <2>1, <2>4, GotoMoves, Parts
  <2>6. TypeOK'
    BY <1>0, <1>3, <1>4, <2>5, Parts DEF TypeOK, tableVars, routerVars, histVars
  <2>7. ShapeAt(p)'
    BY <1>0, <1>1, <2>2, <2>3, <2>5, Parts DEF CallShape, ShapeAt, At
  <2>8. UnmountAt(p)'
    <3>1. UnmountAt(p) /\ proc[p].pc = "revoke"
      BY <1>0, Parts DEF UnmountInv, At
    <3>2. UNCHANGED <<mounts, entry, stored, root, tainted, revived>>
      BY <1>0 DEF tableVars, routerVars, histVars
    <3>. QED  BY <2>3, <2>5, <3>1, <3>2 DEF UnmountAt, Tainting
  <2>9. proc[p].m \in born \cup {Nil}
        /\ \A r \in Procs : At(r, "mount") => proc[r].arg # proc[p].m
    BY <2>2, NotFresh
  <2>. QED
    BY <1>0, <1>1, <2>3, <2>5, <2>6, <2>7, <2>8, <2>9, QuietStep
       DEF tableVars, routerVars, histVars, At
<1>. QED  BY <1>5, <1>6

\* A request on its way through the router, the backend and the expiration
\* manager.
LEMMA RequestMoves ==
    ASSUME IInv, NEW p \in Procs, routeCommon(p) \/ handleRequest(p) \/ registerLease(p)
    PROVE  IInv'
<1>1. CASE routeCommon(p)
  <2>0. /\ At(p, "route")
        /\ UNCHANGED <<tableVars, routerVars, dataVars, up, mishaps, histVars>>
    BY <1>1 DEF routeCommon
  <2>1. up /\ proc[p].path \in Paths
    BY <2>0, AtWork DEF At
  <2>2. CASE Finish(p)
    BY <2>0, <2>2, QuietFinish, Parts
       DEF At, TypeOK, tableVars, routerVars, dataVars, histVars
  <2>3. CASE ~Finish(p)
    <3> DEFINE m == MatchingMountEntry(proc[p].path)
    <3>1. m # Nil /\ proc' = [proc EXCEPT ![p].pc = "backend", ![p].m = m]
      BY <1>1, <2>3 DEF routeCommon, admits
    <3>2. m \in Mounts /\ \E q \in Paths : root[q] = m
      BY <2>1, <3>1, Matching, Parts
    <3> HIDE DEF m
    <3>3. /\ proc' \in [Procs -> Call] /\ Alone(p)
          /\ proc'[p].pc = "backend" /\ proc'[p].op = proc[p].op /\ proc'[p].m = m
          /\ proc'[p].path = proc[p].path /\ proc'[p].arg = proc[p].arg
      <4>1. "backend" \in Places
        BY DEF Places
      <4>. QED  BY <3>1, <3>2, <4>1, FindMoves, Parts
    <3>4. TypeOK'
      BY <2>0, <3>3, Parts DEF TypeOK, tableVars, routerVars, dataVars, histVars
    <3>5. ShapeAt(p)' /\ UnmountAt(p)'
      BY <2>0, <2>1, <3>2, <3>3, Parts DEF CallShape, ShapeAt, UnmountAt, Tainting, At
    <3>6. m \in born \cup {Nil} /\ \A r \in Procs : At(r, "mount") => proc[r].arg # m
      BY <3>2, NotFresh
    <3>. QED
      BY <2>0, <2>1, <3>3, <3>4, <3>5, <3>6, QuietStep
         DEF tableVars, routerVars, dataVars, histVars, At
  <2>. QED  BY <2>2, <2>3
<1>2. CASE handleRequest(p)
  <2>0. /\ At(p, "backend")
        /\ UNCHANGED <<tableVars, routerVars, leases, up, mishaps, born, wiped, revived>>
        /\ view' = view \cup {proc[p].m}
    BY <1>2 DEF handleRequest
  <2>1. up /\ proc[p].path \in Paths /\ proc[p].m \in Mounts
    BY <2>0, AtWork, Parts DEF At, CallShape, ShapeAt
  <2>2. view' \subseteq Mounts
    BY <2>0, <2>1, Parts DEF TypeOK
  <2>3. CASE Finish(p)
    BY <2>0, <2>2, <2>3, QuietFinish, Parts DEF At, TypeOK, tableVars, routerVars
  <2>4. CASE ~Finish(p)
    <3>1. Goto(p, "register")
      BY <1>2, <2>4 DEF handleRequest
    <3>2. "register" \in Places
      BY DEF Places
    <3>3. /\ proc' \in [Procs -> Call] /\ Alone(p)
          /\ proc'[p].pc = "register"
          /\ proc'[p].op = proc[p].op /\ proc'[p].m = proc[p].m
          /\ proc'[p].path = proc[p].path /\ proc'[p].arg = proc[p].arg
      BY <3>1, <3>2, GotoMoves, Parts
    <3>4. TypeOK'
      BY <2>0, <2>2, <3>3, Parts DEF TypeOK, tableVars, routerVars
    <3>5. ShapeAt(p)' /\ UnmountAt(p)'
      BY <2>0, <2>1, <3>3, Parts DEF CallShape, ShapeAt, UnmountAt, Tainting, At
    <3>6. proc[p].m \in born \cup {Nil}
          /\ \A r \in Procs : At(r, "mount") => proc[r].arg # proc[p].m
      BY <2>1, NotFresh
    <3>. QED
      BY <2>0, <2>1, <3>3, <3>4, <3>5, <3>6, QuietStep DEF tableVars, routerVars, At
  <2>. QED  BY <2>3, <2>4
<1>3. CASE registerLease(p)
  <2>0. /\ At(p, "register") /\ Finish(p)
        /\ UNCHANGED <<tableVars, routerVars, view, up, mishaps, born, wiped, revived>>
        /\ leases' \subseteq leases \cup {<<proc[p].path, proc[p].m>>}
    BY <1>3 DEF registerLease
  <2>1. up /\ proc[p].path \in Paths /\ proc[p].m \in Mounts
    BY <2>0, AtWork, Parts DEF At, CallShape, ShapeAt
  <2>2. leases' \subseteq Paths \X Mounts
    BY <2>0, <2>1, Parts DEF TypeOK
  <2>. QED
    BY <2>0, <2>2, QuietFinish, Parts DEF At, TypeOK, tableVars, routerVars
<1>. QED  BY <1>1, <1>2, <1>3

-----------------------------------------------------------------------------
(* Steps that change the table or the router.                              *)

\* What persistMounts leaves in storage when it writes the table as it is after
\* the step, because of mount k.
LEMMA Persisted ==
    ASSUME IInv, NEW k \in Mounts,
           mounts' \subseteq Mounts, entry' \in [Mounts -> Entry \cup {Nil}],
           stored' = [m \in Mounts |->
             IF (m \in Local) # (k \in Local) THEN stored[m]
             ELSE IF m \in mounts' THEN entry'[m] ELSE Nil],
           TableEntries',
           \A m \in Mounts : m # k =>
             (m \in mounts' <=> m \in mounts) /\ (m \in mounts => entry'[m] = entry[m])
    PROVE  /\ stored' \in [Mounts -> Entry \cup {Nil}]
           /\ StorageMatchesTable'
           /\ stored'[k] # Nil => stored'[k] = entry'[k]
           /\ \A m \in Mounts : m # k /\ (stored[m] # Nil => stored[m].tainted) =>
                (stored'[m] # Nil => stored'[m].tainted)
<1>1. Nil \notin Entry
  BY MountAssumption
<1>2. \A m \in Mounts : stored'[m] = IF (m \in Local) # (k \in Local) THEN stored[m]
                                     ELSE IF m \in mounts' THEN entry'[m] ELSE Nil
  OBVIOUS
<1>3. stored' \in [Mounts -> Entry \cup {Nil}]
  BY Parts DEF TypeOK
<1>4. ASSUME NEW m \in Mounts, (m \in Local) # (k \in Local)
      PROVE  /\ stored'[m] = stored[m] /\ m # k
             /\ (stored[m] # Nil) <=> m \in mounts'
             /\ stored[m] # Nil => /\ stored[m].path = entry'[m].path
                                   /\ stored[m].tainted => entry'[m].tainted
  BY <1>2, <1>4, Parts DEF StorageMatchesTable
<1>5. ASSUME NEW m \in Mounts, (m \in Local) = (k \in Local)
      PROVE  /\ stored'[m] = IF m \in mounts' THEN entry'[m] ELSE Nil
             /\ (stored'[m] # Nil) <=> m \in mounts'
  BY <1>1, <1>2, <1>5 DEF TableEntries
<1>6. StorageMatchesTable'
  BY <1>4, <1>5 DEF StorageMatchesTable
<1>7. ASSUME NEW m \in Mounts, m # k, stored[m] # Nil => stored[m].tainted, stored'[m] # Nil
      PROVE  stored'[m].tainted
  BY <1>4, <1>5, <1>7, Parts DEF StorageMatchesTable
<1>. QED  BY <1>3, <1>5, <1>6, <1>7

\* mountInternal puts a secrets engine that never was there into the table,
\* storage and the router, at a path where none of them has one.
LEMMA MountStep ==
    ASSUME IInv, NEW p \in Procs, mountInternal(p) PROVE IInv'
<1> DEFINE path == proc[p].path
           m == proc[p].arg
           newTable == mounts \cup {m}
           newEntry == [entry EXCEPT ![m] = [path |-> path, tainted |-> FALSE]]
<1>0. /\ At(p, "mount") /\ Finish(p)
      /\ UNCHANGED <<dataVars, up, histVars>>
  BY DEF mountInternal
<1>1. up /\ path \in Paths
  BY <1>0, AtWork DEF At
<1>2. /\ m \in Mounts /\ m \in born /\ m \notin mounts /\ m \notin wiped /\ m # Nil
      /\ \A q \in Paths : root[q] # m
      /\ \A r \in Procs : proc[r].m # m
      /\ \A r \in Procs : At(r, "mount") /\ proc[r].arg = m => r = p
  BY <1>0, Parts, MountAssumption DEF FreshMounts, FreshAt, TypeOK
<1>3. CASE UNCHANGED <<tableVars, routerVars>>
  <2>1. mishaps' \in 0 .. MaxMishaps
    BY Parts, MountAssumption DEF mountInternal, StorageFault, TypeOK
  <2>. QED
    BY <1>0, <1>3, <2>1, QuietFinish, Parts
       DEF At, TypeOK, tableVars, routerVars, dataVars, histVars
<1>4. CASE ~UNCHANGED <<tableVars, routerVars>>
  <2>1. /\ ~conflicts(path)
        /\ persistMounts(newTable, newEntry, m \in Local)
        /\ mounts' = newTable /\ entry' = newEntry
        /\ root' = [root EXCEPT ![path] = m]
        /\ tainted' = [tainted EXCEPT ![m] = FALSE]
        /\ UNCHANGED mishaps
    BY <1>4 DEF mountInternal
  <2>2. root[path] = Nil /\ \A n \in mounts : entry[n].path # path
    BY <1>1, <2>1 DEF conflicts, MountConflict, Overlap, Within
  <2>3. /\ newTable \in SUBSET Mounts /\ newEntry \in [Mounts -> Entry \cup {Nil}]
        /\ newEntry[m] = [path |-> path, tainted |-> FALSE]
        /\ newEntry[m] \in Entry /\ newEntry[m].path = path
        /\ \A n \in Mounts : n # m => newEntry[n] = entry[n]
    BY <1>1, <1>2, Parts DEF TypeOK, Entry
  <2>4. \A n \in newTable : newEntry[n] \in Entry
    BY <2>3, Parts DEF TableEntries, TypeOK
  <2>5. TableEntries'
    BY <2>1, <2>4 DEF TableEntries
  <2>6. /\ root' \in [Paths -> Mounts \cup {Nil}] /\ root'[path] = m
        /\ \A q \in Paths : q # path => root'[q] = root[q]
        /\ tainted' \in [Mounts -> BOOLEAN]
        /\ \A n \in Mounts : n # m => tainted'[n] = tainted[n]
    BY <1>1, <1>2, <2>1, Parts DEF TypeOK
  <2>7. /\ proc' \in [Procs -> Call] /\ \A r \in Procs : r # p => proc'[r] = proc[r]
        /\ proc'[p].pc = "done" /\ proc'[p].op = "none" /\ proc'[p].m = Nil
    BY <1>0, FinishMoves, Parts DEF Alone
  <2>8. /\ mounts' = mounts \cup {m} /\ entry'[m].path = path /\ entry'[m] \in Entry
        /\ \A n \in Mounts : n # m => entry'[n] = entry[n]
        /\ mounts \subseteq Mounts
        /\ UNCHANGED <<view, leases, up, born, wiped, revived>>
    BY <1>0, <2>1, <2>3, Parts DEF TypeOK, dataVars, histVars
  <2>9. stored' = [n \in Mounts |->
           IF (n \in Local) # (m \in Local) THEN stored[n]
           ELSE IF n \in mounts' THEN entry'[n] ELSE Nil]
    BY <2>1 DEF persistMounts
  <2>10. mounts' \subseteq Mounts /\ entry' \in [Mounts -> Entry \cup {Nil}]
    BY <2>1, <2>3
  <2> HIDE DEF path, m, newTable, newEntry
  <2>11. /\ stored' \in [Mounts -> Entry \cup {Nil}] /\ StorageMatchesTable'
         /\ \A n \in Mounts : n # m /\ (stored[n] # Nil => stored[n].tainted) =>
              (stored'[n] # Nil => stored'[n].tainted)
    BY <1>2, <2>5, <2>8, <2>9, <2>10, Persisted
  <2>12. TypeOK'
    BY <1>0, <2>1, <2>6, <2>7, <2>8, <2>10, <2>11, Parts DEF TypeOK
  <2>13. PathsApart'
    BY <1>2, <2>2, <2>8, Parts DEF PathsApart
  <2>14. \A r \in Procs : At(r, "unroute")' => At(r, "unroute") /\ r # p /\ proc'[r] = proc[r]
    BY <2>7 DEF At
  <2>15. \A q \in Paths : Unrouting(q) => Unrouting(q)'
    BY <1>0, <2>7 DEF Unrouting, At
  <2>16. RouterMatchesTable'
    <3>1. /\ \A n \in mounts : root[entry[n].path] = n /\ entry[n].path \in Paths
          /\ \A q \in Paths : root[q] # Nil =>
               Unrouting(q) \/ (root[q] \in mounts /\ entry[root[q]].path = q)
      BY <1>1, Parts DEF RouterMatchesTable, TableEntries, Entry
    <3>2. \A n \in mounts' : root'[entry'[n].path] = n
      BY <1>1, <1>2, <2>2, <2>6, <2>8, <3>1
    <3>3. ASSUME NEW q \in Paths, root'[q] # Nil
          PROVE  Unrouting(q)' \/ (root'[q] \in mounts' /\ entry'[root'[q]].path = q)
      <4>1. CASE q = path
        BY <2>6, <2>8, <4>1
      <4>2. CASE q # path
        BY <1>2, <2>6, <2>8, <2>15, <3>1, <3>3, <4>2
      <4>. QED  BY <4>1, <4>2
    <3>. QED  BY <3>2, <3>3 DEF RouterMatchesTable
  <2>17. RootInjective'
    BY <1>2, <2>6, Parts DEF RootInjective
  <2>18. UnrouteAlone'
    <3>1. ASSUME NEW r \in Procs, At(r, "unroute")' PROVE UnrouteAt(r)'
      <4>1. proc'[r] = proc[r] /\ UnrouteAt(r) /\ At(r, "unroute") /\ proc[r].path \in Paths
        BY <2>14, <3>1, Parts DEF UnrouteAlone, CallShape, ShapeAt, At
      <4>2. proc[r].path # path
        BY <2>2, <4>1 DEF UnrouteAt
      <4>. QED  BY <2>6, <2>8, <2>14, <4>1, <4>2 DEF UnrouteAt
    <3>. QED  BY <3>1 DEF UnrouteAlone, UnrouteAt
  <2>19. Known'
    BY <1>2, <2>6, <2>7, <2>8, Parts DEF Known
  <2>20. FreshMounts'
    <3>1. \A r \in Procs : At(r, "mount")' => At(r, "mount") /\ r # p /\ proc'[r] = proc[r]
                                             /\ proc[r].arg # m
      BY <1>2, <2>7 DEF At
    <3>2. \A r \in Procs : At(r, "mount") => proc[r].arg # Nil
      BY Parts, MountAssumption DEF FreshMounts, FreshAt, TypeOK
    <3>. QED  BY <2>6, <2>7, <2>8, <3>1, <3>2, Parts DEF FreshMounts, FreshAt
  <2>21. CallShape' /\ Quiet'
    BY <1>1, <2>7, <2>8, Parts DEF CallShape, ShapeAt, Quiet
  <2>22. UnmountInv'
    <3>1. ASSUME NEW r \in Procs, proc'[r].op = "unmount", proc'[r].pc \in Tainting
          PROVE  UnmountAt(r)'
      <4>1. proc'[r] = proc[r] /\ UnmountAt(r) /\ proc[r].m \in Mounts /\ proc[r].m # m
        BY <1>2, <2>7, <3>1, Parts DEF UnmountInv, CallShape, ShapeAt, Tainting
      <4>. QED  BY <2>6, <2>8, <2>11, <4>1 DEF UnmountAt
    <3>. QED  BY <3>1 DEF UnmountInv, UnmountAt
  <2>23. WipedOutOfService'
    BY <1>2, <2>6, <2>8, <2>11, Parts DEF WipedOutOfService, TypeOK
  <2>. QED
    BY <2>5, <2>11, <2>12, <2>13, <2>16, <2>17, <2>18, <2>19, <2>20, <2>21, <2>22, <2>23
       DEF IInv, TableInv, RouterInv, FreshInv, CallInv
<1>. QED  BY <1>3, <1>4

\* taintMountEntry taints the one entry at the path: for an unmount that is
\* the mount it works on.
LEMMA TaintEntryStep ==
    ASSUME IInv, NEW p \in Procs, taintMountEntry(p) PROVE IInv'
<1> DEFINE path == proc[p].path
<1>0. /\ At(p, "taintEntry")
      /\ UNCHANGED <<routerVars, dataVars, up, histVars>>
  BY DEF taintMountEntry
<1>1. up /\ path \in Paths
  BY <1>0, AtWork DEF At
<1>2. mishaps' \in 0 .. MaxMishaps
  BY Parts, MountAssumption DEF taintMountEntry, StorageFault, TypeOK
<1>3. CASE EntriesAt(path) = {}
  <2>1. Finish(p) /\ UNCHANGED tableVars
    BY <1>3 DEF taintMountEntry
  <2>. QED
    BY <1>0, <1>2, <2>1, QuietFinish, Parts
       DEF At, TypeOK, tableVars, routerVars, dataVars, histVars
<1>4. CASE EntriesAt(path) # {}
  <2>1. PICK k \in EntriesAt(path) :
          /\ entry' = [entry EXCEPT ![k].tainted = TRUE] /\ UNCHANGED mounts
          /\ \/ persistMounts(mounts, entry', k \in Local) /\ Goto(p, "taintRoute")
             \/ Finish(p) /\ UNCHANGED stored
    BY <1>4 DEF taintMountEntry
  <2>2. k \in mounts /\ k \in Mounts /\ entry[k] \in Entry /\ entry[k].path = path
    BY Parts DEF EntriesAt, TypeOK, TableEntries
  <2>3. /\ entry' \in [Mounts -> Entry \cup {Nil}] /\ entry'[k] \in Entry
        /\ entry'[k].path = path /\ entry'[k].tainted
        /\ \A n \in Mounts : n # k => entry'[n] = entry[n]
        /\ mounts' = mounts
    BY <2>1, <2>2, Parts DEF TypeOK, Entry
  <2>4. \A n \in mounts : n \in Mounts /\ entry'[n].path = entry[n].path
    BY <2>2, <2>3, Parts DEF TypeOK
  <2>5. TableEntries' /\ PathsApart'
    BY <2>3, <2>4, Parts DEF TableEntries, PathsApart, TypeOK
  <2>6. UNCHANGED <<root, tainted, view, leases, up, born, wiped, revived>>
    BY <1>0 DEF routerVars, dataVars, histVars
  <2>7. /\ stored' \in [Mounts -> Entry \cup {Nil}] /\ StorageMatchesTable'
        /\ \A n \in Mounts : (stored[n] # Nil => stored[n].tainted) =>
             (stored'[n] # Nil => stored'[n].tainted)
        /\ Goto(p, "taintRoute") => (stored'[k] # Nil => stored'[k].tainted)
    <3>1. CASE UNCHANGED stored /\ Finish(p)
      <4>1. ~Goto(p, "taintRoute")
        <5>1. ASSUME Goto(p, "taintRoute") PROVE FALSE
          <6>1. "taintRoute" \in Places
            BY DEF Places
          <6>. QED  BY <3>1, <5>1, <6>1, GotoMoves, FinishMoves, Parts
        <5>. QED  BY <5>1
      <4>. QED  BY <2>3, <2>4, <3>1, <4>1, Parts DEF StorageMatchesTable, TypeOK
    <3>2. CASE persistMounts(mounts, entry', k \in Local)
      <4>1. stored' = [n \in Mounts |->
              IF (n \in Local) # (k \in Local) THEN stored[n]
              ELSE IF n \in mounts' THEN entry'[n] ELSE Nil]
        BY <2>3, <3>2 DEF persistMounts
      <4>2. mounts' \subseteq Mounts
        BY <2>3, Parts DEF TypeOK
      <4>. QED  BY <2>2, <2>3, <2>5, <4>1, <4>2, Persisted
    <3>. QED  BY <2>1, <3>1, <3>2
  <2>8. /\ proc' \in [Procs -> Call] /\ \A r \in Procs : r # p => proc'[r] = proc[r]
        /\ \/ proc'[p].pc = "done" /\ proc'[p].op = "none" /\ proc'[p].m = Nil
           \/ /\ Goto(p, "taintRoute") /\ proc'[p].pc = "taintRoute"
              /\ proc'[p].op = proc[p].op /\ proc'[p].m = proc[p].m
              /\ proc'[p].path = path /\ proc'[p].arg = proc[p].arg
    <3>1. "taintRoute" \in Places
      BY DEF Places
    <3>. QED  BY <2>1, <3>1, GotoMoves, FinishMoves, Parts DEF Alone
  <2>9. TypeOK'
    BY <1>2, <2>3, <2>6, <2>7, <2>8, Parts DEF TypeOK
  <2> HIDE DEF path
  <2>10. \A r \in Procs : At(r, "unroute")' <=> At(r, "unroute")
    BY <1>0, <2>8 DEF At
  <2>11. \A r \in Procs : At(r, "unroute") => proc'[r] = proc[r]
    BY <1>0, <2>8 DEF At
  <2>12. RouterMatchesTable'
    <3>1. \A q \in Paths : Unrouting(q) => Unrouting(q)'
      BY <2>10, <2>11 DEF Unrouting
    <3>. QED  BY <2>3, <2>4, <2>6, <3>1, Parts DEF RouterMatchesTable
  <2>13. RootInjective' /\ UnrouteAlone'
    BY <2>3, <2>4, <2>6, <2>10, <2>11, Parts DEF RootInjective, UnrouteAlone, UnrouteAt
  <2>14. proc'[p].m \in born \cup {Nil}
         /\ \A r \in Procs : At(r, "mount") => proc[r].arg # proc'[p].m
    <3>1. proc'[p].m \in Mounts \cup {Nil} /\ (proc'[p].m = Nil \/ proc'[p].m = proc[p].m)
      BY <2>8, Parts DEF TypeOK, Call
    <3>. QED  BY <3>1, NotFresh
  <2>15. Known'
    BY <2>3, <2>6, <2>8, <2>14, Parts DEF Known
  <2>16. FreshMounts'
    <3>1. \A r \in Procs : At(r, "mount")' => At(r, "mount") /\ r # p /\ proc'[r] = proc[r]
      BY <2>8 DEF At
    <3>. QED  BY <2>3, <2>6, <2>8, <2>14, <3>1, Parts DEF FreshMounts, FreshAt
  <2>17. CallShape' /\ Quiet'
    BY <1>0, <1>1, <2>6, <2>8, Parts DEF CallShape, ShapeAt, Quiet, At
  <2>18. UnmountInv'
    <3>1. ASSUME NEW r \in Procs, proc'[r].op = "unmount", proc'[r].pc \in Tainting, r # p
          PROVE  UnmountAt(r)'
      <4>1. proc'[r] = proc[r] /\ UnmountAt(r) /\ proc[r].m \in Mounts
        BY <2>8, <3>1, Parts DEF UnmountInv, CallShape, ShapeAt, Tainting
      <4>. QED  BY <2>3, <2>4, <2>6, <2>7, <4>1 DEF UnmountAt
    <3>2. ASSUME proc'[p].op = "unmount", proc'[p].pc \in Tainting
          PROVE  UnmountAt(p)'
      <4>1. /\ Goto(p, "taintRoute") /\ proc'[p].pc = "taintRoute" /\ proc[p].op = "unmount"
            /\ proc'[p].m = proc[p].m /\ proc'[p].path = path
            /\ UnmountAt(p) /\ proc[p].m \in Mounts /\ proc[p].pc = "taintEntry"
        BY <1>0, <2>8, <3>2, Parts DEF UnmountInv, CallShape, ShapeAt, Tainting, At
      <4>2. ASSUME proc[p].m \notin revived, stored'[proc[p].m] # Nil
            PROVE  proc[p].m = k
        BY <2>2, <2>3, <2>7, <4>1, <4>2, Parts
           DEF UnmountAt, Tainting, StorageMatchesTable, PathsApart, path
      <4>. QED  BY <2>3, <2>4, <2>6, <2>7, <4>1, <4>2 DEF UnmountAt, Tainting, path
    <3>. QED  BY <3>1, <3>2 DEF UnmountInv, UnmountAt
  <2>19. WipedOutOfService'
    BY <2>6, <2>7, Parts DEF WipedOutOfService, TypeOK
  <2>. QED
    BY <2>5, <2>7, <2>9, <2>12, <2>13, <2>15, <2>16, <2>17, <2>18, <2>19
       DEF IInv, TableInv, RouterInv, FreshInv, CallInv
<1>. QED  BY <1>3, <1>4

-----------------------------------------------------------------------------
(* Steps that change a taint, or what has been deleted.                    *)

\* Such a step of p has to show what the calls know of the taints.
LEMMA TaintsStep ==
    ASSUME IInv, NEW p \in Procs, Alone(p), TypeOK',
           UNCHANGED <<mounts, entry, stored, root, up, born>>,
           wiped' \subseteq wiped \cup ({proc[p].m} \ {Nil}),
           up, proc[p].pc # "unroute", proc'[p].pc \notin {"mount", "unroute"},
           proc'[p].m \in {Nil, proc[p].m},
           ShapeAt(p)', UnmountInv', WipedOutOfService'
    PROVE  IInv'
<1>1. \A r \in Procs : r # p => proc'[r] = proc[r]
  BY DEF Alone
<1>2. TableInv'
  BY Parts DEF TableInv, TableEntries, StorageMatchesTable, PathsApart
<1>3. \A r \in Procs : At(r, "unroute")' <=> At(r, "unroute")
  BY <1>1 DEF At
<1>4. \A r \in Procs : At(r, "unroute") => proc'[r] = proc[r]
  BY <1>1 DEF At
<1>5. RouterMatchesTable'
  <2>1. \A q \in Paths : Unrouting(q) => Unrouting(q)'
    BY <1>3, <1>4 DEF Unrouting
  <2>. QED  BY <2>1, Parts DEF RouterMatchesTable
<1>6. RootInjective' /\ UnrouteAlone'
  BY <1>3, <1>4, Parts DEF RootInjective, UnrouteAlone, UnrouteAt
<1>7. /\ proc[p].m \in born \cup {Nil}
      /\ \A r \in Procs : At(r, "mount") => proc[r].arg # proc[p].m
      /\ \A r \in Procs : At(r, "mount") => proc[r].arg # Nil
  <2>1. proc[p].m \in Mounts \cup {Nil}
    BY Parts DEF TypeOK, Call
  <2>. QED  BY <2>1, NotFresh
<1>8. Known'
  BY <1>1, <1>7, Parts DEF Known
<1>9. FreshMounts'
  <2>1. \A r \in Procs : At(r, "mount")' => At(r, "mount") /\ r # p /\ proc'[r] = proc[r]
    BY <1>1 DEF At
  <2>. QED  BY <1>1, <1>7, <2>1, Parts DEF FreshMounts, FreshAt
<1>10. CallShape' /\ Quiet'
  BY <1>1, Parts DEF CallShape, ShapeAt, Quiet
<1>. QED  BY <1>2, <1>5, <1>6, <1>8, <1>9, <1>10 DEF IInv, RouterInv, FreshInv, CallInv

\* Taint taints the route of the mount that the unmount works on.
LEMMA TaintStep ==
    ASSUME IInv, NEW p \in Procs, Taint(p) PROVE IInv'
<1> DEFINE path == proc[p].path
           k == MatchingMountEntry(path)
<1>0. /\ At(p, "taintRoute") /\ Goto(p, "revoke")
      /\ tainted' = [m \in Mounts |-> IF m = k THEN TRUE ELSE tainted[m]]
      /\ UNCHANGED <<tableVars, root, dataVars, up, mishaps, histVars>>
  BY DEF Taint, SetTaint
<1>1. up /\ path \in Paths
  BY <1>0, AtWork DEF At
<1>2. "revoke" \in Places
  BY DEF Places
<1>3. /\ proc' \in [Procs -> Call] /\ Alone(p)
      /\ proc'[p].pc = "revoke" /\ proc'[p].op = proc[p].op /\ proc'[p].m = proc[p].m
      /\ proc'[p].path = path /\ proc'[p].arg = proc[p].arg
  BY <1>0, <1>2, GotoMoves, Parts
<1>4. UNCHANGED <<mounts, entry, stored, root, up, born, wiped, revived, view, leases, mishaps>>
  BY <1>0 DEF tableVars, dataVars, histVars
<1>5. root[path] # Nil => k = root[path]
  BY <1>1, Matching, Parts
<1> HIDE DEF k
<1>6. /\ tainted' \in [Mounts -> BOOLEAN]
      /\ \A m \in Mounts : (tainted[m] => tainted'[m]) /\ (m = k => tainted'[m])
  BY <1>0, Parts DEF TypeOK
<1>7. TypeOK'
  BY <1>3, <1>4, <1>6, Parts DEF TypeOK
<1>8. ShapeAt(p)'
  BY <1>0, <1>1, <1>3, Parts DEF CallShape, ShapeAt, At
<1>9. UnmountInv'
  <2>1. ASSUME NEW r \in Procs, r # p PROVE UnmountAt(r)'
    <3>1. proc'[r] = proc[r] /\ UnmountAt(r)
      BY <1>3, <2>1, Parts DEF Alone, UnmountInv
    <3>2. proc[r].op = "unmount" /\ proc[r].pc \in Tainting => proc[r].m \in Mounts
      BY Parts DEF CallShape, ShapeAt, Tainting
    <3>. QED  BY <1>4, <1>6, <3>1, <3>2 DEF UnmountAt
  <2>2. UnmountAt(p)'
    <3>1. UnmountAt(p) /\ proc[p].pc = "taintRoute" /\ proc[p].m \in Mounts
          /\ \A q \in Paths : q # Nil
      BY <1>0, Parts, MountAssumption DEF UnmountInv, CallShape, ShapeAt, At
    <3>2. ASSUME proc[p].op = "unmount", proc[p].m \notin revived,
                 NEW q \in Paths, root[q] = proc[p].m
          PROVE  tainted'[proc[p].m]
      <4>1. q = path /\ root[path] # Nil
        BY <3>1, <3>2, MountAssumption DEF UnmountAt, Tainting
      <4>. QED  BY <1>5, <1>6, <3>1, <3>2, <4>1
    <3>. QED  BY <1>3, <1>4, <3>1, <3>2 DEF UnmountAt, Tainting
  <2>. QED  BY <2>1, <2>2 DEF UnmountInv
<1>10. WipedOutOfService'
  BY <1>4, <1>6, Parts DEF WipedOutOfService, TypeOK
<1>. QED  BY <1>0, <1>1, <1>3, <1>4, <1>7, <1>8, <1>9, <1>10, TaintsStep DEF At

\* What clearView deletes is out of service: the unmount has tainted it.
LEMMA ClearStep ==
    ASSUME IInv, NEW p \in Procs, clearView(p) PROVE IInv'
<1> DEFINE k == proc[p].m
<1>0. /\ At(p, "clear") /\ wiped' = wiped \cup {k} /\ view' \subseteq view
      /\ Goto(p, "remove") \/ Finish(p)
      /\ UNCHANGED <<tableVars, routerVars, leases, up, born, revived>>
  BY DEF clearView
<1>1. up /\ proc[p].path \in Paths
  BY <1>0, AtWork DEF At
<1>2. proc[p].op = "unmount" /\ k \in Mounts /\ k # Nil
  BY <1>0, Parts, MountAssumption DEF CallShape, ShapeAt, At
<1>3. mishaps' \in 0 .. MaxMishaps
  BY Parts, MountAssumption DEF clearView, StorageFault, TypeOK
<1>4. "remove" \in Places
  BY DEF Places
<1>5. /\ proc' \in [Procs -> Call] /\ Alone(p)
      /\ \/ proc'[p].pc = "done" /\ proc'[p].op = "none" /\ proc'[p].m = Nil
         \/ /\ proc'[p].pc = "remove" /\ proc'[p].op = proc[p].op /\ proc'[p].m = k
            /\ proc'[p].path = proc[p].path /\ proc'[p].arg = proc[p].arg
  BY <1>0, <1>4, GotoMoves, FinishMoves, Parts
<1>6. UNCHANGED <<mounts, entry, stored, root, tainted, up, born, revived, leases>>
  BY <1>0 DEF tableVars, routerVars
<1>7. TypeOK'
  BY <1>0, <1>2, <1>3, <1>5, <1>6, Parts DEF TypeOK
<1>8. ShapeAt(p)'
  BY <1>1, <1>2, <1>5, Parts DEF CallShape, ShapeAt
<1>9. UnmountInv'
  BY <1>5, <1>6, Parts DEF UnmountInv, UnmountAt, Alone, Tainting
<1>10. WipedOutOfService'
  <2>1. k \notin revived => /\ \A q \in Paths : root[q] = k => tainted[k]
                            /\ stored[k] # Nil => stored[k].tainted
    BY <1>0, <1>2, Parts DEF UnmountInv, UnmountAt, Tainting, At
  <2>. QED  BY <1>0, <1>6, <2>1, Parts DEF WipedOutOfService
<1>. QED  BY <1>0, <1>1, <1>2, <1>5, <1>6, <1>7, <1>8, <1>9, <1>10, TaintsStep DEF At

\* Untaint takes the taint from a mount only if it records that a remount
\* released it.
LEMMA UntaintStep ==
    ASSUME IInv, NEW p \in Procs, Untaint(p) PROVE IInv'
<1> DEFINE k == MatchingMountEntry(proc[p].arg)
<1>0. /\ At(p, "untaint") /\ Finish(p)
      /\ tainted' = [m \in Mounts |-> IF m = k THEN FALSE ELSE tainted[m]]
      /\ revived' = IF BeingUnmounted(k) THEN revived \cup {k} ELSE revived
      /\ UNCHANGED <<tableVars, root, dataVars, up, mishaps, born, wiped>>
  BY DEF Untaint, SetTaint
<1>1. up
  BY <1>0, AtWork DEF At
<1> HIDE DEF k
<1>2. /\ proc' \in [Procs -> Call] /\ Alone(p)
      /\ proc'[p].pc = "done" /\ proc'[p].op = "none" /\ proc'[p].m = Nil
  BY <1>0, FinishMoves, Parts
<1>3. UNCHANGED <<mounts, entry, stored, root, up, born, wiped, view, leases, mishaps>>
  BY <1>0 DEF tableVars, dataVars
<1>4. /\ tainted' \in [Mounts -> BOOLEAN]
      /\ \A m \in Mounts : m # k => tainted'[m] = tainted[m]
      /\ revived \subseteq revived'
      /\ BeingUnmounted(k) => k \in revived'
  BY <1>0, Parts DEF TypeOK
<1>5. TypeOK' /\ ShapeAt(p)'
  BY <1>2, <1>3, <1>4, Parts DEF TypeOK, ShapeAt
<1>6. UnmountInv'
  <2>1. ASSUME NEW r \in Procs, proc'[r].op = "unmount", proc'[r].pc \in Tainting,
               proc'[r].m \notin revived'
        PROVE  UnmountAt(r)'
    <3>1. proc'[r] = proc[r] /\ UnmountAt(r) /\ proc[r].m \in Mounts /\ proc[r].m # k
      BY <1>2, <1>4, <2>1, Parts
         DEF Alone, UnmountInv, CallShape, ShapeAt, Tainting, BeingUnmounted
    <3>. QED  BY <1>3, <1>4, <2>1, <3>1 DEF UnmountAt
  <2>. QED  BY <2>1 DEF UnmountInv, UnmountAt
<1>7. WipedOutOfService'
  <2>1. \A m \in wiped' \ revived' : m \in wiped \ revived /\ m \in Mounts /\ m # k
    BY <1>3, <1>4, Parts DEF BeingUnmounted, TypeOK
  <2>. QED  BY <1>3, <1>4, <2>1, Parts DEF WipedOutOfService
<1>. QED  BY <1>0, <1>1, <1>2, <1>3, <1>5, <1>6, <1>7, TaintsStep DEF At

-----------------------------------------------------------------------------
(* The end of an unmount and of a remount.                                 *)

\* removeMountEntry leaves a route that only this unmount will remove.
LEMMA RemoveStep ==
    ASSUME IInv, NEW p \in Procs, removeMountEntry(p) PROVE IInv'
<1> DEFINE path == proc[p].path
<1>0. /\ At(p, "remove")
      /\ UNCHANGED <<entry, routerVars, dataVars, up, born, wiped, revived>>
  BY DEF removeMountEntry
<1>1. up /\ path \in Paths
  BY <1>0, AtWork DEF At
<1>2. mishaps' \in 0 .. MaxMishaps
  BY Parts, MountAssumption DEF removeMountEntry, StorageFault, TypeOK
<1>3. CASE Finish(p) /\ UNCHANGED <<mounts, stored>>
  BY <1>0, <1>2, <1>3, QuietFinish, Parts DEF At, TypeOK, routerVars, dataVars
<1>4. CASE ~(Finish(p) /\ UNCHANGED <<mounts, stored>>)
  <2>1. PICK k \in EntriesAt(path) :
          /\ mounts' = mounts \ {k} /\ persistMounts(mounts', entry, k \in Local)
          /\ Goto(p, "unroute")
    BY <1>4 DEF removeMountEntry
  <2>2. k \in mounts /\ k \in Mounts /\ k # Nil /\ entry[k].path = path
    BY Parts, MountAssumption DEF EntriesAt, TypeOK
  <2>3. "unroute" \in Places
    BY DEF Places
  <2>4. /\ proc' \in [Procs -> Call] /\ \A r \in Procs : r # p => proc'[r] = proc[r]
        /\ proc'[p].pc = "unroute" /\ proc'[p].op = proc[p].op /\ proc'[p].m = proc[p].m
        /\ proc'[p].path = path /\ proc'[p].arg = proc[p].arg
    BY <2>1, <2>3, GotoMoves, Parts DEF Alone
  <2>5. /\ mounts' = mounts \ {k} /\ mounts \subseteq Mounts
        /\ UNCHANGED <<entry, root, tainted, view, leases, up, born, wiped, revived>>
    BY <1>0, <2>1, Parts DEF routerVars, dataVars, TypeOK
  <2>6. TableEntries' /\ PathsApart'
    BY <2>5, Parts DEF TableEntries, PathsApart
  <2>7. /\ stored' \in [Mounts -> Entry \cup {Nil}] /\ StorageMatchesTable'
        /\ \A n \in Mounts : (stored[n] # Nil => stored[n].tainted) =>
             (stored'[n] # Nil => stored'[n].tainted)
    <3>1. stored' = [n \in Mounts |->
            IF (n \in Local) # (k \in Local) THEN stored[n]
            ELSE IF n \in mounts' THEN entry'[n] ELSE Nil]
      BY <2>1, <2>5 DEF persistMounts
    <3>2. mounts' \subseteq Mounts /\ entry' \in [Mounts -> Entry \cup {Nil}]
      BY <2>5, Parts DEF TypeOK
    <3>3. /\ stored' \in [Mounts -> Entry \cup {Nil}] /\ StorageMatchesTable'
          /\ \A n \in Mounts : n # k /\ (stored[n] # Nil => stored[n].tainted) =>
               (stored'[n] # Nil => stored'[n].tainted)
      BY <2>2, <2>5, <2>6, <3>1, <3>2, Persisted
    <3>4. stored'[k] = Nil
      BY <2>2, <2>5, <3>3 DEF StorageMatchesTable
    <3>. QED  BY <3>3, <3>4
  <2> HIDE DEF path
  <2>8. TypeOK'
    BY <1>2, <2>4, <2>5, <2>7, Parts DEF TypeOK
  <2>9. /\ root[path] = k
        /\ \A n \in mounts' : entry[n].path # path
        /\ \A r \in Procs : At(r, "unroute") => proc[r].path # path
    <3>1. root[path] = k
      BY <1>1, <2>2, Parts DEF RouterMatchesTable
    <3>2. \A n \in mounts' : entry[n].path # path
      BY <2>2, <2>5, Parts DEF PathsApart
    <3>3. \A r \in Procs : At(r, "unroute") => proc[r].path # path
      BY <2>2, Parts DEF UnrouteAlone, UnrouteAt
    <3>. QED  BY <3>1, <3>2, <3>3
  <2>10. RouterMatchesTable'
    <3>1. /\ \A q \in Paths : Unrouting(q) => Unrouting(q)'
          /\ \A q \in Paths : q = path => Unrouting(q)'
      BY <1>0, <2>4 DEF Unrouting, At
    <3>2. /\ \A n \in mounts : root[entry[n].path] = n
          /\ \A q \in Paths : root[q] # Nil =>
               Unrouting(q) \/ (root[q] \in mounts /\ entry[root[q]].path = q)
      BY <1>1, Parts DEF RouterMatchesTable
    <3>. QED  BY <2>2, <2>5, <3>1, <3>2 DEF RouterMatchesTable
  <2>11. RootInjective'
    BY <2>5, Parts DEF RootInjective
  <2>12. UnrouteAlone'
    <3>1. UnrouteAt(p)'
      BY <2>2, <2>4, <2>5, <2>9 DEF UnrouteAt, At
    <3>2. ASSUME NEW r \in Procs, r # p PROVE UnrouteAt(r)'
      <4>1. proc'[r] = proc[r] /\ UnrouteAt(r)
        BY <2>4, <3>2, Parts DEF UnrouteAlone
      <4>2. At(r, "unroute") => proc[r].path # path
        BY <2>9
      <4>. QED  BY <2>4, <2>5, <4>1, <4>2 DEF UnrouteAt, At
    <3>. QED  BY <3>1, <3>2 DEF UnrouteAlone
  <2>13. Known'
    BY <2>4, <2>5, Parts DEF Known
  <2>14. FreshMounts'
    <3>1. \A r \in Procs : At(r, "mount")' => At(r, "mount") /\ r # p /\ proc'[r] = proc[r]
      BY <2>4 DEF At
    <3>. QED  BY <2>4, <2>5, <3>1, Parts DEF FreshMounts, FreshAt
  <2>15. CallShape' /\ Quiet'
    BY <1>0, <1>1, <2>4, <2>5, Parts DEF CallShape, ShapeAt, Quiet, At
  <2>16. UnmountInv'
    <3>1. ASSUME NEW r \in Procs, proc'[r].op = "unmount", proc'[r].pc \in Tainting
          PROVE  UnmountAt(r)'
      <4>1. proc'[r] = proc[r] /\ UnmountAt(r) /\ proc[r].m \in Mounts
        BY <2>4, <3>1, Parts DEF UnmountInv, CallShape, ShapeAt, Tainting
      <4>. QED  BY <2>5, <2>7, <4>1 DEF UnmountAt
    <3>. QED  BY <3>1 DEF UnmountInv, UnmountAt
  <2>17. WipedOutOfService'
    BY <2>5, <2>7, Parts DEF WipedOutOfService, TypeOK
  <2>. QED
    BY <2>6, <2>7, <2>8, <2>10, <2>11, <2>12, <2>13, <2>14, <2>15, <2>16, <2>17
       DEF IInv, TableInv, RouterInv, FreshInv, CallInv
<1>. QED  BY <1>3, <1>4

\* The route that Unmount takes away has no entry: nobody has mounted there
\* since the entry was removed, because the route was in the way.
LEMMA UnrouteStep ==
    ASSUME IInv, NEW p \in Procs, Unmount(p) PROVE IInv'
<1> DEFINE path == proc[p].path
<1>0. /\ At(p, "unroute") /\ Finish(p)
      /\ root' = [root EXCEPT ![path] = Nil]
      /\ UNCHANGED <<tableVars, tainted, dataVars, up, mishaps, histVars>>
  BY DEF Unmount
<1>1. up /\ path \in Paths
  BY <1>0, AtWork DEF At
<1>2. /\ proc' \in [Procs -> Call] /\ \A r \in Procs : r # p => proc'[r] = proc[r]
      /\ proc'[p].pc = "done" /\ proc'[p].op = "none" /\ proc'[p].m = Nil
  BY <1>0, FinishMoves, Parts DEF Alone
<1>3. UNCHANGED <<mounts, entry, stored, tainted, view, leases, up, mishaps, born, wiped, revived>>
  BY <1>0 DEF tableVars, dataVars, histVars
<1>4. /\ root' \in [Paths -> Mounts \cup {Nil}] /\ root'[path] = Nil
      /\ \A q \in Paths : q # path => root'[q] = root[q]
  BY <1>0, <1>1, Parts DEF TypeOK
<1>5. /\ \A n \in mounts : entry[n].path # path
      /\ \A r \in Procs : At(r, "unroute") /\ r # p => proc[r].path # path
  BY <1>0, Parts DEF UnrouteAlone, UnrouteAt
<1>6. \A r \in Procs : proc[r].m # Nil => proc[r].m \in Mounts
  BY Parts DEF TypeOK, Call
<1>7. \A q \in Paths, m \in Mounts : root'[q] = m => root[q] = m
  BY <1>4, MountAssumption
<1>8. \A r \in Procs : At(r, "unroute")' => At(r, "unroute") /\ r # p /\ proc'[r] = proc[r]
  BY <1>2 DEF At
<1>9. TypeOK'
  BY <1>2, <1>3, <1>4, Parts DEF TypeOK
<1>10. TableInv'
  BY <1>3, Parts DEF TableInv, TableEntries, StorageMatchesTable, PathsApart
<1>11. RouterMatchesTable'
  <2>1. \A q \in Paths : q # path /\ Unrouting(q) => Unrouting(q)'
    BY <1>2 DEF Unrouting, At
  <2>2. /\ \A n \in mounts : root[entry[n].path] = n /\ entry[n].path \in Paths
        /\ \A q \in Paths : root[q] # Nil =>
             Unrouting(q) \/ (root[q] \in mounts /\ entry[root[q]].path = q)
    BY <1>1, Parts DEF RouterMatchesTable, TableEntries, Entry
  <2> HIDE DEF path
  <2>. QED  BY <1>3, <1>4, <1>5, <2>1, <2>2 DEF RouterMatchesTable
<1> HIDE DEF path
<1>12. RootInjective'
  BY <1>4, Parts DEF RootInjective
<1>13. UnrouteAlone'
  <2>1. ASSUME NEW r \in Procs, At(r, "unroute")' PROVE UnrouteAt(r)'
    <3>1. proc'[r] = proc[r] /\ UnrouteAt(r) /\ At(r, "unroute")
          /\ proc[r].path \in Paths /\ proc[r].path # path
      BY <1>5, <1>8, <2>1, Parts DEF UnrouteAlone, CallShape, ShapeAt, At
    <3>. QED  BY <1>3, <1>4, <1>8, <3>1 DEF UnrouteAt
  <2>. QED  BY <2>1 DEF UnrouteAlone, UnrouteAt
<1>14. Known'
  BY <1>2, <1>3, <1>4, Parts DEF Known
<1>15. FreshMounts'
  <2>1. \A r \in Procs : At(r, "mount")' => At(r, "mount") /\ r # p /\ proc'[r] = proc[r]
    BY <1>2 DEF At
  <2>2. \A r \in Procs : At(r, "mount") => proc[r].arg # Nil
    BY Parts, MountAssumption DEF FreshMounts, FreshAt, TypeOK
  <2>. QED  BY <1>2, <1>3, <1>4, <2>1, <2>2, Parts DEF FreshMounts, FreshAt
<1>16. CallShape' /\ Quiet'
  BY <1>1, <1>2, <1>3, Parts DEF CallShape, ShapeAt, Quiet
<1>17. UnmountInv'
  <2>1. ASSUME NEW r \in Procs, proc'[r].op = "unmount", proc'[r].pc \in Tainting
        PROVE  UnmountAt(r)'
    <3>1. proc'[r] = proc[r] /\ UnmountAt(r) /\ proc[r].m \in Mounts
      BY <1>2, <2>1, Parts DEF UnmountInv, CallShape, ShapeAt, Tainting
    <3>. QED  BY <1>3, <1>7, <3>1 DEF UnmountAt
  <2>. QED  BY <2>1 DEF UnmountInv, UnmountAt
<1>18. WipedOutOfService'
  BY <1>3, <1>7, Parts DEF WipedOutOfService, TypeOK
<1>. QED
  BY <1>9, <1>10, <1>11, <1>12, <1>13, <1>14, <1>15, <1>16, <1>17, <1>18
     DEF IInv, RouterInv, FreshInv, CallInv

\* moveEntry takes entry and route together to a path where neither is.
LEMMA MoveStep ==
    ASSUME IInv, NEW p \in Procs, moveEntry(p) PROVE IInv'
<1> DEFINE src == proc[p].path
           dst == proc[p].arg
<1>0. /\ At(p, "move")
      /\ UNCHANGED <<mounts, tainted, dataVars, up, born, wiped>>
  BY DEF moveEntry
<1>1. up /\ src \in Paths /\ dst \in Paths
  BY <1>0, AtWork, Parts DEF At, CallShape, ShapeAt
<1>2. mishaps' \in 0 .. MaxMishaps
  BY Parts, MountAssumption DEF moveEntry, StorageFault, TypeOK
<1>3. UNCHANGED <<mounts, tainted, view, leases, up, born, wiped>> /\ mounts \subseteq Mounts
  BY <1>0, Parts DEF dataVars, TypeOK
<1>4. CASE Finish(p) /\ UNCHANGED <<entry, stored, root, revived>>
  BY <1>0, <1>2, <1>3, <1>4, QuietFinish, Parts DEF At, TypeOK
<1>5. CASE \E k \in EntriesAt(src) :
              /\ entry' = [entry EXCEPT ![k].tainted = TRUE]
              /\ Finish(p) /\ UNCHANGED <<stored, root, revived>>
  <2>1. PICK k \in EntriesAt(src) : entry' = [entry EXCEPT ![k].tainted = TRUE]
    BY <1>5
  <2>2. k \in mounts /\ k \in Mounts /\ entry[k] \in Entry
    BY Parts DEF EntriesAt, TypeOK, TableEntries
  <2>3. /\ entry' \in [Mounts -> Entry \cup {Nil}]
        /\ entry'[k] \in Entry /\ entry'[k].tainted
        /\ \A n \in Mounts : n # k => entry'[n] = entry[n]
        /\ \A n \in mounts : entry'[n].path = entry[n].path
    BY <1>3, <2>1, <2>2, Parts DEF TypeOK, Entry
  <2>4. TableInv'
    <3>1. UNCHANGED stored
      BY <1>5
    <3>2. TableEntries' /\ PathsApart'
      BY <1>3, <2>3, Parts DEF TableEntries, PathsApart
    <3>3. StorageMatchesTable'
      BY <1>3, <2>3, <3>1, Parts DEF StorageMatchesTable
    <3>. QED  BY <3>2, <3>3 DEF TableInv
  <2>5. /\ proc' \in [Procs -> Call] /\ \A r \in Procs : r # p => proc'[r] = proc[r]
        /\ proc'[p].pc = "done" /\ proc'[p].op = "none" /\ proc'[p].m = Nil
    BY <1>5, FinishMoves, Parts DEF Alone
  <2>6. UNCHANGED <<stored, root, revived>>
    BY <1>5
  <2>7. TypeOK'
    BY <1>2, <1>3, <2>3, <2>5, <2>6, Parts DEF TypeOK
  <2>8. \A r \in Procs : /\ At(r, "unroute")' <=> At(r, "unroute")
                         /\ At(r, "unroute") => proc'[r] = proc[r]
    BY <1>0, <2>5 DEF At
  <2>9. RouterMatchesTable'
    <3>1. \A q \in Paths : Unrouting(q) => Unrouting(q)'
      BY <2>8 DEF Unrouting
    <3>. QED  BY <1>3, <2>3, <2>6, <3>1, Parts DEF RouterMatchesTable
  <2>10. RootInjective' /\ UnrouteAlone'
    BY <1>3, <2>3, <2>6, <2>8, Parts DEF RootInjective, UnrouteAlone, UnrouteAt
  <2>11. Known'
    BY <1>3, <2>5, <2>6, Parts DEF Known
  <2>12. FreshMounts'
    <3>1. \A r \in Procs : At(r, "mount")' => At(r, "mount") /\ r # p /\ proc'[r] = proc[r]
      BY <2>5 DEF At
    <3>2. \A r \in Procs : At(r, "mount") => proc[r].arg # Nil
      BY Parts, MountAssumption DEF FreshMounts, FreshAt, TypeOK
    <3>. QED  BY <1>3, <2>5, <2>6, <3>1, <3>2, Parts DEF FreshMounts, FreshAt
  <2>13. CallShape' /\ Quiet'
    BY <1>1, <1>3, <2>5, Parts DEF CallShape, ShapeAt, Quiet
  <2>14. UnmountInv'
    <3>1. ASSUME NEW r \in Procs, proc'[r].op = "unmount", proc'[r].pc \in Tainting
          PROVE  UnmountAt(r)'
      <4>1. proc'[r] = proc[r] /\ UnmountAt(r)
        BY <2>5, <3>1, Parts DEF UnmountInv
      <4>. QED  BY <1>3, <2>3, <2>6, <4>1 DEF UnmountAt
    <3>. QED  BY <3>1 DEF UnmountInv, UnmountAt
  <2>15. WipedOutOfService'
    BY <1>3, <2>6, Parts DEF WipedOutOfService
  <2>. QED
    BY <2>4, <2>7, <2>9, <2>10, <2>11, <2>12, <2>13, <2>14, <2>15
       DEF IInv, RouterInv, FreshInv, CallInv
<1>6. CASE /\ MatchingMountEntry(dst) = Nil
           /\ \E k \in EntriesAt(src) :
                /\ entry' = [entry EXCEPT ![k] = [path |-> dst, tainted |-> FALSE]]
                /\ persistMounts(mounts, entry', k \in Local)
                /\ root' = [root EXCEPT ![src] = Nil, ![dst] = root[src]]
                /\ revived' = IF BeingUnmounted(k) THEN revived \cup {k} ELSE revived
                /\ Goto(p, "untaint")
  <2>1. PICK k \in EntriesAt(src) :
          /\ entry' = [entry EXCEPT ![k] = [path |-> dst, tainted |-> FALSE]]
          /\ persistMounts(mounts, entry', k \in Local)
          /\ root' = [root EXCEPT ![src] = Nil, ![dst] = root[src]]
          /\ revived' = IF BeingUnmounted(k) THEN revived \cup {k} ELSE revived
          /\ Goto(p, "untaint")
    BY <1>6
  <2>2. k \in mounts /\ k \in Mounts /\ k # Nil /\ entry[k].path = src
    BY Parts, MountAssumption DEF EntriesAt, TypeOK
  <2>3. /\ \A n \in mounts : root[entry[n].path] = n /\ entry[n].path \in Paths
        /\ \A q \in Paths : root[q] # Nil =>
             Unrouting(q) \/ (root[q] \in mounts /\ entry[root[q]].path = q)
    BY <1>1, Parts DEF RouterMatchesTable, TableEntries, Entry
  <2>4. root[src] = k /\ root[dst] = Nil /\ src # dst
    BY <1>1, <1>6, <2>2, <2>3, Matching, Parts
  <2>5. /\ \A n \in mounts : n # k => entry[n].path # src /\ entry[n].path # dst
        /\ \A q \in Paths : root[q] = k => q = src
    <3>1. \A n \in mounts : n # k => entry[n].path # src
      BY <2>2, Parts DEF PathsApart
    <3>2. \A n \in mounts : n # Nil
      BY <1>3, MountAssumption
    <3>3. \A n \in mounts : entry[n].path # dst
      BY <2>3, <2>4, <3>2
    <3>4. \A q \in Paths : root[q] = k => q = src
      BY <1>1, <2>2, <2>4, Parts DEF RootInjective
    <3>. QED  BY <3>1, <3>3, <3>4
  <2>6. /\ entry' \in [Mounts -> Entry \cup {Nil}] /\ entry'[k] \in Entry
        /\ entry'[k].path = dst
        /\ \A n \in Mounts : n # k => entry'[n] = entry[n]
    BY <1>1, <2>1, <2>2, Parts DEF TypeOK, Entry
  <2>7. /\ root' \in [Paths -> Mounts \cup {Nil}] /\ root'[src] = Nil /\ root'[dst] = k
        /\ \A q \in Paths : q # src /\ q # dst => root'[q] = root[q]
    BY <1>1, <2>1, <2>2, <2>4, Parts DEF TypeOK
  <2>8. TableEntries' /\ PathsApart'
    BY <1>3, <2>2, <2>5, <2>6, Parts DEF TableEntries, PathsApart
  <2>9. /\ stored' \in [Mounts -> Entry \cup {Nil}] /\ StorageMatchesTable'
        /\ \A n \in Mounts : n # k /\ (stored[n] # Nil => stored[n].tainted) =>
             (stored'[n] # Nil => stored'[n].tainted)
    <3>1. stored' = [n \in Mounts |->
            IF (n \in Local) # (k \in Local) THEN stored[n]
            ELSE IF n \in mounts' THEN entry'[n] ELSE Nil]
      BY <1>3, <2>1 DEF persistMounts
    <3>2. mounts' \subseteq Mounts
      BY <1>3
    <3>. QED  BY <1>3, <2>2, <2>6, <2>8, <3>1, <3>2, Persisted
  <2>10. /\ revived \subseteq revived'
         /\ BeingUnmounted(k) => k \in revived'
    BY <2>1
  <2>11. "untaint" \in Places
    BY DEF Places
  <2>12. /\ proc' \in [Procs -> Call] /\ \A r \in Procs : r # p => proc'[r] = proc[r]
         /\ proc'[p].pc = "untaint" /\ proc'[p].op = proc[p].op /\ proc'[p].m = proc[p].m
         /\ proc'[p].path = src /\ proc'[p].arg = dst
    BY <2>1, <2>11, GotoMoves, Parts DEF Alone
  <2> HIDE DEF src, dst
  <2>13. TypeOK'
    BY <1>2, <1>3, <2>6, <2>7, <2>9, <2>12, Parts DEF TypeOK
  <2>14. \A r \in Procs : /\ At(r, "unroute")' <=> At(r, "unroute")
                          /\ At(r, "unroute") => proc'[r] = proc[r]
    BY <1>0, <2>12 DEF At
  <2>15. RouterMatchesTable'
    <3>1. \A q \in Paths : Unrouting(q) => Unrouting(q)'
      BY <2>14 DEF Unrouting
    <3>2. \A n \in mounts' : root'[entry'[n].path] = n
      BY <1>1, <1>3, <2>3, <2>5, <2>6, <2>7
    <3>3. ASSUME NEW q \in Paths, root'[q] # Nil
          PROVE  Unrouting(q)' \/ (root'[q] \in mounts' /\ entry'[root'[q]].path = q)
      <4>1. CASE q = dst
        BY <1>3, <2>2, <2>6, <2>7, <4>1
      <4>2. CASE q # dst
        <5>1. q # src /\ root'[q] = root[q] /\ root[q] # k
          BY <2>5, <2>7, <3>3, <4>2
        <5>2. root[q] \in mounts => entry'[root[q]] = entry[root[q]]
          BY <1>3, <2>6, <5>1
        <5>. QED  BY <1>3, <2>3, <3>1, <3>3, <5>1, <5>2
      <4>. QED  BY <4>1, <4>2
    <3>. QED  BY <3>2, <3>3 DEF RouterMatchesTable
  <2>16. RootInjective'
    BY <2>2, <2>5, <2>7, Parts DEF RootInjective
  <2>17. UnrouteAlone'
    <3>1. ASSUME NEW r \in Procs, At(r, "unroute")' PROVE UnrouteAt(r)'
      <4>1. proc'[r] = proc[r] /\ UnrouteAt(r) /\ At(r, "unroute") /\ proc[r].path \in Paths
        BY <2>14, <3>1, Parts DEF UnrouteAlone, CallShape, ShapeAt, At
      <4>2. proc[r].path # src /\ proc[r].path # dst
        BY <2>2, <2>4, <4>1 DEF UnrouteAt
      <4>3. \A n \in mounts' : entry'[n].path # proc[r].path
        BY <1>3, <2>6, <4>1, <4>2 DEF UnrouteAt
      <4>. QED  BY <2>7, <2>14, <4>1, <4>2, <4>3 DEF UnrouteAt
    <3>. QED  BY <3>1 DEF UnrouteAlone, UnrouteAt
  <2>18. Known'
    BY <1>3, <2>2, <2>7, <2>12, Parts DEF Known
  <2>19. FreshMounts'
    <3>1. \A r \in Procs : At(r, "mount")' => At(r, "mount") /\ r # p /\ proc'[r] = proc[r]
      BY <2>12 DEF At
    <3>2. \A r \in Procs : At(r, "mount") => proc[r].arg # Nil /\ proc[r].arg # k
      BY <2>2, Parts, MountAssumption DEF FreshMounts, FreshAt, TypeOK
    <3>. QED  BY <1>3, <2>7, <2>12, <3>1, <3>2, Parts DEF FreshMounts, FreshAt
  <2>20. CallShape' /\ Quiet'
    BY <1>0, <1>1, <1>3, <2>12, Parts DEF CallShape, ShapeAt, Quiet, At
  <2>21. UnmountInv'
    <3>1. ASSUME NEW r \in Procs, proc'[r].op = "unmount", proc'[r].pc \in Tainting,
                 proc'[r].m \notin revived'
          PROVE  UnmountAt(r)'
      <4>1. proc'[r] = proc[r] /\ UnmountAt(r) /\ proc[r].m \in Mounts /\ proc[r].m # k
        BY <2>10, <2>12, <3>1, Parts
           DEF UnmountInv, CallShape, ShapeAt, Tainting, BeingUnmounted
      <4>2. proc[r].m # Nil /\ \A q \in Paths : root'[q] = proc[r].m => root[q] = proc[r].m
        BY <2>7, <4>1, MountAssumption
      <4>. QED  BY <1>3, <2>6, <2>9, <2>10, <3>1, <4>1, <4>2 DEF UnmountAt
    <3>. QED  BY <3>1 DEF UnmountInv, UnmountAt
  <2>22. WipedOutOfService'
    <3>1. \A m \in wiped' \ revived' : m \in wiped \ revived /\ m \in Mounts /\ m # k
      BY <1>3, <2>10, Parts DEF BeingUnmounted, TypeOK
    <3>2. \A m \in Mounts : m # k => \A q \in Paths : root'[q] = m => root[q] = m
      BY <2>7, MountAssumption
    <3>. QED  BY <1>3, <2>9, <3>1, <3>2, Parts DEF WipedOutOfService
  <2>. QED
    BY <2>8, <2>9, <2>13, <2>15, <2>16, <2>17, <2>18, <2>19, <2>20, <2>21, <2>22
       DEF IInv, TableInv, RouterInv, FreshInv, CallInv
<1>. QED
  <2>1. \/ Finish(p) /\ UNCHANGED <<entry, stored, root, revived>>
        \/ \E k \in EntriesAt(src) :
              /\ entry' = [entry EXCEPT ![k].tainted = TRUE]
              /\ Finish(p) /\ UNCHANGED <<stored, root, revived>>
        \/ /\ MatchingMountEntry(dst) = Nil
           /\ \E k \in EntriesAt(src) :
                /\ entry' = [entry EXCEPT ![k] = [path |-> dst, tainted |-> FALSE]]
                /\ persistMounts(mounts, entry', k \in Local)
                /\ root' = [root EXCEPT ![src] = Nil, ![dst] = root[src]]
                /\ revived' = IF BeingUnmounted(k) THEN revived \cup {k} ELSE revived
                /\ Goto(p, "untaint")
    BY Zenon DEF moveEntry
  <2>. QED  BY <1>4, <1>5, <1>6, <2>1

-----------------------------------------------------------------------------
(* Restart, the begin of a call and the first state.                       *)

\* A restart finds in storage what the table had, and every call is over.
LEMMA SetupStep ==
    ASSUME IInv, setupMounts PROVE IInv'
<1> DEFINE there(q) == {m \in Mounts : stored[m] # Nil /\ stored[m].path = q}
<1>0. /\ mounts' = {m \in Mounts : stored[m] # Nil} /\ entry' = stored
      /\ up' = ~NestedMounts
      /\ tainted' = [m \in Mounts |-> stored[m] # Nil /\ stored[m].tainted]
      /\ UNCHANGED <<stored, view, leases, born, wiped, revived>>
  BY DEF setupMounts, restoredTaint, dataVars, histVars
<1>1. /\ stored \in [Mounts -> Entry \cup {Nil}] /\ mounts \subseteq Mounts
      /\ \A m \in Mounts : stored[m] # Nil => stored[m] \in Entry
  BY Parts DEF TypeOK
<1>2. mounts' = mounts /\ \A m \in mounts : stored[m].path = entry[m].path /\ stored[m] # Nil
  BY <1>0, <1>1, Parts DEF StorageMatchesTable
<1>3. mishaps' \in 0 .. MaxMishaps
  BY Parts, MountAssumption DEF setupMounts, StorageFault, TypeOK
<1>4. /\ proc' \in [Procs -> Call]
      /\ \A p \in Procs : /\ proc'[p].pc \in {"idle", "done"}
                          /\ proc'[p].op = "none" /\ proc'[p].m = Nil
  BY DEF setupMounts, Idle, Call
<1>5. TableInv'
  <2>1. TableEntries' /\ StorageMatchesTable'
    BY <1>0, <1>1 DEF TableEntries, StorageMatchesTable
  <2>2. PathsApart'
    BY <1>0, <1>2, Parts DEF PathsApart
  <2>. QED  BY <2>1, <2>2 DEF TableInv
<1>6. \A q \in Paths : \A m, n \in there(q) : m = n
  BY <1>0, <1>5 DEF TableInv, PathsApart
<1>7. root' = [q \in Paths |->
         IF NestedMounts \/ \A m \in Mounts : stored[m] = Nil \/ stored[m].path # q THEN Nil
         ELSE CHOOSE m \in Mounts : stored[m] # Nil /\ stored[m].path = q]
  BY DEF setupMounts
<1>8. ASSUME NEW q \in Paths
      PROVE  /\ root'[q] \in there(q) \cup {Nil}
             /\ ~NestedMounts => \A m \in there(q) : root'[q] = m
  <2>1. CASE NestedMounts \/ there(q) = {}
    BY <1>7, <2>1
  <2>2. CASE ~NestedMounts /\ there(q) # {}
    <3>1. root'[q] = CHOOSE m \in Mounts : stored[m] # Nil /\ stored[m].path = q
      BY <1>7, <2>2
    <3>2. \E m \in Mounts : stored[m] # Nil /\ stored[m].path = q
      BY <2>2
    <3>3. root'[q] \in there(q)
      BY <3>1, <3>2
    <3>. QED  BY <1>6, <3>3
  <2>. QED  BY <2>1, <2>2
<1>9. \A q \in Paths : root'[q] # Nil =>
        root'[q] \in mounts /\ root'[q] \in Mounts /\ stored[root'[q]].path = q
                            /\ stored[root'[q]] # Nil
  BY <1>0, <1>2, <1>8
<1>10. TypeOK'
  <2>1. root' \in [Paths -> Mounts \cup {Nil}]
    BY <1>7, <1>8
  <2>. QED  BY <1>0, <1>1, <1>2, <1>3, <1>4, <2>1, Parts DEF TypeOK
<1>11. RouterMatchesTable'
  <2>1. ASSUME up', NEW m \in mounts' PROVE root'[entry'[m].path] = m
    <3>1. entry'[m].path \in Paths /\ m \in there(entry'[m].path)
      BY <1>0, <1>1, <2>1 DEF Entry
    <3>. QED  BY <1>0, <1>8, <2>1, <3>1
  <2>. QED  BY <1>0, <1>2, <1>9, <2>1 DEF RouterMatchesTable
<1>12. RootInjective'
  <2>1. \A q, r \in Paths : root'[q] = root'[r] /\ root'[q] # Nil => q = r
    BY <1>9
  <2>. QED  BY <2>1 DEF RootInjective
<1>13. UnrouteAlone'
  BY <1>4 DEF UnrouteAlone, UnrouteAt, At
<1>14. Known'
  BY <1>0, <1>2, <1>4, <1>9, Parts DEF Known
<1>15. FreshMounts'
  BY <1>4 DEF FreshMounts, FreshAt, At
<1>16. CallShape' /\ Quiet' /\ UnmountInv'
  BY <1>4 DEF CallShape, ShapeAt, Quiet, UnmountInv, UnmountAt
<1>17. WipedOutOfService'
  <2>1. ASSUME NEW m \in wiped \ revived, NEW q \in Paths, root'[q] = m PROVE tainted'[m]
    <3>1. m \in Mounts /\ stored[m] # Nil
      BY <1>9, <2>1, Parts, MountAssumption DEF TypeOK
    <3>2. stored[m].tainted
      BY <2>1, <3>1, Parts DEF WipedOutOfService
    <3>. QED  BY <1>0, <3>1, <3>2
  <2>. QED  BY <1>0, <2>1, Parts DEF WipedOutOfService
<1>. QED
  BY <1>5, <1>10, <1>11, <1>12, <1>13, <1>14, <1>15, <1>16, <1>17
     DEF IInv, RouterInv, FreshInv, CallInv

\* A call begins; a mount begins with a secrets engine that never was there.
LEMMA BeginStep ==
    ASSUME IInv, NEW p \in Procs, NEW call \in Calls, Begin(p, call[1], call[2], call[3])
    PROVE  IInv'
<1> DEFINE op == call[1]
           path == call[2]
           arg == call[3]
<1>1. /\ op \in {"mount", "remount", "unmount", "request"} /\ path \in Paths
      /\ arg \in Mounts \cup Paths \cup {Nil}
      /\ op = "mount" => arg \in Mounts
      /\ op = "remount" => arg \in Paths
  BY CallAssumption
<1>2. /\ At(p, "idle") /\ up
      /\ op = "mount" => arg \notin born
      /\ born' = IF op = "mount" THEN born \cup {arg} ELSE born
      /\ proc' = [proc EXCEPT ![p] =
           [op |-> op, pc |-> firstPlace(op), path |-> path, arg |-> arg, m |-> Nil]]
      /\ UNCHANGED <<mounts, entry, stored, root, tainted, view, leases, up, mishaps,
                     wiped, revived>>
  BY DEF Begin, tableVars, routerVars, dataVars
<1>3. firstPlace(op) = IF op = "request" THEN "route" ELSE op
  BY DEF firstPlace
<1> HIDE DEF op, path, arg
<1>4. /\ proc' \in [Procs -> Call] /\ Alone(p)
      /\ proc'[p].pc = firstPlace(op) /\ proc'[p].op = op /\ proc'[p].m = Nil
      /\ proc'[p].path = path /\ proc'[p].arg = arg
  BY <1>1, <1>2, <1>3, Parts DEF TypeOK, Alone, Call
<1>5. TypeOK'
  BY <1>1, <1>2, <1>4, Parts DEF TypeOK
<1>6. ShapeAt(p)' /\ UnmountAt(p)'
  BY <1>1, <1>3, <1>4 DEF ShapeAt, UnmountAt, Tainting
<1>7. \A r \in Procs : At(r, "mount") => proc[r].arg # Nil
  BY Parts, MountAssumption DEF FreshMounts, FreshAt, TypeOK
<1>8. CASE op # "mount"
  <2>1. UNCHANGED <<mounts, entry, stored, root, tainted, up, wiped, revived, born>>
    BY <1>2, <1>8
  <2>2. proc[p].pc # "unroute" /\ proc'[p].pc \notin {"mount", "unroute"}
    BY <1>1, <1>2, <1>3, <1>4, <1>8 DEF At
  <2>. QED  BY <1>2, <1>4, <1>5, <1>6, <1>7, <2>1, <2>2, QuietStep
<1>9. CASE op = "mount"
  <2>1. /\ arg \in Mounts /\ arg \notin born /\ arg # Nil /\ born' = born \cup {arg}
        /\ proc'[p].pc = "mount"
    BY <1>1, <1>2, <1>3, <1>4, <1>9, MountAssumption
  <2>2. \A r \in Procs : r # p => proc'[r] = proc[r]
    BY <1>4 DEF Alone
  <2>3. TableInv'
    BY <1>2, Parts DEF TableInv, TableEntries, StorageMatchesTable, PathsApart
  <2>4. \A r \in Procs : /\ At(r, "unroute")' <=> At(r, "unroute")
                         /\ At(r, "unroute") => proc'[r] = proc[r]
    BY <1>2, <2>1, <2>2 DEF At
  <2>5. RouterMatchesTable'
    <3>1. \A q \in Paths : Unrouting(q) => Unrouting(q)'
      BY <2>4 DEF Unrouting
    <3>. QED  BY <1>2, <3>1, Parts DEF RouterMatchesTable
  <2>6. RootInjective' /\ UnrouteAlone'
    BY <1>2, <2>4, Parts DEF RootInjective, UnrouteAlone, UnrouteAt
  <2>7. Known'
    BY <1>2, <1>4, <2>1, <2>2, Parts DEF Known
  <2>8. FreshMounts'
    <3>1. FreshAt(p)'
      <4>1. \A r \in Procs : r # p /\ At(r, "mount") => proc[r].arg \in born
        BY Parts DEF FreshMounts, FreshAt
      <4>2. /\ arg \notin mounts /\ arg \notin wiped
            /\ \A q \in Paths : root[q] # arg
            /\ \A r \in Procs : proc[r].m # arg
        BY <2>1, Parts DEF Known
      <4>. QED  BY <1>2, <1>4, <2>1, <2>2, <4>1, <4>2 DEF FreshAt, At
    <3>2. ASSUME NEW r \in Procs, r # p, At(r, "mount")' PROVE FreshAt(r)'
      <4>1. proc'[r] = proc[r] /\ FreshAt(r) /\ At(r, "mount") /\ proc[r].arg \in born
        BY <2>2, <3>2, Parts DEF FreshMounts, FreshAt, At
      <4>. QED  BY <1>2, <1>4, <1>7, <2>1, <2>2, <4>1 DEF FreshAt, At
    <3>. QED  BY <3>1, <3>2 DEF FreshMounts, FreshAt
  <2>9. CallInv'
    BY <1>2, <1>6, <2>2, Parts DEF CallInv, CallShape, ShapeAt, Quiet, UnmountInv, UnmountAt
  <2>10. WipedOutOfService'
    BY <1>2, Parts DEF WipedOutOfService
  <2>. QED
    BY <1>5, <2>3, <2>5, <2>6, <2>7, <2>8, <2>9, <2>10 DEF IInv, RouterInv, FreshInv
<1>. QED  BY <1>8, <1>9

\* At first the table, storage and the router hold the same mounts.
LEMMA InitIInv ==
    ASSUME Init PROVE IInv
<1>1. /\ Initially \in [Paths -> Mounts \cup {Nil}] /\ Nil \notin Mounts
      /\ Nil \notin Entry /\ MaxMishaps \in Nat
      /\ \A q, r \in Paths : Initially[q] = Initially[r] /\ Initially[q] # Nil => q = r
  BY MountAssumption
<1>2. ASSUME NEW m \in Mounts
      PROVE  /\ InitialEntry(m) \in Entry \cup {Nil}
             /\ InitialEntry(m) # Nil => /\ ~InitialEntry(m).tainted
                                         /\ Initially[InitialEntry(m).path] = m
             /\ \A q \in Paths : Initially[q] = m =>
                  InitialEntry(m) # Nil /\ InitialEntry(m).path = q
  <2>1. CASE \E q \in Paths : Initially[q] = m
    <3> DEFINE c == CHOOSE q \in Paths : Initially[q] = m
    <3>1. c \in Paths /\ Initially[c] = m
      BY <2>1
    <3>2. InitialEntry(m) = [path |-> c, tainted |-> FALSE]
      BY <2>1 DEF InitialEntry
    <3> HIDE DEF c
    <3>3. InitialEntry(m) \in Entry
      BY <3>1, <3>2 DEF Entry
    <3>4. InitialEntry(m) # Nil
      BY <1>1, <3>3
    <3>. QED  BY <1>1, <3>1, <3>2, <3>3, <3>4
  <2>2. CASE ~\E q \in Paths : Initially[q] = m
    <3>1. InitialEntry(m) = Nil
      BY <2>2 DEF InitialEntry
    <3>. QED  BY <2>2, <3>1
  <2>. QED  BY <2>1, <2>2
<1>3. /\ entry = [m \in Mounts |-> InitialEntry(m)] /\ stored = entry
      /\ mounts = {m \in Mounts : InitialEntry(m) # Nil}
      /\ root = Initially /\ tainted = [m \in Mounts |-> FALSE]
      /\ view = mounts /\ leases = {} /\ up = TRUE /\ mishaps = 0
      /\ born = mounts /\ wiped = {} /\ revived = {}
  BY DEF Init
<1>4. /\ proc \in [Procs -> Call]
      /\ \A p \in Procs : proc[p].pc = "idle" /\ proc[p].op = "none" /\ proc[p].m = Nil
  BY DEF Init, Idle, Call
<1>5. \A m \in mounts : m \in Mounts /\ entry[m] = InitialEntry(m) /\ entry[m] # Nil
  BY <1>3
<1>6. TypeOK
  <2>1. entry \in [Mounts -> Entry \cup {Nil}]
    BY <1>2, <1>3
  <2>2. mishaps \in 0 .. MaxMishaps
    BY <1>1, <1>3
  <2>. QED  BY <1>1, <1>3, <1>4, <2>1, <2>2 DEF TypeOK
<1>7. TableEntries /\ PathsApart
  BY <1>2, <1>5 DEF TableEntries, PathsApart
<1>8. StorageMatchesTable
  BY <1>3 DEF StorageMatchesTable
<1>9. \A q \in Paths : root[q] # Nil =>
        root[q] \in Mounts /\ root[q] \in mounts /\ entry[root[q]].path = q
  BY <1>1, <1>2, <1>3
<1>10. RouterMatchesTable /\ RootInjective /\ UnrouteAlone
  <2>1. \A m \in mounts : root[entry[m].path] = m
    BY <1>2, <1>3, <1>5
  <2>2. RouterMatchesTable
    BY <1>9, <2>1 DEF RouterMatchesTable
  <2>3. RootInjective
    BY <1>1, <1>3 DEF RootInjective
  <2>4. UnrouteAlone
    BY <1>4 DEF UnrouteAlone, UnrouteAt, At
  <2>. QED  BY <2>2, <2>3, <2>4
<1>11. Known /\ FreshMounts
  BY <1>3, <1>4, <1>9 DEF Known, FreshMounts, FreshAt, At
<1>12. CallShape /\ Quiet /\ UnmountInv
  BY <1>4 DEF CallShape, ShapeAt, Quiet, UnmountInv, UnmountAt
<1>13. WipedOutOfService
  BY <1>3 DEF WipedOutOfService
<1>. QED
  BY <1>6, <1>7, <1>8, <1>10, <1>11, <1>12, <1>13
     DEF IInv, TableInv, RouterInv, FreshInv, CallInv

-----------------------------------------------------------------------------
(* The theorems.                                                           *)

\* Every step of the operations on mounts preserves the invariant.
LEMMA NextIInv ==
    ASSUME IInv, [Next]_vars PROVE IInv'
<1>1. ASSUME NEW p \in Procs, NEW call \in Calls, Begin(p, call[1], call[2], call[3])
      PROVE  IInv'
  BY <1>1, BeginStep
<1>2. ASSUME NEW p \in Procs, Step(p) PROVE IInv'
  <2>1. CASE mountInternal(p)
    BY <2>1, MountStep
  <2>2. CASE unmountInternal(p)
    BY <2>2, UnmountBegins
  <2>3. CASE remount(p)
    BY <2>3, RemountBegins
  <2>4. CASE taintMountEntry(p)
    BY <2>4, TaintEntryStep
  <2>5. CASE Taint(p)
    BY <2>5, TaintStep
  <2>6. CASE RevokePrefix(p)
    BY <2>6, LeasesRevoked
  <2>7. CASE clearView(p)
    BY <2>7, ClearStep
  <2>8. CASE removeMountEntry(p)
    BY <2>8, RemoveStep
  <2>9. CASE Unmount(p)
    BY <2>9, UnrouteStep
  <2>10. CASE moveEntry(p)
    BY <2>10, MoveStep
  <2>11. CASE Untaint(p)
    BY <2>11, UntaintStep
  <2>12. CASE routeCommon(p) \/ handleRequest(p) \/ registerLease(p)
    BY <2>12, RequestMoves
  <2>. QED
    BY <1>2, <2>1, <2>2, <2>3, <2>4, <2>5, <2>6, <2>7, <2>8, <2>9, <2>10, <2>11, <2>12
       DEF Step
<1>3. CASE setupMounts
  BY <1>3, SetupStep
<1>4. CASE UNCHANGED vars
  <2>1. UNCHANGED <<mounts, entry, stored, root, tainted, view, leases, proc, up, mishaps,
                    born, wiped, revived>>
    BY <1>4 DEF vars, tableVars, routerVars, dataVars, histVars
  <2>2. TypeOK' /\ TableInv'
    BY <2>1, Parts DEF TypeOK, TableInv, TableEntries, StorageMatchesTable, PathsApart
  <2>3. RouterInv'
    BY <2>1, Parts
       DEF RouterInv, RouterMatchesTable, RootInjective, UnrouteAlone, UnrouteAt, Unrouting, At
  <2>4. FreshInv'
    BY <2>1, Parts DEF FreshInv, Known, FreshMounts, FreshAt, At
  <2>5. CallInv'
    BY <2>1, Parts DEF CallInv, CallShape, ShapeAt, Quiet, UnmountInv, UnmountAt
  <2>6. WipedOutOfService'
    BY <2>1, Parts DEF WipedOutOfService
  <2>. QED  BY <2>2, <2>3, <2>4, <2>5, <2>6 DEF IInv
<1>. QED  BY <1>1, <1>2, <1>3, <1>4 DEF Next

\* The inductive invariant of mounts, unmounts, remounts, requests and
\* restarts.
THEOREM MountsInvariant == Spec => []IInv
<1>1. Init => IInv
  BY InitIInv
<1>2. IInv /\ [Next]_vars => IInv'
  BY NextIInv
<1>. QED  BY <1>1, <1>2, PTL DEF Spec

\* What persistMounts has written is the table in memory, mount by mount and
\* path by path, after any failures of storage and any restarts.
THEOREM StorageSafety == Spec => []StorageMatchesTable
<1>1. IInv => StorageMatchesTable
  BY Parts
<1>. QED  BY <1>1, MountsInvariant, PTL

\* The router has exactly the mounts of the table, each at the path of its
\* entry, but for the route that an unmount is about to take away: however
\* many mounts, unmounts and remounts overlap.
THEOREM RouterSafety == Spec => []RouterMatchesTable
<1>1. IInv => RouterMatchesTable
  BY Parts
<1>. QED  BY <1>1, MountsInvariant, PTL

\* A mount whose data unmount has begun to delete is never again reached by a
\* request, unless a remount released it.
THEOREM OutOfService == Spec => []WipedOutOfService
<1>1. IInv => WipedOutOfService
  BY Parts
<1>. QED  BY <1>1, MountsInvariant, PTL

-----------------------------------------------------------------------------
(* Where the path of a lease leads.                                        *)

\* q is the longest of the prefixes of path that are mounted in rt.
Leads(rt, path, q) ==
    /\ rt[q] # Nil /\ Within(path, q)
    /\ \A r \in Paths : rt[r] # Nil /\ Within(path, r) => Within(q, r)

Longest(rt, path) ==
    LET prefixes == {q \in Paths : rt[q] # Nil /\ Within(path, q)} IN
    IF prefixes = {} THEN Nil
    ELSE CHOOSE q \in prefixes : \A r \in prefixes : Within(q, r)

\* Two prefixes of one path are one above the other.
LEMMA Comparable ==
    ASSUME NEW path \in Paths, NEW q \in Paths, NEW r \in Paths,
           Within(path, q), Within(path, r)
    PROVE  Within(q, r) \/ Within(r, q)
<1>1. {q, r} \in SUBSET {s \in Paths : Within(path, s)} /\ {q, r} # {}
  OBVIOUS
<1>2. \E s \in {q, r} : \A t \in {q, r} : Within(s, t)
  BY <1>1, PrefixAssumption
<1>. QED  BY <1>2

\* No two paths are above each other.
LEMMA Antisymmetric ==
    ASSUME NEW q \in Paths, NEW r \in Paths, Within(q, r), Within(r, q) PROVE q = r
  BY PrefixAssumption DEF Within

\* Longest finds the longest prefix when there is one.
LEMMA LongestFound ==
    ASSUME NEW rt, NEW path \in Paths
    PROVE  \/ /\ Longest(rt, path) = Nil
              /\ \A q \in Paths : rt[q] = Nil \/ ~Within(path, q)
           \/ Longest(rt, path) \in Paths /\ Leads(rt, path, Longest(rt, path))
<1> DEFINE prefixes == {q \in Paths : rt[q] # Nil /\ Within(path, q)}
<1>1. CASE prefixes = {}
  BY <1>1 DEF Longest
<1>2. CASE prefixes # {}
  <2>1. prefixes \in SUBSET {q \in Paths : Within(path, q)}
    OBVIOUS
  <2>2. \E q \in prefixes : \A r \in prefixes : Within(q, r)
    BY <1>2, <2>1, PrefixAssumption
  <2>3. Longest(rt, path) = CHOOSE q \in prefixes : \A r \in prefixes : Within(q, r)
    BY <1>2 DEF Longest
  <2>4. Longest(rt, path) \in prefixes /\ \A r \in prefixes : Within(Longest(rt, path), r)
    BY <2>2, <2>3
  <2>. QED  BY <2>4 DEF Leads
<1>. QED  BY <1>1, <1>2

\* There is only one longest prefix.
LEMMA LongestIs ==
    ASSUME NEW rt, NEW path \in Paths, NEW q \in Paths, Leads(rt, path, q)
    PROVE  Longest(rt, path) = q
<1> DEFINE l == Longest(rt, path)
<1>1. l \in Paths /\ Leads(rt, path, l)
  BY LongestFound DEF Leads
<1> HIDE DEF l
<1>2. Within(q, l) /\ Within(l, q)
  BY <1>1 DEF Leads
<1>3. q = l
  BY <1>1, <1>2, Antisymmetric
<1>. QED  BY <1>3 DEF l

\* A path leads to a mount when the longest prefix of the path is where that
\* mount is.
LEMMA LeadsTo ==
    ASSUME NEW path \in Paths, NEW m \in Mounts
    PROVE  MatchingMountEntry(path) = m <=>
             \E q \in Paths : root[q] = m /\ Leads(root, path, q)
<1> DEFINE l == Longest(root, path)
<1>1. MatchingMountEntry(path) = IF l = Nil THEN Nil ELSE root[l]
  BY DEF MatchingMountEntry, LongestPrefix, Longest
<1>2. m # Nil /\ \A q \in Paths : q # Nil
  BY MountAssumption
<1>3. ASSUME MatchingMountEntry(path) = m
      PROVE  \E q \in Paths : root[q] = m /\ Leads(root, path, q)
  BY <1>1, <1>2, <1>3, LongestFound
<1>4. ASSUME NEW q \in Paths, root[q] = m, Leads(root, path, q)
      PROVE  MatchingMountEntry(path) = m
  <2>1. l = q
    BY <1>4, LongestIs
  <2>. QED  BY <1>1, <1>2, <1>4, <2>1
<1>. QED  BY <1>3, <1>4

\* The same after a step.
LEMMA LeadsToNext ==
    ASSUME NEW path \in Paths, NEW m \in Mounts
    PROVE  MatchingMountEntry(path)' = m <=>
             \E q \in Paths : root'[q] = m /\ Leads(root', path, q)
<1> DEFINE l == Longest(root', path)
<1>1. MatchingMountEntry(path)' = IF l = Nil THEN Nil ELSE root'[l]
  BY DEF MatchingMountEntry, LongestPrefix, Longest
<1>2. m # Nil /\ \A q \in Paths : q # Nil
  BY MountAssumption
<1>3. ASSUME MatchingMountEntry(path)' = m
      PROVE  \E q \in Paths : root'[q] = m /\ Leads(root', path, q)
  BY <1>1, <1>2, <1>3, LongestFound
<1>4. ASSUME NEW q \in Paths, root'[q] = m, Leads(root', path, q)
      PROVE  MatchingMountEntry(path)' = m
  <2>1. l = q
    BY <1>4, LongestIs
  <2>. QED  BY <1>1, <1>2, <1>4, <2>1
<1>. QED  BY <1>3, <1>4

\* When nothing is mounted that is a prefix of dst, a mount at dst is the
\* longest prefix of no path that leads somewhere already.
LEMMA StillLeads ==
    ASSUME NEW rt, NEW st, NEW path \in Paths, NEW q \in Paths, NEW dst \in Paths,
           Leads(rt, path, q), st[q] # Nil,
           \A r \in Paths : rt[r] # Nil => ~Within(dst, r),
           \A r \in Paths : r # dst /\ st[r] # Nil => rt[r] # Nil
    PROVE  Leads(st, path, q)
<1>1. Within(path, q) /\ rt[q] # Nil
  BY DEF Leads
<1>2. ASSUME NEW r \in Paths, st[r] # Nil, Within(path, r) PROVE Within(q, r)
  <2>1. CASE r = dst
    BY <1>1, <1>2, <2>1, Comparable
  <2>2. CASE r # dst
    BY <1>2, <2>2 DEF Leads
  <2>. QED  BY <2>1, <2>2
<1>. QED  BY <1>1, <1>2 DEF Leads

-----------------------------------------------------------------------------
(* What the leases rest on is kept, step by step.                          *)

LEMMA HomeParts ==
    ASSUME HomeInv
    PROVE  RoutedGone /\ StaysDown /\ LeasesHome /\ GoneEmpty /\ Emptied /\ Moving
  BY DEF HomeInv

\* Nothing that raced is forgotten.
RacedKept == late \subseteq late' /\ revived \subseteq revived' /\ mistaken \subseteq mistaken'

\* A step that changes neither what is mounted where nor adds data or leases,
\* and takes no taint that a remount relies on, has to show only that the call
\* is in order at its new place.
LEMMA HomeFrame ==
    ASSUME IInv, HomeInv, NEW p \in Procs, Alone(p), up, up', RacedKept,
           UNCHANGED <<mounts, root>>,
           \A m \in mounts : entry'[m].path = entry[m].path,
           view' \subseteq view, leases' \subseteq leases, wiped \subseteq wiped',
           \A r \in Procs :
             /\ r # p /\ proc[r].op = "remount" /\ proc[r].pc \in {"revoke", "move"}
             /\ proc[r].m \in mounts /\ tainted[proc[r].m]
             => tainted'[proc[r].m] \/ Raced(proc[r].m)',
           EmptiedAt(p)', MovingAt(p)'
    PROVE  HomeInv'
<1>1. \A m : Raced(m) => Raced(m)'
  BY DEF RacedKept, Raced
<1>2. \A m : NoLeases(m) => NoLeases(m)'
  BY DEF NoLeases
<1>3. RoutedGone'
  BY HomeParts DEF RoutedGone, RacedKept
<1>4. StaysDown'
  BY DEF StaysDown
<1>5. LeasesHome'
  <2>1. \A path : MatchingMountEntry(path)' = MatchingMountEntry(path)
    BY DEF MatchingMountEntry, LongestPrefix
  <2>. QED  BY <1>1, <2>1, HomeParts DEF LeasesHome
<1>6. GoneEmpty'
  BY <1>1, <1>2, HomeParts DEF GoneEmpty
<1>7. Emptied'
  <2>1. ASSUME NEW r \in Procs, r # p PROVE EmptiedAt(r)'
    <3>1. proc'[r] = proc[r] /\ EmptiedAt(r)
      BY <2>1, HomeParts DEF Alone, Emptied
    <3>. QED  BY <1>1, <1>2, <3>1 DEF EmptiedAt, At
  <2>. QED  BY <2>1 DEF Emptied
<1>8. Moving'
  <2>1. ASSUME NEW r \in Procs, r # p PROVE MovingAt(r)'
    <3>1. proc'[r] = proc[r] /\ MovingAt(r)
      BY <2>1, HomeParts DEF Alone, Moving
    <3>. QED  BY <1>1, <1>2, <2>1, <3>1 DEF MovingAt, At
  <2>. QED  BY <2>1 DEF Moving
<1>. QED  BY <1>3, <1>4, <1>5, <1>6, <1>7, <1>8 DEF HomeInv

\* A call that is neither between its revocation and the end of an unmount
\* nor moving a mount has nothing to show.
LEMMA Elsewhere ==
    ASSUME NEW p \in Procs, proc'[p].pc \notin {"clear", "remove", "revoke", "move"}
    PROVE  EmptiedAt(p)' /\ MovingAt(p)'
  BY DEF EmptiedAt, MovingAt, At

\* A call that gives up.
LEMMA HomeFinish ==
    ASSUME IInv, HomeInv, NEW p \in Procs, Finish(p), up, up', RacedKept,
           UNCHANGED <<mounts, root, tainted>>,
           \A m \in mounts : entry'[m].path = entry[m].path,
           view' \subseteq view, leases' \subseteq leases, wiped \subseteq wiped'
    PROVE  HomeInv'
<1>1. Alone(p) /\ proc'[p].pc = "done"
  BY FinishMoves, Parts
<1>2. EmptiedAt(p)' /\ MovingAt(p)'
  BY <1>1, Elsewhere
<1>. QED  BY <1>1, <1>2, HomeFrame

\* The calls that only look up their mount.
LEMMA HomeLookup ==
    ASSUME IInv, HomeInv, NEW p \in Procs,
           unmountInternal(p) \/ remount(p) \/ routeCommon(p)
    PROVE  HomeInv'
<1>1. /\ UNCHANGED <<mounts, entry, root, tainted, view, leases, up, wiped, late, revived, mistaken>>
      /\ proc[p].pc \notin {"idle", "done"}
  BY DEF unmountInternal, remount, routeCommon, At, tableVars, routerVars, dataVars, histVars
<1>2. up /\ up' /\ proc[p].path \in Paths /\ RacedKept
  BY <1>1, AtWork DEF RacedKept
<1>3. CASE Finish(p)
  BY <1>1, <1>2, <1>3, HomeFinish
<1>4. CASE ~Finish(p)
  <2>1. PICK x \in {"taintEntry", "backend"}, m \in Mounts :
          proc' = [proc EXCEPT ![p].pc = x, ![p].m = m]
    <3>1. CASE unmountInternal(p)
      <4>1. LongestPrefix(proc[p].path) = proc[p].path
            /\ proc' = [proc EXCEPT ![p].pc = "taintEntry", ![p].m = root[proc[p].path]]
        BY <1>4, <3>1 DEF unmountInternal
      <4>2. root[proc[p].path] \in Mounts
        BY <1>2, <4>1, Matching, Parts DEF TypeOK
      <4>. QED  BY <4>1, <4>2
    <3>2. CASE remount(p) \/ routeCommon(p)
      <4> DEFINE m == MatchingMountEntry(proc[p].path)
      <4>1. /\ m # Nil
            /\ \E x \in {"taintEntry", "backend"} :
                 proc' = [proc EXCEPT ![p].pc = x, ![p].m = m]
        BY <1>4, <3>2 DEF remount, routeCommon, admits
      <4>2. m \in Mounts
        BY <1>2, <4>1, Matching, Parts
      <4>. QED  BY <4>1, <4>2
    <3>. QED  BY <3>1, <3>2
  <2>2. Alone(p) /\ proc'[p].pc = x
    <3>1. x \in Places
      BY DEF Places
    <3>. QED  BY <2>1, <3>1, FindMoves, Parts
  <2>3. EmptiedAt(p)' /\ MovingAt(p)'
    BY <2>2, Elsewhere
  <2>. QED  BY <1>1, <1>2, <2>2, <2>3, HomeFrame
<1>. QED  BY <1>3, <1>4

\* The taint of an entry is no concern of the leases.
LEMMA HomeTaintEntry ==
    ASSUME IInv, HomeInv, NEW p \in Procs, taintMountEntry(p) PROVE HomeInv'
<1>1. /\ UNCHANGED <<mounts, root, tainted, view, leases, up, wiped, late, revived, mistaken>>
      /\ At(p, "taintEntry")
      /\ \/ entry' = entry
         \/ \E m \in EntriesAt(proc[p].path) : entry' = [entry EXCEPT ![m].tainted = TRUE]
      /\ Finish(p) \/ Goto(p, "taintRoute")
  BY DEF taintMountEntry, tableVars, routerVars, dataVars, histVars
<1>2. up /\ up' /\ RacedKept
  BY <1>1, AtWork DEF RacedKept, At
<1>3. \A n \in mounts : entry'[n].path = entry[n].path
  <2>1. entry \in [Mounts -> Entry \cup {Nil}] /\ mounts \subseteq Mounts
        /\ \A n \in mounts : entry[n] \in Entry
    BY Parts DEF TypeOK, TableEntries
  <2>2. CASE entry' = entry
    BY <2>2
  <2>3. ASSUME NEW m \in EntriesAt(proc[p].path), entry' = [entry EXCEPT ![m].tainted = TRUE]
        PROVE  \A n \in mounts : entry'[n].path = entry[n].path
    <3>1. m \in mounts
      BY DEF EntriesAt
    <3>. QED  BY <2>1, <2>3, <3>1 DEF Entry
  <2>. QED  BY <1>1, <2>2, <2>3
<1>4. CASE Finish(p)
  BY <1>1, <1>2, <1>3, <1>4, HomeFinish
<1>5. CASE Goto(p, "taintRoute")
  <2>1. Alone(p) /\ proc'[p].pc = "taintRoute"
    <3>1. "taintRoute" \in Places
      BY DEF Places
    <3>. QED  BY <1>5, <3>1, GotoMoves, Parts
  <2>2. EmptiedAt(p)' /\ MovingAt(p)'
    BY <2>1, Elsewhere
  <2>. QED  BY <1>1, <1>2, <1>3, <2>1, <2>2, HomeFrame
<1>. QED  BY <1>1, <1>4, <1>5

\* A remount taints the mount it is to move, if that is at the source.
LEMMA HomeTaint ==
    ASSUME IInv, HomeInv, NEW p \in Procs, Taint(p) PROVE HomeInv'
<1>1. /\ UNCHANGED <<mounts, entry, root, view, leases, up, wiped, late, revived, mistaken>>
      /\ At(p, "taintRoute") /\ Goto(p, "revoke")
      /\ tainted' = [m \in Mounts |->
           IF m = MatchingMountEntry(proc[p].path) THEN TRUE ELSE tainted[m]]
  BY DEF Taint, SetTaint, tableVars, dataVars, histVars
<1>2. up /\ up' /\ RacedKept /\ proc[p].path \in Paths
  BY <1>1, AtWork DEF RacedKept, At
<1>3. /\ Alone(p) /\ proc'[p].pc = "revoke" /\ proc'[p].m = proc[p].m
      /\ proc'[p].path = proc[p].path
  <2>1. "revoke" \in Places
    BY DEF Places
  <2>. QED  BY <1>1, <2>1, GotoMoves, Parts
<1>4. \A m \in Mounts : tainted[m] => tainted'[m]
  BY <1>1
<1>5. EmptiedAt(p)'
  BY <1>3 DEF EmptiedAt, At
<1>6. MovingAt(p)'
  <2>1. ASSUME NEW m \in mounts, entry[m].path = proc[p].path PROVE tainted'[m]
    <3>1. root[proc[p].path] = m /\ m \in Mounts /\ m # Nil
      BY <1>2, <2>1, Parts, MountAssumption DEF RouterMatchesTable, TypeOK
    <3>2. MatchingMountEntry(proc[p].path) = m
      BY <1>2, <3>1, Matching, Parts
    <3>. QED  BY <1>1, <3>1, <3>2
  <2>. QED  BY <1>1, <1>3, <2>1 DEF MovingAt, At
<1>7. \A r \in Procs : proc[r].m \in mounts /\ tainted[proc[r].m] => tainted'[proc[r].m]
  BY <1>4, Parts DEF TypeOK
<1>. QED  BY <1>1, <1>2, <1>3, <1>5, <1>6, <1>7, HomeFrame

\* The leases of a mount at the path are among the ones revoked.
LEMMA HomeLeases ==
    ASSUME IInv, HomeInv, up, NEW m \in mounts, ~Raced(m), NEW l \in leases, l[2] = m
    PROVE  l[1] \in Paths /\ Within(l[1], entry[m].path)
<1>1. l[1] \in Paths /\ m \in Mounts /\ m # Nil /\ entry[m].path \in Paths
  BY Parts, MountAssumption DEF TypeOK, TableEntries, Entry
<1>2. MatchingMountEntry(l[1]) = m
  BY HomeParts DEF LeasesHome
<1>3. PICK q \in Paths : root[q] = m /\ Leads(root, l[1], q)
  BY <1>1, <1>2, LeadsTo
<1>4. q = entry[m].path
  BY <1>1, <1>3, Parts DEF RouterMatchesTable, RootInjective
<1>. QED  BY <1>1, <1>3, <1>4 DEF Leads

LEMMA HomeRevoke ==
    ASSUME IInv, HomeInv, NEW p \in Procs, RevokePrefix(p) PROVE HomeInv'
<1>1. /\ UNCHANGED <<mounts, entry, root, tainted, view, up, wiped, late, revived, mistaken>>
      /\ At(p, "revoke") /\ leases' \subseteq leases
      /\ \/ Finish(p)
         \/ /\ leases' = leases \ leasesWithin(proc[p].path)
            /\ Goto(p, afterRevoke(proc[p].op))
  BY DEF RevokePrefix, tableVars, routerVars, histVars
<1>2. up /\ up' /\ RacedKept
  BY <1>1, AtWork DEF RacedKept, At
<1>3. CASE Finish(p)
  BY <1>1, <1>2, <1>3, HomeFinish
<1>4. CASE ~Finish(p)
  <2>1. proc[p].op \in {"unmount", "remount"} /\ proc[p].m \in Mounts
    BY <1>1, Parts DEF CallShape, ShapeAt, At
  <2>2. /\ Alone(p) /\ proc'[p].pc = afterRevoke(proc[p].op) /\ proc'[p].op = proc[p].op
        /\ proc'[p].m = proc[p].m /\ proc'[p].path = proc[p].path
    <3>1. afterRevoke(proc[p].op) \in Places
      BY DEF Places, afterRevoke
    <3>. QED  BY <1>1, <1>4, <3>1, GotoMoves, Parts
  <2>3. ASSUME NEW m \in mounts, ~Raced(m), entry[m].path = proc[p].path PROVE NoLeases(m)'
    <3>1. \A l \in leases : l[2] = m => l \in leasesWithin(proc[p].path)
      BY <1>2, <2>3, HomeLeases DEF leasesWithin
    <3>. QED  BY <1>1, <1>4, <3>1 DEF NoLeases
  <2> PICK n : n = proc[p].m
    OBVIOUS
  <2>4. Raced(n) => Raced(n)'
    BY <1>1 DEF Raced
  <2>5. EmptiedAt(p)'
    <3>1. CASE proc[p].op = "remount"
      BY <2>2, <3>1 DEF EmptiedAt, At, afterRevoke
    <3>2. CASE proc[p].op = "unmount"
      <4>1. ASSUME ~Raced(n), n \in mounts PROVE NoLeases(n)'
        <5>1. entry[n].path = proc[p].path
          BY <1>1, <3>2, <4>1, Parts DEF UnmountInv, UnmountAt, Tainting, At, Raced
        <5>. QED  BY <2>3, <4>1, <5>1
      <4>2. ASSUME ~Raced(n), n \notin mounts PROVE NoLeases(n)'
        BY <1>1, <2>1, <4>2, HomeParts DEF GoneEmpty, NoLeases
      <4>3. Raced(n) \/ NoLeases(n)'
        BY <4>1, <4>2
      <4>4. proc'[p].pc = "clear"
        BY <2>2, <3>2 DEF afterRevoke
      <4>. QED  BY <2>2, <2>4, <4>3, <4>4 DEF EmptiedAt, At
    <3>. QED  BY <2>1, <3>1, <3>2
  <2>6. MovingAt(p)'
    <3>1. ASSUME proc[p].op = "remount", n \in mounts,
                 entry[n].path = proc[p].path, ~Raced(n)
          PROVE  tainted[n] /\ NoLeases(n)'
      <4>1. tainted[n]
        BY <1>1, <3>1, HomeParts DEF Moving, MovingAt, At
      <4>. QED  BY <2>3, <3>1, <4>1
    <3>. QED  BY <1>1, <2>2, <2>4, <3>1 DEF MovingAt, At
  <2>. QED  BY <1>1, <1>2, <2>2, <2>5, <2>6, HomeFrame
<1>. QED  BY <1>3, <1>4

LEMMA HomeClear ==
    ASSUME IInv, HomeInv, NEW p \in Procs, clearView(p) PROVE HomeInv'
<1>1. /\ UNCHANGED <<mounts, entry, root, tainted, leases, up, late, revived, mistaken>>
      /\ At(p, "clear") /\ wiped' = wiped \cup {proc[p].m}
      /\ \/ Finish(p) /\ view' = view
         \/ view' = view \ {proc[p].m} /\ Goto(p, "remove")
  BY DEF clearView, tableVars, routerVars
<1>2. up /\ up' /\ RacedKept /\ proc[p].op = "unmount"
  BY <1>1, AtWork, Parts DEF RacedKept, At, CallShape, ShapeAt
<1>3. CASE Finish(p) /\ view' = view
  BY <1>1, <1>2, <1>3, HomeFinish
<1>4. CASE view' = view \ {proc[p].m} /\ Goto(p, "remove")
  <2>1. /\ Alone(p) /\ proc'[p].pc = "remove" /\ proc'[p].m = proc[p].m
        /\ proc'[p].op = "unmount"
    <3>1. "remove" \in Places
      BY DEF Places
    <3>. QED  BY <1>2, <1>4, <3>1, GotoMoves, Parts
  <2>2. EmptiedAt(p)'
    <3>1. Raced(proc[p].m) \/ NoLeases(proc[p].m)
      BY <1>1, HomeParts DEF Emptied, EmptiedAt
    <3>. QED  BY <1>1, <1>4, <2>1, <3>1 DEF EmptiedAt, At, NoLeases, Raced
  <2>3. MovingAt(p)'
    BY <2>1 DEF MovingAt
  <2>. QED  BY <1>1, <1>2, <1>4, <2>1, <2>2, <2>3, HomeFrame
<1>. QED  BY <1>1, <1>3, <1>4

\* A mount that a remount is to move is released only by mistake.
LEMMA HomeUntaint ==
    ASSUME IInv, HomeInv, NEW p \in Procs, Untaint(p) PROVE HomeInv'
<1> DEFINE m == MatchingMountEntry(proc[p].arg)
<1>1. /\ UNCHANGED <<mounts, entry, root, view, leases, up, late, wiped>>
      /\ At(p, "untaint") /\ Finish(p)
      /\ tainted' = [n \in Mounts |-> IF n = m THEN FALSE ELSE tainted[n]]
      /\ mistaken' = IF BeingMoved(m) THEN mistaken \cup {m} ELSE mistaken
      /\ revived \subseteq revived'
  BY DEF Untaint, SetTaint, tableVars, dataVars
<1> HIDE DEF m
<1>2. up /\ up' /\ RacedKept
  BY <1>1, AtWork DEF RacedKept, At
<1>3. Alone(p) /\ proc'[p].pc = "done"
  BY <1>1, FinishMoves, Parts
<1>4. EmptiedAt(p)' /\ MovingAt(p)'
  BY <1>3, Elsewhere
<1>5. ASSUME NEW r \in Procs, r # p, proc[r].op = "remount",
             proc[r].pc \in {"revoke", "move"}, proc[r].m \in mounts, tainted[proc[r].m]
      PROVE  tainted'[proc[r].m] \/ Raced(proc[r].m)'
  <2>1. proc'[r] = proc[r]
    BY <1>3, <1>5 DEF Alone
  <2>2. CASE proc[r].m = m
    BY <1>1, <1>5, <2>1, <2>2 DEF BeingMoved, Raced
  <2>3. CASE proc[r].m # m
    BY <1>1, <1>5, <2>3, Parts DEF TypeOK
  <2>. QED  BY <2>2, <2>3
<1>. QED  BY <1>1, <1>2, <1>3, <1>4, <1>5, HomeFrame

\* An unmount takes from the table what it has emptied, or another mount by
\* mistake.
LEMMA HomeRemove ==
    ASSUME IInv, HomeInv, NEW p \in Procs, removeMountEntry(p) PROVE HomeInv'
<1>1. /\ UNCHANGED <<entry, root, tainted, view, leases, up, late, wiped, revived>>
      /\ At(p, "remove")
      /\ \/ Finish(p) /\ UNCHANGED <<mounts, mistaken>>
         \/ \E n \in EntriesAt(proc[p].path) :
              /\ mounts' = mounts \ {n} /\ noteMistaken(p, n) /\ Goto(p, "unroute")
  BY DEF removeMountEntry, routerVars, dataVars
<1>2. up /\ up' /\ proc[p].path \in Paths
  BY <1>1, AtWork DEF At
<1>3. CASE Finish(p) /\ UNCHANGED <<mounts, mistaken>>
  <2>1. RacedKept
    BY <1>1, <1>3 DEF RacedKept
  <2>. QED  BY <1>1, <1>2, <1>3, <2>1, HomeFinish
<1>4. CASE ~(Finish(p) /\ UNCHANGED <<mounts, mistaken>>)
  <2>1. PICK n \in EntriesAt(proc[p].path) :
          mounts' = mounts \ {n} /\ noteMistaken(p, n) /\ Goto(p, "unroute")
    BY <1>1, <1>4
  <2>2. /\ Alone(p) /\ proc'[p].pc = "unroute"
    <3>1. "unroute" \in Places
      BY DEF Places
    <3>. QED  BY <2>1, <3>1, GotoMoves, Parts
  <2>3. n \in mounts /\ n \in Mounts
    BY Parts DEF EntriesAt, TypeOK
  <2>4. mistaken \subseteq mistaken' /\ (n = proc[p].m \/ n \in mistaken')
    BY <2>1 DEF noteMistaken
  <2>5. \A m : Raced(m) => Raced(m)'
    BY <1>1, <2>4 DEF Raced
  <2>6. Raced(n)' \/ (n = proc[p].m /\ n \in wiped /\ n \notin view /\ NoLeases(n))
    BY <1>1, <2>4, <2>5, HomeParts DEF Emptied, EmptiedAt, Raced
  <2>7. RoutedGone'
    <3>1. n \in wiped \cup mistaken'
      BY <1>1, <2>4, HomeParts DEF Emptied, EmptiedAt
    <3>. QED  BY <1>1, <2>1, <2>4, <3>1, HomeParts DEF RoutedGone
  <2>8. LeasesHome'
    <3>1. \A path : MatchingMountEntry(path)' = MatchingMountEntry(path)
      BY <1>1 DEF MatchingMountEntry, LongestPrefix
    <3>. QED  BY <1>1, <2>5, <3>1, HomeParts DEF LeasesHome
  <2>9. GoneEmpty'
    BY <1>1, <2>1, <2>5, <2>6, HomeParts DEF GoneEmpty, NoLeases
  <2>10. Emptied'
    <3>1. ASSUME NEW r \in Procs, r # p PROVE EmptiedAt(r)'
      <4>1. proc'[r] = proc[r] /\ EmptiedAt(r)
        BY <2>2, <3>1, HomeParts DEF Alone, Emptied
      <4>. QED  BY <1>1, <2>5, <4>1 DEF EmptiedAt, At, NoLeases
    <3>. QED  BY <2>2, <3>1, Elsewhere DEF Emptied
  <2>11. Moving'
    <3>1. ASSUME NEW r \in Procs, r # p PROVE MovingAt(r)'
      <4>1. proc'[r] = proc[r] /\ MovingAt(r)
        BY <2>2, <3>1, HomeParts DEF Alone, Moving
      <4>. QED  BY <1>1, <2>1, <2>5, <4>1 DEF MovingAt, At, NoLeases
    <3>. QED  BY <2>2, <3>1, Elsewhere DEF Moving
  <2>. QED  BY <1>2, <2>7, <2>8, <2>9, <2>10, <2>11 DEF HomeInv, StaysDown
<1>. QED  BY <1>3, <1>4

\* The route that goes last leads to a mount that has no lease.
LEMMA HomeUnroute ==
    ASSUME IInv, HomeInv, NEW p \in Procs, Unmount(p) PROVE HomeInv'
<1>1. /\ UNCHANGED <<mounts, entry, tainted, view, leases, up, wiped, late, revived, mistaken>>
      /\ At(p, "unroute") /\ Finish(p)
      /\ root' = [root EXCEPT ![proc[p].path] = Nil]
  BY DEF Unmount, tableVars, dataVars, histVars
<1>2. up /\ up' /\ proc[p].path \in Paths
  BY <1>1, AtWork DEF At
<1>3. Alone(p) /\ proc'[p].pc = "done"
  BY <1>1, FinishMoves, Parts
<1>4. \A m : Raced(m)' <=> Raced(m)
  BY <1>1 DEF Raced
<1>5. /\ root \in [Paths -> Mounts \cup {Nil}]
      /\ \A q \in Paths : root'[q] = IF q = proc[p].path THEN Nil ELSE root[q]
  BY <1>1, Parts DEF TypeOK
<1>6. RoutedGone'
  BY <1>1, <1>5, HomeParts DEF RoutedGone
<1>7. LeasesHome'
  <2>1. SUFFICES ASSUME NEW l \in leases, ~Raced(l[2]) PROVE MatchingMountEntry(l[1])' = l[2]
    BY <1>1, <1>4 DEF LeasesHome
  <2> PICK path, m : path = l[1] /\ m = l[2]
    OBVIOUS
  <2>2. path \in Paths /\ m \in Mounts /\ m # Nil
    BY Parts, MountAssumption DEF TypeOK
  <2>3. m \in mounts
    BY <2>1, <2>2, HomeParts DEF GoneEmpty, NoLeases
  <2>4. MatchingMountEntry(path) = m
    BY <1>2, <2>1, HomeParts DEF LeasesHome
  <2>5. PICK q \in Paths : root[q] = m /\ Leads(root, path, q)
    BY <2>2, <2>4, LeadsTo
  <2>6. q = entry[m].path /\ entry[m].path # proc[p].path
    <3>1. entry[m].path \in Paths /\ root[entry[m].path] = m
      BY <1>2, <2>3, Parts DEF RouterMatchesTable, TableEntries, Entry
    <3>. QED  BY <1>1, <2>2, <2>3, <2>5, <3>1, Parts DEF RootInjective, UnrouteAlone, UnrouteAt
  <2>7. root'[q] = m /\ Leads(root', path, q)
    BY <1>5, <2>2, <2>5, <2>6 DEF Leads
  <2>8. MatchingMountEntry(path)' = m
    BY <2>2, <2>7, LeadsToNext
  <2>. QED  BY <2>8
<1>8. GoneEmpty'
  BY <1>1, <1>4, HomeParts DEF GoneEmpty, NoLeases
<1>9. Emptied'
  <2>1. ASSUME NEW r \in Procs, r # p PROVE EmptiedAt(r)'
    <3>1. proc'[r] = proc[r] /\ EmptiedAt(r)
      BY <1>3, <2>1, HomeParts DEF Alone, Emptied
    <3>. QED  BY <1>1, <1>4, <3>1 DEF EmptiedAt, At, NoLeases
  <2>. QED  BY <1>3, <2>1, Elsewhere DEF Emptied
<1>10. Moving'
  <2>1. ASSUME NEW r \in Procs, r # p PROVE MovingAt(r)'
    <3>1. proc'[r] = proc[r] /\ MovingAt(r)
      BY <1>3, <2>1, HomeParts DEF Alone, Moving
    <3>. QED  BY <1>1, <1>4, <3>1 DEF MovingAt, At, NoLeases
  <2>. QED  BY <1>3, <2>1, Elsewhere DEF Moving
<1>. QED  BY <1>2, <1>6, <1>7, <1>8, <1>9, <1>10 DEF HomeInv, StaysDown

\* A new mount conflicts with no other, and so no lease leads to it.
LEMMA HomeMount ==
    ASSUME IInv, HomeInv, NEW p \in Procs, mountInternal(p) PROVE HomeInv'
<1>1. /\ At(p, "mount") /\ Finish(p)
      /\ UNCHANGED <<view, leases, up, wiped, late, revived, mistaken>>
  BY DEF mountInternal, dataVars, histVars
<1>2. up /\ up' /\ proc[p].path \in Paths /\ RacedKept
  BY <1>1, AtWork DEF At, RacedKept
<1>3. CASE UNCHANGED <<tableVars, routerVars>>
  BY <1>1, <1>2, <1>3, HomeFinish DEF tableVars, routerVars
<1>4. CASE ~UNCHANGED <<tableVars, routerVars>>
  <2> PICK path, n : path = proc[p].path /\ n = proc[p].arg
    OBVIOUS
  <2>1. /\ ~conflicts(path)
        /\ mounts' = mounts \cup {n}
        /\ entry' = [entry EXCEPT ![n] = [path |-> path, tainted |-> FALSE]]
        /\ root' = [root EXCEPT ![path] = n]
        /\ tainted' = [tainted EXCEPT ![n] = FALSE]
    BY <1>4 DEF mountInternal
  <2>2. /\ path \in Paths /\ n \in Mounts /\ n \notin mounts /\ n \notin wiped
        /\ \A r \in Procs : proc[r].m # n
    BY <1>1, <1>2, Parts DEF FreshMounts, FreshAt, TypeOK
  <2>3. Alone(p) /\ proc'[p].pc = "done"
    BY <1>1, FinishMoves, Parts
  <2>4. \A m : Raced(m)' <=> Raced(m)
    BY <1>1 DEF Raced
  <2>5. /\ root \in [Paths -> Mounts \cup {Nil}]
        /\ \A q \in Paths : root'[q] = IF q = path THEN n ELSE root[q]
    BY <2>1, <2>2, Parts DEF TypeOK
  <2>6. \A q \in Paths : root[q] # Nil => ~Within(path, q) /\ q # path
    BY <2>1 DEF conflicts, MountConflict, Overlap, Within
  <2>7. RoutedGone'
    BY <1>1, <2>1, <2>5, HomeParts DEF RoutedGone
  <2>8. LeasesHome'
    <3>1. SUFFICES ASSUME NEW l \in leases, ~Raced(l[2]) PROVE MatchingMountEntry(l[1])' = l[2]
      BY <1>1, <2>4 DEF LeasesHome
    <3> PICK lp, m : lp = l[1] /\ m = l[2]
      OBVIOUS
    <3>2. lp \in Paths /\ m \in Mounts /\ m # Nil
      BY Parts, MountAssumption DEF TypeOK
    <3>3. MatchingMountEntry(lp) = m
      BY <1>2, <3>1, HomeParts DEF LeasesHome
    <3>4. PICK q \in Paths : root[q] = m /\ Leads(root, lp, q)
      BY <3>2, <3>3, LeadsTo
    <3>5. root'[q] = m
      BY <2>5, <2>6, <3>2, <3>4
    <3>6. Leads(root', lp, q)
      <4>1. \A r \in Paths : root[r] # Nil => ~Within(path, r)
        BY <2>6
      <4>2. \A r \in Paths : r # path /\ root'[r] # Nil => root[r] # Nil
        BY <2>5
      <4>3. root'[q] # Nil
        BY <3>2, <3>5
      <4>. QED  BY <2>2, <3>2, <3>4, <4>1, <4>2, <4>3, StillLeads
    <3>7. MatchingMountEntry(lp)' = m
      BY <3>2, <3>5, <3>6, LeadsToNext
    <3>. QED  BY <3>7
  <2>9. GoneEmpty'
    BY <1>1, <2>1, <2>4, HomeParts DEF GoneEmpty, NoLeases
  <2>10. Emptied'
    <3>1. ASSUME NEW r \in Procs, r # p PROVE EmptiedAt(r)'
      <4>1. proc'[r] = proc[r] /\ EmptiedAt(r)
        BY <2>3, <3>1, HomeParts DEF Alone, Emptied
      <4>. QED  BY <1>1, <2>4, <4>1 DEF EmptiedAt, At, NoLeases
    <3>. QED  BY <2>3, <3>1, Elsewhere DEF Emptied
  <2>11. Moving'
    <3>1. ASSUME NEW r \in Procs, r # p PROVE MovingAt(r)'
      <4>1. proc'[r] = proc[r] /\ MovingAt(r) /\ proc[r].m # n
        BY <2>2, <2>3, <3>1, HomeParts DEF Alone, Moving
      <4>2. ASSUME NEW m \in mounts, m # n
            PROVE  entry'[m] = entry[m] /\ tainted'[m] = tainted[m]
        BY <2>1, <2>2, <4>2, Parts DEF TypeOK
      <4>. QED  BY <1>1, <2>1, <2>4, <4>1, <4>2 DEF MovingAt, At, NoLeases
    <3>. QED  BY <2>3, <3>1, Elsewhere DEF Moving
  <2>. QED  BY <1>2, <2>7, <2>8, <2>9, <2>10, <2>11 DEF HomeInv, StaysDown
<1>. QED  BY <1>3, <1>4

\* A mount that was moved had no lease left, and where it is now no lease of
\* another one leads to it.
LEMMA HomeMove ==
    ASSUME IInv, HomeInv, NEW p \in Procs, moveEntry(p) PROVE HomeInv'
<1> PICK src, dst : src = proc[p].path /\ dst = proc[p].arg
  OBVIOUS
<1>1. /\ At(p, "move")
      /\ UNCHANGED <<mounts, tainted, view, leases, up, wiped, late>>
  BY DEF moveEntry, dataVars
<1>2. up /\ up' /\ src \in Paths /\ dst \in Paths /\ proc[p].op = "remount"
  BY <1>1, AtWork, Parts DEF At, CallShape, ShapeAt
<1>3. CASE Finish(p) /\ UNCHANGED <<root, revived, mistaken>>
             /\ \/ entry' = entry
                \/ \E m \in EntriesAt(src) : entry' = [entry EXCEPT ![m].tainted = TRUE]
  <2>1. \A n \in mounts : entry'[n].path = entry[n].path
    <3>1. entry \in [Mounts -> Entry \cup {Nil}] /\ mounts \subseteq Mounts
          /\ \A n \in mounts : entry[n] \in Entry
      BY Parts DEF TypeOK, TableEntries
    <3>2. CASE entry' = entry
      BY <3>2
    <3>3. ASSUME NEW m \in EntriesAt(src), entry' = [entry EXCEPT ![m].tainted = TRUE]
          PROVE  \A n \in mounts : entry'[n].path = entry[n].path
      <4>1. m \in mounts
        BY DEF EntriesAt
      <4>. QED  BY <3>1, <3>3, <4>1 DEF Entry
    <3>. QED  BY <1>3, <3>2, <3>3
  <2>2. RacedKept
    BY <1>1, <1>3 DEF RacedKept
  <2>. QED  BY <1>1, <1>2, <1>3, <2>1, <2>2, HomeFinish
<1>4. CASE /\ MatchingMountEntry(dst) = Nil
           /\ \E m \in EntriesAt(src) :
                /\ entry' = [entry EXCEPT ![m] = [path |-> dst, tainted |-> FALSE]]
                /\ root' = [root EXCEPT ![src] = Nil, ![dst] = root[src]]
                /\ revived \subseteq revived'
                /\ noteMistaken(p, m)
                /\ Goto(p, "untaint")
  <2>1. PICK n \in EntriesAt(src) :
          /\ entry' = [entry EXCEPT ![n] = [path |-> dst, tainted |-> FALSE]]
          /\ root' = [root EXCEPT ![src] = Nil, ![dst] = root[src]]
          /\ revived \subseteq revived'
          /\ noteMistaken(p, n)
          /\ Goto(p, "untaint")
    BY <1>4
  <2>2. n \in mounts /\ n \in Mounts /\ n # Nil /\ entry[n].path = src /\ root[src] = n
    BY <1>2, Parts, MountAssumption DEF EntriesAt, TypeOK, RouterMatchesTable
  <2>3. Alone(p) /\ proc'[p].pc = "untaint"
    <3>1. "untaint" \in Places
      BY DEF Places
    <3>. QED  BY <2>1, <3>1, GotoMoves, Parts
  <2>4. mistaken \subseteq mistaken' /\ (n = proc[p].m \/ n \in mistaken')
    BY <2>1 DEF noteMistaken
  <2>5. \A m : Raced(m) => Raced(m)'
    BY <1>1, <2>1, <2>4 DEF Raced
  <2>6. Raced(n)' \/ (tainted[n] /\ NoLeases(n))
    BY <1>1, <1>2, <2>2, <2>4, <2>5, HomeParts DEF Moving, MovingAt, Raced, At
  <2>7. \A q \in Paths : root[q] # Nil => ~Within(dst, q)
    <3>1. \A q \in Paths : q # Nil
      BY MountAssumption
    <3>2. MatchingMountEntry(dst) = IF Longest(root, dst) = Nil THEN Nil ELSE root[Longest(root, dst)]
      BY DEF MatchingMountEntry, LongestPrefix, Longest
    <3>. QED  BY <1>2, <1>4, <3>1, <3>2, LongestFound DEF Leads
  <2>8. /\ src # dst
        /\ \A q \in Paths : root'[q] = IF q = src THEN Nil ELSE IF q = dst THEN n ELSE root[q]
    <3>1. src # dst
      BY <1>2, <2>2, <2>7 DEF Within
    <3>2. root \in [Paths -> Mounts \cup {Nil}]
      BY Parts DEF TypeOK
    <3>. QED  BY <1>2, <2>1, <2>2, <3>1, <3>2
  <2>9. RoutedGone'
    BY <1>1, <2>2, <2>4, <2>8, HomeParts DEF RoutedGone
  <2>10. LeasesHome'
    <3>1. SUFFICES ASSUME NEW l \in leases, ~Raced(l[2])' PROVE MatchingMountEntry(l[1])' = l[2]
      BY <1>1 DEF LeasesHome
    <3> PICK lp, m : lp = l[1] /\ m = l[2]
      OBVIOUS
    <3>2. lp \in Paths /\ m \in Mounts /\ m # Nil
      BY Parts, MountAssumption DEF TypeOK
    <3>3. MatchingMountEntry(lp) = m
      BY <1>2, <2>5, <3>1, HomeParts DEF LeasesHome
    <3>4. PICK q \in Paths : root[q] = m /\ Leads(root, lp, q)
      BY <3>2, <3>3, LeadsTo
    <3>5. m # n
      BY <2>6, <3>1 DEF NoLeases
    <3>6. root'[q] = m
      BY <1>2, <2>2, <2>7, <2>8, <3>2, <3>4, <3>5 DEF Within
    <3>7. Leads(root', lp, q)
      <4>1. \A r \in Paths : r # dst /\ root'[r] # Nil => root[r] # Nil
        BY <2>8
      <4>2. root'[q] # Nil
        BY <3>2, <3>6
      <4>. QED  BY <1>2, <2>7, <3>2, <3>4, <4>1, <4>2, StillLeads
    <3>8. MatchingMountEntry(lp)' = m
      BY <3>2, <3>6, <3>7, LeadsToNext
    <3>. QED  BY <3>8
  <2>11. GoneEmpty'
    BY <1>1, <2>5, HomeParts DEF GoneEmpty, NoLeases
  <2>12. Emptied'
    <3>1. ASSUME NEW r \in Procs, r # p PROVE EmptiedAt(r)'
      <4>1. proc'[r] = proc[r] /\ EmptiedAt(r)
        BY <2>3, <3>1, HomeParts DEF Alone, Emptied
      <4>. QED  BY <1>1, <2>5, <4>1 DEF EmptiedAt, At, NoLeases
    <3>. QED  BY <2>3, <3>1, Elsewhere DEF Emptied
  <2>13. Moving'
    <3>1. ASSUME NEW r \in Procs, r # p PROVE MovingAt(r)'
      <4>1. proc'[r] = proc[r] /\ MovingAt(r)
        BY <2>3, <3>1, HomeParts DEF Alone, Moving
      <4>2. ASSUME NEW m \in mounts, m # n PROVE entry'[m] = entry[m]
        BY <2>1, <2>2, <4>2, Parts DEF TypeOK
      <4> PICK m : m = proc[r].m
        OBVIOUS
      <4>3. CASE m = n
        BY <1>1, <2>6, <4>1, <4>3 DEF MovingAt, At, NoLeases
      <4>4. CASE m # n
        BY <1>1, <2>5, <4>1, <4>2, <4>4 DEF MovingAt, At, NoLeases
      <4>. QED  BY <4>3, <4>4
    <3>. QED  BY <2>3, <3>1, Elsewhere DEF Moving
  <2>. QED  BY <1>2, <2>9, <2>10, <2>11, <2>12, <2>13 DEF HomeInv, StaysDown
<1>5. \/ /\ Finish(p) /\ UNCHANGED <<root, revived, mistaken>>
         /\ \/ entry' = entry
            \/ \E m \in EntriesAt(src) : entry' = [entry EXCEPT ![m].tainted = TRUE]
      \/ /\ MatchingMountEntry(dst) = Nil
         /\ \E m \in EntriesAt(src) :
              /\ entry' = [entry EXCEPT ![m] = [path |-> dst, tainted |-> FALSE]]
              /\ root' = [root EXCEPT ![src] = Nil, ![dst] = root[src]]
              /\ revived \subseteq revived'
              /\ noteMistaken(p, m)
              /\ Goto(p, "untaint")
  BY DEF moveEntry
<1>. QED  BY <1>3, <1>4, <1>5

\* A mount that a request uses in time is in the table, and neither a call
\* that emptied it nor one that is about to move it is at work on it.
LEMMA InTime ==
    ASSUME IInv, HomeInv, NEW p \in Procs, up, proc[p].path \in Paths,
           proc[p].m \in Mounts, ~TooLate(p), ~Raced(proc[p].m)
    PROVE  /\ proc[p].m \in mounts /\ ~tainted[proc[p].m]
           /\ MatchingMountEntry(proc[p].path) = proc[p].m
           /\ \A r \in Procs : At(r, "clear") \/ At(r, "remove") => proc[r].m # proc[p].m
<1> PICK m : m = proc[p].m
  OBVIOUS
<1>1. ~tainted[m] /\ MatchingMountEntry(proc[p].path) = m /\ m # Nil
  BY MountAssumption DEF TooLate
<1>2. PICK q \in Paths : root[q] = m
  BY <1>1, Matching, Parts
<1>3. m \notin wiped
  BY <1>1, <1>2, Parts DEF WipedOutOfService, Raced
<1>4. m \in mounts
  BY <1>1, <1>2, <1>3, HomeParts DEF RoutedGone, Raced
<1>5. ASSUME NEW r \in Procs, At(r, "clear"), proc[r].m = m PROVE FALSE
  <2>1. proc[r].op = "unmount"
    BY <1>5, Parts DEF CallShape, ShapeAt, At
  <2>. QED
    BY <1>1, <1>2, <1>5, <2>1, Parts DEF UnmountInv, UnmountAt, Tainting, At, Raced
<1>6. ASSUME NEW r \in Procs, At(r, "remove"), proc[r].m = m PROVE FALSE
  BY <1>3, <1>6, HomeParts DEF Emptied, EmptiedAt
<1>. QED  BY <1>1, <1>4, <1>5, <1>6

\* A request writes to a mount, or leaves a lease: what comes too late is
\* recorded.
LEMMA HomeRequest ==
    ASSUME IInv, HomeInv, NEW p \in Procs, handleRequest(p) \/ registerLease(p)
    PROVE  HomeInv'
<1> PICK n, path : n = proc[p].m /\ path = proc[p].path
  OBVIOUS
<1>1. /\ UNCHANGED <<mounts, entry, root, tainted, up, wiped, revived, mistaken>>
      /\ proc[p].pc \in {"backend", "register"}
      /\ late' = IF TooLate(p) THEN late \cup {n} ELSE late
      /\ view' \subseteq view \cup {n} /\ leases' \subseteq leases \cup {<<path, n>>}
      /\ Finish(p) \/ Goto(p, "register")
  BY DEF handleRequest, registerLease, noteLate, At, tableVars, routerVars
<1>2. up /\ up' /\ path \in Paths /\ n \in Mounts
  BY <1>1, AtWork, Parts DEF CallShape, ShapeAt
<1>3. Alone(p) /\ proc'[p].pc \in {"done", "register"}
  <2>1. "register" \in Places
    BY DEF Places
  <2>. QED  BY <1>1, <2>1, FinishMoves, GotoMoves, Parts
<1>4. \A m : Raced(m) => Raced(m)'
  BY <1>1 DEF Raced
<1>5. ASSUME ~Raced(n)'
      PROVE  /\ n \in mounts /\ ~tainted[n] /\ MatchingMountEntry(path) = n
             /\ \A r \in Procs : At(r, "clear") \/ At(r, "remove") => proc[r].m # n
  <2>1. ~TooLate(p) /\ ~Raced(n)
    BY <1>1, <1>4, <1>5 DEF Raced
  <2>. QED  BY <1>2, <2>1, InTime
<1>6. \A m : m # n => (NoLeases(m) => NoLeases(m)') /\ (m \notin view => m \notin view')
  BY <1>1 DEF NoLeases
<1>7. RoutedGone'
  BY <1>1, HomeParts DEF RoutedGone
<1>8. LeasesHome'
  <2>1. \A q : MatchingMountEntry(q)' = MatchingMountEntry(q)
    BY <1>1 DEF MatchingMountEntry, LongestPrefix
  <2>2. ASSUME NEW l \in leases', ~Raced(l[2])' PROVE MatchingMountEntry(l[1]) = l[2]
    <3>1. CASE l \in leases
      BY <1>2, <1>4, <2>2, <3>1, HomeParts DEF LeasesHome
    <3>2. CASE l \notin leases
      <4>1. l = <<path, n>>
        BY <1>1, <2>2, <3>2
      <4>. QED  BY <1>5, <2>2, <4>1
    <3>. QED  BY <3>1, <3>2
  <2>. QED  BY <2>1, <2>2 DEF LeasesHome
<1>9. GoneEmpty'
  <2>1. ASSUME NEW m \in Mounts, m \notin mounts, ~Raced(m)' PROVE m \notin view' /\ NoLeases(m)'
    <3>1. m # n
      BY <1>5, <2>1
    <3>. QED  BY <1>4, <1>6, <2>1, <3>1, HomeParts DEF GoneEmpty
  <2>. QED  BY <1>1, <2>1 DEF GoneEmpty
<1>10. Emptied'
  <2>1. ASSUME NEW r \in Procs, r # p PROVE EmptiedAt(r)'
    <3> PICK m : m = proc[r].m
      OBVIOUS
    <3>1. proc'[r] = proc[r] /\ EmptiedAt(r)
      BY <1>3, <2>1, HomeParts DEF Alone, Emptied
    <3>2. ASSUME At(r, "clear") \/ At(r, "remove"), ~Raced(m)'
          PROVE  /\ NoLeases(m)'
                 /\ At(r, "remove") => m \notin view'
      <4>1. m # n
        BY <1>5, <3>2
      <4>. QED  BY <1>4, <1>6, <3>1, <3>2, <4>1 DEF EmptiedAt
    <3>. QED  BY <1>1, <3>1, <3>2 DEF EmptiedAt, At
  <2>. QED  BY <1>3, <2>1, Elsewhere DEF Emptied
<1>11. Moving'
  <2>1. ASSUME NEW r \in Procs, r # p PROVE MovingAt(r)'
    <3> PICK m : m = proc[r].m
      OBVIOUS
    <3>1. proc'[r] = proc[r] /\ MovingAt(r)
      BY <1>3, <2>1, HomeParts DEF Alone, Moving
    <3>2. ASSUME proc[r].op = "remount", proc[r].pc \in {"revoke", "move"}, m \in mounts,
                 entry[m].path = proc[r].path, ~Raced(m)'
          PROVE  tainted[m] /\ (At(r, "move") => NoLeases(m)')
      <4>1. tainted[m] /\ (At(r, "move") => NoLeases(m))
        BY <1>4, <3>1, <3>2 DEF MovingAt
      <4>2. m # n
        BY <1>5, <3>2, <4>1
      <4>. QED  BY <1>6, <4>1, <4>2
    <3>. QED  BY <1>1, <3>1, <3>2 DEF MovingAt, At
  <2>. QED  BY <1>3, <2>1, Elsewhere DEF Moving
<1>. QED  BY <1>2, <1>7, <1>8, <1>9, <1>10, <1>11 DEF HomeInv, StaysDown

\* A restart finds the same mounts at the same paths, and nobody at work.  A
\* vault that stays sealed is one whose storage has a mount below another.
LEMMA HomeSetup ==
    ASSUME IInv, HomeInv, setupMounts PROVE HomeInv'
<1>1. /\ UNCHANGED <<stored, view, leases, wiped, late, revived, mistaken>>
      /\ proc' = [p \in Procs |-> IF At(p, "idle") THEN Idle ELSE [Idle EXCEPT !.pc = "done"]]
      /\ mounts' = {m \in Mounts : stored[m] # Nil}
      /\ entry' = stored
      /\ up' = ~NestedMounts
      /\ root' = [q \in Paths |->
           IF NestedMounts \/ \A m \in Mounts : stored[m] = Nil \/ stored[m].path # q THEN Nil
           ELSE CHOOSE m \in Mounts : stored[m] # Nil /\ stored[m].path = q]
  BY DEF setupMounts, dataVars, histVars
<1>2. mounts' = mounts
  BY <1>1, Parts DEF StorageMatchesTable, TypeOK
<1>3. \A m : Raced(m)' <=> Raced(m)
  BY <1>1 DEF Raced
<1>4. \A p \in Procs : proc'[p].pc \in {"idle", "done"}
  BY <1>1 DEF Idle
<1>5. Emptied' /\ Moving'
  BY <1>4, Elsewhere DEF Emptied, Moving
<1>6. GoneEmpty'
  BY <1>1, <1>2, <1>3, HomeParts DEF GoneEmpty, NoLeases
<1>7. StaysDown'
  BY <1>1 DEF StaysDown, NestedMounts
<1>8. \A q \in Paths : root'[q] # Nil => root'[q] \in mounts /\ stored[root'[q]].path = q
  <2>1. SUFFICES ASSUME NEW q \in Paths, root'[q] # Nil
                 PROVE  root'[q] \in mounts /\ stored[root'[q]].path = q
    OBVIOUS
  <2>2. /\ \E m \in Mounts : stored[m] # Nil /\ stored[m].path = q
        /\ root'[q] = CHOOSE m \in Mounts : stored[m] # Nil /\ stored[m].path = q
    BY <1>1, <2>1
  <2>3. root'[q] \in Mounts /\ stored[root'[q]] # Nil /\ stored[root'[q]].path = q
    BY <2>2
  <2>. QED  BY <1>1, <1>2, <2>3
<1>9. RoutedGone'
  BY <1>2, <1>8 DEF RoutedGone
<1>10. LeasesHome'
  <2>1. SUFFICES ASSUME up', NEW l \in leases, ~Raced(l[2])
                 PROVE  MatchingMountEntry(l[1])' = l[2]
    BY <1>1, <1>3 DEF LeasesHome
  <2>2. up
    BY <1>1, <2>1, HomeParts DEF StaysDown
  <2> PICK path, m : path = l[1] /\ m = l[2]
    OBVIOUS
  <2>3. path \in Paths /\ m \in Mounts /\ m # Nil
    BY Parts, MountAssumption DEF TypeOK
  <2>4. m \in mounts
    BY <2>1, <2>3, HomeParts DEF GoneEmpty, NoLeases
  <2>5. MatchingMountEntry(path) = m
    BY <2>1, <2>2, HomeParts DEF LeasesHome
  <2>6. PICK q \in Paths : root[q] = m /\ Leads(root, path, q)
    BY <2>3, <2>5, LeadsTo
  <2>7. \A k \in mounts : /\ k \in Mounts /\ stored[k] # Nil
                          /\ stored[k].path = entry[k].path /\ root[entry[k].path] = k
    BY <2>2, Parts DEF StorageMatchesTable, RouterMatchesTable, TypeOK
  <2>8. entry[m].path = q
    BY <2>3, <2>4, <2>6, <2>7, Parts DEF RootInjective, TableEntries, Entry
  <2>9. root'[q] = m
    <3>1. ~NestedMounts
      BY <1>1, <2>1
    <3>2. root'[q] = CHOOSE k \in Mounts : stored[k] # Nil /\ stored[k].path = q
      BY <1>1, <2>3, <2>4, <2>7, <2>8, <3>1
    <3>3. root'[q] \in Mounts /\ stored[root'[q]] # Nil /\ stored[root'[q]].path = q
      BY <2>3, <2>4, <2>7, <2>8, <3>2
    <3>4. root'[q] \in mounts
      BY <1>1, <1>2, <3>3
    <3>. QED  BY <2>4, <2>7, <2>8, <3>3, <3>4
  <2>10. \A r \in Paths : root'[r] # Nil => root[r] # Nil
    BY <1>8, <2>7, MountAssumption
  <2>11. Leads(root', path, q)
    BY <2>3, <2>6, <2>9, <2>10 DEF Leads
  <2>12. MatchingMountEntry(path)' = m
    BY <2>3, <2>9, <2>11, LeadsToNext
  <2>. QED  BY <2>12
<1>. QED  BY <1>5, <1>6, <1>7, <1>9, <1>10 DEF HomeInv

\* A request begins with nothing.
LEMMA HomeBegin ==
    ASSUME IInv, HomeInv, NEW p \in Procs, NEW call \in Calls,
           Begin(p, call[1], call[2], call[3])
    PROVE  HomeInv'
<1> PICK op, path, arg : op = call[1] /\ path = call[2] /\ arg = call[3]
  OBVIOUS
<1>1. op \in {"mount", "unmount", "remount", "request"}
  BY CallAssumption
<1>2. /\ At(p, "idle") /\ up
      /\ proc' = [proc EXCEPT ![p] =
           [op |-> op, pc |-> firstPlace(op), path |-> path, arg |-> arg, m |-> Nil]]
      /\ UNCHANGED <<mounts, entry, root, tainted, view, leases, up, wiped, late, revived, mistaken>>
  BY DEF Begin, tableVars, routerVars, dataVars
<1>3. Alone(p) /\ proc'[p].pc = firstPlace(op)
  BY <1>2, Parts DEF TypeOK, Alone
<1>4. EmptiedAt(p)' /\ MovingAt(p)'
  <2>1. proc'[p].pc \notin {"clear", "remove", "revoke", "move"}
    BY <1>1, <1>3 DEF firstPlace
  <2>. QED  BY <2>1, Elsewhere
<1>5. RacedKept
  BY <1>2 DEF RacedKept
<1>. QED  BY <1>2, <1>3, <1>4, <1>5, HomeFrame

\* At first there are no leases, nobody is at work, and the router has what
\* is in the table.
LEMMA InitHome ==
    ASSUME Init PROVE HomeInv
<1>1. /\ mounts = {m \in Mounts : InitialEntry(m) # Nil} /\ root = Initially
      /\ view = mounts /\ leases = {} /\ up = TRUE
      /\ \A p \in Procs : proc[p].pc = "idle"
  BY DEF Init, Idle
<1>2. \A q \in Paths : root[q] # Nil => root[q] \in mounts
  <2>1. ASSUME NEW q \in Paths, Initially[q] # Nil
        PROVE  Initially[q] \in Mounts /\ InitialEntry(Initially[q]) # Nil
    <3> DEFINE m == Initially[q]
               c == CHOOSE r \in Paths : Initially[r] = m
    <3>1. m \in Mounts /\ c \in Paths
      BY <2>1, MountAssumption
    <3>2. InitialEntry(m) = [path |-> c, tainted |-> FALSE]
      BY DEF InitialEntry
    <3> HIDE DEF c
    <3>3. InitialEntry(m) \in Entry
      BY <3>1, <3>2 DEF Entry
    <3>. QED  BY <3>1, <3>3, MountAssumption
  <2>. QED  BY <1>1, <2>1
<1>3. RoutedGone
  BY <1>2 DEF RoutedGone
<1>4. Emptied /\ Moving
  BY <1>1 DEF Emptied, EmptiedAt, Moving, MovingAt, At
<1>5. StaysDown /\ LeasesHome /\ GoneEmpty
  BY <1>1 DEF StaysDown, LeasesHome, GoneEmpty, NoLeases
<1>. QED  BY <1>3, <1>4, <1>5 DEF HomeInv

\* Every step keeps what the leases rest on.
LEMMA NextHome ==
    ASSUME IInv, HomeInv, [Next]_vars PROVE HomeInv'
<1>1. ASSUME NEW p \in Procs, NEW call \in Calls, Begin(p, call[1], call[2], call[3])
      PROVE  HomeInv'
  BY <1>1, HomeBegin
<1>2. ASSUME NEW p \in Procs, Step(p) PROVE HomeInv'
  <2>1. CASE mountInternal(p)
    BY <2>1, HomeMount
  <2>2. CASE unmountInternal(p) \/ remount(p) \/ routeCommon(p)
    BY <2>2, HomeLookup
  <2>3. CASE taintMountEntry(p)
    BY <2>3, HomeTaintEntry
  <2>4. CASE Taint(p)
    BY <2>4, HomeTaint
  <2>5. CASE RevokePrefix(p)
    BY <2>5, HomeRevoke
  <2>6. CASE clearView(p)
    BY <2>6, HomeClear
  <2>7. CASE removeMountEntry(p)
    BY <2>7, HomeRemove
  <2>8. CASE Unmount(p)
    BY <2>8, HomeUnroute
  <2>9. CASE moveEntry(p)
    BY <2>9, HomeMove
  <2>10. CASE Untaint(p)
    BY <2>10, HomeUntaint
  <2>11. CASE handleRequest(p) \/ registerLease(p)
    BY <2>11, HomeRequest
  <2>. QED
    BY <1>2, <2>1, <2>2, <2>3, <2>4, <2>5, <2>6, <2>7, <2>8, <2>9, <2>10, <2>11 DEF Step
<1>3. CASE setupMounts
  BY <1>3, HomeSetup
<1>4. CASE UNCHANGED vars
  <2>1. UNCHANGED <<mounts, entry, stored, root, tainted, view, leases, proc, up,
                    wiped, late, revived, mistaken>>
    BY <1>4 DEF vars, tableVars, routerVars, dataVars, histVars
  <2>2. \A m : (Raced(m)' <=> Raced(m)) /\ (NoLeases(m)' <=> NoLeases(m))
    BY <2>1 DEF Raced, NoLeases
  <2>3. RoutedGone' /\ StaysDown' /\ GoneEmpty'
    BY <2>1, <2>2, HomeParts DEF RoutedGone, StaysDown, NestedMounts, GoneEmpty
  <2>4. LeasesHome'
    <3>1. \A q : MatchingMountEntry(q)' = MatchingMountEntry(q)
      BY <2>1 DEF MatchingMountEntry, LongestPrefix
    <3>. QED  BY <2>1, <2>2, <3>1, HomeParts DEF LeasesHome
  <2>5. Emptied'
    BY <2>1, <2>2, HomeParts DEF Emptied, EmptiedAt, At
  <2>6. Moving'
    BY <2>1, <2>2, HomeParts DEF Moving, MovingAt, At
  <2>. QED  BY <2>3, <2>4, <2>5, <2>6 DEF HomeInv
<1>. QED  BY <1>1, <1>2, <1>3, <1>4 DEF Next

\* The invariant that leases and data rest on, on top of the one of table,
\* storage and router.
THEOREM HomeInvariant == Spec => []HomeInv
<1>1. Init => HomeInv
  BY InitHome
<1>2. IInv /\ HomeInv /\ [Next]_vars => HomeInv'
  BY NextHome
<1>. QED  BY <1>1, <1>2, MountsInvariant, PTL DEF Spec

\* The path of every lease leads to the mount that made it, over mounts above
\* and below it, moves and restarts, unless the recorded races met that mount.
THEOREM LeaseHomeSafety == Spec => []LeaseLeadsHome
<1>1. HomeInv => LeaseLeadsHome
  BY HomeParts DEF LeasesHome, LeaseLeadsHome
<1>. QED  BY <1>1, HomeInvariant, PTL

\* A mount that unmount has removed left neither data nor leases, unless the
\* recorded races met it.
THEOREM DisabledSafety == Spec => []DisabledLeavesNothing
<1>1. IInv /\ HomeInv => DisabledLeavesNothing
  BY Parts, HomeParts DEF GoneEmpty, NoLeases, DisabledLeavesNothing, TypeOK
<1>. QED  BY <1>1, MountsInvariant, HomeInvariant, PTL
=============================================================================
