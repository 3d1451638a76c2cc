------------------------------ MODULE MCMounts ------------------------------
(***************************************************************************)
(* Two secrets engines, one of them mounted at first at a path that has    *)
(* another one below it, and a path apart.                                 *)
(***************************************************************************)
EXTENDS Mounts, TLC

CONSTANTS m1, m2, a, ab, x, p1, p2, p3, p4

Nesting == {<<ab, a>>}
FirstMount == [q \in Paths |-> IF q = a THEN m1 ELSE Nil]

\* A new mount at the same path, below it or apart, an unmount, a move to
\* the path apart or back, and requests before and after.
AllCalls ==
    {<<"mount", q, m2>> : q \in Paths} \cup
    {<<"unmount", q, Nil>> : q \in Paths} \cup
    {<<"request", q, Nil>> : q \in Paths} \cup
    {<<"remount", a, x>>, <<"remount", ab, x>>, <<"remount", x, a>>}

\* A mount is moved to a path above another one.
MountApart == [q \in Paths |-> IF q = x THEN m1 ELSE Nil]
NestingCalls == {<<"mount", ab, m2>>, <<"remount", x, a>>}

Symmetry == Permutations(Procs)
=============================================================================
