-------------------------- MODULE TokenStoreProofs --------------------------
(***************************************************************************)
(* Theorems about TokenStore, for any tokens, calls, goroutines and        *)
(* mishaps: a token is used no more often than it may be, one that was     *)
(* revoked to the end is not let through again, and a tree that was        *)
(* revoked has no usable token left.                                       *)
(***************************************************************************)
EXTENDS TokenStore, SequenceTheorems, FiniteSetTheorems, TLAPS

-----------------------------------------------------------------------------
(* The inductive invariant.                                                *)

\* The functions that are called by others; a request's own activation is the
\* last one of its stack.
Inner == {"Revoke", "revokeTreeInternal", "revokeInternal"}
Outer == {"create", "use", "revokeTree", "revokeOrphan"}

Places == StorageAccess \cup Deferred \cup {"revoke", "flag", "pop"}

Activation ==
    {f \in [fn : Inner \cup Outer, t : Tokens, pc : Places, entry : Entry \cup {Nil},
            skipOrphan : BOOLEAN, dfs : Seq(Tokens), seenIDs : SUBSET Tokens,
            todo : SUBSET Tokens] :
        /\ f.dfs # <<>>
        /\ f.pc \in {"child", "orphan"} => f.todo # {}
        /\ f.pc = "pop" => f.fn = "revokeTreeInternal"}

\* An activation that waits for another has no entry yet.
StackOK(s) ==
    /\ s \in Seq(Activation)
    /\ \A i \in 1 .. Len(s) : s[i].fn \notin Inner => i = Len(s)
    /\ \A i \in 1 .. Len(s) : s[i].fn = "use" /\ i > 1 => s[i].entry = Nil

Shape ==
    /\ idView \in [Tokens -> Entry \cup {Nil}]
    /\ lease \in [Tokens -> LeaseStates]
    /\ tokenLocks \in [Tokens -> Procs \cup {Nil}]
    /\ used \in [Tokens -> Nat]
    /\ proc \in [Procs -> [stack : Seq(Activation),
                           result : {"none", "running", "ok", "failed"}]]
    /\ \A p \in Procs : StackOK(proc[p].stack)

Base(p) == proc[p].stack[Len(proc[p].stack)]

\* Goroutine p creates t, and has not stored it; it is in UseToken for t, and
\* has found the entry.
Creating(p, t) == proc[p].stack # <<>> /\ Base(p).fn = "create" /\ Base(p).t = t
Early(p, t) == Creating(p, t) /\ Base(p).pc # "register"
Using(p, t) == /\ proc[p].stack # <<>> /\ Base(p).fn = "use" /\ Base(p).t = t
               /\ Base(p).pc = "store"
Holding(p, t) == Using(p, t) /\ Base(p).entry # Nil

\* The creation of t has come to an end.
Past(t) == t \in created /\ \A p \in Procs : ~Creating(p, t)

\* The creation of t has not come to storePrimary.
Unborn(t) == t \notin created \/ \E p \in Procs : Early(p, t)

CreateInv ==
    /\ Existing \subseteq created
    /\ \A p \in Procs, t \in Tokens :
         Creating(p, t) => t \in created \ Existing /\ Parent[t] # Nil
    /\ \A p, q \in Procs, t \in Tokens : Creating(p, t) /\ Creating(q, t) => p = q

\* UseToken has the lock of its token, and an entry that is not revoked.
UseLockInv ==
    \A p \in Procs, t \in Tokens :
        /\ Using(p, t) => tokenLocks[t] = p
        /\ Holding(p, t) => Base(p).entry.uses >= 0

\* What is left of the uses of t, by entry e.
Left(t, e) == e.uses = tokenRevocationPending \/ (e.uses >= 1 /\ e.uses + used[t] <= NumUses[t])

UsesInv ==
    \A t \in Tokens : NumUses[t] > 0 /\ t \notin orphaned =>
        /\ used[t] <= NumUses[t]
        /\ idView[t] # Nil => Left(t, idView[t])
        /\ \A p \in Procs : Holding(p, t) => Left(t, Base(p).entry) /\ Base(p).entry.uses >= 1

\* A token has no lease, and is not used, while it is created; but a root token
\* may be used as soon as it is stored.
Fresh(t) == IF t \in Root THEN Unborn(t) /\ t \notin orphaned ELSE ~Past(t)
LeaseInv ==
    \A t \in Tokens :
        /\ ~Past(t) => lease[t] # "live"
        /\ Fresh(t) => used[t] = 0 /\ \A p \in Procs : ~Holding(p, t)

UnbornInv == \A t \in Tokens : Unborn(t) /\ t \notin orphaned => idView[t] = Nil

\* A lookup does not find t, and nobody that has found it will store it again.
Closed(t) ==
    /\ t \notin Existing
    /\ idView[t] = Nil \/ idView[t].uses = tokenRevocationPending
    /\ \A p \in Procs : ~Holding(p, t)

\* The exceptions: a root token, and one that may have been orphaned while it
\* was created.
Excepted(t) == t \in Root \/ t \in orphaned \ Existing

Marked(t) == Excepted(t) \/ Past(t) \/ Closed(t)
Gone(t) == Excepted(t) \/ (Past(t) /\ lease[t] # "live") \/ Closed(t)

\* What activation f of revokeInternal knows of its token.
Revoking(f) ==
    /\ (f.pc = "mark" /\ f.entry # Nil) \/ f.pc \in Deferred => ~Unborn(f.t) \/ f.t \in orphaned
    /\ f.pc = "mark" /\ f.entry # Nil /\ f.entry.uses = tokenRevocationPending => Marked(f.t)
    /\ f.pc = "leases" => Marked(f.t)
    /\ f.pc \in Deferred \ {"leases"} => Gone(f.t)

RevokeInv ==
    \A p \in Procs : \A i \in 1 .. Len(proc[p].stack) :
        proc[p].stack[i].fn = "revokeInternal" => Revoking(proc[p].stack[i])

DeletedInv ==
    \A t \in Tokens : t \in deleted => Gone(t) /\ (~Unborn(t) \/ t \in orphaned)

\* The entry of a token that was deleted is gone, or was stored again.
RestoredInv == \A t \in Tokens : t \in deleted => idView[t] = Nil \/ t \in restored

IInv == /\ Shape /\ CreateInv /\ UseLockInv /\ UsesInv /\ LeaseInv /\ UnbornInv
        /\ RevokeInv /\ DeletedInv

-----------------------------------------------------------------------------
(* Stacks.                                                                 *)

\* The stack s with f in the place of its first activation.
LEMMA BecomeSeq ==
    ASSUME NEW S, NEW s \in Seq(S), s # <<>>, NEW f \in S
    PROVE  /\ <<f>> \o Tail(s) \in Seq(S) /\ Len(<<f>> \o Tail(s)) = Len(s)
           /\ (<<f>> \o Tail(s))[1] = f
           /\ \A i \in 2 .. Len(s) : (<<f>> \o Tail(s))[i] = s[i]
<1>1. /\ Tail(s) \in Seq(S) /\ Len(Tail(s)) = Len(s) - 1 /\ Len(s) \in Nat \ {0}
      /\ \A i \in 1 .. Len(s) - 1 : Tail(s)[i] = s[i + 1]
  BY HeadTailProperties, LenProperties, EmptySeq
<1>2. <<f>> \in Seq(S) /\ Len(<<f>>) = 1 /\ <<f>>[1] = f
  OBVIOUS
<1> DEFINE r == Tail(s)
           n == <<f>> \o r
<1>3. /\ n \in Seq(S) /\ Len(n) = 1 + Len(r)
      /\ \A i \in 1 .. 1 + Len(r) : n[i] = IF i <= 1 THEN <<f>>[i] ELSE r[i - 1]
  BY <1>1, <1>2, ConcatProperties
<1> HIDE DEF n, r
<1>4. ASSUME NEW i \in 2 .. Len(s) PROVE n[i] = s[i]
  <2>1. i \in 1 .. 1 + Len(r) /\ ~(i <= 1) /\ i - 1 \in 1 .. Len(s) - 1 /\ (i - 1) + 1 = i
    BY <1>1 DEF r
  <2>2. n[i] = r[i - 1]
    BY <2>1, <1>3
  <2>. QED  BY <2>1, <2>2, <1>1 DEF r
<1>5. 1 \in 1 .. 1 + Len(r) /\ 1 + Len(r) = Len(s)
  BY <1>1 DEF r
<1>6. n[1] = f
  BY <1>5, <1>3, <1>2
<1>. QED  BY <1>3, <1>4, <1>5, <1>6 DEF n, r

\* The stack s with f in the place of its first activation, and g before.
LEMMA CallSeq ==
    ASSUME NEW S, NEW s \in Seq(S), s # <<>>, NEW f \in S, NEW g \in S
    PROVE  /\ <<g, f>> \o Tail(s) \in Seq(S) /\ Len(<<g, f>> \o Tail(s)) = Len(s) + 1
           /\ (<<g, f>> \o Tail(s))[1] = g /\ (<<g, f>> \o Tail(s))[2] = f
           /\ \A i \in 3 .. Len(s) + 1 : (<<g, f>> \o Tail(s))[i] = s[i - 1]
<1>1. /\ Tail(s) \in Seq(S) /\ Len(Tail(s)) = Len(s) - 1 /\ Len(s) \in Nat \ {0}
      /\ \A i \in 1 .. Len(s) - 1 : Tail(s)[i] = s[i + 1]
  BY HeadTailProperties, LenProperties, EmptySeq
<1> DEFINE r == Tail(s)
           h == <<g, f>>
           n == h \o r
<1>2. h \in Seq(S) /\ Len(h) = 2 /\ h[1] = g /\ h[2] = f
  OBVIOUS
<1>3. /\ n \in Seq(S) /\ Len(n) = 2 + Len(r)
      /\ \A i \in 1 .. 2 + Len(r) : n[i] = IF i <= 2 THEN h[i] ELSE r[i - 2]
  BY <1>1, <1>2, ConcatProperties
<1> HIDE DEF n, r, h
<1>4. ASSUME NEW i \in 3 .. Len(s) + 1 PROVE n[i] = s[i - 1]
  <2>1. i \in 1 .. 2 + Len(r) /\ ~(i <= 2) /\ i - 2 \in 1 .. Len(s) - 1 /\ (i - 2) + 1 = i - 1
    BY <1>1 DEF r
  <2>2. n[i] = r[i - 2]
    BY <2>1, <1>3
  <2>. QED  BY <2>1, <2>2, <1>1 DEF r
<1>5. 1 \in 1 .. 2 + Len(r) /\ 2 \in 1 .. 2 + Len(r) /\ 2 + Len(r) = Len(s) + 1
  BY <1>1 DEF r
<1>6. n[1] = g /\ n[2] = f
  BY <1>5, <1>3, <1>2
<1>. QED  BY <1>3, <1>4, <1>5, <1>6 DEF n, r, h

\* The stack s without its first activation.
LEMMA TailSeq ==
    ASSUME NEW S, NEW s \in Seq(S), s # <<>>
    PROVE  /\ Tail(s) \in Seq(S) /\ Len(Tail(s)) = Len(s) - 1 /\ Len(s) \in Nat \ {0}
           /\ \A i \in 1 .. Len(s) - 1 : Tail(s)[i] = s[i + 1]
           /\ Head(s) = s[1] /\ s[1] \in S
  BY HeadTailProperties, LenProperties, EmptySeq, ElementOfSeq

\* How a step changes the stack s of a goroutine to n: the activations of n
\* are those of s, walks of a tree and the ones in N, and the use or the
\* creation at the end is the one of s.
Derived(n, s, N) ==
    /\ \A i \in 1 .. Len(n) :
         n[i] \in N \/ n[i].fn = "revokeTreeInternal" \/ \E j \in 1 .. Len(s) : n[i] = s[j]
    /\ n # <<>> /\ n[Len(n)].fn \in {"use", "create"} =>
         s # <<>> /\ n[Len(n)] = s[Len(s)]

LEMMA ActivationType ==
    ASSUME NEW f \in Activation
    PROVE  /\ f.fn \in Inner \cup Outer /\ f.t \in Tokens /\ f.pc \in Places
           /\ f.entry \in Entry \cup {Nil} /\ f.skipOrphan \in BOOLEAN
           /\ f.dfs \in Seq(Tokens) /\ f.dfs # <<>>
           /\ f.seenIDs \subseteq Tokens /\ f.todo \subseteq Tokens
           /\ f.pc \in {"child", "orphan"} => f.todo # {}
           /\ f.pc = "pop" => f.fn = "revokeTreeInternal"
  BY DEF Activation

LEMMA FrameType ==
    ASSUME NEW fn \in Inner \cup Outer, NEW t \in Tokens,
           NEW pc \in Places \ {"child", "orphan", "pop"}
    PROVE  /\ Frame(fn, t, pc) \in Activation
           /\ Frame(fn, t, pc).fn = fn /\ Frame(fn, t, pc).t = t /\ Frame(fn, t, pc).pc = pc
           /\ Frame(fn, t, pc).entry = Nil
<1>1. <<t>> \in Seq(Tokens) /\ <<t>> # <<>>
  OBVIOUS
<1> DEFINE f == Frame(fn, t, pc)
<1>2. /\ f = [fn |-> fn, t |-> t, pc |-> pc, entry |-> Nil, skipOrphan |-> FALSE,
              dfs |-> <<t>>, seenIDs |-> {}, todo |-> {}]
      /\ f.fn = fn /\ f.t = t /\ f.pc = pc /\ f.entry = Nil /\ f.dfs = <<t>>
  BY DEF Frame
<1> HIDE DEF f
<1>3. f \in [fn : Inner \cup Outer, t : Tokens, pc : Places, entry : Entry \cup {Nil},
            skipOrphan : BOOLEAN, dfs : Seq(Tokens), seenIDs : SUBSET Tokens,
            todo : SUBSET Tokens]
  BY <1>1, <1>2
<1>4. f \in Activation
  BY <1>1, <1>2, <1>3 DEF Activation
<1>. QED  BY <1>2, <1>4 DEF f

\* In a stack only the last activation is a request's own.
LEMMA OuterAlone ==
    ASSUME NEW s, StackOK(s), s # <<>>, s[1].fn \notin Inner
    PROVE  Len(s) = 1
<1>1. Len(s) \in Nat \ {0}
  BY TailSeq DEF StackOK
<1>2. 1 \in 1 .. Len(s)
  BY <1>1
<1>. QED  BY <1>2 DEF StackOK

LEMMA BecomeStack ==
    ASSUME NEW s, StackOK(s), s # <<>>, NEW f \in Activation,
           f.fn \notin Inner => Len(s) = 1, f.fn \notin {"use", "create"}
    PROVE  StackOK(<<f>> \o Tail(s)) /\ Derived(<<f>> \o Tail(s), s, {f})
<1> DEFINE n == <<f>> \o Tail(s)
<1>1. s \in Seq(Activation) /\ Len(s) \in Nat \ {0}
  BY TailSeq DEF StackOK
<1>2. /\ n \in Seq(Activation) /\ Len(n) = Len(s) /\ n[1] = f
      /\ \A i \in 2 .. Len(s) : n[i] = s[i]
  BY <1>1, BecomeSeq
<1> HIDE DEF n
<1>3. \A i \in 1 .. Len(n) : i = 1 \/ i \in 2 .. Len(s)
  BY <1>1, <1>2
<1>4. StackOK(n)
  BY <1>1, <1>2, <1>3 DEF StackOK
<1>5. Derived(n, s, {f})
  <2>1. \A i \in 2 .. Len(s) : i \in 1 .. Len(s)
    BY <1>1
  <2>2. \A i \in 1 .. Len(n) : n[i] = f \/ \E j \in 1 .. Len(s) : n[i] = s[j]
    BY <1>2, <1>3, <2>1
  <2>3. Len(n) = 1 \/ Len(n) \in 2 .. Len(s)
    BY <1>1, <1>2
  <2>. QED  BY <1>1, <1>2, <2>2, <2>3 DEF Derived
<1>. QED  BY <1>4, <1>5 DEF n

LEMMA CallStack ==
    ASSUME NEW s, StackOK(s), s # <<>>, NEW f \in Activation, NEW g \in Activation,
           f.fn \notin Inner => Len(s) = 1, f.fn \notin {"use", "create"}, g.fn \in Inner
    PROVE  StackOK(<<g, f>> \o Tail(s)) /\ Derived(<<g, f>> \o Tail(s), s, {f, g})
<1> DEFINE n == <<g, f>> \o Tail(s)
<1>1. s \in Seq(Activation) /\ Len(s) \in Nat \ {0}
  BY TailSeq DEF StackOK
<1>2. /\ n \in Seq(Activation) /\ Len(n) = Len(s) + 1 /\ n[1] = g /\ n[2] = f
      /\ \A i \in 3 .. Len(s) + 1 : n[i] = s[i - 1]
  BY <1>1, CallSeq
<1> HIDE DEF n
<1>3. \A i \in 1 .. Len(n) : i = 1 \/ i = 2 \/ i \in 3 .. Len(s) + 1
  BY <1>1, <1>2
<1>4. \A i \in 3 .. Len(s) + 1 : i - 1 \in 1 .. Len(s) /\ i - 1 > 1 /\ (i - 1 = Len(s) => i = Len(n))
  BY <1>1, <1>2
<1>5. StackOK(n)
  <2>1. \A i \in 1 .. Len(n) : n[i].fn \notin Inner => i = Len(n)
    BY <1>1, <1>2, <1>3, <1>4 DEF StackOK, Inner
  <2>2. \A i \in 1 .. Len(n) : n[i].fn = "use" => n[i].entry = Nil
    BY <1>2, <1>3, <1>4 DEF StackOK, Inner
  <2>. QED  BY <1>2, <2>1, <2>2 DEF StackOK
<1>6. Derived(n, s, {f, g})
  <2>2. \A i \in 1 .. Len(n) : n[i] = f \/ n[i] = g \/ \E j \in 1 .. Len(s) : n[i] = s[j]
    BY <1>2, <1>3, <1>4
  <2>3. Len(n) = 2 \/ (Len(n) \in 3 .. Len(s) + 1 /\ Len(n) - 1 = Len(s))
    BY <1>1, <1>2
  <2>. QED  BY <1>1, <1>2, <2>2, <2>3 DEF Derived
<1>. QED  BY <1>5, <1>6 DEF n

\* The stack without its first activation.
LEMMA TailStack ==
    ASSUME NEW s, StackOK(s), s # <<>>
    PROVE  /\ StackOK(Tail(s)) /\ Derived(Tail(s), s, {})
           /\ \A i \in 1 .. Len(Tail(s)) : Tail(s)[i].fn = "use" => Tail(s)[i].entry = Nil
<1> DEFINE n == Tail(s)
<1>1. /\ s \in Seq(Activation) /\ Len(s) \in Nat \ {0}
      /\ n \in Seq(Activation) /\ Len(n) = Len(s) - 1
      /\ \A i \in 1 .. Len(s) - 1 : n[i] = s[i + 1]
  BY TailSeq DEF StackOK
<1> HIDE DEF n
<1>2. \A i \in 1 .. Len(n) : /\ i + 1 \in 1 .. Len(s) /\ i + 1 > 1 /\ n[i] = s[i + 1]
                             /\ (i + 1 = Len(s) <=> i = Len(n))
  BY <1>1
<1>3. \A i \in 1 .. Len(n) : n[i].fn \notin Inner => i = Len(n)
  BY <1>2 DEF StackOK
<1>4. \A i \in 1 .. Len(n) : n[i].fn = "use" => n[i].entry = Nil
  BY <1>2 DEF StackOK
<1>5. StackOK(n)
  BY <1>1, <1>3, <1>4 DEF StackOK
<1>6. n # <<>> => Len(n) \in 1 .. Len(n) /\ n[Len(n)] = s[Len(s)]
  BY <1>1, <1>2, EmptySeq
<1>7. \A i \in 1 .. Len(n) : \E j \in 1 .. Len(s) : n[i] = s[j]
  BY <1>2
<1>8. Derived(n, s, {})
  <2>1. s # <<>>
    OBVIOUS
  <2>. QED  BY <1>6, <1>7, <2>1 DEF Derived
<1>. QED  BY <1>4, <1>5, <1>8 DEF n

\* Derived is kept by a further step, and by the renewal of a walk.
LEMMA DerivedTwice ==
    ASSUME NEW s, NEW m, NEW n, NEW N, Derived(m, s, {}), Derived(n, m, N)
    PROVE  Derived(n, s, N)
<1>1. ASSUME NEW i \in 1 .. Len(n)
      PROVE  \/ n[i] \in N \/ n[i].fn = "revokeTreeInternal"
             \/ \E j \in 1 .. Len(s) : n[i] = s[j]
  <2>1. CASE \E j \in 1 .. Len(m) : n[i] = m[j]
    <3>1. PICK j \in 1 .. Len(m) : n[i] = m[j]
      BY <2>1
    <3>2. m[j].fn = "revokeTreeInternal" \/ \E k \in 1 .. Len(s) : m[j] = s[k]
      BY DEF Derived
    <3>. QED  BY <3>1, <3>2
  <2>. QED  BY <2>1 DEF Derived
<1>2. n # <<>> /\ n[Len(n)].fn \in {"use", "create"} => s # <<>> /\ n[Len(n)] = s[Len(s)]
  BY DEF Derived
<1>. QED  BY <1>1, <1>2 DEF Derived

LEMMA DerivedWalk ==
    ASSUME NEW s, NEW n, NEW f, f.fn = "revokeTreeInternal", Derived(n, s, {f})
    PROVE  Derived(n, s, {})
  BY DEF Derived

LEMMA FrontType ==
    ASSUME NEW s \in Seq(Tokens), s # <<>>, Len(s) # 1
    PROVE  Front(s) \in Seq(Tokens) /\ Front(s) # <<>>
<1>1. Len(s) \in Nat \ {0}
  BY EmptySeq
<1> DEFINE k == Len(s) - 1
<1>2. k \in Nat \ {0} /\ \A i \in 1 .. k : i \in 1 .. Len(s)
  BY <1>1
<1>3. \A i \in 1 .. k : s[i] \in Tokens
  BY <1>2, ElementOfSeq
<1> HIDE DEF k
<1>4. /\ SubSeq(s, 1, k) \in Seq(Tokens)
      /\ Len(SubSeq(s, 1, k)) = IF 1 <= k THEN k - 1 + 1 ELSE 0
  BY <1>2, <1>3, SubSeqProperties
<1>5. Len(SubSeq(s, 1, k)) # 0
  BY <1>2, <1>4
<1>6. SubSeq(s, 1, k) # <<>>
  BY <1>5, EmptySeq
<1>. QED  BY <1>4, <1>6 DEF Front, k

LEMMA LastType ==
    ASSUME NEW s \in Seq(Tokens), s # <<>>
    PROVE  Last(s) \in Tokens
<1>1. Len(s) \in 1 .. Len(s)
  BY LenProperties, EmptySeq
<1>. QED  BY <1>1, ElementOfSeq DEF Last

\* What is left of a stack whose first activation returns.
LEMMA ReturnStack ==
    ASSUME NEW s, StackOK(s), s # <<>>
    PROVE  /\ StackOK(Resumed(Tail(s))) /\ Derived(Resumed(Tail(s)), s, {})
           /\ Resumed(Tail(s)) # <<>> /\ Resumed(Tail(s))[1].fn = "use" =>
                Resumed(Tail(s))[1].entry = Nil
<1> DEFINE m == Tail(s)
           n == Resumed(m)
<1>1. /\ StackOK(m) /\ Derived(m, s, {})
      /\ \A i \in 1 .. Len(m) : m[i].fn = "use" => m[i].entry = Nil
  BY TailStack
<1> HIDE DEF m
<1>2. CASE m = <<>> \/ Head(m).pc # "pop"
  <2>1. n = m
    BY <1>2 DEF Resumed
  <2>2. m # <<>> => 1 \in 1 .. Len(m)
    BY <1>1, TailSeq DEF StackOK
  <2>. QED  BY <1>1, <2>1, <2>2 DEF m
<1>3. CASE m # <<>> /\ Head(m).pc = "pop"
  <2> DEFINE f == Head(m)
  <2>1. m \in Seq(Activation) /\ f = m[1] /\ f \in Activation
    BY <1>1, <1>3, TailSeq DEF StackOK
  <2>2. f.fn = "revokeTreeInternal" /\ f.dfs \in Seq(Tokens) /\ f.dfs # <<>>
    BY <1>3, <2>1, ActivationType
  <2>3. CASE Len(f.dfs) = 1
    <3>1. n = Tail(m)
      BY <1>3, <2>3 DEF Resumed
    <3>2. /\ StackOK(n) /\ Derived(n, m, {})
          /\ \A i \in 1 .. Len(n) : n[i].fn = "use" => n[i].entry = Nil
      BY <1>1, <1>3, <3>1, TailStack
    <3>3. Derived(n, s, {})
      BY <1>1, <3>2, DerivedTwice
    <3>4. n # <<>> => 1 \in 1 .. Len(n)
      BY <3>2, TailSeq DEF StackOK
    <3>. QED  BY <3>2, <3>3, <3>4 DEF m
  <2>4. CASE Len(f.dfs) # 1
    <3> DEFINE g == [f EXCEPT !.pc = "list", !.dfs = Front(@)]
    <3>1. n = <<g>> \o Tail(m)
      BY <1>3, <2>4 DEF Resumed
    <3>2. Front(f.dfs) \in Seq(Tokens) /\ Front(f.dfs) # <<>>
      BY <2>2, <2>4, FrontType
    <3>3. g \in Activation /\ g.fn = "revokeTreeInternal"
      BY <2>1, <2>2, <3>2 DEF Activation, Places, StorageAccess
    <3> HIDE DEF g
    <3>4. StackOK(n) /\ Derived(n, m, {g})
      BY <1>1, <1>3, <3>1, <3>3, BecomeStack DEF Inner
    <3>5. Derived(n, s, {})
      BY <1>1, <3>3, <3>4, DerivedWalk, DerivedTwice
    <3>6. n[1] = g
      BY <1>3, <2>1, <3>1, <3>3, BecomeSeq
    <3>. QED  BY <3>3, <3>4, <3>5, <3>6 DEF m
  <2>. QED  BY <2>3, <2>4
<1>. QED  BY <1>2, <1>3

LEMMA SetToSeqType ==
    ASSUME NEW S \in SUBSET Tokens
    PROVE  SetToSeq(S) \in Seq(Tokens)
<1>1. Cardinality(S) \in Nat /\ ExistsBijection(1 .. Cardinality(S), S)
  BY TokenAssumption, FS_Subset, FS_CardinalityType
<1>2. \E f \in [1 .. Cardinality(S) -> S] : IsInjective(f)
  BY <1>1 DEF ExistsBijection, Bijection, Injection
<1>3. SetToSeq(S) \in [1 .. Cardinality(S) -> S]
  BY <1>2 DEF SetToSeq
<1>. QED  BY <1>1, <1>3, SeqDef

-----------------------------------------------------------------------------
(* What a step leaves as it was.                                           *)

Others(p) == \A q \in Procs : q # p => proc'[q] = proc[q]

ProcType ==
    proc \in [Procs -> [stack : Seq(Activation), result : {"none", "running", "ok", "failed"}]]

\* No use or creation begins or comes further.
OpsKept ==
    \A q \in Procs, t \in Tokens :
        /\ Creating(q, t)' => Creating(q, t)
        /\ Early(q, t)' => Early(q, t)
        /\ Using(q, t)' => Using(q, t)
        /\ Holding(q, t)' => Holding(q, t) /\ Base(q)' = Base(q)

\* The revocations under way were so before, or know what they must know.
FramesKept ==
    \A q \in Procs : \A i \in 1 .. Len(proc'[q].stack) :
        proc'[q].stack[i].fn = "revokeInternal" =>
            \/ Revoking(proc[q].stack[i])'
            \/ \E j \in 1 .. Len(proc[q].stack) : proc'[q].stack[i] = proc[q].stack[j]

\* No use is granted, no lease becomes live, and an entry changes to none, to
\* a revoked one or by an orphaning.
StoreStep ==
    /\ created' = created /\ used' = used /\ orphaned \subseteq orphaned'
    /\ \A t \in Tokens :
         \/ idView'[t] = idView[t] \/ idView'[t] = Nil \/ t \in orphaned'
         \/ idView'[t].uses = tokenRevocationPending /\ ~Unborn(t)
    /\ \A t \in Tokens : lease'[t] = "live" => lease[t] = "live"

LEMMA Parts ==
    ASSUME IInv
    PROVE  /\ Shape /\ CreateInv /\ UseLockInv /\ UsesInv /\ LeaseInv /\ UnbornInv
           /\ RevokeInv /\ DeletedInv
  BY DEF IInv

LEMMA PastKept ==
    ASSUME OpsKept, created' = created, NEW t \in Tokens
    PROVE  (Past(t) => Past(t)') /\ (Unborn(t)' => Unborn(t))
<1>1. \A q \in Procs : Creating(q, t)' => Creating(q, t)
  BY DEF OpsKept
<1>2. \A q \in Procs : Early(q, t)' => Early(q, t)
  BY DEF OpsKept
<1>3. Past(t) => Past(t)'
  BY <1>1 DEF Past
<1>4. Unborn(t)' => Unborn(t)
  BY <1>2 DEF Unborn
<1>. QED  BY <1>3, <1>4

LEMMA ClosedKept ==
    ASSUME OpsKept, StoreStep, NEW t \in Tokens
    PROVE  Closed(t) => Closed(t)' \/ Excepted(t)'
<1>1. \A q \in Procs : Holding(q, t)' => Holding(q, t)
  BY DEF OpsKept
<1>2. CASE t \in orphaned'
  BY <1>2 DEF Closed, Excepted
<1>3. CASE t \notin orphaned'
  BY <1>1, <1>3 DEF Closed, StoreStep
<1>. QED  BY <1>2, <1>3

LEMMA GoneKept ==
    ASSUME OpsKept, StoreStep, NEW t \in Tokens
    PROVE  (Gone(t) => Gone(t)') /\ (Marked(t) => Marked(t)')
<1>1. Past(t) => Past(t)'
  BY PastKept DEF StoreStep
<1>2. Closed(t) => Closed(t)' \/ Excepted(t)'
  BY ClosedKept
<1>3. Excepted(t) => Excepted(t)'
  BY DEF Excepted, StoreStep
<1>4. lease[t] # "live" => lease'[t] # "live"
  BY DEF StoreStep
<1>5. Gone(t) => Gone(t)'
  BY <1>1, <1>2, <1>3, <1>4 DEF Gone
<1>6. Marked(t) => Marked(t)'
  BY <1>1, <1>2, <1>3 DEF Marked
<1>. QED  BY <1>5, <1>6

LEMMA RevokingKept ==
    ASSUME OpsKept, StoreStep, NEW f \in Activation, Revoking(f)
    PROVE  Revoking(f)'
<1>1. f.t \in Tokens
  BY ActivationType
<1>2. (Gone(f.t) => Gone(f.t)') /\ (Marked(f.t) => Marked(f.t)')
  BY <1>1, GoneKept
<1>3. Unborn(f.t)' => Unborn(f.t)
  BY <1>1, PastKept DEF StoreStep
<1>4. f.t \in orphaned => f.t \in orphaned'
  BY DEF StoreStep
<1>. QED  BY <1>2, <1>3, <1>4 DEF Revoking

\* LeaseInv is kept when nothing happens to the tokens that it is about.
LEMMA FreshKept ==
    ASSUME orphaned \subseteq orphaned', NEW t \in Tokens,
           (Past(t) => Past(t)') /\ (Unborn(t)' => Unborn(t))
    PROVE  Fresh(t)' => Fresh(t)
  BY DEF Fresh

LEMMA LeaseKept ==
    ASSUME IInv, orphaned \subseteq orphaned',
           \A t \in Tokens :
               /\ (Past(t) => Past(t)') /\ (Unborn(t)' => Unborn(t))
               /\ lease'[t] = "live" => lease[t] = "live" \/ Past(t)'
               /\ Fresh(t)' => used'[t] = used[t]
               /\ Fresh(t)' => \A p \in Procs : Holding(p, t)' => Holding(p, t)
    PROVE  LeaseInv'
<1> SUFFICES ASSUME NEW t \in Tokens
             PROVE  /\ ~Past(t)' => lease'[t] # "live"
                    /\ Fresh(t)' => used'[t] = 0 /\ \A p \in Procs : ~Holding(p, t)'
  BY DEF LeaseInv
<1>1. Fresh(t)' => Fresh(t)
  BY FreshKept
<1>2. /\ ~Past(t) => lease[t] # "live"
      /\ Fresh(t) => used[t] = 0 /\ \A p \in Procs : ~Holding(p, t)
  BY Parts DEF LeaseInv
<1>. QED  BY <1>1, <1>2

LEMMA QuietStep ==
    ASSUME IInv, Shape', UseLockInv', OpsKept, StoreStep, FramesKept,
           \A t \in Tokens : t \in deleted' =>
               t \in deleted \/ (Gone(t)' /\ (~Unborn(t)' \/ t \in orphaned'))
    PROVE  IInv'
<1> USE Parts
<1>1. CreateInv'
  <2>1. \A p \in Procs, t \in Tokens : Creating(p, t)' => Creating(p, t)
    BY DEF OpsKept
  <2>2. created' = created
    BY DEF StoreStep
  <2>. QED  BY <2>1, <2>2 DEF CreateInv
<1>2. UsesInv'
  <2> SUFFICES ASSUME NEW t \in Tokens, NumUses[t] > 0, t \notin orphaned'
               PROVE  /\ used'[t] <= NumUses[t]
                      /\ idView'[t] # Nil => Left(t, idView[t])'
                      /\ \A p \in Procs : Holding(p, t)' =>
                           Left(t, Base(p).entry)' /\ Base(p)'.entry.uses >= 1
    BY DEF UsesInv
  <2>1. t \notin orphaned /\ used' = used
    BY DEF StoreStep
  <2>2. used'[t] <= NumUses[t]
    BY <2>1 DEF UsesInv
  <2>3. ASSUME idView'[t] # Nil PROVE Left(t, idView[t])'
    <3>1. idView'[t] = idView[t] \/ idView'[t].uses = tokenRevocationPending
      BY <2>3 DEF StoreStep
    <3>2. CASE idView'[t] = idView[t]
      <4>1. Left(t, idView[t])
        BY <2>1, <2>3, <3>2 DEF UsesInv
      <4>. QED  BY <2>1, <3>2, <4>1 DEF Left
    <3>. QED  BY <3>1, <3>2 DEF Left
  <2>4. ASSUME NEW p \in Procs, Holding(p, t)'
        PROVE  Left(t, Base(p).entry)' /\ Base(p)'.entry.uses >= 1
    <3>1. Holding(p, t) /\ Base(p)' = Base(p)
      BY <2>4 DEF OpsKept
    <3>2. Left(t, Base(p).entry) /\ Base(p).entry.uses >= 1
      BY <2>1, <3>1 DEF UsesInv
    <3>. QED  BY <2>1, <3>1, <3>2 DEF Left
  <2>. QED  BY <2>2, <2>3, <2>4
<1>3. LeaseInv'
  <2>1. \A t \in Tokens : (Past(t) => Past(t)') /\ (Unborn(t)' => Unborn(t))
    BY PastKept DEF StoreStep
  <2>2. \A t \in Tokens, p \in Procs : Holding(p, t)' => Holding(p, t)
    BY DEF OpsKept
  <2>. QED  BY <2>1, <2>2, LeaseKept DEF StoreStep
<1>4. UnbornInv'
  <2> SUFFICES ASSUME NEW t \in Tokens, Unborn(t)', t \notin orphaned' PROVE idView'[t] = Nil
    BY DEF UnbornInv
  <2>1. Unborn(t)
    BY PastKept DEF StoreStep
  <2>2. idView[t] = Nil
    BY <2>1 DEF UnbornInv, StoreStep
  <2>. QED  BY <2>1, <2>2 DEF StoreStep
<1>5. RevokeInv'
  <2> SUFFICES ASSUME NEW p \in Procs, NEW i \in 1 .. Len(proc'[p].stack),
                      proc'[p].stack[i].fn = "revokeInternal"
               PROVE  Revoking(proc[p].stack[i])'
    BY DEF RevokeInv
  <2>1. CASE \E j \in 1 .. Len(proc[p].stack) : proc'[p].stack[i] = proc[p].stack[j]
    <3>1. PICK j \in 1 .. Len(proc[p].stack) : proc'[p].stack[i] = proc[p].stack[j]
      BY <2>1
    <3>2. PICK f : f = proc[p].stack[j]
      OBVIOUS
    <3>3. f \in Activation
      BY <3>2, ElementOfSeq DEF Shape
    <3>4. Revoking(f)
      BY <3>1, <3>2 DEF RevokeInv
    <3>5. Revoking(f)'
      BY <3>3, <3>4, RevokingKept
    <3>. QED  BY <3>1, <3>2, <3>5
  <2>. QED  BY <2>1 DEF FramesKept
<1>6. DeletedInv'
  <2> SUFFICES ASSUME NEW t \in Tokens, t \in deleted, t \in deleted'
               PROVE  Gone(t)' /\ (~Unborn(t)' \/ t \in orphaned')
    BY DEF DeletedInv
  <2>1. Gone(t) /\ (~Unborn(t) \/ t \in orphaned)
    BY DEF DeletedInv
  <2>2. Gone(t)' /\ (Unborn(t)' => Unborn(t))
    BY <2>1, GoneKept, PastKept DEF StoreStep
  <2>. QED  BY <2>1, <2>2 DEF StoreStep
<1>. QED  BY <1>1, <1>2, <1>3, <1>4, <1>5, <1>6 DEF IInv

-----------------------------------------------------------------------------
(* Steps of one goroutine.                                                 *)

LEMMA StackType ==
    ASSUME Shape, NEW p \in Procs
    PROVE  StackOK(proc[p].stack) /\ proc[p].stack \in Seq(Activation) /\ ProcType
  BY DEF Shape, ProcType

\* The activation on top, and the ones below it.
LEMMA TopType ==
    ASSUME Shape, NEW p \in Procs, proc[p].stack # <<>>
    PROVE  /\ Top(p) \in Activation /\ Top(p) = proc[p].stack[1]
           /\ 1 \in 1 .. Len(proc[p].stack)
           /\ Rest(p) = Tail(proc[p].stack)
<1>1. proc[p].stack \in Seq(Activation)
  BY StackType
<1>2. Head(proc[p].stack) = proc[p].stack[1] /\ proc[p].stack[1] \in Activation
      /\ Len(proc[p].stack) \in Nat \ {0}
  BY <1>1, TailSeq
<1>3. 1 \in 1 .. Len(proc[p].stack)
  BY <1>2
<1>. QED  BY <1>2, <1>3 DEF Top, Rest

\* A request's own activation is alone in its stack.
LEMMA TopOuter ==
    ASSUME Shape, NEW p \in Procs, proc[p].stack # <<>>, Top(p).fn \notin Inner
    PROVE  Len(proc[p].stack) = 1 /\ Base(p) = Top(p) /\ Rest(p) = <<>>
<1>1. StackOK(proc[p].stack) /\ Top(p) = proc[p].stack[1] /\ Rest(p) = Tail(proc[p].stack)
  BY StackType, TopType
<1>2. Len(proc[p].stack) = 1
  BY <1>1, OuterAlone
<1>3. /\ Tail(proc[p].stack) \in Seq(Activation)
      /\ Len(Tail(proc[p].stack)) = Len(proc[p].stack) - 1
  BY TailSeq, StackType
<1>4. Len(Tail(proc[p].stack)) = 0
  BY <1>2, <1>3
<1>5. Tail(proc[p].stack) = <<>>
  BY <1>3, <1>4, EmptySeq
<1>. QED  BY <1>1, <1>2, <1>5 DEF Base

LEMMA SetStackType ==
    ASSUME Shape, NEW p \in Procs, NEW s \in Seq(Activation), SetStack(p, s)
    PROVE  ProcType' /\ Others(p) /\ proc'[p].stack = s
<1>1. proc \in [Procs -> [stack : Seq(Activation), result : {"none", "running", "ok", "failed"}]]
  BY DEF Shape
<1>2. CASE s = <<>>
  <2>1. proc' = [proc EXCEPT ![p] = [stack |-> <<>>, result |-> "ok"]]
    BY <1>2 DEF SetStack, Quiet
  <2>. QED  BY <1>1, <1>2, <2>1 DEF ProcType, Others
<1>3. CASE s # <<>>
  <2>1. proc' = [proc EXCEPT ![p] = [proc[p] EXCEPT !.stack = s]]
    BY <1>3 DEF SetStack
  <2>. QED  BY <1>1, <2>1 DEF ProcType, Others
<1>. QED  BY <1>2, <1>3

\* A goroutine whose use or creation goes on as it was.
LEMMA OpsStep ==
    ASSUME NEW p \in Procs, Others(p), NEW N, Derived(proc'[p].stack, proc[p].stack, N)
    PROVE  OpsKept
<1>1. ASSUME NEW q \in Procs, proc'[q].stack # <<>>, Base(q)'.fn \in {"use", "create"}
      PROVE  proc[q].stack # <<>> /\ Base(q)' = Base(q)
  <2>1. CASE q = p
    BY <1>1, <2>1 DEF Derived, Base
  <2>2. CASE q # p
    BY <1>1, <2>2 DEF Others, Base
  <2>. QED  BY <2>1, <2>2
<1> SUFFICES ASSUME NEW q \in Procs, NEW t \in Tokens
             PROVE  /\ Creating(q, t)' => Creating(q, t)
                    /\ Early(q, t)' => Early(q, t)
                    /\ Using(q, t)' => Using(q, t)
                    /\ Holding(q, t)' => Holding(q, t) /\ Base(q)' = Base(q)
  BY DEF OpsKept
<1>2. CASE proc'[q].stack # <<>> /\ Base(q)'.fn \in {"use", "create"}
  <2>1. proc[q].stack # <<>> /\ Base(q)' = Base(q)
    BY <1>1, <1>2
  <2>. QED  BY <2>1 DEF Creating, Early, Using, Holding
<1>3. CASE ~(proc'[q].stack # <<>> /\ Base(q)'.fn \in {"use", "create"})
  BY <1>3 DEF Creating, Early, Using, Holding
<1>. QED  BY <1>2, <1>3

LEMMA FramesStep ==
    ASSUME NEW p \in Procs, Others(p), NEW N,
           \A i \in 1 .. Len(proc'[p].stack) :
               \/ proc'[p].stack[i] \in N \/ proc'[p].stack[i].fn = "revokeTreeInternal"
               \/ \E j \in 1 .. Len(proc[p].stack) : proc'[p].stack[i] = proc[p].stack[j],
           \A f \in N : f.fn = "revokeInternal" => Revoking(f)'
    PROVE  FramesKept
<1> SUFFICES ASSUME NEW q \in Procs, NEW i \in 1 .. Len(proc'[q].stack),
                    proc'[q].stack[i].fn = "revokeInternal"
             PROVE  \/ Revoking(proc[q].stack[i])'
                    \/ \E j \in 1 .. Len(proc[q].stack) : proc'[q].stack[i] = proc[q].stack[j]
  BY DEF FramesKept
<1>1. CASE q = p
  <2>1. PICK f : f = proc'[q].stack[i]
    OBVIOUS
  <2>2. f \in N \/ \E j \in 1 .. Len(proc[q].stack) : f = proc[q].stack[j]
    BY <1>1, <2>1
  <2>3. CASE f \in N
    BY <2>1, <2>3
  <2>. QED  BY <2>1, <2>2, <2>3
<1>2. CASE q # p
  BY <1>2 DEF Others
<1>. QED  BY <1>1, <1>2

LEMMA StacksOK ==
    ASSUME Shape, NEW p \in Procs, Others(p), ProcType', StackOK(proc'[p].stack),
           idView' \in [Tokens -> Entry \cup {Nil}], lease' \in [Tokens -> LeaseStates],
           tokenLocks' \in [Tokens -> Procs \cup {Nil}], used' \in [Tokens -> Nat]
    PROVE  Shape'
<1>1. \A q \in Procs : StackOK(proc'[q].stack)
  BY DEF Shape, Others
<1>. QED  BY <1>1 DEF Shape, ProcType

\* Locks that are only taken, or given back by their holder, who is no longer
\* in UseToken.
LEMMA LocksKept ==
    ASSUME IInv, OpsKept,
           \A t \in Tokens : tokenLocks'[t] = tokenLocks[t] \/ \A q \in Procs : ~Using(q, t)'
    PROVE  UseLockInv'
<1> SUFFICES ASSUME NEW q \in Procs, NEW t \in Tokens
             PROVE  /\ Using(q, t)' => tokenLocks'[t] = q
                    /\ Holding(q, t)' => Base(q)'.entry.uses >= 0
  BY DEF UseLockInv
<1>1. Using(q, t)' => Using(q, t)
  BY DEF OpsKept
<1>2. Using(q, t) => tokenLocks[t] = q
  BY Parts DEF UseLockInv
<1>3. Holding(q, t)' => Holding(q, t) /\ Base(q)' = Base(q)
  BY DEF OpsKept
<1>4. Holding(q, t) => Base(q).entry.uses >= 0
  BY Parts DEF UseLockInv
<1>. QED  BY <1>1, <1>2, <1>3, <1>4

\* A step of p that takes no use or creation further and leaves the locks.
LEMMA InnerStep ==
    ASSUME IInv, NEW p \in Procs, NEW N, ProcType', Others(p), StackOK(proc'[p].stack),
           Derived(proc'[p].stack, proc[p].stack, N), StoreStep, tokenLocks' = tokenLocks,
           idView' \in [Tokens -> Entry \cup {Nil}], lease' \in [Tokens -> LeaseStates],
           OpsKept => \A f \in N : f.fn = "revokeInternal" => Revoking(f)',
           OpsKept => \A t \in Tokens : t \in deleted' =>
               t \in deleted \/ (Gone(t)' /\ (~Unborn(t)' \/ t \in orphaned'))
    PROVE  IInv'
<1>1. OpsKept
  BY OpsStep
<1>2. FramesKept
  BY <1>1, FramesStep DEF Derived
<1>3. Shape'
  BY StacksOK, Parts DEF Shape, StoreStep
<1>4. UseLockInv'
  BY <1>1, LocksKept
<1>. QED  BY <1>1, <1>2, <1>3, <1>4, QuietStep

LEMMA StoreSame ==
    ASSUME IInv, UNCHANGED <<idView, lease, created, used, orphaned>>
    PROVE  /\ StoreStep /\ idView' \in [Tokens -> Entry \cup {Nil}]
           /\ lease' \in [Tokens -> LeaseStates]
  BY Parts DEF StoreStep, Shape

LEMMA StoreLease ==
    ASSUME IInv, NEW t \in Tokens, NEW x \in LeaseStates \ {"live"},
           lease' = [lease EXCEPT ![t] = x], UNCHANGED <<idView, created, used, orphaned>>
    PROVE  /\ StoreStep /\ idView' \in [Tokens -> Entry \cup {Nil}]
           /\ lease' \in [Tokens -> LeaseStates]
  BY Parts DEF StoreStep, Shape

LEMMA BecomeStep ==
    ASSUME Shape, NEW p \in Procs, proc[p].stack # <<>>, NEW f \in Activation,
           f.fn \notin {"use", "create"}, f.fn \in Inner \/ Top(p).fn \notin Inner, Become(p, f)
    PROVE  /\ ProcType' /\ Others(p) /\ StackOK(proc'[p].stack)
           /\ Derived(proc'[p].stack, proc[p].stack, {f})
           /\ proc'[p].stack[1] = f
<1>1. StackOK(proc[p].stack) /\ proc[p].stack \in Seq(Activation)
  BY StackType
<1>2. f.fn \notin Inner => Len(proc[p].stack) = 1
  BY TopOuter
<1> DEFINE n == <<f>> \o Rest(p)
<1>0. n[1] = f
  BY <1>1, BecomeSeq DEF Rest
<1>3. StackOK(n) /\ Derived(n, proc[p].stack, {f})
  BY <1>1, <1>2, BecomeStack DEF Rest
<1>4. n \in Seq(Activation)
  BY <1>3 DEF StackOK
<1>5. SetStack(p, n)
  BY DEF Become
<1>. QED  BY <1>0, <1>3, <1>4, <1>5, SetStackType

LEMMA CallStep ==
    ASSUME Shape, NEW p \in Procs, proc[p].stack # <<>>, NEW f \in Activation,
           NEW g \in Activation, f.fn \notin {"use", "create"},
           f.fn \in Inner \/ Top(p).fn \notin Inner, g.fn \in Inner, Call(p, f, g)
    PROVE  /\ ProcType' /\ Others(p) /\ StackOK(proc'[p].stack)
           /\ Derived(proc'[p].stack, proc[p].stack, {f, g})
           /\ proc'[p].stack[1] = g
<1>1. StackOK(proc[p].stack) /\ proc[p].stack \in Seq(Activation)
  BY StackType
<1>2. f.fn \notin Inner => Len(proc[p].stack) = 1
  BY TopOuter
<1> DEFINE n == <<g, f>> \o Rest(p)
<1>0. n[1] = g
  BY <1>1, CallSeq DEF Rest
<1>3. StackOK(n) /\ Derived(n, proc[p].stack, {f, g})
  BY <1>1, <1>2, CallStack DEF Rest
<1>4. n \in Seq(Activation)
  BY <1>3 DEF StackOK
<1>5. SetStack(p, n)
  BY DEF Call
<1>. QED  BY <1>0, <1>3, <1>4, <1>5, SetStackType

LEMMA ReturnStep ==
    ASSUME Shape, NEW p \in Procs, proc[p].stack # <<>>, Return(p)
    PROVE  /\ ProcType' /\ Others(p) /\ StackOK(proc'[p].stack)
           /\ Derived(proc'[p].stack, proc[p].stack, {})
           /\ proc'[p].stack # <<>> /\ proc'[p].stack[1].fn = "use" =>
                proc'[p].stack[1].entry = Nil
<1>1. StackOK(proc[p].stack) /\ proc[p].stack \in Seq(Activation)
  BY StackType
<1> DEFINE n == Resumed(Rest(p))
<1>2. /\ StackOK(n) /\ Derived(n, proc[p].stack, {})
      /\ n # <<>> /\ n[1].fn = "use" => n[1].entry = Nil
  BY <1>1, ReturnStack DEF Rest
<1>3. n \in Seq(Activation)
  BY <1>2 DEF StackOK
<1>4. SetStack(p, n)
  BY DEF Return
<1> HIDE DEF n
<1>5. ProcType' /\ Others(p) /\ proc'[p].stack = n
  BY <1>3, <1>4, SetStackType
<1>. QED  BY <1>2, <1>5

-----------------------------------------------------------------------------
(* The actions of a revocation.                                            *)

\* Revocation f goes on at another place, and knows its token is gone.
LEMMA RevokingGone ==
    ASSUME OpsKept, StoreStep, NEW f \in Activation, Revoking(f), f.pc \in Deferred \ {"leases"},
           NEW g \in Activation, g.t = f.t, g.pc # "mark", g.pc # "leases"
    PROVE  Revoking(g)'
<1>1. Revoking(f)'
  BY RevokingKept
<1>. QED  BY <1>1 DEF Revoking

\* A revocation that has not come to its token.
LEMMA RevokingBegins ==
    ASSUME NEW f, f.pc \in {"flag", "lookup"} \/ (f.pc = "mark" /\ f.entry = Nil)
    PROVE  Revoking(f)'
  BY DEF Revoking, Deferred

LEMMA TopRevoking ==
    ASSUME IInv, NEW p \in Procs, proc[p].stack # <<>>, Top(p).fn = "revokeInternal"
    PROVE  Revoking(Top(p))
  BY TopType, Parts DEF RevokeInv

\* The activation on top returns, and nothing else changes that matters.
LEMMA ReturnInner ==
    ASSUME IInv, NEW p \in Procs, proc[p].stack # <<>>, Return(p),
           StoreStep, idView' \in [Tokens -> Entry \cup {Nil}],
           lease' \in [Tokens -> LeaseStates], tokenLocks' = tokenLocks, deleted' = deleted
    PROVE  IInv'
<1>0. PICK N : N = {}
  OBVIOUS
<1>1. /\ ProcType' /\ Others(p) /\ StackOK(proc'[p].stack)
      /\ Derived(proc'[p].stack, proc[p].stack, N)
  BY <1>0, ReturnStep, Parts
<1>2. \A f \in N : f.fn = "revokeInternal" => Revoking(f)'
  BY <1>0
<1>. QED  BY <1>1, <1>2, InnerStep

LEMMA RevokeLoadStep ==
    ASSUME IInv, NEW p \in Procs, RevokeLoad(p)
    PROVE  IInv'
<1>0. Shape /\ proc[p].stack # <<>> /\ Top(p).fn = "Revoke" /\ Top(p).pc = "load"
  BY Parts DEF RevokeLoad, At
<1>1. /\ StoreStep /\ idView' \in [Tokens -> Entry \cup {Nil}]
      /\ lease' \in [Tokens -> LeaseStates] /\ tokenLocks' = tokenLocks /\ deleted' = deleted
  BY StoreSame DEF RevokeLoad, storeVars, histVars
<1>2. CASE Return(p)
  BY <1>0, <1>1, <1>2, ReturnInner
<1>3. CASE ~Return(p)
  <2> DEFINE f == [Top(p) EXCEPT !.pc = "delete"]
             g == Frame("revokeTreeInternal", Top(p).t, "list")
  <2>1. Top(p) \in Activation
    BY <1>0, TopType
  <2>2. f \in Activation /\ f.fn = "Revoke"
    BY <1>0, <2>1 DEF Activation, Places, StorageAccess, Inner
  <2>3. g \in Activation /\ g.fn = "revokeTreeInternal"
    BY <2>1, ActivationType, FrameType DEF Places, StorageAccess, Inner
  <2>4. Call(p, f, g)
    BY <1>3 DEF RevokeLoad
  <2> HIDE DEF f, g
  <2>5. /\ ProcType' /\ Others(p) /\ StackOK(proc'[p].stack)
        /\ Derived(proc'[p].stack, proc[p].stack, {f, g})
    BY <1>0, <2>2, <2>3, <2>4, CallStep DEF Inner
  <2>. QED  BY <1>1, <2>2, <2>3, <2>5, InnerStep
<1>. QED  BY <1>2, <1>3

LEMMA RevokeDeleteStep ==
    ASSUME IInv, NEW p \in Procs, RevokeDelete(p)
    PROVE  IInv'
<1>0. Shape /\ proc[p].stack # <<>> /\ Return(p)
  BY Parts DEF RevokeDelete, At
<1>1. Top(p).t \in Tokens
  BY <1>0, TopType, ActivationType
<1>2. /\ StoreStep /\ idView' \in [Tokens -> Entry \cup {Nil}]
      /\ lease' \in [Tokens -> LeaseStates] /\ tokenLocks' = tokenLocks /\ deleted' = deleted
  <2>1. "none" \in LeaseStates \ {"live"}
    BY DEF LeaseStates
  <2>. QED  BY <1>1, <2>1, StoreLease DEF RevokeDelete, storeVars, histVars
<1>. QED  BY <1>0, <1>2, ReturnInner

LEMMA revokeTreeInternalStep ==
    ASSUME IInv, NEW p \in Procs, revokeTreeInternal(p)
    PROVE  IInv'
<1>0. /\ Shape /\ proc[p].stack # <<>> /\ Top(p).fn = "revokeTreeInternal"
      /\ Top(p).pc = "list"
  BY Parts DEF revokeTreeInternal, At
<1>1. /\ StoreStep /\ idView' \in [Tokens -> Entry \cup {Nil}]
      /\ lease' \in [Tokens -> LeaseStates] /\ tokenLocks' = tokenLocks /\ deleted' = deleted
  BY StoreSame DEF revokeTreeInternal, histVars
<1> DEFINE f == Top(p)
           id == Last(f.dfs)
           kids == {c \in Tokens : <<id, c>> \in parentView}
           new == unseen(f, kids)
           g == [f EXCEPT !.seenIDs = @ \cup {id}]
<1>2. f \in Activation /\ f.dfs \in Seq(Tokens) /\ f.dfs # <<>>
  BY <1>0, TopType, ActivationType
<1>3. id \in Tokens /\ new \in SUBSET Tokens
  BY <1>2, LastType DEF unseen
<1>4. g \in Activation /\ g.fn = "revokeTreeInternal" /\ g.pc = "list" /\ g.dfs = f.dfs
  BY <1>0, <1>2, <1>3 DEF Activation
<1>5. CASE new = {}
  <2> DEFINE h == [g EXCEPT !.pc = "pop"]
  <2>0. PICK k : k = [Frame("revokeInternal", id, "flag") EXCEPT !.skipOrphan = TRUE]
    OBVIOUS
  <2>1. Call(p, h, k)
    BY <1>5, <2>0 DEF revokeTreeInternal
  <2> HIDE DEF g, new
  <2>2. h \in Activation /\ h.fn = "revokeTreeInternal"
    BY <1>4 DEF Activation, Places
  <2>3. k \in Activation /\ k.fn = "revokeInternal" /\ k.pc = "flag"
    <3>1. /\ Frame("revokeInternal", id, "flag") \in Activation
          /\ Frame("revokeInternal", id, "flag").fn = "revokeInternal"
          /\ Frame("revokeInternal", id, "flag").pc = "flag"
      BY <1>3, FrameType DEF Places, Inner
    <3>. QED  BY <2>0, <3>1 DEF Activation
  <2>4. Revoking(k)'
    BY <2>3, RevokingBegins
  <2> HIDE DEF h
  <2>5. /\ ProcType' /\ Others(p) /\ StackOK(proc'[p].stack)
        /\ Derived(proc'[p].stack, proc[p].stack, {h, k})
    BY <1>0, <2>1, <2>2, <2>3, CallStep DEF Inner
  <2>. QED  BY <1>1, <2>2, <2>4, <2>5, InnerStep
<1>6. CASE new # {}
  <2> DEFINE d == f.dfs \o SetToSeq(new)
             h == [g EXCEPT !.dfs = d]
  <2>1. Become(p, h)
    BY <1>4, <1>6 DEF revokeTreeInternal
  <2>2. d \in Seq(Tokens) /\ d # <<>>
    <3>1. SetToSeq(new) \in Seq(Tokens)
      BY <1>3, SetToSeqType
    <3>2. d \in Seq(Tokens) /\ Len(d) = Len(f.dfs) + Len(SetToSeq(new))
      BY <1>2, <3>1, ConcatProperties
    <3>3. Len(f.dfs) \in Nat \ {0} /\ Len(SetToSeq(new)) \in Nat
      BY <1>2, <3>1, EmptySeq, LenProperties
    <3>4. Len(d) # 0
      BY <3>2, <3>3
    <3>. QED  BY <3>2, <3>4, EmptySeq
  <2> HIDE DEF g, d
  <2>3. h \in Activation /\ h.fn = "revokeTreeInternal"
    BY <1>4, <2>2 DEF Activation
  <2> HIDE DEF h
  <2>4. /\ ProcType' /\ Others(p) /\ StackOK(proc'[p].stack)
        /\ Derived(proc'[p].stack, proc[p].stack, {h})
    BY <1>0, <2>1, <2>3, BecomeStep DEF Inner
  <2>. QED  BY <1>1, <2>3, <2>4, InnerStep
<1>. QED  BY <1>5, <1>6

\* The activation on top goes on as f.
LEMMA BecomeInner ==
    ASSUME IInv, NEW p \in Procs, proc[p].stack # <<>>, NEW f \in Activation,
           f.fn \notin {"use", "create"}, f.fn \in Inner \/ Top(p).fn \notin Inner, Become(p, f),
           OpsKept /\ f.fn = "revokeInternal" => Revoking(f)',
           StoreStep, idView' \in [Tokens -> Entry \cup {Nil}],
           lease' \in [Tokens -> LeaseStates], tokenLocks' = tokenLocks, deleted' = deleted
    PROVE  IInv'
<1>0. PICK N : N = {f}
  OBVIOUS
<1>1. /\ ProcType' /\ Others(p) /\ StackOK(proc'[p].stack)
      /\ Derived(proc'[p].stack, proc[p].stack, N)
  BY <1>0, BecomeStep, Parts
<1>2. OpsKept => \A g \in N : g.fn = "revokeInternal" => Revoking(g)'
  BY <1>0
<1>. QED  BY <1>1, <1>2, InnerStep

\* The activation on top, as f, calls g.
LEMMA CallInner ==
    ASSUME IInv, NEW p \in Procs, proc[p].stack # <<>>, NEW f \in Activation,
           NEW g \in Activation, f.fn \notin {"use", "create"},
           f.fn \in Inner \/ Top(p).fn \notin Inner,
           g.fn \in Inner \ {"revokeInternal"}, Call(p, f, g),
           OpsKept /\ f.fn = "revokeInternal" => Revoking(f)',
           StoreStep, idView' \in [Tokens -> Entry \cup {Nil}],
           lease' \in [Tokens -> LeaseStates], tokenLocks' = tokenLocks, deleted' = deleted
    PROVE  IInv'
<1>0. PICK N : N = {f, g}
  OBVIOUS
<1>1. /\ ProcType' /\ Others(p) /\ StackOK(proc'[p].stack)
      /\ Derived(proc'[p].stack, proc[p].stack, N)
  BY <1>0, CallStep, Parts
<1>2. OpsKept => \A h \in N : h.fn = "revokeInternal" => Revoking(h)'
  BY <1>0
<1>. QED  BY <1>1, <1>2, InnerStep

LEMMA lookupResultType ==
    ASSUME Shape, NEW t \in Tokens, NEW tainted \in BOOLEAN
    PROVE  lookupResult(t, tainted) \in Entry \cup {Nil}
  BY DEF Shape, lookupResult

\* Activation f after a lookup.
Renewed(f, pc, e) == [f EXCEPT !.pc = pc, !.entry = e]

LEMMA LookedUp ==
    ASSUME NEW f \in Activation, NEW pc \in Places \ {"child", "pop"}, NEW e \in Entry \cup {Nil},
           pc = "orphan" => f.todo # {}
    PROVE  /\ Renewed(f, pc, e) \in Activation
           /\ Renewed(f, pc, e).fn = f.fn /\ Renewed(f, pc, e).t = f.t
           /\ Renewed(f, pc, e).pc = pc /\ Renewed(f, pc, e).entry = e
<1> DEFINE g == Renewed(f, pc, e)
<1>1. f \in [fn : Inner \cup Outer, t : Tokens, pc : Places, entry : Entry \cup {Nil},
            skipOrphan : BOOLEAN, dfs : Seq(Tokens), seenIDs : SUBSET Tokens,
            todo : SUBSET Tokens] /\ f.dfs # <<>>
  BY DEF Activation
<1>2. /\ g \in [fn : Inner \cup Outer, t : Tokens, pc : Places, entry : Entry \cup {Nil},
            skipOrphan : BOOLEAN, dfs : Seq(Tokens), seenIDs : SUBSET Tokens,
            todo : SUBSET Tokens]
      /\ g.fn = f.fn /\ g.t = f.t /\ g.pc = pc /\ g.entry = e /\ g.dfs = f.dfs
      /\ g.todo = f.todo
  BY <1>1 DEF Renewed
<1> HIDE DEF g
<1>3. g \in Activation
  BY <1>1, <1>2 DEF Activation
<1>. QED  BY <1>2, <1>3 DEF g

\* A lookup by anybody but a use or a creation.
LEMMA LookupInner ==
    ASSUME IInv, NEW p \in Procs, proc[p].stack # <<>>, Top(p).fn \notin {"use", "create"},
           NEW t \in Tokens, NEW tainted \in BOOLEAN, NEW pc \in Places \ {"child", "pop"},
           pc = "orphan" => Top(p).todo # {},
           lookupInternal(p, t, tainted, pc), UNCHANGED <<idView, tokenLocks, histVars>>,
           OpsKept /\ StoreStep /\ Top(p).fn = "revokeInternal" =>
               \A f \in Activation :
                   /\ f.t = Top(p).t /\ f.pc = pc
                   /\ f.entry = Nil \/ f.entry = lookupResult(t, tainted)
                   => Revoking(f)'
    PROVE  IInv'
<1>0. Shape /\ Top(p) \in Activation
  BY Parts, TopType
<1>1. UNCHANGED <<idView, created, used, orphaned>> /\ tokenLocks' = tokenLocks /\ deleted' = deleted
  BY DEF histVars
<1>2. CASE Leaseless(t, tainted)
  <2>1. PICK f : f = Renewed(Top(p), pc, Nil)
    OBVIOUS
  <2>2. PICK g : g = Frame("Revoke", t, "load")
    OBVIOUS
  <2>3. lease' = [lease EXCEPT ![t] = "bare"] /\ Call(p, f, g)
    BY <1>2, <2>1, <2>2 DEF lookupInternal, Renewed
  <2>4. /\ f \in Activation /\ f.fn = Top(p).fn /\ f.t = Top(p).t /\ f.pc = pc
        /\ f.entry = Nil
    BY <1>0, <2>1, LookedUp
  <2>5. g \in Activation /\ g.fn \in Inner \ {"revokeInternal"}
    BY <2>2, FrameType DEF Inner, Places, StorageAccess
  <2>6. /\ StoreStep /\ idView' \in [Tokens -> Entry \cup {Nil}]
        /\ lease' \in [Tokens -> LeaseStates]
    <3>1. "bare" \in LeaseStates \ {"live"}
      BY DEF LeaseStates
    <3>. QED  BY <1>1, <2>3, <3>1, StoreLease
  <2>7. OpsKept /\ f.fn = "revokeInternal" => Revoking(f)'
    BY <2>4, <2>6
  <2>8. f.fn \in Inner \/ Top(p).fn \notin Inner
    BY <2>4
  <2>. QED  BY <1>1, <2>3, <2>4, <2>5, <2>6, <2>7, <2>8, CallInner
<1>3. CASE ~Leaseless(t, tainted)
  <2>0. lookupResult(t, tainted) \in Entry \cup {Nil}
    BY <1>0, lookupResultType
  <2>1. PICK f : f = Renewed(Top(p), pc, lookupResult(t, tainted))
    OBVIOUS
  <2>3. UNCHANGED lease /\ Become(p, f)
    BY <1>3, <2>1 DEF lookupInternal, Renewed
  <2>4. /\ f \in Activation /\ f.fn = Top(p).fn /\ f.t = Top(p).t /\ f.pc = pc
        /\ f.entry = lookupResult(t, tainted)
    BY <1>0, <2>0, <2>1, LookedUp
  <2>6. /\ StoreStep /\ idView' \in [Tokens -> Entry \cup {Nil}]
        /\ lease' \in [Tokens -> LeaseStates]
    BY <1>1, <2>3, StoreSame
  <2>7. OpsKept /\ f.fn = "revokeInternal" => Revoking(f)'
    BY <2>4, <2>6
  <2>8. f.fn \in Inner \/ Top(p).fn \notin Inner
    BY <2>4
  <2>. QED  BY <1>1, <2>3, <2>4, <2>6, <2>7, <2>8, BecomeInner
<1>. QED  BY <1>2, <1>3

\* Activation f at another place.
Moved(f, pc) == [f EXCEPT !.pc = pc]

LEMMA MovedType ==
    ASSUME NEW f \in Activation, NEW pc \in Places \ {"child", "orphan", "pop"}
    PROVE  /\ Moved(f, pc) \in Activation
           /\ Moved(f, pc).fn = f.fn /\ Moved(f, pc).t = f.t
           /\ Moved(f, pc).pc = pc /\ Moved(f, pc).entry = f.entry
<1> DEFINE g == Moved(f, pc)
<1>1. f \in [fn : Inner \cup Outer, t : Tokens, pc : Places, entry : Entry \cup {Nil},
            skipOrphan : BOOLEAN, dfs : Seq(Tokens), seenIDs : SUBSET Tokens,
            todo : SUBSET Tokens] /\ f.dfs # <<>>
  BY DEF Activation
<1>2. /\ g \in [fn : Inner \cup Outer, t : Tokens, pc : Places, entry : Entry \cup {Nil},
            skipOrphan : BOOLEAN, dfs : Seq(Tokens), seenIDs : SUBSET Tokens,
            todo : SUBSET Tokens]
      /\ g.fn = f.fn /\ g.t = f.t /\ g.pc = pc /\ g.entry = f.entry /\ g.dfs = f.dfs
  BY <1>1 DEF Moved
<1> HIDE DEF g
<1>3. g \in Activation
  BY <1>1, <1>2 DEF Activation
<1>. QED  BY <1>2, <1>3 DEF g

\* The activation on top goes on at pc.
LEMMA GotoInner ==
    ASSUME IInv, NEW p \in Procs, proc[p].stack # <<>>, Top(p).fn \notin {"use", "create"},
           NEW pc \in Places \ {"child", "orphan", "pop"}, Goto(p, pc),
           OpsKept /\ Top(p).fn = "revokeInternal" =>
               \A f \in Activation :
                   f.t = Top(p).t /\ f.pc = pc /\ f.entry = Top(p).entry => Revoking(f)',
           StoreStep, idView' \in [Tokens -> Entry \cup {Nil}],
           lease' \in [Tokens -> LeaseStates], tokenLocks' = tokenLocks, deleted' = deleted
    PROVE  IInv'
<1>0. Shape /\ Top(p) \in Activation
  BY Parts, TopType
<1>1. PICK f : f = Moved(Top(p), pc)
  OBVIOUS
<1>2. Become(p, f)
  BY <1>1 DEF Goto, Moved
<1>3. /\ f \in Activation /\ f.fn = Top(p).fn /\ f.t = Top(p).t /\ f.pc = pc
      /\ f.entry = Top(p).entry
  BY <1>0, <1>1, MovedType
<1>4. OpsKept /\ f.fn = "revokeInternal" => Revoking(f)'
  BY <1>3
<1>5. f.fn \in Inner \/ Top(p).fn \notin Inner
  BY <1>3
<1>. QED  BY <1>2, <1>3, <1>4, <1>5, BecomeInner

LEMMA LoadOrStoreStep ==
    ASSUME IInv, NEW p \in Procs, LoadOrStore(p)
    PROVE  IInv'
<1>0. proc[p].stack # <<>> /\ Top(p).fn = "revokeInternal"
  BY DEF LoadOrStore, At
<1>1. /\ StoreStep /\ idView' \in [Tokens -> Entry \cup {Nil}]
      /\ lease' \in [Tokens -> LeaseStates] /\ tokenLocks' = tokenLocks /\ deleted' = deleted
  BY StoreSame DEF LoadOrStore, histVars
<1>2. CASE Return(p)
  BY <1>0, <1>1, <1>2, ReturnInner
<1>3. CASE Goto(p, "lookup")
  <2>1. "lookup" \in Places \ {"child", "orphan", "pop"}
    BY DEF Places, StorageAccess
  <2>2. \A f \in Activation : f.pc = "lookup" => Revoking(f)'
    BY RevokingBegins
  <2>3. Top(p).fn \notin {"use", "create"}
    BY <1>0
  <2>. QED  BY <1>0, <1>1, <1>3, <2>1, <2>2, <2>3, GotoInner
<1>. QED  BY <1>2, <1>3 DEF LoadOrStore

LEMMA NotPast ==
    ASSUME IInv, NEW t \in Tokens, ~Past(t)
    PROVE  /\ t \notin Existing /\ lease[t] # "live"
           /\ t \notin Root => \A p \in Procs : ~Holding(p, t)
  BY Parts DEF CreateInv, LeaseInv, Past, Fresh

LEMMA internalLookupStep ==
    ASSUME IInv, NEW p \in Procs, internalLookup(p)
    PROVE  IInv'
<1>0. proc[p].stack # <<>> /\ Top(p).fn = "revokeInternal" /\ Top(p).fn \notin {"use", "create"}
  BY DEF internalLookup, At
<1>1. Top(p).t \in Tokens
  BY <1>0, Parts, TopType, ActivationType
<1>2. PICK t \in Tokens : t = Top(p).t
  BY <1>1
<1>3. lookupInternal(p, t, TRUE, "mark") /\ UNCHANGED <<idView, tokenLocks, histVars>>
  BY <1>2 DEF internalLookup, storeVars
<1>4. "mark" \in Places \ {"child", "pop"} /\ "mark" # "orphan"
  BY DEF Places, StorageAccess
<1>5. ASSUME OpsKept, StoreStep, NEW f \in Activation, f.t = t, f.pc = "mark",
             f.entry = Nil \/ f.entry = lookupResult(t, TRUE)
      PROVE  Revoking(f)'
  <2>1. CASE f.entry = Nil
    BY <1>5, <2>1, RevokingBegins
  <2>2. CASE f.entry # Nil
    <3>1. idView[t] # Nil /\ f.entry = idView[t]
      BY <1>5, <2>2 DEF lookupResult
    <3>2. ~Unborn(t) \/ t \in orphaned
      BY <3>1, Parts DEF UnbornInv
    <3>3. ASSUME f.entry.uses = tokenRevocationPending PROVE Marked(t)
      <4>1. CASE ~Past(t) /\ t \notin Root
        <5>1. t \notin Existing /\ \A q \in Procs : ~Holding(q, t)
          BY <4>1, NotPast
        <5>. QED  BY <3>1, <3>3, <5>1 DEF Marked, Closed
      <4>. QED  BY <4>1 DEF Marked, Excepted
    <3>4. Revoking(f)
      BY <1>5, <3>2, <3>3 DEF Revoking, Deferred
    <3>. QED  BY <1>5, <3>4, RevokingKept
  <2>. QED  BY <2>1, <2>2
<1>6. OpsKept /\ StoreStep /\ Top(p).fn = "revokeInternal" =>
        \A f \in Activation :
            /\ f.t = Top(p).t /\ f.pc = "mark"
            /\ f.entry = Nil \/ f.entry = lookupResult(t, TRUE)
            => Revoking(f)'
  BY <1>2, <1>5
<1>. QED  BY <1>0, <1>3, <1>4, <1>6, LookupInner

LEMMA EntryUses ==
    ASSUME NEW e \in Entry, NEW n \in Nat \cup {tokenRevocationPending}
    PROVE  [e EXCEPT !.uses = n] \in Entry /\ [e EXCEPT !.uses = n].uses = n
  BY DEF Entry

\* An entry with its revocation pending is stored for t.
LEMMA StoreRevoked ==
    ASSUME IInv, NEW t \in Tokens, NEW e \in Entry, ~Unborn(t) \/ t \in orphaned,
           idView' = [idView EXCEPT ![t] = [e EXCEPT !.uses = tokenRevocationPending]],
           UNCHANGED <<lease, created, used, orphaned>>
    PROVE  /\ StoreStep /\ idView' \in [Tokens -> Entry \cup {Nil}]
           /\ lease' \in [Tokens -> LeaseStates] /\ idView'[t].uses = tokenRevocationPending
<1>0. idView \in [Tokens -> Entry \cup {Nil}] /\ lease \in [Tokens -> LeaseStates]
  BY Parts DEF Shape
<1>1. PICK d \in Entry : /\ d = [e EXCEPT !.uses = tokenRevocationPending]
                         /\ d.uses = tokenRevocationPending
  BY EntryUses
<1>2. idView' = [idView EXCEPT ![t] = d]
  BY <1>1
<1>. QED  BY <1>0, <1>1, <1>2 DEF StoreStep

LEMMA markRevokedStep ==
    ASSUME IInv, NEW p \in Procs, markRevoked(p)
    PROVE  IInv'
<1>0. /\ proc[p].stack # <<>> /\ Top(p).fn = "revokeInternal" /\ Top(p).pc = "mark"
      /\ Top(p).fn \notin {"use", "create"}
  BY DEF markRevoked, At
<1>1. Top(p) \in Activation /\ Top(p).t \in Tokens /\ Top(p).entry \in Entry \cup {Nil}
  BY <1>0, Parts, TopType, ActivationType
<1>2. PICK t \in Tokens : t = Top(p).t
  BY <1>1
<1>3. UNCHANGED <<lease, tokenLocks, created, used, deleted, orphaned>>
  BY DEF markRevoked, histVars
<1>4. CASE Top(p).entry = Nil
  <2>1. Return(p) /\ UNCHANGED idView
    BY <1>4 DEF markRevoked
  <2>2. /\ StoreStep /\ idView' \in [Tokens -> Entry \cup {Nil}]
        /\ lease' \in [Tokens -> LeaseStates] /\ tokenLocks' = tokenLocks /\ deleted' = deleted
    BY <1>3, <2>1, StoreSame
  <2>. QED  BY <1>0, <2>1, <2>2, ReturnInner
<1>5. CASE Top(p).entry # Nil
  <2>0. PICK e \in Entry : e = Top(p).entry
    BY <1>1, <1>5
  <2>1. Revoking(Top(p))
    BY <1>0, TopRevoking
  <2>2. ~Unborn(t) \/ t \in orphaned
    BY <1>0, <1>2, <1>5, <2>1 DEF Revoking
  <2>3. e.uses = tokenRevocationPending => Marked(t)
    BY <1>0, <1>2, <1>5, <2>0, <2>1 DEF Revoking
  <2>4. /\ StoreStep /\ idView' \in [Tokens -> Entry \cup {Nil}] /\ lease' \in [Tokens -> LeaseStates]
        /\ e.uses # tokenRevocationPending => idView'[t].uses = tokenRevocationPending
    <3>1. CASE e.uses = tokenRevocationPending
      <4>1. UNCHANGED idView
        BY <1>5, <2>0, <3>1 DEF markRevoked
      <4>. QED  BY <1>3, <3>1, <4>1, StoreSame
    <3>2. CASE e.uses # tokenRevocationPending
      <4>1. idView' = [idView EXCEPT ![t] = [e EXCEPT !.uses = tokenRevocationPending]]
        BY <1>2, <1>5, <2>0, <3>2 DEF markRevoked
      <4>. QED  BY <1>3, <2>2, <4>1, StoreRevoked
    <3>. QED  BY <3>1, <3>2
  <2>5. ASSUME OpsKept PROVE Marked(t)'
    <3>1. CASE e.uses = tokenRevocationPending
      BY <2>3, <2>4, <2>5, <3>1, GoneKept
    <3>2. CASE Past(t)
      BY <1>3, <2>5, <3>2, PastKept DEF Marked
    <3>3. CASE t \in Root
      BY <3>3 DEF Marked, Excepted
    <3>4. CASE e.uses # tokenRevocationPending /\ ~Past(t) /\ t \notin Root
      <4>1. t \notin Existing /\ \A q \in Procs : ~Holding(q, t)
        BY <3>4, NotPast
      <4>2. \A q \in Procs : ~Holding(q, t)'
        BY <2>5, <4>1 DEF OpsKept
      <4>. QED  BY <2>4, <3>4, <4>1, <4>2 DEF Marked, Closed
    <3>. QED  BY <3>1, <3>2, <3>3, <3>4
  <2>6. ASSUME OpsKept, NEW f \in Activation, f.t = t, f.pc = "leases" PROVE Revoking(f)'
    <3>1. Marked(t)' /\ (Unborn(t)' => Unborn(t))
      BY <1>3, <2>5, <2>6, PastKept
    <3>. QED  BY <1>3, <2>2, <2>6, <3>1 DEF Revoking, Deferred
  <2>7. Goto(p, "leases")
    BY <1>5 DEF markRevoked
  <2>8. "leases" \in Places \ {"child", "orphan", "pop"}
    BY DEF Places, StorageAccess
  <2>9. OpsKept /\ Top(p).fn = "revokeInternal" =>
          \A f \in Activation :
              f.t = Top(p).t /\ f.pc = "leases" /\ f.entry = Top(p).entry => Revoking(f)'
    BY <1>2, <2>6
  <2>. QED  BY <1>0, <1>3, <2>4, <2>7, <2>8, <2>9, GotoInner
<1>. QED  BY <1>4, <1>5

LEMMA RevokeByTokenStep ==
    ASSUME IInv, NEW p \in Procs, RevokeByToken(p)
    PROVE  IInv'
<1>0. /\ proc[p].stack # <<>> /\ Top(p).fn = "revokeInternal" /\ Top(p).pc = "leases"
      /\ Top(p).fn \notin {"use", "create"} /\ Goto(p, "index")
  BY DEF RevokeByToken, At
<1>1. Top(p) \in Activation /\ Top(p).t \in Tokens
  BY <1>0, Parts, TopType, ActivationType
<1>2. PICK t \in Tokens : t = Top(p).t
  BY <1>1
<1>3. /\ UNCHANGED <<idView, tokenLocks, created, used, deleted, orphaned>>
      /\ lease' = [lease EXCEPT ![t] = "none"]
  BY <1>2 DEF RevokeByToken, histVars, storeVars
<1>4. /\ StoreStep /\ idView' \in [Tokens -> Entry \cup {Nil}] /\ lease' \in [Tokens -> LeaseStates]
  <2>1. "none" \in LeaseStates \ {"live"}
    BY DEF LeaseStates
  <2>. QED  BY <1>3, <2>1, StoreLease
<1>5. Marked(t) /\ (~Unborn(t) \/ t \in orphaned)
  <2>1. Revoking(Top(p))
    BY <1>0, TopRevoking
  <2>. QED  BY <1>0, <1>2, <2>1 DEF Revoking, Deferred
<1>6. ASSUME OpsKept, NEW f \in Activation, f.t = t, f.pc = "index" PROVE Revoking(f)'
  <2>1. Marked(t)' /\ (Unborn(t)' => Unborn(t))
    BY <1>3, <1>4, <1>5, <1>6, GoneKept, PastKept
  <2>2. lease'[t] # "live"
    <3>1. lease \in [Tokens -> LeaseStates]
      BY Parts DEF Shape
    <3>. QED  BY <1>3, <3>1
  <2>3. Gone(t)'
    BY <2>1, <2>2 DEF Gone, Marked
  <2>. QED  BY <1>3, <1>5, <1>6, <2>1, <2>3 DEF Revoking, Deferred
<1>7. "index" \in Places \ {"child", "orphan", "pop"}
  BY DEF Places, StorageAccess
<1>8. OpsKept /\ Top(p).fn = "revokeInternal" =>
        \A f \in Activation :
            f.t = Top(p).t /\ f.pc = "index" /\ f.entry = Top(p).entry => Revoking(f)'
  BY <1>2, <1>6
<1>. QED  BY <1>0, <1>3, <1>4, <1>7, <1>8, GotoInner

\* A revocation that is behind RevokeByToken goes on.
LEMMA TopGone ==
    ASSUME IInv, NEW p \in Procs, proc[p].stack # <<>>, Top(p).fn = "revokeInternal",
           Top(p).pc \in Deferred \ {"leases"}, StoreStep
    PROVE  OpsKept => \A f \in Activation :
               f.t = Top(p).t /\ f.pc \notin {"mark", "leases"} => Revoking(f)'
<1>1. PICK g \in Activation : g = Top(p)
  BY TopType, Parts
<1>2. Revoking(g) /\ g.pc \in Deferred \ {"leases"}
  BY <1>1, TopRevoking
<1>3. ASSUME OpsKept, NEW f \in Activation, f.t = Top(p).t, f.pc \notin {"mark", "leases"}
      PROVE  Revoking(f)'
  BY <1>1, <1>2, <1>3, RevokingGone
<1>. QED  BY <1>3

LEMMA clearParentIndexStep ==
    ASSUME IInv, NEW p \in Procs, clearParentIndex(p)
    PROVE  IInv'
<1>0. /\ proc[p].stack # <<>> /\ Top(p).fn = "revokeInternal"
      /\ Top(p).pc \in Deferred \ {"leases"} /\ Top(p).fn \notin {"use", "create"}
  BY DEF clearParentIndex, At, Deferred
<1>1. /\ StoreStep /\ idView' \in [Tokens -> Entry \cup {Nil}]
      /\ lease' \in [Tokens -> LeaseStates] /\ tokenLocks' = tokenLocks /\ deleted' = deleted
  BY StoreSame DEF clearParentIndex, histVars
<1>2. PICK pc \in {"delete", "children"} : Goto(p, pc)
  BY DEF clearParentIndex
<1>3. pc \in Places \ {"child", "orphan", "pop"} /\ pc \notin {"mark", "leases"}
  BY DEF Places, StorageAccess
<1>4. OpsKept /\ Top(p).fn = "revokeInternal" =>
        \A f \in Activation :
            f.t = Top(p).t /\ f.pc = pc /\ f.entry = Top(p).entry => Revoking(f)'
  BY <1>0, <1>1, <1>3, TopGone
<1>. QED  BY <1>0, <1>1, <1>2, <1>3, <1>4, GotoInner

LEMMA listChildrenStep ==
    ASSUME IInv, NEW p \in Procs, listChildren(p)
    PROVE  IInv'
<1>0. /\ proc[p].stack # <<>> /\ Top(p).fn = "revokeInternal"
      /\ Top(p).pc \in Deferred \ {"leases"} /\ Top(p).fn \notin {"use", "create"}
  BY DEF listChildren, At, Deferred
<1>1. /\ StoreStep /\ idView' \in [Tokens -> Entry \cup {Nil}]
      /\ lease' \in [Tokens -> LeaseStates] /\ tokenLocks' = tokenLocks /\ deleted' = deleted
  BY StoreSame DEF listChildren, histVars, storeVars
<1>2. PICK h \in Activation : h = Top(p)
  BY <1>0, Parts, TopType
<1>3. PICK f : \E kids \in SUBSET Tokens, pc \in {"delete", "child"} :
        /\ pc = "child" => kids # {}
        /\ f = [h EXCEPT !.todo = kids, !.pc = pc] /\ Become(p, f)
  BY <1>2 DEF listChildren
<1>4. f \in Activation /\ f.fn = h.fn /\ f.t = h.t /\ f.pc \in {"delete", "child"}
  <2>1. PICK kids \in SUBSET Tokens, pc \in {"delete", "child"} :
          (pc = "child" => kids # {}) /\ f = [h EXCEPT !.todo = kids, !.pc = pc]
    BY <1>3
  <2>2. pc \in Places /\ pc \notin {"pop", "orphan"}
    BY DEF Places, StorageAccess
  <2>. QED  BY <2>1, <2>2 DEF Activation
<1>5. OpsKept /\ f.fn = "revokeInternal" => Revoking(f)'
  <2>1. f.pc \notin {"mark", "leases"}
    BY <1>4
  <2>. QED  BY <1>0, <1>1, <1>2, <1>4, <2>1, TopGone
<1>6. f.fn \notin {"use", "create"} /\ f.fn \in Inner
  BY <1>0, <1>2, <1>4 DEF Inner
<1>. QED  BY <1>0, <1>1, <1>3, <1>4, <1>5, <1>6, BecomeInner

LEMMA ChildType ==
    ASSUME IInv, NEW p \in Procs, proc[p].stack # <<>>, Top(p).pc \in {"child", "orphan"}
    PROVE  Child(p) \in Tokens /\ Child(p) \in Top(p).todo /\ Top(p).todo # {}
<1>1. Top(p).todo # {} /\ Top(p).todo \subseteq Tokens
  BY Parts, TopType, ActivationType
<1>. QED  BY <1>1 DEF Child

LEMMA childLookupStep ==
    ASSUME IInv, NEW p \in Procs, childLookup(p)
    PROVE  IInv'
<1>0. /\ proc[p].stack # <<>> /\ Top(p).fn = "revokeInternal" /\ Top(p).pc = "child"
      /\ Top(p).pc \in Deferred \ {"leases"} /\ Top(p).fn \notin {"use", "create"}
  BY DEF childLookup, At, Deferred
<1>1. PICK t \in Tokens : t = Child(p)
  BY <1>0, ChildType
<1>2. lookupInternal(p, t, TRUE, "orphan") /\ UNCHANGED <<idView, tokenLocks, histVars>>
  BY <1>1 DEF childLookup, storeVars
<1>3. "orphan" \in Places \ {"child", "pop"} /\ Top(p).todo # {}
  BY <1>0, ChildType DEF Places, StorageAccess
<1>4. OpsKept /\ StoreStep /\ Top(p).fn = "revokeInternal" =>
        \A f \in Activation :
            /\ f.t = Top(p).t /\ f.pc = "orphan"
            /\ f.entry = Nil \/ f.entry = lookupResult(t, TRUE)
            => Revoking(f)'
  <2>1. SUFFICES ASSUME OpsKept, StoreStep, NEW f \in Activation, f.t = Top(p).t, f.pc = "orphan"
                 PROVE  Revoking(f)'
    OBVIOUS
  <2>2. f.pc \notin {"mark", "leases"}
    BY <2>1
  <2>. QED  BY <1>0, <2>1, <2>2, TopGone
<1>. QED  BY <1>0, <1>2, <1>3, <1>4, LookupInner

LEMMA orphanChildStep ==
    ASSUME IInv, NEW p \in Procs, orphanChild(p)
    PROVE  IInv'
<1>0. /\ proc[p].stack # <<>> /\ Top(p).fn = "revokeInternal" /\ Top(p).pc = "orphan"
      /\ Top(p).pc \in Deferred \ {"leases"} /\ Top(p).fn \notin {"use", "create"}
  BY DEF orphanChild, At, Deferred
<1>1. PICK c \in Tokens : c = Child(p) /\ c \in Top(p).todo
  BY <1>0, ChildType
<1>2. PICK h \in Activation : h = Top(p)
  BY <1>0, Parts, TopType
<1>3. UNCHANGED <<lease, tokenLocks, created, used, deleted>>
  BY DEF orphanChild
<1>4. /\ StoreStep /\ idView' \in [Tokens -> Entry \cup {Nil}]
      /\ lease' \in [Tokens -> LeaseStates] /\ tokenLocks' = tokenLocks /\ deleted' = deleted
  <2>1. CASE h.entry = Nil
    <3>1. UNCHANGED <<idView, orphaned>>
      BY <1>2, <2>1 DEF orphanChild
    <3>. QED  BY <1>3, <3>1, StoreSame
  <2>2. CASE h.entry # Nil
    <3>1. h.entry \in Entry
      BY <2>2, ActivationType
    <3>2. PICK e \in Entry : e = [h.entry EXCEPT !.parent = Nil]
      BY <3>1 DEF Entry
    <3>3. idView' = [idView EXCEPT ![c] = e] /\ orphaned' = orphaned \cup {c}
      BY <1>1, <1>2, <2>2, <3>2 DEF orphanChild
    <3>4. idView \in [Tokens -> Entry \cup {Nil}] /\ lease \in [Tokens -> LeaseStates]
      BY Parts DEF Shape
    <3>. QED  BY <1>3, <3>3, <3>4 DEF StoreStep
  <2>. QED  BY <2>1, <2>2
<1>5. PICK f : \E pc \in {"delete", "child"} :
        /\ pc = "child" => h.todo \ {c} # {}
        /\ f = [h EXCEPT !.todo = h.todo \ {c}, !.entry = Nil, !.pc = pc] /\ Become(p, f)
  <2>1. Become(p, [h EXCEPT !.todo = h.todo \ {c}, !.entry = Nil,
                            !.pc = IF h.todo = {c} THEN "delete" ELSE "child"])
    BY <1>1, <1>2 DEF orphanChild
  <2>2. h.todo # {c} => h.todo \ {c} # {}
    BY <1>1, <1>2
  <2>. QED  BY <2>1, <2>2
<1>6. f \in Activation /\ f.fn = h.fn /\ f.t = h.t /\ f.pc \in {"delete", "child"}
  <2>1. PICK pc \in {"delete", "child"} :
          /\ pc = "child" => h.todo \ {c} # {}
          /\ f = [h EXCEPT !.todo = h.todo \ {c}, !.entry = Nil, !.pc = pc]
    BY <1>5
  <2>2. pc \in Places /\ pc \notin {"pop", "orphan"}
    BY DEF Places, StorageAccess
  <2>. QED  BY <2>1, <2>2 DEF Activation
<1>7. OpsKept /\ f.fn = "revokeInternal" => Revoking(f)'
  <2>1. f.pc \notin {"mark", "leases"}
    BY <1>6
  <2>. QED  BY <1>0, <1>2, <1>4, <1>6, <2>1, TopGone
<1>8. f.fn \notin {"use", "create"} /\ f.fn \in Inner
  BY <1>0, <1>2, <1>6 DEF Inner
<1>. QED  BY <1>0, <1>4, <1>5, <1>6, <1>7, <1>8, BecomeInner

LEMMA deleteEntryStep ==
    ASSUME IInv, NEW p \in Procs, deleteEntry(p)
    PROVE  IInv'
<1>0. /\ proc[p].stack # <<>> /\ Top(p).fn = "revokeInternal" /\ Top(p).pc = "delete"
      /\ Return(p) /\ Shape
  BY Parts DEF deleteEntry, At
<1>1. PICK t \in Tokens : t = Top(p).t
  BY <1>0, Parts, TopType, ActivationType
<1>2. /\ UNCHANGED <<lease, tokenLocks, created, used, orphaned>>
      /\ idView' = [idView EXCEPT ![t] = Nil] /\ deleted' = deleted \cup {t}
  BY <1>1 DEF deleteEntry
<1>3. /\ StoreStep /\ idView' \in [Tokens -> Entry \cup {Nil}]
      /\ lease' \in [Tokens -> LeaseStates] /\ tokenLocks' = tokenLocks
  BY <1>0, <1>2 DEF StoreStep, Shape
<1>4. Gone(t) /\ (~Unborn(t) \/ t \in orphaned)
  <2>1. Revoking(Top(p))
    BY <1>0, TopRevoking
  <2>. QED  BY <1>0, <1>1, <2>1 DEF Revoking, Deferred
<1>5. OpsKept => \A u \in Tokens : u \in deleted' =>
        u \in deleted \/ (Gone(u)' /\ (~Unborn(u)' \/ u \in orphaned'))
  <2>1. OpsKept => Gone(t)' /\ (Unborn(t)' => Unborn(t))
    BY <1>2, <1>3, <1>4, GoneKept, PastKept
  <2>. QED  BY <1>2, <1>4, <2>1
<1>6. PICK N : N = {}
  OBVIOUS
<1>7. /\ ProcType' /\ Others(p) /\ StackOK(proc'[p].stack)
      /\ Derived(proc'[p].stack, proc[p].stack, N)
  BY <1>0, <1>6, ReturnStep
<1>8. \A f \in N : f.fn = "revokeInternal" => Revoking(f)'
  BY <1>6
<1>. QED  BY <1>3, <1>5, <1>7, <1>8, InnerStep

-----------------------------------------------------------------------------
(* Errors, restarts and the handlers that revoke.                          *)

LEMMA ReturnErrType ==
    ASSUME IInv, NEW p \in Procs, proc[p].stack # <<>>, ReturnErr(p)
    PROVE  /\ ProcType' /\ Others(p) /\ StackOK(proc'[p].stack)
           /\ \/ proc'[p].stack = <<>>
              \/ \E f \in Activation : /\ f.fn = "revokeInternal" /\ f.pc = "flag"
                                       /\ proc'[p].stack = <<f>>
<1>0. proc \in [Procs -> [stack : Seq(Activation), result : {"none", "running", "ok", "failed"}]]
  BY Parts DEF Shape
<1>1. PICK f : f = Frame("revokeInternal", Top(p).t, "flag")
  OBVIOUS
<1>2. f \in Activation /\ f.fn = "revokeInternal" /\ f.pc = "flag"
  <2>1. Top(p).t \in Tokens
    BY Parts, TopType, ActivationType
  <2>. QED  BY <1>1, <2>1, FrameType DEF Places, Inner
<1>3. CASE At(p, "create", "register")
  <2>1. proc' = [proc EXCEPT ![p] = [proc[p] EXCEPT !.stack = <<f>>]]
    BY <1>1, <1>3 DEF ReturnErr
  <2>2. <<f>> \in Seq(Activation) /\ Len(<<f>>) = 1 /\ <<f>>[1] = f
    BY <1>2
  <2>3. StackOK(<<f>>)
    BY <1>2, <2>2 DEF StackOK, Inner
  <2>4. ProcType' /\ Others(p) /\ proc'[p].stack = <<f>>
    BY <1>0, <2>1, <2>2 DEF ProcType, Others
  <2>. QED  BY <1>2, <2>3, <2>4
<1>4. CASE ~At(p, "create", "register")
  <2>1. proc' = [proc EXCEPT ![p] = [stack |-> <<>>, result |-> "failed"]]
    BY <1>4 DEF ReturnErr, Quiet
  <2>2. StackOK(<<>>)
    BY EmptySeq DEF StackOK
  <2>3. ProcType' /\ Others(p) /\ proc'[p].stack = <<>>
    BY <1>0, <2>1, EmptySeq DEF ProcType, Others
  <2>. QED  BY <2>2, <2>3
<1>. QED  BY <1>3, <1>4

LEMMA ReturnErrStep ==
    ASSUME IInv, NEW p \in Procs, proc[p].stack # <<>>, ReturnErr(p),
           UNCHANGED <<idView, lease, created, used, deleted, orphaned>>
    PROVE  IInv'
<1>1. /\ ProcType' /\ Others(p) /\ StackOK(proc'[p].stack)
      /\ \/ proc'[p].stack = <<>>
         \/ \E f \in Activation : /\ f.fn = "revokeInternal" /\ f.pc = "flag"
                                  /\ proc'[p].stack = <<f>>
  BY ReturnErrType
<1>2. /\ \A i \in 1 .. Len(proc'[p].stack) : /\ proc'[p].stack[i].fn = "revokeInternal"
                                             /\ proc'[p].stack[i].pc = "flag"
      /\ proc'[p].stack # <<>> => Base(p)'.fn = "revokeInternal"
  <2>1. CASE proc'[p].stack = <<>>
    BY <2>1, EmptySeq
  <2>2. CASE proc'[p].stack # <<>>
    <3>1. PICK f \in Activation : /\ f.fn = "revokeInternal" /\ f.pc = "flag"
                                  /\ proc'[p].stack = <<f>>
      BY <1>1, <2>2
    <3>2. Len(<<f>>) = 1 /\ <<f>>[1] = f
      OBVIOUS
    <3>. QED  BY <3>1, <3>2 DEF Base
  <2>. QED  BY <2>1, <2>2
<1>3. PICK N : N = {f \in Activation : f.pc = "flag"}
  OBVIOUS
<1>4. proc'[p].stack \in Seq(Activation)
  BY <1>1 DEF StackOK
<1>5. Derived(proc'[p].stack, proc[p].stack, N)
  <2>1. \A i \in 1 .. Len(proc'[p].stack) : proc'[p].stack[i] \in N
    BY <1>2, <1>3, <1>4, ElementOfSeq
  <2>. QED  BY <1>2, <2>1 DEF Derived, Base
<1>6. OpsKept
  BY <1>1, <1>5, OpsStep
<1>7. FramesKept
  <2>1. \A f \in N : Revoking(f)'
    BY <1>3, RevokingBegins
  <2>. QED  BY <1>1, <1>5, <2>1, FramesStep DEF Derived
<1>8. StoreStep /\ idView' \in [Tokens -> Entry \cup {Nil}] /\ lease' \in [Tokens -> LeaseStates]
  BY StoreSame
<1>9. UseLockInv' /\ tokenLocks' \in [Tokens -> Procs \cup {Nil}]
  <2>1. tokenLocks \in [Tokens -> Procs \cup {Nil}] /\ UseLockInv
    BY Parts DEF Shape
  <2>2. tokenLocks' = [t \in Tokens |-> IF tokenLocks[t] = p THEN Nil ELSE tokenLocks[t]]
    BY DEF ReturnErr
  <2>3. ASSUME NEW q \in Procs, NEW t \in Tokens, Using(q, t)' PROVE tokenLocks'[t] = q
    <3>1. tokenLocks[t] = q
      BY <1>6, <2>1, <2>3 DEF OpsKept, UseLockInv
    <3>2. q # p
      BY <1>2, <2>3 DEF Using
    <3>. QED  BY <2>2, <3>1, <3>2
  <2>4. ASSUME NEW q \in Procs, NEW t \in Tokens, Holding(q, t)'
        PROVE  Base(q)'.entry.uses >= 0
    BY <1>6, <2>1, <2>4 DEF OpsKept, UseLockInv
  <2>5. UseLockInv'
    BY <2>3, <2>4 DEF UseLockInv
  <2>. QED  BY <2>1, <2>2, <2>5
<1>10. Shape'
  BY <1>1, <1>8, <1>9, StacksOK, Parts DEF Shape
<1>. QED  BY <1>6, <1>7, <1>8, <1>9, <1>10, QuietStep

LEMMA FaultStep ==
    ASSUME IInv, NEW p \in Procs, Fault(p)
    PROVE  IInv'
  BY ReturnErrStep DEF Fault, histVars

LEMMA RestartStep ==
    ASSUME IInv, Restart
    PROVE  IInv'
<1>0. /\ proc \in [Procs -> [stack : Seq(Activation),
                             result : {"none", "running", "ok", "failed"}]]
      /\ lease \in [Tokens -> LeaseStates]
  BY Parts DEF Shape
<1>1. \A p \in Procs : proc'[p] \in {Quiet("none"), Quiet("failed")} \/
                         (proc'[p] = proc[p] /\ proc[p].stack = <<>>)
  BY DEF Restart
<1>2. \A p \in Procs : proc'[p].stack = <<>>
  BY <1>1 DEF Quiet
<1>3. ProcType'
  <2>1. /\ Quiet("none") \in [stack : Seq(Activation), result : {"none", "running", "ok", "failed"}]
        /\ Quiet("failed") \in [stack : Seq(Activation), result : {"none", "running", "ok", "failed"}]
    BY EmptySeq DEF Quiet
  <2>2. proc' = [p \in Procs |-> IF proc[p].stack = <<>> THEN proc[p]
                                 ELSE Quiet(IF p \in Workers THEN "none" ELSE "failed")]
    BY DEF Restart
  <2>. QED  BY <1>0, <2>1, <2>2 DEF ProcType
<1>4. StackOK(<<>>)
  BY EmptySeq DEF StackOK
<1>5. OpsKept /\ FramesKept /\ UseLockInv'
  <2>1. OpsKept
    BY <1>2 DEF OpsKept, Creating, Early, Using, Holding
  <2>2. FramesKept
    BY <1>2, EmptySeq DEF FramesKept
  <2>3. UseLockInv'
    BY <1>2 DEF UseLockInv, Using, Holding
  <2>. QED  BY <2>1, <2>2, <2>3
<1>6. /\ UNCHANGED <<idView, created, used, deleted, orphaned>>
      /\ lease' = [t \in Tokens |-> IF lease[t] = "bare" THEN "due" ELSE lease[t]]
      /\ tokenLocks' = [t \in Tokens |-> Nil]
  BY DEF Restart, histVars
<1>7. StoreStep /\ lease' \in [Tokens -> LeaseStates]
  BY <1>0, <1>6 DEF StoreStep, LeaseStates
<1>8. Shape'
  <2>1. \A p \in Procs : StackOK(proc'[p].stack)
    BY <1>2, <1>4
  <2>. QED  BY <1>3, <1>6, <1>7, <2>1, Parts DEF Shape, ProcType
<1>. QED  BY <1>5, <1>6, <1>7, <1>8, QuietStep

LEMMA ExpireStep ==
    ASSUME IInv, NEW t \in Tokens, Expire(t)
    PROVE  IInv'
<1>1. UNCHANGED <<idView, tokenLocks, proc, created, used, deleted, orphaned>>
      /\ lease' = [lease EXCEPT ![t] = "due"]
  BY DEF Expire, storeVars, histVars
<1>2. StoreStep /\ lease' \in [Tokens -> LeaseStates]
  <2>1. "due" \in LeaseStates \ {"live"}
    BY DEF LeaseStates
  <2>. QED  BY <1>1, <2>1, StoreLease
<1>3. OpsKept /\ FramesKept /\ UseLockInv'
  <2>1. OpsKept
    BY <1>1 DEF OpsKept, Creating, Early, Using, Holding, Base
  <2>2. FramesKept
    BY <1>1 DEF FramesKept
  <2>3. UseLockInv'
    BY <1>1, <2>1, LocksKept
  <2>. QED  BY <2>1, <2>2, <2>3
<1>4. Shape'
  BY <1>1, <1>2, Parts DEF Shape
<1>. QED  BY <1>1, <1>2, <1>3, <1>4, QuietStep

LEMMA revokeLookupStep ==
    ASSUME IInv, NEW p \in Procs, revokeLookup(p)
    PROVE  IInv'
<1>0. /\ proc[p].stack # <<>> /\ Top(p).fn \notin {"use", "create"}
      /\ Top(p).fn # "revokeInternal"
  BY DEF revokeLookup, At
<1>1. PICK t \in Tokens : t = Top(p).t
  BY <1>0, Parts, TopType, ActivationType
<1>2. lookupInternal(p, t, FALSE, "revoke") /\ UNCHANGED <<idView, tokenLocks, histVars>>
  BY <1>1 DEF revokeLookup, Lookup, storeVars
<1>3. "revoke" \in Places \ {"child", "pop"} /\ "revoke" # "orphan"
  BY DEF Places
<1>. QED  BY <1>0, <1>2, <1>3, LookupInner

LEMMA handleRevokeTreeStep ==
    ASSUME IInv, NEW p \in Procs, handleRevokeTree(p)
    PROVE  IInv'
<1>0. proc[p].stack # <<>> /\ Top(p).fn = "revokeTree" /\ Shape
  BY Parts DEF handleRevokeTree, At
<1>1. PICK t \in Tokens : t = Top(p).t
  BY <1>0, TopType, ActivationType
<1>2. UNCHANGED <<idView, tokenLocks, created, used, deleted, orphaned>>
  BY DEF handleRevokeTree, storeVars
<1>3. CASE Top(p).entry = Nil
  <2>1. Return(p) /\ UNCHANGED lease
    BY <1>3 DEF handleRevokeTree
  <2>2. /\ StoreStep /\ idView' \in [Tokens -> Entry \cup {Nil}]
        /\ lease' \in [Tokens -> LeaseStates]
    BY <1>2, <2>1, StoreSame
  <2>. QED  BY <1>0, <1>2, <2>1, <2>2, ReturnInner
<1>4. CASE Top(p).entry # Nil
  <2>1. PICK f : f = Frame("Revoke", t, "load")
    OBVIOUS
  <2>2. /\ Become(p, f)
        /\ lease' = [lease EXCEPT ![t] = IF lease[t] = "none" THEN "bare" ELSE lease[t]]
    BY <1>1, <1>4, <2>1 DEF handleRevokeTree
  <2>3. /\ StoreStep /\ idView' \in [Tokens -> Entry \cup {Nil}]
        /\ lease' \in [Tokens -> LeaseStates]
    BY <1>0, <1>2, <2>2 DEF StoreStep, Shape, LeaseStates
  <2>4. f \in Activation /\ f.fn = "Revoke"
    BY <2>1, FrameType DEF Inner, Places, StorageAccess
  <2>5. f.fn \notin {"use", "create"} /\ f.fn \in Inner /\ f.fn # "revokeInternal"
    BY <2>4 DEF Inner
  <2>. QED  BY <1>0, <1>2, <2>2, <2>3, <2>4, <2>5, BecomeInner
<1>. QED  BY <1>3, <1>4

LEMMA handleRevokeOrphanStep ==
    ASSUME IInv, NEW p \in Procs, handleRevokeOrphan(p)
    PROVE  IInv'
<1>0. proc[p].stack # <<>> /\ Top(p).fn = "revokeOrphan" /\ Shape
  BY Parts DEF handleRevokeOrphan, At
<1>1. PICK t \in Tokens : t = Top(p).t
  BY <1>0, TopType, ActivationType
<1>2. UNCHANGED <<idView, lease, created, used, deleted, orphaned>>
  BY DEF handleRevokeOrphan, histVars
<1>3. CASE Top(p).entry = Nil
  <2>1. ReturnErr(p)
    BY <1>3 DEF handleRevokeOrphan
  <2>. QED  BY <1>0, <1>2, <2>1, ReturnErrStep
<1>4. CASE Top(p).entry # Nil
  <2>1. PICK f : f = Frame("revokeInternal", t, "flag")
    OBVIOUS
  <2>2. Become(p, f) /\ tokenLocks' = tokenLocks
    BY <1>1, <1>4, <2>1 DEF handleRevokeOrphan
  <2>3. /\ StoreStep /\ idView' \in [Tokens -> Entry \cup {Nil}]
        /\ lease' \in [Tokens -> LeaseStates]
    BY <1>2, StoreSame
  <2>4. f \in Activation /\ f.fn = "revokeInternal" /\ f.pc = "flag"
    BY <2>1, FrameType DEF Inner, Places
  <2>5. f.fn \notin {"use", "create"} /\ f.fn \in Inner /\ Revoking(f)'
    BY <2>4, RevokingBegins DEF Inner
  <2>. QED  BY <1>0, <1>2, <2>2, <2>3, <2>4, <2>5, BecomeInner
<1>. QED  BY <1>3, <1>4

\* A goroutine begins with activation f.
LEMMA BeginType ==
    ASSUME Shape, NEW p \in Procs, NEW f \in Activation, f.fn = "use" => f.entry = Nil,
           proc' = [proc EXCEPT ![p] = [stack |-> <<f>>, result |-> "running"]]
    PROVE  /\ ProcType' /\ Others(p) /\ proc'[p].stack = <<f>> /\ StackOK(proc'[p].stack)
           /\ Len(proc'[p].stack) = 1 /\ proc'[p].stack[1] = f
           /\ proc'[p].stack # <<>> /\ Base(p)' = f
<1>0. proc \in [Procs -> [stack : Seq(Activation), result : {"none", "running", "ok", "failed"}]]
  BY DEF Shape
<1>1. <<f>> \in Seq(Activation) /\ Len(<<f>>) = 1 /\ <<f>>[1] = f /\ <<f>> # <<>>
  OBVIOUS
<1>2. StackOK(<<f>>)
  BY <1>1 DEF StackOK
<1>3. ProcType' /\ Others(p) /\ proc'[p].stack = <<f>>
  BY <1>0, <1>1 DEF ProcType, Others
<1>. QED  BY <1>1, <1>2, <1>3 DEF Base

LEMMA ExpireJobStep ==
    ASSUME IInv, NEW p \in Workers, NEW t \in Tokens, ExpireJob(p, t)
    PROVE  IInv'
<1>0. p \in Procs /\ Shape
  BY Parts DEF Procs
<1>1. PICK f : f = Frame("Revoke", t, "load")
  OBVIOUS
<1>2. f \in Activation /\ f.fn = "Revoke"
  BY <1>1, FrameType DEF Inner, Places, StorageAccess
<1>3. proc' = [proc EXCEPT ![p] = [stack |-> <<f>>, result |-> "running"]]
  BY <1>1 DEF ExpireJob
<1>4. PICK N : N = {f}
  OBVIOUS
<1>5. /\ ProcType' /\ Others(p) /\ StackOK(proc'[p].stack)
      /\ Len(proc'[p].stack) = 1 /\ proc'[p].stack[1] = f
  BY <1>0, <1>2, <1>3, BeginType
<1>6. Derived(proc'[p].stack, proc[p].stack, N)
  BY <1>2, <1>4, <1>5 DEF Derived
<1>7. \A g \in N : g.fn = "revokeInternal" => Revoking(g)'
  BY <1>2, <1>4
<1>8. /\ StoreStep /\ idView' \in [Tokens -> Entry \cup {Nil}]
      /\ lease' \in [Tokens -> LeaseStates] /\ tokenLocks' = tokenLocks /\ deleted' = deleted
  BY StoreSame DEF ExpireJob, storeVars, histVars
<1>. QED  BY <1>0, <1>5, <1>6, <1>7, <1>8, InnerStep

-----------------------------------------------------------------------------
(* Uses and creations.                                                     *)

\* The activation of a use or a creation goes on as f, alone or with another
\* one called.
LEMMA OuterBecome ==
    ASSUME Shape, NEW p \in Procs, proc[p].stack # <<>>, Top(p).fn \notin Inner,
           NEW f \in Activation, Become(p, f)
    PROVE  /\ ProcType' /\ Others(p) /\ StackOK(proc'[p].stack)
           /\ proc'[p].stack # <<>> /\ Base(p)' = f /\ proc'[p].stack[1] = f
           /\ \A i \in 1 .. Len(proc'[p].stack) : proc'[p].stack[i] = f
<1>1. Rest(p) = <<>>
  BY TopOuter
<1>2. <<f>> \in Seq(Activation) /\ Len(<<f>>) = 1 /\ <<f>>[1] = f /\ <<f>> # <<>>
  OBVIOUS
<1>3. <<f>> \o <<>> = <<f>>
  BY <1>2, ConcatEmptySeq
<1>4. SetStack(p, <<f>>)
  BY <1>1, <1>3 DEF Become
<1>5. ProcType' /\ Others(p) /\ proc'[p].stack = <<f>>
  BY <1>2, <1>4, SetStackType
<1>6. StackOK(<<f>>)
  BY <1>2 DEF StackOK
<1>. QED  BY <1>2, <1>5, <1>6 DEF Base

LEMMA OuterCall ==
    ASSUME Shape, NEW p \in Procs, proc[p].stack # <<>>, Top(p).fn \notin Inner,
           NEW f \in Activation, f.entry = Nil, NEW g \in Activation, g.fn \in Inner,
           Call(p, f, g)
    PROVE  /\ ProcType' /\ Others(p) /\ StackOK(proc'[p].stack)
           /\ proc'[p].stack # <<>> /\ Base(p)' = f /\ proc'[p].stack[1] = g
           /\ \A i \in 1 .. Len(proc'[p].stack) : proc'[p].stack[i] \in {f, g}
<1>1. Rest(p) = <<>>
  BY TopOuter
<1>2. /\ <<g, f>> \in Seq(Activation) /\ Len(<<g, f>>) = 2 /\ <<g, f>>[1] = g /\ <<g, f>>[2] = f
      /\ <<g, f>> # <<>>
  OBVIOUS
<1>3. <<g, f>> \o <<>> = <<g, f>>
  BY <1>2, ConcatEmptySeq
<1>4. SetStack(p, <<g, f>>)
  BY <1>1, <1>3 DEF Call
<1>5. ProcType' /\ Others(p) /\ proc'[p].stack = <<g, f>>
  BY <1>2, <1>4, SetStackType
<1>6. PICK n : n = <<g, f>>
  OBVIOUS
<1>7. n \in Seq(Activation) /\ Len(n) = 2 /\ n[1] = g /\ n[2] = f /\ n # <<>>
  BY <1>2, <1>6
<1>8. \A i \in 1 .. Len(n) : i = 1 \/ i = 2
  BY <1>7
<1>9. StackOK(n)
  BY <1>7, <1>8 DEF StackOK, Inner
<1>. QED  BY <1>5, <1>6, <1>7, <1>8, <1>9 DEF Base

LEMMA OuterLookup ==
    ASSUME IInv, NEW p \in Procs, proc[p].stack # <<>>, Top(p).fn \in {"use", "create"},
           NEW t \in Tokens, NEW tainted \in BOOLEAN,
           NEW pc \in Places \ {"child", "orphan", "pop"},
           lookupInternal(p, t, tainted, pc), UNCHANGED <<idView, created, used, orphaned>>
    PROVE  /\ ProcType' /\ Others(p) /\ StackOK(proc'[p].stack) /\ FramesKept
           /\ StoreStep /\ idView' \in [Tokens -> Entry \cup {Nil}]
           /\ lease' \in [Tokens -> LeaseStates]
           /\ proc'[p].stack # <<>> /\ Base(p)'.fn = Top(p).fn /\ Base(p)'.t = Top(p).t
           /\ Base(p)'.pc = pc
           /\ Base(p)'.entry = Nil \/ Base(p)'.entry = lookupResult(t, tainted)
           /\ Base(p)' \in Activation
<1>0. Shape /\ Top(p) \in Activation /\ Top(p).fn \notin Inner
  BY Parts, TopType DEF Inner
<1>1. CASE Leaseless(t, tainted)
  <2>1. PICK f : f = Renewed(Top(p), pc, Nil)
    OBVIOUS
  <2>2. PICK g : g = Frame("Revoke", t, "load")
    OBVIOUS
  <2>3. lease' = [lease EXCEPT ![t] = "bare"] /\ Call(p, f, g)
    BY <1>1, <2>1, <2>2 DEF lookupInternal, Renewed
  <2>4. /\ f \in Activation /\ f.fn = Top(p).fn /\ f.t = Top(p).t /\ f.pc = pc
        /\ f.entry = Nil
    BY <1>0, <2>1, LookedUp
  <2>5. g \in Activation /\ g.fn = "Revoke" /\ g.fn \in Inner
    BY <2>2, FrameType DEF Inner, Places, StorageAccess
  <2>6. /\ StoreStep /\ idView' \in [Tokens -> Entry \cup {Nil}]
        /\ lease' \in [Tokens -> LeaseStates]
    <3>1. "bare" \in LeaseStates \ {"live"}
      BY DEF LeaseStates
    <3>. QED  BY <2>3, <3>1, StoreLease
  <2>7. /\ ProcType' /\ Others(p) /\ StackOK(proc'[p].stack)
        /\ proc'[p].stack # <<>> /\ Base(p)' = f
        /\ \A i \in 1 .. Len(proc'[p].stack) : proc'[p].stack[i] \in {f, g}
    BY <1>0, <2>3, <2>4, <2>5, OuterCall
  <2>8. FramesKept
    <3>1. PICK N : N = {f, g}
      OBVIOUS
    <3>2. \A i \in 1 .. Len(proc'[p].stack) : proc'[p].stack[i] \in N
      BY <2>7, <3>1
    <3>3. \A h \in N : h.fn # "revokeInternal"
      BY <2>4, <2>5, <3>1
    <3>. QED  BY <2>7, <3>2, <3>3, FramesStep
  <2>. QED  BY <2>4, <2>6, <2>7, <2>8
<1>2. CASE ~Leaseless(t, tainted)
  <2>0. lookupResult(t, tainted) \in Entry \cup {Nil}
    BY <1>0, lookupResultType
  <2>1. PICK f : f = Renewed(Top(p), pc, lookupResult(t, tainted))
    OBVIOUS
  <2>3. UNCHANGED lease /\ Become(p, f)
    BY <1>2, <2>1 DEF lookupInternal, Renewed
  <2>4. /\ f \in Activation /\ f.fn = Top(p).fn /\ f.t = Top(p).t /\ f.pc = pc
        /\ f.entry = lookupResult(t, tainted)
    BY <1>0, <2>0, <2>1, LookedUp
  <2>6. /\ StoreStep /\ idView' \in [Tokens -> Entry \cup {Nil}]
        /\ lease' \in [Tokens -> LeaseStates]
    BY <2>3, StoreSame
  <2>7. /\ ProcType' /\ Others(p) /\ StackOK(proc'[p].stack)
        /\ proc'[p].stack # <<>> /\ Base(p)' = f
        /\ \A i \in 1 .. Len(proc'[p].stack) : proc'[p].stack[i] = f
    BY <1>0, <2>3, <2>4, OuterBecome
  <2>8. FramesKept
    <3>1. PICK N : N = {f}
      OBVIOUS
    <3>2. \A i \in 1 .. Len(proc'[p].stack) : proc'[p].stack[i] \in N
      BY <2>7, <3>1
    <3>3. \A h \in N : h.fn # "revokeInternal"
      BY <2>4, <3>1
    <3>. QED  BY <2>7, <3>2, <3>3, FramesStep
  <2>. QED  BY <2>4, <2>6, <2>7, <2>8
<1>. QED  BY <1>1, <1>2

\* A use or a creation goes on, and does not come to its store.
LEMMA OuterQuiet ==
    ASSUME IInv, NEW p \in Procs, proc[p].stack # <<>>, Top(p).fn \notin Inner,
           ProcType', Others(p), StackOK(proc'[p].stack), FramesKept, StoreStep,
           idView' \in [Tokens -> Entry \cup {Nil}], lease' \in [Tokens -> LeaseStates],
           tokenLocks' = tokenLocks, deleted' = deleted,
           Base(p)'.fn = Top(p).fn, Base(p)'.t = Top(p).t, Base(p)'.pc # "store",
           Top(p).pc # "register"
    PROVE  IInv'
<1>1. Base(p) = Top(p)
  BY Parts, TopOuter
<1>2. OpsKept
  <2> SUFFICES ASSUME NEW q \in Procs, NEW t \in Tokens
               PROVE  /\ Creating(q, t)' => Creating(q, t)
                      /\ Early(q, t)' => Early(q, t)
                      /\ Using(q, t)' => Using(q, t)
                      /\ Holding(q, t)' => Holding(q, t) /\ Base(q)' = Base(q)
    BY DEF OpsKept
  <2>1. CASE q = p
    BY <1>1, <2>1 DEF Creating, Early, Using, Holding
  <2>2. CASE q # p
    <3>1. proc'[q] = proc[q] /\ Base(q)' = Base(q)
      BY <2>2 DEF Others, Base
    <3>. QED  BY <3>1 DEF Creating, Early, Using, Holding
  <2>. QED  BY <2>1, <2>2
<1>3. Shape'
  BY StacksOK, Parts DEF Shape, StoreStep
<1>4. UseLockInv'
  BY <1>2, LocksKept
<1>. QED  BY <1>2, <1>3, <1>4, QuietStep

LEMMA storeParentLookupStep ==
    ASSUME IInv, NEW p \in Procs, storeParentLookup(p)
    PROVE  IInv'
<1>0. /\ proc[p].stack # <<>> /\ Top(p).fn \in {"use", "create"} /\ Top(p).fn \notin Inner
      /\ Top(p).pc # "register"
  BY DEF storeParentLookup, At, Inner
<1>1. PICK t \in Tokens : t = Parent[Top(p).t]
  <2>1. PICK u \in Tokens : u = Top(p).t
    BY <1>0, Parts, TopType, ActivationType
  <2>2. Base(p) = Top(p)
    BY <1>0, Parts, TopOuter
  <2>3. Creating(p, u)
    BY <1>0, <2>1, <2>2 DEF Creating, storeParentLookup, At
  <2>4. Parent[u] # Nil
    BY <2>3, Parts DEF CreateInv
  <2>. QED  BY <2>1, <2>4, TokenAssumption
<1>2. /\ lookupInternal(p, t, FALSE, "index") /\ tokenLocks' = tokenLocks /\ deleted' = deleted
      /\ UNCHANGED <<idView, created, used, orphaned>>
  BY <1>1 DEF storeParentLookup, Lookup, storeVars, histVars
<1>3. "index" \in Places \ {"child", "orphan", "pop"} /\ "index" # "store"
  BY DEF Places, StorageAccess
<1>4. /\ ProcType' /\ Others(p) /\ StackOK(proc'[p].stack) /\ FramesKept
      /\ StoreStep /\ idView' \in [Tokens -> Entry \cup {Nil}]
      /\ lease' \in [Tokens -> LeaseStates]
      /\ Base(p)'.fn = Top(p).fn /\ Base(p)'.t = Top(p).t /\ Base(p)'.pc = "index"
  BY <1>0, <1>2, <1>3, OuterLookup
<1>. QED  BY <1>0, <1>2, <1>3, <1>4, OuterQuiet

LEMMA useLookupStep ==
    ASSUME IInv, NEW p \in Procs, useLookup(p)
    PROVE  IInv'
<1>0. /\ proc[p].stack # <<>> /\ Top(p).fn \in {"use", "create"} /\ Top(p).fn \notin Inner
      /\ Top(p).pc # "register"
  BY DEF useLookup, At, Inner
<1>1. PICK t \in Tokens : t = Top(p).t
  BY <1>0, Parts, TopType, ActivationType
<1>2. /\ lookupInternal(p, t, FALSE, "lock") /\ tokenLocks' = tokenLocks /\ deleted' = deleted
      /\ UNCHANGED <<idView, created, used, orphaned>>
  BY <1>1 DEF useLookup, Lookup, storeVars, histVars
<1>3. "lock" \in Places \ {"child", "orphan", "pop"} /\ "lock" # "store"
  BY DEF Places, StorageAccess
<1>4. /\ ProcType' /\ Others(p) /\ StackOK(proc'[p].stack) /\ FramesKept
      /\ StoreStep /\ idView' \in [Tokens -> Entry \cup {Nil}]
      /\ lease' \in [Tokens -> LeaseStates]
      /\ Base(p)'.fn = Top(p).fn /\ Base(p)'.t = Top(p).t /\ Base(p)'.pc = "lock"
  BY <1>0, <1>2, <1>3, OuterLookup
<1>. QED  BY <1>0, <1>2, <1>3, <1>4, OuterQuiet

\* A use or a creation goes on at pc.
LEMMA OuterGoto ==
    ASSUME Shape, NEW p \in Procs, proc[p].stack # <<>>, Top(p).fn \in {"use", "create"},
           NEW pc \in Places \ {"child", "orphan", "pop"}, Goto(p, pc)
    PROVE  /\ ProcType' /\ Others(p) /\ StackOK(proc'[p].stack) /\ FramesKept
           /\ proc'[p].stack # <<>> /\ Base(p)'.fn = Top(p).fn /\ Base(p)'.t = Top(p).t
           /\ Base(p)'.pc = pc /\ Base(p)'.entry = Top(p).entry
           /\ proc'[p].stack[1] = Base(p)'
<1>0. Top(p) \in Activation /\ Top(p).fn \notin Inner
  BY TopType DEF Inner
<1>1. PICK f : f = Moved(Top(p), pc)
  OBVIOUS
<1>2. Become(p, f)
  BY <1>1 DEF Goto, Moved
<1>3. /\ f \in Activation /\ f.fn = Top(p).fn /\ f.t = Top(p).t /\ f.pc = pc
      /\ f.entry = Top(p).entry
  BY <1>0, <1>1, MovedType
<1>4. /\ ProcType' /\ Others(p) /\ StackOK(proc'[p].stack)
      /\ proc'[p].stack # <<>> /\ Base(p)' = f /\ proc'[p].stack[1] = f
      /\ \A i \in 1 .. Len(proc'[p].stack) : proc'[p].stack[i] = f
  BY <1>0, <1>2, <1>3, OuterBecome
<1>5. FramesKept
  <2>1. PICK N : N = {f}
    OBVIOUS
  <2>2. \A i \in 1 .. Len(proc'[p].stack) : proc'[p].stack[i] \in N
    BY <1>4, <2>1
  <2>3. \A h \in N : h.fn # "revokeInternal"
    BY <1>3, <2>1
  <2>. QED  BY <1>4, <2>2, <2>3, FramesStep
<1>. QED  BY <1>3, <1>4, <1>5

LEMMA storeIndexStep ==
    ASSUME IInv, NEW p \in Procs, storeIndex(p)
    PROVE  IInv'
<1>0. /\ proc[p].stack # <<>> /\ Top(p).fn \in {"use", "create"} /\ Top(p).fn \notin Inner
      /\ Top(p).pc # "register" /\ Shape
  BY Parts DEF storeIndex, At, Inner
<1>1. UNCHANGED <<idView, lease, created, used, deleted, orphaned>>
  BY DEF storeIndex, histVars
<1>2. CASE Top(p).entry = Nil
  <2>1. ReturnErr(p)
    BY <1>2 DEF storeIndex
  <2>. QED  BY <1>0, <1>1, <2>1, ReturnErrStep
<1>3. CASE Top(p).entry # Nil
  <2>1. Goto(p, "primary") /\ tokenLocks' = tokenLocks
    BY <1>3 DEF storeIndex
  <2>2. "primary" \in Places \ {"child", "orphan", "pop"} /\ "primary" # "store"
    BY DEF Places, StorageAccess
  <2>3. /\ ProcType' /\ Others(p) /\ StackOK(proc'[p].stack) /\ FramesKept
        /\ Base(p)'.fn = Top(p).fn /\ Base(p)'.t = Top(p).t /\ Base(p)'.pc = "primary"
    BY <1>0, <2>1, <2>2, OuterGoto
  <2>4. /\ StoreStep /\ idView' \in [Tokens -> Entry \cup {Nil}]
        /\ lease' \in [Tokens -> LeaseStates]
    BY <1>1, StoreSame
  <2>. QED  BY <1>0, <1>1, <2>1, <2>2, <2>3, <2>4, OuterQuiet
<1>. QED  BY <1>2, <1>3

LEMMA LazyRevokeStep ==
    ASSUME IInv, NEW p \in Procs, LazyRevoke(p)
    PROVE  IInv'
<1>0. Shape /\ proc[p].stack # <<>> /\ Return(p)
  BY Parts DEF LazyRevoke, At
<1>1. Top(p).t \in Tokens
  BY <1>0, TopType, ActivationType
<1>2. /\ StoreStep /\ idView' \in [Tokens -> Entry \cup {Nil}]
      /\ lease' \in [Tokens -> LeaseStates] /\ tokenLocks' = tokenLocks /\ deleted' = deleted
  <2>1. "due" \in LeaseStates \ {"live"}
    BY DEF LeaseStates
  <2>. QED  BY <1>1, <2>1, StoreLease DEF LazyRevoke, storeVars, histVars
<1>. QED  BY <1>0, <1>2, ReturnInner

-----------------------------------------------------------------------------
(* The steps that store a token, its lease and its uses.                   *)

\* What keeps the revoked tokens revoked.
CoreStep ==
    /\ orphaned \subseteq orphaned'
    /\ \A t \in Tokens :
         /\ Past(t) => Past(t)'
         /\ Unborn(t)' => Unborn(t)
         /\ Past(t) /\ lease[t] # "live" => lease'[t] # "live"
         /\ Closed(t) /\ ~Unborn(t) => Closed(t)' \/ Excepted(t)'

LEMMA CoreGone ==
    ASSUME CoreStep, NEW t \in Tokens, ~Unborn(t) \/ t \in orphaned
    PROVE  /\ Gone(t) => Gone(t)'
           /\ Marked(t) => Marked(t)'
           /\ ~Unborn(t)' \/ t \in orphaned'
<1>1. /\ Past(t) => Past(t)'
      /\ Past(t) /\ lease[t] # "live" => lease'[t] # "live"
      /\ Unborn(t)' => Unborn(t)
      /\ Closed(t) /\ ~Unborn(t) => Closed(t)' \/ Excepted(t)'
      /\ t \in orphaned => t \in orphaned'
  BY DEF CoreStep
<1>2. Excepted(t) => Excepted(t)'
  BY <1>1 DEF Excepted
<1>3. Closed(t) => Closed(t)' \/ Excepted(t)'
  <2>1. Closed(t) /\ Unborn(t) => Excepted(t)
    BY DEF Closed, Excepted
  <2>. QED  BY <1>1, <1>2, <2>1
<1>4. Gone(t) => Gone(t)'
  BY <1>1, <1>2, <1>3 DEF Gone
<1>5. Marked(t) => Marked(t)'
  BY <1>1, <1>2, <1>3 DEF Marked
<1>. QED  BY <1>1, <1>4, <1>5

LEMMA CoreRevoking ==
    ASSUME CoreStep, NEW f \in Activation, Revoking(f)
    PROVE  Revoking(f)'
<1>1. PICK t \in Tokens : t = f.t
  BY ActivationType
<1>2. CASE ~Unborn(t) \/ t \in orphaned
  <2>1. /\ Gone(t) => Gone(t)'
        /\ Marked(t) => Marked(t)'
        /\ ~Unborn(t)' \/ t \in orphaned'
    BY <1>2, CoreGone
  <2>. QED  BY <1>1, <2>1 DEF Revoking
<1>3. CASE ~(~Unborn(t) \/ t \in orphaned)
  <2>1. ~((f.pc = "mark" /\ f.entry # Nil) \/ f.pc \in Deferred)
    BY <1>1, <1>3 DEF Revoking
  <2>. QED  BY <2>1 DEF Revoking, Deferred
<1>. QED  BY <1>2, <1>3

LEMMA CoreKept ==
    ASSUME IInv, CoreStep, FramesKept, deleted' = deleted
    PROVE  RevokeInv' /\ DeletedInv'
<1>1. RevokeInv'
  <2> SUFFICES ASSUME NEW p \in Procs, NEW i \in 1 .. Len(proc'[p].stack),
                      proc'[p].stack[i].fn = "revokeInternal"
               PROVE  Revoking(proc[p].stack[i])'
    BY DEF RevokeInv
  <2>1. CASE \E j \in 1 .. Len(proc[p].stack) : proc'[p].stack[i] = proc[p].stack[j]
    <3>1. PICK j \in 1 .. Len(proc[p].stack) : proc'[p].stack[i] = proc[p].stack[j]
      BY <2>1
    <3>2. PICK f : f = proc[p].stack[j]
      OBVIOUS
    <3>3. f \in Activation
      BY <3>2, ElementOfSeq, Parts DEF Shape
    <3>4. Revoking(f)
      BY <3>1, <3>2, Parts DEF RevokeInv
    <3>5. Revoking(f)'
      BY <3>3, <3>4, CoreRevoking
    <3>. QED  BY <3>1, <3>2, <3>5
  <2>. QED  BY <2>1 DEF FramesKept
<1>2. DeletedInv'
  <2> SUFFICES ASSUME NEW t \in Tokens, t \in deleted
               PROVE  Gone(t)' /\ (~Unborn(t)' \/ t \in orphaned')
    BY DEF DeletedInv
  <2>1. Gone(t) /\ (~Unborn(t) \/ t \in orphaned)
    BY Parts DEF DeletedInv
  <2>. QED  BY <2>1, CoreGone
<1>. QED  BY <1>1, <1>2

LEMMA OpsCreate ==
    ASSUME IInv, OpsKept, created' = created
    PROVE  CreateInv'
<1>1. \A p \in Procs, t \in Tokens : Creating(p, t)' => Creating(p, t)
  BY DEF OpsKept
<1>. QED  BY <1>1, Parts DEF CreateInv

LEMMA storePrimaryStep ==
    ASSUME IInv, NEW p \in Procs, storePrimary(p)
    PROVE  IInv'
<1>0. /\ proc[p].stack # <<>> /\ Top(p).fn = "create" /\ Top(p).fn \in {"use", "create"}
      /\ Top(p).fn \notin Inner /\ Top(p).pc = "primary" /\ Goto(p, "register") /\ Shape
  BY Parts DEF storePrimary, At, Inner
<1>1. PICK t \in Tokens : t = Top(p).t
  BY <1>0, TopType, ActivationType
<1>2. UNCHANGED <<lease, tokenLocks, created, used, deleted, orphaned>>
  BY DEF storePrimary, histVars
<1>3. PICK e \in Entry : /\ e.uses = NumUses[t] /\ idView' = [idView EXCEPT ![t] = e]
  <2>1. NumUses[t] \in Nat /\ Parent[t] \in Tokens \cup {Nil}
    BY TokenAssumption
  <2>2. PICK e : e = [uses |-> NumUses[t], parent |-> Parent[t]]
    OBVIOUS
  <2>3. e \in Entry /\ e.uses = NumUses[t]
    BY <2>1, <2>2 DEF Entry
  <2>. QED  BY <1>1, <2>2, <2>3 DEF storePrimary
<1>4. "register" \in Places \ {"child", "orphan", "pop"}
  BY DEF Places, StorageAccess
<1>5. /\ ProcType' /\ Others(p) /\ StackOK(proc'[p].stack) /\ FramesKept
      /\ proc'[p].stack # <<>> /\ Base(p)'.fn = Top(p).fn /\ Base(p)'.t = Top(p).t
      /\ Base(p)'.pc = "register"
  BY <1>0, <1>4, OuterGoto
<1>6. Base(p) = Top(p)
  BY <1>0, TopOuter
<1>7. OpsKept
  <2> SUFFICES ASSUME NEW q \in Procs, NEW u \in Tokens
               PROVE  /\ Creating(q, u)' => Creating(q, u)
                      /\ Early(q, u)' => Early(q, u)
                      /\ Using(q, u)' => Using(q, u)
                      /\ Holding(q, u)' => Holding(q, u) /\ Base(q)' = Base(q)
    BY DEF OpsKept
  <2>1. CASE q = p
    BY <1>0, <1>5, <1>6, <2>1 DEF Creating, Early, Using, Holding
  <2>2. CASE q # p
    <3>1. proc'[q] = proc[q] /\ Base(q)' = Base(q)
      BY <1>5, <2>2 DEF Others, Base
    <3>. QED  BY <3>1 DEF Creating, Early, Using, Holding
  <2>. QED  BY <2>1, <2>2
<1>8. Early(p, t) /\ Creating(p, t)
  BY <1>0, <1>1, <1>6 DEF Early, Creating
<1>9. ~Past(t) /\ Unborn(t)
  BY <1>8 DEF Past, Unborn
<1>10. idView \in [Tokens -> Entry \cup {Nil}]
  BY <1>0 DEF Shape
<1>11. idView' \in [Tokens -> Entry \cup {Nil}] /\ \A u \in Tokens : u # t => idView'[u] = idView[u]
  BY <1>3, <1>10
<1>12. Shape'
  BY <1>0, <1>2, <1>5, <1>11, StacksOK DEF Shape
<1>13. CreateInv' /\ UseLockInv'
  BY <1>2, <1>7, OpsCreate, LocksKept
<1>14. UsesInv'
  <2> SUFFICES ASSUME NEW u \in Tokens, NumUses[u] > 0, u \notin orphaned
               PROVE  /\ used'[u] <= NumUses[u]
                      /\ idView'[u] # Nil => Left(u, idView[u])'
                      /\ \A q \in Procs : Holding(q, u)' =>
                           Left(u, Base(q).entry)' /\ Base(q)'.entry.uses >= 1
    BY <1>2 DEF UsesInv
  <2>1. used'[u] <= NumUses[u]
    BY <1>2, Parts DEF UsesInv
  <2>2. idView'[u] # Nil => Left(u, idView[u])'
    <3>1. CASE u = t
      <4>1. used[t] = 0 /\ NumUses[t] \in Nat
        BY <1>9, <3>1, Parts, TokenAssumption DEF LeaseInv, Fresh
      <4>2. idView'[u] = e /\ used' = used
        BY <1>2, <1>3, <1>10, <3>1
      <4>. QED  BY <1>3, <3>1, <4>1, <4>2 DEF Left
    <3>2. CASE u # t
      <4>1. idView'[u] = idView[u] /\ used' = used
        BY <1>2, <1>11, <3>2
      <4>2. idView[u] # Nil => Left(u, idView[u])
        BY Parts DEF UsesInv
      <4>. QED  BY <4>1, <4>2 DEF Left
    <3>. QED  BY <3>1, <3>2
  <2>3. ASSUME NEW q \in Procs, Holding(q, u)'
        PROVE  Left(u, Base(q).entry)' /\ Base(q)'.entry.uses >= 1
    <3>1. Holding(q, u) /\ Base(q)' = Base(q)
      BY <1>7, <2>3 DEF OpsKept
    <3>2. Left(u, Base(q).entry) /\ Base(q).entry.uses >= 1
      BY <3>1, Parts DEF UsesInv
    <3>. QED  BY <1>2, <3>1, <3>2 DEF Left
  <2>. QED  BY <2>1, <2>2, <2>3
<1>15. \A u \in Tokens : (Past(u) => Past(u)') /\ (Unborn(u)' => Unborn(u))
  BY <1>2, <1>7, PastKept
<1>16. \A u \in Tokens, q \in Procs : Holding(q, u)' => Holding(q, u)
  BY <1>7 DEF OpsKept
<1>17. LeaseInv'
  BY <1>2, <1>15, <1>16, LeaseKept
<1>18. ~Unborn(t)'
  <2>1. t \in created
    BY <1>8, Parts DEF CreateInv
  <2>2. ASSUME NEW q \in Procs, Early(q, t)' PROVE FALSE
    <3>1. Creating(q, t)
      BY <1>7, <2>2 DEF OpsKept, Early
    <3>2. q = p
      BY <1>8, <3>1, Parts DEF CreateInv
    <3>. QED  BY <1>5, <2>2, <3>2 DEF Early
  <2>. QED  BY <1>2, <2>1, <2>2 DEF Unborn
<1>19. UnbornInv'
  <2> SUFFICES ASSUME NEW u \in Tokens, Unborn(u)', u \notin orphaned PROVE idView'[u] = Nil
    BY <1>2 DEF UnbornInv
  <2>1. u # t /\ Unborn(u)
    BY <1>15, <1>18
  <2>. QED  BY <1>11, <2>1, Parts DEF UnbornInv
<1>20. CoreStep
  <2>1. \A u \in Tokens : Closed(u) /\ ~Unborn(u) => Closed(u)'
    <3> SUFFICES ASSUME NEW u \in Tokens, Closed(u), ~Unborn(u) PROVE Closed(u)'
      OBVIOUS
    <3>1. u # t
      BY <1>9
    <3>2. idView'[u] = idView[u]
      BY <1>11, <3>1
    <3>. QED  BY <1>16, <3>2 DEF Closed
  <2>. QED  BY <1>2, <1>15, <2>1 DEF CoreStep
<1>21. RevokeInv' /\ DeletedInv'
  BY <1>2, <1>5, <1>20, CoreKept
<1>. QED  BY <1>12, <1>13, <1>14, <1>17, <1>19, <1>21 DEF IInv

\* The activation of a request returns.
LEMMA OuterReturn ==
    ASSUME Shape, NEW p \in Procs, proc[p].stack # <<>>, Top(p).fn \notin Inner, Return(p)
    PROVE  /\ ProcType' /\ Others(p) /\ StackOK(proc'[p].stack) /\ proc'[p].stack = <<>>
           /\ FramesKept /\ OpsKept
<1>1. /\ ProcType' /\ Others(p) /\ StackOK(proc'[p].stack)
      /\ Derived(proc'[p].stack, proc[p].stack, {})
  BY ReturnStep
<1>2. PICK N : N = {}
  OBVIOUS
<1>3. Derived(proc'[p].stack, proc[p].stack, N)
  BY <1>1, <1>2
<1>4. OpsKept
  BY <1>1, <1>3, OpsStep
<1>5. proc'[p].stack = <<>>
  <2>1. Rest(p) = <<>>
    BY TopOuter
  <2>2. Resumed(<<>>) = <<>> /\ <<>> \in Seq(Activation)
    BY DEF Resumed
  <2>3. PICK s \in Seq(Activation) : s = <<>> /\ SetStack(p, s)
    BY <2>1, <2>2 DEF Return
  <2>. QED  BY <2>3, SetStackType
<1>6. FramesKept
  <2>1. \A f \in N : f.fn = "revokeInternal" => Revoking(f)'
    BY <1>2
  <2>2. \A i \in 1 .. Len(proc'[p].stack) :
          \/ proc'[p].stack[i] \in N \/ proc'[p].stack[i].fn = "revokeTreeInternal"
          \/ \E j \in 1 .. Len(proc[p].stack) : proc'[p].stack[i] = proc[p].stack[j]
    BY <1>3 DEF Derived
  <2>. QED  BY <1>1, <2>1, <2>2, FramesStep
<1>. QED  BY <1>1, <1>4, <1>5, <1>6

LEMMA UsesKept ==
    ASSUME IInv, OpsKept, UNCHANGED <<idView, used, orphaned>>
    PROVE  UsesInv'
<1> SUFFICES ASSUME NEW t \in Tokens, NumUses[t] > 0, t \notin orphaned
             PROVE  /\ used'[t] <= NumUses[t]
                    /\ idView'[t] # Nil => Left(t, idView[t])'
                    /\ \A q \in Procs : Holding(q, t)' =>
                         Left(t, Base(q).entry)' /\ Base(q)'.entry.uses >= 1
  BY DEF UsesInv
<1>1. /\ used'[t] <= NumUses[t]
      /\ idView'[t] # Nil => Left(t, idView[t])
  BY Parts DEF UsesInv
<1>2. idView'[t] # Nil => Left(t, idView[t])'
  BY <1>1 DEF Left
<1>3. ASSUME NEW q \in Procs, Holding(q, t)'
      PROVE  Left(t, Base(q).entry)' /\ Base(q)'.entry.uses >= 1
  <2>1. Holding(q, t) /\ Base(q)' = Base(q)
    BY <1>3 DEF OpsKept
  <2>2. Left(t, Base(q).entry) /\ Base(q).entry.uses >= 1
    BY <2>1, Parts DEF UsesInv
  <2>. QED  BY <2>1, <2>2 DEF Left
<1>. QED  BY <1>1, <1>2, <1>3

LEMMA RegisterAuthStep ==
    ASSUME IInv, NEW p \in Procs, RegisterAuth(p)
    PROVE  IInv'
<1>0. /\ proc[p].stack # <<>> /\ Top(p).fn = "create" /\ Top(p).fn \notin Inner
      /\ Return(p) /\ Shape
  BY Parts DEF RegisterAuth, At, Inner
<1>1. PICK t \in Tokens : t = Top(p).t
  BY <1>0, TopType, ActivationType
<1>2. UNCHANGED <<idView, tokenLocks, created, used, deleted, orphaned>>
  BY DEF RegisterAuth, storeVars, histVars
<1>3. lease \in [Tokens -> LeaseStates] /\ lease' = [lease EXCEPT ![t] = "live"]
  BY <1>0, <1>1 DEF RegisterAuth, Shape
<1>4. lease' \in [Tokens -> LeaseStates] /\ \A u \in Tokens : u # t => lease'[u] = lease[u]
  BY <1>3 DEF LeaseStates
<1>5. /\ ProcType' /\ Others(p) /\ StackOK(proc'[p].stack) /\ proc'[p].stack = <<>>
      /\ FramesKept /\ OpsKept
  BY <1>0, OuterReturn
<1>6. Creating(p, t)
  BY <1>0, <1>1, TopOuter DEF Creating
<1>7. ~Past(t) /\ t \in created
  BY <1>6, Parts DEF Past, CreateInv
<1>8. \A u \in Tokens : (Past(u) => Past(u)') /\ (Unborn(u)' => Unborn(u))
  BY <1>2, <1>5, PastKept
<1>9. \A u \in Tokens, q \in Procs : Holding(q, u)' => Holding(q, u)
  BY <1>5 DEF OpsKept
<1>10. Past(t)'
  <2>1. ASSUME NEW q \in Procs, Creating(q, t)' PROVE FALSE
    <3>1. Creating(q, t)
      BY <1>5, <2>1 DEF OpsKept
    <3>2. q = p
      BY <1>6, <3>1, Parts DEF CreateInv
    <3>. QED  BY <1>5, <2>1, <3>2 DEF Creating
  <2>. QED  BY <1>2, <1>7, <2>1 DEF Past
<1>11. Shape'
  BY <1>0, <1>2, <1>4, <1>5, StacksOK DEF Shape
<1>12. CreateInv' /\ UseLockInv' /\ UsesInv'
  BY <1>2, <1>5, OpsCreate, LocksKept, UsesKept
<1>13. LeaseInv'
  <2>1. \A u \in Tokens : lease'[u] = "live" => lease[u] = "live" \/ Past(u)'
    BY <1>4, <1>10
  <2>. QED  BY <1>2, <1>8, <1>9, <2>1, LeaseKept
<1>14. UnbornInv'
  BY <1>2, <1>8, Parts DEF UnbornInv
<1>15. CoreStep
  <2>1. \A u \in Tokens : Closed(u) => Closed(u)'
    BY <1>2, <1>9 DEF Closed
  <2>2. \A u \in Tokens : Past(u) /\ lease[u] # "live" => lease'[u] # "live"
    BY <1>4, <1>7
  <2>. QED  BY <1>2, <1>8, <2>1, <2>2 DEF CoreStep
<1>16. RevokeInv' /\ DeletedInv'
  BY <1>2, <1>5, <1>15, CoreKept
<1>. QED  BY <1>11, <1>12, <1>13, <1>14, <1>16 DEF IInv

\* A request comes to read the entry of its token under the lock.
LEMMA UseLockedStep ==
    ASSUME IInv, NEW p \in Procs, At(p, "use", "lock"), NEW t \in Tokens, t = Top(p).t,
           useLock(t, p), lookupInternal(p, t, FALSE, "store"),
           UNCHANGED <<idView, created, used, deleted, orphaned>>
    PROVE  IInv'
<1>0. /\ proc[p].stack # <<>> /\ Top(p).fn = "use" /\ Top(p).pc = "lock"
      /\ Top(p).fn \in {"use", "create"} /\ Top(p).fn \notin Inner /\ Shape
  BY Parts DEF At, Inner
<1>1. "store" \in Places \ {"child", "orphan", "pop"}
  BY DEF Places, StorageAccess
<1>2. /\ ProcType' /\ Others(p) /\ StackOK(proc'[p].stack) /\ FramesKept
      /\ StoreStep /\ idView' \in [Tokens -> Entry \cup {Nil}]
      /\ lease' \in [Tokens -> LeaseStates]
      /\ proc'[p].stack # <<>> /\ Base(p)'.fn = Top(p).fn /\ Base(p)'.t = Top(p).t
      /\ Base(p)'.pc = "store"
      /\ Base(p)'.entry = Nil \/ Base(p)'.entry = lookupResult(t, FALSE)
  BY <1>0, <1>1, OuterLookup
<1>3. /\ tokenLocks \in [Tokens -> Procs \cup {Nil}] /\ tokenLocks[t] = Nil
      /\ tokenLocks' = [tokenLocks EXCEPT ![t] = p]
  BY <1>0 DEF useLock, Shape
<1>4. /\ tokenLocks' \in [Tokens -> Procs \cup {Nil}] /\ tokenLocks'[t] = p
      /\ \A u \in Tokens : u # t => tokenLocks'[u] = tokenLocks[u]
  BY <1>3
<1>5. ASSUME NEW q \in Procs, NEW u \in Tokens
      PROVE  /\ Creating(q, u)' => Creating(q, u)
             /\ Early(q, u)' => Early(q, u)
             /\ Using(q, u)' => Using(q, u) \/ (q = p /\ u = t)
             /\ Holding(q, u)' =>
                  \/ q # p /\ Holding(q, u) /\ Base(q)' = Base(q)
                  \/ /\ q = p /\ u = t /\ Base(p)'.entry # Nil
                     /\ Base(p)'.entry = lookupResult(t, FALSE)
  <2>1. CASE q = p
    BY <1>0, <1>2, <2>1 DEF Creating, Early, Using, Holding
  <2>2. CASE q # p
    <3>1. proc'[q] = proc[q] /\ Base(q)' = Base(q)
      BY <1>2, <2>2 DEF Others, Base
    <3>. QED  BY <2>2, <3>1 DEF Creating, Early, Using, Holding
  <2>. QED  BY <2>1, <2>2
<1>6. lookupResult(t, FALSE) # Nil =>
        /\ lookupResult(t, FALSE) = idView[t] /\ idView[t] # Nil
        /\ idView[t].uses >= 0 /\ (t \in Root \/ lease[t] = "live")
  BY DEF lookupResult
<1>7. \A u \in Tokens : (Past(u) => Past(u)') /\ (Unborn(u)' => Unborn(u))
  BY <1>5 DEF Past, Unborn
<1>8. Shape'
  BY <1>0, <1>2, <1>4, StacksOK DEF Shape
<1>9. CreateInv'
  BY <1>5, Parts DEF CreateInv
<1>10. UseLockInv'
  <2> SUFFICES ASSUME NEW q \in Procs, NEW u \in Tokens
               PROVE  /\ Using(q, u)' => tokenLocks'[u] = q
                      /\ Holding(q, u)' => Base(q)'.entry.uses >= 0
    BY DEF UseLockInv
  <2>1. Using(q, u) => tokenLocks[u] = q /\ u # t
    BY <1>3, TokenAssumption, Parts DEF UseLockInv
  <2>2. Using(q, u)' => tokenLocks'[u] = q
    BY <1>4, <1>5, <2>1
  <2>3. Holding(q, u) => Base(q).entry.uses >= 0
    BY Parts DEF UseLockInv
  <2>4. Holding(q, u)' => Base(q)'.entry.uses >= 0
    BY <1>5, <1>6, <2>3
  <2>. QED  BY <2>2, <2>4
<1>11. UsesInv'
  <2> SUFFICES ASSUME NEW u \in Tokens, NumUses[u] > 0, u \notin orphaned
               PROVE  /\ used'[u] <= NumUses[u]
                      /\ idView'[u] # Nil => Left(u, idView[u])'
                      /\ \A q \in Procs : Holding(q, u)' =>
                           Left(u, Base(q).entry)' /\ Base(q)'.entry.uses >= 1
    BY DEF UsesInv
  <2>1. /\ used'[u] <= NumUses[u]
        /\ idView'[u] # Nil => Left(u, idView[u])
    BY Parts DEF UsesInv
  <2>2. idView'[u] # Nil => Left(u, idView[u])'
    BY <2>1 DEF Left
  <2>3. ASSUME NEW q \in Procs, Holding(q, u)'
        PROVE  Left(u, Base(q).entry)' /\ Base(q)'.entry.uses >= 1
    <3>1. CASE q # p
      <4>1. Holding(q, u) /\ Base(q)' = Base(q)
        BY <1>5, <2>3, <3>1
      <4>2. Left(u, Base(q).entry) /\ Base(q).entry.uses >= 1
        BY <4>1, Parts DEF UsesInv
      <4>. QED  BY <4>1, <4>2 DEF Left
    <3>2. CASE q = p
      <4>1. /\ u = t /\ Base(q)'.entry = idView[u] /\ idView[u] # Nil
            /\ idView[u].uses >= 0
        BY <1>5, <1>6, <2>3, <3>2
      <4>2. Left(u, idView[u]) /\ idView[u].uses # tokenRevocationPending
        BY <2>1, <4>1 DEF tokenRevocationPending
      <4>. QED  BY <4>1, <4>2 DEF Left
    <3>. QED  BY <3>1, <3>2
  <2>. QED  BY <2>1, <2>2, <2>3
<1>12. LeaseInv'
  <2>1. ASSUME NEW u \in Tokens, Fresh(u)', NEW q \in Procs, Holding(q, u)' PROVE Holding(q, u)
    <3>1. Fresh(u)
      BY <1>7, <2>1, FreshKept
    <3>2. CASE q = p
      <4>1. u = t /\ idView[t] # Nil /\ (t \in Root \/ lease[t] = "live")
        BY <1>5, <1>6, <2>1, <3>2
      <4>2. t \notin Root => lease[t] # "live"
        BY <3>1, <4>1, Parts DEF Fresh, LeaseInv
      <4>3. t \in Root => idView[t] = Nil
        BY <3>1, <4>1, Parts DEF Fresh, UnbornInv
      <4>. QED  BY <4>1, <4>2, <4>3
    <3>. QED  BY <1>5, <2>1, <3>2
  <2>2. \A u \in Tokens : lease'[u] = "live" => lease[u] = "live"
    BY <1>2 DEF StoreStep
  <2>. QED  BY <1>7, <2>1, <2>2, LeaseKept
<1>13. UnbornInv'
  BY <1>7, Parts DEF UnbornInv
<1>14. CoreStep
  <2>1. ASSUME NEW u \in Tokens, Closed(u) PROVE Closed(u)'
    <3>1. /\ idView[u] = Nil \/ idView[u].uses = tokenRevocationPending
          /\ \A q \in Procs : ~Holding(q, u)
      BY <2>1 DEF Closed
    <3>2. idView[u] = Nil \/ ~(idView[u].uses >= 0)
      BY <3>1 DEF tokenRevocationPending
    <3>3. \A q \in Procs : ~Holding(q, u)'
      BY <1>5, <1>6, <3>1, <3>2
    <3>. QED  BY <2>1, <3>3 DEF Closed
  <2>2. \A u \in Tokens : lease[u] # "live" => lease'[u] # "live"
    BY <1>2 DEF StoreStep
  <2>. QED  BY <1>7, <2>1, <2>2 DEF CoreStep
<1>15. RevokeInv' /\ DeletedInv'
  BY <1>2, <1>14, CoreKept
<1>. QED  BY <1>8, <1>9, <1>10, <1>11, <1>12, <1>13, <1>15 DEF IInv

LEMMA UseTokenStep ==
    ASSUME IInv, NEW p \in Procs, UseToken(p)
    PROVE  IInv'
<1>0. At(p, "use", "lock") /\ proc[p].stack # <<>>
  BY DEF UseToken, At
<1>1. UNCHANGED <<idView, created, used, deleted, orphaned>>
  BY DEF UseToken, histVars
<1>2. CASE ReturnErr(p) /\ UNCHANGED lease
  BY <1>0, <1>1, <1>2, ReturnErrStep
<1>3. CASE Return(p) /\ UNCHANGED <<tokensPendingDeletion, lease, tokenLocks>>
  <2>1. /\ StoreStep /\ idView' \in [Tokens -> Entry \cup {Nil}]
        /\ lease' \in [Tokens -> LeaseStates]
    BY <1>1, <1>3, StoreSame
  <2>. QED  BY <1>0, <1>1, <1>3, <2>1, ReturnInner
<1>4. CASE useLock(Top(p).t, p) /\ lookupInternal(p, Top(p).t, FALSE, "store")
  <2>1. PICK t \in Tokens : t = Top(p).t
    BY <1>0, Parts, TopType, ActivationType
  <2>. QED  BY <1>0, <1>1, <1>4, <2>1, UseLockedStep
<1>. QED  BY <1>2, <1>3, <1>4 DEF UseToken

\* UseToken stores the entry with one use less and returns or goes on to
\* revoke the token.
LEMMA UseStoredType ==
    ASSUME Shape, NEW p \in Procs, proc[p].stack # <<>>, Top(p).fn = "use",
           Goto(p, "lazyRevoke") \/ Return(p)
    PROVE  /\ ProcType' /\ Others(p) /\ StackOK(proc'[p].stack) /\ FramesKept /\ OpsKept
           /\ \A u \in Tokens : ~Using(p, u)'
<1>0. Top(p).fn \in {"use", "create"} /\ Top(p).fn \notin Inner
  BY DEF Inner
<1>1. CASE Return(p)
  <2>1. /\ ProcType' /\ Others(p) /\ StackOK(proc'[p].stack) /\ proc'[p].stack = <<>>
        /\ FramesKept /\ OpsKept
    BY <1>0, <1>1, OuterReturn
  <2>. QED  BY <2>1 DEF Using
<1>2. CASE Goto(p, "lazyRevoke")
  <2>1. "lazyRevoke" \in Places \ {"child", "orphan", "pop"}
    BY DEF Places, StorageAccess
  <2>2. /\ ProcType' /\ Others(p) /\ StackOK(proc'[p].stack) /\ FramesKept
        /\ Base(p)'.fn = Top(p).fn /\ Base(p)'.pc = "lazyRevoke"
    BY <1>0, <1>2, <2>1, OuterGoto
  <2>3. OpsKept
    <3> SUFFICES ASSUME NEW q \in Procs, NEW u \in Tokens
                 PROVE  /\ Creating(q, u)' => Creating(q, u)
                        /\ Early(q, u)' => Early(q, u)
                        /\ Using(q, u)' => Using(q, u)
                        /\ Holding(q, u)' => Holding(q, u) /\ Base(q)' = Base(q)
      BY DEF OpsKept
    <3>1. CASE q = p
      BY <2>2, <3>1 DEF Creating, Early, Using, Holding
    <3>2. CASE q # p
      <4>1. proc'[q] = proc[q] /\ Base(q)' = Base(q)
        BY <2>2, <3>2 DEF Others, Base
      <4>. QED  BY <4>1 DEF Creating, Early, Using, Holding
    <3>. QED  BY <3>1, <3>2
  <2>4. \A u \in Tokens : ~Using(p, u)'
    BY <2>2 DEF Using
  <2>. QED  BY <2>2, <2>3, <2>4
<1>. QED  BY <1>1, <1>2

LEMMA useStoreStep ==
    ASSUME IInv, NEW p \in Procs, useStore(p)
    PROVE  IInv'
<1>0. proc[p].stack # <<>> /\ Top(p).fn = "use" /\ Top(p).pc = "store"
  BY DEF useStore, At
<1>1. UNCHANGED <<lease, created, deleted, orphaned>>
  BY DEF useStore
<1>2. CASE Top(p).entry = Nil
  <2>1. ReturnErr(p) /\ UNCHANGED <<idView, used>>
    BY <1>2 DEF useStore
  <2>. QED  BY <1>0, <1>1, <2>1, ReturnErrStep
<1>3. CASE Top(p).entry # Nil
  <2>1. Shape /\ Top(p).fn \notin Inner /\ Top(p) \in Activation
    BY <1>0, Parts, TopType DEF Inner
  <2>2. PICK t \in Tokens : t = Top(p).t
    BY <2>1, ActivationType
  <2>3. PICK e \in Entry : e = Top(p).entry
    BY <1>3, <2>1, ActivationType
  <2>4. Base(p) = Top(p) /\ Holding(p, t) /\ Using(p, t) /\ Base(p).entry = e
    BY <1>0, <1>3, <2>1, <2>2, <2>3, TopOuter DEF Holding, Using
  <2>5. e.uses \in Nat /\ tokenLocks[t] = p
    <3>1. tokenLocks[t] = p /\ e.uses >= 0
      BY <2>4, Parts DEF UseLockInv
    <3>2. e.uses = tokenRevocationPending \/ e.uses \in Nat
      BY DEF Entry
    <3>. QED  BY <3>1, <3>2 DEF tokenRevocationPending
  <2>6. ~Fresh(t) /\ (~Unborn(t) \/ t \in orphaned) /\ ~Closed(t)
    <3>1. ~Fresh(t)
      BY <2>4, Parts DEF LeaseInv
    <3>2. ~Unborn(t) \/ t \in orphaned
      BY <3>1 DEF Fresh, Past, Unborn, Early
    <3>. QED  BY <2>4, <3>1, <3>2 DEF Closed
  <2>7. PICK n : n = usesAfter(e.uses)
    OBVIOUS
  <2>8. n \in Nat \cup {tokenRevocationPending} /\ n = IF e.uses = 1 THEN tokenRevocationPending ELSE e.uses - 1
    BY <2>5, <2>7 DEF usesAfter, tokenRevocationPending
  <2>9. PICK g : g = [e EXCEPT !.uses = n]
    OBVIOUS
  <2>10. g \in Entry /\ g.uses = n
    BY <2>8, <2>9, EntryUses
  <2>11. /\ idView' = [idView EXCEPT ![t] = g]
         /\ tokenLocks' = [tokenLocks EXCEPT ![t] = Nil]
         /\ used' = [used EXCEPT ![t] = @ + 1]
         /\ Goto(p, "lazyRevoke") \/ Return(p)
    BY <1>3, <2>2, <2>3, <2>7, <2>9 DEF useStore
  <2>12. /\ idView \in [Tokens -> Entry \cup {Nil}] /\ used \in [Tokens -> Nat]
         /\ tokenLocks \in [Tokens -> Procs \cup {Nil}] /\ lease' \in [Tokens -> LeaseStates]
    BY <1>1, <2>1 DEF Shape
  <2>13. /\ idView' \in [Tokens -> Entry \cup {Nil}] /\ idView'[t] = g
         /\ \A u \in Tokens : u # t => idView'[u] = idView[u]
    BY <2>10, <2>11, <2>12
  <2>14. /\ used' \in [Tokens -> Nat] /\ used'[t] = used[t] + 1 /\ used[t] \in Nat
         /\ \A u \in Tokens : u # t => used'[u] = used[u]
    BY <2>11, <2>12
  <2>15. /\ tokenLocks' \in [Tokens -> Procs \cup {Nil}]
         /\ \A u \in Tokens : u # t => tokenLocks'[u] = tokenLocks[u]
    BY <2>11, <2>12
  <2>16. /\ ProcType' /\ Others(p) /\ StackOK(proc'[p].stack) /\ FramesKept /\ OpsKept
         /\ \A u \in Tokens : ~Using(p, u)'
    BY <1>0, <2>1, <2>11, UseStoredType
  <2>17. \A q \in Procs : ~Using(q, t)'
    <3> SUFFICES ASSUME NEW q \in Procs, Using(q, t)' PROVE FALSE
      OBVIOUS
    <3>1. Using(q, t)
      BY <2>16 DEF OpsKept
    <3>2. q = p
      BY <2>5, <3>1, Parts DEF UseLockInv
    <3>. QED  BY <2>16, <3>2
  <2>18. \A u \in Tokens : (Past(u) => Past(u)') /\ (Unborn(u)' => Unborn(u))
    BY <1>1, <2>16, PastKept
  <2>19. \A u \in Tokens, q \in Procs : Holding(q, u)' => u # t /\ Holding(q, u) /\ Base(q)' = Base(q)
    BY <2>16, <2>17 DEF OpsKept, Holding
  <2>20. Shape'
    BY <2>1, <2>12, <2>13, <2>14, <2>15, <2>16, StacksOK
  <2>21. CreateInv'
    BY <1>1, <2>16, OpsCreate
  <2>22. UseLockInv'
    BY <2>15, <2>16, <2>17, LocksKept
  <2>23. UsesInv'
    <3> SUFFICES ASSUME NEW u \in Tokens, NumUses[u] > 0, u \notin orphaned
                 PROVE  /\ used'[u] <= NumUses[u]
                        /\ idView'[u] # Nil => Left(u, idView[u])'
                        /\ \A q \in Procs : Holding(q, u)' =>
                             Left(u, Base(q).entry)' /\ Base(q)'.entry.uses >= 1
      BY <1>1 DEF UsesInv
    <3>1. CASE u = t
      <4>1. Left(t, e) /\ e.uses >= 1
        BY <2>4, <3>1, Parts DEF UsesInv
      <4>2. e.uses + used[t] <= NumUses[t] /\ e.uses >= 1 /\ NumUses[t] \in Nat
        BY <4>1, <2>5, TokenAssumption DEF Left, tokenRevocationPending
      <4>3. used'[t] <= NumUses[t]
        BY <2>5, <2>14, <4>2
      <4>4. n = tokenRevocationPending \/ (n >= 1 /\ n + used'[t] <= NumUses[t])
        BY <2>5, <2>8, <2>14, <4>2
      <4>5. Left(t, idView[t])'
        BY <2>10, <2>13, <4>4 DEF Left
      <4>. QED  BY <2>19, <3>1, <4>3, <4>5
    <3>2. CASE u # t
      <4>1. used'[u] = used[u] /\ idView'[u] = idView[u]
        BY <2>13, <2>14, <3>2
      <4>2. /\ used[u] <= NumUses[u]
            /\ idView[u] # Nil => Left(u, idView[u])
        BY Parts DEF UsesInv
      <4>3. idView'[u] # Nil => Left(u, idView[u])'
        BY <4>1, <4>2 DEF Left
      <4>4. ASSUME NEW q \in Procs, Holding(q, u)'
            PROVE  Left(u, Base(q).entry)' /\ Base(q)'.entry.uses >= 1
        <5>1. Holding(q, u) /\ Base(q)' = Base(q)
          BY <2>19, <4>4
        <5>2. Left(u, Base(q).entry) /\ Base(q).entry.uses >= 1
          BY <5>1, Parts DEF UsesInv
        <5>. QED  BY <4>1, <5>1, <5>2 DEF Left
      <4>. QED  BY <4>1, <4>2, <4>3, <4>4
    <3>. QED  BY <3>1, <3>2
  <2>24. LeaseInv'
    <3>1. \A u \in Tokens : Fresh(u)' => u # t
      BY <1>1, <2>6, <2>18, FreshKept
    <3>. QED  BY <1>1, <2>14, <2>18, <2>19, <3>1, LeaseKept
  <2>25. UnbornInv'
    <3> SUFFICES ASSUME NEW u \in Tokens, Unborn(u)', u \notin orphaned PROVE idView'[u] = Nil
      BY <1>1 DEF UnbornInv
    <3>1. Unborn(u) /\ u # t
      BY <2>6, <2>18
    <3>. QED  BY <2>13, <3>1, Parts DEF UnbornInv
  <2>26. CoreStep
    <3>1. ASSUME NEW u \in Tokens, Closed(u) PROVE Closed(u)'
      <4>1. idView'[u] = idView[u]
        BY <2>6, <2>13, <3>1
      <4>. QED  BY <2>19, <3>1, <4>1 DEF Closed
    <3>. QED  BY <1>1, <2>18, <3>1 DEF CoreStep
  <2>27. RevokeInv' /\ DeletedInv'
    BY <1>1, <2>16, <2>26, CoreKept
  <2>. QED  BY <2>20, <2>21, <2>22, <2>23, <2>24, <2>25, <2>27 DEF IInv
<1>. QED  BY <1>2, <1>3

-----------------------------------------------------------------------------
(* The invariant.                                                          *)

\* A request begins: nobody else creates the token that it creates, which
\* nobody has created before.
LEMMA BeginStep ==
    ASSUME IInv, NEW p \in Requests, NEW call \in Calls, Begin(p, call[1], call[2])
    PROVE  IInv'
<1>0. /\ p \in Procs /\ Shape /\ call[1] \in Outer /\ call[2] \in Tokens
      /\ call[1] = "create" => Parent[call[2]] # Nil
  BY Parts, TokenAssumption DEF Procs, Outer
<1>1. PICK op \in Outer, t \in Tokens : op = call[1] /\ t = call[2]
  BY <1>0
<1>2. PICK f : f = Frame(op, t, firstPlace(op))
  OBVIOUS
<1>3. /\ f \in Activation /\ f.fn = op /\ f.t = t /\ f.pc = firstPlace(op) /\ f.entry = Nil
  <2>1. firstPlace(op) \in Places \ {"child", "orphan", "pop"}
    BY DEF firstPlace, Places, StorageAccess
  <2>. QED  BY <1>2, <2>1, FrameType
<1>4. /\ proc' = [proc EXCEPT ![p] = [stack |-> <<f>>, result |-> "running"]]
      /\ op = "create" => t \notin created /\ Parent[t] # Nil
      /\ created' = IF op = "create" THEN created \cup {t} ELSE created
      /\ UNCHANGED <<idView, lease, tokenLocks, used, deleted, orphaned>>
  BY <1>0, <1>1, <1>2 DEF Begin, storeVars
<1>5. /\ ProcType' /\ Others(p) /\ StackOK(proc'[p].stack)
      /\ Len(proc'[p].stack) = 1 /\ proc'[p].stack[1] = f
      /\ proc'[p].stack # <<>> /\ Base(p)' = f
  BY <1>0, <1>3, <1>4, BeginType
<1>6. Shape'
  BY <1>0, <1>4, <1>5, StacksOK DEF Shape
<1>7. FramesKept
  <2>1. PICK N : N = {f}
    OBVIOUS
  <2>2. \A i \in 1 .. Len(proc'[p].stack) : proc'[p].stack[i] \in N
    BY <1>5, <2>1
  <2>3. \A h \in N : h.fn # "revokeInternal"
    BY <1>3, <2>1 DEF Outer
  <2>. QED  BY <1>0, <1>5, <2>2, <2>3, FramesStep
<1>8. ASSUME NEW q \in Procs, NEW u \in Tokens
      PROVE  /\ Creating(q, u)' => Creating(q, u) \/ (q = p /\ u = t /\ op = "create")
             /\ Early(q, u)' => Early(q, u) \/ (q = p /\ u = t /\ op = "create")
             /\ Using(q, u)' => Using(q, u)
             /\ Holding(q, u)' => Holding(q, u) /\ Base(q)' = Base(q)
  <2>1. CASE q = p
    <3>1. f.pc # "store"
      BY <1>3 DEF firstPlace
    <3>. QED  BY <1>3, <1>5, <2>1, <3>1 DEF Creating, Early, Using, Holding
  <2>2. CASE q # p
    <3>1. proc'[q] = proc[q] /\ Base(q)' = Base(q)
      BY <1>5, <2>2 DEF Others, Base
    <3>. QED  BY <3>1 DEF Creating, Early, Using, Holding
  <2>. QED  BY <2>1, <2>2
<1>9. CASE op # "create"
  <2>1. OpsKept /\ created' = created
    BY <1>4, <1>8, <1>9 DEF OpsKept
  <2>2. StoreStep
    BY <1>4, <2>1, StoreSame
  <2>3. UseLockInv'
    BY <1>4, <2>1, LocksKept
  <2>. QED  BY <1>4, <1>6, <1>7, <2>1, <2>2, <2>3, QuietStep
<1>10. CASE op = "create"
  <2>1. t \notin created /\ t \notin Existing /\ Parent[t] # Nil /\ created' = created \cup {t}
    BY <1>4, <1>10, Parts DEF CreateInv
  <2>2. \A q \in Procs : ~Creating(q, t)
    BY <2>1, Parts DEF CreateInv
  <2>3. CreateInv'
    <3>1. Existing \subseteq created'
      BY <2>1, Parts DEF CreateInv
    <3>2. \A q \in Procs, u \in Tokens :
            Creating(q, u)' => u \in created' \ Existing /\ Parent[u] # Nil
      BY <1>8, <2>1, Parts DEF CreateInv
    <3>3. \A q, r \in Procs, u \in Tokens : Creating(q, u)' /\ Creating(r, u)' => q = r
      <4> SUFFICES ASSUME NEW q \in Procs, NEW r \in Procs, NEW u \in Tokens,
                          Creating(q, u)', Creating(r, u)'
                   PROVE  q = r
        OBVIOUS
      <4>1. CASE u = t
        BY <1>8, <2>2, <4>1
      <4>2. CASE u # t
        <5>1. Creating(q, u) /\ Creating(r, u)
          BY <1>8, <4>2
        <5>. QED  BY <5>1, Parts DEF CreateInv
      <4>. QED  BY <4>1, <4>2
    <3>. QED  BY <3>1, <3>2, <3>3 DEF CreateInv
  <2>4. ASSUME NEW u \in Tokens
        PROVE  (Past(u) => Past(u)') /\ (Unborn(u)' => Unborn(u))
    <3>1. CASE u = t
      BY <2>1, <3>1 DEF Past, Unborn
    <3>2. CASE u # t
      <4>1. \A q \in Procs : (Creating(q, u)' => Creating(q, u)) /\ (Early(q, u)' => Early(q, u))
        BY <1>8, <3>2
      <4>2. u \in created' <=> u \in created
        BY <2>1, <3>2
      <4>. QED  BY <4>1, <4>2 DEF Past, Unborn
    <3>. QED  BY <3>1, <3>2
  <2>5. UseLockInv'
    <3> SUFFICES ASSUME NEW q \in Procs, NEW u \in Tokens
                 PROVE  /\ Using(q, u)' => tokenLocks'[u] = q
                        /\ Holding(q, u)' => Base(q)'.entry.uses >= 0
      BY DEF UseLockInv
    <3>1. /\ Using(q, u) => tokenLocks[u] = q
          /\ Holding(q, u) => Base(q).entry.uses >= 0
      BY Parts DEF UseLockInv
    <3>. QED  BY <1>4, <1>8, <3>1
  <2>6. UsesInv'
    <3> SUFFICES ASSUME NEW u \in Tokens, NumUses[u] > 0, u \notin orphaned
                 PROVE  /\ used'[u] <= NumUses[u]
                        /\ idView'[u] # Nil => Left(u, idView[u])'
                        /\ \A q \in Procs : Holding(q, u)' =>
                             Left(u, Base(q).entry)' /\ Base(q)'.entry.uses >= 1
      BY <1>4 DEF UsesInv
    <3>1. /\ used[u] <= NumUses[u]
          /\ idView[u] # Nil => Left(u, idView[u])
      BY Parts DEF UsesInv
    <3>2. idView'[u] # Nil => Left(u, idView[u])'
      BY <1>4, <3>1 DEF Left
    <3>3. ASSUME NEW q \in Procs, Holding(q, u)'
          PROVE  Left(u, Base(q).entry)' /\ Base(q)'.entry.uses >= 1
      <4>1. Holding(q, u) /\ Base(q)' = Base(q)
        BY <1>8, <3>3
      <4>2. Left(u, Base(q).entry) /\ Base(q).entry.uses >= 1
        BY <4>1, Parts DEF UsesInv
      <4>. QED  BY <1>4, <4>1, <4>2 DEF Left
    <3>. QED  BY <1>4, <3>1, <3>2, <3>3
  <2>7. LeaseInv'
    BY <1>4, <1>8, <2>4, LeaseKept
  <2>8. UnbornInv'
    <3> SUFFICES ASSUME NEW u \in Tokens, Unborn(u)', u \notin orphaned PROVE idView'[u] = Nil
      BY <1>4 DEF UnbornInv
    <3>. QED  BY <1>4, <2>4, Parts DEF UnbornInv
  <2>9. CoreStep
    <3>1. ASSUME NEW u \in Tokens, Closed(u) PROVE Closed(u)'
      BY <1>4, <1>8, <3>1 DEF Closed
    <3>. QED  BY <1>4, <2>4, <3>1 DEF CoreStep
  <2>10. RevokeInv' /\ DeletedInv'
    BY <1>4, <1>7, <2>9, CoreKept
  <2>. QED  BY <1>6, <2>3, <2>5, <2>6, <2>7, <2>8, <2>10 DEF IInv
<1>. QED  BY <1>9, <1>10

LEMMA InitInv ==
    ASSUME Init PROVE IInv
<1>1. \A p \in Procs : proc[p].stack = <<>>
  BY DEF Init, Quiet
<1>2. /\ used = [t \in Tokens |-> 0] /\ deleted = {} /\ created = Existing /\ orphaned = {}
      /\ \A t \in Tokens : tokenLocks[t] = Nil
      /\ \A t \in Tokens : lease[t] = IF t \in Existing THEN "live" ELSE "none"
  BY DEF Init
<1>3. \A p \in Procs, t \in Tokens :
        ~Creating(p, t) /\ ~Early(p, t) /\ ~Using(p, t) /\ ~Holding(p, t)
  BY <1>1 DEF Creating, Early, Using, Holding
<1>4. ASSUME NEW t \in Tokens
      PROVE  \/ idView[t] = Nil /\ t \notin Existing
             \/ idView[t] \in Entry /\ idView[t].uses = NumUses[t] /\ t \in Existing
  <2>1. NumUses[t] \in Nat /\ Parent[t] \in Tokens \cup {Nil}
    BY TokenAssumption
  <2>2. PICK e : e = [uses |-> NumUses[t], parent |-> Parent[t]]
    OBVIOUS
  <2>3. e \in Entry /\ e.uses = NumUses[t]
    BY <2>1, <2>2 DEF Entry
  <2>. QED  BY <2>2, <2>3 DEF Init
<1>5. Shape
  <2>1. StackOK(<<>>)
    BY DEF StackOK
  <2>2. idView \in [Tokens -> Entry \cup {Nil}]
    BY <1>4 DEF Init
  <2>3. proc \in [Procs -> [stack : Seq(Activation), result : {"none", "running", "ok", "failed"}]]
    BY DEF Init, Quiet
  <2>4. lease \in [Tokens -> LeaseStates]
    BY DEF Init, LeaseStates
  <2>5. tokenLocks \in [Tokens -> Procs \cup {Nil}] /\ used \in [Tokens -> Nat]
    BY DEF Init
  <2>. QED  BY <1>1, <2>1, <2>2, <2>3, <2>4, <2>5 DEF Shape
<1>6. CreateInv /\ UseLockInv /\ LeaseInv /\ UnbornInv
  BY <1>2, <1>3, <1>4 DEF CreateInv, UseLockInv, LeaseInv, UnbornInv, Past, Unborn
<1>7. UsesInv
  <2> SUFFICES ASSUME NEW t \in Tokens, NumUses[t] > 0
               PROVE  used[t] <= NumUses[t] /\ (idView[t] # Nil => Left(t, idView[t]))
    BY <1>3 DEF UsesInv
  <2>1. NumUses[t] \in Nat /\ used[t] = 0
    BY <1>2, TokenAssumption
  <2>. QED  BY <1>4, <2>1 DEF Left
<1>8. RevokeInv /\ DeletedInv
  BY <1>1, <1>2 DEF RevokeInv, DeletedInv
<1>. QED  BY <1>5, <1>6, <1>7, <1>8 DEF IInv

LEMMA StepStep ==
    ASSUME IInv, NEW p \in Procs, Step(p)
    PROVE  IInv'
<1>1. CASE Create(p)
  BY <1>1, storeParentLookupStep, storeIndexStep, storePrimaryStep, RegisterAuthStep DEF Create
<1>2. CASE Use(p)
  BY <1>2, useLookupStep, UseTokenStep, useStoreStep, LazyRevokeStep DEF Use
<1>3. CASE RevokeHandler(p)
  BY <1>3, revokeLookupStep, handleRevokeTreeStep, handleRevokeOrphanStep DEF RevokeHandler
<1>4. CASE Revoke(p)
  BY <1>4, RevokeLoadStep, RevokeDeleteStep DEF Revoke
<1>5. CASE revokeTreeInternal(p)
  BY <1>5, revokeTreeInternalStep
<1>6. CASE revokeInternal(p)
  BY <1>6, LoadOrStoreStep, internalLookupStep, markRevokedStep, RevokeByTokenStep,
     clearParentIndexStep, listChildrenStep, childLookupStep, orphanChildStep, deleteEntryStep
     DEF revokeInternal
<1>. QED  BY <1>1, <1>2, <1>3, <1>4, <1>5, <1>6 DEF Step

LEMMA StutterStep ==
    ASSUME IInv, UNCHANGED vars
    PROVE  IInv'
<1>1. UNCHANGED <<idView, lease, tokenLocks, proc, created, used, deleted, orphaned>>
  BY DEF vars, storeVars, histVars
<1>2. OpsKept
  BY <1>1 DEF OpsKept, Creating, Early, Using, Holding, Base
<1>3. Shape'
  BY <1>1, Parts DEF Shape
<1>4. UseLockInv'
  BY <1>1, <1>2, LocksKept
<1>5. FramesKept
  BY <1>1 DEF FramesKept
<1>6. StoreStep
  BY <1>1, StoreSame
<1>. QED  BY <1>1, <1>2, <1>3, <1>4, <1>5, <1>6, QuietStep

LEMMA NextStep ==
    ASSUME IInv, [Next]_vars
    PROVE  IInv'
<1>1. ASSUME NEW p \in Requests, NEW call \in Calls, Begin(p, call[1], call[2]) PROVE IInv'
  BY <1>1, BeginStep
<1>2. ASSUME NEW p \in Workers, NEW t \in Tokens, ExpireJob(p, t) PROVE IInv'
  BY <1>2, ExpireJobStep
<1>3. ASSUME NEW p \in Procs, Step(p) \/ Fault(p) PROVE IInv'
  BY <1>3, StepStep, FaultStep
<1>4. ASSUME NEW t \in Expiring, Expire(t) PROVE IInv'
  <2>1. t \in Tokens
    BY TokenAssumption
  <2>. QED  BY <1>4, <2>1, ExpireStep
<1>5. CASE Restart
  BY <1>5, RestartStep
<1>6. CASE UNCHANGED vars
  BY <1>6, StutterStep
<1>. QED  BY <1>1, <1>2, <1>3, <1>4, <1>5, <1>6 DEF Next

\* The inductive invariant holds: every stack of activations is in order, a
\* token is created once and has no lease before RegisterAuth, UseToken has
\* the lock of its token, and a token that revokeInternal is done with has no
\* lease or no entry that a lookup returns.
THEOREM TokenInvariant == Spec => []IInv
<1>1. Init => IInv
  BY InitInv
<1>2. IInv /\ [Next]_vars => IInv'
  BY NextStep
<1>. QED  BY <1>1, <1>2, PTL DEF Spec

\* A token is used no more often than it was created for, unless an orphaning
\* stored its entry: UseToken reads the entry again under the lock.
THEOREM UsesSafety == Spec => []UsesBoundedUnlessOrphaned
<1>1. IInv => UsesBoundedUnlessOrphaned
  BY Parts DEF UsesInv, UsesBoundedUnlessOrphaned
<1>. QED  BY <1>1, TokenInvariant, PTL

-----------------------------------------------------------------------------
(* Who is let through.                                                     *)

\* The activation on top of the stack of p after a step.
LEMMA TopSet ==
    ASSUME Shape, NEW p \in Procs, NEW s, s # <<>>, SetStack(p, s)
    PROVE  proc'[p].stack = s /\ Top(p)' = Head(s) /\ Others(p)
<1>1. proc \in [Procs -> [stack : Seq(Activation), result : {"none", "running", "ok", "failed"}]]
  BY DEF Shape
<1>2. proc' = [proc EXCEPT ![p] = [@ EXCEPT !.stack = s]]
  BY DEF SetStack
<1>3. proc'[p].stack = s
  BY <1>1, <1>2
<1>4. Others(p)
  BY <1>1, <1>2 DEF Others
<1>. QED  BY <1>3, <1>4 DEF Top

LEMMA SeqWider ==
    ASSUME NEW S, NEW T, S \subseteq T, NEW s \in Seq(S)
    PROVE  s \in Seq(T)
  OBVIOUS

LEMMA TopBecome ==
    ASSUME Shape, NEW p \in Procs, proc[p].stack # <<>>, NEW f, Become(p, f)
    PROVE  Top(p)' = f /\ Others(p)
<1>0. PICK S : S = Activation \cup {f}
  OBVIOUS
<1>1. proc[p].stack \in Seq(S) /\ Rest(p) = Tail(proc[p].stack) /\ f \in S
  BY <1>0, StackType, SeqWider DEF Rest
<1>2. PICK s : s = <<f>> \o Tail(proc[p].stack)
  OBVIOUS
<1>3. s \in Seq(S) /\ Len(s) = Len(proc[p].stack) /\ s[1] = f /\ s # <<>>
  BY <1>1, <1>2, BecomeSeq, EmptySeq
<1>4. SetStack(p, s) /\ Head(s) = f
  BY <1>1, <1>2, <1>3, TailSeq DEF Become
<1>. QED  BY <1>3, <1>4, TopSet

LEMMA TopCall ==
    ASSUME Shape, NEW p \in Procs, proc[p].stack # <<>>, NEW f, NEW g, Call(p, f, g)
    PROVE  Top(p)' = g /\ Others(p)
<1>0. PICK S : S = Activation \cup {f, g}
  OBVIOUS
<1>1. /\ proc[p].stack \in Seq(S) /\ Rest(p) = Tail(proc[p].stack) /\ f \in S /\ g \in S
      /\ Len(proc[p].stack) \in Nat
  BY <1>0, StackType, SeqWider, LenProperties DEF Rest
<1>2. PICK s : s = <<g, f>> \o Tail(proc[p].stack)
  OBVIOUS
<1>3. s \in Seq(S) /\ Len(s) = Len(proc[p].stack) + 1 /\ s[1] = g
  BY <1>1, <1>2, CallSeq
<1>4. s # <<>>
  BY <1>1, <1>3
<1>5. SetStack(p, s) /\ Head(s) = g
  BY <1>1, <1>2, <1>3, <1>4, TailSeq DEF Call
<1>. QED  BY <1>4, <1>5, TopSet

\* A return and an error let nobody through.
LEMMA ReturnBars ==
    ASSUME Shape, NEW p \in Procs, proc[p].stack # <<>>, Return(p)
    PROVE  ~Granted(p)' /\ Others(p)
<1>1. /\ Others(p) /\ StackOK(proc'[p].stack)
      /\ proc'[p].stack # <<>> /\ proc'[p].stack[1].fn = "use" => proc'[p].stack[1].entry = Nil
  BY ReturnStep
<1>2. proc'[p].stack # <<>> => Top(p)' = proc'[p].stack[1]
  BY <1>1, TailSeq DEF Top, StackOK
<1>. QED  BY <1>1, <1>2 DEF Granted

LEMMA ReturnErrBars ==
    ASSUME IInv, NEW p \in Procs, proc[p].stack # <<>>, ReturnErr(p)
    PROVE  ~Granted(p)' /\ Others(p)
<1>1. /\ Others(p)
      /\ \/ proc'[p].stack = <<>>
         \/ \E f \in Activation : /\ f.fn = "revokeInternal" /\ f.pc = "flag"
                                  /\ proc'[p].stack = <<f>>
  BY ReturnErrType
<1>2. CASE proc'[p].stack = <<>>
  BY <1>1, <1>2 DEF Granted
<1>3. CASE \E f \in Activation : f.fn = "revokeInternal" /\ proc'[p].stack = <<f>>
  <2>1. PICK f \in Activation : f.fn = "revokeInternal" /\ proc'[p].stack = <<f>>
    BY <1>3
  <2>2. Head(<<f>>) = f
    OBVIOUS
  <2>3. Top(p)' = f
    BY <2>1, <2>2 DEF Top
  <2>. QED  BY <1>1, <2>1, <2>3 DEF Granted
<1>. QED  BY <1>1, <1>2, <1>3

\* Nor does a step to another function or place.
LEMMA BecomeBars ==
    ASSUME Shape, NEW p \in Procs, proc[p].stack # <<>>, NEW f, Become(p, f),
           f.fn # "use" \/ f.pc \notin {"lock", "store"}
    PROVE  ~Granted(p)' /\ Others(p)
  BY TopBecome DEF Granted

LEMMA CallBars ==
    ASSUME Shape, NEW p \in Procs, proc[p].stack # <<>>, NEW f, NEW g, Call(p, f, g),
           g.fn # "use"
    PROVE  ~Granted(p)' /\ Others(p)
  BY TopCall DEF Granted

LEMMA GotoBars ==
    ASSUME Shape, NEW p \in Procs, proc[p].stack # <<>>,
           NEW pc \in Places \ {"child", "orphan", "pop"}, Goto(p, pc),
           Top(p).fn # "use" \/ pc \notin {"lock", "store"}
    PROVE  ~Granted(p)' /\ Others(p)
<1>1. Top(p) \in Activation
  BY TopType
<1>2. PICK f : f = Moved(Top(p), pc)
  OBVIOUS
<1>3. f \in Activation /\ f.fn = Top(p).fn /\ f.pc = pc
  BY <1>1, <1>2, MovedType
<1>4. Become(p, f)
  BY <1>2 DEF Goto, Moved
<1>. QED  BY <1>3, <1>4, BecomeBars

\* A lookup lets the request through only if it returns the entry.
LEMMA LookupBars ==
    ASSUME IInv, NEW p \in Procs, proc[p].stack # <<>>, NEW t \in Tokens,
           NEW tainted \in BOOLEAN, NEW pc \in Places \ {"child", "pop"},
           pc = "orphan" => Top(p).todo # {}, lookupInternal(p, t, tainted, pc)
    PROVE  /\ Others(p)
           /\ Granted(p)' => /\ Top(p).fn = "use" /\ Top(p)'.t = Top(p).t
                             /\ lookupResult(t, tainted) # Nil
<1>0. Shape /\ Top(p) \in Activation
  BY Parts, TopType
<1>1. CASE Leaseless(t, tainted)
  <2>1. PICK f : f = Renewed(Top(p), pc, Nil)
    OBVIOUS
  <2>2. PICK g : g = Frame("Revoke", t, "load")
    OBVIOUS
  <2>3. Call(p, f, g)
    BY <1>1, <2>1, <2>2 DEF lookupInternal, Renewed
  <2>4. f \in Activation
    BY <1>0, <2>1, LookedUp
  <2>5. g \in Activation /\ g.fn # "use"
    BY <2>2, FrameType DEF Inner, Places, StorageAccess
  <2>. QED  BY <1>0, <2>3, <2>4, <2>5, CallBars
<1>2. CASE ~Leaseless(t, tainted)
  <2>0. lookupResult(t, tainted) \in Entry \cup {Nil}
    BY <1>0, lookupResultType
  <2>1. PICK f : f = Renewed(Top(p), pc, lookupResult(t, tainted))
    OBVIOUS
  <2>2. Become(p, f)
    BY <1>2, <2>1 DEF lookupInternal, Renewed
  <2>3. /\ f \in Activation /\ f.fn = Top(p).fn /\ f.t = Top(p).t
        /\ f.entry = lookupResult(t, tainted)
    BY <1>0, <2>0, <2>1, LookedUp
  <2>4. Top(p)' = f /\ Others(p)
    BY <1>0, <2>2, <2>3, TopBecome
  <2>. QED  BY <2>3, <2>4 DEF Granted
<1>. QED  BY <1>1, <1>2

\* The two places of a use that look its token up.
Looks(p) == useLookup(p) \/ UseToken(p)

LEMMA CreateBars ==
    ASSUME IInv, NEW p \in Procs, Create(p)
    PROVE  ~Granted(p)' /\ Others(p)
<1>0. Shape /\ proc[p].stack # <<>> /\ Top(p).fn = "create" /\ Top(p).fn # "use"
  BY Parts DEF Create, storeParentLookup, storeIndex, storePrimary, RegisterAuth, At
<1>1. /\ "index" \in Places \ {"child", "orphan", "pop"}
      /\ "primary" \in Places \ {"child", "orphan", "pop"}
      /\ "register" \in Places \ {"child", "orphan", "pop"}
  BY DEF Places, StorageAccess
<1>2. CASE storeParentLookup(p)
  <2>1. PICK u \in Tokens : u = Top(p).t
    BY <1>0, TopType, ActivationType
  <2>2. Creating(p, u)
    BY <1>0, <2>1, TopOuter DEF Creating, Inner
  <2>3. PICK t \in Tokens : t = Parent[Top(p).t]
    BY <2>1, <2>2, TokenAssumption, Parts DEF CreateInv
  <2>4. lookupInternal(p, t, FALSE, "index")
    BY <1>2, <2>3 DEF storeParentLookup, Lookup
  <2>. QED  BY <1>0, <1>1, <2>4, LookupBars
<1>3. CASE storeIndex(p)
  <2>1. ReturnErr(p) \/ Goto(p, "primary")
    BY <1>3 DEF storeIndex
  <2>. QED  BY <1>0, <1>1, <2>1, ReturnErrBars, GotoBars
<1>4. CASE storePrimary(p)
  BY <1>0, <1>1, <1>4, GotoBars DEF storePrimary
<1>5. CASE RegisterAuth(p)
  BY <1>0, <1>5, ReturnBars DEF RegisterAuth
<1>. QED  BY <1>2, <1>3, <1>4, <1>5 DEF Create

LEMMA UseBars ==
    ASSUME IInv, NEW p \in Procs, useStore(p) \/ LazyRevoke(p)
    PROVE  ~Granted(p)' /\ Others(p)
<1>0. Shape /\ proc[p].stack # <<>>
  BY Parts DEF useStore, LazyRevoke, At
<1>1. ReturnErr(p) \/ Goto(p, "lazyRevoke") \/ Return(p)
  BY DEF useStore, LazyRevoke
<1>2. /\ "lazyRevoke" \in Places \ {"child", "orphan", "pop"}
      /\ "lazyRevoke" \notin {"lock", "store"}
  BY DEF Places, StorageAccess
<1>. QED  BY <1>0, <1>1, <1>2, ReturnErrBars, GotoBars, ReturnBars

LEMMA HandlerBars ==
    ASSUME IInv, NEW p \in Procs, RevokeHandler(p)
    PROVE  ~Granted(p)' /\ Others(p)
<1>0. Shape /\ proc[p].stack # <<>> /\ Top(p).fn # "use"
  BY Parts DEF RevokeHandler, revokeLookup, handleRevokeTree, handleRevokeOrphan, At
<1>1. PICK t \in Tokens : t = Top(p).t
  BY <1>0, TopType, ActivationType
<1>2. PICK f, g : f = Frame("Revoke", t, "load") /\ g = Frame("revokeInternal", t, "flag")
  OBVIOUS
<1>3. f.fn # "use" /\ g.fn # "use"
  BY <1>2 DEF Frame
<1>4. CASE revokeLookup(p)
  <2>1. lookupInternal(p, t, FALSE, "revoke")
    BY <1>1, <1>4 DEF revokeLookup, Lookup
  <2>2. "revoke" \in Places \ {"child", "pop"} /\ "revoke" # "orphan"
    BY DEF Places
  <2>. QED  BY <1>0, <2>1, <2>2, LookupBars
<1>5. CASE handleRevokeTree(p)
  <2>1. Return(p) \/ Become(p, f)
    BY <1>1, <1>2, <1>5 DEF handleRevokeTree
  <2>. QED  BY <1>0, <1>3, <2>1, ReturnBars, BecomeBars
<1>6. CASE handleRevokeOrphan(p)
  <2>1. ReturnErr(p) \/ Become(p, g)
    BY <1>1, <1>2, <1>6 DEF handleRevokeOrphan
  <2>. QED  BY <1>0, <1>3, <2>1, ReturnErrBars, BecomeBars
<1>. QED  BY <1>4, <1>5, <1>6 DEF RevokeHandler

LEMMA RevokeBars ==
    ASSUME IInv, NEW p \in Procs, Revoke(p) \/ revokeTreeInternal(p)
    PROVE  ~Granted(p)' /\ Others(p)
<1>0. Shape /\ proc[p].stack # <<>>
  BY Parts DEF Revoke, RevokeLoad, RevokeDelete, revokeTreeInternal, At
<1>1. CASE Revoke(p)
  <2>1. PICK f, g : /\ f = [Top(p) EXCEPT !.pc = "delete"]
                    /\ g = Frame("revokeTreeInternal", Top(p).t, "list")
    OBVIOUS
  <2>2. g.fn # "use"
    BY <2>1 DEF Frame
  <2>3. Return(p) \/ Call(p, f, g)
    BY <1>1, <2>1 DEF Revoke, RevokeLoad, RevokeDelete
  <2>. QED  BY <1>0, <2>2, <2>3, ReturnBars, CallBars
<1>2. CASE revokeTreeInternal(p)
  <2>1. PICK h \in Activation : h = Top(p) /\ h.fn = "revokeTreeInternal"
    BY <1>0, <1>2, TopType DEF revokeTreeInternal, At
  <2>2. PICK id : id = Last(h.dfs)
    OBVIOUS
  <2>3. PICK new : new = unseen(h, {c \in Tokens : <<id, c>> \in parentView})
    OBVIOUS
  <2>4. PICK g : g = [h EXCEPT !.seenIDs = @ \cup {id}]
    OBVIOUS
  <2>5. PICK f, k, n : /\ f = [g EXCEPT !.pc = "pop"]
                       /\ k = [Frame("revokeInternal", id, "flag") EXCEPT !.skipOrphan = TRUE]
                       /\ n = [g EXCEPT !.dfs = @ \o SetToSeq(new)]
    OBVIOUS
  <2>6. k.fn # "use"
    BY <2>5 DEF Frame
  <2>7. n.fn # "use"
    <3>1. h \in [fn : Inner \cup Outer, t : Tokens, pc : Places, entry : Entry \cup {Nil},
                 skipOrphan : BOOLEAN, dfs : Seq(Tokens), seenIDs : SUBSET Tokens,
                 todo : SUBSET Tokens]
      BY DEF Activation
    <3>. QED  BY <2>1, <2>4, <2>5, <3>1
  <2>8. Call(p, f, k) \/ Become(p, n)
    BY <1>2, <2>1, <2>2, <2>3, <2>4, <2>5 DEF revokeTreeInternal
  <2>. QED  BY <1>0, <2>6, <2>7, <2>8, CallBars, BecomeBars
<1>. QED  BY <1>1, <1>2

LEMMA InternalBars ==
    ASSUME IInv, NEW p \in Procs, revokeInternal(p)
    PROVE  ~Granted(p)' /\ Others(p)
<1>0. Shape /\ proc[p].stack # <<>> /\ Top(p).fn = "revokeInternal" /\ Top(p).fn # "use"
  BY Parts DEF revokeInternal, LoadOrStore, internalLookup, markRevoked, RevokeByToken,
     clearParentIndex, listChildren, childLookup, orphanChild, deleteEntry, At
<1>1. PICK h \in Activation : h = Top(p)
  BY <1>0, TopType
<1>2. h \in [fn : Inner \cup Outer, t : Tokens, pc : Places, entry : Entry \cup {Nil},
             skipOrphan : BOOLEAN, dfs : Seq(Tokens), seenIDs : SUBSET Tokens,
             todo : SUBSET Tokens]
  BY DEF Activation
<1>3. /\ "lookup" \in Places \ {"child", "orphan", "pop"}
      /\ "leases" \in Places \ {"child", "orphan", "pop"}
      /\ "index" \in Places \ {"child", "orphan", "pop"}
      /\ "delete" \in Places \ {"child", "orphan", "pop"}
      /\ "children" \in Places \ {"child", "orphan", "pop"}
      /\ "mark" \in Places \ {"child", "orphan", "pop"}
      /\ "orphan" \in Places \ {"child", "pop"}
  BY DEF Places, StorageAccess
<1>4. CASE LoadOrStore(p) \/ markRevoked(p) \/ RevokeByToken(p) \/ clearParentIndex(p)
           \/ deleteEntry(p)
  <2>1. \/ Return(p)
        \/ \E pc \in {"lookup", "leases", "index", "delete", "children"} : Goto(p, pc)
    BY <1>4 DEF LoadOrStore, markRevoked, RevokeByToken, clearParentIndex, deleteEntry
  <2>2. CASE Return(p)
    BY <1>0, <2>2, ReturnBars
  <2>3. ASSUME NEW pc \in {"lookup", "leases", "index", "delete", "children"}, Goto(p, pc)
        PROVE  ~Granted(p)' /\ Others(p)
    <3>1. pc \in Places \ {"child", "orphan", "pop"}
      BY <1>3
    <3>. QED  BY <1>0, <2>3, <3>1, GotoBars
  <2>. QED  BY <2>1, <2>2, <2>3
<1>5. CASE internalLookup(p)
  <2>1. PICK t \in Tokens : t = Top(p).t
    BY <1>1, ActivationType
  <2>2. lookupInternal(p, t, TRUE, "mark")
    BY <1>5, <2>1 DEF internalLookup
  <2>. QED  BY <1>0, <1>3, <2>2, LookupBars
<1>6. CASE childLookup(p)
  <2>1. PICK t \in Tokens : t = Child(p) /\ Top(p).todo # {}
    BY <1>0, <1>6, ChildType DEF childLookup, At
  <2>2. lookupInternal(p, t, TRUE, "orphan")
    BY <1>6, <2>1 DEF childLookup
  <2>. QED  BY <1>0, <1>3, <2>1, <2>2, LookupBars
<1>7. CASE listChildren(p)
  <2>1. PICK kids : kids = {c \in Tokens : <<h.t, c>> \in parentView}
    OBVIOUS
  <2>2. PICK pc : pc = IF kids = {} THEN "delete" ELSE "child"
    OBVIOUS
  <2>3. PICK f : f = [h EXCEPT !.todo = kids, !.pc = pc]
    OBVIOUS
  <2>4. Become(p, f)
    BY <1>1, <1>7, <2>1, <2>2, <2>3 DEF listChildren
  <2>5. f.fn # "use"
    BY <1>0, <1>1, <1>2, <2>3
  <2>. QED  BY <1>0, <2>4, <2>5, BecomeBars
<1>8. CASE orphanChild(p)
  <2>1. PICK pc : pc = IF h.todo = {Child(p)} THEN "delete" ELSE "child"
    OBVIOUS
  <2>2. PICK f : f = [h EXCEPT !.todo = @ \ {Child(p)}, !.entry = Nil, !.pc = pc]
    OBVIOUS
  <2>3. Become(p, f)
    BY <1>1, <1>8, <2>1, <2>2 DEF orphanChild
  <2>4. f.fn # "use"
    BY <1>0, <1>1, <1>2, <2>2
  <2>. QED  BY <1>0, <2>3, <2>4, BecomeBars
<1>. QED  BY <1>4, <1>5, <1>6, <1>7, <1>8 DEF revokeInternal

LEMMA LooksUp ==
    ASSUME IInv, NEW p \in Procs, Looks(p)
    PROVE  /\ Others(p)
           /\ Granted(p)' => Top(p)'.t \in Tokens /\ lookupResult(Top(p)'.t, FALSE) # Nil
<1>0. Shape /\ proc[p].stack # <<>>
  BY Parts DEF Looks, useLookup, UseToken, At
<1>1. PICK t \in Tokens : t = Top(p).t
  BY <1>0, TopType, ActivationType
<1>2. CASE ReturnErr(p)
  BY <1>0, <1>2, ReturnErrBars
<1>3. CASE Return(p)
  BY <1>0, <1>3, ReturnBars
<1>4. ASSUME NEW pc \in {"lock", "store"}, lookupInternal(p, t, FALSE, pc)
      PROVE  /\ Others(p)
             /\ Granted(p)' => Top(p)'.t \in Tokens /\ lookupResult(Top(p)'.t, FALSE) # Nil
  <2>1. pc \in Places \ {"child", "pop"} /\ pc # "orphan"
    BY DEF Places, StorageAccess
  <2>2. /\ Others(p)
        /\ Granted(p)' => Top(p)'.t = Top(p).t /\ lookupResult(t, FALSE) # Nil
    BY <1>0, <1>4, <2>1, LookupBars
  <2>. QED  BY <1>1, <2>2
<1>5. \/ ReturnErr(p) \/ Return(p)
      \/ \E pc \in {"lock", "store"} : lookupInternal(p, t, FALSE, pc)
  BY <1>1 DEF Looks, useLookup, UseToken, Lookup
<1>. QED  BY <1>2, <1>3, <1>4, <1>5

\* A goroutine whose request is let through has looked the token up.
LEMMA GrantedLooks ==
    ASSUME IInv, [Next]_vars, NEW p \in Procs, Granted(p)', Top(p)'.pc # Top(p).pc
    PROVE  Looks(p)
<1>0. Shape /\ proc'[p] # proc[p]
  BY Parts DEF Top
<1>1. ASSUME NEW q \in Requests, NEW call \in Calls, Begin(q, call[1], call[2]) PROVE FALSE
  <2>1. PICK f : f = Frame(call[1], call[2], firstPlace(call[1]))
    OBVIOUS
  <2>2. proc' = [proc EXCEPT ![q] = [stack |-> <<f>>, result |-> "running"]]
    BY <1>1, <2>1 DEF Begin
  <2>3. p = q /\ proc'[p].stack = <<f>>
    BY <1>0, <2>2 DEF Shape
  <2>4. Head(<<f>>) = f
    OBVIOUS
  <2>5. Top(p)' = f /\ f.entry = Nil
    BY <2>1, <2>3, <2>4 DEF Top, Frame
  <2>. QED  BY <2>5 DEF Granted
<1>2. ASSUME NEW q \in Workers, NEW t \in Tokens, ExpireJob(q, t) PROVE FALSE
  <2>1. PICK f : f = Frame("Revoke", t, "load")
    OBVIOUS
  <2>2. proc' = [proc EXCEPT ![q] = [stack |-> <<f>>, result |-> "running"]]
    BY <1>2, <2>1 DEF ExpireJob
  <2>3. p = q /\ proc'[p].stack = <<f>>
    BY <1>0, <2>2 DEF Shape
  <2>4. Head(<<f>>) = f
    OBVIOUS
  <2>5. Top(p)' = f /\ f.entry = Nil
    BY <2>1, <2>3, <2>4 DEF Top, Frame
  <2>. QED  BY <2>5 DEF Granted
<1>3. ASSUME NEW q \in Procs, Step(q) \/ Fault(q) PROVE Looks(p)
  <2>1. CASE Looks(q)
    <3>1. Others(q)
      BY <2>1, LooksUp
    <3>2. p = q
      BY <1>0, <3>1 DEF Others
    <3>. QED  BY <2>1, <3>2
  <2>2. CASE ~Looks(q)
    <3>1. \/ Create(q) \/ useStore(q) \/ LazyRevoke(q) \/ RevokeHandler(q) \/ Revoke(q)
          \/ revokeTreeInternal(q) \/ revokeInternal(q) \/ Fault(q)
      BY <1>3, <2>2 DEF Step, Use, Looks
    <3>2. CASE Fault(q)
      <4>1. proc[q].stack # <<>> /\ ReturnErr(q)
        BY <3>2 DEF Fault
      <4>. QED  BY <1>0, <4>1, ReturnErrBars DEF Others
    <3>3. CASE ~Fault(q)
      <4>1. ~Granted(q)' /\ Others(q)
        BY <3>1, <3>3, CreateBars, UseBars, HandlerBars, RevokeBars, InternalBars
      <4>. QED  BY <1>0, <4>1 DEF Others
    <3>. QED  BY <3>2, <3>3
  <2>. QED  BY <2>1, <2>2
<1>4. ASSUME NEW t \in Expiring, Expire(t) PROVE FALSE
  BY <1>0, <1>4 DEF Expire
<1>5. CASE Restart
  <2>1. proc'[p].stack = <<>>
    BY <1>0, <1>5 DEF Restart, Quiet
  <2>. QED  BY <2>1 DEF Granted
<1>6. CASE UNCHANGED vars
  BY <1>0, <1>6 DEF vars
<1>. QED  BY <1>1, <1>2, <1>3, <1>4, <1>5, <1>6 DEF Next

\* How a step changes the stored entries: not at all, or one entry is stored, or
\* one is deleted.
EntryStored(t) ==
    /\ deleted' = deleted /\ restored' = storedAgain(t)
    /\ \E e : idView' = [idView EXCEPT ![t] = e]
EntryDeleted(t) ==
    /\ deleted' = deleted \cup {t} /\ restored' = restored \ {t}
    /\ idView' = [idView EXCEPT ![t] = Nil]
Entries ==
    \/ UNCHANGED <<idView, deleted, restored>>
    \/ \E t \in Tokens : EntryStored(t) \/ EntryDeleted(t)

LEMMA EntriesOfRevocation ==
    ASSUME IInv, NEW p \in Procs, revokeInternal(p)
    PROVE  Entries
<1>0. /\ Shape /\ proc[p].stack # <<>>
  BY Parts DEF revokeInternal, LoadOrStore, internalLookup, markRevoked, RevokeByToken,
               clearParentIndex, listChildren, childLookup, orphanChild, deleteEntry, At
<1>1. Top(p) \in Activation /\ Top(p).t \in Tokens
  BY <1>0, TopType, ActivationType
<1>2. CASE \/ LoadOrStore(p) \/ internalLookup(p) \/ RevokeByToken(p) \/ clearParentIndex(p)
           \/ listChildren(p) \/ childLookup(p)
  BY <1>2 DEF LoadOrStore, internalLookup, RevokeByToken, clearParentIndex, listChildren,
              childLookup, histVars, storeVars, Entries
<1>3. CASE markRevoked(p)
  BY <1>1, <1>3 DEF markRevoked, Entries, EntryStored
<1>4. CASE orphanChild(p)
  <2>1. Top(p).todo # {} /\ Top(p).todo \subseteq Tokens
    BY <1>1, <1>4, ActivationType DEF orphanChild, At
  <2>2. Child(p) \in Tokens
    BY <2>1 DEF Child
  <2>. QED  BY <1>4, <2>2 DEF orphanChild, Entries, EntryStored
<1>5. CASE deleteEntry(p)
  BY <1>1, <1>5 DEF deleteEntry, Entries, EntryDeleted
<1>. QED  BY <1>2, <1>3, <1>4, <1>5 DEF revokeInternal

LEMMA EntriesOfStep ==
    ASSUME IInv, NEW p \in Procs, Step(p)
    PROVE  Entries
<1>0. Shape
  BY Parts
<1>1. CASE Create(p)
  <2>1. CASE storePrimary(p)
    <3>1. proc[p].stack # <<>>
      BY <2>1 DEF storePrimary, At
    <3>2. Top(p).t \in Tokens
      BY <1>0, <3>1, TopType, ActivationType
    <3>. QED  BY <2>1, <3>2 DEF storePrimary, Entries, EntryStored
  <2>2. CASE storeParentLookup(p) \/ storeIndex(p) \/ RegisterAuth(p)
    BY <2>2 DEF storeParentLookup, storeIndex, RegisterAuth, histVars, storeVars, Entries
  <2>. QED  BY <1>1, <2>1, <2>2 DEF Create
<1>2. CASE Use(p)
  <2>1. CASE useStore(p)
    <3>1. proc[p].stack # <<>>
      BY <2>1 DEF useStore, At
    <3>2. Top(p).t \in Tokens
      BY <1>0, <3>1, TopType, ActivationType
    <3>. QED  BY <2>1, <3>2 DEF useStore, Entries, EntryStored
  <2>2. CASE useLookup(p) \/ UseToken(p) \/ LazyRevoke(p)
    BY <2>2 DEF useLookup, UseToken, LazyRevoke, histVars, storeVars, Entries
  <2>. QED  BY <1>2, <2>1, <2>2 DEF Use
<1>3. CASE RevokeHandler(p)
  BY <1>3 DEF RevokeHandler, revokeLookup, handleRevokeTree, handleRevokeOrphan, histVars,
              storeVars, Entries
<1>4. CASE Revoke(p) \/ revokeTreeInternal(p)
  BY <1>4 DEF Revoke, RevokeLoad, RevokeDelete, revokeTreeInternal, histVars, storeVars, Entries
<1>5. CASE revokeInternal(p)
  BY <1>5, EntriesOfRevocation
<1>. QED  BY <1>1, <1>2, <1>3, <1>4, <1>5 DEF Step

LEMMA RestoredStep ==
    ASSUME IInv, RestoredInv, [Next]_vars
    PROVE  RestoredInv'
<1>1. Entries
  <2>1. ASSUME NEW p \in Procs, Step(p) \/ Fault(p) PROVE Entries
    BY <2>1, EntriesOfStep DEF Fault, histVars, Entries
  <2>2. CASE ~\E p \in Procs : Step(p) \/ Fault(p)
    BY <2>2 DEF Next, Begin, ExpireJob, Expire, Restart, vars, histVars, storeVars, Entries
  <2>. QED  BY <2>1, <2>2
<1>2. idView \in [Tokens -> Entry \cup {Nil}]
  BY Parts DEF Shape
<1>3. CASE UNCHANGED <<idView, deleted, restored>>
  BY <1>3 DEF RestoredInv
<1>4. ASSUME NEW t \in Tokens, EntryStored(t) PROVE RestoredInv'
  <2>1. \A d \in Tokens : d # t => idView'[d] = idView[d]
    BY <1>2, <1>4 DEF EntryStored
  <2>. QED  BY <1>4, <2>1 DEF EntryStored, storedAgain, RestoredInv
<1>5. ASSUME NEW t \in Tokens, EntryDeleted(t) PROVE RestoredInv'
  <2>1. \A d \in Tokens : idView'[d] = IF d = t THEN Nil ELSE idView[d]
    BY <1>2, <1>5 DEF EntryDeleted
  <2>. QED  BY <1>5, <2>1 DEF EntryDeleted, RestoredInv
<1>. QED  BY <1>1, <1>3, <1>4, <1>5 DEF Entries

\* The history variable restored is right: the entry of a token that was revoked
\* to the end is gone, unless a step that read it before has stored it again.
LEMMA RestoredHistory == Spec => []RestoredInv
<1>1. Init => RestoredInv
  BY DEF Init, RestoredInv
<1>2. IInv /\ RestoredInv /\ [Next]_vars => RestoredInv'
  BY RestoredStep
<1>. QED  BY <1>1, <1>2, TokenInvariant, PTL DEF Spec

\* A token that was revoked to the end is let through no more: what a lookup
\* needs is an entry that is not revoked and a live lease, and one of them is
\* missing.  Excepted are a token that an orphaning stored and that was not
\* there at first, and a root token, whose lease the lookup does not ask for,
\* when its entry was stored again after the deletion.
THEOREM RevokedSafety == Spec => RevokedStaysRevoked
<1>1. IInv /\ RestoredInv /\ [Next]_vars =>
        [\A p \in Procs : Granted(p)' /\ Top(p)'.pc # Top(p).pc =>
           \/ Top(p)'.t \notin deleted
           \/ Top(p)'.t \in orphaned \ Existing
           \/ Top(p)'.t \in Root \cap restored]_vars
  <2> SUFFICES ASSUME IInv, RestoredInv, [Next]_vars, NEW p \in Procs, Granted(p)',
                      Top(p)'.pc # Top(p).pc, Top(p)'.t \in deleted
               PROVE  \/ Top(p)'.t \in orphaned \ Existing
                      \/ Top(p)'.t \in Root \cap restored
    OBVIOUS
  <2>1. PICK t \in Tokens : t = Top(p)'.t /\ lookupResult(t, FALSE) # Nil
    BY GrantedLooks, LooksUp
  <2>2. idView[t] # Nil /\ idView[t].uses >= 0 /\ (t \in Root \/ lease[t] = "live")
    BY <2>1 DEF lookupResult
  <2>3. CASE t \in Root
    BY <2>1, <2>2, <2>3 DEF RestoredInv
  <2>4. CASE t \notin Root
    <3>1. ~Closed(t)
      BY <2>2 DEF Closed, tokenRevocationPending
    <3>2. Excepted(t)
      BY <2>1, <2>2, <2>4, <3>1, Parts DEF DeletedInv, Gone
    <3>. QED  BY <2>1, <2>4, <3>2 DEF Excepted
  <2>. QED  BY <2>3, <2>4
<1>. QED  BY <1>1, TokenInvariant, RestoredHistory, PTL DEF Spec, RevokedStaysRevoked

-----------------------------------------------------------------------------
(* The revocation of trees.                                                *)

\* Every token has its place in a tree of finite depth, and the tokens there
\* are at first are there with their parents.
Levelled(depth) ==
    /\ depth \in [Tokens -> Nat]
    /\ \A t \in Tokens : Parent[t] # Nil => depth[t] = depth[Parent[t]] + 1
Level == CHOOSE depth : Levelled(depth)
Forest ==
    /\ \E depth : Levelled(depth)
    /\ \A t \in Existing : Parent[t] \in Existing \cup {Nil}

\* The tokens whose revocation has begun or is over.
Flagged == {t \in Tokens : tokensPendingDeletion[t] = "true" \/ t \in deleted}

KidsIn(x, S) == \A d \in Existing : Parent[d] = x => d \in S

\* Activation f works on token t; it is to make d an orphan; it is to do so
\* if it finds the entry of the parent.
Revokes(f, t) == f.fn = "revokeInternal" /\ f.t = t /\ f.pc # "flag"
Cuts(f, d) ==
    /\ f.fn = "revokeInternal" /\ f.t = Parent[d] /\ ~f.skipOrphan
    /\ \/ f.pc \in {"leases", "index", "children"}
       \/ f.pc = "mark" /\ f.entry # Nil
       \/ f.pc \in {"child", "orphan"} /\ d \in f.todo
CutsSoon(f, d) ==
    f.fn = "revokeInternal" /\ f.t = Parent[d] /\ ~f.skipOrphan /\ f.pc = "lookup"

Active ==
    {f \in Activation : \E p \in Procs : \E i \in 1 .. Len(proc[p].stack) : f = proc[p].stack[i]}

\* Tokens that no walk down from their parents has to reach any more; those
\* that will be so unless the parent is gone; those that are not usable, or
\* not for long.  None of these sets ever loses a token.
Shut == {d \in Existing : d \in Flagged \cup orphaned \/ \E f \in Active : Cuts(f, d)}
Leaving == {d \in Existing : d \in Shut \/ \E f \in Active : CutsSoon(f, d)}
Ended(t) == IF t \in Root THEN t \in deleted ELSE lease[t] # "live"
NotLive == {t \in Tokens : t \in Existing => Ended(t)}
Attended == {t \in Existing : Ended(t) \/ \E f \in Active : Revokes(f, t)}

\* What an activation knows, by the sets Flagged, Shut and NotLive.  A walk has
\* the tokens of dfs in the order of their depth, and those it has seen and
\* that are not on dfs any more were revoked.
Chosen(f) == CHOOSE c \in f.todo : TRUE
RevokeOK(f, F, K, L) ==
    /\ f.skipOrphan => KidsIn(f.t, F)
    /\ f.pc # "flag" => f.t \in F
    /\ f.pc = "mark" /\ f.entry = Nil => f.t \in L
    /\ f.pc \in Deferred \ {"leases"} => KidsIn(f.t, K)
    /\ f.pc = "orphan" /\ f.entry = Nil => (Chosen(f) \in Existing => Chosen(f) \in F)
WalkOK(f, F) ==
    /\ f.dfs[1] = f.t
    /\ \A c \in f.seenIDs : c \in F \/ \E i \in 1 .. Len(f.dfs) : f.dfs[i] = c
    /\ \A i, j \in 1 .. Len(f.dfs) : i <= j => Level[f.dfs[i]] <= Level[f.dfs[j]]
    /\ f.pc = "pop" => KidsIn(Last(f.dfs), F)
FrameOK(f, F, K, L) ==
    /\ f.fn = "revokeInternal" => RevokeOK(f, F, K, L)
    /\ f.fn = "revokeTreeInternal" => WalkOK(f, F)

\* Activation f has called g.
Called(g, f) ==
    /\ g.fn = "revokeTreeInternal" <=> f.fn = "Revoke"
    /\ f.fn = "Revoke" => f.pc = "delete" /\ f.t = g.t
    /\ f.fn = "revokeTreeInternal" =>
         f.pc = "pop" /\ g.fn = "revokeInternal" /\ g.t = Last(f.dfs)
Linked(s) ==
    /\ s # <<>> => s[Len(s)].fn # "revokeTreeInternal"
    /\ \A i \in 2 .. Len(s) : Called(s[i - 1], s[i])
HeadOK(s, F) ==
    s # <<>> =>
        /\ s[1].pc # "pop"
        /\ s[1].fn = "Revoke" /\ s[1].pc = "delete" => s[1].t \in F /\ KidsIn(s[1].t, F)
TreeStack(s, F, K, L) ==
    Linked(s) /\ HeadOK(s, F) /\ \A i \in 1 .. Len(s) : FrameOK(s[i], F, K, L)

\* The index leads to every token there was at first from its parent, unless
\* it is revoked; what goes, goes after the children were taken care of.
Edges == {<<Parent[c], c>> : c \in Tokens}
IndexInv ==
    /\ parentView \subseteq Edges
    /\ \A d \in Existing :
         Parent[d] # Nil => <<Parent[d], d>> \in parentView \/ d \in Flagged
OrderInv ==
    /\ \A d \in Existing :
         /\ idView[d] = Nil => d \in deleted
         /\ lease[d] = "none" => d \in Flagged /\ KidsIn(d, Shut)
         /\ d \in deleted => KidsIn(d, Shut)
    /\ \A t \in Flagged : KidsIn(t, Leaving) /\ (t \in Existing => t \in Attended)
    /\ tokensPendingDeletion \in [Tokens -> {"absent", "true"}]
TreeStacks ==
    \A p \in Procs :
        /\ TreeStack(proc[p].stack, Flagged, Shut, NotLive)
        /\ proc[p].result = "running" \/ proc[p].stack = <<>>

\* The tree of p's revocation is what the index led to from its root, which is
\* revoked at the end.
Settled(p, a) ==
    \/ a \in Existing => a \in Flagged
    \/ proc[p].stack # <<>> /\ Base(p).fn = "Revoke" /\ Base(p).t = a
DoomInv ==
    /\ doomed \in [Procs -> SUBSET Tokens]
    /\ \A p \in Procs : doomed[p] # {} =>
         \E a \in Tokens, E \in SUBSET Edges : doomed[p] = Reach(a, E) /\ Settled(p, a)

TreeInv == IndexInv /\ OrderInv /\ TreeStacks /\ DoomInv

-----------------------------------------------------------------------------
(* Stacks in a revocation of trees.                                        *)

LEMMA KidsInMore ==
    ASSUME NEW S, NEW T, S \subseteq T, NEW x, KidsIn(x, S)
    PROVE  KidsIn(x, T)
  BY DEF KidsIn

\* What an activation knows stays true.
LEMMA FrameKept ==
    ASSUME NEW F, NEW K, NEW L, NEW F2, NEW K2, NEW L2,
           F \subseteq F2, K \subseteq K2, L \subseteq L2, NEW f, FrameOK(f, F, K, L)
    PROVE  FrameOK(f, F2, K2, L2)
<1>1. f.fn = "revokeInternal" => RevokeOK(f, F2, K2, L2)
  <2> SUFFICES ASSUME RevokeOK(f, F, K, L) PROVE RevokeOK(f, F2, K2, L2)
    BY DEF FrameOK
  <2>1. /\ f.skipOrphan => KidsIn(f.t, F2)
        /\ f.pc \in Deferred \ {"leases"} => KidsIn(f.t, K2)
    BY KidsInMore DEF RevokeOK
  <2>. QED  BY <2>1 DEF RevokeOK
<1>2. f.fn = "revokeTreeInternal" => WalkOK(f, F2)
  <2> SUFFICES ASSUME WalkOK(f, F) PROVE WalkOK(f, F2)
    BY DEF FrameOK
  <2>1. f.pc = "pop" => KidsIn(Last(f.dfs), F2)
    BY KidsInMore DEF WalkOK
  <2>. QED  BY <2>1 DEF WalkOK
<1>. QED  BY <1>1, <1>2 DEF FrameOK

LEMMA TreeStackKept ==
    ASSUME NEW F, NEW K, NEW L, NEW F2, NEW K2, NEW L2,
           F \subseteq F2, K \subseteq K2, L \subseteq L2, NEW s, TreeStack(s, F, K, L)
    PROVE  TreeStack(s, F2, K2, L2)
<1>1. \A i \in 1 .. Len(s) : FrameOK(s[i], F2, K2, L2)
  BY FrameKept DEF TreeStack
<1>2. HeadOK(s, F2)
  BY KidsInMore DEF TreeStack, HeadOK
<1>. QED  BY <1>1, <1>2 DEF TreeStack

\* The revocations below the first activation of s are in n; the Revoke at its
\* end is in n too, unless n is empty.
Keeps(s, n) ==
    \A j \in 2 .. Len(s) : s[j].fn = "revokeInternal" => \E i \in 1 .. Len(n) : n[i] = s[j]
BaseKept(s, n) ==
    /\ n = <<>> => Len(s) = 1
    /\ n # <<>> /\ s[Len(s)].fn = "Revoke" =>
         n[Len(n)].fn = "Revoke" /\ n[Len(n)].t = s[Len(s)].t

\* The stack n is s with f in the place of the first activation.
Replaced(s, n, f) ==
    /\ n # <<>> /\ Len(n) = Len(s) /\ n[1] = f
    /\ \A i \in 2 .. Len(s) : n[i] = s[i]

LEMMA ReplacedTree ==
    ASSUME NEW S, NEW s \in Seq(S), s # <<>>, NEW n, NEW f, Replaced(s, n, f),
           NEW F, NEW K, NEW L, Linked(s), \A i \in 1 .. Len(s) : i > 1 => FrameOK(s[i], F, K, L),
           FrameOK(f, F, K, L), f.pc # "pop", f.fn = "Revoke" => f.pc # "delete",
           \/ f.fn = s[1].fn /\ f.t = s[1].t
           \/ Len(s) = 1 /\ f.fn # "revokeTreeInternal" /\ s[1].fn # "Revoke"
    PROVE  TreeStack(n, F, K, L) /\ Keeps(s, n) /\ BaseKept(s, n)
<1>1. Len(s) \in Nat \ {0}
  BY EmptySeq, LenProperties
<1>2. \A i \in 1 .. Len(n) : i = 1 \/ (i > 1 /\ i \in 1 .. Len(s) /\ n[i] = s[i])
  BY <1>1 DEF Replaced
<1>3. \A i \in 1 .. Len(n) : FrameOK(n[i], F, K, L)
  BY <1>2 DEF Replaced
<1>4. HeadOK(n, F)
  BY DEF HeadOK, Replaced
<1>5. ASSUME NEW i \in 2 .. Len(n) PROVE Called(n[i - 1], n[i])
  <2>1. Called(s[i - 1], s[i]) /\ n[i] = s[i] /\ i - 1 \in Int /\ Len(s) # 1
    BY <1>1 DEF Linked, Replaced
  <2>2. CASE i = 2
    <3>1. n[i - 1] = f /\ s[i - 1] = s[1]
      BY <2>2 DEF Replaced
    <3>2. n[i - 1].fn = s[i - 1].fn /\ n[i - 1].t = s[i - 1].t
      BY <2>1, <3>1
    <3>. QED  BY <2>1, <3>2 DEF Called
  <2>3. CASE i # 2
    <3>1. i - 1 \in 2 .. Len(s)
      BY <1>1, <2>3 DEF Replaced
    <3>2. n[i - 1] = s[i - 1]
      BY <3>1 DEF Replaced
    <3>. QED  BY <2>1, <3>2
  <2>. QED  BY <2>2, <2>3
<1>6. Len(s) = 1 \/ n[Len(n)] = s[Len(s)]
  BY <1>1 DEF Replaced
<1>7. n[Len(n)].fn # "revokeTreeInternal"
  BY <1>6 DEF Linked, Replaced
<1>8. BaseKept(s, n)
  BY <1>6 DEF BaseKept, Replaced
<1>9. Keeps(s, n)
  BY <1>1 DEF Keeps, Replaced
<1>. QED  BY <1>3, <1>4, <1>5, <1>7, <1>8, <1>9 DEF TreeStack, Linked

\* The stack n is s with f in the place of the first activation, and g before.
Grown(s, n, f, g) ==
    /\ n # <<>> /\ Len(n) = Len(s) + 1 /\ n[1] = g /\ n[2] = f
    /\ \A i \in 3 .. Len(s) + 1 : n[i] = s[i - 1]

LEMMA GrownTree ==
    ASSUME NEW S, NEW s \in Seq(S), s # <<>>, NEW n, NEW f, NEW g, Grown(s, n, f, g),
           NEW F, NEW K, NEW L, Linked(s), \A i \in 1 .. Len(s) : i > 1 => FrameOK(s[i], F, K, L),
           FrameOK(f, F, K, L), FrameOK(g, F, K, L), Called(g, f), g.pc # "pop",
           g.fn = "Revoke" => g.pc # "delete", f.fn = s[1].fn, f.t = s[1].t
    PROVE  TreeStack(n, F, K, L) /\ Keeps(s, n) /\ BaseKept(s, n)
<1>1. Len(s) \in Nat \ {0}
  BY EmptySeq, LenProperties
<1>2. \A i \in 1 .. Len(n) : i = 1 \/ i = 2 \/ (i - 1 > 1 /\ i - 1 \in 1 .. Len(s) /\ n[i] = s[i - 1])
  BY <1>1 DEF Grown
<1>3. \A i \in 1 .. Len(n) : FrameOK(n[i], F, K, L)
  BY <1>2 DEF Grown
<1>4. HeadOK(n, F)
  BY DEF HeadOK, Grown
<1>5. ASSUME NEW i \in 2 .. Len(n) PROVE Called(n[i - 1], n[i])
  <2>1. CASE i = 2
    <3>1. n[i - 1] = g /\ n[i] = f
      BY <2>1 DEF Grown
    <3>. QED  BY <3>1
  <2>2. CASE i = 3
    <3>1. /\ n[i - 1] = f /\ n[i] = s[2] /\ 2 \in 2 .. Len(s)
      BY <1>1, <2>2 DEF Grown
    <3>2. Called(s[2 - 1], s[2]) /\ 2 - 1 = 1
      BY <3>1 DEF Linked
    <3>3. Called(s[1], s[2])
      BY <3>2
    <3>. QED  BY <3>1, <3>3 DEF Called
  <2>3. CASE i > 3
    <3>1. i - 1 \in 2 .. Len(s) /\ i \in 3 .. Len(s) + 1 /\ i - 1 \in 3 .. Len(s) + 1
      BY <1>1, <2>3 DEF Grown
    <3>2. n[i] = s[i - 1] /\ n[i - 1] = s[i - 1 - 1]
      BY <3>1 DEF Grown
    <3>. QED  BY <3>1, <3>2 DEF Linked
  <2>. QED  BY <2>1, <2>2, <2>3
<1>6. (n[Len(n)] = f /\ Len(s) = 1) \/ n[Len(n)] = s[Len(s)]
  <2>1. CASE Len(s) = 1
    BY <2>1 DEF Grown
  <2>2. CASE Len(s) # 1
    <3>1. Len(n) = Len(s) + 1
      BY DEF Grown
    <3>2. PICK k \in Nat \ {0, 1} : k = Len(s)
      BY <1>1, <2>2
    <3>3. k + 1 \in 3 .. k + 1 /\ k + 1 - 1 = k
      OBVIOUS
    <3>4. n[k + 1] = s[k]
      BY <3>2, <3>3 DEF Grown
    <3>. QED  BY <3>1, <3>2, <3>4
  <2>. QED  BY <2>1, <2>2
<1>7. n[Len(n)].fn = s[Len(s)].fn /\ n[Len(n)].t = s[Len(s)].t
  BY <1>6
<1>8. BaseKept(s, n) /\ n[Len(n)].fn # "revokeTreeInternal"
  BY <1>7 DEF BaseKept, Grown, Linked
<1>9. Keeps(s, n)
  <2> SUFFICES ASSUME NEW j \in 2 .. Len(s) PROVE \E i \in 1 .. Len(n) : n[i] = s[j]
    BY DEF Keeps
  <2>1. j + 1 \in 1 .. Len(n) /\ j + 1 \in 3 .. Len(s) + 1 /\ j + 1 - 1 = j
    BY <1>1 DEF Grown
  <2>2. n[j + 1] = s[j]
    BY <2>1 DEF Grown
  <2>. QED  BY <2>1, <2>2
<1>. QED  BY <1>3, <1>4, <1>5, <1>8, <1>9 DEF TreeStack, Linked

LEMMA FrontElements ==
    ASSUME NEW s \in Seq(Tokens), s # <<>>, Len(s) # 1
    PROVE  /\ Len(s) \in Nat \ {0, 1} /\ Len(Front(s)) = Len(s) - 1
           /\ \A i \in 1 .. Len(s) - 1 : Front(s)[i] = s[i]
<1> DEFINE k == Len(s) - 1
<1>0. Len(s) \in Nat \ {0}
  BY EmptySeq, LenProperties
<1>1. k \in Nat \ {0} /\ Len(s) = k + 1
  BY <1>0
<1>2. \A i \in 1 .. k : s[i] \in Tokens
  <2>1. \A i \in 1 .. k : i \in 1 .. Len(s)
    BY <1>1
  <2>. QED  BY <2>1, ElementOfSeq
<1>3. /\ Len(SubSeq(s, 1, k)) = IF 1 <= k THEN k - 1 + 1 ELSE 0
      /\ \A i \in 1 .. k - 1 + 1 : SubSeq(s, 1, k)[i] = s[1 + i - 1]
  BY <1>1, <1>2, SubSeqProperties
<1>4. Front(s) = SubSeq(s, 1, k) /\ k - 1 + 1 = k
  BY <1>1 DEF Front
<1> HIDE DEF k
<1>5. Len(Front(s)) = k
  BY <1>1, <1>3, <1>4
<1>6. ASSUME NEW i \in 1 .. k PROVE Front(s)[i] = s[i]
  <2>1. i \in 1 .. k - 1 + 1 /\ 1 + i - 1 = i
    BY <1>1
  <2>. QED  BY <1>3, <1>4, <2>1
<1>7. Len(s) - 1 = k /\ Len(s) \in Nat \ {0, 1}
  BY <1>1
<1>. QED  BY <1>5, <1>6, <1>7

\* A walk takes the last token off dfs, after its revocation.
LEMMA WalkPops ==
    ASSUME NEW f \in Activation, f.fn = "revokeTreeInternal", NEW F, WalkOK(f, F),
           Len(f.dfs) # 1, Last(f.dfs) \in F, NEW g, g.dfs = Front(f.dfs), g.pc = "list",
           g.t = f.t, g.seenIDs = f.seenIDs
    PROVE  WalkOK(g, F)
<1>1. f.dfs \in Seq(Tokens) /\ f.dfs # <<>>
  BY ActivationType
<1>2. /\ g.dfs = Front(f.dfs) /\ g.pc = "list" /\ g.t = f.t /\ g.seenIDs = f.seenIDs
  OBVIOUS
<1>3. PICK n \in Nat \ {0, 1} : n = Len(f.dfs)
  BY <1>1, FrontElements
<1>4. Len(g.dfs) = n - 1 /\ \A i \in 1 .. n - 1 : g.dfs[i] = f.dfs[i] /\ i \in 1 .. n
  BY <1>1, <1>2, <1>3, FrontElements
<1>5. g.dfs[1] = g.t
  <2>1. n >= 2
    OBVIOUS
  <2>2. 1 \in 1 .. n - 1
    BY <2>1
  <2>. QED  BY <1>2, <1>4, <2>2 DEF WalkOK
<1>6. ASSUME NEW c \in g.seenIDs, c \notin F PROVE \E i \in 1 .. Len(g.dfs) : g.dfs[i] = c
  <2>1. PICK i \in 1 .. n : f.dfs[i] = c
    BY <1>2, <1>3, <1>6 DEF WalkOK
  <2>2. i # n
    BY <1>3, <1>6, <2>1 DEF Last
  <2>3. i \in 1 .. n - 1
    BY <2>2
  <2>. QED  BY <1>4, <2>1, <2>3
<1>7. \A i, j \in 1 .. Len(g.dfs) : i <= j => Level[g.dfs[i]] <= Level[g.dfs[j]]
  BY <1>3, <1>4 DEF WalkOK
<1>. QED  BY <1>2, <1>5, <1>6, <1>7 DEF WalkOK

\* The stack without its first activation.
LEMMA TailTree ==
    ASSUME NEW S, NEW s \in Seq(S), s # <<>>, Linked(s), Tail(s) # <<>>,
           NEW F, NEW K, NEW L, \A i \in 1 .. Len(s) : i > 1 => FrameOK(s[i], F, K, L)
    PROVE  /\ Linked(Tail(s)) /\ Tail(s) \in Seq(S)
           /\ Len(s) \in Nat \ {0, 1} /\ Len(Tail(s)) = Len(s) - 1
           /\ \A i \in 1 .. Len(s) - 1 : Tail(s)[i] = s[i + 1]
           /\ \A i \in 1 .. Len(Tail(s)) : FrameOK(Tail(s)[i], F, K, L)
           /\ Tail(s)[Len(Tail(s))] = s[Len(s)]
           /\ Tail(s)[1] = s[2] /\ Called(s[1], s[2])
<1>0. PICK m : m = Tail(s)
  OBVIOUS
<1>1. /\ m \in Seq(S) /\ Len(m) = Len(s) - 1 /\ Len(s) \in Nat \ {0}
      /\ \A i \in 1 .. Len(s) - 1 : m[i] = s[i + 1]
  BY <1>0, TailSeq
<1>2. Len(m) # 0
  BY <1>0, <1>1, EmptySeq
<1>3. PICK k \in Nat \ {0} : Len(m) = k /\ Len(s) = k + 1
  BY <1>1, <1>2
<1>4. \A i \in 1 .. k : m[i] = s[i + 1]
  BY <1>1, <1>3
<1>5. \A i \in 1 .. k : i + 1 \in 1 .. Len(s) /\ i + 1 > 1 /\ i + 1 \in 2 .. Len(s) /\ i + 1 - 1 = i
  BY <1>3
<1>6. \A i \in 1 .. Len(m) : FrameOK(m[i], F, K, L)
  BY <1>3, <1>4, <1>5
<1>7. m[Len(m)] = s[Len(s)]
  BY <1>3, <1>4
<1>8. Linked(m)
  <2>1. m[Len(m)].fn # "revokeTreeInternal"
    BY <1>7 DEF Linked
  <2>2. ASSUME NEW i \in 2 .. Len(m) PROVE Called(m[i - 1], m[i])
    <3>1. i \in 1 .. k /\ i - 1 \in 1 .. k /\ i - 1 + 1 = i /\ i + 1 - 1 = i
      BY <1>3
    <3>2. m[i] = s[i + 1] /\ m[i - 1] = s[i]
      BY <1>4, <3>1
    <3>3. Called(s[i + 1 - 1], s[i + 1])
      BY <1>5, <3>1 DEF Linked
    <3>. QED  BY <3>1, <3>2, <3>3
  <2>. QED  BY <2>1, <2>2 DEF Linked
<1>9. m[1] = s[2] /\ Called(s[1], s[2])
  <2>1. 1 \in 1 .. k /\ 1 + 1 = 2 /\ 2 \in 2 .. Len(s) /\ 2 - 1 = 1
    BY <1>3
  <2>2. Called(s[2 - 1], s[2]) /\ m[1] = s[1 + 1]
    BY <1>4, <2>1 DEF Linked
  <2>. QED  BY <2>1, <2>2
<1>10. Len(s) \in Nat \ {0, 1}
  BY <1>3
<1>. QED  BY <1>0, <1>1, <1>6, <1>7, <1>8, <1>9, <1>10

\* The first activation returns.
LEMMA ReturnTree ==
    ASSUME NEW s, StackOK(s), s # <<>>, NEW F, NEW K, NEW L, Linked(s),
           \A i \in 1 .. Len(s) : i > 1 => FrameOK(s[i], F, K, L),
           s[1].fn # "revokeTreeInternal", s[1].fn = "revokeInternal" => s[1].t \in F,
           NEW n, n = Resumed(Tail(s))
    PROVE  TreeStack(n, F, K, L) /\ Keeps(s, n) /\ BaseKept(s, n)
<1>0. PICK m : m = Tail(s)
  OBVIOUS
<1>1. /\ s \in Seq(Activation) /\ m \in Seq(Activation) /\ Len(s) \in Nat \ {0}
      /\ Len(m) = Len(s) - 1 /\ \A i \in 1 .. Len(s) - 1 : m[i] = s[i + 1]
  BY <1>0, TailSeq DEF StackOK
<1>2. CASE m = <<>>
  <2>1. n = <<>> /\ Len(m) = 0
    BY <1>0, <1>2 DEF Resumed
  <2>2. Len(s) = 1 /\ Len(n) = 0
    BY <1>1, <1>2, <2>1
  <2>. QED  BY <2>1, <2>2 DEF TreeStack, Linked, HeadOK, Keeps, BaseKept
<1>3. ASSUME m # <<>>
      PROVE  /\ Linked(m) /\ \A i \in 1 .. Len(m) : FrameOK(m[i], F, K, L)
             /\ m[Len(m)] = s[Len(s)] /\ m[1] = s[2] /\ Called(s[1], s[2])
             /\ Len(s) \in Nat \ {0, 1} /\ Head(m) = m[1] /\ m[1] \in Activation
             /\ 1 \in 1 .. Len(m)
  <2>1. /\ Linked(m) /\ \A i \in 1 .. Len(m) : FrameOK(m[i], F, K, L)
        /\ m[Len(m)] = s[Len(s)] /\ m[1] = s[2] /\ Called(s[1], s[2])
        /\ Len(s) \in Nat \ {0, 1}
    BY <1>0, <1>1, <1>3, TailTree
  <2>2. Head(m) = m[1] /\ m[1] \in Activation
    BY <1>1, <1>3, TailSeq
  <2>3. 1 \in 1 .. Len(m)
    BY <1>1, <2>1
  <2>. QED  BY <2>1, <2>2, <2>3
<1>4. \A j \in 2 .. Len(s) : j - 1 \in 1 .. Len(m) /\ m[j - 1] = s[j]
  BY <1>1
<1>5. CASE m # <<>> /\ m[1].pc # "pop"
  <2>1. n = m
    BY <1>0, <1>3, <1>5 DEF Resumed
  <2>2. HeadOK(n, F)
    BY <1>3, <1>5, <2>1 DEF HeadOK, Called
  <2>3. Keeps(s, n)
    BY <1>4, <2>1 DEF Keeps
  <2>4. BaseKept(s, n)
    BY <1>3, <1>5, <2>1 DEF BaseKept
  <2>. QED  BY <1>3, <1>5, <2>1, <2>2, <2>3, <2>4 DEF TreeStack
<1>6. CASE m # <<>> /\ m[1].pc = "pop"
  <2>0. PICK f : f = m[1]
    OBVIOUS
  <2>1. /\ f.fn = "revokeTreeInternal" /\ f \in Activation /\ f = m[1]
        /\ f.dfs \in Seq(Tokens) /\ f.dfs # <<>>
    BY <1>3, <1>6, <2>0, ActivationType
  <2>2. s[1].fn = "revokeInternal" /\ s[1].t = Last(f.dfs) /\ Last(f.dfs) \in F
    BY <1>3, <1>6, <2>1 DEF Called
  <2>3. WalkOK(f, F) /\ KidsIn(Last(f.dfs), F) /\ Head(m) = f
    BY <1>3, <1>6, <2>1 DEF FrameOK, WalkOK
  <2>4. CASE Len(f.dfs) = 1
    <3>1. n = Tail(m) /\ Last(f.dfs) = f.t
      BY <1>0, <1>6, <2>1, <2>3, <2>4 DEF Resumed, Last, WalkOK
    <3>2. Tail(m) # <<>>
      <4>1. Len(m) # 1
        BY <1>3, <1>6, <2>1 DEF Linked
      <4>2. Len(Tail(m)) = Len(m) - 1 /\ Tail(m) \in Seq(Activation) /\ Len(m) \in Nat
        BY <1>1, <1>6, TailSeq
      <4>3. Len(Tail(m)) # 0
        BY <4>1, <4>2
      <4>. QED  BY <4>2, <4>3, EmptySeq
    <3>3. \A i \in 1 .. Len(m) : i > 1 => FrameOK(m[i], F, K, L)
      BY <1>3, <1>6
    <3>4. /\ Linked(n) /\ \A i \in 1 .. Len(n) : FrameOK(n[i], F, K, L)
          /\ n[Len(n)] = m[Len(m)] /\ n[1] = m[2] /\ Called(m[1], m[2])
          /\ Len(m) \in Nat \ {0, 1} /\ Len(n) = Len(m) - 1
          /\ \A i \in 1 .. Len(m) - 1 : n[i] = m[i + 1]
      <4>1. m # <<>> /\ Linked(m) /\ m \in Seq(Activation)
        BY <1>1, <1>3, <1>6
      <4>2. /\ Linked(Tail(m)) /\ \A i \in 1 .. Len(Tail(m)) : FrameOK(Tail(m)[i], F, K, L)
            /\ Tail(m)[Len(Tail(m))] = m[Len(m)] /\ Tail(m)[1] = m[2] /\ Called(m[1], m[2])
            /\ Len(m) \in Nat \ {0, 1} /\ Len(Tail(m)) = Len(m) - 1
            /\ \A i \in 1 .. Len(m) - 1 : Tail(m)[i] = m[i + 1]
        BY <4>1, <3>2, <3>3, TailTree, Zenon
      <4>. QED  BY <3>1, <4>2
    <3>5. n[1].fn = "Revoke" /\ n[1].pc = "delete" /\ n[1].t = f.t
      BY <2>1, <3>4 DEF Called
    <3>6. HeadOK(n, F)
      BY <2>2, <2>3, <3>1, <3>5 DEF HeadOK
    <3>7. Keeps(s, n)
      <4> SUFFICES ASSUME NEW j \in 2 .. Len(s), s[j].fn = "revokeInternal"
                   PROVE  \E i \in 1 .. Len(n) : n[i] = s[j]
        BY DEF Keeps
      <4>1. j # 2
        BY <1>3, <1>6, <2>1
      <4>2. j - 2 \in 1 .. Len(n) /\ j - 2 \in 1 .. Len(m) - 1 /\ j - 2 + 1 = j - 1
        BY <1>1, <3>4, <4>1
      <4>3. n[j - 2] = s[j]
        BY <1>4, <3>4, <4>2
      <4>. QED  BY <4>2, <4>3
    <3>8. BaseKept(s, n)
      BY <1>3, <1>6, <3>1, <3>2, <3>4 DEF BaseKept
    <3>. QED  BY <3>4, <3>6, <3>7, <3>8 DEF TreeStack
  <2>5. CASE Len(f.dfs) # 1
    <3>0. PICK g : g = [f EXCEPT !.pc = "list", !.dfs = Front(@)]
      OBVIOUS
    <3>1. n = <<g>> \o Tail(m)
      BY <1>0, <1>6, <2>1, <2>3, <2>5, <3>0 DEF Resumed
    <3>2. /\ g.fn = "revokeTreeInternal" /\ g.t = f.t /\ g.pc = "list"
          /\ g.dfs = Front(f.dfs) /\ g.seenIDs = f.seenIDs
      BY <2>1, <3>0 DEF Activation
    <3>3. WalkOK(g, F)
      BY <2>1, <2>2, <2>3, <2>5, <3>2, WalkPops
    <3>4. FrameOK(g, F, K, L)
      BY <3>2, <3>3 DEF FrameOK
    <3>5. PICK S : S = Activation \cup {g}
      OBVIOUS
    <3>6. m \in Seq(S) /\ g \in S /\ m # <<>>
      BY <1>1, <1>6, <3>5, SeqWider
    <3>7. Replaced(m, n, g)
      <4>1. /\ n \in Seq(S) /\ Len(n) = Len(m) /\ n[1] = g
            /\ \A i \in 2 .. Len(m) : n[i] = m[i]
        BY <3>1, <3>6, BecomeSeq
      <4>2. n # <<>>
        BY <1>1, <1>3, <1>6, <4>1
      <4>. QED  BY <4>1, <4>2 DEF Replaced
    <3>8. TreeStack(n, F, K, L) /\ Keeps(m, n) /\ BaseKept(m, n)
      BY <1>3, <1>6, <2>1, <3>2, <3>4, <3>6, <3>7, ReplacedTree
    <3>9. BaseKept(s, n)
      BY <1>3, <1>6, <3>7, <3>8 DEF BaseKept, Replaced
    <3>10. Keeps(s, n)
      <4> SUFFICES ASSUME NEW j \in 2 .. Len(s), s[j].fn = "revokeInternal"
                   PROVE  \E i \in 1 .. Len(n) : n[i] = s[j]
        BY DEF Keeps
      <4>1. j # 2
        BY <1>3, <1>6, <2>1
      <4>2. j - 1 \in 2 .. Len(m) /\ m[j - 1] = s[j]
        BY <1>1, <1>4, <4>1
      <4>. QED  BY <3>8, <4>2 DEF Keeps
    <3>. QED  BY <3>8, <3>9, <3>10
  <2>. QED  BY <2>4, <2>5
<1>. QED  BY <1>2, <1>5, <1>6

-----------------------------------------------------------------------------
(* Steps in a revocation of trees.                                         *)

LEMMA BecomeFacts ==
    ASSUME Shape, NEW p \in Procs, proc[p].stack # <<>>, NEW f, Become(p, f)
    PROVE  /\ Others(p) /\ Replaced(proc[p].stack, proc'[p].stack, f)
           /\ proc'[p].result = proc[p].result
<1>0. PICK S : S = Activation \cup {f}
  OBVIOUS
<1>1. proc[p].stack \in Seq(S) /\ Rest(p) = Tail(proc[p].stack) /\ f \in S
  BY <1>0, StackType, SeqWider DEF Rest
<1>2. PICK s : s = <<f>> \o Tail(proc[p].stack)
  OBVIOUS
<1>3. /\ s \in Seq(S) /\ Len(s) = Len(proc[p].stack) /\ s[1] = f
      /\ \A i \in 2 .. Len(proc[p].stack) : s[i] = proc[p].stack[i]
  BY <1>1, <1>2, BecomeSeq
<1>4. s # <<>>
  BY <1>1, <1>3, EmptySeq
<1>5. SetStack(p, s)
  BY <1>1, <1>2 DEF Become
<1>6. proc'[p].stack = s /\ Others(p)
  BY <1>4, <1>5, TopSet
<1>7. proc'[p].result = proc[p].result
  BY <1>4, <1>5, StackType DEF SetStack, ProcType
<1>. QED  BY <1>3, <1>4, <1>6, <1>7 DEF Replaced

LEMMA CallFacts ==
    ASSUME Shape, NEW p \in Procs, proc[p].stack # <<>>, NEW f, NEW g, Call(p, f, g)
    PROVE  /\ Others(p) /\ Grown(proc[p].stack, proc'[p].stack, f, g)
           /\ proc'[p].result = proc[p].result
<1>0. PICK S : S = Activation \cup {f, g}
  OBVIOUS
<1>1. /\ proc[p].stack \in Seq(S) /\ Rest(p) = Tail(proc[p].stack) /\ f \in S /\ g \in S
      /\ Len(proc[p].stack) \in Nat
  BY <1>0, StackType, SeqWider, LenProperties DEF Rest
<1>2. PICK s : s = <<g, f>> \o Tail(proc[p].stack)
  OBVIOUS
<1>3. /\ s \in Seq(S) /\ Len(s) = Len(proc[p].stack) + 1 /\ s[1] = g /\ s[2] = f
      /\ \A i \in 3 .. Len(proc[p].stack) + 1 : s[i] = proc[p].stack[i - 1]
  BY <1>1, <1>2, CallSeq
<1>4. s # <<>>
  BY <1>1, <1>3
<1>5. SetStack(p, s)
  BY <1>1, <1>2 DEF Call
<1>6. proc'[p].stack = s /\ Others(p)
  BY <1>4, <1>5, TopSet
<1>7. proc'[p].result = proc[p].result
  BY <1>4, <1>5, StackType DEF SetStack, ProcType
<1>. QED  BY <1>3, <1>4, <1>6, <1>7 DEF Grown

LEMMA ReturnFacts ==
    ASSUME Shape, NEW p \in Procs, proc[p].stack # <<>>, Return(p)
    PROVE  /\ Others(p) /\ proc'[p].stack = Resumed(Tail(proc[p].stack))
           /\ proc'[p].stack = <<>> \/ proc'[p].result = proc[p].result
<1>1. PICK s : s = Resumed(Tail(proc[p].stack))
  OBVIOUS
<1>2. s \in Seq(Activation)
  BY <1>1, StackType, ReturnStack DEF StackOK
<1>3. SetStack(p, s)
  BY <1>1 DEF Return, Rest
<1>4. Others(p) /\ proc'[p].stack = s
  BY <1>2, <1>3, SetStackType
<1>5. s = <<>> \/ proc'[p].result = proc[p].result
  BY <1>3, StackType DEF SetStack, ProcType
<1>. QED  BY <1>1, <1>4, <1>5

\* The sets only grow.
Grew ==
    /\ Flagged \subseteq Flagged' /\ Shut \subseteq Shut' /\ Leaving \subseteq Leaving'
    /\ NotLive \subseteq NotLive' /\ Attended \subseteq Attended' /\ deleted \subseteq deleted'

\* The activations other than the one on top stay.
LEMMA ActiveKept ==
    ASSUME Shape, Shape', NEW p \in Procs, Others(p), proc[p].stack # <<>>,
           Keeps(proc[p].stack, proc'[p].stack),
           NEW f \in Active, f.fn = "revokeInternal", f # Top(p)
    PROVE  f \in Active'
<1>0. PICK q \in Procs : \E i \in 1 .. Len(proc[q].stack) : f = proc[q].stack[i]
  BY DEF Active
<1>1. PICK i \in 1 .. Len(proc[q].stack) : f = proc[q].stack[i]
  BY <1>0
<1>2. \E j \in 1 .. Len(proc'[q].stack) : f = proc'[q].stack[j]
  <2>1. CASE q # p
    BY <1>1, <2>1 DEF Others
  <2>2. CASE q = p
    <3>1. i # 1
      BY <1>1, <2>2, TopType
    <3>2. i \in 2 .. Len(proc[p].stack)
      BY <2>2, <3>1
    <3>. QED  BY <1>1, <2>2, <3>2 DEF Keeps
  <2>. QED  BY <2>1, <2>2
<1>3. f \in Activation
  BY DEF Active
<1>. QED  BY <1>2, <1>3 DEF Active

LEMMA TopActive ==
    ASSUME Shape, NEW p \in Procs, proc[p].stack # <<>>
    PROVE  Top(p) \in Active
  BY TopType DEF Active

\* The sets grow when what the activation on top did for a token is done or
\* goes on.
LEMMA GrewBy ==
    ASSUME Shape, Shape', NEW p \in Procs, Others(p), proc[p].stack # <<>>,
           Keeps(proc[p].stack, proc'[p].stack), Flagged \subseteq Flagged',
           orphaned \subseteq orphaned', NotLive \subseteq NotLive', deleted \subseteq deleted',
           \A d \in Existing :
               /\ Cuts(Top(p), d) => d \in Shut'
               /\ CutsSoon(Top(p), d) => d \in Shut \/ d \in Leaving'
               /\ Revokes(Top(p), d) => d \in Attended'
    PROVE  Grew
<1>0. \A f \in Active : f.fn = "revokeInternal" => f \in Active' \/ f = Top(p)
  BY ActiveKept
<1>1. ASSUME NEW d \in Shut PROVE d \in Shut'
  <2>1. CASE d \in Flagged \cup orphaned
    BY <2>1 DEF Shut
  <2>2. CASE \E f \in Active : Cuts(f, d)
    <3>1. PICK f \in Active : Cuts(f, d)
      BY <2>2
    <3>2. f.fn = "revokeInternal" /\ d \in Existing
      BY <3>1 DEF Cuts, Shut
    <3>. QED  BY <1>0, <3>1, <3>2 DEF Shut
  <2>. QED  BY <2>1, <2>2 DEF Shut
<1>2. ASSUME NEW d \in Leaving PROVE d \in Leaving'
  <2>1. CASE d \in Shut
    BY <1>1, <2>1 DEF Leaving
  <2>2. CASE \E f \in Active : CutsSoon(f, d)
    <3>1. PICK f \in Active : CutsSoon(f, d)
      BY <2>2
    <3>2. f.fn = "revokeInternal" /\ d \in Existing
      BY <3>1 DEF CutsSoon, Leaving
    <3>. QED  BY <1>0, <1>1, <3>1, <3>2 DEF Leaving
  <2>. QED  BY <2>1, <2>2 DEF Leaving
<1>3. ASSUME NEW d \in Attended PROVE d \in Attended'
  <2>0. d \in Existing /\ d \in Tokens
    BY TokenAssumption DEF Attended
  <2>1. CASE Ended(d)
    <3>1. d \in NotLive
      BY <2>0, <2>1 DEF NotLive
    <3>2. Ended(d)'
      BY <2>0, <3>1 DEF NotLive
    <3>. QED  BY <2>0, <3>2 DEF Attended
  <2>2. CASE \E f \in Active : Revokes(f, d)
    <3>1. PICK f \in Active : Revokes(f, d)
      BY <2>2
    <3>2. f.fn = "revokeInternal"
      BY <3>1 DEF Revokes
    <3>. QED  BY <1>0, <2>0, <3>1, <3>2 DEF Attended
  <2>. QED  BY <2>1, <2>2 DEF Attended
<1>. QED  BY <1>1, <1>2, <1>3 DEF Grew

\* An edge leaves the index only after the revocation of its child has begun.
IndexStep ==
    /\ parentView' \subseteq Edges
    /\ \A d \in Existing :
         <<Parent[d], d>> \in parentView => <<Parent[d], d>> \in parentView' \/ d \in Flagged'

\* A lease and an entry go after the children were taken care of.
OrderStep ==
    /\ \A d \in Existing :
         /\ idView'[d] = Nil => idView[d] = Nil \/ d \in deleted'
         /\ lease'[d] = "none" => lease[d] = "none" \/ (d \in Flagged' /\ KidsIn(d, Shut'))
         /\ d \in deleted' => d \in deleted \/ KidsIn(d, Shut')
    /\ \A t \in Flagged' :
         t \in Flagged \/ (KidsIn(t, Leaving') /\ (t \in Existing => t \in Attended'))
    /\ tokensPendingDeletion' \in [Tokens -> {"absent", "true"}]

LEMMA IndexKept ==
    ASSUME IndexInv, Grew, IndexStep
    PROVE  IndexInv'
  BY DEF IndexInv, Grew, IndexStep

LEMMA OrderKept ==
    ASSUME OrderInv, Grew, OrderStep
    PROVE  OrderInv'
<1>1. ASSUME NEW d \in Existing
      PROVE  /\ idView'[d] = Nil => d \in deleted'
             /\ lease'[d] = "none" => d \in Flagged' /\ KidsIn(d, Shut')
             /\ d \in deleted' => KidsIn(d, Shut')
  <2>1. KidsIn(d, Shut) => KidsIn(d, Shut')
    BY KidsInMore DEF Grew
  <2>2. idView'[d] = Nil => d \in deleted'
    BY DEF OrderInv, OrderStep, Grew
  <2>3. lease'[d] = "none" => d \in Flagged' /\ KidsIn(d, Shut')
    BY <2>1 DEF OrderInv, OrderStep, Grew
  <2>4. d \in deleted' => KidsIn(d, Shut')
    BY <2>1 DEF OrderInv, OrderStep
  <2>. QED  BY <2>2, <2>3, <2>4
<1>2. ASSUME NEW t \in Flagged'
      PROVE  KidsIn(t, Leaving') /\ (t \in Existing => t \in Attended')
  <2>1. KidsIn(t, Leaving) => KidsIn(t, Leaving')
    BY KidsInMore DEF Grew
  <2>. QED  BY <2>1 DEF OrderInv, OrderStep, Grew
<1>. QED  BY <1>1, <1>2 DEF OrderInv, OrderStep, KidsIn

LEMMA StacksKept ==
    ASSUME TreeStacks, Grew, NEW p \in Procs, Others(p),
           TreeStack(proc'[p].stack, Flagged', Shut', NotLive'),
           proc'[p].result = "running" \/ proc'[p].stack = <<>>
    PROVE  TreeStacks'
<1>0. ASSUME NEW q \in Procs, TreeStack(proc'[q].stack, Flagged', Shut', NotLive')
      PROVE  TreeStack(proc[q].stack, Flagged, Shut, NotLive)'
  BY <1>0, Zenon DEF TreeStack, Linked, HeadOK, FrameOK, RevokeOK, WalkOK, KidsIn, Called
<1> SUFFICES ASSUME NEW q \in Procs
             PROVE  /\ TreeStack(proc'[q].stack, Flagged', Shut', NotLive')
                    /\ proc'[q].result = "running" \/ proc'[q].stack = <<>>
  BY <1>0 DEF TreeStacks
<1>1. CASE q = p
  BY <1>1
<1>2. CASE q # p
  <2>1. proc'[q] = proc[q] /\ TreeStack(proc[q].stack, Flagged, Shut, NotLive)
    BY <1>2 DEF Others, TreeStacks
  <2>2. TreeStack(proc[q].stack, Flagged', Shut', NotLive')
    BY <2>1, TreeStackKept DEF Grew
  <2>. QED  BY <2>1, <2>2 DEF TreeStacks
<1>. QED  BY <1>1, <1>2

LEMMA SettledKept ==
    ASSUME Flagged \subseteq Flagged', NEW p \in Procs, Others(p), NEW q \in Procs, NEW a,
           Settled(q, a), proc[p].stack # <<>> => BaseKept(proc[p].stack, proc'[p].stack),
           proc[p].stack # <<>> /\ proc'[p].stack = <<>> /\ Base(p).fn = "Revoke" =>
               (Base(p).t \in Existing => Base(p).t \in Flagged')
    PROVE  Settled(q, a)'
<1>1. CASE a \in Existing => a \in Flagged
  BY <1>1 DEF Settled
<1>2. CASE proc[q].stack # <<>> /\ Base(q).fn = "Revoke" /\ Base(q).t = a
  <2>1. CASE q # p
    BY <1>2, <2>1 DEF Others, Settled, Base
  <2>2. CASE q = p
    BY <1>2, <2>2 DEF Settled, Base, BaseKept
  <2>. QED  BY <2>1, <2>2
<1>. QED  BY <1>1, <1>2 DEF Settled

LEMMA DoomKept ==
    ASSUME DoomInv, Flagged \subseteq Flagged', NEW p \in Procs, Others(p), doomed' = doomed,
           proc[p].stack # <<>> => BaseKept(proc[p].stack, proc'[p].stack),
           proc[p].stack # <<>> /\ proc'[p].stack = <<>> /\ Base(p).fn = "Revoke" =>
               (Base(p).t \in Existing => Base(p).t \in Flagged')
    PROVE  DoomInv'
<1> SUFFICES ASSUME NEW q \in Procs, doomed[q] # {}
             PROVE  \E a \in Tokens, E \in SUBSET Edges : doomed[q] = Reach(a, E) /\ Settled(q, a)'
  BY DEF DoomInv, Reach, Edges
<1>1. PICK a \in Tokens, E \in SUBSET Edges : doomed[q] = Reach(a, E) /\ Settled(q, a)
  BY DEF DoomInv
<1>2. Settled(q, a)'
  BY <1>1, SettledKept
<1>. QED  BY <1>1, <1>2

\* A step of goroutine p.
LEMMA TreeStep ==
    ASSUME TreeInv, Grew, IndexStep, OrderStep, doomed' = doomed \/ DoomInv',
           NEW p \in Procs, Others(p), proc[p].stack # <<>>,
           TreeStack(proc'[p].stack, Flagged', Shut', NotLive'),
           BaseKept(proc[p].stack, proc'[p].stack),
           proc'[p].stack = <<>> \/ proc'[p].result = proc[p].result,
           proc'[p].stack = <<>> /\ Base(p).fn = "Revoke" =>
               (Base(p).t \in Existing => Base(p).t \in Flagged')
    PROVE  TreeInv'
<1>1. proc'[p].result = "running" \/ proc'[p].stack = <<>>
  BY DEF TreeInv, TreeStacks
<1>2. IndexInv'
  BY IndexKept DEF TreeInv
<1>3. OrderInv'
  BY OrderKept DEF TreeInv
<1>4. TreeStacks'
  BY <1>1, StacksKept DEF TreeInv
<1>5. DoomInv'
  BY DoomKept DEF TreeInv, Grew
<1>. QED  BY <1>2, <1>3, <1>4, <1>5 DEF TreeInv

\* A step of goroutine p, whose activation on top is no revocation.
LEMMA PlainStep ==
    ASSUME Shape, Shape', TreeInv, NEW p \in Procs, Others(p), proc[p].stack # <<>>,
           Top(p).fn # "revokeInternal",
           doomed' = doomed \/ DoomInv', UNCHANGED <<tokensPendingDeletion, deleted, orphaned>>,
           NotLive \subseteq NotLive', IndexStep,
           \A d \in Existing :
               /\ idView'[d] = Nil => idView[d] = Nil
               /\ lease'[d] = "none" => lease[d] = "none" \/ (d \in Flagged /\ KidsIn(d, Flagged)),
           TreeStack(proc'[p].stack, Flagged, Shut, NotLive'),
           Keeps(proc[p].stack, proc'[p].stack), BaseKept(proc[p].stack, proc'[p].stack),
           proc'[p].stack = <<>> \/ proc'[p].result = proc[p].result,
           proc'[p].stack = <<>> /\ Base(p).fn = "Revoke" =>
               (Base(p).t \in Existing => Base(p).t \in Flagged)
    PROVE  TreeInv'
<1>1. Flagged' = Flagged
  BY DEF Flagged
<1>2. Grew
  <2>1. \A d \in Existing :
          ~Cuts(Top(p), d) /\ ~CutsSoon(Top(p), d) /\ ~Revokes(Top(p), d)
    BY DEF Cuts, CutsSoon, Revokes
  <2>. QED  BY <1>1, <2>1, GrewBy
<1>3. OrderStep
  <2>0. Flagged' \cap Existing \subseteq Shut'
    BY DEF Shut
  <2>1. ASSUME NEW d \in Existing, KidsIn(d, Flagged) PROVE KidsIn(d, Shut')
    BY <1>1, <2>0, <2>1 DEF KidsIn
  <2>. QED  BY <1>1, <2>1 DEF OrderStep, TreeInv, OrderInv
<1>4. TreeStack(proc'[p].stack, Flagged', Shut', NotLive')
  BY <1>1, <1>2, TreeStackKept DEF Grew
<1>. QED  BY <1>1, <1>2, <1>3, <1>4, TreeStep

\* The index as it was, or with the edge of one more token.
LEMMA IndexSame ==
    ASSUME TreeInv, parentView' = parentView
    PROVE  IndexStep
  BY DEF TreeInv, IndexInv, IndexStep

LEMMA LeaseSame ==
    ASSUME lease' = lease, deleted' = deleted
    PROVE  NotLive' = NotLive
  BY DEF NotLive, Ended

\* A lease that is made or ends, of a token that was there at first.
LEMMA LeaseChanges ==
    ASSUME Shape, NEW t \in Tokens, NEW v, lease' = [lease EXCEPT ![t] = v],
           v # "live" \/ t \notin Existing, deleted' = deleted
    PROVE  /\ NotLive \subseteq NotLive'
           /\ \A d \in Existing : lease'[d] = "none" => lease[d] = "none" \/ (d = t /\ v = "none")
<1>1. \A d \in Tokens : lease'[d] = IF d = t THEN v ELSE lease[d]
  BY DEF Shape
<1>2. Existing \subseteq Tokens
  BY TokenAssumption
<1>. QED  BY <1>1, <1>2 DEF NotLive, Ended

LEMMA RenewedFields ==
    ASSUME NEW f \in Activation, NEW pc, NEW e
    PROVE  /\ Renewed(f, pc, e).fn = f.fn /\ Renewed(f, pc, e).t = f.t
           /\ Renewed(f, pc, e).pc = pc /\ Renewed(f, pc, e).entry = e
           /\ Renewed(f, pc, e).skipOrphan = f.skipOrphan /\ Renewed(f, pc, e).todo = f.todo
  BY DEF Renewed, Activation

\* What the invariant says of the stack of p.
LEMMA TopTree ==
    ASSUME Shape, TreeInv, NEW p \in Procs, proc[p].stack # <<>>
    PROVE  /\ proc[p].stack \in Seq(Activation) /\ StackOK(proc[p].stack)
           /\ Top(p) = proc[p].stack[1] /\ Top(p) \in Activation
           /\ Linked(proc[p].stack) /\ HeadOK(proc[p].stack, Flagged)
           /\ FrameOK(Top(p), Flagged, Shut, NotLive)
           /\ \A i \in 1 .. Len(proc[p].stack) :
                i > 1 => FrameOK(proc[p].stack[i], Flagged, Shut, NotLive)
<1>1. TreeStack(proc[p].stack, Flagged, Shut, NotLive)
  BY DEF TreeInv, TreeStacks
<1>2. /\ proc[p].stack \in Seq(Activation) /\ StackOK(proc[p].stack)
      /\ Top(p) = proc[p].stack[1] /\ Top(p) \in Activation /\ 1 \in 1 .. Len(proc[p].stack)
  BY StackType, TopType
<1>. QED  BY <1>1, <1>2 DEF TreeStack

LEMMA BelowKept ==
    ASSUME NEW s, NEW F, NEW K, NEW L, NEW F2, NEW K2, NEW L2,
           \A i \in 1 .. Len(s) : i > 1 => FrameOK(s[i], F, K, L),
           F \subseteq F2, K \subseteq K2, L \subseteq L2
    PROVE  \A i \in 1 .. Len(s) : i > 1 => FrameOK(s[i], F2, K2, L2)
  BY FrameKept

\* An activation that no clause of FrameOK is about.
LEMMA FrameFree ==
    ASSUME NEW f, f.fn \notin {"revokeInternal", "revokeTreeInternal"}
    PROVE  \A F, K, L : FrameOK(f, F, K, L)
  BY DEF FrameOK

\* A request's own activation goes on as f, or as one that replaces it.
LEMMA OuterOn ==
    ASSUME Shape, Shape', TreeInv, NEW p \in Procs, proc[p].stack # <<>>, Top(p).fn \in Outer,
           doomed' = doomed \/ DoomInv', UNCHANGED <<tokensPendingDeletion, deleted, orphaned>>,
           NotLive \subseteq NotLive', IndexStep,
           \A d \in Existing : /\ idView'[d] = Nil => idView[d] = Nil
                               /\ lease'[d] = "none" => lease[d] = "none",
           NEW f, Become(p, f), f.fn # "revokeTreeInternal", f.pc # "pop",
           f.fn = "Revoke" => f.pc # "delete", FrameOK(f, Flagged, Shut, NotLive')
    PROVE  TreeInv'
<1>0. PICK s : s = proc[p].stack
  OBVIOUS
<1>1. /\ s \in Seq(Activation) /\ Top(p) = s[1] /\ Linked(s) /\ s # <<>>
      /\ \A i \in 1 .. Len(s) : i > 1 => FrameOK(s[i], Flagged, Shut, NotLive)
  BY <1>0, TopTree
<1>2. /\ Others(p) /\ Replaced(s, proc'[p].stack, f) /\ proc'[p].result = proc[p].result
  BY <1>0, BecomeFacts
<1>4. Len(s) = 1 /\ Top(p).fn # "revokeInternal" /\ Base(p).fn # "Revoke"
  BY <1>0, TopOuter DEF Outer, Inner
<1>5. TreeStack(proc'[p].stack, Flagged, Shut, NotLive') /\ Keeps(s, proc'[p].stack)
      /\ BaseKept(s, proc'[p].stack)
  <2>1. \A i \in 1 .. Len(s) : i > 1 => FrameOK(s[i], Flagged, Shut, NotLive')
    BY <1>1, BelowKept
  <2>2. Len(s) = 1 /\ f.fn # "revokeTreeInternal" /\ s[1].fn # "Revoke"
    BY <1>1, <1>4 DEF Outer
  <2>. QED  BY <1>1, <1>2, <2>1, <2>2, ReplacedTree
<1>. QED  BY <1>0, <1>2, <1>4, <1>5, PlainStep

\* It makes a lookup revoke a token.
LEMMA OuterRevokes ==
    ASSUME Shape, Shape', TreeInv, NEW p \in Procs, proc[p].stack # <<>>, Top(p).fn \in Outer,
           UNCHANGED <<tokensPendingDeletion, deleted, orphaned, doomed>>,
           NotLive \subseteq NotLive', IndexStep,
           \A d \in Existing : /\ idView'[d] = Nil => idView[d] = Nil
                               /\ lease'[d] = "none" => lease[d] = "none",
           NEW f, NEW g, Call(p, f, g), f.fn = Top(p).fn, f.t = Top(p).t,
           g.fn = "Revoke", g.pc = "load"
    PROVE  TreeInv'
<1>0. PICK s : s = proc[p].stack
  OBVIOUS
<1>1. /\ s \in Seq(Activation) /\ Top(p) = s[1] /\ Linked(s) /\ s # <<>>
      /\ \A i \in 1 .. Len(s) : i > 1 => FrameOK(s[i], Flagged, Shut, NotLive)
  BY <1>0, TopTree
<1>2. /\ Others(p) /\ Grown(s, proc'[p].stack, f, g) /\ proc'[p].result = proc[p].result
  BY <1>0, CallFacts
<1>3. FrameOK(f, Flagged, Shut, NotLive') /\ FrameOK(g, Flagged, Shut, NotLive')
  BY FrameFree DEF Outer
<1>4. Len(s) = 1 /\ Top(p).fn # "revokeInternal" /\ Base(p).fn # "Revoke"
  BY <1>0, TopOuter DEF Outer, Inner
<1>5. TreeStack(proc'[p].stack, Flagged, Shut, NotLive') /\ Keeps(s, proc'[p].stack)
      /\ BaseKept(s, proc'[p].stack)
  <2>1. \A i \in 1 .. Len(s) : i > 1 => FrameOK(s[i], Flagged, Shut, NotLive')
    BY <1>1, BelowKept
  <2>2. Called(g, f)
    BY DEF Outer, Called
  <2>. QED  BY <1>1, <1>2, <1>3, <2>1, <2>2, GrownTree
<1>. QED  BY <1>0, <1>2, <1>4, <1>5, PlainStep

\* It comes to its end.
LEMMA OuterEnds ==
    ASSUME Shape, Shape', TreeInv, NEW p \in Procs, proc[p].stack # <<>>, Top(p).fn \in Outer,
           UNCHANGED <<tokensPendingDeletion, deleted, orphaned, doomed>>,
           NotLive \subseteq NotLive', IndexStep,
           \A d \in Existing : /\ idView'[d] = Nil => idView[d] = Nil
                               /\ lease'[d] = "none" => lease[d] = "none",
           Others(p), proc'[p].stack = <<>>
    PROVE  TreeInv'
<1>1. Len(proc[p].stack) = 1 /\ Top(p).fn # "revokeInternal" /\ Base(p).fn # "Revoke"
  BY TopOuter DEF Outer, Inner
<1>2. TreeStack(<<>>, Flagged, Shut, NotLive')
  BY DEF TreeStack, Linked, HeadOK
<1>3. Keeps(proc[p].stack, <<>>) /\ BaseKept(proc[p].stack, <<>>)
  BY <1>1 DEF Keeps, BaseKept
<1>. QED  BY <1>1, <1>2, <1>3, PlainStep

LEMMA OuterReturns ==
    ASSUME Shape, NEW p \in Procs, proc[p].stack # <<>>, Top(p).fn \in Outer, Return(p)
    PROVE  Others(p) /\ proc'[p].stack = <<>>
<1>1. Rest(p) = <<>>
  BY TopOuter DEF Outer, Inner
<1>2. SetStack(p, <<>>)
  BY <1>1 DEF Return, Resumed
<1>3. <<>> \in Seq(Activation)
  OBVIOUS
<1>. QED  BY <1>2, <1>3, SetStackType

\* It fails, and not with the registration of a token.
LEMMA OuterFails ==
    ASSUME Shape, NEW p \in Procs, proc[p].stack # <<>>, Top(p).fn \in Outer,
           ~At(p, "create", "register"), ReturnErr(p), TreeInv
    PROVE  Others(p) /\ proc'[p].stack = <<>> /\ tokensPendingDeletion' = tokensPendingDeletion
<1>1. proc' = [proc EXCEPT ![p] = [stack |-> <<>>, result |-> "failed"]]
  BY DEF ReturnErr, Quiet
<1>2. Others(p) /\ proc'[p].stack = <<>>
  BY <1>1, StackType DEF ProcType, Others
<1>3. Len(proc[p].stack) = 1 /\ proc[p].stack[1] = Top(p) /\ proc[p].stack \in Seq(Activation)
  BY TopOuter, TopType, StackType DEF Outer, Inner
<1>4. \A i \in DOMAIN proc[p].stack : proc[p].stack[i].fn # "revokeInternal"
  BY <1>3 DEF Outer
<1>5. tokensPendingDeletion' = [t \in Tokens |-> tokensPendingDeletion[t]]
  BY <1>4 DEF ReturnErr, retryStates
<1>6. tokensPendingDeletion \in [Tokens -> {"absent", "true"}]
  BY DEF TreeInv, OrderInv
<1>. QED  BY <1>2, <1>5, <1>6

\* A lookup by a request's own activation.
LEMMA OuterLooks ==
    ASSUME Shape, Shape', TreeInv, NEW p \in Procs, proc[p].stack # <<>>, Top(p).fn \in Outer,
           UNCHANGED <<tokensPendingDeletion, deleted, orphaned, doomed, idView, parentView>>,
           NEW t \in Tokens, NEW tainted, NEW pc, pc # "pop", lookupInternal(p, t, tainted, pc)
    PROVE  TreeInv'
<1>1. IndexStep /\ Top(p) \in Activation
  BY IndexSame, TopType
<1>2. CASE Leaseless(t, tainted)
  <2>1. PICK f : f = Renewed(Top(p), pc, Nil)
    OBVIOUS
  <2>2. PICK g : g = Frame("Revoke", t, "load")
    OBVIOUS
  <2>3. lease' = [lease EXCEPT ![t] = "bare"] /\ Call(p, f, g)
    BY <1>2, <2>1, <2>2 DEF lookupInternal, Renewed
  <2>4. f.fn = Top(p).fn /\ f.t = Top(p).t
    BY <1>1, <2>1, RenewedFields
  <2>5. g.fn = "Revoke" /\ g.pc = "load"
    BY <2>2 DEF Frame
  <2>6. /\ NotLive \subseteq NotLive'
        /\ \A d \in Existing : lease'[d] = "none" => lease[d] = "none"
    <3>1. PICK v : v = "bare"
      OBVIOUS
    <3>2. lease' = [lease EXCEPT ![t] = v] /\ v # "live" /\ v # "none"
      BY <2>3, <3>1
    <3>. QED  BY <3>2, LeaseChanges
  <2>. QED  BY <1>1, <2>3, <2>4, <2>5, <2>6, OuterRevokes
<1>3. CASE ~Leaseless(t, tainted)
  <2>1. PICK f : f = Renewed(Top(p), pc, lookupResult(t, tainted))
    OBVIOUS
  <2>3. lease' = lease /\ Become(p, f)
    BY <1>3, <2>1 DEF lookupInternal, Renewed
  <2>4. f.fn = Top(p).fn /\ f.pc = pc /\ f.fn # "revokeTreeInternal" /\ f.fn # "Revoke"
    BY <1>1, <2>1, RenewedFields DEF Outer
  <2>5. NotLive \subseteq NotLive' /\ FrameOK(f, Flagged, Shut, NotLive')
    BY <2>3, <2>4, LeaseSame, FrameFree DEF Outer
  <2>. QED  BY <1>1, <2>3, <2>4, <2>5, OuterOn
<1>. QED  BY <1>2, <1>3

LEMMA EntryNotNil ==
    ASSUME NEW e \in Entry
    PROVE  e # Nil
<1>1. e \in [uses : Int, parent : Tokens \cup {Nil}]
  BY DEF Entry, tokenRevocationPending
<1>. QED  BY <1>1, TokenAssumption

LEMMA storeParentLookupTree ==
    ASSUME IInv, IInv', TreeInv, NEW p \in Procs, storeParentLookup(p)
    PROVE  TreeInv'
<1>0. /\ proc[p].stack # <<>> /\ Top(p).fn \in Outer /\ Top(p).fn \notin Inner
      /\ Top(p).fn = "create"
  BY DEF storeParentLookup, At, Inner, Outer
<1>1. PICK t \in Tokens : t = Parent[Top(p).t]
  <2>1. PICK u \in Tokens : u = Top(p).t
    BY <1>0, Parts, TopType, ActivationType
  <2>2. Base(p) = Top(p)
    BY <1>0, Parts, TopOuter
  <2>3. Creating(p, u)
    BY <1>0, <2>1, <2>2 DEF Creating
  <2>4. Parent[u] # Nil
    BY <2>3, Parts DEF CreateInv
  <2>. QED  BY <2>1, <2>4, TokenAssumption
<1>2. /\ lookupInternal(p, t, FALSE, "index")
      /\ UNCHANGED <<tokensPendingDeletion, deleted, orphaned, doomed, idView, parentView>>
  BY <1>1 DEF storeParentLookup, Lookup, storeVars, histVars
<1>3. Shape /\ Shape'
  BY DEF IInv
<1>. QED  BY <1>0, <1>2, <1>3, OuterLooks

LEMMA useLookupTree ==
    ASSUME IInv, IInv', TreeInv, NEW p \in Procs, useLookup(p)
    PROVE  TreeInv'
<1>0. proc[p].stack # <<>> /\ Top(p).fn \in Outer
  BY DEF useLookup, At, Outer
<1>1. PICK t \in Tokens : t = Top(p).t
  BY <1>0, Parts, TopType, ActivationType
<1>2. /\ lookupInternal(p, t, FALSE, "lock")
      /\ UNCHANGED <<tokensPendingDeletion, deleted, orphaned, doomed, idView, parentView>>
  BY <1>1 DEF useLookup, Lookup, storeVars, histVars
<1>3. Shape /\ Shape'
  BY DEF IInv
<1>. QED  BY <1>0, <1>2, <1>3, OuterLooks

LEMMA revokeLookupTree ==
    ASSUME IInv, IInv', TreeInv, NEW p \in Procs, revokeLookup(p)
    PROVE  TreeInv'
<1>0. proc[p].stack # <<>> /\ Top(p).fn \in Outer
  BY DEF revokeLookup, At, Outer
<1>1. PICK t \in Tokens : t = Top(p).t
  BY <1>0, Parts, TopType, ActivationType
<1>2. /\ lookupInternal(p, t, FALSE, "revoke")
      /\ UNCHANGED <<tokensPendingDeletion, deleted, orphaned, doomed, idView, parentView>>
  BY <1>1 DEF revokeLookup, Lookup, storeVars, histVars
<1>3. Shape /\ Shape'
  BY DEF IInv
<1>. QED  BY <1>0, <1>2, <1>3, OuterLooks

\* A request's own activation goes on at another place.
LEMMA OuterMoves ==
    ASSUME Shape, Shape', TreeInv, NEW p \in Procs, proc[p].stack # <<>>, Top(p).fn \in Outer,
           UNCHANGED <<tokensPendingDeletion, deleted, orphaned, doomed, lease>>, IndexStep,
           \A d \in Existing : idView'[d] = Nil => idView[d] = Nil,
           NEW pc, Goto(p, pc), pc # "pop"
    PROVE  TreeInv'
<1>0. Top(p) \in Activation
  BY TopType
<1>1. PICK f : f = Moved(Top(p), pc)
  OBVIOUS
<1>2. Become(p, f)
  BY <1>1 DEF Goto, Moved
<1>3. f.fn = Top(p).fn /\ f.pc = pc
  BY <1>0, <1>1 DEF Moved, Activation
<1>4. NotLive' = NotLive /\ FrameOK(f, Flagged, Shut, NotLive')
  BY <1>3, LeaseSame, FrameFree DEF Outer
<1>5. f.fn # "revokeTreeInternal" /\ f.fn # "Revoke" /\ f.pc # "pop"
  BY <1>3 DEF Outer
<1>. QED  BY <1>2, <1>4, <1>5, OuterOn

LEMMA storeIndexTree ==
    ASSUME IInv, IInv', TreeInv, NEW p \in Procs, storeIndex(p)
    PROVE  TreeInv'
<1>0. /\ proc[p].stack # <<>> /\ Top(p).fn \in Outer /\ Shape /\ Shape'
      /\ ~At(p, "create", "register") /\ UNCHANGED <<idView, lease, deleted, orphaned, doomed>>
  BY DEF storeIndex, At, Outer, IInv, histVars
<1>1. CASE Top(p).entry = Nil
  <2>1. ReturnErr(p) /\ parentView' = parentView
    BY <1>1 DEF storeIndex
  <2>2. Others(p) /\ proc'[p].stack = <<>> /\ tokensPendingDeletion' = tokensPendingDeletion
    BY <1>0, <2>1, OuterFails
  <2>3. NotLive' = NotLive /\ IndexStep
    BY <1>0, <2>1, LeaseSame, IndexSame
  <2>. QED  BY <1>0, <2>2, <2>3, OuterEnds
<1>2. CASE Top(p).entry # Nil
  <2>1. PICK t \in Tokens : t = Top(p).t
    BY <1>0, TopType, ActivationType
  <2>2. /\ parentView' = parentView \cup {<<Parent[t], t>>} /\ Goto(p, "primary")
        /\ tokensPendingDeletion' = tokensPendingDeletion
    BY <1>2, <2>1 DEF storeIndex
  <2>3. IndexStep
    BY <2>2 DEF IndexStep, Edges, TreeInv, IndexInv
  <2>. QED  BY <1>0, <2>2, <2>3, OuterMoves
<1>. QED  BY <1>1, <1>2

LEMMA storePrimaryTree ==
    ASSUME IInv, IInv', TreeInv, NEW p \in Procs, storePrimary(p)
    PROVE  TreeInv'
<1>0. /\ proc[p].stack # <<>> /\ Top(p).fn \in Outer /\ Shape /\ Shape' /\ Top(p).fn = "create"
      /\ Goto(p, "register") /\ Top(p).fn \notin Inner
      /\ UNCHANGED <<parentView, tokensPendingDeletion, lease, deleted, orphaned, doomed>>
  BY DEF storePrimary, At, Outer, Inner, IInv, histVars
<1>1. PICK t \in Tokens : t = Top(p).t
  BY <1>0, TopType, ActivationType
<1>2. t \notin Existing
  <2>1. Creating(p, t)
    BY <1>0, <1>1, TopOuter DEF Creating
  <2>. QED  BY <2>1, Parts DEF CreateInv
<1>3. \A d \in Existing : idView'[d] = idView[d]
  BY <1>0, <1>1, <1>2, TokenAssumption DEF storePrimary, Shape
<1>4. IndexStep
  BY <1>0, IndexSame
<1>. QED  BY <1>0, <1>3, <1>4, OuterMoves

LEMMA RegisterAuthTree ==
    ASSUME IInv, IInv', TreeInv, NEW p \in Procs, RegisterAuth(p)
    PROVE  TreeInv'
<1>0. /\ proc[p].stack # <<>> /\ Top(p).fn \in Outer /\ Shape /\ Shape' /\ Top(p).fn = "create"
      /\ Return(p) /\ Top(p).fn \notin Inner
      /\ UNCHANGED <<idView, parentView, tokensPendingDeletion, deleted, orphaned, doomed>>
  BY DEF RegisterAuth, At, Outer, Inner, IInv, histVars, storeVars
<1>1. PICK t \in Tokens : t = Top(p).t
  BY <1>0, TopType, ActivationType
<1>2. t \notin Existing
  <2>1. Creating(p, t)
    BY <1>0, <1>1, TopOuter DEF Creating
  <2>. QED  BY <2>1, Parts DEF CreateInv
<1>3. PICK v : v = "live"
  OBVIOUS
<1>4. lease' = [lease EXCEPT ![t] = v]
  BY <1>1, <1>3 DEF RegisterAuth
<1>5. /\ NotLive \subseteq NotLive'
      /\ \A d \in Existing : lease'[d] = "none" => lease[d] = "none"
  BY <1>0, <1>2, <1>3, <1>4, LeaseChanges
<1>6. Others(p) /\ proc'[p].stack = <<>> /\ IndexStep
  BY <1>0, OuterReturns, IndexSame
<1>. QED  BY <1>0, <1>5, <1>6, OuterEnds

LEMMA LazyRevokeTree ==
    ASSUME IInv, IInv', TreeInv, NEW p \in Procs, LazyRevoke(p)
    PROVE  TreeInv'
<1>0. /\ proc[p].stack # <<>> /\ Top(p).fn \in Outer /\ Shape /\ Shape' /\ Return(p)
      /\ UNCHANGED <<idView, parentView, tokensPendingDeletion, deleted, orphaned, doomed>>
  BY DEF LazyRevoke, At, Outer, IInv, histVars, storeVars
<1>1. PICK t \in Tokens : t = Top(p).t
  BY <1>0, TopType, ActivationType
<1>3. PICK v : v = "due"
  OBVIOUS
<1>4. lease' = [lease EXCEPT ![t] = v] /\ v # "live" /\ v # "none"
  BY <1>1, <1>3 DEF LazyRevoke
<1>5. /\ NotLive \subseteq NotLive'
      /\ \A d \in Existing : lease'[d] = "none" => lease[d] = "none"
  BY <1>0, <1>4, LeaseChanges
<1>6. Others(p) /\ proc'[p].stack = <<>> /\ IndexStep
  BY <1>0, OuterReturns, IndexSame
<1>. QED  BY <1>0, <1>5, <1>6, OuterEnds

LEMMA UseTokenTree ==
    ASSUME IInv, IInv', TreeInv, NEW p \in Procs, UseToken(p)
    PROVE  TreeInv'
<1>0. /\ proc[p].stack # <<>> /\ Top(p).fn \in Outer /\ Shape /\ Shape'
      /\ ~At(p, "create", "register")
      /\ UNCHANGED <<idView, parentView, deleted, orphaned, doomed>>
  BY DEF UseToken, At, Outer, IInv, histVars
<1>1. IndexStep
  BY <1>0, IndexSame
<1>2. CASE ReturnErr(p) /\ UNCHANGED lease
  <2>1. Others(p) /\ proc'[p].stack = <<>> /\ tokensPendingDeletion' = tokensPendingDeletion
    BY <1>0, <1>2, OuterFails
  <2>2. NotLive' = NotLive /\ lease' = lease
    BY <1>0, <1>2, LeaseSame
  <2>. QED  BY <1>0, <1>1, <2>1, <2>2, OuterEnds
<1>3. CASE Return(p) /\ UNCHANGED <<tokensPendingDeletion, lease, tokenLocks>>
  <2>1. Others(p) /\ proc'[p].stack = <<>>
    BY <1>0, <1>3, OuterReturns
  <2>2. NotLive' = NotLive /\ lease' = lease /\ tokensPendingDeletion' = tokensPendingDeletion
    BY <1>0, <1>3, LeaseSame
  <2>. QED  BY <1>0, <1>1, <2>1, <2>2, OuterEnds
<1>4. CASE /\ lookupInternal(p, Top(p).t, FALSE, "store")
           /\ UNCHANGED tokensPendingDeletion
  <2>1. PICK t \in Tokens : t = Top(p).t
    BY <1>0, TopType, ActivationType
  <2>2. lookupInternal(p, t, FALSE, "store") /\ tokensPendingDeletion' = tokensPendingDeletion
    BY <1>4, <2>1
  <2>. QED  BY <1>0, <2>2, OuterLooks
<1>. QED  BY <1>2, <1>3, <1>4 DEF UseToken

LEMMA useStoreTree ==
    ASSUME IInv, IInv', TreeInv, NEW p \in Procs, useStore(p)
    PROVE  TreeInv'
<1>0. /\ proc[p].stack # <<>> /\ Top(p).fn \in Outer /\ Shape /\ Shape'
      /\ ~At(p, "create", "register")
      /\ UNCHANGED <<parentView, lease, deleted, orphaned, doomed>>
  BY DEF useStore, At, Outer, IInv
<1>1. IndexStep /\ NotLive' = NotLive
  BY <1>0, IndexSame, LeaseSame
<1>2. CASE Top(p).entry = Nil
  <2>0. ReturnErr(p) /\ idView' = idView
    BY <1>2 DEF useStore
  <2>1. Others(p) /\ proc'[p].stack = <<>> /\ tokensPendingDeletion' = tokensPendingDeletion
    BY <1>0, <2>0, OuterFails
  <2>. QED  BY <1>0, <1>1, <2>0, <2>1, OuterEnds
<1>3. CASE Top(p).entry # Nil
  <2>1. PICK t \in Tokens, e \in Entry : t = Top(p).t /\ e = Top(p).entry
    BY <1>0, <1>3, TopType, ActivationType
  <2>2. /\ idView' = [idView EXCEPT ![t] = [e EXCEPT !.uses = usesAfter(e.uses)]]
        /\ tokensPendingDeletion' = tokensPendingDeletion
        /\ Goto(p, "lazyRevoke") \/ Return(p)
    BY <1>3, <2>1 DEF useStore
  <2>3. \A d \in Existing : idView'[d] = Nil => idView[d] = Nil
    <3>1. [e EXCEPT !.uses = usesAfter(e.uses)] \in [uses : Int, parent : Tokens \cup {Nil}]
      BY DEF Entry, usesAfter, tokenRevocationPending
    <3>2. [e EXCEPT !.uses = usesAfter(e.uses)] # Nil
      BY <3>1, TokenAssumption
    <3>. QED  BY <1>0, <2>2, <3>2, TokenAssumption DEF Shape
  <2>4. CASE Goto(p, "lazyRevoke")
    BY <1>0, <1>1, <2>2, <2>3, <2>4, OuterMoves
  <2>5. CASE Return(p)
    <3>1. Others(p) /\ proc'[p].stack = <<>>
      BY <1>0, <2>5, OuterReturns
    <3>. QED  BY <1>0, <1>1, <2>2, <2>3, <3>1, OuterEnds
  <2>. QED  BY <2>2, <2>4, <2>5
<1>. QED  BY <1>2, <1>3

LEMMA handleRevokeOrphanTree ==
    ASSUME IInv, IInv', TreeInv, NEW p \in Procs, handleRevokeOrphan(p)
    PROVE  TreeInv'
<1>0. /\ proc[p].stack # <<>> /\ Top(p).fn \in Outer /\ Shape /\ Shape'
      /\ ~At(p, "create", "register")
      /\ UNCHANGED <<idView, parentView, lease, deleted, orphaned, doomed>>
  BY DEF handleRevokeOrphan, At, Outer, IInv, histVars
<1>1. IndexStep /\ NotLive' = NotLive
  BY <1>0, IndexSame, LeaseSame
<1>2. CASE Top(p).entry = Nil
  <2>0. ReturnErr(p)
    BY <1>2 DEF handleRevokeOrphan
  <2>1. Others(p) /\ proc'[p].stack = <<>> /\ tokensPendingDeletion' = tokensPendingDeletion
    BY <1>0, <2>0, OuterFails
  <2>. QED  BY <1>0, <1>1, <2>1, OuterEnds
<1>3. CASE Top(p).entry # Nil
  <2>1. PICK f : f = Frame("revokeInternal", Top(p).t, "flag")
    OBVIOUS
  <2>2. Become(p, f) /\ tokensPendingDeletion' = tokensPendingDeletion
    BY <1>3, <2>1 DEF handleRevokeOrphan
  <2>3. f.fn = "revokeInternal" /\ f.pc = "flag" /\ f.skipOrphan = FALSE
    BY <2>1 DEF Frame
  <2>4. FrameOK(f, Flagged, Shut, NotLive')
    BY <2>3 DEF FrameOK, RevokeOK, Deferred
  <2>. QED  BY <1>0, <1>1, <2>2, <2>3, <2>4, OuterOn
<1>. QED  BY <1>2, <1>3

LEMMA handleRevokeTreeTree ==
    ASSUME IInv, IInv', TreeInv, NEW p \in Procs, handleRevokeTree(p)
    PROVE  TreeInv'
<1>0. /\ proc[p].stack # <<>> /\ Top(p).fn \in Outer /\ Shape /\ Shape' /\ Top(p).fn \notin Inner
      /\ UNCHANGED <<idView, parentView, tokensPendingDeletion, deleted, orphaned>>
  BY DEF handleRevokeTree, At, Outer, Inner, IInv, storeVars
<1>1. IndexStep /\ Flagged' = Flagged
  BY <1>0, IndexSame DEF Flagged
<1>2. CASE Top(p).entry = Nil
  <2>0. Return(p) /\ UNCHANGED <<lease, doomed>>
    BY <1>2 DEF handleRevokeTree
  <2>1. Others(p) /\ proc'[p].stack = <<>>
    BY <1>0, <2>0, OuterReturns
  <2>2. NotLive' = NotLive
    BY <1>0, <2>0, LeaseSame
  <2>. QED  BY <1>0, <1>1, <2>0, <2>1, <2>2, OuterEnds
<1>3. CASE Top(p).entry # Nil
  <2>0. PICK t \in Tokens : t = Top(p).t
    BY <1>0, TopType, ActivationType
  <2>1. PICK f, v : /\ f = Frame("Revoke", t, "load")
                    /\ v = IF lease[t] = "none" THEN "bare" ELSE lease[t]
    OBVIOUS
  <2>2. /\ Become(p, f) /\ lease' = [lease EXCEPT ![t] = v]
        /\ doomed' = [doomed EXCEPT ![p] = Reach(t, parentView)]
    BY <1>3, <2>0, <2>1 DEF handleRevokeTree, TreeOf
  <2>3. f.fn = "Revoke" /\ f.pc = "load" /\ f.t = t
    BY <2>1 DEF Frame
  <2>4. FrameOK(f, Flagged, Shut, NotLive')
    BY <2>3, FrameFree
  <2>5. /\ NotLive \subseteq NotLive'
        /\ \A d \in Existing : lease'[d] = "none" => lease[d] = "none"
    BY <1>0, <2>1, <2>2, TokenAssumption DEF NotLive, Ended, Shape
  <2>6. DoomInv'
    <3>0. PICK s : s = proc[p].stack
      OBVIOUS
    <3>1. /\ Others(p) /\ Replaced(s, proc'[p].stack, f)
      BY <1>0, <2>2, <3>0, BecomeFacts
    <3>2. Len(s) = 1 /\ Base(p) = Top(p)
      BY <1>0, <3>0, TopOuter
    <3>3. proc'[p].stack # <<>> /\ proc'[p].stack[Len(proc'[p].stack)] = f
      BY <3>1, <3>2 DEF Replaced
    <3>4. Settled(p, t)'
      BY <2>3, <3>3 DEF Settled, Base
    <3>5. doomed \in [Procs -> SUBSET Tokens] /\ Reach(t, parentView) \subseteq Tokens
      BY DEF TreeInv, DoomInv, Reach
    <3>6. doomed' \in [Procs -> SUBSET Tokens]
      BY <2>2, <3>5
    <3> SUFFICES ASSUME NEW q \in Procs, doomed'[q] # {}
                 PROVE  \E a \in Tokens, E \in SUBSET Edges :
                          doomed'[q] = Reach(a, E) /\ Settled(q, a)'
      BY <3>6 DEF DoomInv, Reach, Edges
    <3>7. CASE q = p
      <4>1. doomed'[q] = Reach(t, parentView)
        BY <2>2, <3>5, <3>7
      <4>2. parentView \in SUBSET Edges
        BY DEF TreeInv, IndexInv
      <4>. QED  BY <3>4, <3>7, <4>1, <4>2
    <3>8. CASE q # p
      <4>1. doomed'[q] = doomed[q]
        BY <2>2, <3>5, <3>8
      <4>2. PICK a \in Tokens, E \in SUBSET Edges : doomed[q] = Reach(a, E) /\ Settled(q, a)
        BY <4>1 DEF TreeInv, DoomInv
      <4>3. BaseKept(s, proc'[p].stack)
        BY <1>0, <3>0, <3>2, <3>3 DEF BaseKept, Base, Inner
      <4>4. Settled(q, a)'
        BY <1>0, <1>1, <3>0, <3>1, <3>3, <4>2, <4>3, SettledKept
      <4>. QED  BY <4>1, <4>2, <4>4
    <3>. QED  BY <3>7, <3>8
  <2>. QED  BY <1>0, <1>1, <2>2, <2>3, <2>4, <2>5, <2>6, OuterOn
<1>. QED  BY <1>2, <1>3

LEMMA LevelType ==
    ASSUME Forest
    PROVE  /\ Level \in [Tokens -> Nat]
           /\ \A t \in Tokens : Parent[t] # Nil => Level[t] = Level[Parent[t]] + 1
<1>1. Levelled(Level)
  BY DEF Forest, Level
<1>. QED  BY <1>1 DEF Levelled

LEMMA RevokeLoadTree ==
    ASSUME Forest, IInv, IInv', TreeInv, NEW p \in Procs, RevokeLoad(p)
    PROVE  TreeInv'
<1>0. /\ proc[p].stack # <<>> /\ Top(p).fn = "Revoke" /\ Top(p).pc = "load" /\ Shape /\ Shape'
      /\ UNCHANGED <<idView, parentView, lease, tokensPendingDeletion, deleted, orphaned, doomed>>
  BY DEF RevokeLoad, At, IInv, storeVars, histVars
<1>1. IndexStep /\ NotLive' = NotLive
  BY <1>0, IndexSame, LeaseSame
<1>2. PICK s : s = proc[p].stack
  OBVIOUS
<1>3. /\ s \in Seq(Activation) /\ StackOK(s) /\ Top(p) = s[1] /\ Linked(s) /\ s # <<>>
      /\ \A i \in 1 .. Len(s) : i > 1 => FrameOK(s[i], Flagged, Shut, NotLive')
  BY <1>0, <1>1, <1>2, TopTree
<1>4. PICK t \in Tokens : t = Top(p).t
  BY <1>0, TopType, ActivationType
<1>5. CASE lease[t] = "none"
  <2>1. Return(p)
    BY <1>4, <1>5 DEF RevokeLoad
  <2>2. /\ Others(p) /\ proc'[p].stack = Resumed(Tail(s))
        /\ proc'[p].stack = <<>> \/ proc'[p].result = proc[p].result
    BY <1>0, <1>2, <2>1, ReturnFacts
  <2>3. /\ TreeStack(proc'[p].stack, Flagged, Shut, NotLive')
        /\ Keeps(s, proc'[p].stack) /\ BaseKept(s, proc'[p].stack)
    <3>1. s[1].fn # "revokeTreeInternal" /\ s[1].fn # "revokeInternal"
      BY <1>0, <1>3
    <3>. QED  BY <1>3, <2>2, <3>1, ReturnTree
  <2>4. proc'[p].stack = <<>> => Base(p) = Top(p)
    BY <1>2, <1>3, <2>3 DEF BaseKept, Base
  <2>5. t \in Existing => t \in Flagged
    BY <1>5 DEF TreeInv, OrderInv
  <2>. QED  BY <1>0, <1>1, <1>2, <1>4, <2>2, <2>3, <2>4, <2>5, PlainStep
<1>6. CASE lease[t] # "none"
  <2>0. PICK f, g : /\ f = Moved(Top(p), "delete")
                    /\ g = Frame("revokeTreeInternal", t, "list")
    OBVIOUS
  <2>1. Call(p, f, g)
    BY <1>4, <1>6, <2>0 DEF RevokeLoad, Moved
  <2>2. f.fn = "Revoke" /\ f.t = t /\ f.pc = "delete"
    BY <1>0, <1>4, <2>0, TopType DEF Moved, Activation
  <2>3. g.fn = "revokeTreeInternal" /\ g.t = t /\ g.pc = "list" /\ g.dfs = <<t>> /\ g.seenIDs = {}
    BY <2>0 DEF Frame
  <2>4. WalkOK(g, Flagged)
    <3>1. Len(g.dfs) = 1 /\ g.dfs[1] = t /\ Level[t] \in Nat
      BY <2>3, LevelType
    <3>2. \A i \in 1 .. Len(g.dfs) : i = 1
      BY <3>1
    <3>3. \A i, j \in 1 .. Len(g.dfs) : i <= j => Level[g.dfs[i]] <= Level[g.dfs[j]]
      BY <3>1, <3>2
    <3>. QED  BY <2>3, <3>1, <3>3 DEF WalkOK
  <2>5. FrameOK(g, Flagged, Shut, NotLive') /\ FrameOK(f, Flagged, Shut, NotLive')
    BY <2>2, <2>3, <2>4 DEF FrameOK
  <2>6. Called(g, f)
    BY <2>2, <2>3 DEF Called
  <2>7. /\ Others(p) /\ Grown(s, proc'[p].stack, f, g) /\ proc'[p].result = proc[p].result
    BY <1>0, <1>2, <2>1, CallFacts
  <2>8. TreeStack(proc'[p].stack, Flagged, Shut, NotLive') /\ Keeps(s, proc'[p].stack)
        /\ BaseKept(s, proc'[p].stack)
    <3>1. f.fn = s[1].fn /\ f.t = s[1].t /\ g.pc # "pop" /\ (g.fn = "Revoke" => g.pc # "delete")
      BY <1>0, <1>3, <1>4, <2>2, <2>3
    <3>. QED  BY <1>3, <2>5, <2>6, <2>7, <3>1, GrownTree
  <2>9. proc'[p].stack # <<>>
    BY <2>7 DEF Grown
  <2>. QED  BY <1>0, <1>1, <1>2, <2>7, <2>8, <2>9, PlainStep
<1>. QED  BY <1>5, <1>6

LEMMA RevokeDeleteTree ==
    ASSUME IInv, IInv', TreeInv, NEW p \in Procs, RevokeDelete(p)
    PROVE  TreeInv'
<1>0. /\ proc[p].stack # <<>> /\ Top(p).fn = "Revoke" /\ Top(p).pc = "delete" /\ Shape /\ Shape'
      /\ Return(p) /\ UNCHANGED <<idView, parentView, tokensPendingDeletion, deleted, orphaned, doomed>>
  BY DEF RevokeDelete, At, IInv, storeVars, histVars
<1>1. IndexStep
  BY <1>0, IndexSame
<1>2. PICK s : s = proc[p].stack
  OBVIOUS
<1>3. /\ s \in Seq(Activation) /\ StackOK(s) /\ Top(p) = s[1] /\ Linked(s) /\ s # <<>>
      /\ \A i \in 1 .. Len(s) : i > 1 => FrameOK(s[i], Flagged, Shut, NotLive)
      /\ HeadOK(s, Flagged)
  BY <1>0, <1>1, <1>2, TopTree
<1>4. PICK t \in Tokens : t = Top(p).t
  BY <1>0, TopType, ActivationType
<1>5. t \in Flagged /\ KidsIn(t, Flagged)
  BY <1>0, <1>3, <1>4 DEF HeadOK
<1>6. /\ NotLive \subseteq NotLive'
      /\ \A d \in Existing :
           lease'[d] = "none" => lease[d] = "none" \/ (d \in Flagged /\ KidsIn(d, Flagged))
  <2>1. PICK v : v = "none"
    OBVIOUS
  <2>2. lease' = [lease EXCEPT ![t] = v] /\ v # "live"
    BY <1>4, <2>1 DEF RevokeDelete
  <2>3. /\ NotLive \subseteq NotLive'
        /\ \A d \in Existing : lease'[d] = "none" => lease[d] = "none" \/ (d = t /\ v = "none")
    BY <1>0, <2>2, LeaseChanges
  <2>. QED  BY <1>5, <2>3
<1>7. /\ Others(p) /\ proc'[p].stack = Resumed(Tail(s))
      /\ proc'[p].stack = <<>> \/ proc'[p].result = proc[p].result
  BY <1>0, <1>2, ReturnFacts
<1>8. /\ TreeStack(proc'[p].stack, Flagged, Shut, NotLive')
      /\ Keeps(s, proc'[p].stack) /\ BaseKept(s, proc'[p].stack)
  <2>1. s[1].fn # "revokeTreeInternal" /\ s[1].fn # "revokeInternal"
    BY <1>0, <1>3
  <2>2. \A i \in 1 .. Len(s) : i > 1 => FrameOK(s[i], Flagged, Shut, NotLive')
    BY <1>3, <1>6, BelowKept
  <2>. QED  BY <1>3, <1>7, <2>1, <2>2, ReturnTree
<1>9. proc'[p].stack = <<>> => Base(p) = Top(p)
  BY <1>2, <1>3, <1>8 DEF BaseKept, Base
<1>. QED  BY <1>0, <1>1, <1>2, <1>4, <1>5, <1>6, <1>7, <1>8, <1>9, PlainStep

LEMMA SetToSeqElements ==
    ASSUME NEW S \in SUBSET Tokens
    PROVE  SetToSeq(S) \in Seq(S)
<1>1. Cardinality(S) \in Nat /\ ExistsBijection(1 .. Cardinality(S), S)
  BY TokenAssumption, FS_Subset, FS_CardinalityType
<1>2. \E f \in [1 .. Cardinality(S) -> S] : IsInjective(f)
  BY <1>1 DEF ExistsBijection, Bijection, Injection
<1>3. SetToSeq(S) \in [1 .. Cardinality(S) -> S]
  BY <1>2 DEF SetToSeq
<1>. QED  BY <1>1, <1>3, SeqDef

\* A child that the walk has seen is revoked: it is not on dfs, where all
\* tokens are above the last one's children.
LEMMA SeenRevoked ==
    ASSUME Forest, IndexInv, NEW f \in Activation, WalkOK(f, Flagged),
           NEW c \in Tokens, <<Last(f.dfs), c>> \in parentView,
           c \in f.seenIDs \cup {Last(f.dfs)}
    PROVE  c \in Flagged
<1>0. PICK n, id : n = Len(f.dfs) /\ id = Last(f.dfs)
  OBVIOUS
<1>1. f.dfs \in Seq(Tokens) /\ n \in Nat \ {0} /\ id = f.dfs[n] /\ id \in Tokens
  BY <1>0, ActivationType, LastType, EmptySeq, LenProperties DEF Last
<1>2. Parent[c] = id
  BY <1>0 DEF IndexInv, Edges
<1>3. Level[c] = Level[id] + 1 /\ Level[c] \in Nat /\ Level[id] \in Nat
  BY <1>1, <1>2, LevelType, TokenAssumption
<1>4. c # id /\ c \in f.seenIDs
  BY <1>0, <1>3
<1>5. ASSUME NEW i \in 1 .. n, f.dfs[i] = c PROVE FALSE
  <2>1. n \in 1 .. n /\ i <= n
    BY <1>1
  <2>2. Level[f.dfs[i]] <= Level[f.dfs[n]]
    BY <1>0, <2>1 DEF WalkOK
  <2>. QED  BY <1>1, <1>3, <1>5, <2>2
<1>. QED  BY <1>0, <1>4, <1>5 DEF WalkOK

LEMMA LessNext ==
    ASSUME NEW x \in Nat, NEW y \in Nat, x <= y
    PROVE  x <= y + 1
  OBVIOUS

\* A walk goes on to the unseen children of the last token of dfs.
LEMMA WalkGrows ==
    ASSUME Forest, NEW f \in Activation, NEW F, WalkOK(f, F), f.pc = "list",
           NEW S \in SUBSET Tokens, \A c \in S : Parent[c] = Last(f.dfs),
           NEW g, g.dfs = f.dfs \o SetToSeq(S), g.pc = "list", g.t = f.t,
           g.seenIDs = f.seenIDs \cup {Last(f.dfs)}
    PROVE  WalkOK(g, F)
<1>0. PICK n, id, r : n = Len(f.dfs) /\ id = Last(f.dfs) /\ r = SetToSeq(S)
  OBVIOUS
<1>1. f.dfs \in Seq(Tokens) /\ n \in Nat \ {0} /\ id = f.dfs[n] /\ id \in Tokens
  BY <1>0, ActivationType, LastType, EmptySeq, LenProperties DEF Last
<1>2. r \in Seq(S) /\ r \in Seq(Tokens) /\ Len(r) \in Nat
  BY <1>0, SetToSeqElements, SeqWider, LenProperties
<1>3. /\ Len(g.dfs) = n + Len(r)
      /\ \A i \in 1 .. n + Len(r) : g.dfs[i] = IF i <= n THEN f.dfs[i] ELSE r[i - n]
  BY <1>0, <1>1, <1>2, ConcatProperties
<1>4. \A i \in 1 .. n : i \in 1 .. n + Len(r) /\ g.dfs[i] = f.dfs[i] /\ f.dfs[i] \in Tokens
  <2>1. \A i \in 1 .. n : f.dfs[i] \in Tokens
    BY <1>0, <1>1, ElementOfSeq
  <2>. QED  BY <1>1, <1>2, <1>3, <2>1
<1>5. ASSUME NEW i \in 1 .. n + Len(r), ~(i <= n) PROVE Level[g.dfs[i]] = Level[id] + 1
  <2>1. i - n \in 1 .. Len(r) /\ g.dfs[i] = r[i - n]
    BY <1>1, <1>2, <1>3, <1>5
  <2>2. g.dfs[i] \in S
    BY <1>2, <2>1, ElementOfSeq
  <2>3. Parent[g.dfs[i]] = id /\ id # Nil
    BY <1>0, <1>1, <2>2, TokenAssumption
  <2>. QED  BY <2>2, <2>3, LevelType
<1>6. \A i \in 1 .. n : Level[f.dfs[i]] <= Level[id] /\ Level[f.dfs[i]] \in Nat
  <2>1. ASSUME NEW i \in 1 .. n PROVE Level[f.dfs[i]] <= Level[f.dfs[n]]
    <3>1. n \in 1 .. n /\ i <= n
      BY <1>1
    <3>. QED  BY <1>0, <3>1 DEF WalkOK
  <2>. QED  BY <1>1, <1>4, <2>1, LevelType
<1>7. ASSUME NEW i \in 1 .. n + Len(r), NEW j \in 1 .. n + Len(r), i <= j
      PROVE  Level[g.dfs[i]] <= Level[g.dfs[j]]
  <2>0. Level[id] \in Nat
    BY <1>1, LevelType
  <2>1. CASE j <= n
    <3>1. i \in 1 .. n /\ j \in 1 .. n
      BY <1>1, <1>2, <1>7, <2>1
    <3>. QED  BY <1>0, <1>4, <1>7, <3>1 DEF WalkOK
  <2>2. CASE i <= n /\ ~(j <= n)
    <3>1. i \in 1 .. n
      BY <1>1, <1>2, <2>2
    <3>2. Level[g.dfs[i]] <= Level[id] /\ Level[g.dfs[i]] \in Nat
      BY <1>4, <1>6, <3>1
    <3>3. Level[g.dfs[j]] = Level[id] + 1
      BY <1>5, <2>2
    <3>4. PICK x \in Nat, y \in Nat : x = Level[g.dfs[i]] /\ y = Level[id]
      BY <2>0, <3>2
    <3>5. x <= y
      BY <3>2, <3>4, Zenon
    <3>6. x <= y + 1
      BY <3>5, LessNext, Zenon
    <3>. QED  BY <3>3, <3>4, <3>6, Zenon
  <2>3. CASE ~(i <= n) /\ ~(j <= n)
    <3>1. Level[g.dfs[i]] = Level[id] + 1 /\ Level[g.dfs[j]] = Level[id] + 1
      BY <1>5, <2>3
    <3>. QED  BY <2>0, <3>1
  <2>4. j <= n \/ ~(j <= n)
    OBVIOUS
  <2>5. j <= n => i <= n
    BY <1>1, <1>2, <1>7
  <2>. QED  BY <2>1, <2>2, <2>3, <2>4, <2>5
<1>8. g.dfs[1] = g.t
  <2>1. 1 \in 1 .. n
    BY <1>1
  <2>. QED  BY <1>4, <2>1 DEF WalkOK
<1>9. ASSUME NEW c \in g.seenIDs, c \notin F PROVE \E i \in 1 .. Len(g.dfs) : g.dfs[i] = c
  <2>1. PICK i \in 1 .. n : f.dfs[i] = c
    <3>1. n \in 1 .. n
      BY <1>1
    <3>. QED  BY <1>0, <1>1, <1>9, <3>1 DEF WalkOK
  <2>. QED  BY <1>3, <1>4, <2>1
<1>. QED  BY <1>3, <1>7, <1>8, <1>9 DEF WalkOK

\* A walk waits for the revocation of the last token of dfs.
LEMMA WalkWaits ==
    ASSUME NEW f \in Activation, NEW F, WalkOK(f, F), KidsIn(Last(f.dfs), F),
           NEW g, g.dfs = f.dfs, g.t = f.t, g.seenIDs = f.seenIDs \cup {Last(f.dfs)}
    PROVE  WalkOK(g, F)
<1>1. f.dfs \in Seq(Tokens) /\ Len(f.dfs) \in 1 .. Len(f.dfs)
  BY ActivationType, EmptySeq, LenProperties
<1>2. \A c \in g.seenIDs : c \in F \/ \E i \in 1 .. Len(f.dfs) : f.dfs[i] = c
  BY <1>1 DEF WalkOK, Last
<1>. QED  BY <1>2 DEF WalkOK

LEMMA revokeTreeInternalTree ==
    ASSUME Forest, IInv, IInv', TreeInv, NEW p \in Procs, revokeTreeInternal(p)
    PROVE  TreeInv'
<1>0. /\ proc[p].stack # <<>> /\ Top(p).fn = "revokeTreeInternal" /\ Top(p).pc = "list"
      /\ Shape /\ Shape'
      /\ UNCHANGED <<idView, lease, tokensPendingDeletion, deleted, orphaned, doomed>>
  BY DEF revokeTreeInternal, At, IInv, histVars
<1>1. PICK s : s = proc[p].stack
  OBVIOUS
<1>2. NotLive' = NotLive
  BY <1>0, LeaseSame
<1>3. /\ s \in Seq(Activation) /\ Top(p) = s[1] /\ Top(p) \in Activation /\ Linked(s) /\ s # <<>>
      /\ \A i \in 1 .. Len(s) : i > 1 => FrameOK(s[i], Flagged, Shut, NotLive')
      /\ FrameOK(Top(p), Flagged, Shut, NotLive)
  BY <1>0, <1>1, <1>2, TopTree
<1>4. PICK f \in Activation : f = Top(p)
  BY <1>3
<1>5. f.fn = "revokeTreeInternal" /\ f.pc = "list" /\ WalkOK(f, Flagged) /\ IndexInv
  BY <1>0, <1>3, <1>4 DEF FrameOK, TreeInv
<1>6. PICK id \in Tokens : id = Last(f.dfs)
  BY ActivationType, LastType
<1>7. PICK kids \in SUBSET Tokens : kids = {c \in Tokens : <<id, c>> \in parentView}
  OBVIOUS
<1>8. PICK new \in SUBSET Tokens : new = unseen(f, kids)
  BY DEF unseen
<1>9. \A c \in kids \ new : c \in Flagged
  <2> SUFFICES ASSUME NEW c \in kids, c \notin new PROVE c \in Flagged
    OBVIOUS
  <2>1. c \in Tokens /\ <<Last(f.dfs), c>> \in parentView /\ c \in f.seenIDs \cup {Last(f.dfs)}
    BY <1>6, <1>7, <1>8 DEF unseen
  <2>. QED  BY <1>5, <2>1, SeenRevoked
<1>10. IndexStep
  <2>1. parentView' = parentView \ {<<id, c>> : c \in kids \ new}
    BY <1>4, <1>6, <1>7, <1>8 DEF revokeTreeInternal
  <2>2. Flagged' = Flagged
    BY <1>0 DEF Flagged
  <2>. QED  BY <1>5, <1>9, <2>1, <2>2 DEF IndexStep, IndexInv
<1>11. CASE new = {}
  <2>1. KidsIn(id, Flagged)
    <3> SUFFICES ASSUME NEW d \in Existing, Parent[d] = id PROVE d \in Flagged
      BY DEF KidsIn
    <3>1. <<id, d>> \in parentView \/ d \in Flagged
      BY <1>5, <1>6, TokenAssumption DEF IndexInv
    <3>. QED  BY <1>7, <1>9, <1>11, <3>1, TokenAssumption
  <2>2. PICK h, k :
          /\ h = [[f EXCEPT !.seenIDs = @ \cup {id}] EXCEPT !.pc = "pop"]
          /\ k = [Frame("revokeInternal", id, "flag") EXCEPT !.skipOrphan = TRUE]
    OBVIOUS
  <2>3. Call(p, h, k)
    BY <1>4, <1>6, <1>7, <1>8, <1>11, <2>2 DEF revokeTreeInternal
  <2>4. /\ h.fn = f.fn /\ h.t = f.t /\ h.pc = "pop" /\ h.dfs = f.dfs
        /\ h.seenIDs = f.seenIDs \cup {Last(f.dfs)}
    BY <1>6, <2>2 DEF Activation
  <2>5. k.fn = "revokeInternal" /\ k.t = id /\ k.pc = "flag"
    BY <2>2 DEF Frame
  <2>6. WalkOK(h, Flagged)
    BY <1>5, <1>6, <2>1, <2>4, WalkWaits
  <2>7. FrameOK(h, Flagged, Shut, NotLive') /\ FrameOK(k, Flagged, Shut, NotLive')
    BY <1>5, <2>1, <2>4, <2>5, <2>6 DEF FrameOK, RevokeOK, Deferred
  <2>8. Called(k, h)
    BY <1>5, <1>6, <2>4, <2>5 DEF Called
  <2>9. Others(p) /\ Grown(s, proc'[p].stack, h, k) /\ proc'[p].result = proc[p].result
    BY <1>0, <1>1, <2>3, CallFacts
  <2>10. TreeStack(proc'[p].stack, Flagged, Shut, NotLive') /\ Keeps(s, proc'[p].stack)
         /\ BaseKept(s, proc'[p].stack)
    <3>1. h.fn = s[1].fn /\ h.t = s[1].t /\ k.pc # "pop" /\ k.fn # "Revoke"
      BY <1>3, <1>4, <2>4, <2>5
    <3>. QED  BY <1>3, <2>7, <2>8, <2>9, <3>1, GrownTree
  <2>11. proc'[p].stack # <<>>
    BY <2>9 DEF Grown
  <2>. QED  BY <1>0, <1>1, <1>2, <1>10, <2>9, <2>10, <2>11, PlainStep
<1>12. CASE new # {}
  <2>1. PICK h : h = [[f EXCEPT !.seenIDs = @ \cup {id}] EXCEPT !.dfs = @ \o SetToSeq(new)]
    OBVIOUS
  <2>2. Become(p, h)
    BY <1>4, <1>6, <1>7, <1>8, <1>12, <2>1 DEF revokeTreeInternal
  <2>3. /\ h.fn = f.fn /\ h.t = f.t /\ h.pc = "list" /\ h.dfs = f.dfs \o SetToSeq(new)
        /\ h.seenIDs = f.seenIDs \cup {Last(f.dfs)}
    BY <1>5, <1>6, <2>1 DEF Activation
  <2>4. \A c \in new : Parent[c] = Last(f.dfs)
    BY <1>5, <1>6, <1>7, <1>8 DEF unseen, IndexInv, Edges
  <2>5. FrameOK(h, Flagged, Shut, NotLive')
    <3>1. WalkOK(h, Flagged)
      BY <1>5, <2>3, <2>4, WalkGrows
    <3>. QED  BY <1>5, <2>3, <3>1 DEF FrameOK
  <2>6. Others(p) /\ Replaced(s, proc'[p].stack, h) /\ proc'[p].result = proc[p].result
    BY <1>0, <1>1, <2>2, BecomeFacts
  <2>7. TreeStack(proc'[p].stack, Flagged, Shut, NotLive') /\ Keeps(s, proc'[p].stack)
        /\ BaseKept(s, proc'[p].stack)
    <3>1. h.fn = s[1].fn /\ h.t = s[1].t /\ h.pc # "pop" /\ h.fn # "Revoke"
      BY <1>3, <1>4, <1>5, <2>3
    <3>. QED  BY <1>3, <2>5, <2>6, <3>1, ReplacedTree
  <2>8. proc'[p].stack # <<>>
    BY <2>6 DEF Replaced
  <2>. QED  BY <1>0, <1>1, <1>2, <1>10, <2>6, <2>7, <2>8, PlainStep
<1>. QED  BY <1>11, <1>12

-----------------------------------------------------------------------------
(* Steps of revokeInternal in a revocation of trees.                       *)

\* What the invariant says of a revocation on top.
LEMMA TopRevokes ==
    ASSUME Shape, TreeInv, NEW p \in Procs, proc[p].stack # <<>>, Top(p).fn = "revokeInternal"
    PROVE  /\ Top(p) \in Activation /\ Top(p).t \in Tokens
           /\ RevokeOK(Top(p), Flagged, Shut, NotLive)
<1>1. Top(p) \in Activation /\ FrameOK(Top(p), Flagged, Shut, NotLive)
  BY TopTree
<1>. QED  BY <1>1, ActivationType DEF FrameOK

LEMMA OrderSame ==
    ASSUME TreeInv, UNCHANGED <<idView, lease, tokensPendingDeletion, deleted>>
    PROVE  OrderStep
<1>1. Flagged' = Flagged
  BY DEF Flagged
<1>. QED  BY <1>1 DEF OrderStep, TreeInv, OrderInv

\* The activation on top, a revocation, goes on as f.
LEMMA RevocationOn ==
    ASSUME Shape, Shape', TreeInv, NEW p \in Procs, proc[p].stack # <<>>,
           Top(p).fn = "revokeInternal", Flagged \subseteq Flagged', orphaned \subseteq orphaned',
           NotLive \subseteq NotLive', deleted \subseteq deleted', doomed' = doomed, IndexStep,
           NEW f, Become(p, f), f.fn = "revokeInternal", f.t = Top(p).t, f.pc # "pop", f.pc # "flag",
           \A d \in Existing :
               /\ Cuts(Top(p), d) => d \in Flagged' \cup orphaned' \/ Cuts(f, d)
               /\ CutsSoon(Top(p), d) => d \in Shut \/ Cuts(f, d) \/ CutsSoon(f, d),
           Grew /\ f \in Active' => OrderStep /\ RevokeOK(f, Flagged', Shut', NotLive')
    PROVE  TreeInv'
<1>0. PICK s : s = proc[p].stack
  OBVIOUS
<1>1. /\ s \in Seq(Activation) /\ Top(p) = s[1] /\ Linked(s) /\ s # <<>>
      /\ \A i \in 1 .. Len(s) : i > 1 => FrameOK(s[i], Flagged, Shut, NotLive)
  BY <1>0, TopTree
<1>2. Others(p) /\ Replaced(s, proc'[p].stack, f) /\ proc'[p].result = proc[p].result
  BY <1>0, BecomeFacts
<1>3. Keeps(s, proc'[p].stack)
  <2>1. \A i \in 2 .. Len(s) : i \in 1 .. Len(proc'[p].stack) /\ proc'[p].stack[i] = s[i]
    BY <1>2 DEF Replaced
  <2>. QED  BY <2>1 DEF Keeps
<1>4. f \in Active'
  <2>1. proc'[p].stack \in Seq(Activation) /\ proc'[p].stack # <<>> /\ proc'[p].stack[1] = f
    BY <1>2 DEF Shape, StackOK, Replaced
  <2>2. f \in Activation /\ 1 \in 1 .. Len(proc'[p].stack)
    BY <2>1, TailSeq
  <2>. QED  BY <2>1, <2>2 DEF Active
<1>5. Grew
  <2>1. ASSUME NEW d \in Existing
        PROVE  /\ Cuts(Top(p), d) => d \in Shut'
               /\ CutsSoon(Top(p), d) => d \in Shut \/ d \in Leaving'
               /\ Revokes(Top(p), d) => d \in Attended'
    <3>1. Cuts(f, d) => d \in Shut' /\ d \in Leaving'
      BY <1>4 DEF Shut, Leaving
    <3>2. CutsSoon(f, d) => d \in Leaving'
      BY <1>4 DEF Leaving
    <3>3. d \in Flagged' \cup orphaned' => d \in Shut'
      BY DEF Shut
    <3>4. Revokes(Top(p), d) => Revokes(f, d)
      BY DEF Revokes
    <3>5. Revokes(f, d) => d \in Attended'
      BY <1>4 DEF Attended
    <3>. QED  BY <3>1, <3>2, <3>3, <3>4, <3>5
  <2>. QED  BY <1>0, <1>1, <1>2, <1>3, <2>1, GrewBy
<1>6. OrderStep /\ FrameOK(f, Flagged', Shut', NotLive')
  BY <1>4, <1>5 DEF FrameOK
<1>7. TreeStack(proc'[p].stack, Flagged', Shut', NotLive') /\ BaseKept(s, proc'[p].stack)
  <2>1. \A i \in 1 .. Len(s) : i > 1 => FrameOK(s[i], Flagged', Shut', NotLive')
    BY <1>1, <1>5, BelowKept DEF Grew
  <2>2. f.fn = s[1].fn /\ f.t = s[1].t /\ f.fn # "Revoke"
    BY <1>1
  <2>. QED  BY <1>1, <1>2, <1>6, <2>1, <2>2, ReplacedTree
<1>8. proc'[p].stack # <<>>
  BY <1>2 DEF Replaced
<1>. QED  BY <1>0, <1>1, <1>2, <1>5, <1>6, <1>7, <1>8, TreeStep

\* It makes a lookup revoke a token, and goes on as f afterwards.
LEMMA RevocationCalls ==
    ASSUME Shape, Shape', TreeInv, NEW p \in Procs, proc[p].stack # <<>>,
           Top(p).fn = "revokeInternal", Flagged \subseteq Flagged', orphaned \subseteq orphaned',
           NotLive \subseteq NotLive', deleted \subseteq deleted', doomed' = doomed, IndexStep,
           NEW f, NEW g, Call(p, f, g), g.fn = "Revoke", g.pc = "load",
           f.fn = "revokeInternal", f.t = Top(p).t, f.pc # "flag",
           \A d \in Existing :
               /\ Cuts(Top(p), d) => Cuts(f, d)
               /\ CutsSoon(Top(p), d) => d \in Shut,
           Grew => OrderStep /\ RevokeOK(f, Flagged', Shut', NotLive')
    PROVE  TreeInv'
<1>0. PICK s : s = proc[p].stack
  OBVIOUS
<1>1. /\ s \in Seq(Activation) /\ Top(p) = s[1] /\ Linked(s) /\ s # <<>>
      /\ \A i \in 1 .. Len(s) : i > 1 => FrameOK(s[i], Flagged, Shut, NotLive)
  BY <1>0, TopTree
<1>2. Others(p) /\ Grown(s, proc'[p].stack, f, g) /\ proc'[p].result = proc[p].result
  BY <1>0, CallFacts
<1>3. Len(s) \in Nat \ {0}
  BY <1>1, TailSeq
<1>4. Keeps(s, proc'[p].stack)
  <2>1. ASSUME NEW j \in 2 .. Len(s) PROVE \E i \in 1 .. Len(proc'[p].stack) : proc'[p].stack[i] = s[j]
    <3>1. j + 1 \in 1 .. Len(proc'[p].stack) /\ j + 1 \in 3 .. Len(s) + 1 /\ j + 1 - 1 = j
      BY <1>2, <1>3 DEF Grown
    <3>2. proc'[p].stack[j + 1] = s[j]
      BY <1>2, <3>1 DEF Grown
    <3>. QED  BY <3>1, <3>2
  <2>. QED  BY <2>1 DEF Keeps
<1>5. f \in Active'
  <2>1. /\ proc'[p].stack \in Seq(Activation) /\ proc'[p].stack[2] = f
        /\ 2 \in 1 .. Len(proc'[p].stack)
    BY <1>2, <1>3 DEF Shape, StackOK, Grown
  <2>2. f \in Activation
    BY <2>1, ElementOfSeq
  <2>. QED  BY <2>1, <2>2 DEF Active
<1>6. Grew
  <2>1. ASSUME NEW d \in Existing
        PROVE  /\ Cuts(Top(p), d) => d \in Shut'
               /\ CutsSoon(Top(p), d) => d \in Shut \/ d \in Leaving'
               /\ Revokes(Top(p), d) => d \in Attended'
    <3>1. Cuts(f, d) => d \in Shut'
      BY <1>5 DEF Shut
    <3>2. Revokes(Top(p), d) => Revokes(f, d)
      BY DEF Revokes
    <3>3. Revokes(f, d) => d \in Attended'
      BY <1>5 DEF Attended
    <3>. QED  BY <3>1, <3>2, <3>3
  <2>. QED  BY <1>0, <1>1, <1>2, <1>4, <2>1, GrewBy
<1>7. OrderStep /\ FrameOK(f, Flagged', Shut', NotLive') /\ FrameOK(g, Flagged', Shut', NotLive')
  BY <1>6 DEF FrameOK
<1>8. TreeStack(proc'[p].stack, Flagged', Shut', NotLive') /\ BaseKept(s, proc'[p].stack)
  <2>1. \A i \in 1 .. Len(s) : i > 1 => FrameOK(s[i], Flagged', Shut', NotLive')
    BY <1>1, <1>6, BelowKept DEF Grew
  <2>2. f.fn = s[1].fn /\ f.t = s[1].t /\ Called(g, f)
    BY <1>1 DEF Called
  <2>. QED  BY <1>1, <1>2, <1>7, <2>1, <2>2, GrownTree
<1>9. proc'[p].stack # <<>>
  BY <1>2 DEF Grown
<1>. QED  BY <1>0, <1>1, <1>2, <1>6, <1>7, <1>8, <1>9, TreeStep

\* It comes to its end.
LEMMA RevocationEnds ==
    ASSUME Shape, Shape', TreeInv, NEW p \in Procs, proc[p].stack # <<>>,
           Top(p).fn = "revokeInternal", Flagged \subseteq Flagged', orphaned \subseteq orphaned',
           NotLive \subseteq NotLive', deleted \subseteq deleted', doomed' = doomed, IndexStep,
           Return(p), Top(p).t \in Flagged',
           \A d \in Existing :
               /\ ~Cuts(Top(p), d) /\ ~CutsSoon(Top(p), d)
               /\ Revokes(Top(p), d) => Ended(d)',
           Grew => OrderStep
    PROVE  TreeInv'
<1>0. PICK s : s = proc[p].stack
  OBVIOUS
<1>1. /\ s \in Seq(Activation) /\ Top(p) = s[1] /\ Linked(s) /\ s # <<>> /\ StackOK(s)
      /\ \A i \in 1 .. Len(s) : i > 1 => FrameOK(s[i], Flagged, Shut, NotLive)
  BY <1>0, TopTree
<1>2. /\ Others(p) /\ proc'[p].stack = Resumed(Tail(s))
      /\ proc'[p].stack = <<>> \/ proc'[p].result = proc[p].result
  BY <1>0, ReturnFacts
<1>3. s[1].fn # "revokeTreeInternal" /\ s[1].t \in Flagged'
  BY <1>1
<1>4. Keeps(s, proc'[p].stack)
  <2>0. PICK F, K, L : F = Flagged' /\ K = Shut /\ L = NotLive
    OBVIOUS
  <2>1. \A i \in 1 .. Len(s) : i > 1 => FrameOK(s[i], F, K, L)
    BY <1>1, <2>0, BelowKept
  <2>. QED  BY <1>1, <1>2, <1>3, <2>0, <2>1, ReturnTree
<1>5. Grew
  <2>1. \A d \in Existing : Revokes(Top(p), d) => d \in Attended'
    BY DEF Attended
  <2>. QED  BY <1>0, <1>1, <1>2, <1>4, <2>1, GrewBy
<1>6. TreeStack(proc'[p].stack, Flagged', Shut', NotLive') /\ BaseKept(s, proc'[p].stack)
  <2>1. \A i \in 1 .. Len(s) : i > 1 => FrameOK(s[i], Flagged', Shut', NotLive')
    BY <1>1, <1>5, BelowKept DEF Grew
  <2>. QED  BY <1>1, <1>2, <1>3, <2>1, ReturnTree
<1>7. proc'[p].stack = <<>> => Base(p) = Top(p)
  BY <1>0, <1>1, <1>6 DEF BaseKept, Base
<1>. QED  BY <1>0, <1>1, <1>2, <1>5, <1>6, <1>7, TreeStep

LEMMA MovedFields ==
    ASSUME NEW f \in Activation, NEW pc
    PROVE  /\ Moved(f, pc).fn = f.fn /\ Moved(f, pc).t = f.t /\ Moved(f, pc).pc = pc
           /\ Moved(f, pc).entry = f.entry /\ Moved(f, pc).skipOrphan = f.skipOrphan
           /\ Moved(f, pc).todo = f.todo
  BY DEF Moved, Activation

\* Children that are revoked are taken care of.
LEMMA KidsFlagged ==
    ASSUME NEW x, KidsIn(x, Flagged')
    PROVE  KidsIn(x, Shut') /\ KidsIn(x, Leaving')
  BY DEF KidsIn, Shut, Leaving

LEMMA LoadOrStoreTree ==
    ASSUME IInv, IInv', TreeInv, NEW p \in Procs, LoadOrStore(p)
    PROVE  TreeInv'
<1>0. /\ proc[p].stack # <<>> /\ Top(p).fn = "revokeInternal" /\ Top(p).pc = "flag"
      /\ Shape /\ Shape'
      /\ UNCHANGED <<idView, parentView, lease, deleted, orphaned, doomed>>
  BY DEF LoadOrStore, At, IInv, histVars
<1>1. IndexStep /\ NotLive' = NotLive
  BY <1>0, IndexSame, LeaseSame
<1>2. /\ Top(p) \in Activation /\ Top(p).t \in Tokens /\ RevokeOK(Top(p), Flagged, Shut, NotLive)
  BY <1>0, TopRevokes
<1>3. PICK t \in Tokens : t = Top(p).t
  BY <1>2
<1>4. \A d \in Existing : ~Cuts(Top(p), d) /\ ~CutsSoon(Top(p), d) /\ ~Revokes(Top(p), d)
  BY <1>0 DEF Cuts, CutsSoon, Revokes
<1>5. CASE tokensPendingDeletion[t] = "true"
  <2>1. Return(p) /\ tokensPendingDeletion' = tokensPendingDeletion
    BY <1>3, <1>5 DEF LoadOrStore
  <2>2. t \in Flagged' /\ Flagged' = Flagged
    BY <1>0, <1>5, <2>1 DEF Flagged
  <2>3. OrderStep
    BY <1>0, <2>1, OrderSame
  <2>. QED  BY <1>0, <1>1, <1>3, <1>4, <2>1, <2>2, <2>3, RevocationEnds
<1>6. CASE tokensPendingDeletion[t] # "true"
  <2>0. tokensPendingDeletion \in [Tokens -> {"absent", "true"}]
    BY DEF TreeInv, OrderInv
  <2>1. Goto(p, "lookup") /\ tokensPendingDeletion' = [tokensPendingDeletion EXCEPT ![t] = "true"]
    BY <1>3, <1>6, <2>0 DEF LoadOrStore
  <2>2. PICK f : f = Moved(Top(p), "lookup")
    OBVIOUS
  <2>3. Become(p, f)
    BY <2>1, <2>2 DEF Goto, Moved
  <2>4. /\ f.fn = "revokeInternal" /\ f.t = t /\ f.pc = "lookup"
        /\ f.skipOrphan = Top(p).skipOrphan
    BY <1>0, <1>2, <1>3, <2>2, MovedFields
  <2>5. Flagged' = Flagged \cup {t} /\ tokensPendingDeletion' \in [Tokens -> {"absent", "true"}]
    BY <1>0, <2>0, <2>1 DEF Flagged
  <2>6. f.skipOrphan => KidsIn(t, Flagged')
    <3>1. f.skipOrphan => KidsIn(t, Flagged)
      BY <1>2, <1>3, <2>4 DEF RevokeOK
    <3>. QED  BY <2>5, <3>1, KidsInMore
  <2>7. RevokeOK(f, Flagged', Shut', NotLive')
    BY <2>4, <2>5, <2>6 DEF RevokeOK, Deferred
  <2>8. ASSUME f \in Active' PROVE OrderStep
    <3>1. KidsIn(t, Leaving')
      <4>1. CASE f.skipOrphan
        BY <2>6, <4>1, KidsFlagged
      <4>2. CASE ~f.skipOrphan
        <5>1. \A d \in Existing : Parent[d] = t => CutsSoon(f, d)
          BY <2>4, <4>2 DEF CutsSoon
        <5>. QED  BY <2>8, <5>1 DEF KidsIn, Leaving
      <4>. QED  BY <4>1, <4>2
    <3>2. t \in Existing => t \in Attended'
      BY <2>4, <2>8 DEF Attended, Revokes
    <3>. QED  BY <1>0, <2>5, <3>1, <3>2 DEF OrderStep, TreeInv, OrderInv
  <2>. QED  BY <1>0, <1>1, <1>3, <1>4, <2>3, <2>4, <2>5, <2>7, <2>8, RevocationOn
<1>. QED  BY <1>5, <1>6

LEMMA internalLookupTree ==
    ASSUME Forest, IInv, IInv', TreeInv, NEW p \in Procs, internalLookup(p)
    PROVE  TreeInv'
<1>0. /\ proc[p].stack # <<>> /\ Top(p).fn = "revokeInternal" /\ Top(p).pc = "lookup"
      /\ Shape /\ Shape'
      /\ UNCHANGED <<idView, parentView, tokensPendingDeletion, deleted, orphaned, doomed>>
  BY DEF internalLookup, At, IInv, histVars, storeVars
<1>1. IndexStep /\ Flagged' = Flagged
  BY <1>0, IndexSame DEF Flagged
<1>2. /\ Top(p) \in Activation /\ Top(p).t \in Tokens /\ RevokeOK(Top(p), Flagged, Shut, NotLive)
  BY <1>0, TopRevokes
<1>3. PICK t \in Tokens : t = Top(p).t
  BY <1>2
<1>4. t \in Flagged /\ (Top(p).skipOrphan => KidsIn(t, Flagged))
  BY <1>0, <1>2, <1>3 DEF RevokeOK
<1>5. lookupInternal(p, t, TRUE, "mark")
  BY <1>3 DEF internalLookup
<1>6. \A d \in Existing : ~Cuts(Top(p), d) /\ (CutsSoon(Top(p), d) => Parent[d] = t /\ t \in Existing)
  <2>1. \A d \in Existing : Parent[d] = t => t \in Existing
    BY <1>3, TokenAssumption DEF Forest
  <2>. QED  BY <1>0, <1>3, <2>1 DEF Cuts, CutsSoon
<1>7. CASE Leaseless(t, TRUE)
  <2>1. PICK f, g : f = Renewed(Top(p), "mark", Nil) /\ g = Frame("Revoke", t, "load")
    OBVIOUS
  <2>2. lease' = [lease EXCEPT ![t] = "bare"] /\ Call(p, f, g) /\ lease[t] = "none"
        /\ t \notin Root
    BY <1>5, <1>7, <2>1 DEF lookupInternal, Renewed, Leaseless
  <2>3. /\ f.fn = "revokeInternal" /\ f.t = t /\ f.pc = "mark" /\ f.skipOrphan = Top(p).skipOrphan
    BY <1>0, <1>2, <1>3, <2>1, RenewedFields
  <2>4. g.fn = "Revoke" /\ g.pc = "load"
    BY <2>1 DEF Frame
  <2>5. /\ NotLive \subseteq NotLive'
        /\ \A d \in Existing : lease'[d] = "none" => lease[d] = "none"
    <3>1. PICK v : v = "bare"
      OBVIOUS
    <3>2. lease' = [lease EXCEPT ![t] = v] /\ v # "live" /\ v # "none"
      BY <2>2, <3>1
    <3>. QED  BY <1>0, <3>2, LeaseChanges
  <2>6. t \in NotLive'
    BY <1>0, <2>2 DEF NotLive, Ended, Shape
  <2>7. RevokeOK(f, Flagged', Shut', NotLive')
    BY <1>1, <1>4, <2>3, <2>6 DEF RevokeOK, Deferred
  <2>8. OrderStep
    BY <1>0, <1>1, <2>5 DEF OrderStep, TreeInv, OrderInv
  <2>9. \A d \in Existing : CutsSoon(Top(p), d) => d \in Shut
    BY <1>6, <2>2 DEF TreeInv, OrderInv, KidsIn
  <2>. QED  BY <1>0, <1>1, <1>3, <1>6, <2>2, <2>3, <2>4, <2>5, <2>7, <2>8, <2>9, RevocationCalls
<1>8. CASE ~Leaseless(t, TRUE)
  <2>1. PICK f : f = Renewed(Top(p), "mark", lookupResult(t, TRUE))
    OBVIOUS
  <2>2. lease' = lease /\ Become(p, f)
    BY <1>5, <1>8, <2>1 DEF lookupInternal, Renewed
  <2>3. /\ f.fn = "revokeInternal" /\ f.t = t /\ f.pc = "mark" /\ f.skipOrphan = Top(p).skipOrphan
        /\ f.entry = idView[t]
    BY <1>0, <1>2, <1>3, <2>1, RenewedFields DEF lookupResult
  <2>4. NotLive' = NotLive /\ OrderStep
    BY <1>0, <2>2, LeaseSame, OrderSame
  <2>5. f.entry = Nil /\ t \in Existing => t \in deleted /\ KidsIn(t, Shut) /\ Ended(t)
    <3>1. f.entry = Nil /\ t \in Existing => t \in deleted /\ KidsIn(t, Shut)
      BY <2>3 DEF TreeInv, OrderInv
    <3>2. t \in deleted /\ t \in Existing => Ended(t)
      BY DEF IInv, DeletedInv, Gone, Excepted, Closed, Ended
    <3>. QED  BY <3>1, <3>2
  <2>6. RevokeOK(f, Flagged', Shut', NotLive')
    <3>1. f.entry = Nil => t \in NotLive'
      BY <2>4, <2>5 DEF NotLive
    <3>. QED  BY <1>1, <1>4, <2>3, <3>1 DEF RevokeOK, Deferred
  <2>7. \A d \in Existing : CutsSoon(Top(p), d) => d \in Shut \/ Cuts(f, d)
    BY <1>3, <1>6, <2>3, <2>5 DEF KidsIn, Cuts, CutsSoon
  <2>. QED  BY <1>0, <1>1, <1>3, <1>6, <2>2, <2>3, <2>4, <2>6, <2>7, RevocationOn
<1>. QED  BY <1>7, <1>8

LEMMA markRevokedTree ==
    ASSUME IInv, IInv', TreeInv, NEW p \in Procs, markRevoked(p)
    PROVE  TreeInv'
<1>0. /\ proc[p].stack # <<>> /\ Top(p).fn = "revokeInternal" /\ Top(p).pc = "mark"
      /\ Shape /\ Shape'
      /\ UNCHANGED <<parentView, lease, tokensPendingDeletion, deleted, orphaned, doomed>>
  BY DEF markRevoked, At, IInv, histVars
<1>1. IndexStep /\ NotLive' = NotLive /\ Flagged' = Flagged
  BY <1>0, IndexSame, LeaseSame DEF Flagged
<1>2. /\ Top(p) \in Activation /\ Top(p).t \in Tokens /\ RevokeOK(Top(p), Flagged, Shut, NotLive)
  BY <1>0, TopRevokes
<1>3. PICK t \in Tokens : t = Top(p).t
  BY <1>2
<1>4. t \in Flagged /\ (Top(p).skipOrphan => KidsIn(t, Flagged))
  BY <1>0, <1>2, <1>3 DEF RevokeOK
<1>5. CASE Top(p).entry = Nil
  <2>1. Return(p) /\ idView' = idView
    BY <1>5 DEF markRevoked
  <2>2. OrderStep
    BY <1>0, <2>1, OrderSame
  <2>3. t \in NotLive
    BY <1>0, <1>2, <1>3, <1>5 DEF RevokeOK
  <2>4. \A d \in Existing :
          /\ ~Cuts(Top(p), d) /\ ~CutsSoon(Top(p), d)
          /\ Revokes(Top(p), d) => Ended(d)'
    BY <1>0, <1>3, <1>5, <2>3 DEF Cuts, CutsSoon, Revokes, NotLive, Ended
  <2>. QED  BY <1>0, <1>1, <1>3, <1>4, <2>1, <2>2, <2>4, RevocationEnds
<1>6. CASE Top(p).entry # Nil
  <2>1. PICK f : f = Moved(Top(p), "leases")
    OBVIOUS
  <2>2. Become(p, f)
    BY <1>6, <2>1 DEF markRevoked, Goto, Moved
  <2>3. /\ f.fn = "revokeInternal" /\ f.t = t /\ f.pc = "leases" /\ f.skipOrphan = Top(p).skipOrphan
    BY <1>0, <1>2, <1>3, <2>1, MovedFields
  <2>4. \A d \in Existing : idView'[d] = Nil => idView[d] = Nil
    <3>1. PICK e \in Entry : e = Top(p).entry
      BY <1>2, <1>6, ActivationType
    <3>2. PICK n \in Entry : n = [e EXCEPT !.uses = tokenRevocationPending]
      BY EntryUses
    <3>3. idView' = idView \/ idView' = [idView EXCEPT ![t] = n]
      BY <1>3, <1>6, <3>1, <3>2 DEF markRevoked
    <3>4. n # Nil
      BY EntryNotNil
    <3>. QED  BY <1>0, <3>3, <3>4, TokenAssumption DEF Shape
  <2>5. OrderStep
    BY <1>0, <1>1, <2>4 DEF OrderStep, TreeInv, OrderInv
  <2>6. RevokeOK(f, Flagged', Shut', NotLive')
    BY <1>1, <1>4, <2>3 DEF RevokeOK, Deferred
  <2>7. \A d \in Existing : ~CutsSoon(Top(p), d) /\ (Cuts(Top(p), d) => Cuts(f, d))
    BY <1>0, <1>3, <2>3 DEF Cuts, CutsSoon
  <2>. QED  BY <1>0, <1>1, <1>3, <2>2, <2>3, <2>5, <2>6, <2>7, RevocationOn
<1>. QED  BY <1>5, <1>6

LEMMA RevokeByTokenTree ==
    ASSUME IInv, IInv', TreeInv, NEW p \in Procs, RevokeByToken(p)
    PROVE  TreeInv'
<1>0. /\ proc[p].stack # <<>> /\ Top(p).fn = "revokeInternal" /\ Top(p).pc = "leases"
      /\ Shape /\ Shape' /\ Goto(p, "index")
      /\ UNCHANGED <<idView, parentView, tokensPendingDeletion, deleted, orphaned, doomed>>
  BY DEF RevokeByToken, At, IInv, histVars, storeVars
<1>1. IndexStep /\ Flagged' = Flagged
  BY <1>0, IndexSame DEF Flagged
<1>2. /\ Top(p) \in Activation /\ Top(p).t \in Tokens /\ RevokeOK(Top(p), Flagged, Shut, NotLive)
  BY <1>0, TopRevokes
<1>3. PICK t \in Tokens : t = Top(p).t
  BY <1>2
<1>4. t \in Flagged /\ (Top(p).skipOrphan => KidsIn(t, Flagged))
  BY <1>0, <1>2, <1>3 DEF RevokeOK
<1>5. /\ NotLive \subseteq NotLive'
      /\ \A d \in Existing : lease'[d] = "none" => lease[d] = "none" \/ d = t
  <2>1. PICK v : v = "none"
    OBVIOUS
  <2>2. lease' = [lease EXCEPT ![t] = v] /\ v # "live"
    BY <1>3, <2>1 DEF RevokeByToken
  <2>. QED  BY <1>0, <2>2, LeaseChanges
<1>6. PICK f : f = Moved(Top(p), "index")
  OBVIOUS
<1>7. Become(p, f)
  BY <1>0, <1>6 DEF Goto, Moved
<1>8. f.fn = "revokeInternal" /\ f.t = t /\ f.pc = "index" /\ f.skipOrphan = Top(p).skipOrphan
  BY <1>0, <1>2, <1>3, <1>6, MovedFields
<1>9. ASSUME f \in Active' PROVE KidsIn(t, Shut')
  <2>1. CASE f.skipOrphan
    BY <1>1, <1>4, <1>8, <2>1, KidsFlagged
  <2>2. CASE ~f.skipOrphan
    <3>1. \A d \in Existing : Parent[d] = t => Cuts(f, d)
      BY <1>8, <2>2 DEF Cuts
    <3>. QED  BY <1>9, <3>1 DEF KidsIn, Shut
  <2>. QED  BY <2>1, <2>2
<1>10. ASSUME f \in Active' PROVE OrderStep /\ RevokeOK(f, Flagged', Shut', NotLive')
  <2>1. OrderStep
    BY <1>0, <1>1, <1>4, <1>5, <1>9, <1>10 DEF OrderStep, TreeInv, OrderInv
  <2>2. RevokeOK(f, Flagged', Shut', NotLive')
    BY <1>1, <1>4, <1>8, <1>9, <1>10 DEF RevokeOK, Deferred
  <2>. QED  BY <2>1, <2>2
<1>11. \A d \in Existing : ~CutsSoon(Top(p), d) /\ (Cuts(Top(p), d) => Cuts(f, d))
  BY <1>0, <1>3, <1>8 DEF Cuts, CutsSoon
<1>. QED  BY <1>0, <1>1, <1>3, <1>5, <1>7, <1>8, <1>10, <1>11, RevocationOn

LEMMA clearParentIndexTree ==
    ASSUME IInv, IInv', TreeInv, NEW p \in Procs, clearParentIndex(p)
    PROVE  TreeInv'
<1>0. /\ proc[p].stack # <<>> /\ Top(p).fn = "revokeInternal" /\ Top(p).pc = "index"
      /\ Shape /\ Shape'
      /\ UNCHANGED <<idView, lease, tokensPendingDeletion, deleted, orphaned, doomed>>
  BY DEF clearParentIndex, At, IInv, histVars
<1>1. NotLive' = NotLive /\ Flagged' = Flagged /\ OrderStep
  BY <1>0, LeaseSame, OrderSame DEF Flagged
<1>2. /\ Top(p) \in Activation /\ Top(p).t \in Tokens /\ RevokeOK(Top(p), Flagged, Shut, NotLive)
  BY <1>0, TopRevokes
<1>3. PICK t \in Tokens : t = Top(p).t
  BY <1>2
<1>4. t \in Flagged /\ (Top(p).skipOrphan => KidsIn(t, Flagged)) /\ KidsIn(t, Shut)
  BY <1>0, <1>2, <1>3 DEF RevokeOK, Deferred
<1>5. IndexStep
  <2>1. parentView' = parentView \ {<<Top(p).entry.parent, t>>}
    BY <1>3 DEF clearParentIndex
  <2>. QED  BY <1>1, <1>4, <2>1 DEF IndexStep, TreeInv, IndexInv
<1>6. PICK pc : pc = IF Top(p).skipOrphan THEN "delete" ELSE "children"
  OBVIOUS
<1>7. PICK f : f = Moved(Top(p), pc)
  OBVIOUS
<1>8. Become(p, f)
  BY <1>6, <1>7 DEF clearParentIndex, Goto, Moved
<1>9. /\ f.fn = "revokeInternal" /\ f.t = t /\ f.skipOrphan = Top(p).skipOrphan
      /\ f.pc = IF f.skipOrphan THEN "delete" ELSE "children"
  BY <1>0, <1>2, <1>3, <1>6, <1>7, MovedFields
<1>10. ASSUME Grew PROVE RevokeOK(f, Flagged', Shut', NotLive')
  <2>1. KidsIn(t, Shut')
    BY <1>4, <1>10, KidsInMore DEF Grew
  <2>. QED  BY <1>1, <1>4, <1>9, <2>1 DEF RevokeOK
<1>11. \A d \in Existing : ~CutsSoon(Top(p), d) /\ (Cuts(Top(p), d) => Cuts(f, d))
  BY <1>0, <1>3, <1>9 DEF Cuts, CutsSoon
<1>12. f.pc # "pop" /\ f.pc # "flag"
  BY <1>9
<1>. QED  BY <1>0, <1>1, <1>3, <1>5, <1>8, <1>9, <1>10, <1>11, <1>12, RevocationOn

LEMMA listChildrenTree ==
    ASSUME IInv, IInv', TreeInv, NEW p \in Procs, listChildren(p)
    PROVE  TreeInv'
<1>0. /\ proc[p].stack # <<>> /\ Top(p).fn = "revokeInternal" /\ Top(p).pc = "children"
      /\ Shape /\ Shape'
      /\ UNCHANGED <<idView, parentView, lease, tokensPendingDeletion, deleted, orphaned, doomed>>
  BY DEF listChildren, At, IInv, histVars, storeVars
<1>1. IndexStep /\ NotLive' = NotLive /\ Flagged' = Flagged /\ OrderStep
  BY <1>0, IndexSame, LeaseSame, OrderSame DEF Flagged
<1>2. /\ Top(p) \in Activation /\ Top(p).t \in Tokens /\ RevokeOK(Top(p), Flagged, Shut, NotLive)
  BY <1>0, TopRevokes
<1>3. PICK t \in Tokens : t = Top(p).t
  BY <1>2
<1>4. t \in Flagged /\ (Top(p).skipOrphan => KidsIn(t, Flagged)) /\ KidsIn(t, Shut)
  BY <1>0, <1>2, <1>3 DEF RevokeOK, Deferred
<1>5. PICK kids : kids = {c \in Tokens : <<t, c>> \in parentView}
  OBVIOUS
<1>6. PICK pc : pc = IF kids = {} THEN "delete" ELSE "child"
  OBVIOUS
<1>6f. PICK f : f = [Top(p) EXCEPT !.todo = kids, !.pc = pc]
  OBVIOUS
<1>7. Become(p, f)
  BY <1>3, <1>5, <1>6, <1>6f DEF listChildren
<1>8. /\ f.fn = "revokeInternal" /\ f.t = t /\ f.skipOrphan = Top(p).skipOrphan
      /\ f.todo = kids /\ f.pc = IF kids = {} THEN "delete" ELSE "child"
  BY <1>0, <1>2, <1>3, <1>6, <1>6f DEF Activation
<1>9. ASSUME Grew PROVE RevokeOK(f, Flagged', Shut', NotLive')
  <2>1. KidsIn(t, Shut')
    BY <1>4, <1>9, KidsInMore DEF Grew
  <2>. QED  BY <1>1, <1>4, <1>8, <2>1 DEF RevokeOK
<1>10. ASSUME NEW d \in Existing, Cuts(Top(p), d) PROVE d \in Flagged' \/ Cuts(f, d)
  <2>1. Parent[d] = t /\ d \in Tokens /\ t # Nil /\ ~f.skipOrphan
    BY <1>3, <1>8, <1>10, TokenAssumption DEF Cuts
  <2>2. <<t, d>> \in parentView \/ d \in Flagged
    BY <2>1 DEF TreeInv, IndexInv
  <2>3. <<t, d>> \in parentView => d \in kids
    BY <1>5, <2>1
  <2>. QED  BY <1>1, <1>8, <2>1, <2>2, <2>3 DEF Cuts
<1>11. \A d \in Existing : ~CutsSoon(Top(p), d)
  BY <1>0 DEF CutsSoon
<1>12. f.pc # "pop" /\ f.pc # "flag"
  BY <1>8
<1>. QED  BY <1>0, <1>1, <1>3, <1>7, <1>8, <1>9, <1>10, <1>11, <1>12, RevocationOn

LEMMA childLookupTree ==
    ASSUME IInv, IInv', TreeInv, NEW p \in Procs, childLookup(p)
    PROVE  TreeInv'
<1>0. /\ proc[p].stack # <<>> /\ Top(p).fn = "revokeInternal" /\ Top(p).pc = "child"
      /\ Shape /\ Shape'
      /\ UNCHANGED <<idView, parentView, tokensPendingDeletion, deleted, orphaned, doomed>>
  BY DEF childLookup, At, IInv, histVars, storeVars
<1>1. IndexStep /\ Flagged' = Flagged
  BY <1>0, IndexSame DEF Flagged
<1>2. /\ Top(p) \in Activation /\ Top(p).t \in Tokens /\ RevokeOK(Top(p), Flagged, Shut, NotLive)
  BY <1>0, TopRevokes
<1>3. PICK t \in Tokens, c \in Tokens : t = Top(p).t /\ c = Child(p)
  BY <1>0, <1>2, ActivationType DEF Child
<1>4. t \in Flagged /\ (Top(p).skipOrphan => KidsIn(t, Flagged)) /\ KidsIn(t, Shut)
  BY <1>0, <1>2, <1>3 DEF RevokeOK, Deferred
<1>5. lookupInternal(p, c, TRUE, "orphan")
  BY <1>3 DEF childLookup
<1>6. ASSUME NEW f, f.fn = "revokeInternal", f.t = t, f.pc = "orphan",
             f.skipOrphan = Top(p).skipOrphan, f.todo = Top(p).todo
      PROVE  /\ \A d \in Existing : ~CutsSoon(Top(p), d) /\ (Cuts(Top(p), d) => Cuts(f, d))
             /\ Chosen(f) = c
  BY <1>0, <1>3, <1>6 DEF Cuts, CutsSoon, Chosen, Child
<1>7. ASSUME NEW f, f.fn = "revokeInternal", f.t = t, f.pc = "orphan",
             f.skipOrphan = Top(p).skipOrphan, f.todo = Top(p).todo, Grew,
             f.entry = Nil => (c \in Existing => c \in Flagged)
      PROVE  RevokeOK(f, Flagged', Shut', NotLive')
  <2>1. KidsIn(t, Shut')
    BY <1>4, <1>7, KidsInMore DEF Grew
  <2>2. Chosen(f) = c
    BY <1>6, <1>7
  <2>. QED  BY <1>1, <1>4, <1>7, <2>1, <2>2 DEF RevokeOK
<1>8. CASE Leaseless(c, TRUE)
  <2>1. PICK f, g : f = Renewed(Top(p), "orphan", Nil) /\ g = Frame("Revoke", c, "load")
    OBVIOUS
  <2>2. lease' = [lease EXCEPT ![c] = "bare"] /\ Call(p, f, g) /\ lease[c] = "none"
    BY <1>5, <1>8, <2>1 DEF lookupInternal, Renewed, Leaseless
  <2>3. /\ f.fn = "revokeInternal" /\ f.t = t /\ f.pc = "orphan" /\ f.skipOrphan = Top(p).skipOrphan
        /\ f.todo = Top(p).todo
    BY <1>0, <1>2, <1>3, <2>1, RenewedFields
  <2>4. g.fn = "Revoke" /\ g.pc = "load"
    BY <2>1 DEF Frame
  <2>5. /\ NotLive \subseteq NotLive'
        /\ \A d \in Existing : lease'[d] = "none" => lease[d] = "none"
    <3>1. PICK v : v = "bare"
      OBVIOUS
    <3>2. lease' = [lease EXCEPT ![c] = v] /\ v # "live" /\ v # "none"
      BY <2>2, <3>1
    <3>. QED  BY <1>0, <3>2, LeaseChanges
  <2>6. c \in Existing => c \in Flagged
    BY <2>2 DEF TreeInv, OrderInv
  <2>7. Grew => RevokeOK(f, Flagged', Shut', NotLive')
    BY <1>7, <2>3, <2>6
  <2>8. OrderStep
    BY <1>0, <1>1, <2>5 DEF OrderStep, TreeInv, OrderInv
  <2>9. \A d \in Existing : ~CutsSoon(Top(p), d) /\ (Cuts(Top(p), d) => Cuts(f, d))
    BY <1>6, <2>3
  <2>. QED  BY <1>0, <1>1, <1>3, <2>2, <2>3, <2>4, <2>5, <2>7, <2>8, <2>9, RevocationCalls
<1>9. CASE ~Leaseless(c, TRUE)
  <2>1. PICK f : f = Renewed(Top(p), "orphan", lookupResult(c, TRUE))
    OBVIOUS
  <2>2. lease' = lease /\ Become(p, f)
    BY <1>5, <1>9, <2>1 DEF lookupInternal, Renewed
  <2>3. /\ f.fn = "revokeInternal" /\ f.t = t /\ f.pc = "orphan" /\ f.skipOrphan = Top(p).skipOrphan
        /\ f.todo = Top(p).todo /\ f.entry = idView[c]
    BY <1>0, <1>2, <1>3, <2>1, RenewedFields DEF lookupResult
  <2>4. NotLive' = NotLive /\ OrderStep
    BY <1>0, <2>2, LeaseSame, OrderSame
  <2>5. f.entry = Nil => (c \in Existing => c \in Flagged)
    BY <2>3 DEF TreeInv, OrderInv, Flagged
  <2>6. Grew => RevokeOK(f, Flagged', Shut', NotLive')
    BY <1>7, <2>3, <2>5
  <2>7. \A d \in Existing : ~CutsSoon(Top(p), d) /\ (Cuts(Top(p), d) => Cuts(f, d))
    BY <1>6, <2>3
  <2>. QED  BY <1>0, <1>1, <1>3, <2>2, <2>3, <2>4, <2>6, <2>7, RevocationOn
<1>. QED  BY <1>8, <1>9

LEMMA orphanChildTree ==
    ASSUME IInv, IInv', TreeInv, NEW p \in Procs, orphanChild(p)
    PROVE  TreeInv'
<1>0. /\ proc[p].stack # <<>> /\ Top(p).fn = "revokeInternal" /\ Top(p).pc = "orphan"
      /\ Shape /\ Shape'
      /\ UNCHANGED <<parentView, lease, tokensPendingDeletion, deleted, doomed>>
  BY DEF orphanChild, At, IInv
<1>1. IndexStep /\ NotLive' = NotLive /\ Flagged' = Flagged
  BY <1>0, IndexSame, LeaseSame DEF Flagged
<1>2. /\ Top(p) \in Activation /\ Top(p).t \in Tokens /\ RevokeOK(Top(p), Flagged, Shut, NotLive)
  BY <1>0, TopRevokes
<1>3. PICK t \in Tokens, c \in Tokens : t = Top(p).t /\ c = Child(p)
  BY <1>0, <1>2, ActivationType DEF Child
<1>4. /\ t \in Flagged /\ (Top(p).skipOrphan => KidsIn(t, Flagged)) /\ KidsIn(t, Shut)
      /\ Top(p).entry = Nil => (c \in Existing => c \in Flagged)
  <2>1. Chosen(Top(p)) = c
    BY <1>3 DEF Chosen, Child
  <2>. QED  BY <1>0, <1>2, <1>3, <2>1 DEF RevokeOK, Deferred
<1>5. PICK pc, left :
        /\ left = Top(p).todo \ {c}
        /\ pc = IF Top(p).todo = {c} THEN "delete" ELSE "child"
  OBVIOUS
<1>5f. PICK f : f = [Top(p) EXCEPT !.todo = left, !.entry = Nil, !.pc = pc]
  OBVIOUS
<1>6. Become(p, f)
  BY <1>3, <1>5, <1>5f DEF orphanChild
<1>7. /\ f.fn = "revokeInternal" /\ f.t = t /\ f.skipOrphan = Top(p).skipOrphan
      /\ f.todo = Top(p).todo \ {c} /\ f.pc = IF Top(p).todo = {c} THEN "delete" ELSE "child"
  BY <1>0, <1>2, <1>3, <1>5, <1>5f DEF Activation
<1>8. ASSUME Grew PROVE RevokeOK(f, Flagged', Shut', NotLive')
  <2>1. KidsIn(t, Shut')
    BY <1>4, <1>8, KidsInMore DEF Grew
  <2>. QED  BY <1>1, <1>4, <1>7, <2>1 DEF RevokeOK
<1>9. /\ orphaned \subseteq orphaned'
      /\ Top(p).entry # Nil => c \in orphaned'
      /\ \A d \in Existing : idView'[d] = Nil => idView[d] = Nil
  <2>1. CASE Top(p).entry = Nil
    BY <2>1 DEF orphanChild
  <2>2. CASE Top(p).entry # Nil
    <3>1. PICK e \in Entry : e = Top(p).entry
      BY <1>2, <2>2, ActivationType
    <3>2. PICK n \in Entry : n = [e EXCEPT !.parent = Nil]
      BY DEF Entry
    <3>3. idView' = [idView EXCEPT ![c] = n] /\ orphaned' = orphaned \cup {c}
      BY <1>3, <2>2, <3>1, <3>2 DEF orphanChild
    <3>4. n # Nil
      BY EntryNotNil
    <3>. QED  BY <1>0, <3>3, <3>4, TokenAssumption DEF Shape
  <2>. QED  BY <2>1, <2>2
<1>10. OrderStep
  BY <1>0, <1>1, <1>9 DEF OrderStep, TreeInv, OrderInv
<1>11. ASSUME NEW d \in Existing, Cuts(Top(p), d)
       PROVE  d \in Flagged' \cup orphaned' \/ Cuts(f, d)
  <2>1. Parent[d] = t /\ d \in Top(p).todo /\ ~f.skipOrphan
    BY <1>0, <1>3, <1>7, <1>11 DEF Cuts
  <2>2. CASE d = c
    BY <1>1, <1>4, <1>9, <2>2
  <2>3. CASE d # c
    BY <1>7, <2>1, <2>3 DEF Cuts
  <2>. QED  BY <2>2, <2>3
<1>12. \A d \in Existing : ~CutsSoon(Top(p), d)
  BY <1>0 DEF CutsSoon
<1>13. f.pc # "pop" /\ f.pc # "flag"
  BY <1>7
<1>. QED  BY <1>0, <1>1, <1>3, <1>6, <1>7, <1>8, <1>9, <1>10, <1>11, <1>12, <1>13, RevocationOn

LEMMA deleteEntryTree ==
    ASSUME IInv, IInv', TreeInv, NEW p \in Procs, deleteEntry(p)
    PROVE  TreeInv'
<1>0. /\ proc[p].stack # <<>> /\ Top(p).fn = "revokeInternal" /\ Top(p).pc = "delete"
      /\ Shape /\ Shape' /\ Return(p)
      /\ UNCHANGED <<parentView, lease, orphaned, doomed>>
  BY DEF deleteEntry, At, IInv
<1>1. IndexStep
  BY <1>0, IndexSame
<1>2. /\ Top(p) \in Activation /\ Top(p).t \in Tokens /\ RevokeOK(Top(p), Flagged, Shut, NotLive)
  BY <1>0, TopRevokes
<1>3. PICK t \in Tokens : t = Top(p).t
  BY <1>2
<1>4. t \in Flagged /\ KidsIn(t, Shut)
  BY <1>0, <1>2, <1>3 DEF RevokeOK, Deferred
<1>5. /\ idView' = [idView EXCEPT ![t] = Nil] /\ deleted' = deleted \cup {t}
      /\ tokensPendingDeletion' = [tokensPendingDeletion EXCEPT ![t] = "absent"]
  BY <1>3 DEF deleteEntry
<1>6. tokensPendingDeletion \in [Tokens -> {"absent", "true"}]
  BY DEF TreeInv, OrderInv
<1>7. Flagged' = Flagged /\ deleted \subseteq deleted'
      /\ tokensPendingDeletion' \in [Tokens -> {"absent", "true"}]
  BY <1>4, <1>5, <1>6 DEF Flagged
<1>8. \A d \in Existing :
        /\ ~Cuts(Top(p), d) /\ ~CutsSoon(Top(p), d)
        /\ Revokes(Top(p), d) => Ended(d)'
  <2>1. t \in Existing => Ended(t)'
    BY <1>5 DEF IInv, DeletedInv, Gone, Excepted, Closed, Ended
  <2>. QED  BY <1>0, <1>3, <2>1 DEF Cuts, CutsSoon, Revokes
<1>9. ASSUME Grew PROVE OrderStep
  <2>1. KidsIn(t, Shut')
    BY <1>4, <1>9, KidsInMore DEF Grew
  <2>2. \A d \in Existing : idView'[d] = Nil => idView[d] = Nil \/ d \in deleted'
    BY <1>0, <1>5, TokenAssumption DEF Shape
  <2>. QED  BY <1>0, <1>5, <1>7, <2>1, <2>2 DEF OrderStep, TreeInv, OrderInv
<1>10. NotLive \subseteq NotLive'
  BY <1>0, <1>7 DEF NotLive, Ended
<1>. QED  BY <1>0, <1>1, <1>3, <1>4, <1>7, <1>8, <1>9, <1>10, RevocationEnds

-----------------------------------------------------------------------------
(* The other steps, and the invariant.                                     *)

\* No activation ends or goes on.
LEMMA GrewStill ==
    ASSUME Active \subseteq Active', UNCHANGED <<tokensPendingDeletion, deleted, orphaned>>,
           NotLive \subseteq NotLive'
    PROVE  Grew
<1>1. Flagged' = Flagged
  BY DEF Flagged
<1>2. Shut \subseteq Shut'
  BY <1>1 DEF Shut
<1>3. Leaving \subseteq Leaving'
  BY <1>2 DEF Leaving
<1>4. Attended \subseteq Attended'
  BY TokenAssumption DEF Attended, NotLive
<1>. QED  BY <1>1, <1>2, <1>3, <1>4 DEF Grew

LEMMA OrderStill ==
    ASSUME TreeInv, UNCHANGED <<idView, tokensPendingDeletion, deleted>>,
           \A d \in Existing : lease'[d] = "none" => lease[d] = "none"
    PROVE  OrderStep
<1>1. Flagged' = Flagged
  BY DEF Flagged
<1>. QED  BY <1>1 DEF OrderStep, TreeInv, OrderInv

\* No goroutine takes a step.
LEMMA StillStep ==
    ASSUME TreeInv, NotLive \subseteq NotLive',
           UNCHANGED <<proc, idView, parentView, tokensPendingDeletion, deleted, orphaned, doomed>>,
           \A d \in Existing : lease'[d] = "none" => lease[d] = "none"
    PROVE  TreeInv'
<1>1. Grew
  <2>1. Active \subseteq Active'
    BY DEF Active
  <2>. QED  BY <2>1, GrewStill
<1>2. IndexInv'
  BY <1>1, IndexSame, IndexKept DEF TreeInv
<1>3. OrderInv'
  BY <1>1, OrderStill, OrderKept DEF TreeInv
<1>4. ASSUME NEW p \in Procs
      PROVE  /\ Others(p)
             /\ proc[p].stack # <<>> => BaseKept(proc[p].stack, proc'[p].stack)
             /\ proc'[p].stack = proc[p].stack
             /\ TreeStack(proc'[p].stack, Flagged', Shut', NotLive')
             /\ proc'[p].result = "running" \/ proc'[p].stack = <<>>
  <2>1. Others(p) /\ (proc[p].stack # <<>> => BaseKept(proc[p].stack, proc'[p].stack))
    BY DEF Others, BaseKept
  <2>2. TreeStack(proc[p].stack, Flagged, Shut, NotLive)
        /\ (proc[p].result = "running" \/ proc[p].stack = <<>>)
    BY DEF TreeInv, TreeStacks
  <2>3. TreeStack(proc[p].stack, Flagged', Shut', NotLive')
    BY <1>1, <2>2, TreeStackKept DEF Grew
  <2>. QED  BY <2>1, <2>2, <2>3
<1>5. TreeStacks'
  <2>1. CASE Procs = {}
    BY <2>1 DEF TreeStacks
  <2>2. CASE Procs # {}
    <3>1. PICK p \in Procs : TRUE
      BY <2>2
    <3>2. /\ Others(p) /\ TreeStack(proc'[p].stack, Flagged', Shut', NotLive')
          /\ proc'[p].result = "running" \/ proc'[p].stack = <<>>
      BY <1>4
    <3>. QED  BY <1>1, <3>2, StacksKept DEF TreeInv
  <2>. QED  BY <2>1, <2>2
<1>6. DoomInv'
  <2>1. CASE Procs = {}
    BY <2>1 DEF TreeInv, DoomInv
  <2>2. CASE Procs # {}
    <3>1. PICK p \in Procs : TRUE
      BY <2>2
    <3>2. /\ Others(p) /\ proc'[p].stack = proc[p].stack
          /\ proc[p].stack # <<>> => BaseKept(proc[p].stack, proc'[p].stack)
      BY <1>4
    <3>. QED  BY <1>1, <3>2, DoomKept DEF TreeInv, Grew
  <2>. QED  BY <2>1, <2>2
<1>. QED  BY <1>2, <1>3, <1>5, <1>6 DEF TreeInv

\* Goroutine p begins with activation f.
LEMMA StartStep ==
    ASSUME TreeInv, NEW p \in Procs, proc[p].stack = <<>>, ProcType,
           UNCHANGED <<lease, idView, parentView, tokensPendingDeletion, deleted, orphaned, doomed>>,
           NEW f, proc' = [proc EXCEPT ![p] = [stack |-> <<f>>, result |-> "running"]],
           f.fn \in Outer \cup {"Revoke"}, f.pc # "pop", f.pc # "delete"
    PROVE  TreeInv'
<1>1. /\ Others(p) /\ proc'[p].stack = <<f>> /\ proc'[p].result = "running"
  BY DEF ProcType, Others
<1>2. NotLive' = NotLive
  BY LeaseSame
<1>3. Grew
  <2>1. ASSUME NEW g \in Active PROVE g \in Active'
    <3>1. g \in Activation
          /\ \E q \in Procs : \E i \in 1 .. Len(proc[q].stack) : g = proc[q].stack[i]
      BY DEF Active
    <3>2. PICK q \in Procs : \E i \in 1 .. Len(proc[q].stack) : g = proc[q].stack[i]
      BY <3>1
    <3>3. q # p
      BY <3>2
    <3>4. proc'[q] = proc[q]
      BY <1>1, <3>3 DEF Others
    <3>. QED  BY <3>1, <3>2, <3>4 DEF Active
  <2>. QED  BY <1>2, <2>1, GrewStill
<1>4. TreeStack(proc'[p].stack, Flagged', Shut', NotLive')
  <2>0. PICK n : n = <<f>>
    OBVIOUS
  <2>1. Len(n) = 1 /\ n[1] = f /\ n # <<>>
    BY <2>0
  <2>2. f.fn \notin {"revokeInternal", "revokeTreeInternal"}
    BY DEF Outer
  <2>3. Linked(n)
    BY <2>1, <2>2 DEF Linked
  <2>4. HeadOK(n, Flagged')
    BY <2>1 DEF HeadOK
  <2>5. \A i \in 1 .. Len(n) : FrameOK(n[i], Flagged', Shut', NotLive')
    <3>1. \A i \in 1 .. Len(n) : n[i] = f
      BY <2>1
    <3>2. FrameOK(f, Flagged', Shut', NotLive')
      BY <2>2, FrameFree
    <3>. QED  BY <3>1, <3>2
  <2>. QED  BY <1>1, <2>0, <2>3, <2>4, <2>5 DEF TreeStack
<1>5. IndexInv'
  BY <1>3, IndexSame, IndexKept DEF TreeInv
<1>6. OrderInv'
  BY <1>3, OrderStill, OrderKept DEF TreeInv
<1>7. TreeStacks'
  BY <1>1, <1>3, <1>4, StacksKept DEF TreeInv
<1>8. DoomInv'
  BY <1>1, <1>3, DoomKept DEF TreeInv, Grew
<1>. QED  BY <1>5, <1>6, <1>7, <1>8 DEF TreeInv

LEMMA BeginTree ==
    ASSUME IInv, TreeInv, NEW p \in Requests, NEW call \in Calls, Begin(p, call[1], call[2])
    PROVE  TreeInv'
<1>1. PICK op \in Outer, t \in Tokens : op = call[1] /\ t = call[2]
  BY TokenAssumption DEF Outer
<1>2. PICK f : f = Frame(op, t, firstPlace(op))
  OBVIOUS
<1>3. f.fn = op /\ f.pc \in {"parent", "lookup"}
  BY <1>2 DEF Frame, firstPlace
<1>4. proc' = [proc EXCEPT ![p] = [stack |-> <<f>>, result |-> "running"]]
  BY <1>1, <1>2 DEF Begin
<1>5. /\ proc[p].result = "none" /\ p \in Procs
      /\ UNCHANGED <<lease, idView, parentView, tokensPendingDeletion, deleted, orphaned, doomed>>
  BY DEF Begin, Procs, storeVars
<1>6. proc[p].stack = <<>> /\ ProcType
  BY <1>5, StackType DEF TreeInv, TreeStacks, IInv
<1>. QED  BY <1>3, <1>4, <1>5, <1>6, StartStep

LEMMA ExpireJobTree ==
    ASSUME IInv, TreeInv, NEW p \in Workers, NEW t \in Tokens, ExpireJob(p, t)
    PROVE  TreeInv'
<1>2. PICK f : f = Frame("Revoke", t, "load")
  OBVIOUS
<1>3. f.fn = "Revoke" /\ f.pc = "load"
  BY <1>2 DEF Frame
<1>4. /\ proc' = [proc EXCEPT ![p] = [stack |-> <<f>>, result |-> "running"]]
      /\ proc[p].stack = <<>> /\ p \in Procs
      /\ UNCHANGED <<lease, idView, parentView, tokensPendingDeletion, deleted, orphaned, doomed>>
  BY <1>2 DEF ExpireJob, Procs, storeVars, histVars
<1>5. ProcType
  BY <1>4, StackType DEF IInv
<1>. QED  BY <1>3, <1>4, <1>5, StartStep

LEMMA ExpireTree ==
    ASSUME IInv, TreeInv, NEW t \in Expiring, Expire(t)
    PROVE  TreeInv'
<1>0. t \in Tokens /\ Shape
  BY TokenAssumption DEF IInv
<1>1. /\ NotLive \subseteq NotLive'
      /\ \A d \in Existing : lease'[d] = "none" => lease[d] = "none"
  <2>1. PICK v : v = "due"
    OBVIOUS
  <2>2. /\ lease' = [lease EXCEPT ![t] = v] /\ v # "live" /\ v # "none"
        /\ deleted' = deleted
    BY <2>1 DEF Expire, histVars
  <2>. QED  BY <1>0, <2>2, LeaseChanges
<1>2. UNCHANGED <<proc, idView, parentView, tokensPendingDeletion, deleted, orphaned, doomed>>
  BY DEF Expire, storeVars, histVars
<1>. QED  BY <1>1, <1>2, StillStep

LEMMA StutterTree ==
    ASSUME TreeInv, UNCHANGED vars
    PROVE  TreeInv'
<1>1. /\ UNCHANGED <<proc, idView, parentView, tokensPendingDeletion, deleted, orphaned, doomed>>
      /\ lease' = lease
  BY DEF vars, storeVars, histVars
<1>. QED  BY <1>1, LeaseSame, StillStep

LEMMA StepTree ==
    ASSUME Forest, IInv, IInv', TreeInv, NEW p \in Procs, Step(p)
    PROVE  TreeInv'
<1>1. CASE Create(p)
  BY <1>1, storeParentLookupTree, storeIndexTree, storePrimaryTree, RegisterAuthTree DEF Create
<1>2. CASE Use(p)
  BY <1>2, useLookupTree, UseTokenTree, useStoreTree, LazyRevokeTree DEF Use
<1>3. CASE RevokeHandler(p)
  BY <1>3, revokeLookupTree, handleRevokeTreeTree, handleRevokeOrphanTree DEF RevokeHandler
<1>4. CASE Revoke(p)
  BY <1>4, RevokeLoadTree, RevokeDeleteTree DEF Revoke
<1>5. CASE revokeTreeInternal(p)
  BY <1>5, revokeTreeInternalTree
<1>6. CASE revokeInternal(p)
  BY <1>6, LoadOrStoreTree, internalLookupTree, markRevokedTree, RevokeByTokenTree,
     clearParentIndexTree, listChildrenTree, childLookupTree, orphanChildTree, deleteEntryTree
     DEF revokeInternal
<1>. QED  BY <1>1, <1>2, <1>3, <1>4, <1>5, <1>6 DEF Step

\* Only faults and restarts are counted.
LEMMA StepMishaps ==
    ASSUME NEW p \in Procs, Step(p)
    PROVE  mishaps' = mishaps
<1>1. CASE Create(p)
  BY <1>1 DEF Create, storeParentLookup, storeIndex, storePrimary, RegisterAuth
<1>2. CASE Use(p)
  BY <1>2 DEF Use, useLookup, UseToken, useStore, LazyRevoke
<1>3. CASE RevokeHandler(p)
  BY <1>3 DEF RevokeHandler, revokeLookup, handleRevokeTree, handleRevokeOrphan
<1>4. CASE Revoke(p)
  BY <1>4 DEF Revoke, RevokeLoad, RevokeDelete
<1>5. CASE revokeTreeInternal(p)
  BY <1>5 DEF revokeTreeInternal
<1>6. CASE revokeInternal(p)
  BY <1>6 DEF revokeInternal, LoadOrStore, internalLookup, markRevoked, RevokeByToken,
     clearParentIndex, listChildren, childLookup, orphanChild, deleteEntry
<1>. QED  BY <1>1, <1>2, <1>3, <1>4, <1>5, <1>6 DEF Step

\* Trees are revoked in order as long as nothing went wrong.
CalmInv == mishaps \in Nat /\ (mishaps = 0 => TreeInv)

LEMMA NextTree ==
    ASSUME Forest, IInv, IInv', CalmInv, [Next]_vars
    PROVE  CalmInv'
<1>1. ASSUME NEW p \in Requests, NEW call \in Calls, Begin(p, call[1], call[2]) PROVE CalmInv'
  BY <1>1, BeginTree DEF CalmInv, Begin
<1>2. ASSUME NEW p \in Workers, NEW t \in Tokens, ExpireJob(p, t) PROVE CalmInv'
  BY <1>2, ExpireJobTree DEF CalmInv, ExpireJob
<1>3. ASSUME NEW p \in Procs, Step(p) PROVE CalmInv'
  BY <1>3, StepTree, StepMishaps DEF CalmInv
<1>4. ASSUME mishaps' = mishaps + 1 PROVE CalmInv'
  BY <1>4 DEF CalmInv
<1>5. ASSUME NEW t \in Expiring, Expire(t) PROVE CalmInv'
  BY <1>5, ExpireTree DEF CalmInv, Expire
<1>6. ASSUME NEW p \in Procs, Fault(p) PROVE CalmInv'
  BY <1>4, <1>6 DEF Fault
<1>7. CASE Restart
  BY <1>4, <1>7 DEF Restart
<1>8. CASE UNCHANGED vars
  BY <1>8, StutterTree DEF CalmInv, vars
<1>. QED  BY <1>1, <1>2, <1>3, <1>5, <1>6, <1>7, <1>8 DEF Next

LEMMA InitTree ==
    ASSUME Init
    PROVE  CalmInv
<1>1. /\ \A p \in Procs : proc[p].stack = <<>>
      /\ deleted = {} /\ orphaned = {} /\ mishaps = 0
      /\ tokensPendingDeletion = [t \in Tokens |-> "absent"]
      /\ \A p \in Procs : doomed[p] = {}
      /\ doomed \in [Procs -> SUBSET Tokens]
  BY DEF Init, Quiet
<1>2. Flagged = {}
  BY <1>1 DEF Flagged
<1>3. IndexInv
  BY TokenAssumption DEF Init, IndexInv, Edges
<1>4. OrderInv
  <2>1. ASSUME NEW d \in Existing PROVE idView[d] # Nil /\ lease[d] = "live" /\ d \in Tokens
    <3>1. d \in Tokens /\ NumUses[d] \in Nat /\ Parent[d] \in Tokens \cup {Nil}
      BY TokenAssumption
    <3>2. PICK e : e = [uses |-> NumUses[d], parent |-> Parent[d]]
      OBVIOUS
    <3>3. e \in Entry
      BY <3>1, <3>2 DEF Entry
    <3>4. e # Nil
      BY <3>3, EntryNotNil
    <3>. QED  BY <3>1, <3>2, <3>4 DEF Init
  <2>2. tokensPendingDeletion \in [Tokens -> {"absent", "true"}]
    BY <1>1
  <2>. QED  BY <1>1, <1>2, <2>1, <2>2 DEF OrderInv
<1>5. TreeStacks
  <2>1. TreeStack(<<>>, Flagged, Shut, NotLive)
    BY DEF TreeStack, Linked, HeadOK
  <2>. QED  BY <1>1, <2>1 DEF TreeStacks
<1>6. DoomInv
  BY <1>1 DEF DoomInv
<1>. QED  BY <1>1, <1>3, <1>4, <1>5, <1>6 DEF CalmInv, TreeInv

-----------------------------------------------------------------------------
(* What the invariant says of a tree.                                      *)

\* Reach is the least set with its root that no edge leaves.
LEMMA ReachRoot ==
    ASSUME NEW a \in Tokens, NEW E
    PROVE  a \in Reach(a, E) /\ Reach(a, E) \subseteq Tokens
  BY DEF Reach

LEMMA ReachNext ==
    ASSUME NEW a, NEW E, NEW e \in E, e[1] \in Reach(a, E), e[2] \in Tokens
    PROVE  e[2] \in Reach(a, E)
<1> SUFFICES ASSUME NEW S \in SUBSET Tokens, a \in S, \A d \in E : d[1] \in S => d[2] \in S
             PROVE  e[2] \in S
  BY DEF Reach
<1>1. e[1] \in S
  BY DEF Reach
<1>. QED  BY <1>1

LEMMA ReachLeast ==
    ASSUME NEW a, NEW E, NEW S \in SUBSET Tokens, a \in S, \A e \in E : e[1] \in S => e[2] \in S
    PROVE  Reach(a, E) \subseteq S
  BY DEF Reach

\* An activation that cuts a token off is orphaning it, and one that works on a
\* token is revoking it.
LEMMA ActiveOrphaning ==
    ASSUME Shape, NEW f \in Active, NEW d, Cuts(f, d) \/ CutsSoon(f, d)
    PROVE  Orphaning(d)
<1>1. PICK p \in Procs : \E i \in 1 .. Len(proc[p].stack) : f = proc[p].stack[i]
  BY DEF Active
<1>2. PICK i \in 1 .. Len(proc[p].stack) : f = proc[p].stack[i]
  BY <1>1
<1>3. i \in DOMAIN proc[p].stack
  BY <1>2, StackType
<1>4. f.fn = "revokeInternal" /\ f.t = Parent[d] /\ f.pc # "flag" /\ ~f.skipOrphan
  BY DEF Cuts, CutsSoon
<1>. QED  BY <1>2, <1>3, <1>4 DEF Orphaning

LEMMA ActiveRevoking ==
    ASSUME Shape, NEW f \in Active, NEW t, Revokes(f, t)
    PROVE  BeingRevoked(t)
<1>1. PICK p \in Procs : \E i \in 1 .. Len(proc[p].stack) : f = proc[p].stack[i]
  BY DEF Active
<1>2. PICK i \in 1 .. Len(proc[p].stack) : f = proc[p].stack[i]
  BY <1>1
<1>3. i \in DOMAIN proc[p].stack
  BY <1>2, StackType
<1>4. f.fn = "revokeInternal" /\ f.t = t /\ f.pc # "flag"
  BY DEF Revokes
<1>. QED  BY <1>2, <1>3, <1>4 DEF BeingRevoked

\* A child of a token that is revoked or cut off is so itself.
LEMMA NextInTree ==
    ASSUME Forest, Shape, OrderInv, NEW tree \in SUBSET Tokens, NEW c \in tree, c \in Existing,
           Parent[c] \in tree, Parent[c] \in Flagged \/ CutOff(Parent[c], tree)
    PROVE  c \in Flagged \/ CutOff(c, tree)
<1>0. c \in Tokens /\ <<Parent[c], c>> \in Edges /\ Edges = {<<Parent[d], d>> : d \in Tokens}
  BY DEF Edges
<1>1. CASE CutOff(Parent[c], tree)
  <2>1. PICK s \in tree : /\ Parent[s] \in tree /\ Parent[c] \in Reach(s, Edges)
                          /\ s \in orphaned \/ Orphaning(s)
    BY <1>0, <1>1 DEF CutOff
  <2>2. PICK e \in Edges : e = <<Parent[c], c>>
    BY <1>0
  <2>3. e[1] = Parent[c] /\ e[2] = c
    BY <2>2
  <2>4. c \in Reach(s, Edges)
    BY <1>0, <2>1, <2>3, ReachNext
  <2>. QED  BY <1>0, <2>1, <2>4 DEF CutOff
<1>2. CASE Parent[c] \in Flagged
  <2>1. c \in Leaving
    BY <1>2 DEF OrderInv, KidsIn
  <2>2. c \in Flagged \/ c \in orphaned \/ Orphaning(c)
    BY <2>1, ActiveOrphaning DEF Leaving, Shut
  <2>3. c \in Reach(c, Edges)
    BY <1>0, ReachRoot
  <2>. QED  BY <1>0, <2>2, <2>3 DEF CutOff
<1>. QED  BY <1>1, <1>2

LEMMA TreeIsRevoked ==
    ASSUME Forest, IInv, RestoredInv, CalmInv
    PROVE  TreeRevoked
<1> SUFFICES ASSUME NEW p \in Requests, proc[p].result = "ok", mishaps = 0,
                    NEW t \in doomed[p], t \in Existing, Usable(t), ~CutOff(t, doomed[p]),
                    t \notin Root \cap restored
             PROVE  BeingRevoked(t)
  BY DEF TreeRevoked
<1>0. /\ Shape /\ IndexInv /\ OrderInv /\ TreeStacks /\ DoomInv /\ p \in Procs
  BY DEF IInv, CalmInv, TreeInv, Procs
<1>1. PICK a \in Tokens, E \in SUBSET Edges : doomed[p] = Reach(a, E) /\ Settled(p, a)
  BY <1>0 DEF DoomInv
<1>2. proc[p].stack = <<>>
  BY <1>0 DEF TreeStacks
<1>3. a \in Existing => a \in Flagged
  BY <1>1, <1>2 DEF Settled
<1>4. PICK tree \in SUBSET Tokens : tree = Reach(a, E)
  BY <1>1, ReachRoot
<1>5. PICK S : S = {s \in tree : s \notin Existing \/ s \in Flagged \/ CutOff(s, tree)}
  OBVIOUS
<1>6. S \in SUBSET Tokens /\ a \in S
  BY <1>3, <1>4, <1>5, ReachRoot
<1>7. ASSUME NEW e \in E, e[1] \in S PROVE e[2] \in S
  <2>1. PICK c \in Tokens : e = <<Parent[c], c>>
    BY DEF Edges
  <2>2. e[1] = Parent[c] /\ e[2] = c
    BY <2>1
  <2>3. Parent[c] \in tree /\ Parent[c] \in Tokens
    BY <1>5, <1>7, <2>2
  <2>4. c \in tree
    BY <1>4, <2>2, <2>3, ReachNext
  <2>5. CASE c \notin Existing
    BY <1>5, <2>2, <2>4, <2>5
  <2>6. CASE c \in Existing
    <3>1. Parent[c] \in Existing
      BY <2>3, <2>6, TokenAssumption DEF Forest
    <3>2. Parent[c] \in Flagged \/ CutOff(Parent[c], tree)
      BY <1>5, <1>7, <2>2, <3>1
    <3>3. c \in Flagged \/ CutOff(c, tree)
      BY <1>0, <2>3, <2>4, <2>6, <3>2, NextInTree
    <3>. QED  BY <1>5, <2>2, <2>4, <3>3
  <2>. QED  BY <2>5, <2>6
<1>8. tree \subseteq S
  BY <1>4, <1>6, <1>7, ReachLeast
<1>9. t \in Flagged
  BY <1>1, <1>4, <1>5, <1>8
<1>10. t \in Attended
  BY <1>0, <1>9 DEF OrderInv
<1>11. ~Ended(t)
  <2>1. idView[t] # Nil /\ (t \in Root \/ lease[t] = "live") /\ t \in Tokens
    BY TokenAssumption DEF Usable, lookupResult
  <2>. QED  BY <2>1 DEF RestoredInv, Ended
<1>12. PICK f \in Active : Revokes(f, t)
  BY <1>10, <1>11 DEF Attended
<1>. QED  BY <1>0, <1>12, ActiveRevoking

\* Until a storage access fails or the process crashes, the index leads to all
\* tokens whose revocation has not begun, and a token, its lease and its place
\* in the index go only after its children were revoked or cut off.
THEOREM TreeInvariant == ASSUME Forest PROVE Spec => []CalmInv
<1>1. Init => CalmInv
  BY InitTree
<1>2. IInv /\ IInv' /\ CalmInv /\ [Next]_vars => CalmInv'
  BY NextTree
<1>. QED  BY <1>1, <1>2, TokenInvariant, PTL DEF Spec

\* A revocation of a tree that returned success, with no mishap on the way, has
\* left no token of the tree usable, unless another revocation works on it
\* still or has cut it off from the tree: revokeTreeInternal meets every child
\* that the index has, and what it does not meet was flagged by somebody else.
\* A root token is usable all the same when its entry was stored again.
THEOREM TreeSafety == ASSUME Forest PROVE Spec => []TreeRevoked
<1>1. IInv /\ RestoredInv /\ CalmInv => TreeRevoked
  BY TreeIsRevoked
<1>. QED  BY <1>1, TokenInvariant, RestoredHistory, TreeInvariant, PTL
=============================================================================
