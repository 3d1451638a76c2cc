--------------------------- MODULE KeyringProofs ----------------------------
(***************************************************************************)
(* Theorems about Keyring, for any nodes, calls, bounds and mishaps: what  *)
(* was written stays readable, the operators' shares unseal the vault      *)
(* unless a rekey is unfinished, upgrade keys are going to be destroyed,   *)
(* and a standby takes over with the keyring it has.                       *)
(***************************************************************************)
EXTENDS Keyring, TLAPS

-----------------------------------------------------------------------------
(* The inductive invariant.                                                *)

Rings == {r \in [master : Nat, keys : Seq(Nat)] : Len(r.keys) > 0}

\* The keys of r are the first ones of s.
Extends(s, r) ==
    /\ Len(r.keys) <= Len(s.keys)
    /\ \A t \in 1 .. Len(r.keys) : s.keys[t] = r.keys[t]

\* The nodes that have the lock of the cluster.
Leading == {"upgrade", "master", "keyring", "active"}

Writing == {"keyring", "masterKey"}
Rekeying == {"rekey", "rekeyed"}

\* Where a rekey is once the keyring has the new master key.
Rekeyed(p) ==
    \/ proc[p].op = "rekey" /\ proc[p].pc \in {"put", "putData", "config"}
    \/ proc[p].op = "rekeyed"

CallOf ==
    [pc : {"idle", "storeKey", "rekey", "keyring", "masterKey", "upgrade", "put", "putData",
           "config"},
     node : Nodes \cup {Nil}, op : {"none", "rekey", "rekeyed", "rotate", "persist"},
     new : Rings \cup {Nil}, kek : Nat, term : Nat, key : Nat]

Shape ==
    /\ keyring \in Rings
    /\ role \in [Nodes -> Roles]
    /\ ring \in [Nodes -> Rings \cup {Nil}]
    /\ \A n \in Nodes : role[n] # "sealed" => ring[n] \in Rings
    /\ masterKey \in [term : Nat, key : Nat, master : Nat]
    /\ upgrade \in [Terms -> [by : Nat, key : Nat] \cup {Nil}]
    /\ timers \in [Nodes -> SUBSET Nat]
    /\ generated \in [key : Nat, master : Nat, kek : Nat]
    /\ proc \in [Procs -> CallOf]
    /\ rekey \in [Nodes -> Nat \cup {Nil}]

OneLeader == \A m, n \in Nodes : role[m] \in Leading /\ role[n] \in Leading => m = n

\* What call p knows of the keyring of its node, at each of its places.
CallRing(p) ==
    LET n == proc[p].node IN
    /\ proc[p].pc # "idle" => n \in Nodes /\ Active(n)
    /\ proc[p].pc \in Writing =>
         /\ proc[p].new \in Rings /\ Extends(proc[p].new, ring[n])
         /\ proc[p].op # "rekey" => proc[p].new.master = ring[n].master
         /\ proc[p].op = "rotate" => Len(proc[p].new.keys) > 1
    /\ proc[p].pc = "masterKey" => keyring = proc[p].new
    /\ proc[p].pc = "upgrade" => proc[p].term > 0 /\ proc[p].term < Len(ring[n].keys)
    /\ proc[p].pc = "putData" => Opens(ring[n], <<proc[p].term, proc[p].key>>)

\* What a rekey knows of the master key and of the unseal key.
CallRekey(p) ==
    LET n == proc[p].node IN
    /\ proc[p].pc = "idle" => proc[p].op = "none"
    /\ proc[p].pc \in {"storeKey", "rekey", "config"} => proc[p].op = "rekey"
    /\ proc[p].pc = "upgrade" => proc[p].op = "rotate"
    /\ proc[p].op = "rekeyed" => proc[p].pc \in {"put", "putData"} /\ config = proc[p].kek
    /\ proc[p].op = "rekey" /\ proc[p].pc # "storeKey" => unfinished
    /\ proc[p].op \in Rekeying /\ proc[p].pc # "storeKey" => stored.kek = proc[p].kek
    /\ proc[p].pc = "rekey" => stored.master = proc[p].key
    /\ proc[p].op = "rekey" /\ proc[p].pc \in Writing => stored.master = proc[p].new.master
    /\ Rekeyed(p) => stored.master = ring[n].master /\ stored.master = keyring.master

LockAlone == \A p, q \in Procs : proc[p].pc \in Writing /\ proc[q].pc \in Writing => p = q
RekeyAlone == \A p, q \in Procs : proc[p].op \in Rekeying /\ proc[q].op \in Rekeying => p = q

\* The keyring of an active node, and that in storage.
ActiveRing ==
    \A n \in Nodes : Active(n) =>
        /\ Extends(keyring, ring[n])
        /\ ~unfinished => keyring.master = ring[n].master

\* The active node is going to destroy every upgrade.
ActiveDestroys ==
    \A n \in Nodes : Active(n) =>
        \A t \in Terms \ kept : upgrade[t] # Nil => t \in timers[n]

Calls == /\ \A p \in Procs : CallRing(p) /\ CallRekey(p)
         /\ LockAlone /\ RekeyAlone

IInv == /\ Shape /\ OneLeader /\ Calls /\ ActiveRing
        /\ DataReadable /\ Unsealable /\ ActiveDestroys

\* What a takeover rests on, in addition to IInv.
Writers == {p \in Procs : At(p, "masterKey")}
Pending(t) == \E p \in Procs : At(p, "upgrade") /\ proc[p].term = t
MasterText == <<masterKey.term, masterKey.key>>

\* No more keys than were generated are in a keyring.
KeyBound ==
    /\ generated.key <= MaxKeys /\ Len(keyring.keys) <= generated.key
    /\ \A p \in Procs : proc[p].pc \in Writing => Len(proc[p].new.keys) <= generated.key

\* A rotation adds one key to the keyring of its node, other calls none.
NewLen(c) == Len(ring[c.node].keys) + (IF c.op = "rotate" THEN 1 ELSE 0)
NewKeys == \A p \in Procs : proc[p].pc \in Writing => Len(proc[p].new.keys) = NewLen(proc[p])

\* The keyring in storage, and that of the active node, open the master key;
\* it is of the latest term and the one of the keyring, unless persistKeyring
\* is between its writes or was cut off there.
MasterKeyRead ==
    /\ Opens(keyring, MasterText)
    /\ \A n \in Nodes : Active(n) => Opens(ring[n], MasterText)
    /\ ~torn /\ Writers = {} => masterKey.term = Len(keyring.keys)
                                /\ masterKey.master = keyring.master

\* An upgrade leads from a key of the keyring to the next one.
UpgradeKeys ==
    /\ \A t \in Terms : upgrade[t] # Nil =>
         /\ t < masterKey.term
         /\ upgrade[t].by = keyring.keys[t] /\ upgrade[t].key = keyring.keys[t + 1]
    /\ \A p \in Procs : At(p, "upgrade") => proc[p].term < masterKey.term

\* A node that is not suspect has the first keys of the keyring, ...
Behind(n) ==
    /\ Extends(keyring, ring[n])
    /\ \A m \in Nodes : Active(m) /\ Writers = {} => Extends(ring[m], ring[n])
    /\ torn /\ Writers = {} =>
         Len(ring[n].keys) = Len(keyring.keys) /\ masterKey.master = keyring.master

\* ... the upgrades it needs are there, or are about to be, ...
Chained(n) ==
    \A t \in Terms :
        /\ Len(ring[n].keys) <= t
        /\ t < masterKey.term \/ \E m \in Nodes : Active(m) /\ t < Len(ring[m].keys)
        => upgrade[t] # Nil \/ Pending(t)

\* ... and it has taken them when it says so.
CaughtUp(n) ==
    /\ role[n] \in {"master", "keyring"} => masterKey.term <= Len(ring[n].keys)
    /\ \A t \in Terms : n \in checked[t] /\ Len(ring[n].keys) <= t =>
         \E s \in Terms : s <= t /\ Pending(s)

Follower(n) ==
    role[n] # "sealed" /\ n \notin suspect => Behind(n) /\ Chained(n) /\ CaughtUp(n)
Followers == \A n \in Nodes : Follower(n)

CheckedUpgrades ==
    /\ checked \in [Terms -> SUBSET Nodes]
    /\ \A t \in Terms : checked[t] # {} => upgrade[t] # Nil

Reloaded == \A n \in Nodes : role[n] = "keyring" => ring[n].master = masterKey.master

TakeInv == /\ mishaps \in Nat /\ torn \in BOOLEAN /\ KeyBound /\ NewKeys /\ MasterKeyRead /\ UpgradeKeys
           /\ Followers /\ CheckedUpgrades /\ Reloaded

-----------------------------------------------------------------------------
(* Keyrings.                                                               *)

\* A keyring extends itself, and opens what the ones it extends open.
LEMMA ExtendsSelf == ASSUME NEW r \in Rings PROVE Extends(r, r)
  BY DEF Extends, Rings

LEMMA ExtendsOpens ==
    ASSUME NEW r \in Rings, NEW s \in Rings, Extends(s, r), NEW c, Opens(r, c)
    PROVE  Opens(s, c)
<1> DEFINE t == c[1]
<1>1. /\ r.keys \in Seq(Nat) /\ s.keys \in Seq(Nat)
      /\ t \in 1 .. Len(r.keys) /\ r.keys[t] = c[2]
  BY DEF Opens, Rings
<1> HIDE DEF t
<1>2. Len(r.keys) \in Nat /\ Len(s.keys) \in Nat
  BY <1>1
<1>3. Len(r.keys) <= Len(s.keys) /\ s.keys[t] = r.keys[t]
  BY <1>1 DEF Extends
<1>4. t \in DOMAIN s.keys
  BY <1>1, <1>2, <1>3
<1>. QED  BY <1>1, <1>3, <1>4 DEF Opens, t

\* AddKey adds the key of the next term.
LEMMA AddKeyRing ==
    ASSUME NEW r \in Rings, NEW k \in Nat
    PROVE  /\ AddKey(r, k) \in Rings /\ Extends(AddKey(r, k), r)
           /\ AddKey(r, k).master = r.master /\ Len(AddKey(r, k).keys) > 1
<1>1. /\ r \in [master : Nat, keys : Seq(Nat)] /\ r.keys \in Seq(Nat) /\ Len(r.keys) > 0
      /\ Len(r.keys) \in Nat
  BY DEF Rings
<1>2. /\ AddKey(r, k) \in [master : Nat, keys : Seq(Nat)] /\ AddKey(r, k).master = r.master
      /\ AddKey(r, k).keys = Append(r.keys, k)
  <2> DEFINE ks == Append(r.keys, k)
  <2>1. ks \in Seq(Nat)
    BY <1>1
  <2>2. AddKey(r, k) = [r EXCEPT !.keys = ks]
    BY DEF AddKey
  <2> HIDE DEF ks
  <2>3. AddKey(r, k) \in [master : Nat, keys : Seq(Nat)] /\ AddKey(r, k).master = r.master
        /\ AddKey(r, k).keys = ks
    BY <1>1, <2>1, <2>2
  <2>. QED  BY <2>3 DEF ks
<1>3. /\ Len(Append(r.keys, k)) = Len(r.keys) + 1
      /\ \A t \in 1 .. Len(r.keys) : Append(r.keys, k)[t] = r.keys[t]
  BY <1>1
<1>. QED  BY <1>1, <1>2, <1>3 DEF Rings, Extends

\* SetMasterKey leaves the encryption keys.
LEMMA SetMasterKeyRing ==
    ASSUME NEW r \in Rings, NEW m \in Nat
    PROVE  /\ SetMasterKey(r, m) \in Rings /\ Extends(SetMasterKey(r, m), r)
           /\ SetMasterKey(r, m).master = m
<1>1. r \in [master : Nat, keys : Seq(Nat)] /\ r.keys \in Seq(Nat) /\ Len(r.keys) > 0
  BY DEF Rings
<1>2. /\ SetMasterKey(r, m) \in [master : Nat, keys : Seq(Nat)]
      /\ SetMasterKey(r, m).master = m /\ SetMasterKey(r, m).keys = r.keys
  BY <1>1 DEF SetMasterKey
<1>. QED  BY <1>1, <1>2 DEF Rings, Extends

\* What is encrypted by the active key is opened by the keyring.
LEMMA ActiveKeyOpens ==
    ASSUME NEW r \in Rings
    PROVE  /\ activeTerm(r) \in Nat /\ ActiveKey(r) \in Nat
           /\ Opens(r, <<activeTerm(r), ActiveKey(r)>>)
<1>1. r.keys \in Seq(Nat) /\ Len(r.keys) \in 1 .. Len(r.keys)
  BY DEF Rings
<1>. QED  BY <1>1 DEF activeTerm, ActiveKey, Opens

-----------------------------------------------------------------------------
(* What a step leaves as it was.                                           *)

LEMMA Parts ==
    ASSUME IInv
    PROVE  /\ Shape /\ OneLeader /\ ActiveRing /\ DataReadable /\ Unsealable /\ ActiveDestroys
           /\ LockAlone /\ RekeyAlone
           /\ \A p \in Procs : CallRing(p) /\ CallRekey(p)
  BY DEF IInv, Calls

LEMMA CallType ==
    ASSUME IInv, NEW p \in Procs
    PROVE  /\ proc \in [Procs -> CallOf] /\ proc[p] \in CallOf
           /\ proc[p].node \in Nodes \cup {Nil} /\ proc[p].new \in Rings \cup {Nil}
           /\ proc[p].kek \in Nat /\ proc[p].term \in Nat /\ proc[p].key \in Nat
<1>1. proc \in [Procs -> CallOf] /\ proc[p] \in CallOf
  BY Parts DEF Shape
<1>. QED  BY <1>1 DEF CallOf

\* A call that did not move, on a node whose keyring did not change.
LEMMA CallRingSame ==
    ASSUME IInv, NEW p \in Procs, proc'[p] = proc[p],
           proc[p].pc # "idle" => /\ role'[proc[p].node] = role[proc[p].node]
                                  /\ ring'[proc[p].node] = ring[proc[p].node],
           proc[p].pc = "masterKey" => keyring' = keyring
    PROVE  CallRing(p)'
<1> DEFINE n == proc[p].node
<1>1. proc[p].pc # "idle" => (Active(n)' <=> Active(n))
  BY DEF Active
<1>2. proc[p].pc # "idle" => ring'[proc'[p].node] = ring[n]
  OBVIOUS
<1>3. CallRing(p)
  BY Parts
<1>. QED  BY <1>1, <1>2, <1>3 DEF CallRing, Writing

\* A call that did not move and does not rekey, ...
LEMMA CallRekeyNone ==
    ASSUME IInv, NEW p \in Procs, proc'[p] = proc[p], proc[p].op \notin Rekeying
    PROVE  CallRekey(p)'
  BY Parts DEF CallRekey, Rekeying, Rekeyed

\* ... or does, while nobody touches the keys it put in place.
LEMMA CallRekeySame ==
    ASSUME IInv, NEW p \in Procs, proc'[p] = proc[p],
           stored' = stored, config' = config, unfinished => unfinished',
           Rekeyed(p) => /\ ring'[proc[p].node].master = ring[proc[p].node].master
                         /\ keyring'.master = keyring.master
    PROVE  CallRekey(p)'
<1>1. Rekeyed(p)' <=> Rekeyed(p)
  BY DEF Rekeyed
<1>. QED  BY <1>1, Parts DEF CallRekey

\* Only call p moved, and it took a lock only if it was free.
OnlyCall(p) == proc' \in [Procs -> CallOf] /\ \A q \in Procs : q # p => proc'[q] = proc[q]

LEMMA CallsMove ==
    ASSUME IInv, NEW p \in Procs, OnlyCall(p),
           \A q \in Procs : CallRing(q)' /\ CallRekey(q)',
           proc'[p].pc \in Writing =>
              proc[p].pc \in Writing \/ \A q \in Procs : proc[q].pc \notin Writing,
           proc'[p].op \in Rekeying =>
              proc[p].op \in Rekeying \/ \A q \in Procs : proc[q].op \notin Rekeying
    PROVE  Calls'
<1>1. LockAlone'
  BY Parts DEF LockAlone, OnlyCall
<1>2. RekeyAlone'
  BY Parts DEF RekeyAlone, OnlyCall
<1>. QED  BY <1>1, <1>2 DEF Calls

\* A call moves, and neither storage nor a keyring changes.
LEMMA CallMoves ==
    ASSUME IInv, NEW p \in Procs, OnlyCall(p), CallRing(p)', CallRekey(p)',
           UNCHANGED <<keyring, ring, role, stored, config, unfinished>>,
           proc'[p].pc \in Writing =>
              proc[p].pc \in Writing \/ \A q \in Procs : proc[q].pc \notin Writing,
           proc'[p].op \in Rekeying =>
              proc[p].op \in Rekeying \/ \A q \in Procs : proc[q].op \notin Rekeying
    PROVE  Calls'
<1>1. ASSUME NEW q \in Procs PROVE CallRing(q)' /\ CallRekey(q)'
  <2>1. CASE q = p
    BY <2>1
  <2>2. CASE q # p
    BY <2>2, CallRingSame, CallRekeySame DEF OnlyCall
  <2>. QED  BY <2>1, <2>2
<1>. QED  BY <1>1, CallsMove

\* The rest of the invariant, when the keys stay where they are.
LEMMA RestSame ==
    ASSUME IInv, UNCHANGED <<keyring, ring, role, stored, config, written, unfinished, upgrade>>,
           shares \subseteq shares', kept \subseteq kept',
           \A n \in Nodes : timers[n] \subseteq timers'[n]
    PROVE  OneLeader' /\ ActiveRing' /\ DataReadable' /\ Unsealable' /\ ActiveDestroys'
<1>1. OneLeader' /\ ActiveRing'
  BY Parts DEF OneLeader, ActiveRing, Active
<1>2. DataReadable' /\ Unsealable'
  BY Parts DEF DataReadable, Unsealable, Unlocks, Active
<1>3. ActiveDestroys'
  BY Parts DEF ActiveDestroys, Active
<1>. QED  BY <1>1, <1>2, <1>3

\* The calls, when no call moves and the node of every call stays.
LEMMA CallsSame ==
    ASSUME IInv, UNCHANGED <<keyring, proc, stored, config, unfinished>>,
           \A n \in Nodes : Active(n) => role'[n] = role[n] /\ ring'[n] = ring[n]
    PROVE  Calls'
<1>1. ASSUME NEW p \in Procs PROVE CallRing(p)' /\ CallRekey(p)'
  <2>1. proc[p].pc # "idle" => /\ role'[proc[p].node] = role[proc[p].node]
                               /\ ring'[proc[p].node] = ring[proc[p].node]
    BY Parts DEF CallRing
  <2>2. CallRing(p)'
    BY <2>1, CallRingSame
  <2>3. Rekeyed(p) => proc[p].pc # "idle"
    BY Parts DEF Rekeyed, CallRekey
  <2>4. CallRekey(p)'
    BY <2>1, <2>3, CallRekeySame
  <2>. QED  BY <2>2, <2>4
<1>2. LockAlone' /\ RekeyAlone'
  BY Parts DEF LockAlone, RekeyAlone
<1>. QED  BY <1>1, <1>2 DEF Calls

\* ~Locked: nobody else is writing a keyring.
LEMMA NobodyWrites ==
    ASSUME IInv, NEW n \in Nodes, Active(n), ~Locked(n)
    PROVE  \A q \in Procs : proc[q].pc \notin Writing
<1> SUFFICES ASSUME NEW q \in Procs, proc[q].pc \in Writing PROVE FALSE
  OBVIOUS
<1>1. proc[q].node \in Nodes /\ Active(proc[q].node)
  BY Parts DEF CallRing, Writing
<1>2. proc[q].node = n
  BY <1>1, Parts DEF OneLeader, Active, Leading
<1>. QED  BY <1>2 DEF Locked, Writing

-----------------------------------------------------------------------------
(* Steps of a node.                                                        *)

\* Steps that concern the rekey in progress or the checks of a standby only.
LEMMA QuietNodeKeeps ==
    ASSUME IInv, NEW n \in Nodes, BarrierRekeyInit(n) \/ RekeyCancel(n) \/ CheckEnds(n)
    PROVE  IInv'
<1>1. /\ UNCHANGED <<keyring, masterKey, upgrade, stored, config, written, ring, role, timers, proc,
                     generated, shares, unfinished, kept>>
      /\ rekey' \in [Nodes -> Nat \cup {Nil}]
  BY Parts DEF BarrierRekeyInit, RekeyCancel, CheckEnds, Shape, storageVars, histVars, NoKey
<1>2. Shape'
  BY <1>1, Parts DEF Shape
<1>3. Calls'
  BY <1>1, CallsSame
<1>. QED  BY <1>1, <1>2, <1>3, RestSame DEF IInv

\* A node that is not active before it, nor after it, changes by itself.
LEMMA PassiveKeeps ==
    ASSUME IInv, NEW n \in Nodes, ~Active(n), ~Active(n)',
           UNCHANGED <<keyring, masterKey, upgrade, stored, config, written, proc, generated, shares,
                       unfinished, kept>>,
           role' \in [Nodes -> Roles], ring' \in [Nodes -> Rings \cup {Nil}],
           role'[n] # "sealed" => ring'[n] \in Rings,
           rekey' \in [Nodes -> Nat \cup {Nil}], timers' \in [Nodes -> SUBSET Nat],
           \A m \in Nodes : m # n =>
              role'[m] = role[m] /\ ring'[m] = ring[m] /\ timers'[m] = timers[m],
           role'[n] \in Leading => \/ role[n] \in Leading
                                   \/ \A m \in Nodes : role[m] \notin Leading
    PROVE  IInv'
<1>1. Shape'
  BY Parts DEF Shape
<1>2. OneLeader'
  BY Parts DEF OneLeader
<1>3. \A m \in Nodes : Active(m)' <=> Active(m)
  BY DEF Active
<1>4. \A m \in Nodes : Active(m) => m # n
  OBVIOUS
<1>5. Calls'
  BY <1>4, CallsSame
<1>6. ActiveRing' /\ ActiveDestroys'
  BY <1>3, <1>4, Parts DEF ActiveRing, ActiveDestroys
<1>7. DataReadable' /\ Unsealable'
  BY <1>3, <1>4, Parts DEF DataReadable, Unsealable, Unlocks
<1>. QED  BY <1>1, <1>2, <1>5, <1>6, <1>7 DEF IInv

\* Stop leaves a node sealed.
LEMMA StopFacts ==
    ASSUME IInv, NEW n \in Nodes, Stop(n)
    PROVE  /\ role' \in [Nodes -> Roles] /\ ring' \in [Nodes -> Rings \cup {Nil}]
           /\ rekey' \in [Nodes -> Nat \cup {Nil}] /\ timers' \in [Nodes -> SUBSET Nat]
           /\ role'[n] = "sealed"
           /\ \A m \in Nodes : m # n =>
                role'[m] = role[m] /\ ring'[m] = ring[m] /\ timers'[m] = timers[m]
<1>1. /\ role \in [Nodes -> Roles] /\ ring \in [Nodes -> Rings \cup {Nil}]
      /\ rekey \in [Nodes -> Nat \cup {Nil}] /\ timers \in [Nodes -> SUBSET Nat]
  BY Parts DEF Shape
<1>2. "sealed" \in Roles
  BY DEF Roles
<1>. QED  BY <1>1, <1>2 DEF Stop

LEMMA ShutDownKeeps ==
    ASSUME IInv, NEW n \in Nodes, ~Active(n), ShutDown(n) PROVE IInv'
<1>1. /\ Stop(n)
      /\ UNCHANGED <<keyring, masterKey, upgrade, stored, config, written, proc, generated, shares,
                     unfinished, kept>>
  BY DEF ShutDown, storageVars, histVars
<1>2. role'[n] = "sealed" /\ ~Active(n)'
  BY <1>1, StopFacts DEF Active
<1>. QED  BY <1>1, <1>2, StopFacts, PassiveKeeps DEF Leading

\* A step that only changes what a node is doing.
LEMMA RoleKeeps ==
    ASSUME IInv, NEW n \in Nodes, NEW x \in Roles \ {"active", "sealed"},
           role[n] \notin {"active", "sealed"}, role' = [role EXCEPT ![n] = x],
           UNCHANGED <<keyring, masterKey, upgrade, stored, config, written, proc, generated, shares,
                       unfinished, kept, ring, rekey, timers>>,
           x \in Leading => \/ role[n] \in Leading
                            \/ \A m \in Nodes : role[m] \notin Leading
    PROVE  IInv'
<1>1. /\ role \in [Nodes -> Roles] /\ ring \in [Nodes -> Rings \cup {Nil}]
      /\ rekey \in [Nodes -> Nat \cup {Nil}] /\ timers \in [Nodes -> SUBSET Nat]
      /\ ring[n] \in Rings
  BY Parts DEF Shape
<1>2. /\ role' \in [Nodes -> Roles] /\ role'[n] = x
      /\ \A m \in Nodes : m # n => role'[m] = role[m]
  BY <1>1
<1>3. ~Active(n) /\ ~Active(n)'
  BY <1>2 DEF Active
<1>. QED  BY <1>1, <1>2, <1>3, PassiveKeeps

LEMMA AcquireLockKeeps ==
    ASSUME IInv, NEW n \in Nodes, AcquireLock(n) PROVE IInv'
<1>1. \A m \in Nodes : role[m] \notin Leading
  BY DEF AcquireLock, Leading
<1>2. "upgrade" \in Roles \ {"active", "sealed"}
  BY DEF Roles
<1>. QED  BY <1>1, <1>2, RoleKeeps DEF AcquireLock, storageVars, histVars

LEMMA UpgradesDoneKeeps ==
    ASSUME IInv, NEW n \in Nodes, UpgradesDone(n) PROVE IInv'
<1>1. CASE ShutDown(n)
  BY <1>1, ShutDownKeeps DEF UpgradesDone, Active
<1>2. CASE ~ShutDown(n)
  <2>1. "master" \in Roles \ {"active", "sealed"} /\ role[n] \in Leading
    BY DEF Roles, Leading, UpgradesDone
  <2>. QED  BY <1>2, <2>1, RoleKeeps DEF UpgradesDone, storageVars, histVars
<1>. QED  BY <1>1, <1>2

\* A standby, or a node that takes over, gets one more key or another master
\* key, and does not become active.
LEMMA RingKeeps ==
    ASSUME IInv, NEW n \in Nodes, NEW r \in Rings, NEW x \in Roles \ {"active", "sealed"},
           role[n] \notin {"active", "sealed"},
           ring' = [ring EXCEPT ![n] = r], role' = [role EXCEPT ![n] = x],
           UNCHANGED <<keyring, masterKey, upgrade, stored, config, written, proc, generated, shares,
                       unfinished, kept, rekey, timers>>,
           x \in Leading => role[n] \in Leading
    PROVE  IInv'
<1>1. /\ role \in [Nodes -> Roles] /\ ring \in [Nodes -> Rings \cup {Nil}]
      /\ rekey \in [Nodes -> Nat \cup {Nil}] /\ timers \in [Nodes -> SUBSET Nat]
  BY Parts DEF Shape
<1>2. /\ role' \in [Nodes -> Roles] /\ role'[n] = x
      /\ \A m \in Nodes : m # n => role'[m] = role[m]
  BY <1>1
<1>3. /\ ring' \in [Nodes -> Rings \cup {Nil}] /\ ring'[n] = r
      /\ \A m \in Nodes : m # n => ring'[m] = ring[m]
  BY <1>1
<1>4. ~Active(n) /\ ~Active(n)'
  BY <1>2 DEF Active
<1>. QED  BY <1>1, <1>2, <1>3, <1>4, PassiveKeeps

LEMMA CheckUpgradeKeeps ==
    ASSUME IInv, NEW n \in Nodes, CheckUpgrade(n) PROVE IInv'
<1> DEFINE r == AddKey(ring[n], NextUpgrade(n).key)
<1>1. /\ role[n] \in {"standby", "upgrade"} /\ UpgradeFound(n)
      /\ ring' = [ring EXCEPT ![n] = AddKey(@, NextUpgrade(n).key)]
      /\ UNCHANGED <<storageVars, role, rekey, timers, proc, generated, shares, histVars>>
  BY DEF CheckUpgrade
<1>2. /\ ring[n] \in Rings /\ role \in [Nodes -> Roles] /\ ring \in [Nodes -> Rings \cup {Nil}]
      /\ upgrade \in [Terms -> [by : Nat, key : Nat] \cup {Nil}]
  BY <1>1, Parts DEF Shape
<1>3. activeTerm(ring[n]) \in Terms
  <2>1. Len(ring[n].keys) \in Nat /\ Len(ring[n].keys) > 0
    BY <1>2 DEF Rings
  <2>2. Len(ring[n].keys) < MaxKeys /\ MaxKeys \in Nat
    BY <1>1, KeyringAssumption DEF UpgradeFound, activeTerm
  <2>. QED  BY <2>1, <2>2 DEF Terms, activeTerm
<1>4. NextUpgrade(n).key \in Nat
  BY <1>1, <1>2, <1>3 DEF UpgradeFound, NextUpgrade
<1>5. r \in Rings
  BY <1>2, <1>4, AddKeyRing
<1>6. ring' = [ring EXCEPT ![n] = r]
  BY <1>1, <1>2
<1> HIDE DEF r
<1>7. role' = [role EXCEPT ![n] = role[n]] /\ role[n] \in Roles \ {"active", "sealed"}
  BY <1>1, <1>2
<1>. QED  BY <1>1, <1>5, <1>6, <1>7, RingKeeps DEF storageVars, histVars

LEMMA ReloadMasterKeyKeeps ==
    ASSUME IInv, NEW n \in Nodes, ReloadMasterKey(n) PROVE IInv'
<1>1. CASE ShutDown(n)
  BY <1>1, ShutDownKeeps DEF ReloadMasterKey, Active
<1>2. CASE ~ShutDown(n)
  <2> DEFINE r == SetMasterKey(ring[n], masterKey.master)
  <2>1. /\ role[n] = "master" /\ role' = [role EXCEPT ![n] = "keyring"]
        /\ ring' = [ring EXCEPT ![n] = SetMasterKey(@, masterKey.master)]
        /\ UNCHANGED <<storageVars, rekey, timers, proc, generated, shares, histVars>>
    BY <1>2 DEF ReloadMasterKey
  <2>2. /\ ring[n] \in Rings /\ ring \in [Nodes -> Rings \cup {Nil}]
        /\ masterKey.master \in Nat
    BY <2>1, Parts DEF Shape
  <2>3. r \in Rings
    BY <2>2, SetMasterKeyRing
  <2>4. ring' = [ring EXCEPT ![n] = r]
    BY <2>1, <2>2
  <2>5. "keyring" \in Roles \ {"active", "sealed"} /\ role[n] \in Leading
    BY <2>1 DEF Roles, Leading
  <2> HIDE DEF r
  <2>. QED  BY <2>1, <2>3, <2>4, <2>5, RingKeeps DEF storageVars, histVars
<1>. QED  BY <1>1, <1>2

LEMMA UnsealKeeps ==
    ASSUME IInv, NEW n \in Nodes, Unseal(n) PROVE IInv'
<1>1. /\ role[n] = "sealed" /\ role' = [role EXCEPT ![n] = "standby"]
      /\ ring' = [ring EXCEPT ![n] = keyring]
      /\ UNCHANGED <<keyring, masterKey, upgrade, stored, config, written, proc, generated,
                     shares, unfinished, kept, rekey, timers>>
  BY DEF Unseal, storageVars
<1>2. /\ role \in [Nodes -> Roles] /\ ring \in [Nodes -> Rings \cup {Nil}] /\ keyring \in Rings
      /\ rekey \in [Nodes -> Nat \cup {Nil}] /\ timers \in [Nodes -> SUBSET Nat]
      /\ "standby" \in Roles
  BY Parts DEF Shape, Roles
<1>3. /\ role' \in [Nodes -> Roles] /\ role'[n] = "standby"
      /\ \A m \in Nodes : m # n => role'[m] = role[m]
  BY <1>1, <1>2
<1>4. /\ ring' \in [Nodes -> Rings \cup {Nil}] /\ ring'[n] = keyring
      /\ \A m \in Nodes : m # n => ring'[m] = ring[m]
  BY <1>1, <1>2
<1>5. ~Active(n) /\ ~Active(n)' /\ role'[n] \notin Leading
  BY <1>1, <1>3 DEF Active, Leading
<1>. QED  BY <1>1, <1>2, <1>3, <1>4, <1>5, PassiveKeeps

\* A call that is idle knows nothing, and need not.
LEMMA IdleCall ==
    ASSUME NEW p, proc[p].pc = "idle", proc[p].op = "none"
    PROVE  CallRing(p) /\ CallRekey(p)
  BY DEF CallRing, CallRekey, Writing, Rekeying, Rekeyed

\* Only an active node has calls.
LEMMA NoCalls ==
    ASSUME IInv, \A n \in Nodes : Active(n) => \A p \in Procs : proc[p].node # n
    PROVE  \A p \in Procs : proc[p].pc = "idle" /\ proc[p].op = "none"
  BY Parts DEF CallRing, CallRekey

\* Nobody is active, and no call is at work.
LEMMA NobodyActive ==
    ASSUME IInv, Shape', OneLeader', \A n \in Nodes : ~Active(n)',
           \A p \in Procs : proc'[p].pc = "idle" /\ proc'[p].op = "none",
           UNCHANGED <<keyring, stored, config, written, shares, unfinished>>
    PROVE  IInv'
<1>1. \A p \in Procs : CallRing(p)' /\ CallRekey(p)'
  <2>1. ASSUME NEW p \in Procs PROVE CallRing(p)'
    BY DEF CallRing, Writing
  <2>2. ASSUME NEW p \in Procs PROVE CallRekey(p)'
    BY DEF CallRekey, Rekeying, Rekeyed
  <2>. QED  BY <2>1, <2>2
<1>2. LockAlone' /\ RekeyAlone'
  BY DEF LockAlone, RekeyAlone, Writing, Rekeying
<1>3. ActiveRing' /\ ActiveDestroys'
  BY DEF ActiveRing, ActiveDestroys
<1>4. DataReadable' /\ Unsealable'
  BY Parts DEF DataReadable, Unsealable, Unlocks
<1>. QED  BY <1>1, <1>2, <1>3, <1>4 DEF IInv, Calls

LEMMA StepDownKeeps ==
    ASSUME IInv, NEW n \in Nodes, StepDown(n) PROVE IInv'
<1>1. /\ Active(n) /\ \A p \in Procs : proc[p].node # n
      /\ role' = [role EXCEPT ![n] = "standby"] /\ rekey' = [rekey EXCEPT ![n] = Nil]
      /\ UNCHANGED <<keyring, masterKey, upgrade, stored, config, written, ring, timers, proc,
                     generated, shares, unfinished, kept>>
  BY DEF StepDown, storageVars, histVars
<1>2. /\ role \in [Nodes -> Roles] /\ "standby" \in Roles /\ ring[n] \in Rings
      /\ rekey \in [Nodes -> Nat \cup {Nil}]
  BY <1>1, Parts DEF Shape, Roles, Active
<1>3. /\ role' \in [Nodes -> Roles] /\ role'[n] = "standby"
      /\ \A m \in Nodes : m # n => role'[m] = role[m]
  BY <1>1, <1>2
<1>4. Shape'
  BY <1>1, <1>2, <1>3, Parts DEF Shape
<1>5. ASSUME NEW m \in Nodes PROVE role'[m] \notin Leading
  <2>1. m # n => role[m] \notin Leading
    BY <1>1, Parts DEF OneLeader, Active, Leading
  <2>. QED  BY <1>3, <2>1 DEF Leading
<1>6. OneLeader' /\ \A m \in Nodes : ~Active(m)'
  BY <1>5 DEF OneLeader, Active, Leading
<1>7. \A p \in Procs : proc[p].pc = "idle" /\ proc[p].op = "none"
  <2>1. \A m \in Nodes : Active(m) => m = n
    BY <1>1, Parts DEF OneLeader, Active, Leading
  <2>. QED  BY <1>1, <2>1, NoCalls
<1>. QED  BY <1>1, <1>4, <1>6, <1>7, NobodyActive

LEMMA CrashKeeps ==
    ASSUME IInv, NEW n \in Nodes, Crash(n) PROVE IInv'
<1>1. /\ Stop(n)
      /\ proc' = [p \in Procs |-> IF proc[p].node = n THEN Idle ELSE proc[p]]
      /\ UNCHANGED <<keyring, masterKey, upgrade, stored, config, written, generated, shares,
                     unfinished, kept>>
  BY DEF Crash, storageVars
<1>2. Idle \in CallOf /\ Idle.pc = "idle" /\ Idle.op = "none"
  BY DEF Idle, CallOf
<1>3. proc' \in [Procs -> CallOf]
  BY <1>1, <1>2, CallType
<1>4. ASSUME NEW p \in Procs
      PROVE  \/ proc'[p].pc = "idle" /\ proc'[p].op = "none"
             \/ proc'[p] = proc[p] /\ proc[p].node # n
  BY <1>1, <1>2
<1>5. Shape'
  BY <1>1, <1>3, StopFacts, Parts DEF Shape
<1>6. /\ role'[n] = "sealed"
      /\ \A m \in Nodes : m # n =>
           role'[m] = role[m] /\ ring'[m] = ring[m] /\ timers'[m] = timers[m]
  BY <1>1, StopFacts
<1>7. OneLeader'
  BY <1>6, Parts DEF OneLeader, Leading
<1>8. \A m \in Nodes : Active(m)' => Active(m) /\ m # n
  BY <1>6 DEF Active
<1>9. ASSUME NEW p \in Procs PROVE CallRing(p)' /\ CallRekey(p)'
  <2>1. CASE proc'[p].pc = "idle" /\ proc'[p].op = "none"
    <3>1. CallRing(p)'
      BY <2>1 DEF CallRing, Writing
    <3>2. CallRekey(p)'
      BY <2>1 DEF CallRekey, Rekeying, Rekeyed
    <3>. QED  BY <3>1, <3>2
  <2>2. CASE proc'[p] = proc[p] /\ proc[p].node # n
    <3>1. proc[p].pc # "idle" => /\ role'[proc[p].node] = role[proc[p].node]
                                 /\ ring'[proc[p].node] = ring[proc[p].node]
      BY <1>6, <2>2, Parts DEF CallRing
    <3>2. CallRing(p)'
      BY <1>1, <2>2, <3>1, CallRingSame
    <3>3. Rekeyed(p) => proc[p].pc # "idle"
      BY Parts DEF Rekeyed, CallRekey
    <3>4. CallRekey(p)'
      BY <1>1, <2>2, <3>1, <3>3, CallRekeySame
    <3>. QED  BY <3>2, <3>4
  <2>. QED  BY <1>4, <2>1, <2>2
<1>10. LockAlone' /\ RekeyAlone'
  <2>1. \A p \in Procs : /\ proc'[p].pc \in Writing => proc[p].pc \in Writing
                         /\ proc'[p].op \in Rekeying => proc[p].op \in Rekeying
    BY <1>4 DEF Writing, Rekeying
  <2>. QED  BY <2>1, Parts DEF LockAlone, RekeyAlone
<1>11. ActiveRing' /\ ActiveDestroys'
  BY <1>1, <1>6, <1>8, Parts DEF ActiveRing, ActiveDestroys
<1>12. DataReadable' /\ Unsealable'
  BY <1>1, <1>6, <1>8, Parts DEF DataReadable, Unsealable, Unlocks
<1>. QED  BY <1>5, <1>7, <1>9, <1>10, <1>11, <1>12 DEF IInv, Calls

\* The node takes the keyring that is in storage and becomes active.
LEMMA ReloadKeyringKeeps ==
    ASSUME IInv, NEW n \in Nodes, ReloadKeyring(n) PROVE IInv'
<1>1. CASE ShutDown(n)
  BY <1>1, ShutDownKeeps DEF ReloadKeyring, Active
<1>2. CASE ~ShutDown(n)
  <2>1. /\ role[n] = "keyring" /\ role' = [role EXCEPT ![n] = "active"]
        /\ ring' = [ring EXCEPT ![n] = keyring]
        /\ timers' = [timers EXCEPT ![n] = @ \cup {t \in Terms : upgrade[t] # Nil}]
        /\ UNCHANGED <<keyring, masterKey, upgrade, stored, config, written, rekey, proc,
                       generated, shares, unfinished, kept>>
    BY <1>2 DEF ReloadKeyring, storageVars
  <2>2. /\ role \in [Nodes -> Roles] /\ ring \in [Nodes -> Rings \cup {Nil}] /\ keyring \in Rings
        /\ timers \in [Nodes -> SUBSET Nat] /\ "active" \in Roles
    BY Parts DEF Shape, Roles
  <2>3. /\ role' \in [Nodes -> Roles] /\ role'[n] = "active"
        /\ \A m \in Nodes : m # n => role'[m] = role[m]
    BY <2>1, <2>2
  <2>4. /\ ring' \in [Nodes -> Rings \cup {Nil}] /\ ring'[n] = keyring
        /\ \A m \in Nodes : m # n => ring'[m] = ring[m]
    BY <2>1, <2>2
  <2>5. timers' \in [Nodes -> SUBSET Nat] /\ \A t \in Terms : upgrade[t] # Nil => t \in timers'[n]
    <3>1. {t \in Terms : upgrade[t] # Nil} \in SUBSET Nat
      BY DEF Terms
    <3>. QED  BY <2>1, <2>2, <3>1
  <2>6. Shape'
    BY <2>1, <2>2, <2>3, <2>4, <2>5, Parts DEF Shape
  <2>7. OneLeader'
    BY <2>1, <2>3, Parts DEF OneLeader, Leading
  <2>8. \A m \in Nodes : ~Active(m) /\ (Active(m)' => m = n)
    BY <2>1, <2>3, Parts DEF OneLeader, Active, Leading
  <2>9. Calls'
    <3>1. \A p \in Procs : proc[p].pc = "idle" /\ proc[p].op = "none"
      BY <2>8, NoCalls
    <3>2. ASSUME NEW p \in Procs PROVE CallRing(p)'
      BY <2>1, <3>1 DEF CallRing, Writing
    <3>3. ASSUME NEW p \in Procs PROVE CallRekey(p)'
      BY <2>1, <3>1 DEF CallRekey, Rekeying, Rekeyed
    <3>4. LockAlone' /\ RekeyAlone'
      BY <2>1, Parts DEF LockAlone, RekeyAlone
    <3>. QED  BY <3>2, <3>3, <3>4 DEF Calls
  <2>10. ActiveRing'
    BY <2>1, <2>2, <2>4, <2>8, ExtendsSelf DEF ActiveRing
  <2>11. ActiveDestroys'
    BY <2>1, <2>5, <2>8 DEF ActiveDestroys
  <2>12. DataReadable' /\ Unsealable'
    BY <2>1, <2>4, <2>8, Parts DEF DataReadable, Unsealable, Unlocks
  <2>. QED  BY <2>6, <2>7, <2>9, <2>10, <2>11, <2>12 DEF IInv
<1>. QED  BY <1>1, <1>2

\* An upgrade is destroyed by any node that has a timer, or is kept.
LEMMA DestroyUpgradeKeeps ==
    ASSUME IInv, NEW n \in Nodes, NEW t \in Terms, DestroyUpgrade(n, t) PROVE IInv'
<1>1. /\ timers' = [timers EXCEPT ![n] = @ \ {t}]
      /\ \/ upgrade' = [upgrade EXCEPT ![t] = Nil] /\ UNCHANGED kept
         \/ kept' = kept \cup {t} /\ UNCHANGED upgrade
      /\ UNCHANGED <<keyring, masterKey, stored, config, written, ring, role, rekey, proc,
                     generated, shares, unfinished>>
  BY DEF DestroyUpgrade
<1>2. /\ timers \in [Nodes -> SUBSET Nat]
      /\ upgrade \in [Terms -> [by : Nat, key : Nat] \cup {Nil}]
  BY Parts DEF Shape
<1>3. /\ timers' \in [Nodes -> SUBSET Nat]
      /\ \A m \in Nodes, s \in Terms : s # t => (s \in timers'[m] <=> s \in timers[m])
  BY <1>1, <1>2
<1>4. upgrade' \in [Terms -> [by : Nat, key : Nat] \cup {Nil}]
  BY <1>1, <1>2
<1>5. Shape'
  BY <1>1, <1>3, <1>4, Parts DEF Shape
<1>6. Calls'
  BY <1>1, CallsSame
<1>7. OneLeader' /\ ActiveRing'
  BY <1>1, Parts DEF OneLeader, ActiveRing, Active
<1>8. DataReadable' /\ Unsealable'
  BY <1>1, Parts DEF DataReadable, Unsealable, Unlocks, Active
<1>9. ActiveDestroys'
  <2>1. SUFFICES ASSUME NEW m \in Nodes, Active(m)', NEW s \in Terms \ kept', upgrade'[s] # Nil
                 PROVE  s \in timers'[m]
    BY DEF ActiveDestroys
  <2>2. s # t /\ s \in Terms \ kept /\ upgrade[s] # Nil /\ Active(m)
    BY <1>1, <1>2, <2>1 DEF Active
  <2>. QED  BY <1>3, <2>2, Parts DEF ActiveDestroys
<1>. QED  BY <1>5, <1>6, <1>7, <1>8, <1>9 DEF IInv

LEMMA NodeKeeps ==
    ASSUME IInv, NEW n \in Nodes, NodeStep(n) PROVE IInv'
  BY CrashKeeps, UnsealKeeps, StepDownKeeps, AcquireLockKeeps, CheckUpgradeKeeps,
     UpgradesDoneKeeps, ReloadMasterKeyKeeps, ReloadKeyringKeeps, DestroyUpgradeKeeps,
     QuietNodeKeeps DEF NodeStep

-----------------------------------------------------------------------------
(* Steps of a call that leave the keys where they are.                     *)

LEMMA ShapeKeeps ==
    ASSUME IInv, UNCHANGED <<keyring, masterKey, upgrade, ring, role>>,
           timers' \in [Nodes -> SUBSET Nat], proc' \in [Procs -> CallOf],
           generated' \in [key : Nat, master : Nat, kek : Nat],
           rekey' \in [Nodes -> Nat \cup {Nil}]
    PROVE  Shape'
  BY Parts DEF Shape

LEMMA MoveKeeps ==
    ASSUME IInv, NEW p \in Procs, NEW c \in CallOf, proc' = [proc EXCEPT ![p] = c],
           UNCHANGED <<keyring, masterKey, upgrade, stored, config, written, ring, role,
                       unfinished, kept>>,
           timers' \in [Nodes -> SUBSET Nat], \A n \in Nodes : timers[n] \subseteq timers'[n],
           generated' \in [key : Nat, master : Nat, kek : Nat],
           rekey' \in [Nodes -> Nat \cup {Nil}], shares \subseteq shares',
           CallRing(p)', CallRekey(p)',
           c.pc \in Writing =>
              proc[p].pc \in Writing \/ \A q \in Procs : proc[q].pc \notin Writing,
           c.op \in Rekeying =>
              proc[p].op \in Rekeying \/ \A q \in Procs : proc[q].op \notin Rekeying
    PROVE  IInv'
<1>1. OnlyCall(p) /\ proc'[p] = c /\ proc' \in [Procs -> CallOf]
  BY CallType DEF OnlyCall
<1>2. Shape'
  BY <1>1, ShapeKeeps
<1>3. Calls'
  BY <1>1, CallMoves
<1>. QED  BY <1>2, <1>3, RestSame DEF IInv

\* A call begins: a rekey that has rekeyLock, a rotation that has the write
\* lock, or a write with the active key.
LEMMA BeginKeeps ==
    ASSUME IInv, NEW p \in Procs, NEW n \in Nodes, NEW c \in CallOf, Active(n),
           c.node = n, proc' = [proc EXCEPT ![p] = c],
           UNCHANGED <<keyring, masterKey, upgrade, stored, config, written, ring, role,
                       unfinished, kept, timers>>,
           generated' \in [key : Nat, master : Nat, kek : Nat],
           rekey' \in [Nodes -> Nat \cup {Nil}], shares \subseteq shares',
           \/ c.pc = "storeKey" /\ c.op = "rekey" /\ ~RekeyLocked
           \/ /\ c.pc = "keyring" /\ c.op \in {"rotate", "persist"} /\ ~Locked(n)
              /\ c.new \in Rings /\ Extends(c.new, ring[n]) /\ c.new.master = ring[n].master
              /\ c.op = "rotate" => Len(c.new.keys) > 1
           \/ c.pc = "putData" /\ c.op = "none" /\ Opens(ring[n], <<c.term, c.key>>)
    PROVE  IInv'
<1>1. proc'[p] = c
  BY CallType
<1>2. timers' \in [Nodes -> SUBSET Nat] /\ Active(n)'
  BY Parts DEF Shape, Active
<1>3. CallRing(p)'
  BY <1>1, <1>2 DEF CallRing, Writing
<1>4. CallRekey(p)'
  BY <1>1 DEF CallRekey, Rekeying, Rekeyed, Writing
<1>5. c.pc \in Writing => \A q \in Procs : proc[q].pc \notin Writing
  BY NobodyWrites DEF Writing
<1>6. c.op \in Rekeying => \A q \in Procs : proc[q].op \notin Rekeying
  BY DEF RekeyLocked, Rekeying
<1>. QED  BY <1>2, <1>3, <1>4, <1>5, <1>6, MoveKeeps

LEMMA RekeyVerifyKeeps ==
    ASSUME IInv, NEW p \in Procs, NEW n \in Nodes, RekeyVerify(p, n) PROVE IInv'
<1> DEFINE c == [[Idle EXCEPT !.op = "rekey", !.pc = "storeKey", !.kek = rekey[n]]
                 EXCEPT !.node = n]
<1>1. /\ rekey[n] # Nil /\ ~RekeyLocked /\ Active(n) /\ proc' = [proc EXCEPT ![p] = c]
      /\ UNCHANGED <<storageVars, nodeVars, generated, shares, histVars>>
  BY DEF RekeyVerify, Begin
<1>2. /\ rekey \in [Nodes -> Nat \cup {Nil}] /\ rekey[n] \in Nat
      /\ generated \in [key : Nat, master : Nat, kek : Nat]
  BY <1>1, Parts DEF Shape
<1>3. c \in CallOf /\ c.node = n /\ c.pc = "storeKey" /\ c.op = "rekey"
  BY <1>2 DEF Idle, CallOf
<1> HIDE DEF c
<1>. QED  BY <1>1, <1>2, <1>3, BeginKeeps DEF storageVars, nodeVars, histVars

LEMMA BarrierRekeyUpdateKeeps ==
    ASSUME IInv, NEW p \in Procs, NEW n \in Nodes, NEW kek, NEW verify \in BOOLEAN,
           BarrierRekeyUpdate(p, n, kek, verify)
    PROVE  IInv'
<1> DEFINE new == generated.kek + 1
           c == [[Idle EXCEPT !.op = "rekey", !.pc = "storeKey", !.kek = new] EXCEPT !.node = n]
<1>1. /\ Active(n) /\ ~RekeyLocked /\ generated' = [generated EXCEPT !.kek = new]
      /\ UNCHANGED <<keyring, masterKey, upgrade, stored, config, written, ring, role, timers,
                     unfinished, kept>>
  BY DEF BarrierRekeyUpdate, storageVars, histVars
<1>2. /\ rekey \in [Nodes -> Nat \cup {Nil}] /\ timers \in [Nodes -> SUBSET Nat]
      /\ generated \in [key : Nat, master : Nat, kek : Nat]
  BY Parts DEF Shape
<1>3. new \in Nat /\ generated' \in [key : Nat, master : Nat, kek : Nat]
  BY <1>1, <1>2
<1>4. CASE verify
  <2>1. /\ rekey' = [rekey EXCEPT ![n] = new] /\ shares' = shares \cup {new} /\ proc' = proc
    BY <1>4 DEF BarrierRekeyUpdate
  <2> HIDE DEF new
  <2>2. rekey' \in [Nodes -> Nat \cup {Nil}] /\ shares \subseteq shares'
    BY <1>2, <1>3, <2>1
  <2>3. Shape'
    BY <1>1, <1>2, <1>3, <2>1, <2>2, Parts DEF Shape
  <2>4. Calls'
    BY <1>1, <2>1, CallsSame
  <2>. QED  BY <1>1, <2>2, <2>3, <2>4, RestSame DEF IInv
<1>5. CASE ~verify
  <2>1. proc' = [proc EXCEPT ![p] = c] /\ rekey' = rekey /\ shares' = shares
    BY <1>5 DEF BarrierRekeyUpdate, Begin
  <2>2. c \in CallOf /\ c.node = n /\ c.pc = "storeKey" /\ c.op = "rekey"
    BY <1>3 DEF Idle, CallOf
  <2> HIDE DEF c, new
  <2>. QED  BY <1>1, <1>2, <1>3, <2>1, <2>2, BeginKeeps
<1>. QED  BY <1>4, <1>5

LEMMA RotateKeeps ==
    ASSUME IInv, NEW p \in Procs, NEW n \in Nodes, Rotate(p, n) PROVE IInv'
<1> DEFINE k == generated.key + 1
           new == AddKey(ring[n], k)
           c == [[Idle EXCEPT !.op = "rotate", !.pc = "keyring", !.new = new] EXCEPT !.node = n]
<1>1. /\ Active(n) /\ ~Locked(n) /\ generated' = [generated EXCEPT !.key = k]
      /\ proc' = [proc EXCEPT ![p] = c]
      /\ UNCHANGED <<storageVars, nodeVars, shares, histVars>>
  BY DEF Rotate, Begin
<1>2. /\ rekey \in [Nodes -> Nat \cup {Nil}] /\ ring[n] \in Rings
      /\ generated \in [key : Nat, master : Nat, kek : Nat]
  BY <1>1, Parts DEF Shape, Active
<1>3. k \in Nat /\ generated' \in [key : Nat, master : Nat, kek : Nat]
  BY <1>1, <1>2
<1> HIDE DEF k
<1>4. /\ new \in Rings /\ Extends(new, ring[n]) /\ new.master = ring[n].master
      /\ Len(new.keys) > 1
  BY <1>2, <1>3, AddKeyRing
<1> HIDE DEF new
<1>5. c \in CallOf /\ c.node = n /\ c.pc = "keyring" /\ c.op = "rotate" /\ c.new = new
  BY <1>4 DEF Idle, CallOf
<1> HIDE DEF c
<1>. QED  BY <1>1, <1>2, <1>3, <1>4, <1>5, BeginKeeps DEF storageVars, nodeVars, histVars

LEMMA PersistEncryptionsKeeps ==
    ASSUME IInv, NEW p \in Procs, NEW n \in Nodes, PersistEncryptions(p, n) PROVE IInv'
<1> DEFINE new == ring[n]
           c == [[Idle EXCEPT !.op = "persist", !.pc = "keyring", !.new = new] EXCEPT !.node = n]
<1>1. /\ Active(n) /\ ~Locked(n) /\ proc' = [proc EXCEPT ![p] = c]
      /\ UNCHANGED <<storageVars, nodeVars, generated, shares, histVars>>
  BY DEF PersistEncryptions, Begin
<1>2. /\ rekey \in [Nodes -> Nat \cup {Nil}] /\ ring[n] \in Rings
      /\ generated \in [key : Nat, master : Nat, kek : Nat]
  BY <1>1, Parts DEF Shape, Active
<1>3. new \in Rings /\ Extends(new, ring[n]) /\ new.master = ring[n].master
  BY <1>2, ExtendsSelf
<1> HIDE DEF new
<1>4. c \in CallOf /\ c.node = n /\ c.pc = "keyring" /\ c.op = "persist" /\ c.new = new
  BY <1>3 DEF Idle, CallOf
<1> HIDE DEF c
<1>. QED  BY <1>1, <1>2, <1>3, <1>4, BeginKeeps DEF storageVars, nodeVars, histVars

LEMMA PutKeeps ==
    ASSUME IInv, NEW p \in Procs, NEW n \in Nodes, Put(p, n) PROVE IInv'
<1> DEFINE t == activeTerm(ring[n])
           k == ActiveKey(ring[n])
           c == [[Idle EXCEPT !.pc = "putData", !.term = t, !.key = k] EXCEPT !.node = n]
<1>1. /\ Active(n) /\ ~Locked(n) /\ proc' = [proc EXCEPT ![p] = c]
      /\ UNCHANGED <<storageVars, nodeVars, generated, shares, histVars>>
  BY DEF Put, Begin, WithActiveKey
<1>2. /\ rekey \in [Nodes -> Nat \cup {Nil}] /\ ring[n] \in Rings
      /\ generated \in [key : Nat, master : Nat, kek : Nat]
  BY <1>1, Parts DEF Shape, Active
<1>3. t \in Nat /\ k \in Nat /\ Opens(ring[n], <<t, k>>)
  BY <1>2, ActiveKeyOpens
<1> HIDE DEF t, k
<1>4. /\ c \in CallOf /\ c.node = n /\ c.pc = "putData" /\ c.op = "none"
      /\ c.term = t /\ c.key = k
  BY <1>3 DEF Idle, CallOf
<1> HIDE DEF c
<1>. QED  BY <1>1, <1>2, <1>3, <1>4, BeginKeeps DEF storageVars, nodeVars, histVars

\* A rekey takes the write lock and makes the keyring with the new master key.
LEMMA RekeyKeeps ==
    ASSUME IInv, NEW p \in Procs, Rekey(p) PROVE IInv'
<1> DEFINE n == proc[p].node
           new == SetMasterKey(ring[n], proc[p].key)
           c == [proc[p] EXCEPT !.pc = "keyring", !.new = new]
<1>1. /\ proc[p].pc = "rekey" /\ ~Locked(n)
      /\ proc' = [proc EXCEPT ![p].pc = "keyring", ![p].new = new]
      /\ UNCHANGED <<storageVars, nodeVars, generated, shares, histVars>>
  BY DEF Rekey, At
<1>2. n \in Nodes /\ Active(n) /\ proc[p].op = "rekey" /\ CallRekey(p)
  BY <1>1, Parts DEF CallRing, CallRekey
<1>3. /\ rekey \in [Nodes -> Nat \cup {Nil}] /\ ring[n] \in Rings /\ timers \in [Nodes -> SUBSET Nat]
      /\ generated \in [key : Nat, master : Nat, kek : Nat]
  BY <1>2, Parts DEF Shape, Active
<1>4. proc \in [Procs -> CallOf] /\ proc[p] \in CallOf /\ proc[p].key \in Nat
  BY CallType
<1>5. new \in Rings /\ Extends(new, ring[n]) /\ new.master = proc[p].key
  BY <1>3, <1>4, SetMasterKeyRing
<1>6. proc' = [proc EXCEPT ![p] = c]
  BY <1>1, <1>4
<1>7. \A q \in Procs : proc[q].pc \notin Writing
  BY <1>1, <1>2, NobodyWrites
<1> HIDE DEF new
<1>8. /\ c \in CallOf /\ c.node = n /\ c.pc = "keyring" /\ c.op = "rekey" /\ c.new = new
      /\ c.kek = proc[p].kek
  BY <1>2, <1>4, <1>5 DEF CallOf
<1>9. proc'[p] = c
  BY <1>4, <1>6
<1>10. CallRing(p)'
  <2> HIDE DEF c, n
  <2>1. role'[n] = "active" /\ ring'[n] = ring[n]
    BY <1>1, <1>2 DEF Active, nodeVars
  <2>. QED  BY <1>2, <1>5, <1>8, <1>9, <2>1 DEF CallRing, Writing, Active
<1>11. CallRekey(p)'
  <2> HIDE DEF c, n
  <2>1. /\ stored' = stored /\ unfinished' = unfinished /\ unfinished
        /\ stored.kek = proc[p].kek /\ stored.master = proc[p].key
    BY <1>1, <1>2 DEF CallRekey, Rekeying, storageVars, histVars
  <2>. QED  BY <1>5, <1>8, <1>9, <2>1 DEF CallRekey, Writing, Rekeying, Rekeyed
<1> HIDE DEF c, n
<1>. QED  BY <1>1, <1>2, <1>3, <1>6, <1>7, <1>8, <1>10, <1>11, MoveKeeps
          DEF storageVars, nodeVars, histVars, Rekeying

LEMMA PutAfterwardsKeeps ==
    ASSUME IInv, NEW p \in Procs, PutAfterwards(p) PROVE IInv'
<1> DEFINE n == proc[p].node
           t == activeTerm(ring[n])
           k == ActiveKey(ring[n])
           c == [proc[p] EXCEPT !.pc = "putData", !.term = t, !.key = k]
<1>1. /\ proc[p].pc = "put"
      /\ proc' = [proc EXCEPT ![p] = WithActiveKey(@, ring[n])]
      /\ UNCHANGED <<storageVars, nodeVars, generated, shares, histVars>>
  BY DEF PutAfterwards, At
<1>2. n \in Nodes /\ Active(n) /\ CallRekey(p)
  BY <1>1, Parts DEF CallRing
<1>3. /\ rekey \in [Nodes -> Nat \cup {Nil}] /\ ring[n] \in Rings /\ timers \in [Nodes -> SUBSET Nat]
      /\ generated \in [key : Nat, master : Nat, kek : Nat]
  BY <1>2, Parts DEF Shape, Active
<1>4. proc \in [Procs -> CallOf] /\ proc[p] \in CallOf
  BY CallType
<1>5. t \in Nat /\ k \in Nat /\ Opens(ring[n], <<t, k>>)
  BY <1>3, ActiveKeyOpens
<1>6. proc' = [proc EXCEPT ![p] = c]
  BY <1>1, <1>4 DEF WithActiveKey
<1> HIDE DEF t, k
<1>7. /\ c \in CallOf /\ c.node = n /\ c.pc = "putData" /\ c.op = proc[p].op
      /\ c.kek = proc[p].kek /\ c.term = t /\ c.key = k
  BY <1>4, <1>5 DEF CallOf
<1>8. proc'[p] = c
  BY <1>4, <1>6
<1>9. /\ role'[n] = "active" /\ ring' = ring /\ stored' = stored /\ unfinished' = unfinished
      /\ config' = config /\ keyring' = keyring
  BY <1>1, <1>2 DEF Active, nodeVars, storageVars, histVars
<1> HIDE DEF c, n
<1>10. CallRing(p)'
  BY <1>2, <1>5, <1>7, <1>8, <1>9 DEF CallRing, Writing, Active
<1>11. CallRekey(p)'
  <2>1. Rekeyed(p)' => Rekeyed(p)
    BY <1>1, <1>7, <1>8 DEF Rekeyed
  <2>2. /\ proc[p].op = "rekeyed" => config = proc[p].kek
        /\ proc[p].op = "rekey" => unfinished
        /\ proc[p].op \in Rekeying => stored.kek = proc[p].kek
        /\ Rekeyed(p) => stored.master = ring[n].master /\ stored.master = keyring.master
    BY <1>1, <1>2 DEF CallRekey, n
  <2>. QED  BY <1>7, <1>8, <1>9, <2>1, <2>2 DEF CallRekey, Writing
<1>. QED  BY <1>1, <1>3, <1>6, <1>7, <1>10, <1>11, MoveKeeps
          DEF storageVars, nodeVars, histVars, Writing

\* A call fails, or goes on without the upgrade key.
LEMMA PutFailsKeeps ==
    ASSUME IInv, NEW p \in Procs, PutFails(p) PROVE IInv'
<1> DEFINE n == proc[p].node
<1>1. /\ UNCHANGED <<storageVars, ring, role, rekey, generated, shares, unfinished, kept>>
      /\ proc[p].pc # "idle"
  BY DEF PutFails
<1>2. n \in Nodes /\ Active(n) /\ CallRekey(p)
  BY <1>1, Parts DEF CallRing
<1>3. /\ rekey \in [Nodes -> Nat \cup {Nil}] /\ timers \in [Nodes -> SUBSET Nat]
      /\ generated \in [key : Nat, master : Nat, kek : Nat]
  BY Parts DEF Shape
<1>4. proc \in [Procs -> CallOf] /\ proc[p] \in CallOf /\ proc[p].term \in Nat
  BY CallType
<1>5. CASE proc[p].pc # "upgrade"
  <2>1. proc' = [proc EXCEPT ![p] = Idle] /\ timers' = timers
    BY <1>5 DEF PutFails, At, Return
  <2>2. Idle \in CallOf /\ Idle.pc = "idle" /\ Idle.op = "none" /\ proc'[p] = Idle
    BY <1>4, <2>1 DEF Idle, CallOf
  <2>3. CallRing(p)'
    BY <2>2 DEF CallRing, Writing, Active
  <2>4. CallRekey(p)'
    BY <2>2 DEF CallRekey, Writing, Rekeying, Rekeyed
  <2>5. Idle.pc \notin Writing /\ Idle.op \notin Rekeying
    BY <2>2 DEF Writing, Rekeying
  <2>. QED  BY <1>1, <1>3, <2>1, <2>2, <2>3, <2>4, <2>5, MoveKeeps DEF storageVars
<1>6. CASE proc[p].pc = "upgrade"
  <2> DEFINE c == [proc[p] EXCEPT !.pc = "put"]
  <2>1. /\ proc' = [proc EXCEPT ![p].pc = "put"]
        /\ timers' = [timers EXCEPT ![n] = @ \cup {proc[p].term}]
    BY <1>6 DEF PutFails, At, Goto
  <2>2. proc' = [proc EXCEPT ![p] = c] /\ proc'[p] = c
    BY <1>4, <2>1
  <2>3. c \in CallOf /\ c.node = n /\ c.pc = "put" /\ c.op = proc[p].op /\ c.kek = proc[p].kek
    BY <1>4 DEF CallOf
  <2>4. timers' \in [Nodes -> SUBSET Nat] /\ \A m \in Nodes : timers[m] \subseteq timers'[m]
    BY <1>3, <1>4, <2>1
  <2>5. role'[n] = "active"
    BY <1>1, <1>2 DEF Active
  <2> HIDE DEF c, n
  <2>6. CallRing(p)'
    BY <1>2, <2>2, <2>3, <2>5 DEF CallRing, Writing, Active
  <2>7. CallRekey(p)'
    <3>1. /\ proc[p].op # "rekeyed"
          /\ proc[p].op = "rekey" => unfinished
          /\ proc[p].op \in Rekeying => stored.kek = proc[p].kek
      BY <1>2, <1>6 DEF CallRekey
    <3>2. proc[p].op # "rekey"
      BY <1>2, <1>6 DEF CallRekey
    <3>. QED  BY <1>1, <2>2, <2>3, <3>1, <3>2 DEF CallRekey, Writing, Rekeyed, Rekeying
  <2>8. c.pc \notin Writing
    BY <2>3 DEF Writing
  <2>. QED  BY <1>1, <1>3, <2>2, <2>3, <2>4, <2>6, <2>7, <2>8, MoveKeeps DEF storageVars
<1>. QED  BY <1>5, <1>6

\* CreateUpgrade puts the upgrade in place and schedules its destruction.
LEMMA CreateUpgradeKeeps ==
    ASSUME IInv, NEW p \in Procs, CreateUpgrade(p) PROVE IInv'
<1> DEFINE n == proc[p].node
           t == proc[p].term
           c == [proc[p] EXCEPT !.pc = "put"]
           u == [by |-> ring[n].keys[t], key |-> ring[n].keys[t + 1]]
<1>1. /\ proc[p].pc = "upgrade" /\ upgrade' = [upgrade EXCEPT ![t] = u]
      /\ timers' = [timers EXCEPT ![n] = @ \cup {t}]
      /\ proc' = [proc EXCEPT ![p].pc = "put"]
      /\ UNCHANGED <<keyring, masterKey, stored, config, written, ring, role, rekey, generated,
                     shares, histVars>>
  BY DEF CreateUpgrade, At, Goto
<1>2. /\ n \in Nodes /\ Active(n) /\ proc[p].op = "rotate" /\ t > 0 /\ t < Len(ring[n].keys)
  BY <1>1, Parts DEF CallRing, CallRekey
<1>3. /\ rekey \in [Nodes -> Nat \cup {Nil}] /\ ring[n] \in Rings /\ timers \in [Nodes -> SUBSET Nat]
      /\ generated \in [key : Nat, master : Nat, kek : Nat]
      /\ upgrade \in [Terms -> [by : Nat, key : Nat] \cup {Nil}]
  BY <1>2, Parts DEF Shape, Active
<1>4. proc \in [Procs -> CallOf] /\ proc[p] \in CallOf /\ t \in Nat
  BY CallType
<1>5. u \in [by : Nat, key : Nat]
  <2>0. ring[n].keys \in Seq(Nat) /\ Len(ring[n].keys) \in Nat
    BY <1>3 DEF Rings
  <2>1. t \in 1 .. Len(ring[n].keys) /\ t + 1 \in 1 .. Len(ring[n].keys)
    BY <1>2, <1>4, <2>0
  <2>2. ASSUME NEW s \in Seq(Nat), NEW i \in 1 .. Len(s) PROVE s[i] \in Nat
    BY <2>2
  <2>3. ring[n].keys[t] \in Nat /\ ring[n].keys[t + 1] \in Nat
    BY <2>0, <2>1, <2>2
  <2>. QED  BY <2>3
<1> HIDE DEF u
<1>6. /\ upgrade' \in [Terms -> [by : Nat, key : Nat] \cup {Nil}]
      /\ \A s \in Terms : s # t => upgrade'[s] = upgrade[s]
  BY <1>1, <1>3, <1>5
<1>7. /\ timers' \in [Nodes -> SUBSET Nat] /\ t \in timers'[n]
      /\ \A m \in Nodes : timers[m] \subseteq timers'[m]
  BY <1>1, <1>2, <1>3, <1>4
<1>8. proc' \in [Procs -> CallOf] /\ proc'[p] = c /\ \A q \in Procs : q # p => proc'[q] = proc[q]
  <2>1. c \in CallOf
    BY <1>4 DEF CallOf
  <2>2. proc' = [proc EXCEPT ![p] = c]
    BY <1>1, <1>4
  <2> HIDE DEF c
  <2>. QED  BY <1>4, <2>1, <2>2
<1>9. c.node = n /\ c.pc = "put" /\ c.op = "rotate" /\ c.kek = proc[p].kek
  BY <1>2, <1>4 DEF CallOf
<1> HIDE DEF c, n, t
<1>10. Shape'
  BY <1>1, <1>3, <1>6, <1>7, <1>8, Parts DEF Shape
<1>11. role'[n] = "active"
  BY <1>1, <1>2 DEF Active
<1>12. CallRing(p)'
  BY <1>2, <1>8, <1>9, <1>11 DEF CallRing, Writing, Active
<1>13. CallRekey(p)'
  BY <1>8, <1>9 DEF CallRekey, Writing, Rekeying, Rekeyed
<1>14. Calls'
  <2>1. OnlyCall(p)
    BY <1>8 DEF OnlyCall
  <2>2. proc'[p].pc \notin Writing /\ proc'[p].op \notin Rekeying
    BY <1>8, <1>9 DEF Writing, Rekeying
  <2>. QED  BY <1>1, <1>12, <1>13, <2>1, <2>2, CallMoves DEF histVars
<1>15. OneLeader' /\ ActiveRing'
  BY <1>1, Parts DEF OneLeader, ActiveRing, Active, histVars
<1>16. DataReadable' /\ Unsealable'
  BY <1>1, Parts DEF DataReadable, Unsealable, Unlocks, Active, histVars
<1>17. ActiveDestroys'
  <2>1. SUFFICES ASSUME NEW m \in Nodes, Active(m)', NEW s \in Terms \ kept, upgrade'[s] # Nil
                 PROVE  s \in timers'[m]
    BY <1>1 DEF ActiveDestroys, histVars
  <2>2. Active(m) /\ m = n
    BY <1>1, <1>2, <2>1, Parts DEF OneLeader, Active, Leading
  <2>3. CASE s = t
    BY <1>7, <2>2, <2>3
  <2>4. CASE s # t
    <3>1. s \in timers[m]
      BY <1>6, <2>1, <2>2, <2>4, Parts DEF ActiveDestroys
    <3>. QED  BY <1>7, <3>1
  <2>. QED  BY <2>3, <2>4
<1>. QED  BY <1>10, <1>14, <1>15, <1>16, <1>17 DEF IInv

-----------------------------------------------------------------------------
(* Steps of a call that write a key.                                       *)

\* The calls that are at work are on the one active node.
LEMMA SameNode ==
    ASSUME IInv, NEW p \in Procs, NEW q \in Procs, proc[p].pc # "idle", proc[q].pc # "idle"
    PROVE  proc[q].node = proc[p].node /\ proc[p].node \in Nodes /\ Active(proc[p].node)
<1>1. /\ proc[p].node \in Nodes /\ Active(proc[p].node)
      /\ proc[q].node \in Nodes /\ Active(proc[q].node)
  BY Parts DEF CallRing
<1>. QED  BY <1>1, Parts DEF OneLeader, Active, Leading

\* When one call rekeys, no other call does.
LEMMA OthersDoNot ==
    ASSUME IInv, NEW p \in Procs, NEW q \in Procs, q # p, proc[p].op \in Rekeying
    PROVE  proc[q].op \notin Rekeying
  BY Parts DEF RekeyAlone

\* One field of a call changes.
LEMMA CallAt ==
    ASSUME IInv, NEW p \in Procs, NEW c \in CallOf, proc' = [proc EXCEPT ![p] = c]
    PROVE  proc'[p] = c /\ proc' \in [Procs -> CallOf] /\ OnlyCall(p)
  BY CallType DEF OnlyCall

LEMMA SetStoredKeysKeeps ==
    ASSUME IInv, NEW p \in Procs, SetStoredKeys(p) PROVE IInv'
<1> DEFINE new == generated.master + 1
           c == [proc[p] EXCEPT !.pc = "rekey", !.key = new]
<1>1. /\ proc[p].pc = "storeKey" /\ generated' = [generated EXCEPT !.master = new]
      /\ stored' = [kek |-> proc[p].kek, master |-> new] /\ unfinished' = TRUE
      /\ proc' = [proc EXCEPT ![p].pc = "rekey", ![p].key = new]
      /\ UNCHANGED <<keyring, masterKey, upgrade, config, written, ring, role, rekey, timers,
                     shares, kept>>
  BY DEF SetStoredKeys, At, nodeVars
<1>2. proc[p].op = "rekey" /\ proc[p].node \in Nodes /\ Active(proc[p].node)
  BY <1>1, Parts DEF CallRing, CallRekey
<1>3. generated \in [key : Nat, master : Nat, kek : Nat]
  BY Parts DEF Shape
<1>4. new \in Nat /\ generated' \in [key : Nat, master : Nat, kek : Nat]
  BY <1>1, <1>3
<1> HIDE DEF new
<1>5. proc \in [Procs -> CallOf] /\ proc[p] \in CallOf
  BY CallType
<1>6. /\ c \in CallOf /\ c.node = proc[p].node /\ c.pc = "rekey" /\ c.op = "rekey"
      /\ c.kek = proc[p].kek /\ c.key = new
  BY <1>2, <1>4, <1>5 DEF CallOf
<1>7. proc' = [proc EXCEPT ![p] = c]
  BY <1>1, <1>5
<1> HIDE DEF c
<1>8. proc'[p] = c /\ proc' \in [Procs -> CallOf] /\ OnlyCall(p)
  BY <1>6, <1>7, CallAt
<1>9. Shape'
  BY <1>1, <1>4, <1>8, Parts DEF Shape
<1>10. ASSUME NEW q \in Procs PROVE CallRing(q)' /\ CallRekey(q)'
  <2>1. CASE q = p
    <3>1. CallRing(p)'
      BY <1>1, <1>2, <1>6, <1>8 DEF CallRing, Writing, Active
    <3>2. stored'.kek = c.kek /\ stored'.master = c.key
      BY <1>1, <1>6
    <3>3. CallRekey(p)'
      BY <1>1, <1>6, <1>8, <3>2 DEF CallRekey, Writing, Rekeyed, Rekeying
    <3>. QED  BY <2>1, <3>1, <3>3
  <2>2. CASE q # p
    <3>1. proc'[q] = proc[q]
      BY <1>8, <2>2 DEF OnlyCall
    <3>2. proc[q].op \notin Rekeying
      BY <1>2, <2>2, OthersDoNot DEF Rekeying
    <3>. QED  BY <1>1, <3>1, <3>2, CallRingSame, CallRekeyNone
  <2>. QED  BY <2>1, <2>2
<1>11. Calls'
  BY <1>2, <1>6, <1>8, <1>10, CallsMove DEF Writing, Rekeying
<1>12. OneLeader' /\ ActiveRing'
  BY <1>1, Parts DEF OneLeader, ActiveRing, Active
<1>13. DataReadable' /\ Unsealable'
  BY <1>1, Parts DEF DataReadable, Unsealable, Active
<1>14. ActiveDestroys'
  BY <1>1, Parts DEF ActiveDestroys, Active
<1>. QED  BY <1>9, <1>11, <1>12, <1>13, <1>14 DEF IInv

\* SetBarrierConfig: the shares the operators hold are those of the new key, or
\* the rekey has not finished.
LEMMA SetBarrierConfigKeeps ==
    ASSUME IInv, NEW p \in Procs, SetBarrierConfig(p) PROVE IInv'
<1> DEFINE n == proc[p].node
           c == [proc[p] EXCEPT !.pc = "put", !.op = "rekeyed"]
<1>1. /\ proc[p].pc = "config" /\ config' = proc[p].kek
      /\ unfinished' = (proc[p].kek \notin shares)
      /\ proc' = [proc EXCEPT ![p].pc = "put", ![p].op = "rekeyed"]
      /\ UNCHANGED <<keyring, masterKey, upgrade, stored, written, ring, role, rekey, timers,
                     generated, shares, kept>>
  BY DEF SetBarrierConfig, At, nodeVars
<1>2. n \in Nodes /\ Active(n) /\ proc[p].op = "rekey"
  BY <1>1, Parts DEF CallRing, CallRekey
<1>3. /\ stored.kek = proc[p].kek /\ stored.master = ring[n].master
      /\ stored.master = keyring.master
  BY <1>1, <1>2, Parts DEF CallRekey, Rekeyed, Rekeying
<1>4. proc \in [Procs -> CallOf] /\ proc[p] \in CallOf
  BY CallType
<1>5. c \in CallOf /\ c.node = n /\ c.pc = "put" /\ c.op = "rekeyed" /\ c.kek = proc[p].kek
  BY <1>4 DEF CallOf
<1>6. proc' = [proc EXCEPT ![p] = c]
  BY <1>1, <1>4
<1> HIDE DEF c
<1>7. proc'[p] = c /\ proc' \in [Procs -> CallOf] /\ OnlyCall(p)
  BY <1>5, <1>6, CallAt
<1>8. Shape'
  BY <1>1, <1>7, Parts DEF Shape
<1> HIDE DEF n
<1>9. ASSUME NEW q \in Procs PROVE CallRing(q)' /\ CallRekey(q)'
  <2>1. CASE q = p
    <3>1. CallRing(p)'
      BY <1>1, <1>2, <1>5, <1>7 DEF CallRing, Writing, Active
    <3>2. CallRekey(p)'
      BY <1>1, <1>3, <1>5, <1>7 DEF CallRekey, Writing, Rekeyed, Rekeying
    <3>. QED  BY <2>1, <3>1, <3>2
  <2>2. CASE q # p
    <3>1. proc'[q] = proc[q]
      BY <1>7, <2>2 DEF OnlyCall
    <3>2. proc[q].op \notin Rekeying
      BY <1>2, <2>2, OthersDoNot DEF Rekeying
    <3>. QED  BY <1>1, <3>1, <3>2, CallRingSame, CallRekeyNone
  <2>. QED  BY <2>1, <2>2
<1>10. Calls'
  BY <1>2, <1>5, <1>7, <1>9, CallsMove DEF Writing, Rekeying
<1>11. OneLeader'
  BY <1>1, Parts DEF OneLeader
<1>12. ActiveRing'
  <2>1. ASSUME NEW m \in Nodes, Active(m) PROVE Extends(keyring, ring[m]) /\ m = n
    BY <1>2, <2>1, Parts DEF OneLeader, ActiveRing, Active, Leading
  <2>. QED  BY <1>1, <1>3, <2>1 DEF ActiveRing, Active
<1>13. DataReadable'
  BY <1>1, Parts DEF DataReadable, Active
<1>14. Unsealable'
  BY <1>1, <1>3 DEF Unsealable, Unlocks
<1>15. ActiveDestroys'
  BY <1>1, Parts DEF ActiveDestroys, Active
<1>. QED  BY <1>8, <1>10, <1>11, <1>12, <1>13, <1>14, <1>15 DEF IInv

\* The keyring in storage becomes the one the call has made.
LEMMA PutKeyringKeeps ==
    ASSUME IInv, NEW p \in Procs, PutKeyring(p) PROVE IInv'
<1> DEFINE n == proc[p].node
           new == proc[p].new
           c == [proc[p] EXCEPT !.pc = "masterKey"]
<1>1. /\ proc[p].pc = "keyring" /\ keyring' = new
      /\ proc' = [proc EXCEPT ![p].pc = "masterKey"]
      /\ UNCHANGED <<masterKey, upgrade, stored, config, written, ring, role, rekey, timers,
                     generated, shares, unfinished, kept>>
  BY DEF PutKeyring, At, Goto, nodeVars, histVars
<1>2. /\ n \in Nodes /\ Active(n) /\ new \in Rings /\ Extends(new, ring[n])
      /\ proc[p].op # "rekey" => new.master = ring[n].master
      /\ proc[p].op = "rotate" => Len(new.keys) > 1
  BY <1>1, Parts DEF CallRing, Writing
<1>3. /\ proc[p].op # "rekeyed"
      /\ proc[p].op = "rekey" => /\ unfinished /\ stored.kek = proc[p].kek
                                 /\ stored.master = new.master
  BY <1>1, Parts DEF CallRekey, Writing, Rekeying
<1>4. proc \in [Procs -> CallOf] /\ proc[p] \in CallOf
  BY CallType
<1>5. /\ c \in CallOf /\ c.node = n /\ c.pc = "masterKey" /\ c.op = proc[p].op
      /\ c.kek = proc[p].kek /\ c.new = new
  BY <1>4 DEF CallOf
<1>6. proc' = [proc EXCEPT ![p] = c]
  BY <1>1, <1>4
<1> HIDE DEF c
<1>7. proc'[p] = c /\ proc' \in [Procs -> CallOf] /\ OnlyCall(p)
  BY <1>5, <1>6, CallAt
<1>8. Shape'
  BY <1>1, <1>2, <1>7, Parts DEF Shape
<1> HIDE DEF n, new
<1>9. ASSUME NEW q \in Procs PROVE CallRing(q)' /\ CallRekey(q)'
  <2>1. CASE q = p
    <3>1. CallRing(p)'
      BY <1>1, <1>2, <1>5, <1>7 DEF CallRing, Writing, Active
    <3>2. CallRekey(p)'
      BY <1>1, <1>3, <1>5, <1>7 DEF CallRekey, Writing, Rekeyed, Rekeying
    <3>. QED  BY <2>1, <3>1, <3>2
  <2>2. CASE q # p
    <3>1. proc'[q] = proc[q]
      BY <1>7, <2>2 DEF OnlyCall
    <3>2. proc[q].pc \notin Writing
      BY <1>1, <2>2, Parts DEF LockAlone, Writing
    <3>3. CallRing(q)'
      BY <1>1, <3>1, <3>2, CallRingSame DEF Writing
    <3>4. Rekeyed(q) => keyring'.master = keyring.master
      <4>1. SUFFICES ASSUME Rekeyed(q) PROVE keyring'.master = keyring.master
        OBVIOUS
      <4>2. proc[q].op \in Rekeying /\ proc[q].pc # "idle"
        BY <4>1, Parts DEF Rekeyed, Rekeying, CallRekey
      <4>3. proc[p].op # "rekey"
        BY <2>2, <4>2, Parts DEF RekeyAlone, Rekeying
      <4>4. proc[q].node = n
        BY <1>1, <4>2, SameNode DEF n
      <4>5. stored.master = ring[n].master /\ stored.master = keyring.master
        BY <4>1, <4>4, Parts DEF CallRekey
      <4>. QED  BY <1>1, <1>2, <4>3, <4>5
    <3>5. CallRekey(q)'
      BY <1>1, <3>1, <3>4, CallRekeySame
    <3>. QED  BY <3>3, <3>5
  <2>. QED  BY <2>1, <2>2
<1>10. Calls'
  BY <1>1, <1>5, <1>7, <1>9, CallsMove DEF Writing
<1>11. OneLeader' /\ ActiveDestroys'
  BY <1>1, Parts DEF OneLeader, ActiveDestroys, Active
<1>12. \A m \in Nodes : Active(m)' => m = n
  BY <1>1, <1>2, Parts DEF OneLeader, Active, Leading
<1>13. ActiveRing'
  BY <1>1, <1>2, <1>3, <1>12 DEF ActiveRing
<1>14. DataReadable'
  <2>1. ring[n] \in Rings
    BY <1>2, Parts DEF Shape, Active
  <2>2. ASSUME NEW d \in written PROVE Opens(ring[n], d) /\ Opens(new, d)
    <3>1. Opens(ring[n], d)
      BY <1>2, Parts DEF DataReadable
    <3>. QED  BY <1>2, <2>1, <3>1, ExtendsOpens
  <2>. QED  BY <1>1, <1>12, <2>2 DEF DataReadable
<1>15. Unsealable'
  <2>1. ~unfinished => new.master = keyring.master
    BY <1>2, <1>3, Parts DEF ActiveRing
  <2>. QED  BY <1>1, <2>1, Parts DEF Unsealable, Unlocks
<1>. QED  BY <1>8, <1>10, <1>11, <1>13, <1>14, <1>15 DEF IInv

\* A call that did not move, while the keyring of its node grows, and gets
\* another master key only when it does not rekey.
LEMMA CallGrows ==
    ASSUME IInv, NEW q \in Procs, NEW n \in Nodes, NEW new \in Rings,
           Active(n), Extends(new, ring[n]), proc'[q] = proc[q], proc[q].pc \notin Writing,
           proc[q].pc # "idle" => proc[q].node = n,
           role' = role, ring' = [ring EXCEPT ![n] = new],
           UNCHANGED <<keyring, stored, config, unfinished>>,
           proc[q].op \in Rekeying => new.master = ring[n].master
    PROVE  CallRing(q)' /\ CallRekey(q)'
<1>1. ring \in [Nodes -> Rings \cup {Nil}] /\ ring[n] \in Rings
  BY Parts DEF Shape, Active
<1>2. ring'[n] = new
  BY <1>1
<1>3. Len(ring[n].keys) \in Nat /\ Len(new.keys) \in Nat /\ Len(ring[n].keys) <= Len(new.keys)
  BY <1>1 DEF Rings, Extends
<1>4. proc[q].term \in Nat
  BY CallType
<1>5. CASE proc[q].pc = "idle"
  <2>1. proc[q].op = "none"
    BY <1>5, Parts DEF CallRekey
  <2>2. CallRing(q)'
    BY <1>5 DEF CallRing, Writing
  <2>3. CallRekey(q)'
    BY <1>5, <2>1 DEF CallRekey, Writing, Rekeying, Rekeyed
  <2>. QED  BY <2>2, <2>3
<1>6. CASE proc[q].pc # "idle"
  <2>1. proc[q].node = n /\ CallRing(q)
    BY <1>6, Parts
  <2>2. proc[q].pc = "upgrade" => proc[q].term > 0 /\ proc[q].term < Len(new.keys)
    BY <1>3, <1>4, <2>1 DEF CallRing
  <2>3. proc[q].pc = "putData" => Opens(new, <<proc[q].term, proc[q].key>>)
    BY <1>1, <2>1, ExtendsOpens DEF CallRing
  <2>4. CallRing(q)'
    BY <1>2, <2>1, <2>2, <2>3 DEF CallRing, Writing, Active
  <2>5. Rekeyed(q) => proc[q].op \in Rekeying
    BY DEF Rekeyed, Rekeying
  <2>6. CallRekey(q)'
    BY <1>2, <2>1, <2>5, CallRekeySame
  <2>. QED  BY <2>4, <2>6
<1>. QED  BY <1>5, <1>6

\* The caller of persistKeyring swaps the keyrings: the node has again the one
\* that is in storage.
LEMMA PutMasterKeyKeeps ==
    ASSUME IInv, NEW p \in Procs, PutMasterKey(p) PROVE IInv'
<1> DEFINE n == proc[p].node
           new == proc[p].new
<1>1. /\ proc[p].pc = "masterKey"
      /\ masterKey' = [term |-> activeTerm(new), key |-> ActiveKey(new), master |-> new.master]
      /\ ring' = [ring EXCEPT ![n] = new]
      /\ UNCHANGED <<keyring, upgrade, stored, config, written, role, rekey, timers, generated,
                     shares, unfinished, kept>>
  BY DEF PutMasterKey, At
<1>2. /\ n \in Nodes /\ Active(n) /\ new \in Rings /\ Extends(new, ring[n]) /\ keyring = new
      /\ proc[p].op # "rekey" => new.master = ring[n].master
      /\ proc[p].op = "rotate" => Len(new.keys) > 1
  BY <1>1, Parts DEF CallRing, Writing
<1>3. /\ proc[p].op # "rekeyed"
      /\ proc[p].op = "rekey" => /\ unfinished /\ stored.kek = proc[p].kek
                                 /\ stored.master = new.master
  BY <1>1, Parts DEF CallRekey, Writing, Rekeying
<1>4. proc \in [Procs -> CallOf] /\ proc[p] \in CallOf /\ ring \in [Nodes -> Rings \cup {Nil}]
  BY CallType, Parts DEF Shape
<1>5. /\ ring' \in [Nodes -> Rings \cup {Nil}] /\ ring'[n] = new
      /\ \A m \in Nodes : m # n => ring'[m] = ring[m]
  BY <1>1, <1>2, <1>4
<1>6. masterKey' \in [term : Nat, key : Nat, master : Nat]
  <2>1. activeTerm(new) \in Nat /\ ActiveKey(new) \in Nat
    BY <1>2, ActiveKeyOpens
  <2>2. new.master \in Nat
    BY <1>2 DEF Rings
  <2>. QED  BY <1>1, <2>1, <2>2
<1>7. PICK c \in CallOf :
        /\ proc' = [proc EXCEPT ![p] = c]
        /\ \/ c.pc = "idle" /\ c.op = "none"
           \/ /\ c.pc = "upgrade" /\ c.op = "rotate" /\ c.node = n
              /\ c.term > 0 /\ c.term < Len(new.keys)
           \/ /\ proc[p].op = "rekey" /\ c.pc = "put" /\ c.op = "rekey" /\ c.node = n
              /\ c.kek = proc[p].kek
  <2>1. CASE proc[p].op = "rotate"
    <3> DEFINE t == activeTerm(new) - 1
               c == [proc[p] EXCEPT !.pc = "upgrade", !.new = Nil, !.term = t]
    <3>1. proc' = [proc EXCEPT ![p].pc = "upgrade", ![p].new = Nil, ![p].term = t]
      BY <2>1 DEF PutMasterKey
    <3>2. t \in Nat /\ t > 0 /\ t < Len(new.keys)
      BY <1>2, <2>1 DEF activeTerm, Rings
    <3> HIDE DEF t
    <3>3. proc' = [proc EXCEPT ![p] = c]
      BY <1>4, <3>1
    <3>4. c \in CallOf /\ c.pc = "upgrade" /\ c.op = "rotate" /\ c.node = n /\ c.term = t
      BY <1>4, <2>1, <3>2 DEF CallOf
    <3> HIDE DEF c, n, new
    <3>. QED  BY <3>2, <3>3, <3>4
  <2>2. CASE proc[p].op = "rekey"
    <3> DEFINE c == [proc[p] EXCEPT !.pc = "put", !.new = Nil, !.key = 0]
    <3>1. proc' = [proc EXCEPT ![p].pc = "put", ![p].new = Nil, ![p].key = 0]
      BY <2>2 DEF PutMasterKey
    <3>2. proc' = [proc EXCEPT ![p] = c]
      BY <1>4, <3>1
    <3>3. c \in CallOf /\ c.pc = "put" /\ c.op = "rekey" /\ c.node = n /\ c.kek = proc[p].kek
      BY <1>4, <2>2 DEF CallOf
    <3> HIDE DEF c, n, new
    <3>. QED  BY <2>2, <3>2, <3>3
  <2>3. CASE proc[p].op \notin {"rotate", "rekey"}
    <3>1. proc' = [proc EXCEPT ![p] = Idle]
      BY <2>3 DEF PutMasterKey, Return
    <3>2. Idle \in CallOf /\ Idle.pc = "idle" /\ Idle.op = "none"
      BY DEF Idle, CallOf
    <3>. QED  BY <3>1, <3>2
  <2>. QED  BY <2>1, <2>2, <2>3
<1>8. proc'[p] = c /\ proc' \in [Procs -> CallOf] /\ OnlyCall(p)
  BY <1>7, CallAt
<1>9. Shape'
  <2>1. \A m \in Nodes : role'[m] # "sealed" => ring'[m] \in Rings
    BY <1>1, <1>2, <1>5, Parts DEF Shape
  <2>. QED  BY <1>1, <1>5, <1>6, <1>8, <2>1, Parts DEF Shape
<1> HIDE DEF n, new
<1>10. ASSUME NEW q \in Procs PROVE CallRing(q)' /\ CallRekey(q)'
  <2>1. CASE q = p
    <3>1. CallRing(p)'
      BY <1>1, <1>2, <1>5, <1>7, <1>8 DEF CallRing, Writing, Active
    <3>2. CallRekey(p)'
      BY <1>1, <1>2, <1>3, <1>5, <1>7, <1>8 DEF CallRekey, Writing, Rekeyed, Rekeying
    <3>. QED  BY <2>1, <3>1, <3>2
  <2>2. CASE q # p
    <3>1. proc'[q] = proc[q]
      BY <1>8, <2>2 DEF OnlyCall
    <3>2. proc[q].pc \notin Writing
      BY <1>1, <2>2, Parts DEF LockAlone, Writing
    <3>3. proc[q].pc # "idle" => proc[q].node = n
      BY <1>1, SameNode DEF n
    <3>4. proc[q].op \in Rekeying => new.master = ring[n].master
      BY <1>2, <2>2, OthersDoNot DEF Rekeying
    <3>. QED  BY <1>1, <1>2, <3>1, <3>2, <3>3, <3>4, CallGrows
  <2>. QED  BY <2>1, <2>2
<1>11. Calls'
  BY <1>7, <1>8, <1>10, CallsMove DEF Writing, Rekeying
<1>12. OneLeader' /\ ActiveDestroys'
  BY <1>1, Parts DEF OneLeader, ActiveDestroys, Active
<1>13. \A m \in Nodes : Active(m)' => m = n
  BY <1>1, <1>2, Parts DEF OneLeader, Active, Leading
<1>14. ActiveRing'
  BY <1>1, <1>2, <1>5, <1>13, ExtendsSelf DEF ActiveRing
<1>15. DataReadable'
  BY <1>1, <1>2, <1>5, <1>13, Parts DEF DataReadable
<1>16. Unsealable'
  BY <1>1, Parts DEF Unsealable, Unlocks
<1>. QED  BY <1>9, <1>11, <1>12, <1>14, <1>15, <1>16 DEF IInv

\* An entry is written with a key that was the active one, and the last write
\* of a rekey gives the operators their shares.
LEMMA PutDataKeeps ==
    ASSUME IInv, NEW p \in Procs, PutData(p) PROVE IInv'
<1> DEFINE n == proc[p].node
           d == <<proc[p].term, proc[p].key>>
<1>1. /\ proc[p].pc = "putData" /\ written' = written \cup {d}
      /\ UNCHANGED <<keyring, masterKey, upgrade, stored, config, ring, role, timers,
                     generated, kept>>
  BY DEF PutData, At
<1>2. n \in Nodes /\ Active(n) /\ Opens(ring[n], d)
  BY <1>1, Parts DEF CallRing
<1>3. /\ Rekeyed(p) => stored.master = ring[n].master /\ stored.master = keyring.master
      /\ proc[p].op \in Rekeying => stored.kek = proc[p].kek
      /\ proc[p].op = "rekeyed" => config = proc[p].kek
      /\ proc[p].op = "rekey" => unfinished
      /\ proc[p].op \in Rekeying => Rekeyed(p)
  BY <1>1, Parts DEF CallRekey, Rekeyed, Rekeying
<1>4. /\ proc \in [Procs -> CallOf] /\ proc[p] \in CallOf /\ rekey \in [Nodes -> Nat \cup {Nil}]
      /\ keyring \in Rings /\ ring[n] \in Rings
  BY <1>2, CallType, Parts DEF Shape, Active
<1>5. PICK c \in CallOf :
        /\ proc' = [proc EXCEPT ![p] = c]
        /\ \/ /\ c.pc = "idle" /\ c.op = "none"
              /\ \/ /\ proc[p].op = "rekeyed" /\ unfinished' = FALSE
                    /\ shares' = shares \cup {proc[p].kek}
                 \/ proc[p].op \notin Rekeying /\ UNCHANGED <<shares, unfinished>>
           \/ /\ proc[p].op = "rekey" /\ c.pc = "config" /\ c.op = "rekey" /\ c.node = n
              /\ c.kek = proc[p].kek /\ UNCHANGED <<shares, unfinished>>
  <2>1. CASE proc[p].op = "rekey"
    <3> DEFINE c == [proc[p] EXCEPT !.pc = "config", !.term = 0, !.key = 0]
    <3>1. /\ proc' = [proc EXCEPT ![p].pc = "config", ![p].term = 0, ![p].key = 0]
          /\ UNCHANGED <<shares, unfinished>>
      BY <2>1 DEF PutData
    <3>2. proc' = [proc EXCEPT ![p] = c]
      BY <1>4, <3>1
    <3>3. c \in CallOf /\ c.pc = "config" /\ c.op = "rekey" /\ c.node = n /\ c.kek = proc[p].kek
      BY <1>4, <2>1 DEF CallOf
    <3> HIDE DEF c, n
    <3>. QED  BY <2>1, <3>1, <3>2, <3>3
  <2>2. Idle \in CallOf /\ Idle.pc = "idle" /\ Idle.op = "none"
    BY DEF Idle, CallOf
  <2>3. CASE proc[p].op = "rekeyed"
    <3>1. /\ proc' = [proc EXCEPT ![p] = Idle] /\ unfinished' = FALSE
          /\ shares' = shares \cup {proc[p].kek}
      BY <2>3 DEF PutData, Return
    <3>. QED  BY <2>2, <2>3, <3>1
  <2>4. CASE proc[p].op \notin {"rekey", "rekeyed"}
    <3>1. proc' = [proc EXCEPT ![p] = Idle] /\ UNCHANGED <<shares, unfinished>>
      BY <2>4 DEF PutData, Return
    <3>. QED  BY <2>2, <2>4, <3>1 DEF Rekeying
  <2>. QED  BY <2>1, <2>3, <2>4
<1>6. proc'[p] = c /\ proc' \in [Procs -> CallOf] /\ OnlyCall(p)
  BY <1>5, CallAt
<1>7. rekey' \in [Nodes -> Nat \cup {Nil}]
  <2>1. PICK v \in Nat \cup {Nil} : rekey' = [rekey EXCEPT ![n] = v] \/ rekey' = rekey
    BY DEF PutData, NoKey
  <2> HIDE DEF n
  <2>. QED  BY <1>4, <2>1
<1>8. Shape'
  BY <1>1, <1>6, <1>7, Parts DEF Shape
<1> HIDE DEF n, d
<1>9. ASSUME NEW q \in Procs PROVE CallRing(q)' /\ CallRekey(q)'
  <2>1. CASE q = p
    <3>1. CallRing(p)'
      BY <1>1, <1>2, <1>5, <1>6 DEF CallRing, Writing, Active
    <3>2. CallRekey(p)'
      BY <1>1, <1>3, <1>5, <1>6 DEF CallRekey, Writing, Rekeyed, Rekeying
    <3>. QED  BY <2>1, <3>1, <3>2
  <2>2. CASE q # p
    <3>1. proc'[q] = proc[q]
      BY <1>6, <2>2 DEF OnlyCall
    <3>2. CallRing(q)'
      BY <1>1, <3>1, CallRingSame
    <3>3. CASE proc[p].op \in Rekeying
      BY <2>2, <3>1, <3>2, <3>3, OthersDoNot, CallRekeyNone
    <3>4. CASE proc[p].op \notin Rekeying
      <4>1. unfinished' = unfinished
        BY <1>5, <3>4 DEF Rekeying
      <4>. QED  BY <1>1, <3>1, <3>2, <4>1, CallRekeySame
    <3>. QED  BY <3>3, <3>4
  <2>. QED  BY <2>1, <2>2
<1>10. Calls'
  BY <1>5, <1>6, <1>9, CallsMove DEF Writing, Rekeying
<1>11. OneLeader' /\ ActiveDestroys'
  BY <1>1, Parts DEF OneLeader, ActiveDestroys, Active
<1>12. \A m \in Nodes : Active(m)' => m = n
  BY <1>1, <1>2, Parts DEF OneLeader, Active, Leading
<1>13. Extends(keyring, ring[n]) /\ (~unfinished' => keyring.master = ring[n].master)
  <2>1. Extends(keyring, ring[n]) /\ (~unfinished => keyring.master = ring[n].master)
    BY <1>2, Parts DEF ActiveRing
  <2>. QED  BY <1>3, <1>5, <2>1 DEF Rekeying
<1>14. ActiveRing'
  BY <1>1, <1>12, <1>13 DEF ActiveRing
<1>15. DataReadable'
  <2>1. Opens(keyring, d)
    BY <1>2, <1>4, <1>13, ExtendsOpens
  <2>2. \A e \in written : Opens(keyring, e) /\ Opens(ring[n], e)
    BY <1>2, Parts DEF DataReadable
  <2>. QED  BY <1>1, <1>2, <1>12, <2>1, <2>2 DEF DataReadable
<1>16. Unsealable'
  <2>1. CASE proc[p].op = "rekeyed"
    <3>1. /\ proc[p].kek \in shares' /\ config = proc[p].kek /\ stored.kek = proc[p].kek
          /\ stored.master = keyring.master
      BY <1>3, <1>5, <2>1 DEF Rekeying
    <3>. QED  BY <1>1, <3>1 DEF Unsealable, Unlocks
  <2>2. CASE proc[p].op # "rekeyed"
    BY <1>1, <1>5, <2>2, Parts DEF Unsealable, Unlocks
  <2>. QED  BY <2>1, <2>2
<1>. QED  BY <1>8, <1>10, <1>11, <1>14, <1>15, <1>16 DEF IInv

LEMMA CallKeeps ==
    ASSUME IInv, NEW p \in Procs, CallStep(p) PROVE IInv'
  BY SetStoredKeysKeeps, RekeyKeeps, PutKeyringKeeps, PutMasterKeyKeeps, CreateUpgradeKeeps,
     PutAfterwardsKeeps, PutDataKeeps, SetBarrierConfigKeeps, PutFailsKeeps DEF CallStep

-----------------------------------------------------------------------------
(* The theorems.                                                           *)

LEMMA InitIInv == Init => IInv
<1> SUFFICES ASSUME Init PROVE IInv
  OBVIOUS
<1> DEFINE first == [master |-> 1, keys |-> <<1>>]
<1>1. /\ keyring = first /\ ring = [n \in Nodes |-> first] /\ written = {<<1, 1>>}
      /\ role = [n \in Nodes |-> "standby"] /\ proc = [p \in Procs |-> Idle]
      /\ stored = [kek |-> 1, master |-> 1] /\ config = 1 /\ shares = {1}
      /\ masterKey = [term |-> 1, key |-> 1, master |-> 1]
      /\ upgrade = [t \in Terms |-> Nil] /\ rekey = [n \in Nodes |-> Nil]
      /\ timers = [n \in Nodes |-> {}] /\ generated = [key |-> 1, master |-> 1, kek |-> 1]
  BY DEF Init
<1>2. first \in Rings /\ Opens(first, <<1, 1>>) /\ first.master = 1
  <2>1. <<1>> \in Seq(Nat) /\ Len(<<1>>) = 1 /\ DOMAIN <<1>> = 1 .. 1 /\ <<1>>[1] = 1
    OBVIOUS
  <2>. QED  BY <2>1 DEF Rings, Opens
<1> HIDE DEF first
<1>3. Idle \in CallOf /\ Idle.pc = "idle" /\ Idle.op = "none"
  BY DEF Idle, CallOf
<1>4. Shape
  BY <1>1, <1>2, <1>3 DEF Shape, Roles
<1>5. \A n \in Nodes : role[n] \notin Leading /\ ~Active(n)
  BY <1>1 DEF Leading, Active
<1>6. OneLeader /\ ActiveRing /\ ActiveDestroys
  BY <1>5 DEF OneLeader, ActiveRing, ActiveDestroys
<1>7. \A p \in Procs : proc[p].pc = "idle" /\ proc[p].op = "none"
  BY <1>1, <1>3
<1>8. \A p \in Procs : CallRing(p) /\ CallRekey(p)
  BY <1>7, IdleCall
<1>9. LockAlone /\ RekeyAlone
  BY <1>7 DEF LockAlone, RekeyAlone, Writing, Rekeying
<1>10. DataReadable
  BY <1>1, <1>2, <1>5 DEF DataReadable
<1>11. Unsealable
  BY <1>1, <1>2 DEF Unsealable, Unlocks
<1>. QED  BY <1>4, <1>6, <1>8, <1>9, <1>10, <1>11 DEF IInv, Calls

LEMMA StutterIInv == IInv /\ UNCHANGED vars => IInv'
<1> SUFFICES ASSUME IInv, UNCHANGED vars PROVE IInv'
  OBVIOUS
<1>1. UNCHANGED <<keyring, masterKey, upgrade, stored, config, written, ring, role, rekey,
                  timers, proc, generated, shares, unfinished, kept>>
  BY DEF vars, storageVars, nodeVars, histVars
<1>2. Shape'
  BY <1>1, Parts DEF Shape
<1>3. Calls'
  BY <1>1, CallsSame
<1>. QED  BY <1>1, <1>2, <1>3, RestSame DEF IInv

LEMMA NextIInv == IInv /\ [Next]_vars => IInv'
<1> SUFFICES ASSUME IInv, [Next]_vars PROVE IInv'
  OBVIOUS
<1>1. CASE Next
  BY <1>1, NodeKeeps, CallKeeps, RotateKeeps, PersistEncryptionsKeeps, PutKeeps,
     RekeyVerifyKeeps, BarrierRekeyUpdateKeeps DEF Next
<1>2. CASE UNCHANGED vars
  BY <1>2, StutterIInv
<1>. QED  BY <1>1, <1>2

\* The inductive invariant of rotations, rekeys, upgrades and takeovers, whatever
\* writes fail and nodes crash.
THEOREM KeyringInvariant == Spec => []IInv
  BY InitIInv, NextIInv, PTL DEF Spec

\* What was written through the barrier is opened by the keyring in storage and
\* by the keyring of the active node, whoever rotates, rekeys or takes over, and
\* wherever a write fails or a node crashes between the writes of persistKeyring.
THEOREM DataSafety == Spec => []DataReadable
<1>1. IInv => DataReadable
  BY DEF IInv
<1>. QED  BY <1>1, KeyringInvariant, PTL

\* The shares the operators hold open the stored master key, and that opens the
\* keyring, except while a rekey has begun to write and has not finished.
THEOREM UnsealSafety == Spec => []Unsealable
<1>1. IInv => Unsealable
  BY DEF IInv
<1>. QED  BY <1>1, KeyringInvariant, PTL

\* An upgrade key in storage has a timer that is going to destroy it, or there is
\* no active node and the next one will schedule it, unless a deletion failed.
THEOREM UpgradeSafety == Spec => []UpgradeWillGo
<1>1. IInv => UpgradeWillGo
  BY DEF IInv, ActiveDestroys, UpgradeWillGo
<1>. QED  BY <1>1, KeyringInvariant, PTL

-----------------------------------------------------------------------------
(* What a takeover rests on: facts for use by name.                        *)

LEMMA TakeParts ==
    ASSUME TakeInv
    PROVE  /\ mishaps \in Nat /\ torn \in BOOLEAN /\ KeyBound /\ NewKeys /\ MasterKeyRead /\ UpgradeKeys
           /\ Followers /\ CheckedUpgrades /\ Reloaded
  BY DEF TakeInv

\* A keyring has keys.
LEMMA RingLen ==
    ASSUME NEW r \in Rings
    PROVE  Len(r.keys) \in Nat /\ Len(r.keys) > 0 /\ DOMAIN r.keys = 1 .. Len(r.keys)
  BY DEF Rings

LEMMA ExtendsTrans ==
    ASSUME NEW q \in Rings, NEW r \in Rings, NEW s \in Rings, Extends(s, r), Extends(r, q)
    PROVE  Extends(s, q)
<1>1. Len(q.keys) \in Nat /\ Len(r.keys) \in Nat /\ Len(s.keys) \in Nat
  BY RingLen
<1>2. Len(q.keys) <= Len(r.keys) /\ Len(r.keys) <= Len(s.keys)
  BY DEF Extends
<1>3. ASSUME NEW t \in 1 .. Len(q.keys) PROVE s.keys[t] = q.keys[t]
  <2>1. t \in 1 .. Len(r.keys)
    BY <1>1, <1>2
  <2>. QED  BY <2>1 DEF Extends
<1>. QED  BY <1>1, <1>2, <1>3 DEF Extends

\* Opens, for the text of the master key.
LEMMA OpensMaster ==
    ASSUME NEW r \in Rings, Opens(r, MasterText)
    PROVE  masterKey.term \in 1 .. Len(r.keys) /\ r.keys[masterKey.term] = masterKey.key
<1>1. MasterText[1] = masterKey.term /\ MasterText[2] = masterKey.key
  BY DEF MasterText
<1>. QED  BY <1>1, RingLen DEF Opens

\* The terms of the keys.
LEMMA Numbers ==
    ASSUME IInv, TakeInv
    PROVE  /\ keyring \in Rings /\ Len(keyring.keys) \in 1 .. MaxKeys /\ MaxKeys \in Nat
           /\ generated.key \in Nat /\ generated.key <= MaxKeys /\ Len(keyring.keys) <= generated.key
           /\ masterKey.term \in 1 .. Len(keyring.keys) /\ masterKey.term \in Terms
           /\ keyring.keys[masterKey.term] = masterKey.key
<1>1. keyring \in Rings /\ generated.key \in Nat
  BY Parts DEF Shape
<1>2. MaxKeys \in Nat
  BY KeyringAssumption
<1>3. generated.key <= MaxKeys /\ Len(keyring.keys) <= generated.key
  BY TakeParts DEF KeyBound
<1>4. Len(keyring.keys) \in Nat /\ Len(keyring.keys) > 0
  BY <1>1, RingLen
<1>5. masterKey.term \in 1 .. Len(keyring.keys) /\ keyring.keys[masterKey.term] = masterKey.key
  BY <1>1, OpensMaster, TakeParts DEF MasterKeyRead
<1>. QED  BY <1>1, <1>2, <1>3, <1>4, <1>5 DEF Terms

\* The keyring of the active node.
LEMMA ActiveNumbers ==
    ASSUME IInv, TakeInv, NEW m \in Nodes, Active(m)
    PROVE  /\ ring[m] \in Rings /\ Extends(keyring, ring[m])
           /\ Len(ring[m].keys) \in Nat /\ Len(ring[m].keys) <= Len(keyring.keys)
           /\ masterKey.term \in 1 .. Len(ring[m].keys)
           /\ ring[m].keys[masterKey.term] = masterKey.key
<1>1. ring[m] \in Rings /\ Extends(keyring, ring[m])
  BY Parts DEF Shape, Active, ActiveRing
<1>2. masterKey.term \in 1 .. Len(ring[m].keys) /\ ring[m].keys[masterKey.term] = masterKey.key
  BY <1>1, OpensMaster, TakeParts DEF MasterKeyRead
<1>. QED  BY <1>1, <1>2, RingLen DEF Extends

\* The call that creates an upgrade.
LEMMA PendingNumbers ==
    ASSUME IInv, TakeInv, NEW p \in Procs, At(p, "upgrade")
    PROVE  proc[p].term \in Terms /\ proc[p].term < masterKey.term
<1>1. proc[p].term \in Nat /\ proc[p].term > 0
  BY CallType, Parts DEF CallRing, At
<1>2. proc[p].term < masterKey.term
  BY TakeParts DEF UpgradeKeys
<1>. QED  BY <1>1, <1>2, Numbers DEF Terms

\* Where a call is that writes, and what it writes.
LEMMA WritingCall ==
    ASSUME IInv, TakeInv, NEW p \in Procs, proc[p].pc \in Writing
    PROVE  /\ proc[p].new \in Rings /\ proc[p].node \in Nodes /\ Active(proc[p].node)
           /\ Extends(proc[p].new, ring[proc[p].node])
           /\ Len(proc[p].new.keys) \in Nat /\ Len(proc[p].new.keys) <= generated.key
<1>1. /\ proc[p].new \in Rings /\ proc[p].node \in Nodes /\ Active(proc[p].node)
      /\ Extends(proc[p].new, ring[proc[p].node])
  BY Parts DEF CallRing, Writing
<1>. QED  BY <1>1, RingLen, TakeParts DEF KeyBound

\* A node that was left alone, while no node became active.
LEMMA FollowerSame ==
    ASSUME NEW n \in Nodes, Follower(n), UNCHANGED <<keyring, masterKey, upgrade, torn>>,
           role'[n] = role[n], ring'[n] = ring[n], n \in suspect => n \in suspect',
           Writers' = Writers, \A t \in Terms : Pending(t)' <=> Pending(t),
           \A m \in Nodes : Active(m)' => Active(m) /\ ring'[m] = ring[m],
           \A t \in Terms : n \in checked'[t] => n \in checked[t]
    PROVE  Follower(n)'
<1> SUFFICES ASSUME role[n] # "sealed", n \notin suspect, Behind(n), Chained(n), CaughtUp(n)
             PROVE  Behind(n)' /\ Chained(n)' /\ CaughtUp(n)'
  BY DEF Follower
<1>1. Behind(n)'
  BY DEF Behind
<1>2. Chained(n)'
  BY DEF Chained
<1>3. CaughtUp(n)'
  BY DEF CaughtUp
<1>. QED  BY <1>1, <1>2, <1>3

\* A call moves that neither was nor is between the writes of persistKeyring or
\* about to create an upgrade.
LEMMA CallTake ==
    ASSUME IInv, TakeInv, NEW p \in Procs,
           \A q \in Procs : q # p => proc'[q] = proc[q],
           UNCHANGED <<keyring, masterKey, upgrade, ring, role, checked, suspect, torn>>,
           mishaps' \in Nat,
           proc[p].pc \notin {"masterKey", "upgrade"}, proc'[p].pc \notin {"masterKey", "upgrade"},
           generated'.key \in Nat, generated.key <= generated'.key, generated'.key <= MaxKeys,
           proc'[p].pc \in Writing => /\ Len(proc'[p].new.keys) <= generated'.key
                                      /\ Len(proc'[p].new.keys) = NewLen(proc'[p])
    PROVE  TakeInv'
<1>1. Writers' = Writers
  BY DEF Writers, At
<1>2. \A t \in Terms : Pending(t)' <=> Pending(t)
  BY DEF Pending, At
<1>3. KeyBound'
  <2>1. Len(keyring.keys) <= generated'.key
    BY Numbers
  <2>2. ASSUME NEW q \in Procs, proc'[q].pc \in Writing
        PROVE  Len(proc'[q].new.keys) <= generated'.key
    <3>1. CASE q = p
      BY <2>2, <3>1
    <3>2. CASE q # p
      BY <2>2, <3>2, WritingCall, Numbers
    <3>. QED  BY <3>1, <3>2
  <2>. QED  BY <2>1, <2>2 DEF KeyBound
<1>4. MasterKeyRead'
  BY <1>1, TakeParts DEF MasterKeyRead, MasterText, Active
<1>5. UpgradeKeys'
  BY TakeParts DEF UpgradeKeys, At
<1>6. Followers'
  <2>1. ASSUME NEW n \in Nodes PROVE Follower(n)'
    <3>1. Follower(n)
      BY TakeParts DEF Followers
    <3>2. \A m \in Nodes : Active(m)' => Active(m)
      BY DEF Active
    <3>. QED  BY <1>1, <1>2, <3>1, <3>2, FollowerSame
  <2>. QED  BY <2>1 DEF Followers
<1>7. CheckedUpgrades' /\ Reloaded'
  BY TakeParts DEF CheckedUpgrades, Reloaded
<1>8. NewKeys' /\ torn' \in BOOLEAN
  BY TakeParts DEF NewKeys, NewLen
<1>. QED  BY <1>3, <1>4, <1>5, <1>6, <1>7, <1>8 DEF TakeInv

\* Calls go on or are cut off, on a node that stays as it is.
LEMMA NewKeysSame ==
    ASSUME IInv', TakeInv,
           \A q \in Procs : proc'[q] = proc[q] \/ proc'[q].pc \notin Writing,
           \A m \in Nodes : Active(m)' => Active(m) /\ ring'[m] = ring[m]
    PROVE  NewKeys'
<1> SUFFICES ASSUME NEW q \in Procs, proc'[q].pc \in Writing
             PROVE  Len(proc'[q].new.keys) = NewLen(proc[q])'
  BY DEF NewKeys
<1>1. proc'[q].node \in Nodes /\ role'[proc'[q].node] = "active"
  <2>1. Calls'
    BY DEF IInv
  <2>. QED  BY <2>1 DEF Calls, CallRing, Writing, Active
<1>2. proc'[q] = proc[q] /\ ring'[proc[q].node] = ring[proc[q].node]
  BY <1>1 DEF Active
<1>. QED  BY <1>2, TakeParts DEF NewKeys, NewLen

\* A node goes on, and does not become active.
LEMMA NodeTake ==
    ASSUME IInv, IInv', TakeInv, NEW n \in Nodes,
           UNCHANGED <<keyring, masterKey, upgrade, torn, generated, checked>>, mishaps' \in Nat,
           Writers' = Writers, \A t \in Terms : Pending(t)' <=> Pending(t),
           \A q \in Procs : proc'[q] = proc[q] \/ proc'[q].pc = "idle",
           \A m \in Nodes : Active(m)' => Active(m) /\ ring'[m] = ring[m],
           \A m \in Nodes : m # n => /\ role'[m] = role[m] /\ ring'[m] = ring[m]
                                     /\ m \in suspect => m \in suspect',
           Follower(n)', role'[n] = "keyring" => ring'[n].master = masterKey.master
    PROVE  TakeInv'
<1>1. KeyBound'
  BY TakeParts DEF KeyBound, Writing
<1>2. MasterKeyRead'
  BY TakeParts DEF MasterKeyRead, MasterText
<1>3. UpgradeKeys'
  BY TakeParts DEF UpgradeKeys, At
<1>4. Followers'
  <2>1. ASSUME NEW m \in Nodes, m # n PROVE Follower(m)'
    <3>1. Follower(m)
      BY TakeParts DEF Followers
    <3>. QED  BY <2>1, <3>1, FollowerSame
  <2>. QED  BY <2>1 DEF Followers
<1>5. CheckedUpgrades' /\ Reloaded'
  BY TakeParts DEF CheckedUpgrades, Reloaded
<1>6. NewKeys' /\ torn' \in BOOLEAN
  BY NewKeysSame, TakeParts DEF Writing
<1>. QED  BY <1>1, <1>2, <1>3, <1>4, <1>5, <1>6 DEF TakeInv

\* The keys of the keyrings that are made of another one.
LEMMA SetMasterKeyKeys ==
    ASSUME NEW r \in Rings, NEW m \in Nat PROVE SetMasterKey(r, m).keys = r.keys
  BY DEF SetMasterKey, Rings

LEMMA AddKeyKeys ==
    ASSUME NEW r \in Rings, NEW k \in Nat
    PROVE  /\ Len(AddKey(r, k).keys) = Len(r.keys) + 1
           /\ AddKey(r, k).keys[Len(r.keys) + 1] = k
<1>1. r.keys \in Seq(Nat)
  BY DEF Rings
<1> DEFINE ks == Append(r.keys, k)
<1>2. Len(ks) = Len(r.keys) + 1 /\ ks[Len(r.keys) + 1] = k
  BY <1>1
<1>3. AddKey(r, k) = [r EXCEPT !.keys = ks]
  BY DEF AddKey
<1> HIDE DEF ks
<1>4. AddKey(r, k).keys = ks
  BY <1>3 DEF Rings
<1>. QED  BY <1>2, <1>4

-----------------------------------------------------------------------------
(* Takeovers: steps of calls.                                              *)

\* A call begins or goes on, and no key moves.
LEMMA CallTakeMove ==
    ASSUME IInv, TakeInv, NEW p \in Procs, NEW c, proc' = [proc EXCEPT ![p] = c],
           UNCHANGED <<keyring, masterKey, upgrade, ring, role, checked, suspect, torn>>,
           mishaps' \in Nat, generated'.key = generated.key,
           proc[p].pc \notin {"masterKey", "upgrade"}, c.pc \notin {"masterKey", "upgrade"},
           c.pc \in Writing => Len(c.new.keys) <= generated.key /\ Len(c.new.keys) = NewLen(c)
    PROVE  TakeInv'
<1>1. proc'[p] = c /\ \A q \in Procs : q # p => proc'[q] = proc[q]
  BY CallType
<1>2. generated'.key \in Nat /\ generated.key <= generated'.key /\ generated'.key <= MaxKeys
  BY Numbers
<1>. QED  BY <1>1, <1>2, CallTake

LEMMA RotateTake ==
    ASSUME IInv, TakeInv, NEW p \in Procs, NEW n \in Nodes, Rotate(p, n) PROVE TakeInv'
<1> DEFINE k == generated.key + 1
           new == AddKey(ring[n], k)
           c == [[Idle EXCEPT !.op = "rotate", !.pc = "keyring", !.new = new] EXCEPT !.node = n]
<1>1. /\ Active(n) /\ k <= MaxKeys /\ generated' = [generated EXCEPT !.key = k]
      /\ proc[p].pc = "idle" /\ proc' = [proc EXCEPT ![p] = c]
      /\ UNCHANGED <<keyring, masterKey, upgrade, ring, role, checked, suspect, torn, mishaps>>
  BY DEF Rotate, Begin, At, storageVars, nodeVars, histVars
<1>2. generated \in [key : Nat, master : Nat, kek : Nat]
  BY Parts DEF Shape
<1>3. /\ k \in Nat /\ generated'.key = k /\ generated.key <= k
  BY <1>1, <1>2
<1>4. /\ ring[n] \in Rings /\ Len(ring[n].keys) \in Nat /\ Len(ring[n].keys) <= Len(keyring.keys)
      /\ Len(keyring.keys) \in Nat /\ Len(keyring.keys) <= generated.key /\ generated.key \in Nat
  BY <1>1, ActiveNumbers, Numbers
<1>5. Len(new.keys) = Len(ring[n].keys) + 1
  <2> HIDE DEF k
  <2>. QED  BY <1>3, <1>4, AddKeyKeys
<1>6. Len(new.keys) <= k
  <2> HIDE DEF new
  <2>. QED  BY <1>4, <1>5
<1> HIDE DEF k, new
<1>7. c.pc = "keyring" /\ c.new = new /\ c.op = "rotate" /\ c.node = n
  BY DEF Idle
<1> HIDE DEF c
<1>8. Len(new.keys) = NewLen(c)
  BY <1>5, <1>7 DEF NewLen
<1>9. proc'[p] = c /\ \A q \in Procs : q # p => proc'[q] = proc[q]
  BY <1>1, CallType
<1>10. mishaps' \in Nat
  BY <1>1, TakeParts
<1>. QED  BY <1>1, <1>3, <1>6, <1>7, <1>8, <1>9, <1>10, CallTake

LEMMA PersistEncryptionsTake ==
    ASSUME IInv, TakeInv, NEW p \in Procs, NEW n \in Nodes, PersistEncryptions(p, n)
    PROVE  TakeInv'
<1> DEFINE c == [[Idle EXCEPT !.op = "persist", !.pc = "keyring", !.new = ring[n]] EXCEPT !.node = n]
<1>1. /\ Active(n) /\ proc[p].pc = "idle" /\ proc' = [proc EXCEPT ![p] = c]
      /\ UNCHANGED <<keyring, masterKey, upgrade, ring, role, checked, suspect, torn, mishaps,
                     generated>>
  BY DEF PersistEncryptions, Begin, At, storageVars, nodeVars, histVars
<1>2. Len(ring[n].keys) <= generated.key
  BY <1>1, ActiveNumbers, Numbers
<1>3. c.pc = "keyring" /\ c.new = ring[n] /\ c.op = "persist" /\ c.node = n
  BY DEF Idle
<1>4. Len(ring[n].keys) \in Nat
  BY <1>1, ActiveNumbers
<1> HIDE DEF c
<1>5. Len(c.new.keys) = NewLen(c)
  BY <1>3, <1>4 DEF NewLen
<1>. QED  BY <1>1, <1>2, <1>3, <1>5, TakeParts, CallTakeMove

LEMMA RekeyTake ==
    ASSUME IInv, TakeInv, NEW p \in Procs, Rekey(p) PROVE TakeInv'
<1> DEFINE n == proc[p].node
           new == SetMasterKey(ring[n], proc[p].key)
           c == [proc[p] EXCEPT !.pc = "keyring", !.new = new]
<1>1. /\ proc[p].pc = "rekey" /\ proc' = [proc EXCEPT ![p].pc = "keyring", ![p].new = new]
      /\ UNCHANGED <<keyring, masterKey, upgrade, ring, role, checked, suspect, torn, mishaps,
                     generated>>
  BY DEF Rekey, At, storageVars, nodeVars, histVars
<1>2. n \in Nodes /\ Active(n)
  BY <1>1, Parts DEF CallRing
<1>3. /\ ring[n] \in Rings /\ Len(ring[n].keys) \in Nat /\ Len(ring[n].keys) <= generated.key
      /\ proc[p].op = "rekey"
  BY <1>1, <1>2, ActiveNumbers, Numbers, Parts DEF CallRekey
<1>4. proc \in [Procs -> CallOf] /\ proc[p] \in CallOf /\ proc[p].key \in Nat
  BY CallType
<1>5. new.keys = ring[n].keys
  BY <1>3, <1>4, SetMasterKeyKeys
<1> HIDE DEF new
<1>6. proc' = [proc EXCEPT ![p] = c]
  BY <1>1, <1>4
<1>7. c.pc = "keyring" /\ c.new = new /\ c.node = n /\ c.op = proc[p].op
  BY <1>4 DEF CallOf
<1> HIDE DEF c, n
<1>8. Len(c.new.keys) = NewLen(c)
  BY <1>3, <1>5, <1>7 DEF NewLen
<1>. QED  BY <1>1, <1>3, <1>5, <1>6, <1>7, <1>8, TakeParts, CallTakeMove

\* Calls that neither write a keyring nor create an upgrade.
LEMMA PutTake ==
    ASSUME IInv, TakeInv, NEW p \in Procs, NEW n \in Nodes, Put(p, n) \/ RekeyVerify(p, n)
    PROVE  TakeInv'
<1>1. PICK c : /\ proc' = [proc EXCEPT ![p] = c] /\ c.pc \in {"putData", "storeKey"}
  <2>1. CASE Put(p, n)
    <3> DEFINE c == [WithActiveKey(Idle, ring[n]) EXCEPT !.node = n]
    <3>1. proc' = [proc EXCEPT ![p] = c]
      BY <2>1 DEF Put, Begin
    <3>2. c.pc = "putData"
      BY DEF WithActiveKey, Idle
    <3> HIDE DEF c
    <3>. QED  BY <3>1, <3>2
  <2>2. CASE RekeyVerify(p, n)
    <3> DEFINE c == [[Idle EXCEPT !.op = "rekey", !.pc = "storeKey", !.kek = rekey[n]]
                     EXCEPT !.node = n]
    <3>1. proc' = [proc EXCEPT ![p] = c]
      BY <2>2 DEF RekeyVerify, Begin
    <3>2. c.pc = "storeKey"
      BY DEF Idle
    <3> HIDE DEF c
    <3>. QED  BY <3>1, <3>2
  <2>. QED  BY <2>1, <2>2
<1>2. /\ proc[p].pc = "idle"
      /\ UNCHANGED <<keyring, masterKey, upgrade, ring, role, checked, suspect, torn, mishaps,
                     generated>>
  BY DEF Put, RekeyVerify, Begin, At, storageVars, nodeVars, histVars
<1>. QED  BY <1>1, <1>2, TakeParts, CallTakeMove DEF Writing

LEMMA PutAfterwardsTake ==
    ASSUME IInv, TakeInv, NEW p \in Procs, PutAfterwards(p) PROVE TakeInv'
<1> DEFINE c == WithActiveKey(proc[p], ring[proc[p].node])
<1>1. /\ proc[p].pc = "put" /\ proc' = [proc EXCEPT ![p] = WithActiveKey(@, ring[proc[p].node])]
      /\ UNCHANGED <<keyring, masterKey, upgrade, ring, role, checked, suspect, torn, mishaps,
                     generated>>
  BY DEF PutAfterwards, At, storageVars, nodeVars, histVars
<1>2. proc \in [Procs -> CallOf] /\ proc[p] \in CallOf
  BY CallType
<1>3. proc' = [proc EXCEPT ![p] = c]
  BY <1>1, <1>2
<1>4. c.pc = "putData"
  BY <1>2 DEF WithActiveKey, CallOf
<1> HIDE DEF c
<1>. QED  BY <1>1, <1>3, <1>4, TakeParts, CallTakeMove DEF Writing

LEMMA PutDataTake ==
    ASSUME IInv, TakeInv, NEW p \in Procs, PutData(p) PROVE TakeInv'
<1>1. /\ proc[p].pc = "putData"
      /\ UNCHANGED <<keyring, masterKey, upgrade, ring, role, checked, suspect, torn, mishaps,
                     generated>>
  BY DEF PutData, At
<1>2. proc \in [Procs -> CallOf] /\ proc[p] \in CallOf
  BY CallType
<1>3. PICK c : proc' = [proc EXCEPT ![p] = c] /\ c.pc \in {"config", "idle"}
  <2>1. CASE proc[p].op = "rekey"
    <3> DEFINE c == [proc[p] EXCEPT !.pc = "config", !.term = 0, !.key = 0]
    <3>1. proc' = [proc EXCEPT ![p].pc = "config", ![p].term = 0, ![p].key = 0]
      BY <2>1 DEF PutData
    <3>2. proc' = [proc EXCEPT ![p] = c] /\ c.pc = "config"
      BY <1>2, <3>1 DEF CallOf
    <3> HIDE DEF c
    <3>. QED  BY <3>2
  <2>2. CASE proc[p].op # "rekey"
    <3>1. proc' = [proc EXCEPT ![p] = Idle]
      BY <2>2 DEF PutData, Return
    <3>2. Idle.pc = "idle"
      BY DEF Idle
    <3>. QED  BY <3>1, <3>2
  <2>. QED  BY <2>1, <2>2
<1>. QED  BY <1>1, <1>3, TakeParts, CallTakeMove DEF Writing

LEMMA SetBarrierConfigTake ==
    ASSUME IInv, TakeInv, NEW p \in Procs, SetBarrierConfig(p) PROVE TakeInv'
<1> DEFINE c == [proc[p] EXCEPT !.pc = "put", !.op = "rekeyed"]
<1>1. /\ proc[p].pc = "config" /\ proc' = [proc EXCEPT ![p].pc = "put", ![p].op = "rekeyed"]
      /\ UNCHANGED <<keyring, masterKey, upgrade, ring, role, checked, suspect, torn, mishaps,
                     generated>>
  BY DEF SetBarrierConfig, At, nodeVars
<1>2. proc \in [Procs -> CallOf] /\ proc[p] \in CallOf
  BY CallType
<1>3. proc' = [proc EXCEPT ![p] = c] /\ c.pc = "put"
  BY <1>1, <1>2 DEF CallOf
<1> HIDE DEF c
<1>. QED  BY <1>1, <1>3, TakeParts, CallTakeMove DEF Writing

LEMMA SetStoredKeysTake ==
    ASSUME IInv, TakeInv, NEW p \in Procs, SetStoredKeys(p) PROVE TakeInv'
<1> DEFINE new == generated.master + 1
           c == [proc[p] EXCEPT !.pc = "rekey", !.key = new]
<1>1. /\ proc[p].pc = "storeKey" /\ generated' = [generated EXCEPT !.master = new]
      /\ proc' = [proc EXCEPT ![p].pc = "rekey", ![p].key = new]
      /\ UNCHANGED <<keyring, masterKey, upgrade, ring, role, checked, suspect, torn, mishaps>>
  BY DEF SetStoredKeys, At, nodeVars
<1>2. /\ proc \in [Procs -> CallOf] /\ proc[p] \in CallOf
      /\ generated \in [key : Nat, master : Nat, kek : Nat]
  BY CallType, Parts DEF Shape
<1> HIDE DEF new
<1>3. proc' = [proc EXCEPT ![p] = c] /\ c.pc = "rekey" /\ generated'.key = generated.key
  BY <1>1, <1>2 DEF CallOf
<1> HIDE DEF c
<1>. QED  BY <1>1, <1>3, TakeParts, CallTakeMove DEF Writing

LEMMA BarrierRekeyUpdateTake ==
    ASSUME IInv, TakeInv, NEW p \in Procs, NEW n \in Nodes, NEW kek, NEW verify \in BOOLEAN,
           BarrierRekeyUpdate(p, n, kek, verify)
    PROVE  TakeInv'
<1> DEFINE new == generated.kek + 1
<1>1. /\ proc[p].pc = "idle" /\ generated' = [generated EXCEPT !.kek = new]
      /\ UNCHANGED <<keyring, masterKey, upgrade, ring, role, checked, suspect, torn, mishaps>>
  BY DEF BarrierRekeyUpdate, At, storageVars, histVars
<1>2. /\ proc \in [Procs -> CallOf] /\ proc[p] \in CallOf
      /\ generated \in [key : Nat, master : Nat, kek : Nat]
  BY CallType, Parts DEF Shape
<1>3. PICK c : proc' = [proc EXCEPT ![p] = c] /\ c.pc \in {"idle", "storeKey"}
  <2>1. CASE verify
    <3>1. proc' = [proc EXCEPT ![p] = proc[p]]
      BY <1>2, <2>1 DEF BarrierRekeyUpdate
    <3>. QED  BY <1>1, <3>1
  <2>2. CASE ~verify
    <3> DEFINE c == [[Idle EXCEPT !.op = "rekey", !.pc = "storeKey", !.kek = new] EXCEPT !.node = n]
    <3>1. proc' = [proc EXCEPT ![p] = c]
      BY <2>2 DEF BarrierRekeyUpdate, Begin
    <3>2. c.pc = "storeKey"
      BY DEF Idle
    <3> HIDE DEF c
    <3>. QED  BY <3>1, <3>2
  <2>. QED  BY <2>1, <2>2
<1> HIDE DEF new
<1>4. generated'.key = generated.key
  BY <1>1, <1>2
<1>. QED  BY <1>1, <1>3, <1>4, TakeParts, CallTakeMove DEF Writing

\* The first write of persistKeyring: the new keyring extends that of its node,
\* which extended those of the nodes that are not suspect.
LEMMA PutKeyringTake ==
    ASSUME IInv, IInv', TakeInv, NEW p \in Procs, PutKeyring(p) PROVE TakeInv'
<1> DEFINE a == proc[p].node
           new == proc[p].new
           c == [proc[p] EXCEPT !.pc = "masterKey"]
<1>1. /\ proc[p].pc = "keyring" /\ keyring' = new /\ proc' = [proc EXCEPT ![p].pc = "masterKey"]
      /\ UNCHANGED <<masterKey, upgrade, ring, role, checked, suspect, torn, mishaps, generated>>
  BY DEF PutKeyring, At, Goto, nodeVars, histVars
<1>2. proc \in [Procs -> CallOf] /\ proc[p] \in CallOf
  BY CallType
<1>3. /\ proc'[p].pc = "masterKey" /\ proc'[p].new = new /\ proc'[p].node = a
      /\ proc'[p].op = proc[p].op
      /\ \A q \in Procs : q # p => proc'[q] = proc[q]
  BY <1>1, <1>2 DEF CallOf
<1>4. /\ new \in Rings /\ a \in Nodes /\ Active(a) /\ Extends(new, ring[a])
      /\ Len(new.keys) \in Nat /\ Len(new.keys) <= generated.key
  BY <1>1, WritingCall DEF Writing
<1>5. Writers = {}
  <2>1. \A q \in Procs : proc[q].pc # "masterKey"
    BY <1>1, Parts DEF LockAlone, Writing
  <2>. QED  BY <2>1 DEF Writers, At
<1>6. Writers' # {}
  <2>1. p \in Writers'
    BY <1>3 DEF Writers, At
  <2>. QED  BY <2>1
<1>7. /\ ring[a] \in Rings /\ Extends(keyring, ring[a]) /\ Len(ring[a].keys) \in Nat
      /\ masterKey.term \in 1 .. Len(ring[a].keys)
  BY <1>4, ActiveNumbers
<1>8. \A t \in Terms : Pending(t)' <=> Pending(t)
  BY <1>1, <1>3 DEF Pending, At
<1>9. \A m \in Nodes : Active(m)' <=> Active(m)
  BY <1>1 DEF Active
<1> HIDE DEF a, new
<1>10. KeyBound'
  <2>1. generated.key <= MaxKeys
    BY Numbers
  <2>2. ASSUME NEW q \in Procs, proc'[q].pc \in Writing
        PROVE  Len(proc'[q].new.keys) <= generated.key
    <3>1. CASE q = p
      BY <1>3, <1>4, <3>1
    <3>2. CASE q # p
      BY <1>3, <2>2, <3>2, WritingCall
    <3>. QED  BY <3>1, <3>2
  <2>. QED  BY <1>1, <1>4, <2>1, <2>2 DEF KeyBound
<1>11. NewKeys'
  <2>1. ASSUME NEW q \in Procs, proc'[q].pc \in Writing
        PROVE  /\ proc'[q].new = proc[q].new /\ proc'[q].node = proc[q].node
               /\ proc'[q].op = proc[q].op /\ proc[q].pc \in Writing
    BY <1>1, <1>3, <2>1 DEF Writing, a, new
  <2>. QED  BY <1>1, <2>1, TakeParts DEF NewKeys, NewLen
<1>12. MasterKeyRead'
  <2>1. Opens(ring[a], MasterText)
    BY <1>4, TakeParts DEF MasterKeyRead
  <2>2. Opens(new, MasterText)
    BY <1>4, <1>7, <2>1, ExtendsOpens
  <2>3. MasterText' = MasterText
    BY <1>1 DEF MasterText
  <2>. QED  BY <1>1, <1>6, <1>9, <2>2, <2>3, TakeParts DEF MasterKeyRead
<1>13. UpgradeKeys'
  <2>1. ASSUME NEW t \in Terms, upgrade[t] # Nil
        PROVE  /\ t < masterKey.term /\ upgrade[t].by = new.keys[t]
               /\ upgrade[t].key = new.keys[t + 1]
    <3>1. /\ t < masterKey.term
          /\ upgrade[t].by = keyring.keys[t] /\ upgrade[t].key = keyring.keys[t + 1]
      BY <2>1, TakeParts DEF UpgradeKeys
    <3>2. t \in 1 .. Len(ring[a].keys) /\ t + 1 \in 1 .. Len(ring[a].keys)
      BY <1>7, <3>1 DEF Terms
    <3>3. keyring.keys[t] = new.keys[t] /\ keyring.keys[t + 1] = new.keys[t + 1]
      BY <1>4, <1>7, <3>2 DEF Extends
    <3>. QED  BY <3>1, <3>3
  <2>2. ASSUME NEW q \in Procs, At(q, "upgrade")' PROVE proc'[q] = proc[q]
    BY <1>3, <2>2 DEF At
  <2>3. ASSUME NEW q \in Procs, At(q, "upgrade")' PROVE proc'[q].term < masterKey.term
    BY <2>2, <2>3, TakeParts DEF UpgradeKeys, At
  <2>. QED  BY <1>1, <2>1, <2>3 DEF UpgradeKeys
<1>14. Followers'
  <2> SUFFICES ASSUME NEW n \in Nodes, role[n] # "sealed", n \notin suspect
               PROVE  Behind(n)' /\ Chained(n)' /\ CaughtUp(n)'
    BY <1>1 DEF Followers, Follower
  <2>1. Behind(n) /\ Chained(n) /\ CaughtUp(n) /\ ring[n] \in Rings
    BY TakeParts, Parts DEF Followers, Follower, Shape
  <2>2. Extends(new, ring[n])
    BY <1>4, <1>5, <1>7, <2>1, ExtendsTrans DEF Behind
  <2>3. Behind(n)'
    BY <1>1, <1>6, <2>2 DEF Behind
  <2>4. Chained(n)'
    BY <1>1, <1>8, <1>9, <2>1 DEF Chained
  <2>5. CaughtUp(n)'
    BY <1>1, <1>8, <2>1 DEF CaughtUp
  <2>. QED  BY <2>3, <2>4, <2>5
<1>15. CheckedUpgrades' /\ Reloaded' /\ mishaps' \in Nat /\ torn' \in BOOLEAN
  BY <1>1, TakeParts DEF CheckedUpgrades, Reloaded
<1>. QED  BY <1>10, <1>11, <1>12, <1>13, <1>14, <1>15 DEF TakeInv

\* A call that has written a keyring, or that made one: no key of the upgrades
\* a node needs is beyond those of the active node.
LEMMA CheckedBelow ==
    ASSUME IInv, TakeInv, NEW t \in Terms, checked[t] # {}
    PROVE  t < masterKey.term /\ t < Len(keyring.keys)
<1>1. t < masterKey.term
  BY TakeParts DEF CheckedUpgrades, UpgradeKeys
<1>. QED  BY <1>1, Numbers DEF Terms

\* The second write: the master key, for the new keyring.  A rotation is about
\* to create the upgrade to the key it has added.
LEMMA PutMasterKeyTake ==
    ASSUME IInv, IInv', TakeInv, NEW p \in Procs, PutMasterKey(p) PROVE TakeInv'
<1>0. PICK a : a = proc[p].node
  OBVIOUS
<1>1. /\ proc[p].pc = "masterKey" /\ ring' = [ring EXCEPT ![a] = keyring]
      /\ masterKey' = [term |-> activeTerm(keyring), key |-> ActiveKey(keyring),
                       master |-> keyring.master]
      /\ torn' = FALSE /\ suspect' = suspect \ {a}
      /\ UNCHANGED <<keyring, upgrade, role, checked, mishaps, generated>>
  <2>1. At(p, "masterKey") => keyring = proc[p].new
    BY Parts DEF CallRing, At
  <2>. QED  BY <1>0, <2>1 DEF PutMasterKey, At
<1>2. /\ a \in Nodes /\ Active(a) /\ keyring \in Rings /\ Extends(keyring, ring[a])
      /\ Len(keyring.keys) = NewLen(proc[p]) /\ Len(keyring.keys) \in Nat
  <2>1. keyring = proc[p].new /\ proc[p].pc \in Writing
    BY <1>1, Parts DEF CallRing, Writing
  <2>. QED  BY <1>0, <2>1, WritingCall, TakeParts DEF NewKeys
<1>3. /\ ring[a] \in Rings /\ Len(ring[a].keys) \in Nat /\ Len(ring[a].keys) <= Len(keyring.keys)
      /\ masterKey.term \in 1 .. Len(ring[a].keys)
  BY <1>2, ActiveNumbers
<1>4. /\ masterKey'.term = Len(keyring.keys) /\ masterKey'.master = keyring.master
      /\ masterKey.term <= Len(keyring.keys) /\ masterKey.term \in Nat
      /\ MasterText' = <<activeTerm(keyring), ActiveKey(keyring)>>
  BY <1>1, <1>2, <1>3 DEF activeTerm, MasterText
<1>5. /\ ring'[a] = keyring /\ \A m \in Nodes : m # a => ring'[m] = ring[m]
  BY <1>1, <1>2, Parts DEF Shape
<1>6. \A m \in Nodes : (Active(m)' <=> Active(m)) /\ (role[m] \in Leading => m = a)
  BY <1>1, <1>2, Parts DEF Active, OneLeader, Leading
<1>7. PICK c : /\ proc' = [proc EXCEPT ![p] = c]
               /\ c.pc \notin Writing
               /\ c.pc = "upgrade" <=> proc[p].op = "rotate"
               /\ c.pc = "upgrade" => c.term = Len(keyring.keys) - 1
  <2>1. proc \in [Procs -> CallOf] /\ proc[p] \in CallOf /\ keyring = proc[p].new
    BY <1>1, CallType, Parts DEF CallRing
  <2>2. CASE proc[p].op = "rotate"
    <3> DEFINE t == activeTerm(proc[p].new) - 1
               c == [proc[p] EXCEPT !.pc = "upgrade", !.new = Nil, !.term = t]
    <3>1. proc' = [proc EXCEPT ![p].pc = "upgrade", ![p].new = Nil, ![p].term = t]
      BY <2>2 DEF PutMasterKey
    <3>2. t = Len(keyring.keys) - 1
      BY <2>1 DEF activeTerm
    <3> HIDE DEF t
    <3>3. proc' = [proc EXCEPT ![p] = c] /\ c.pc = "upgrade" /\ c.term = t
      BY <2>1, <3>1 DEF CallOf
    <3> HIDE DEF c
    <3>. QED  BY <2>2, <3>2, <3>3 DEF Writing
  <2>3. CASE proc[p].op = "rekey"
    <3> DEFINE c == [proc[p] EXCEPT !.pc = "put", !.new = Nil, !.key = 0]
    <3>1. proc' = [proc EXCEPT ![p].pc = "put", ![p].new = Nil, ![p].key = 0]
      BY <2>3 DEF PutMasterKey
    <3>2. proc' = [proc EXCEPT ![p] = c] /\ c.pc = "put"
      BY <2>1, <3>1 DEF CallOf
    <3> HIDE DEF c
    <3>. QED  BY <2>3, <3>2 DEF Writing
  <2>4. CASE proc[p].op \notin {"rotate", "rekey"}
    <3>1. proc' = [proc EXCEPT ![p] = Idle]
      BY <2>4 DEF PutMasterKey, Return
    <3>2. Idle.pc = "idle"
      BY DEF Idle
    <3>. QED  BY <2>4, <3>1, <3>2 DEF Writing
  <2>. QED  BY <2>2, <2>3, <2>4
<1>8. proc'[p] = c /\ \A q \in Procs : q # p => proc'[q] = proc[q]
  BY <1>7, CallType
<1>9. Writers' = {} /\ \A q \in Procs : proc'[q].pc \notin Writing
  <2>1. \A q \in Procs : proc'[q].pc \notin Writing
    BY <1>1, <1>7, <1>8, Parts DEF LockAlone, Writing
  <2>. QED  BY <2>1 DEF Writers, At, Writing
<1>10. KeyBound' /\ NewKeys'
  BY <1>1, <1>9, TakeParts DEF KeyBound, NewKeys
<1>11. MasterKeyRead'
  <2>1. Opens(keyring, MasterText')
    BY <1>2, <1>4, ActiveKeyOpens
  <2>2. \A m \in Nodes : Active(m)' => ring'[m] = keyring
    BY <1>5, <1>6 DEF Active, Leading
  <2>. QED  BY <1>1, <1>4, <2>1, <2>2 DEF MasterKeyRead
<1>12. UpgradeKeys'
  <2>1. ASSUME NEW q \in Procs, At(q, "upgrade")' PROVE proc'[q].term < masterKey'.term
    <3>1. CASE q = p
      BY <1>2, <1>4, <1>7, <1>8, <2>1, <3>1 DEF At
    <3>2. CASE q # p
      <4>1. At(q, "upgrade") /\ proc'[q] = proc[q]
        BY <1>8, <2>1, <3>2 DEF At
      <4>2. proc[q].term < masterKey.term /\ proc[q].term \in Nat
        BY <4>1, PendingNumbers DEF Terms
      <4>. QED  BY <1>2, <1>4, <4>1, <4>2
    <3>. QED  BY <3>1, <3>2
  <2>2. ASSUME NEW t \in Terms, upgrade[t] # Nil
        PROVE  t < masterKey'.term /\ upgrade[t].by = keyring.keys[t]
               /\ upgrade[t].key = keyring.keys[t + 1]
    <3>1. t < masterKey.term /\ upgrade[t].by = keyring.keys[t]
          /\ upgrade[t].key = keyring.keys[t + 1]
      BY <2>2, TakeParts DEF UpgradeKeys
    <3>. QED  BY <1>2, <1>4, <3>1 DEF Terms
  <2>. QED  BY <1>1, <2>1, <2>2 DEF UpgradeKeys
<1>13. \A t \in Terms : Pending(t) => Pending(t)'
  BY <1>1, <1>8 DEF Pending, At
<1>14. ASSUME NEW n \in Nodes, n # a PROVE Follower(n)'
  <2> SUFFICES ASSUME role[n] # "sealed", n \notin suspect
               PROVE  Behind(n)' /\ Chained(n)' /\ CaughtUp(n)'
    BY <1>1, <1>14 DEF Follower
  <2>1. Behind(n) /\ Chained(n) /\ CaughtUp(n) /\ ring[n] \in Rings
    BY TakeParts, Parts DEF Followers, Follower, Shape
  <2>2. ring'[n] = ring[n] /\ \A m \in Nodes : Active(m)' => ring'[m] = keyring
    BY <1>5, <1>6, <1>14 DEF Active, Leading
  <2>3. Behind(n)'
    BY <1>1, <2>1, <2>2 DEF Behind
  <2>4. Chained(n)'
    <3>1. SUFFICES ASSUME NEW t \in Terms, Len(ring[n].keys) <= t, t < Len(keyring.keys)
                   PROVE  upgrade[t] # Nil \/ Pending(t)'
      BY <1>1, <1>4, <2>2 DEF Chained
    <3>2. CASE t < Len(ring[a].keys)
      BY <1>2, <1>13, <2>1, <3>1, <3>2 DEF Chained
    <3>3. CASE ~(t < Len(ring[a].keys))
      <4>1. proc[p].op = "rotate" /\ t = Len(keyring.keys) - 1
        <5>1. /\ proc[p].op = "rotate" => Len(keyring.keys) = Len(ring[a].keys) + 1
              /\ proc[p].op # "rotate" => Len(keyring.keys) = Len(ring[a].keys) + 0
          BY <1>0, <1>2 DEF NewLen
        <5>2. t \in Nat
          BY DEF Terms
        <5>3. proc[p].op = "rotate"
          <6>1. Len(keyring.keys) # Len(ring[a].keys) + 0
            BY <1>3, <3>1, <3>3, <5>2
          <6>. QED  BY <5>1, <6>1
        <5>4. t = Len(keyring.keys) - 1
          <6>1. Len(keyring.keys) = Len(ring[a].keys) + 1
            BY <5>1, <5>3
          <6>. QED  BY <1>3, <3>1, <3>3, <5>2, <6>1
        <5>. QED  BY <5>3, <5>4
      <4>2. At(p, "upgrade")' /\ proc'[p].term = t
        BY <1>7, <1>8, <4>1 DEF At
      <4>. QED  BY <4>2 DEF Pending
    <3>. QED  BY <3>2, <3>3
  <2>5. CaughtUp(n)'
    <3>1. role[n] \notin {"master", "keyring"}
      BY <1>6, <1>14 DEF Leading
    <3>. QED  BY <1>1, <1>13, <2>1, <2>2, <3>1 DEF CaughtUp
  <2>. QED  BY <2>3, <2>4, <2>5
<1>15. Follower(a)'
  <2>1. \A m \in Nodes : Active(m)' => ring'[m] = keyring
    BY <1>5, <1>6 DEF Active, Leading
  <2>2. Behind(a)'
    BY <1>1, <1>2, <1>5, <2>1, ExtendsSelf DEF Behind
  <2>3. Chained(a)'
    BY <1>1, <1>2, <1>4, <1>5, <2>1 DEF Chained, Terms
  <2>4. CaughtUp(a)'
    <3>1. \A t \in Terms : a \in checked[t] => t < Len(keyring.keys)
      BY CheckedBelow
    <3>2. \A t \in Terms : ~(a \in checked[t] /\ Len(keyring.keys) <= t)
      BY <1>2, <3>1 DEF Terms
    <3>. QED  BY <1>1, <1>2, <1>5, <3>2 DEF CaughtUp, Active
  <2>. QED  BY <2>2, <2>3, <2>4 DEF Follower
<1>16. Followers'
  BY <1>14, <1>15 DEF Followers
<1>17. CheckedUpgrades' /\ Reloaded' /\ mishaps' \in Nat /\ torn' \in BOOLEAN
  <2>1. \A m \in Nodes : role'[m] # "keyring"
    BY <1>1, <1>2, <1>6 DEF Leading, Active
  <2>. QED  BY <1>1, <2>1, TakeParts DEF CheckedUpgrades, Reloaded
<1>. QED  BY <1>10, <1>11, <1>12, <1>16, <1>17 DEF TakeInv

\* CreateUpgrade: the upgrade that was awaited is there, and those before it
\* are awaited as they were.
LEMMA CreateUpgradeTake ==
    ASSUME IInv, IInv', TakeInv, NEW p \in Procs, CreateUpgrade(p) PROVE TakeInv'
<1>0. PICK a, t : a = proc[p].node /\ t = proc[p].term
  OBVIOUS
<1>1. /\ At(p, "upgrade") /\ ~Locked(a)
      /\ upgrade' = [upgrade EXCEPT ![t] = [by |-> ring[a].keys[t], key |-> ring[a].keys[t + 1]]]
      /\ checked' = [s \in Terms |-> IF s >= t THEN {} ELSE checked[s]]
      /\ proc' = [proc EXCEPT ![p].pc = "put"]
      /\ UNCHANGED <<keyring, masterKey, ring, role, suspect, torn, mishaps, generated>>
  BY <1>0 DEF CreateUpgrade, Goto, histVars
<1>2. /\ a \in Nodes /\ Active(a) /\ t \in Terms /\ t < masterKey.term /\ t \in Nat
  <2>1. t \in Terms /\ t < masterKey.term
    BY <1>0, <1>1, PendingNumbers
  <2>2. a \in Nodes /\ Active(a)
    BY <1>0, <1>1, Parts DEF CallRing, At
  <2>. QED  BY <2>1, <2>2 DEF Terms
<1>3. /\ proc'[p].pc = "put" /\ \A q \in Procs : q # p => proc'[q] = proc[q]
  BY <1>1, CallType DEF CallOf
<1>4. \A q \in Procs : proc[q].pc \notin Writing /\ proc'[q].pc \notin Writing
  BY <1>1, <1>2, <1>3, NobodyWrites DEF Writing
<1>5. Writers = {} /\ Writers' = {}
  BY <1>4 DEF Writers, At, Writing
<1>6. \A s \in Terms : s # t => (Pending(s) => Pending(s)')
  BY <1>0, <1>3 DEF Pending, At
<1>7. \A m \in Nodes : Active(m)' <=> Active(m)
  BY <1>1 DEF Active
<1>8. /\ ring[a].keys[t] = keyring.keys[t] /\ ring[a].keys[t + 1] = keyring.keys[t + 1]
  <2>1. /\ Extends(keyring, ring[a]) /\ Len(ring[a].keys) \in Nat
        /\ masterKey.term \in 1 .. Len(ring[a].keys)
    BY <1>2, ActiveNumbers
  <2>2. t \in 1 .. Len(ring[a].keys) /\ t + 1 \in 1 .. Len(ring[a].keys)
    BY <1>2, <2>1 DEF Terms
  <2>. QED  BY <2>1, <2>2 DEF Extends
<1>9. /\ upgrade'[t] = [by |-> keyring.keys[t], key |-> keyring.keys[t + 1]]
      /\ upgrade'[t] # Nil
      /\ \A s \in Terms : s # t => upgrade'[s] = upgrade[s]
  <2>1. upgrade \in [Terms -> [by : Nat, key : Nat] \cup {Nil}]
    BY Parts DEF Shape
  <2>2. /\ upgrade'[t] = [by |-> keyring.keys[t], key |-> keyring.keys[t + 1]]
        /\ \A s \in Terms : s # t => upgrade'[s] = upgrade[s]
    BY <1>1, <1>2, <1>8, <2>1
  <2>3. upgrade'[t] # Nil
    <3>1. /\ keyring.keys \in Seq(Nat) /\ t \in 1 .. Len(keyring.keys)
          /\ t + 1 \in 1 .. Len(keyring.keys)
      BY <1>2, Numbers DEF Rings, Terms
    <3>2. ASSUME NEW ks \in Seq(Nat), NEW i \in 1 .. Len(ks) PROVE ks[i] \in Nat
      BY <3>2
    <3>3. keyring.keys[t] \in Nat /\ keyring.keys[t + 1] \in Nat
      BY <3>1, <3>2
    <3>. QED  BY <2>2, <3>3, KeyringAssumption
  <2>. QED  BY <2>2, <2>3
<1>10. KeyBound' /\ NewKeys'
  BY <1>1, <1>4, TakeParts DEF KeyBound, NewKeys
<1>11. MasterKeyRead'
  BY <1>1, <1>5, <1>7, TakeParts DEF MasterKeyRead, MasterText
<1>12. UpgradeKeys'
  <2>1. ASSUME NEW s \in Terms, upgrade'[s] # Nil
        PROVE  /\ s < masterKey.term
               /\ upgrade'[s].by = keyring.keys[s] /\ upgrade'[s].key = keyring.keys[s + 1]
    BY <1>2, <1>9, <2>1, TakeParts DEF UpgradeKeys
  <2>2. ASSUME NEW q \in Procs, At(q, "upgrade")' PROVE proc'[q].term < masterKey.term
    BY <1>3, <2>2, TakeParts DEF UpgradeKeys, At
  <2>. QED  BY <1>1, <2>1, <2>2 DEF UpgradeKeys
<1>13. ASSUME NEW s \in Terms
       PROVE  /\ checked'[s] # {} => s < t /\ checked'[s] = checked[s]
              /\ checked'[s] \subseteq checked[s]
  BY <1>1, <1>2 DEF Terms
<1>14. Followers'
  <2> SUFFICES ASSUME NEW n \in Nodes, role[n] # "sealed", n \notin suspect
               PROVE  Behind(n)' /\ Chained(n)' /\ CaughtUp(n)'
    BY <1>1 DEF Followers, Follower
  <2>1. Behind(n) /\ Chained(n) /\ CaughtUp(n)
    BY TakeParts DEF Followers, Follower
  <2>2. Behind(n)'
    BY <1>1, <1>5, <1>7, <2>1 DEF Behind
  <2>3. Chained(n)'
    <3>1. \A s \in Terms : (upgrade[s] # Nil \/ Pending(s)) => (upgrade'[s] # Nil \/ Pending(s)')
      BY <1>6, <1>9
    <3>. QED  BY <1>1, <1>7, <2>1, <3>1 DEF Chained
  <2>4. CaughtUp(n)'
    <3>1. ASSUME NEW s \in Terms, n \in checked'[s], Len(ring[n].keys) <= s
          PROVE  \E u \in Terms : u <= s /\ Pending(u)'
      <4>1. s < t /\ n \in checked[s]
        BY <1>13, <3>1
      <4>2. PICK u \in Terms : u <= s /\ Pending(u)
        BY <2>1, <3>1, <4>1 DEF CaughtUp
      <4>3. u # t
        BY <1>2, <4>1, <4>2 DEF Terms
      <4>. QED  BY <1>6, <4>2, <4>3
    <3>. QED  BY <1>1, <2>1, <3>1 DEF CaughtUp
  <2>. QED  BY <2>2, <2>3, <2>4
<1>15. CheckedUpgrades'
  <2>1. checked' \in [Terms -> SUBSET Nodes]
    BY <1>1, TakeParts DEF CheckedUpgrades
  <2>2. ASSUME NEW s \in Terms, checked'[s] # {} PROVE upgrade'[s] # Nil
    BY <1>2, <1>9, <1>13, <2>2, TakeParts DEF CheckedUpgrades, Terms
  <2>. QED  BY <2>1, <2>2 DEF CheckedUpgrades
<1>16. Reloaded' /\ mishaps' \in Nat /\ torn' \in BOOLEAN
  BY <1>1, TakeParts DEF Reloaded
<1>. QED  BY <1>10, <1>11, <1>12, <1>14, <1>15, <1>16 DEF TakeInv

\* A call is cut off between two writes: nobody who runs is sure any more.
LEMMA CutTake ==
    ASSUME IInv, IInv', TakeInv, mishaps' \in Nat, torn' \in BOOLEAN,
           UNCHANGED <<keyring, masterKey, upgrade, generated, checked>>,
           \A q \in Procs : \/ proc'[q] = proc[q]
                            \/ proc'[q].pc \notin {"keyring", "masterKey", "upgrade"},
           \A m \in Nodes : role'[m] = "sealed" \/ (role'[m] = role[m] /\ ring'[m] = ring[m]),
           \A m \in Nodes : role[m] # "sealed" => m \in suspect',
           ~torn' /\ Writers' = {} => ~torn /\ Writers = {}
    PROVE  TakeInv'
<1>1. \A m \in Nodes : Active(m)' => Active(m) /\ ring'[m] = ring[m]
  BY DEF Active
<1>2. KeyBound'
  BY TakeParts DEF KeyBound, Writing
<1>3. NewKeys'
  BY <1>1, NewKeysSame DEF Writing
<1>4. MasterKeyRead'
  BY <1>1, TakeParts DEF MasterKeyRead, MasterText
<1>5. UpgradeKeys'
  BY TakeParts DEF UpgradeKeys, At
<1>6. Followers'
  BY DEF Followers, Follower
<1>7. CheckedUpgrades' /\ Reloaded'
  BY TakeParts DEF CheckedUpgrades, Reloaded
<1>. QED  BY <1>2, <1>3, <1>4, <1>5, <1>6, <1>7 DEF TakeInv

LEMMA PutFailsTake ==
    ASSUME IInv, IInv', TakeInv, NEW p \in Procs, PutFails(p) PROVE TakeInv'
<1>1. /\ proc[p].pc \in {"storeKey", "keyring", "masterKey", "upgrade", "putData", "config"}
      /\ mishaps' = mishaps + 1 /\ CutOff({p})
      /\ UNCHANGED <<keyring, masterKey, upgrade, ring, role, checked, generated>>
  BY DEF PutFails, storageVars
<1>2. mishaps' \in Nat /\ torn' \in BOOLEAN
  BY <1>1, TakeParts DEF CutOff
<1>3. PICK c : proc' = [proc EXCEPT ![p] = c] /\ c.pc \in {"idle", "put"}
  <2>1. CASE At(p, "upgrade")
    <3> DEFINE c == [proc[p] EXCEPT !.pc = "put"]
    <3>1. proc' = [proc EXCEPT ![p].pc = "put"]
      BY <2>1 DEF PutFails, Goto
    <3>2. proc' = [proc EXCEPT ![p] = c] /\ c.pc = "put"
      BY <3>1, CallType DEF CallOf
    <3>. QED  BY <3>2
  <2>2. CASE ~At(p, "upgrade")
    <3>1. proc' = [proc EXCEPT ![p] = Idle]
      BY <2>2 DEF PutFails, Return
    <3>2. Idle.pc = "idle"
      BY DEF Idle
    <3>. QED  BY <3>1, <3>2
  <2>. QED  BY <2>1, <2>2
<1>4. proc'[p] = c /\ \A q \in Procs : q # p => proc'[q] = proc[q]
  BY <1>3, CallType
<1>5. CASE proc[p].pc \in {"masterKey", "upgrade"}
  <2>1. \A m \in Nodes : role[m] # "sealed" => m \in suspect'
    BY <1>1, <1>5 DEF CutOff, At
  <2>2. ~torn' => ~torn /\ proc[p].pc # "masterKey"
    BY <1>1 DEF CutOff, At
  <2>3. proc[p].pc # "masterKey" => Writers' = Writers
    BY <1>3, <1>4 DEF Writers, At
  <2>. QED  BY <1>1, <1>2, <1>3, <1>4, <2>1, <2>2, <2>3, CutTake
<1>6. CASE proc[p].pc \notin {"masterKey", "upgrade"}
  <2>1. ~(\E q \in {p} : At(q, "masterKey") \/ At(q, "upgrade"))
    BY <1>6 DEF At
  <2>2. suspect' = suspect
    BY <1>1, <2>1 DEF CutOff
  <2>3. torn' = (torn \/ FALSE)
    BY <1>1, <2>1 DEF CutOff
  <2>4. torn' = torn
    BY <2>3, TakeParts
  <2>. QED  BY <1>1, <1>2, <1>3, <1>4, <1>6, <2>2, <2>4, CallTakeMove DEF Writing
<1>. QED  BY <1>5, <1>6

-----------------------------------------------------------------------------
(* Takeovers: steps of nodes.                                              *)

\* No call moves.
LEMMA CallsStay ==
    ASSUME UNCHANGED proc
    PROVE  Writers' = Writers /\ \A t \in Terms : Pending(t)' <=> Pending(t)
  BY DEF Writers, Pending, At

\* What a node is doing changes, or its keyring, and it does not become active.
LEMMA PassiveTake ==
    ASSUME IInv, IInv', TakeInv, NEW n \in Nodes, NEW x, NEW r, x # "active",
           role' = [role EXCEPT ![n] = x], ring' = [ring EXCEPT ![n] = r],
           UNCHANGED <<keyring, masterKey, upgrade, torn, generated, checked, proc, mishaps>>,
           \A m \in Nodes : m # n /\ m \in suspect => m \in suspect',
           x # "sealed" /\ n \notin suspect' => (Behind(n) /\ Chained(n) /\ CaughtUp(n))',
           x = "keyring" => r.master = masterKey.master
    PROVE  TakeInv'
<1>1. role \in [Nodes -> Roles] /\ ring \in [Nodes -> Rings \cup {Nil}]
  BY Parts DEF Shape
<1>2. /\ role'[n] = x /\ ring'[n] = r
      /\ \A m \in Nodes : m # n => role'[m] = role[m] /\ ring'[m] = ring[m]
  BY <1>1
<1>3. Follower(n)'
  BY <1>2 DEF Follower
<1>4. \A m \in Nodes : Active(m)' => Active(m) /\ ring'[m] = ring[m]
  BY <1>2 DEF Active
<1>5. mishaps' \in Nat
  BY TakeParts
<1>. QED  BY <1>2, <1>3, <1>4, <1>5, CallsStay, NodeTake

\* A node whose keyring keeps its keys finds what it found.
LEMMA SameKeys ==
    ASSUME NEW n \in Nodes, Behind(n), Chained(n), CaughtUp(n), ring'[n].keys = ring[n].keys,
           UNCHANGED <<keyring, masterKey, upgrade, torn, checked, proc>>,
           \A m \in Nodes : Active(m)' => Active(m) /\ ring'[m] = ring[m],
           role'[n] \in {"master", "keyring"} => masterKey.term <= Len(ring[n].keys)
    PROVE  Behind(n)' /\ Chained(n)' /\ CaughtUp(n)'
<1>1. Behind(n)'
  <2>1. \A r : Extends(r, ring'[n]) <=> Extends(r, ring[n])
    BY DEF Extends
  <2>. QED  BY <2>1, CallsStay DEF Behind
<1>2. Chained(n)'
  BY CallsStay DEF Chained
<1>3. CaughtUp(n)'
  BY CallsStay DEF CaughtUp
<1>. QED  BY <1>1, <1>2, <1>3

LEMMA FollowerParts ==
    ASSUME IInv, TakeInv, NEW n \in Nodes, role[n] # "sealed", n \notin suspect
    PROVE  Behind(n) /\ Chained(n) /\ CaughtUp(n)
  BY TakeParts DEF Followers, Follower

\* Only what a node is doing changes.
LEMMA RoleTake ==
    ASSUME IInv, IInv', TakeInv, NEW n \in Nodes, NEW x, x \notin {"active", "sealed", "keyring"},
           role[n] # "sealed", role' = [role EXCEPT ![n] = x],
           UNCHANGED <<keyring, masterKey, upgrade, torn, generated, checked, proc, mishaps, ring,
                       suspect>>,
           x = "master" /\ n \notin suspect => masterKey.term <= Len(ring[n].keys)
    PROVE  TakeInv'
<1>1. ring' = [ring EXCEPT ![n] = ring[n]] /\ role \in [Nodes -> Roles]
  BY Parts DEF Shape
<1>2. role'[n] = x /\ \A m \in Nodes : m # n => role'[m] = role[m]
  BY <1>1
<1>3. \A m \in Nodes : Active(m)' => Active(m) /\ ring'[m] = ring[m]
  BY <1>2 DEF Active
<1>4. ASSUME n \notin suspect PROVE (Behind(n) /\ Chained(n) /\ CaughtUp(n))'
  <2>1. Behind(n) /\ Chained(n) /\ CaughtUp(n)
    BY <1>4, FollowerParts
  <2>2. ring'[n].keys = ring[n].keys
    OBVIOUS
  <2>3. role'[n] \in {"master", "keyring"} => masterKey.term <= Len(ring[n].keys)
    BY <1>2, <1>4
  <2>. QED  BY <1>3, <2>1, <2>2, <2>3, SameKeys
<1>. QED  BY <1>1, <1>4, PassiveTake

LEMMA ShutDownTake ==
    ASSUME IInv, IInv', TakeInv, NEW n \in Nodes, ShutDown(n) PROVE TakeInv'
<1>1. /\ role' = [role EXCEPT ![n] = "sealed"] /\ ring' = [ring EXCEPT ![n] = Nil]
      /\ UNCHANGED <<keyring, masterKey, upgrade, torn, generated, checked, proc, mishaps, suspect>>
  BY DEF ShutDown, Stop, storageVars, histVars
<1>. QED  BY <1>1, PassiveTake

LEMMA AcquireLockTake ==
    ASSUME IInv, IInv', TakeInv, NEW n \in Nodes, AcquireLock(n) PROVE TakeInv'
<1>1. /\ role[n] = "standby" /\ role' = [role EXCEPT ![n] = "upgrade"]
      /\ UNCHANGED <<keyring, masterKey, upgrade, torn, generated, checked, proc, mishaps, ring,
                     suspect>>
  BY DEF AcquireLock, storageVars, histVars
<1>. QED  BY <1>1, RoleTake

LEMMA StepDownTake ==
    ASSUME IInv, IInv', TakeInv, NEW n \in Nodes, StepDown(n) PROVE TakeInv'
<1>1. /\ role[n] = "active" /\ role' = [role EXCEPT ![n] = "standby"]
      /\ UNCHANGED <<keyring, masterKey, upgrade, torn, generated, checked, proc, mishaps, ring,
                     suspect>>
  BY DEF StepDown, Active, storageVars, histVars
<1>. QED  BY <1>1, RoleTake

\* Nobody is active while a node takes over, and no upgrade is awaited.
LEMMA NothingPending ==
    ASSUME IInv, NEW n \in Nodes, role[n] \in {"upgrade", "master", "keyring"}
    PROVE  /\ \A m \in Nodes : ~Active(m)
           /\ Writers = {} /\ \A t \in Terms : ~Pending(t)
<1>1. \A m \in Nodes : ~Active(m)
  BY Parts DEF OneLeader, Leading, Active
<1>2. \A p \in Procs : proc[p].pc = "idle"
  BY <1>1, NoCalls
<1>. QED  BY <1>1, <1>2 DEF Writers, Pending, At

\* A node that is not suspect can read the upgrade from its term, if there is
\* one.
LEMMA UpgradeReadable ==
    ASSUME IInv, TakeInv, NEW n \in Nodes, role[n] # "sealed", n \notin suspect,
           NEW t, t = Len(ring[n].keys), t \in Terms, upgrade[t] # Nil
    PROVE  /\ t < masterKey.term /\ t < MaxKeys /\ UpgradeFound(n) /\ ~UpgradeUnreadable(n)
           /\ NextUpgrade(n).key = keyring.keys[t + 1]
<1>1. /\ t < masterKey.term /\ upgrade[t].by = keyring.keys[t]
      /\ upgrade[t].key = keyring.keys[t + 1]
  BY TakeParts DEF UpgradeKeys
<1>2. t < MaxKeys
  BY <1>1, Numbers DEF Terms
<1>3. ring[n] \in Rings /\ Extends(keyring, ring[n])
  BY FollowerParts, Parts DEF Behind, Shape
<1>4. keyring.keys[t] = ring[n].keys[t]
  BY <1>3, RingLen DEF Extends
<1>5. NextUpgrade(n) = upgrade[t] /\ ActiveKey(ring[n]) = ring[n].keys[t] /\ activeTerm(ring[n]) = t
  BY DEF NextUpgrade, activeTerm, ActiveKey
<1>. QED  BY <1>1, <1>2, <1>4, <1>5 DEF UpgradeFound, UpgradeUnreadable

\* When it finds none, it has the key of the latest term, or an upgrade is
\* awaited from the term it is at.
LEMMA NoUpgrade ==
    ASSUME IInv, TakeInv, NEW n \in Nodes, role[n] # "sealed", n \notin suspect,
           ~UpgradeFound(n)
    PROVE  \/ masterKey.term <= Len(ring[n].keys)
           \/ Len(ring[n].keys) \in Terms /\ Pending(Len(ring[n].keys))
<1>0. PICK t : t = Len(ring[n].keys)
  OBVIOUS
<1>1. t \in Nat /\ t > 0
  BY <1>0, Parts, RingLen DEF Shape
<1>2. CASE ~(masterKey.term <= t)
  <2>1. t \in Terms /\ t < masterKey.term
    BY <1>1, <1>2, Numbers DEF Terms
  <2>2. upgrade[t] # Nil \/ Pending(t)
    BY <1>0, <1>1, <2>1, FollowerParts DEF Chained
  <2>3. upgrade[t] = Nil
    BY <1>0, <2>1, UpgradeReadable
  <2>. QED  BY <1>0, <2>1, <2>2, <2>3
<1>. QED  BY <1>0, <1>2

\* The upgrades first: a node that is not suspect reads them all.
LEMMA UpgradesDoneTake ==
    ASSUME IInv, IInv', TakeInv, NEW n \in Nodes, UpgradesDone(n) PROVE TakeInv'
<1>1. CASE ShutDown(n)
  BY <1>1, ShutDownTake
<1>2. CASE ~ShutDown(n)
  <2>1. /\ role[n] = "upgrade" /\ ~UpgradeFound(n) /\ role' = [role EXCEPT ![n] = "master"]
        /\ UNCHANGED <<keyring, masterKey, upgrade, torn, generated, checked, proc, mishaps, ring,
                       suspect>>
    BY <1>2 DEF UpgradesDone, storageVars, histVars
  <2>2. n \notin suspect => masterKey.term <= Len(ring[n].keys)
    BY <2>1, NoUpgrade, NothingPending
  <2>. QED  BY <2>1, <2>2, RoleTake
<1>. QED  BY <1>1, <1>2

LEMMA CheckUpgradeTake ==
    ASSUME IInv, IInv', TakeInv, NEW n \in Nodes, CheckUpgrade(n) PROVE TakeInv'
<1>0. PICK t, r : t = Len(ring[n].keys) /\ r = AddKey(ring[n], NextUpgrade(n).key)
  OBVIOUS
<1>1. /\ role[n] \in {"standby", "upgrade"} /\ UpgradeFound(n) /\ ring' = [ring EXCEPT ![n] = r]
      /\ UNCHANGED <<keyring, masterKey, upgrade, torn, generated, checked, proc, mishaps, role,
                     suspect>>
  BY <1>0, Parts DEF CheckUpgrade, storageVars, histVars, Shape
<1>2. role' = [role EXCEPT ![n] = role[n]] /\ role[n] \notin {"active", "sealed", "keyring"}
  BY <1>1, Parts DEF Shape
<1>3. ring[n] \in Rings /\ t \in Nat /\ t > 0 /\ t \in Terms
  <2>1. ring[n] \in Rings /\ t \in Nat /\ t > 0
    BY <1>0, <1>1, RingLen, Parts DEF Shape
  <2>2. t < MaxKeys /\ MaxKeys \in Nat
    BY <1>0, <1>1, KeyringAssumption DEF UpgradeFound, activeTerm
  <2>. QED  BY <2>1, <2>2 DEF Terms
<1>4. ASSUME n \notin suspect PROVE (Behind(n) /\ Chained(n) /\ CaughtUp(n))'
  <2>1. Behind(n) /\ Chained(n) /\ CaughtUp(n)
    BY <1>1, <1>4, FollowerParts
  <2>2. upgrade[t] # Nil
    BY <1>0, <1>1 DEF UpgradeFound, NextUpgrade, activeTerm
  <2>3. t < masterKey.term /\ NextUpgrade(n).key = keyring.keys[t + 1]
    BY <1>0, <1>1, <1>3, <1>4, <2>2, UpgradeReadable
  <2>4. keyring \in Rings /\ masterKey.term \in 1 .. Len(keyring.keys) /\ Len(keyring.keys) \in Nat
    BY Numbers
  <2>5. NextUpgrade(n).key \in Nat
    <3>1. keyring.keys \in Seq(Nat) /\ t + 1 \in 1 .. Len(keyring.keys)
      BY <1>3, <2>3, <2>4 DEF Rings
    <3>. QED  BY <2>3, <3>1
  <2>6. /\ r \in Rings /\ Len(r.keys) = t + 1 /\ r.keys[t + 1] = keyring.keys[t + 1]
        /\ Extends(r, ring[n])
    BY <1>0, <1>3, <2>3, <2>5, AddKeyKeys, AddKeyRing
  <2>7. ring'[n] = r /\ \A m \in Nodes : m # n => ring'[m] = ring[m]
    BY <1>1, Parts DEF Shape
  <2>8. ASSUME NEW s \in Rings, Extends(s, ring[n]), masterKey.term \in 1 .. Len(s.keys),
               Extends(keyring, s)
        PROVE  Extends(s, r)
    <3>1. Len(s.keys) \in Nat /\ t + 1 <= Len(s.keys)
      BY <1>3, <2>3, <2>8, RingLen
    <3>2. ASSUME NEW i \in 1 .. t + 1 PROVE s.keys[i] = r.keys[i]
      <4>1. CASE i = t + 1
        <5>1. t + 1 \in 1 .. Len(s.keys)
          BY <1>3, <3>1
        <5>. QED  BY <2>6, <2>8, <4>1, <5>1 DEF Extends
      <4>2. CASE i # t + 1
        <5>1. i \in 1 .. t
          BY <1>3, <4>2
        <5>. QED  BY <1>0, <2>6, <2>8, <5>1 DEF Extends
      <4>. QED  BY <4>1, <4>2
    <3>. QED  BY <2>6, <3>1, <3>2 DEF Extends
  <2>9. Behind(n)'
    <3>1. Extends(keyring, r)
      BY <2>1, <2>4, <2>8, ExtendsSelf DEF Behind
    <3>2. ASSUME NEW m \in Nodes, Active(m), Writers = {} PROVE Extends(ring'[m], r)
      <4>1. m # n
        BY <1>2, <3>2 DEF Active
      <4>2. ring[m] \in Rings /\ masterKey.term \in 1 .. Len(ring[m].keys) /\ Extends(keyring, ring[m])
        BY <3>2, ActiveNumbers
      <4>. QED  BY <2>1, <2>7, <2>8, <3>2, <4>1, <4>2 DEF Behind
    <3>3. ~(torn /\ Writers = {})
      <4>1. t # Len(keyring.keys)
        BY <1>3, <2>3, <2>4
      <4>. QED  BY <1>0, <2>1, <4>1 DEF Behind
    <3>. QED  BY <1>1, <2>7, <3>1, <3>2, <3>3, CallsStay DEF Behind, Active
  <2>10. Chained(n)'
    <3>1. \A s \in Terms : t + 1 <= s => t <= s
      BY <1>3 DEF Terms
    <3>2. \A m \in Nodes : Active(m)' => Active(m) /\ ring'[m] = ring[m]
      BY <1>1, <1>2, <2>7 DEF Active
    <3>. QED  BY <1>0, <1>1, <2>1, <2>6, <2>7, <3>1, <3>2, CallsStay DEF Chained
  <2>11. CaughtUp(n)'
    <3>1. \A s \in Terms : t + 1 <= s => t <= s
      BY <1>3 DEF Terms
    <3>. QED  BY <1>0, <1>1, <2>1, <2>6, <2>7, <3>1, CallsStay DEF CaughtUp
  <2>. QED  BY <2>9, <2>10, <2>11
<1>. QED  BY <1>1, <1>2, <1>4, PassiveTake

\* Then the master key, which leaves the encryption keys.
LEMMA ReloadMasterKeyTake ==
    ASSUME IInv, IInv', TakeInv, NEW n \in Nodes, ReloadMasterKey(n) PROVE TakeInv'
<1>1. CASE ShutDown(n)
  BY <1>1, ShutDownTake
<1>2. CASE ~ShutDown(n)
  <2>0. PICK r : r = SetMasterKey(ring[n], masterKey.master)
    OBVIOUS
  <2>1. /\ role[n] = "master" /\ role' = [role EXCEPT ![n] = "keyring"]
        /\ ring' = [ring EXCEPT ![n] = r]
        /\ UNCHANGED <<keyring, masterKey, upgrade, torn, generated, checked, proc, mishaps,
                       suspect>>
    BY <1>2, <2>0, Parts DEF ReloadMasterKey, storageVars, histVars, Shape
  <2>2. ring[n] \in Rings /\ masterKey.master \in Nat
    BY <2>1, Parts DEF Shape
  <2>3. r.keys = ring[n].keys /\ r.master = masterKey.master
    BY <2>0, <2>2, SetMasterKeyKeys, SetMasterKeyRing
  <2>4. /\ ring'[n] = r /\ role'[n] = "keyring"
        /\ \A m \in Nodes : m # n => ring'[m] = ring[m] /\ role'[m] = role[m]
    BY <2>1, Parts DEF Shape
  <2>5. \A m \in Nodes : Active(m)' => Active(m) /\ ring'[m] = ring[m]
    BY <2>4 DEF Active
  <2>6. ASSUME n \notin suspect PROVE (Behind(n) /\ Chained(n) /\ CaughtUp(n))'
    <3>1. Behind(n) /\ Chained(n) /\ CaughtUp(n)
      BY <2>1, <2>6, FollowerParts
    <3>2. masterKey.term <= Len(ring[n].keys)
      BY <2>1, <3>1 DEF CaughtUp
    <3>. QED  BY <2>1, <2>3, <2>4, <2>5, <3>1, <3>2, SameKeys
  <2>. QED  BY <2>1, <2>3, <2>6, PassiveTake
<1>. QED  BY <1>1, <1>2

\* A node that has loaded the keyring from storage finds all it needs.
LEMMA LoadedTake ==
    ASSUME IInv, TakeInv, NEW n \in Nodes, ring'[n] = keyring,
           role'[n] \notin {"master", "keyring"},
           UNCHANGED <<keyring, masterKey, upgrade, checked, torn, proc>>,
           \A m \in Nodes : Active(m)' => ring'[m] = keyring \/ (Active(m) /\ ring'[m] = ring[m]),
           \A m \in Nodes : Active(m)' /\ Writers = {} => Extends(ring'[m], keyring),
           torn /\ Writers = {} => masterKey.master = keyring.master
    PROVE  (Behind(n) /\ Chained(n) /\ CaughtUp(n))'
<1>1. /\ keyring \in Rings /\ Len(keyring.keys) \in Nat
      /\ masterKey.term \in 1 .. Len(keyring.keys)
  BY Numbers
<1>2. Behind(n)'
  BY <1>1, ExtendsSelf, CallsStay DEF Behind
<1>3. \A m \in Nodes : Active(m)' => Len(ring'[m].keys) \in Nat /\ Len(ring'[m].keys) <= Len(keyring.keys)
  BY <1>1, ActiveNumbers
<1>4. Chained(n)'
  <2>1. \A t \in Terms : Len(keyring.keys) <= t => ~(t < masterKey.term)
    BY <1>1 DEF Terms
  <2>2. \A t \in Terms : Len(keyring.keys) <= t =>
          \A m \in Nodes : Active(m)' => ~(t < Len(ring'[m].keys))
    BY <1>1, <1>3 DEF Terms
  <2>. QED  BY <2>1, <2>2 DEF Chained
<1>5. CaughtUp(n)'
  <2>1. \A t \in Terms : n \in checked[t] => t < Len(keyring.keys)
    BY CheckedBelow
  <2>2. \A t \in Terms : ~(n \in checked[t] /\ Len(keyring.keys) <= t)
    BY <1>1, <2>1 DEF Terms
  <2>. QED  BY <2>2 DEF CaughtUp
<1>. QED  BY <1>2, <1>4, <1>5

\* Two keyrings of one length, of which one extends the other.
LEMMA ExtendsBack ==
    ASSUME NEW r \in Rings, NEW s \in Rings, Extends(s, r), Len(s.keys) <= Len(r.keys)
    PROVE  Extends(r, s)
<1>1. Len(r.keys) \in Nat /\ Len(s.keys) \in Nat
  BY RingLen
<1>. QED  BY <1>1 DEF Extends

LEMMA UnsealTake ==
    ASSUME IInv, IInv', TakeInv, NEW n \in Nodes, Unseal(n) PROVE TakeInv'
<1>1. /\ role[n] = "sealed" /\ role' = [role EXCEPT ![n] = "standby"]
      /\ ring' = [ring EXCEPT ![n] = keyring]
      /\ suspect' = IF torn THEN suspect \cup {n} ELSE suspect \ {n}
      /\ UNCHANGED <<keyring, masterKey, upgrade, torn, generated, checked, proc, mishaps>>
  BY DEF Unseal, storageVars
<1>2. /\ ring'[n] = keyring /\ role'[n] = "standby"
      /\ \A m \in Nodes : m # n => ring'[m] = ring[m] /\ role'[m] = role[m]
  BY <1>1, Parts DEF Shape
<1>3. \A m \in Nodes : Active(m)' => m # n /\ Active(m) /\ ring'[m] = ring[m]
  BY <1>2 DEF Active
<1>4. ASSUME n \notin suspect' PROVE (Behind(n) /\ Chained(n) /\ CaughtUp(n))'
  <2>1. ~torn
    BY <1>1, <1>4
  <2>2. ASSUME NEW m \in Nodes, Active(m)', Writers = {} PROVE Extends(ring'[m], keyring)
    <3>1. /\ ring[m] \in Rings /\ Extends(keyring, ring[m]) /\ Len(ring[m].keys) \in Nat
          /\ masterKey.term \in 1 .. Len(ring[m].keys)
      BY <1>3, <2>2, ActiveNumbers
    <3>2. masterKey.term = Len(keyring.keys) /\ keyring \in Rings
      BY <2>1, <2>2, TakeParts, Numbers DEF MasterKeyRead
    <3>3. Len(keyring.keys) <= Len(ring[m].keys)
      BY <3>1, <3>2
    <3>. QED  BY <1>3, <2>2, <3>1, <3>2, <3>3, ExtendsBack
  <2>. QED  BY <1>1, <1>2, <1>3, <2>1, <2>2, LoadedTake
<1>5. \A m \in Nodes : m # n /\ m \in suspect => m \in suspect'
  BY <1>1
<1>. QED  BY <1>1, <1>4, <1>5, PassiveTake

\* The node that takes over loads the keyring: what the other nodes need to
\* follow it is there, since the keyring is that of the master key, or has no
\* key that they have not.
LEMMA ReloadKeyringTake ==
    ASSUME IInv, IInv', TakeInv, NEW n \in Nodes, ReloadKeyring(n) PROVE TakeInv'
<1>1. CASE ShutDown(n)
  BY <1>1, ShutDownTake
<1>2. CASE ~ShutDown(n)
  <2>1. /\ role[n] = "keyring" /\ ring[n].master = keyring.master
        /\ role' = [role EXCEPT ![n] = "active"] /\ ring' = [ring EXCEPT ![n] = keyring]
        /\ suspect' = suspect \ {n}
        /\ UNCHANGED <<keyring, masterKey, upgrade, torn, generated, checked, proc, mishaps>>
    BY <1>2 DEF ReloadKeyring, storageVars
  <2>2. /\ ring'[n] = keyring /\ role'[n] = "active"
        /\ \A m \in Nodes : m # n => ring'[m] = ring[m] /\ role'[m] = role[m]
    BY <2>1, Parts DEF Shape
  <2>3. /\ \A m \in Nodes : ~Active(m) /\ (Active(m)' => m = n)
        /\ Writers = {} /\ Writers' = {}
        /\ \A t \in Terms : ~Pending(t)
    BY <2>1, <2>2, NothingPending, CallsStay DEF Active
  <2>4. \A p \in Procs : proc[p].pc = "idle"
    BY <2>3, NoCalls
  <2>5. /\ keyring \in Rings /\ Len(keyring.keys) \in Nat
        /\ masterKey.term \in 1 .. Len(keyring.keys)
    BY Numbers
  <2>6. masterKey.master = keyring.master
    BY <2>1, TakeParts DEF Reloaded
  <2>7. KeyBound' /\ NewKeys'
    BY <2>1, <2>4, TakeParts DEF KeyBound, NewKeys, Writing
  <2>8. MasterKeyRead'
    BY <2>1, <2>2, <2>3, TakeParts DEF MasterKeyRead, MasterText
  <2>9. UpgradeKeys'
    BY <2>1, TakeParts DEF UpgradeKeys, At
  <2>10. Follower(n)'
    <3>1. (Behind(n) /\ Chained(n) /\ CaughtUp(n))'
      <4>1. \A m \in Nodes : Active(m)' => ring'[m] = keyring
        BY <2>2, <2>3
      <4>2. \A m \in Nodes : Active(m)' /\ Writers = {} => Extends(ring'[m], keyring)
        BY <2>5, <4>1, ExtendsSelf
      <4>3. \A m \in Nodes : Active(m)' => ring'[m] = keyring \/ (Active(m) /\ ring'[m] = ring[m])
        BY <4>1
      <4>. QED  BY <2>1, <2>2, <2>6, <4>2, <4>3, LoadedTake
    <3>. QED  BY <3>1 DEF Follower
  <2>11. ASSUME NEW m \in Nodes, m # n PROVE Follower(m)'
    <3> SUFFICES ASSUME role[m] # "sealed", m \notin suspect
                 PROVE  Behind(m)' /\ Chained(m)' /\ CaughtUp(m)'
      BY <2>1, <2>2, <2>11 DEF Follower
    <3>1. Behind(m) /\ Chained(m) /\ CaughtUp(m)
      BY FollowerParts
    <3>2. ring'[m] = ring[m] /\ role'[m] = role[m]
      BY <2>2, <2>11
    <3>3. Behind(m)'
      <4>1. \A l \in Nodes : Active(l)' => ring'[l] = keyring
        BY <2>2, <2>3
      <4>. QED  BY <2>1, <2>3, <3>1, <3>2, <4>1 DEF Behind
    <3>4. Chained(m)'
      <4> SUFFICES ASSUME NEW t \in Terms, Len(ring[m].keys) <= t, t < Len(keyring.keys)
                   PROVE  upgrade[t] # Nil
        <5>1. \A t \in Terms : t < masterKey.term => t < Len(keyring.keys)
          BY <2>5 DEF Terms
        <5>. QED  BY <2>1, <2>2, <2>3, <3>2, <5>1 DEF Chained
      <4>1. ~torn
        <5>1. Len(ring[m].keys) # Len(keyring.keys)
          <6>1. t \in Nat
            BY DEF Terms
          <6>. QED  BY <2>5, <6>1
        <5>. QED  BY <2>3, <3>1, <5>1 DEF Behind
      <4>2. t < masterKey.term
        BY <2>3, <4>1, TakeParts DEF MasterKeyRead
      <4>. QED  BY <2>3, <3>1, <4>2 DEF Chained
    <3>5. CaughtUp(m)'
      BY <2>1, <3>1, <3>2, CallsStay DEF CaughtUp
    <3>. QED  BY <3>3, <3>4, <3>5
  <2>12. Followers'
    BY <2>10, <2>11 DEF Followers
  <2>13. CheckedUpgrades' /\ Reloaded' /\ mishaps' \in Nat /\ torn' \in BOOLEAN
    BY <2>1, <2>2, TakeParts DEF CheckedUpgrades, Reloaded
  <2>. QED  BY <2>7, <2>8, <2>9, <2>12, <2>13 DEF TakeInv
<1>. QED  BY <1>1, <1>2

\* A standby that has found no upgrade, although there is one from its term or
\* from a later one, waits for the upgrade a call is about to create.
LEMMA CheckEndsTake ==
    ASSUME IInv, IInv', TakeInv, NEW n \in Nodes, CheckEnds(n) PROVE TakeInv'
<1>1. /\ role[n] = "standby" /\ ~UpgradeFound(n)
      /\ checked' = [t \in Terms |-> IF upgrade[t] = Nil THEN {} ELSE checked[t] \cup {n}]
      /\ UNCHANGED <<keyring, masterKey, upgrade, torn, generated, proc, mishaps, ring, role,
                     suspect>>
  BY DEF CheckEnds, storageVars, histVars
<1>2. checked \in [Terms -> SUBSET Nodes]
  BY TakeParts DEF CheckedUpgrades
<1>3. ASSUME NEW t \in Terms
      PROVE  /\ checked'[t] # {} => upgrade[t] # Nil
             /\ \A m \in Nodes : m # n /\ m \in checked'[t] => m \in checked[t]
  BY <1>1
<1>4. CheckedUpgrades'
  <2>1. checked' \in [Terms -> SUBSET Nodes]
    BY <1>1, <1>2
  <2>. QED  BY <1>1, <1>3, <2>1 DEF CheckedUpgrades
<1>5. \A m \in Nodes : Active(m)' => Active(m) /\ ring'[m] = ring[m]
  BY <1>1 DEF Active
<1>6. ASSUME NEW m \in Nodes, m # n PROVE Follower(m)'
  <2>1. Follower(m)
    BY TakeParts DEF Followers
  <2>. QED  BY <1>1, <1>3, <1>5, <1>6, <2>1, CallsStay, FollowerSame
<1>7. Follower(n)'
  <2> SUFFICES ASSUME n \notin suspect
               PROVE  Behind(n)' /\ Chained(n)' /\ CaughtUp(n)'
    BY <1>1 DEF Follower
  <2>1. Behind(n) /\ Chained(n) /\ CaughtUp(n)
    BY <1>1, FollowerParts
  <2>2. Behind(n)'
    BY <1>1, <1>5, <2>1, CallsStay DEF Behind
  <2>3. Chained(n)'
    BY <1>1, <1>5, <2>1, CallsStay DEF Chained
  <2>4. ASSUME NEW t \in Terms, n \in checked'[t], Len(ring[n].keys) <= t
        PROVE  \E s \in Terms : s <= t /\ Pending(s)
    <3>1. t < masterKey.term
      BY <1>3, <2>4, TakeParts DEF UpgradeKeys
    <3>2. ~(masterKey.term <= Len(ring[n].keys))
      <4>1. Len(ring[n].keys) \in Nat /\ t \in Nat /\ masterKey.term \in Nat
        BY <1>1, Parts, RingLen, Numbers DEF Shape, Terms
      <4>. QED  BY <2>4, <3>1, <4>1
    <3>3. Len(ring[n].keys) \in Terms /\ Pending(Len(ring[n].keys))
      BY <1>1, <3>2, NoUpgrade
    <3>. QED  BY <2>4, <3>3
  <2>5. CaughtUp(n)'
    BY <1>1, <2>4, CallsStay DEF CaughtUp
  <2>. QED  BY <2>2, <2>3, <2>5
<1>8. Followers'
  BY <1>6, <1>7 DEF Followers
<1>9. KeyBound' /\ NewKeys' /\ Reloaded' /\ mishaps' \in Nat /\ torn' \in BOOLEAN
  BY <1>1, TakeParts DEF KeyBound, NewKeys, NewLen, Reloaded
<1>10. MasterKeyRead'
  BY <1>1, <1>5, CallsStay, TakeParts DEF MasterKeyRead, MasterText
<1>11. UpgradeKeys'
  BY <1>1, TakeParts DEF UpgradeKeys, At
<1>. QED  BY <1>4, <1>8, <1>9, <1>10, <1>11 DEF TakeInv

\* An upgrade is destroyed when every node that is not suspect is beyond it: it
\* had found it when it looked, since no earlier one was awaited.
LEMMA DestroyUpgradeTake ==
    ASSUME IInv, IInv', TakeInv, NEW n \in Nodes, NEW t \in Terms, DestroyUpgrade(n, t)
    PROVE  TakeInv'
<1>1. /\ GracePeriodOver(t)
      /\ \/ /\ upgrade' = [upgrade EXCEPT ![t] = Nil] /\ checked' = [checked EXCEPT ![t] = {}]
            /\ mishaps' = mishaps
         \/ upgrade' = upgrade /\ checked' = checked /\ mishaps' = mishaps + 1
      /\ UNCHANGED <<keyring, masterKey, torn, generated, proc, ring, role, suspect>>
  BY DEF DestroyUpgrade
<1>2. /\ checked \in [Terms -> SUBSET Nodes]
      /\ upgrade \in [Terms -> [by : Nat, key : Nat] \cup {Nil}]
  BY TakeParts, Parts DEF CheckedUpgrades, Shape
<1>3. /\ mishaps' \in Nat
      /\ \A s \in Terms : s # t => upgrade'[s] = upgrade[s] /\ checked'[s] = checked[s]
      /\ \A s \in Terms : upgrade'[s] # Nil => upgrade'[s] = upgrade[s]
      /\ \A s \in Terms : checked'[s] # {} => checked'[s] = checked[s] /\ upgrade'[s] = upgrade[s]
      /\ checked' \in [Terms -> SUBSET Nodes]
  <2>1. CASE upgrade' = upgrade /\ checked' = checked /\ mishaps' = mishaps + 1
    BY <1>2, <2>1, TakeParts
  <2>2. CASE /\ upgrade' = [upgrade EXCEPT ![t] = Nil] /\ checked' = [checked EXCEPT ![t] = {}]
             /\ mishaps' = mishaps
    BY <1>2, <2>2, TakeParts
  <2>. QED  BY <1>1, <2>1, <2>2
<1>4. CheckedUpgrades'
  BY <1>3, TakeParts DEF CheckedUpgrades
<1>5. \A m \in Nodes : Active(m)' => Active(m) /\ ring'[m] = ring[m]
  BY <1>1 DEF Active
<1>6. Followers'
  <2> SUFFICES ASSUME NEW m \in Nodes, role[m] # "sealed", m \notin suspect
               PROVE  Behind(m)' /\ Chained(m)' /\ CaughtUp(m)'
    BY <1>1 DEF Followers, Follower
  <2>1. Behind(m) /\ Chained(m) /\ CaughtUp(m)
    BY FollowerParts
  <2>2. Behind(m)'
    BY <1>1, <1>5, <2>1, CallsStay DEF Behind
  <2>3. CaughtUp(m)'
    <3>1. \A s \in Terms : m \in checked'[s] => m \in checked[s]
      BY <1>3
    <3>. QED  BY <1>1, <2>1, <3>1, CallsStay DEF CaughtUp
  <2>4. ~(Len(ring[m].keys) <= t)
    <3> SUFFICES ASSUME Len(ring[m].keys) <= t PROVE FALSE
      OBVIOUS
    <3>1. m \in checked[t]
      <4>1. Len(ring[m].keys) \in Nat /\ t \in Nat
        BY Parts, RingLen DEF Shape, Terms
      <4>2. ~(activeTerm(ring[m]) > t)
        BY <4>1 DEF activeTerm
      <4>. QED  BY <1>1, <4>2 DEF GracePeriodOver
    <3>2. PICK s \in Terms : s <= t /\ Pending(s)
      BY <2>1, <3>1 DEF CaughtUp
    <3>3. PICK q \in Procs : At(q, "upgrade") /\ proc[q].term = s
      BY <3>2 DEF Pending
    <3>4. proc[q].term > t
      BY <1>1, <3>3 DEF GracePeriodOver
    <3>. QED  BY <3>2, <3>3, <3>4 DEF Terms
  <2>5. Chained(m)'
    BY <1>1, <1>3, <1>5, <2>1, <2>4, CallsStay DEF Chained
  <2>. QED  BY <2>2, <2>3, <2>5
<1>7. KeyBound' /\ NewKeys' /\ Reloaded' /\ torn' \in BOOLEAN
  BY <1>1, TakeParts DEF KeyBound, NewKeys, NewLen, Reloaded
<1>8. MasterKeyRead'
  BY <1>1, <1>5, CallsStay, TakeParts DEF MasterKeyRead, MasterText
<1>9. UpgradeKeys'
  BY <1>1, <1>3, TakeParts DEF UpgradeKeys, At
<1>. QED  BY <1>3, <1>4, <1>6, <1>7, <1>8, <1>9 DEF TakeInv

\* A crash: between two writes, or elsewhere.
LEMMA CrashTake ==
    ASSUME IInv, IInv', TakeInv, NEW n \in Nodes, Crash(n) PROVE TakeInv'
<1>0. PICK ps : ps = {p \in Procs : proc[p].node = n}
  OBVIOUS
<1>1. /\ Stop(n) /\ mishaps' = mishaps + 1 /\ CutOff(ps)
      /\ proc' = [p \in Procs |-> IF p \in ps THEN Idle ELSE proc[p]]
      /\ UNCHANGED <<keyring, masterKey, upgrade, generated, checked>>
  BY <1>0 DEF Crash, storageVars
<1>2. mishaps' \in Nat /\ torn' \in BOOLEAN
  BY <1>1, TakeParts DEF CutOff
<1>3. /\ role'[n] = "sealed"
      /\ \A m \in Nodes : m # n => role'[m] = role[m] /\ ring'[m] = ring[m]
  BY <1>1, StopFacts
<1>4. Idle.pc = "idle"
  BY DEF Idle
<1>5. ASSUME NEW q \in Procs
      PROVE  /\ q \in ps => proc'[q].pc = "idle"
             /\ q \notin ps => proc'[q] = proc[q]
  BY <1>1, <1>4
<1>6. CASE \E p \in ps : At(p, "masterKey") \/ At(p, "upgrade")
  <2>1. \A m \in Nodes : role[m] # "sealed" => m \in suspect'
    BY <1>1, <1>6 DEF CutOff
  <2>2. ~torn' => ~torn /\ \A p \in ps : ~At(p, "masterKey")
    BY <1>1 DEF CutOff
  <2>3. (\A p \in ps : ~At(p, "masterKey")) => Writers' = Writers
    BY <1>0, <1>5 DEF Writers, At
  <2>4. \A q \in Procs : \/ proc'[q] = proc[q]
                         \/ proc'[q].pc \notin {"keyring", "masterKey", "upgrade"}
    BY <1>5
  <2>5. \A m \in Nodes : role'[m] = "sealed" \/ (role'[m] = role[m] /\ ring'[m] = ring[m])
    BY <1>3
  <2>6. ~torn' /\ Writers' = {} => ~torn /\ Writers = {}
    BY <2>2, <2>3
  <2>. QED  BY <1>1, <1>2, <2>1, <2>4, <2>5, <2>6, CutTake
<1>7. CASE ~(\E p \in ps : At(p, "masterKey") \/ At(p, "upgrade"))
  <2>1. suspect' = suspect
    BY <1>1, <1>7 DEF CutOff
  <2>2. torn' = torn
    <3>1. torn' = (torn \/ FALSE)
      BY <1>1, <1>7 DEF CutOff
    <3>. QED  BY <3>1, TakeParts
  <2>3. Writers' = Writers
    BY <1>0, <1>5, <1>7 DEF Writers, At
  <2>4. \A t \in Terms : Pending(t)' <=> Pending(t)
    BY <1>0, <1>5, <1>7 DEF Pending, At
  <2>5. \A m \in Nodes : Active(m)' => Active(m) /\ ring'[m] = ring[m]
    BY <1>3 DEF Active
  <2>6. Follower(n)'
    BY <1>3 DEF Follower
  <2>7. \A q \in Procs : proc'[q] = proc[q] \/ proc'[q].pc = "idle"
    BY <1>5
  <2>. QED  BY <1>1, <1>2, <1>3, <2>1, <2>2, <2>3, <2>4, <2>5, <2>6, <2>7, NodeTake
<1>. QED  BY <1>6, <1>7

\* Nothing a takeover rests on changes.
LEMMA StutterTake ==
    ASSUME IInv, IInv', TakeInv,
           UNCHANGED <<keyring, masterKey, upgrade, torn, generated, proc, ring, role, suspect,
                       checked, mishaps>>
    PROVE  TakeInv'
<1>1. KeyBound' /\ NewKeys' /\ Reloaded' /\ torn' \in BOOLEAN /\ mishaps' \in Nat
  BY TakeParts DEF KeyBound, NewKeys, NewLen, Reloaded
<1>2. MasterKeyRead'
  BY CallsStay, TakeParts DEF MasterKeyRead, MasterText, Active
<1>3. UpgradeKeys' /\ CheckedUpgrades'
  BY TakeParts DEF UpgradeKeys, At, CheckedUpgrades
<1>4. ASSUME NEW n \in Nodes PROVE Follower(n)'
  <2>1. Follower(n) /\ \A m \in Nodes : Active(m)' => Active(m)
    BY TakeParts DEF Followers, Active
  <2>. QED  BY <2>1, CallsStay, FollowerSame
<1>. QED  BY <1>1, <1>2, <1>3, <1>4 DEF TakeInv, Followers

LEMMA RekeyNodeTake ==
    ASSUME IInv, IInv', TakeInv, NEW n \in Nodes, BarrierRekeyInit(n) \/ RekeyCancel(n)
    PROVE  TakeInv'
<1>1. UNCHANGED <<keyring, masterKey, upgrade, torn, generated, proc, ring, role, suspect,
                  checked, mishaps>>
  BY DEF BarrierRekeyInit, RekeyCancel, storageVars, histVars
<1>. QED  BY <1>1, StutterTake

LEMMA NodeStepTake ==
    ASSUME IInv, IInv', TakeInv, NEW n \in Nodes, NodeStep(n) PROVE TakeInv'
  BY CrashTake, UnsealTake, StepDownTake, AcquireLockTake, CheckUpgradeTake, CheckEndsTake,
     UpgradesDoneTake, ReloadMasterKeyTake, ReloadKeyringTake, DestroyUpgradeTake,
     RekeyNodeTake DEF NodeStep

LEMMA CallStepTake ==
    ASSUME IInv, IInv', TakeInv, NEW p \in Procs, CallStep(p) PROVE TakeInv'
  BY SetStoredKeysTake, RekeyTake, PutKeyringTake, PutMasterKeyTake, CreateUpgradeTake,
     PutAfterwardsTake, PutDataTake, SetBarrierConfigTake, PutFailsTake DEF CallStep

LEMMA NextTake == IInv /\ IInv' /\ TakeInv /\ [Next]_vars => TakeInv'
<1> SUFFICES ASSUME IInv, IInv', TakeInv, [Next]_vars PROVE TakeInv'
  OBVIOUS
<1>1. CASE Next
  BY <1>1, NodeStepTake, CallStepTake, RotateTake, PersistEncryptionsTake, PutTake,
     BarrierRekeyUpdateTake DEF Next
<1>2. CASE UNCHANGED vars
  BY <1>2, StutterTake DEF vars, storageVars, nodeVars, histVars
<1>. QED  BY <1>1, <1>2

LEMMA InitTake == Init => TakeInv
<1> SUFFICES ASSUME Init PROVE TakeInv
  OBVIOUS
<1>0. PICK first : first = [master |-> 1, keys |-> <<1>>]
  OBVIOUS
<1>1. /\ keyring = first /\ masterKey = [term |-> 1, key |-> 1, master |-> 1]
      /\ upgrade = [t \in Terms |-> Nil] /\ ring = [n \in Nodes |-> first]
      /\ role = [n \in Nodes |-> "standby"] /\ checked = [t \in Terms |-> {}]
      /\ proc = [p \in Procs |-> Idle] /\ generated = [key |-> 1, master |-> 1, kek |-> 1]
      /\ mishaps = 0 /\ torn = FALSE
  BY <1>0 DEF Init
<1>2. first \in Rings /\ Len(first.keys) = 1 /\ first.keys[1] = 1 /\ first.master = 1
  BY <1>0 DEF Rings
<1>3. \A p \in Procs : proc[p].pc = "idle"
  BY <1>1 DEF Idle
<1>4. \A n \in Nodes : role[n] = "standby" /\ ring[n] = first /\ ~Active(n)
  BY <1>1 DEF Active
<1>5. Writers = {}
  BY <1>3 DEF Writers, At
<1>6. KeyBound /\ NewKeys
  BY <1>1, <1>2, <1>3, KeyringAssumption DEF KeyBound, NewKeys, Writing
<1>7. MasterKeyRead
  <2>1. Opens(first, MasterText)
    <3>1. 1 \in DOMAIN first.keys
      BY <1>2, RingLen
    <3>. QED  BY <1>1, <1>2, <3>1 DEF Opens, MasterText
  <2>. QED  BY <1>1, <1>2, <1>4, <2>1 DEF MasterKeyRead
<1>8. UpgradeKeys /\ CheckedUpgrades /\ Reloaded
  BY <1>1, <1>3, <1>4 DEF UpgradeKeys, CheckedUpgrades, Reloaded, At
<1>9. Followers
  <2> SUFFICES ASSUME NEW n \in Nodes PROVE Behind(n) /\ Chained(n) /\ CaughtUp(n)
    BY DEF Followers, Follower
  <2>1. Behind(n)
    BY <1>1, <1>2, <1>4, ExtendsSelf DEF Behind
  <2>2. Chained(n)
    <3>1. \A t \in Terms : Len(ring[n].keys) <= t => ~(t < masterKey.term)
      BY <1>1, <1>2, <1>4 DEF Terms
    <3>. QED  BY <1>4, <3>1 DEF Chained
  <2>3. CaughtUp(n)
    BY <1>1, <1>4 DEF CaughtUp
  <2>. QED  BY <2>1, <2>2, <2>3
<1>. QED  BY <1>1, <1>6, <1>7, <1>8, <1>9 DEF TakeInv

\* The inductive invariant of the nodes that follow: unless a call was cut off
\* between two writes, a node that runs finds an upgrade from its term on, or
\* one is about to be created, until it can open the master key.
THEOREM TakeInvariant == Spec => []TakeInv
  BY InitTake, NextTake, KeyringInvariant, PTL DEF Spec

\* A node that has the lock and is not suspect does not shut down for a key it
\* cannot read: neither an upgrade, nor the master key, nor the keyring.
LEMMA StepTakeover ==
    ASSUME IInv, TakeInv, [Next]_vars, NEW n \in Nodes,
           role[n] \in {"upgrade", "master", "keyring"}, role'[n] = "sealed", n \notin suspect
    PROVE  mishaps' > mishaps
<1>1. /\ role \in [Nodes -> Roles] /\ role[n] # "sealed" /\ ring[n] \in Rings
      /\ mishaps \in Nat
  BY Parts, TakeParts DEF Shape
<1>2. Behind(n) /\ Chained(n) /\ CaughtUp(n) /\ keyring \in Rings
  BY <1>1, FollowerParts, Numbers
<1>3. CASE Crash(n)
  BY <1>1, <1>3 DEF Crash
<1>4. CASE UpgradesDone(n)
  <2>1. role[n] = "upgrade" /\ ~UpgradeFound(n) /\ UpgradeUnreadable(n)
    BY <1>1, <1>4 DEF UpgradesDone
  <2>0. PICK t : t = Len(ring[n].keys)
    OBVIOUS
  <2>2. masterKey.term <= t
    BY <1>1, <2>0, <2>1, NoUpgrade, NothingPending
  <2>3. t \in Terms
    <3>1. Len(keyring.keys) \in 1 .. MaxKeys /\ MaxKeys \in Nat /\ t <= Len(keyring.keys)
      BY <1>2, <2>0, Numbers DEF Behind, Extends
    <3>. QED  BY <1>1, <2>0, <3>1, RingLen DEF Terms
  <2>4. upgrade[t] # Nil
    BY <2>0, <2>1 DEF UpgradeUnreadable, NextUpgrade, activeTerm
  <2>. QED  BY <1>1, <2>0, <2>1, <2>3, <2>4, UpgradeReadable
<1>5. CASE ReloadMasterKey(n)
  <2>1. role[n] = "master" /\ ~Opens(ring[n], <<masterKey.term, masterKey.key>>)
    BY <1>1, <1>5 DEF ReloadMasterKey
  <2>2. masterKey.term \in 1 .. Len(ring[n].keys)
    BY <1>1, <1>2, <2>1, Numbers, RingLen DEF CaughtUp
  <2>3. ring[n].keys[masterKey.term] = masterKey.key
    BY <1>2, <2>2, Numbers DEF Behind, Extends
  <2>4. Opens(ring[n], <<masterKey.term, masterKey.key>>)
    BY <1>1, <2>2, <2>3, RingLen DEF Opens
  <2>. QED  BY <2>1, <2>4
<1>6. CASE ReloadKeyring(n)
  <2>1. role[n] = "keyring" /\ ring[n].master # keyring.master
    BY <1>1, <1>6 DEF ReloadKeyring
  <2>2. ring[n].master = masterKey.master /\ Writers = {}
    BY <2>1, NothingPending, TakeParts DEF Reloaded
  <2>3. masterKey.master = keyring.master
    BY <1>2, <2>2, TakeParts DEF Behind, MasterKeyRead
  <2>. QED  BY <2>1, <2>2, <2>3
<1>7. ASSUME NEW m \in Nodes, m # n, NodeStep(m) PROVE role'[n] = role[n]
  BY <1>1, <1>7 DEF NodeStep, Crash, Unseal, StepDown, AcquireLock, CheckUpgrade, CheckEnds,
       UpgradesDone, ReloadMasterKey, ReloadKeyring, DestroyUpgrade, RekeyCancel,
       BarrierRekeyInit, Stop, ShutDown
<1>8. CASE NodeStep(n)
  <2>1. CASE Crash(n) \/ UpgradesDone(n) \/ ReloadMasterKey(n) \/ ReloadKeyring(n)
    BY <1>3, <1>4, <1>5, <1>6, <2>1
  <2>2. CASE ~(Crash(n) \/ UpgradesDone(n) \/ ReloadMasterKey(n) \/ ReloadKeyring(n))
    <3>1. role'[n] = role[n] \/ role'[n] \in {"standby", "upgrade"}
      BY <1>1, <1>8, <2>2 DEF NodeStep, Unseal, StepDown, AcquireLock, CheckUpgrade, CheckEnds,
           DestroyUpgrade, RekeyCancel, BarrierRekeyInit
    <3>. QED  BY <3>1
  <2>. QED  BY <2>1, <2>2
<1>9. ASSUME NEW p \in Procs, CallStep(p) PROVE role' = role
  BY <1>9 DEF CallStep, SetStoredKeys, Rekey, PutKeyring, PutMasterKey, CreateUpgrade,
       PutAfterwards, PutData, SetBarrierConfig, PutFails, nodeVars
<1>10. ASSUME NEW p \in Procs, NEW m \in Nodes,
              \/ Rotate(p, m) \/ PersistEncryptions(p, m) \/ Put(p, m) \/ RekeyVerify(p, m)
              \/ \E kek \in shares, verify \in BOOLEAN : BarrierRekeyUpdate(p, m, kek, verify)
       PROVE  role' = role
  BY <1>10 DEF Rotate, PersistEncryptions, Put, RekeyVerify, BarrierRekeyUpdate, nodeVars
<1>11. CASE UNCHANGED vars
  BY <1>11 DEF vars, nodeVars
<1>. QED  BY <1>7, <1>8, <1>9, <1>10, <1>11 DEF Next

\* A standby that gets the lock takes over, whatever was rotated and rekeyed and
\* whatever upgrades were destroyed meanwhile: it never finds a key it cannot
\* read, unless a call was cut off between its writes or it crashes itself.
THEOREM TakeoverSafety == Spec => TakeoverSucceeds
<1>1. ASSUME IInv, TakeInv, [Next]_vars
      PROVE  [\A n \in Nodes :
                role[n] \in {"upgrade", "master", "keyring"} /\ role'[n] = "sealed" =>
                    n \in suspect \/ mishaps' > mishaps]_vars
  BY <1>1, StepTakeover
<1>. QED  BY <1>1, KeyringInvariant, TakeInvariant, PTL DEF Spec, TakeoverSucceeds
=============================================================================
