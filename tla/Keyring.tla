------------------------------ MODULE Keyring -------------------------------
(***************************************************************************)
(* The keys of the barrier in a cluster: the keyring of every node in its  *)
(* memory and the entries in storage that hold it                          *)
(* (vault/barrier_aes_gcm.go, vault/keyring.go), the rotation of the       *)
(* encryption key (logical_system.go), the rekeying of the master key      *)
(* (rekey.go), and the standby that follows by the upgrade keys and takes  *)
(* over (ha.go).  The seal is Shamir's with a stored master key.           *)
(*                                                                         *)
(* A step is one operation on storage.  Rotate, Rekey and the persisting   *)
(* of the encryption count hold the write lock of the barrier over the two *)
(* writes of persistKeyring; other calls on that node and the other nodes  *)
(* run in between.  Any write may fail and any node may crash anywhere.    *)
(* The lock service is taken to keep the lock for the active node until it *)
(* has stepped down or crashed.                                            *)
(*                                                                         *)
(* Keys are numbered as they are generated.  An encryption key belongs to  *)
(* a term; two keys may be generated for one term when a write fails.  A   *)
(* ciphertext is the term and the key it was made with.                    *)
(***************************************************************************)
EXTENDS Naturals, Sequences, FiniteSets

CONSTANTS
    Nodes,
    Procs,          \* goroutines of calls on the active node
    MaxKeys,        \* how many encryption keys are generated
    MaxMasters,     \* how many master keys are generated
    MaxMishaps,     \* how many writes fail and nodes crash
    Nil

ASSUME KeyringAssumption ==
    /\ Nodes # {} /\ Nil \notin Nodes /\ Nil \notin [by : Nat, key : Nat]
    /\ {MaxKeys, MaxMasters} \subseteq Nat \ {0}
    /\ MaxMishaps \in Nat

VARIABLES
    keyring,    \* storage: core/keyring, encrypted by the master key in it
    masterKey,  \* storage: core/master, encrypted by an encryption key
    upgrade,    \* storage: core/upgrade/<term>, the key of the next term
    stored,     \* storage: the master key, wrapped by an unseal key
    config,     \* storage: the seal configuration, that of an unseal key
    written,    \* storage: the ciphertexts of all other entries
    ring,       \* node -> the keyring in its memory, Nil when it is sealed
    role,       \* node -> what it is doing
    rekey,      \* node -> Nil or the rekey in progress (barrierRekeyConfig): the
                \* unseal key that is to be verified, NoKey before that
    timers,     \* node -> the upgrades it is going to destroy
    checked,    \* term -> the nodes that looked for upgrades since there is
                \* one from this term and from those before it
    proc,       \* goroutine -> its call and where it is
    generated,  \* how many keys of each kind were generated
    shares,     \* the unseal keys whose shares the operators hold
    mishaps,
    suspect,    \* history: the nodes whose keyring may not lead to the stored
                \* one, since a call was cut off between two writes
    torn,       \* history: the last persistKeyring was cut off
    unfinished, \* history: a rekey began to write and none finished since
    kept        \* history: the upgrades that could not be destroyed

storageVars == <<keyring, masterKey, upgrade, stored, config, written>>
nodeVars == <<ring, role, rekey, timers, checked>>
histVars == <<suspect, torn, unfinished, kept>>
vars == <<storageVars, nodeVars, proc, generated, shares, mishaps, histVars>>

Terms == 1 .. MaxKeys
Keys == 1 .. MaxKeys
Masters == 1 .. MaxMasters

NoKey == 0

Keyrings == [master : Masters, keys : Seq(Keys)]
Ciphertexts == Terms \X Keys
Roles == {"sealed", "standby", "upgrade", "master", "keyring", "active"}
Idle == [pc |-> "idle", node |-> Nil, op |-> "none", new |-> Nil,
         kek |-> 0, term |-> 0, key |-> 0]

TypeOK ==
    /\ keyring \in Keyrings
    /\ masterKey \in [term : Terms, key : Keys, master : Masters]
    /\ \A t \in Terms : upgrade[t] = Nil \/ upgrade[t] \in [by : Keys, key : Keys]
    /\ stored \in [kek : Masters, master : Masters]
    /\ config \in Masters
    /\ written \subseteq Ciphertexts
    /\ \A n \in Nodes :
         /\ role[n] \in Roles
         /\ IF role[n] = "sealed" THEN ring[n] = Nil ELSE ring[n] \in Keyrings
         /\ timers[n] \subseteq Terms
         /\ rekey[n] \in {Nil, NoKey} \cup Masters
    /\ \A p \in Procs : proc[p].node # Nil => role[proc[p].node] = "active"

-----------------------------------------------------------------------------
(* The keyring (keyring.go) and what it opens.                             *)

activeTerm(r) == Len(r.keys)
ActiveKey(r) == r.keys[activeTerm(r)]

AddKey(r, k) == [r EXCEPT !.keys = Append(@, k)]
SetMasterKey(r, m) == [r EXCEPT !.master = m]

\* aeadForTerm and decrypt: the keyring has that very key for that term.
Opens(r, c) == c[1] \in DOMAIN r.keys /\ r.keys[c[1]] = c[2]

\* The node whose calls are served; there is at most one.
Active(n) == role[n] = "active"
\* Some call holds the write lock of the barrier of n.
Locked(n) ==
    \E p \in Procs : proc[p].node = n /\ proc[p].pc \in {"keyring", "masterKey"}
\* Some call holds rekeyLock, which is held over the whole of a rekey.
RekeyLocked == \E p \in Procs : proc[p].op \in {"rekey", "rekeyed"}

Init ==
    LET first == [master |-> 1, keys |-> <<1>>] IN
    /\ keyring = first
    /\ masterKey = [term |-> 1, key |-> 1, master |-> 1]
    /\ upgrade = [t \in Terms |-> Nil]
    /\ stored = [kek |-> 1, master |-> 1]
    /\ config = 1
    /\ written = {<<1, 1>>}
    /\ ring = [n \in Nodes |-> first]
    /\ role = [n \in Nodes |-> "standby"]
    /\ rekey = [n \in Nodes |-> Nil]
    /\ timers = [n \in Nodes |-> {}]
    /\ checked = [t \in Terms |-> {}]
    /\ proc = [p \in Procs |-> Idle]
    /\ generated = [key |-> 1, master |-> 1, kek |-> 1]
    /\ shares = {1}
    /\ mishaps = 0
    /\ suspect = {} /\ torn = FALSE /\ unfinished = FALSE /\ kept = {}

-----------------------------------------------------------------------------
(* Calls on the active node.                                               *)

At(p, pc) == proc[p].pc = pc
Goto(p, pc) == proc' = [proc EXCEPT ![p].pc = pc]
Return(p) == proc' = [proc EXCEPT ![p] = Idle]

\* A call begins on the active node.
Begin(p, n, call) ==
    /\ At(p, "idle") /\ Active(n)
    /\ proc' = [proc EXCEPT ![p] = [call EXCEPT !.node = n]]

\* BarrierRekeyInit: one rekey at a time.  Whether it asks for verification is
\* left open until it is looked at.
BarrierRekeyInit(n) ==
    /\ Active(n) /\ rekey[n] = Nil
    /\ rekey' = [rekey EXCEPT ![n] = NoKey]
    /\ UNCHANGED <<storageVars, ring, role, timers, checked, proc, generated,
                   shares, mishaps, histVars>>

RekeyCancel(n) ==
    /\ Active(n) /\ rekey[n] # Nil
    /\ ~RekeyLocked
    /\ rekey' = [rekey EXCEPT ![n] = Nil]
    /\ UNCHANGED <<storageVars, ring, role, timers, checked, proc, generated,
                   shares, mishaps, histVars>>

\* The shares that are given open the stored master key, and it is the one of
\* the barrier (VerifyMaster).
SharesVerified(n, kek) ==
    kek = config /\ stored.kek = kek /\ stored.master = ring[n].master

\* BarrierRekeyUpdate, with the last share that is needed: it makes a new
\* unseal key and hands out its shares for verification, or installs it now.
BarrierRekeyUpdate(p, n, kek, verify) ==
    LET new == generated.kek + 1 IN
    /\ Active(n) /\ At(p, "idle") /\ ~Locked(n)
    /\ rekey[n] = NoKey
    /\ ~RekeyLocked
    /\ kek \in shares /\ SharesVerified(n, kek)
    /\ new <= MaxMasters
    /\ generated' = [generated EXCEPT !.kek = new]
    /\ IF verify
       THEN /\ rekey' = [rekey EXCEPT ![n] = new]
            /\ shares' = shares \cup {new}
            /\ UNCHANGED proc
       ELSE /\ Begin(p, n, [Idle EXCEPT !.op = "rekey", !.pc = "storeKey", !.kek = new])
            /\ UNCHANGED <<rekey, shares>>
    /\ UNCHANGED <<storageVars, ring, role, timers, checked, mishaps, histVars>>

\* RekeyVerify, with the last share that is needed.
RekeyVerify(p, n) ==
    /\ rekey[n] \notin {Nil, NoKey}
    /\ ~RekeyLocked
    /\ Begin(p, n, [Idle EXCEPT !.op = "rekey", !.pc = "storeKey", !.kek = rekey[n]])
    /\ UNCHANGED <<storageVars, nodeVars, generated, shares, mishaps, histVars>>

\* The calls ps are cut off.  The nodes that run may no longer find the way to
\* what is in storage when it was after the first write of persistKeyring, or
\* before the upgrade key was there.
CutOff(ps) ==
    /\ torn' = (torn \/ \E p \in ps : At(p, "masterKey"))
    /\ suspect' = IF \E p \in ps : At(p, "masterKey") \/ At(p, "upgrade")
                  THEN suspect \cup {m \in Nodes : role[m] # "sealed"}
                  ELSE suspect

\* A write of the call fails.  CreateUpgrade is the only one whose error is
\* not returned.
PutFails(p) ==
    /\ mishaps < MaxMishaps
    /\ proc[p].pc \in {"storeKey", "keyring", "masterKey", "upgrade", "putData", "config"}
    /\ mishaps' = mishaps + 1
    /\ CutOff({p})
    /\ IF At(p, "upgrade")
       THEN /\ timers' = [timers EXCEPT ![proc[p].node] = @ \cup {proc[p].term}]
            /\ Goto(p, "put")
       ELSE Return(p) /\ UNCHANGED timers
    /\ UNCHANGED <<storageVars, ring, role, rekey, checked, generated, shares,
                   unfinished, kept>>

\* Mutant: the new master key is wrapped by the old unseal key.
SetStoredKeys_OldWrapper(p) ==
    LET new == generated.master + 1 IN
    /\ At(p, "storeKey") /\ new <= MaxMasters
    /\ generated' = [generated EXCEPT !.master = new]
    /\ stored' = [kek |-> stored.kek, master |-> new]
    /\ proc' = [proc EXCEPT ![p].pc = "rekey", ![p].key = new]
    /\ unfinished' = TRUE
    /\ UNCHANGED <<keyring, masterKey, upgrade, config, written, nodeVars, shares,
                   mishaps, suspect, torn, kept>>

\* performBarrierRekey stores the new master key under the new unseal key.
SetStoredKeys(p) ==
    LET new == generated.master + 1 IN
    /\ At(p, "storeKey") /\ new <= MaxMasters
    /\ generated' = [generated EXCEPT !.master = new]
    /\ stored' = [kek |-> proc[p].kek, master |-> new]
    /\ proc' = [proc EXCEPT ![p].pc = "rekey", ![p].key = new]
    /\ unfinished' = TRUE
    /\ UNCHANGED <<keyring, masterKey, upgrade, config, written, nodeVars, shares,
                   mishaps, suspect, torn, kept>>

\* Rotate takes the write lock of the barrier and makes a new key, for a
\* request or for autoRotateBarrierLoop.
Rotate(p, n) ==
    LET k == generated.key + 1 IN
    /\ k <= MaxKeys /\ ~Locked(n)
    /\ generated' = [generated EXCEPT !.key = k]
    /\ Begin(p, n, [Idle EXCEPT !.op = "rotate", !.pc = "keyring", !.new = AddKey(ring[n], k)])
    /\ UNCHANGED <<storageVars, nodeVars, shares, mishaps, histVars>>

\* autoRotateBarrierLoop persists the keyring with the count of encryptions.
PersistEncryptions(p, n) ==
    /\ ~Locked(n)
    /\ Begin(p, n, [Idle EXCEPT !.op = "persist", !.pc = "keyring", !.new = ring[n]])
    /\ UNCHANGED <<storageVars, nodeVars, generated, shares, mishaps, histVars>>

\* Rekey takes the write lock, too.
Rekey(p) ==
    LET n == proc[p].node IN
    /\ At(p, "rekey") /\ ~Locked(n)
    /\ proc' = [proc EXCEPT ![p].pc = "keyring", ![p].new = SetMasterKey(ring[n], proc[p].key)]
    /\ UNCHANGED <<storageVars, nodeVars, generated, shares, mishaps, histVars>>

\* persistKeyring writes the keyring, encrypted by its master key.
PutKeyring(p) ==
    /\ At(p, "keyring")
    /\ keyring' = proc[p].new
    /\ Goto(p, "masterKey")
    /\ UNCHANGED <<masterKey, upgrade, stored, config, written, nodeVars, generated,
                   shares, mishaps, histVars>>

\* Then it writes the master key for the standbys, encrypted by the active key
\* of the new keyring, and the caller swaps the keyrings.
PutMasterKey(p) ==
    LET n == proc[p].node
        new == proc[p].new
    IN
    /\ At(p, "masterKey")
    /\ masterKey' = [term |-> activeTerm(new), key |-> ActiveKey(new), master |-> new.master]
    /\ ring' = [ring EXCEPT ![n] = new]
    /\ torn' = FALSE
    /\ suspect' = suspect \ {n}
    /\ CASE proc[p].op = "rotate" ->
              proc' = [proc EXCEPT ![p].pc = "upgrade", ![p].new = Nil,
                                   ![p].term = activeTerm(new) - 1]
         [] proc[p].op = "rekey" ->
              proc' = [proc EXCEPT ![p].pc = "put", ![p].new = Nil, ![p].key = 0]
         [] OTHER -> Return(p)
    /\ UNCHANGED <<keyring, upgrade, stored, config, written, role, rekey, timers,
                   checked, generated, shares, mishaps, unfinished, kept>>

\* Mutant: the upgrade to the active term, instead of that of this rotation.
CreateUpgrade_Active(p) ==
    LET n == proc[p].node
        t == activeTerm(ring[n]) - 1
    IN
    /\ At(p, "upgrade") /\ ~Locked(n)
    /\ upgrade' = [upgrade EXCEPT ![t] = [by |-> ring[n].keys[t], key |-> ring[n].keys[t + 1]]]
    /\ checked' = [s \in Terms |-> IF s >= t THEN {} ELSE checked[s]]
    /\ timers' = [timers EXCEPT ![n] = @ \cup {t}]
    /\ Goto(p, "put")
    /\ UNCHANGED <<keyring, masterKey, stored, config, written, ring, role, rekey,
                   generated, shares, mishaps, histVars>>

\* CreateUpgrade: the key of the new term, encrypted by that of the term before
\* it.  rotateBarrierKey schedules its destruction.
CreateUpgrade(p) ==
    LET n == proc[p].node
        t == proc[p].term
    IN
    /\ At(p, "upgrade") /\ ~Locked(n)
    /\ upgrade' = [upgrade EXCEPT ![t] = [by |-> ring[n].keys[t], key |-> ring[n].keys[t + 1]]]
    /\ checked' = [s \in Terms |-> IF s >= t THEN {} ELSE checked[s]]
    /\ timers' = [timers EXCEPT ![n] = @ \cup {t}]
    /\ Goto(p, "put")
    /\ UNCHANGED <<keyring, masterKey, stored, config, written, ring, role, rekey,
                   generated, shares, mishaps, histVars>>

\* Put reads the active key under the lock and writes after it has released
\* it: the entry of a request, the canary, the new unseal key.
WithActiveKey(call, r) ==
    [call EXCEPT !.pc = "putData", !.term = activeTerm(r), !.key = ActiveKey(r)]

Put(p, n) ==
    /\ ~Locked(n)
    /\ Begin(p, n, WithActiveKey(Idle, ring[n]))
    /\ UNCHANGED <<storageVars, nodeVars, generated, shares, mishaps, histVars>>

PutAfterwards(p) ==
    /\ At(p, "put") /\ ~Locked(proc[p].node)
    /\ proc' = [proc EXCEPT ![p] = WithActiveKey(@, ring[proc[p].node])]
    /\ UNCHANGED <<storageVars, nodeVars, generated, shares, mishaps, histVars>>

PutData(p) ==
    LET n == proc[p].node IN
    /\ At(p, "putData")
    /\ written' = written \cup {<<proc[p].term, proc[p].key>>}
    /\ CASE proc[p].op = "rekey" ->
              /\ rekey' = [rekey EXCEPT ![n] = NoKey]
              /\ proc' = [proc EXCEPT ![p].pc = "config", ![p].term = 0, ![p].key = 0]
              /\ UNCHANGED <<shares, unfinished>>
         [] proc[p].op = "rekeyed" ->
              /\ rekey' = [rekey EXCEPT ![n] = Nil]
              /\ shares' = shares \cup {proc[p].kek}
              /\ unfinished' = FALSE
              /\ Return(p)
         [] OTHER -> Return(p) /\ UNCHANGED <<rekey, shares, unfinished>>
    /\ UNCHANGED <<keyring, masterKey, upgrade, stored, config, ring, role, timers,
                   checked, generated, mishaps, suspect, torn, kept>>

\* SetBarrierConfig: the shares and the threshold of the new unseal key.
SetBarrierConfig(p) ==
    /\ At(p, "config")
    /\ config' = proc[p].kek
    /\ unfinished' = (proc[p].kek \notin shares)
    /\ proc' = [proc EXCEPT ![p].pc = "put", ![p].op = "rekeyed"]
    /\ UNCHANGED <<keyring, masterKey, upgrade, stored, written, nodeVars, generated,
                   shares, mishaps, suspect, torn, kept>>

-----------------------------------------------------------------------------
(* Nodes come and go.                                                      *)

Stop(n) ==
    /\ role' = [role EXCEPT ![n] = "sealed"]
    /\ ring' = [ring EXCEPT ![n] = Nil]
    /\ rekey' = [rekey EXCEPT ![n] = Nil]
    /\ timers' = [timers EXCEPT ![n] = {}]

Crash(n) ==
    LET ps == {p \in Procs : proc[p].node = n} IN
    /\ mishaps < MaxMishaps /\ role[n] # "sealed"
    /\ mishaps' = mishaps + 1
    /\ Stop(n)
    /\ proc' = [p \in Procs |-> IF p \in ps THEN Idle ELSE proc[p]]
    /\ CutOff(ps)
    /\ UNCHANGED <<storageVars, checked, generated, shares, unfinished, kept>>

\* The shares combine, as the stored configuration says, to a key that opens
\* the stored master key, and that opens the keyring.
Unlocks(kek) == kek = config /\ stored.kek = kek /\ stored.master = keyring.master

\* unsealKeyToMasterKey and Unseal, with the last share that is needed.
Unseal(n) ==
    /\ role[n] = "sealed" /\ \E kek \in shares : Unlocks(kek)
    /\ role' = [role EXCEPT ![n] = "standby"]
    /\ ring' = [ring EXCEPT ![n] = keyring]
    /\ suspect' = IF torn THEN suspect \cup {n} ELSE suspect \ {n}
    /\ UNCHANGED <<storageVars, rekey, timers, checked, proc, generated, shares,
                   mishaps, torn, unfinished, kept>>

\* The active node gives up the lock when its requests are done.
StepDown(n) ==
    /\ Active(n) /\ \A p \in Procs : proc[p].node # n
    /\ role' = [role EXCEPT ![n] = "standby"]
    /\ rekey' = [rekey EXCEPT ![n] = Nil]
    /\ UNCHANGED <<storageVars, ring, timers, checked, proc, generated, shares,
                   mishaps, histVars>>

-----------------------------------------------------------------------------
(* A standby follows, and takes over.                                      *)

NextUpgrade(n) == upgrade[activeTerm(ring[n])]

\* CheckUpgrade finds the key of the next term and can read it.
UpgradeFound(n) ==
    /\ activeTerm(ring[n]) < MaxKeys
    /\ NextUpgrade(n) # Nil /\ NextUpgrade(n).by = ActiveKey(ring[n])
UpgradeUnreadable(n) ==
    NextUpgrade(n) # Nil /\ NextUpgrade(n).by # ActiveKey(ring[n])

\* checkKeyUpgrades installs one key after the other.
CheckUpgrade(n) ==
    /\ role[n] \in {"standby", "upgrade"} /\ UpgradeFound(n)
    /\ ring' = [ring EXCEPT ![n] = AddKey(@, NextUpgrade(n).key)]
    /\ UNCHANGED <<storageVars, role, rekey, timers, checked, proc, generated,
                   shares, mishaps, histVars>>

\* The periodic check of a standby ends: no upgrade is left, or it could not
\* be read.
CheckEnds(n) ==
    /\ role[n] = "standby" /\ ~UpgradeFound(n)
    /\ checked' = [t \in Terms |-> IF upgrade[t] = Nil THEN {} ELSE checked[t] \cup {n}]
    /\ checked' # checked
    /\ UNCHANGED <<storageVars, ring, role, rekey, timers, proc, generated, shares,
                   mishaps, histVars>>

\* A standby gets the lock of the cluster.
AcquireLock(n) ==
    /\ role[n] = "standby"
    /\ \A m \in Nodes : role[m] \in {"sealed", "standby"}
    /\ role' = [role EXCEPT ![n] = "upgrade"]
    /\ UNCHANGED <<storageVars, ring, rekey, timers, checked, proc, generated, shares,
                   mishaps, histVars>>

\* performKeyUpgrades failed: the node shuts down and releases the lock.
ShutDown(n) ==
    /\ Stop(n)
    /\ UNCHANGED <<storageVars, checked, proc, generated, shares, mishaps, histVars>>

\* performKeyUpgrades: the upgrades first.
UpgradesDone(n) ==
    /\ role[n] = "upgrade" /\ ~UpgradeFound(n)
    /\ \/ UpgradeUnreadable(n) /\ ShutDown(n)
       \/ /\ ~UpgradeUnreadable(n)
          /\ role' = [role EXCEPT ![n] = "master"]
          /\ UNCHANGED <<storageVars, ring, rekey, timers, checked, proc, generated,
                         shares, mishaps, histVars>>

\* Then the master key, which the keyring must be able to read.
ReloadMasterKey(n) ==
    LET readable == Opens(ring[n], <<masterKey.term, masterKey.key>>) IN
    /\ role[n] = "master"
    /\ \/ ~readable /\ ShutDown(n)
       \/ /\ readable
          /\ ring' = [ring EXCEPT ![n] = SetMasterKey(@, masterKey.master)]
          /\ role' = [role EXCEPT ![n] = "keyring"]
          /\ UNCHANGED <<storageVars, rekey, timers, checked, proc, generated,
                         shares, mishaps, histVars>>

\* Mutant: the keyring in memory is kept.
ReloadKeyring_Skip(n) ==
    /\ role[n] = "keyring"
    /\ role' = [role EXCEPT ![n] = "active"]
    /\ timers' = [timers EXCEPT ![n] = @ \cup {t \in Terms : upgrade[t] # Nil}]
    /\ suspect' = suspect \ {n}
    /\ UNCHANGED <<storageVars, ring, rekey, checked, proc, generated, shares,
                   mishaps, torn, unfinished, kept>>

\* Mutant: no cleanup is scheduled.
ReloadKeyring_NoCleanup(n) ==
    /\ role[n] = "keyring" /\ ring[n].master = keyring.master
    /\ ring' = [ring EXCEPT ![n] = keyring]
    /\ role' = [role EXCEPT ![n] = "active"]
    /\ suspect' = suspect \ {n}
    /\ UNCHANGED <<storageVars, rekey, timers, checked, proc, generated, shares,
                   mishaps, torn, unfinished, kept>>

\* Then the keyring, which the master key must open; then
\* scheduleUpgradeCleanup.  The node becomes active.
ReloadKeyring(n) ==
    LET opens == ring[n].master = keyring.master IN
    /\ role[n] = "keyring"
    /\ \/ ~opens /\ ShutDown(n)
       \/ /\ opens
          /\ ring' = [ring EXCEPT ![n] = keyring]
          /\ role' = [role EXCEPT ![n] = "active"]
          /\ timers' = [timers EXCEPT ![n] = @ \cup {t \in Terms : upgrade[t] # Nil}]
          /\ suspect' = suspect \ {n}
          /\ UNCHANGED <<storageVars, rekey, checked, proc, generated, shares,
                         mishaps, torn, unfinished, kept>>

\* The grace period is longer than a call may take and, after that, the
\* interval of the checks of the standbys (120, 90 and 10 seconds).
GracePeriodOver(t) ==
    /\ \A p \in Procs : At(p, "upgrade") => proc[p].term > t
    /\ \A n \in {m \in Nodes : role[m] # "sealed"} :
          n \in checked[t] \/ activeTerm(ring[n]) > t

\* A timer destroys the upgrade from term t; it is not tried again.
DestroyUpgrade(n, t) ==
    /\ t \in timers[n] /\ ~Locked(n) /\ GracePeriodOver(t)
    /\ timers' = [timers EXCEPT ![n] = @ \ {t}]
    /\ \/ /\ upgrade' = [upgrade EXCEPT ![t] = Nil]
          /\ checked' = [checked EXCEPT ![t] = {}]
          /\ UNCHANGED <<mishaps, kept>>
       \/ /\ mishaps < MaxMishaps /\ upgrade[t] # Nil
          /\ mishaps' = mishaps + 1
          /\ kept' = kept \cup {t}
          /\ UNCHANGED <<upgrade, checked>>
    /\ UNCHANGED <<keyring, masterKey, stored, config, written, ring, role, rekey,
                   proc, generated, shares, suspect, torn, unfinished>>

-----------------------------------------------------------------------------
CallStep(p) ==
    \/ SetStoredKeys(p) \/ Rekey(p) \/ PutKeyring(p) \/ PutMasterKey(p)
    \/ CreateUpgrade(p) \/ PutAfterwards(p) \/ PutData(p) \/ SetBarrierConfig(p)
    \/ PutFails(p)

NodeStep(n) ==
    \/ Crash(n) \/ Unseal(n) \/ StepDown(n) \/ AcquireLock(n)
    \/ CheckUpgrade(n) \/ CheckEnds(n) \/ UpgradesDone(n)
    \/ ReloadMasterKey(n) \/ ReloadKeyring(n)
    \/ \E t \in Terms : DestroyUpgrade(n, t)
    \/ RekeyCancel(n) \/ BarrierRekeyInit(n)

Next ==
    \/ \E n \in Nodes : NodeStep(n)
    \/ \E p \in Procs : CallStep(p)
    \/ \E p \in Procs, n \in Nodes :
         \/ Rotate(p, n) \/ PersistEncryptions(p, n) \/ Put(p, n) \/ RekeyVerify(p, n)
         \/ \E kek \in shares, verify \in BOOLEAN : BarrierRekeyUpdate(p, n, kek, verify)

Spec == Init /\ [][Next]_vars

-----------------------------------------------------------------------------
(* Properties.                                                             *)

\* No write is lost to a rotation, a failed one or a change of the leader:
\* whatever was written can be read by the active node, and by any node that
\* loads the keyring from storage.
DataReadable ==
    \A c \in written :
        /\ Opens(keyring, c)
        /\ \A n \in Nodes : Active(n) => Opens(ring[n], c)

\* "Both the rekey and rotate operations can be done online and in a highly
\* available configuration": a standby that gets the lock takes over, without
\* being unsealed anew, unless a call was cut off between its writes.
TakeoverSucceeds ==
    [][\A n \in Nodes :
         role[n] \in {"upgrade", "master", "keyring"} /\ role'[n] = "sealed" =>
             n \in suspect \/ mishaps' > mishaps]_vars

\* The operators hold shares that unseal the vault, whatever was rotated or
\* rekeyed, except after a rekey that has not finished.
Unsealable == unfinished \/ \E kek \in shares : Unlocks(kek)

\* An upgrade key "is only available for a few minutes": some node will destroy
\* it, or the next active node will find it, unless the deletion failed.
UpgradeWillGo ==
    \A t \in Terms \ kept : upgrade[t] # Nil =>
        \/ \E n \in Nodes : t \in timers[n]
        \/ \A n \in Nodes : ~Active(n)
=============================================================================
