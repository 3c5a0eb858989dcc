---------------------------- MODULE StoresProofs ----------------------------
(***************************************************************************)
(* Proofs about the keys of the wallet (KeyManager) and about the block    *)
(* database: Ffldb implements BlockDb, and its files have what its rows    *)
(* locate.                                                                 *)
(***************************************************************************)
EXTENDS KeyManager, Ffldb, SetSums

-----------------------------------------------------------------------------
(* KeyManager *)

\* A view of the database: what it holds, and every stored address is below the
\* next index of its account.
DiskOK(d) ==
    /\ d = [next |-> d.next, addrs |-> d.addrs, keys |-> d.keys, pub |-> d.pub, priv |-> d.priv]
    /\ d.next \in [DOMAIN d.next -> 0..KmMaxIndex] /\ DOMAIN d.next \subseteq KmAll
    /\ d.addrs \subseteq KmAddress /\ d.keys \subseteq KmKeys /\ d.pub \in KmPass /\ d.priv \in KmPass
    /\ \A x \in d.addrs : x[1] \in DOMAIN d.next /\ x[2] < d.next[x[1]]

\* The cached accounts, whose private keys are there just while the manager is
\* unlocked.
AcctOK(accts, locked) ==
    /\ DOMAIN accts \subseteq KmAll
    /\ accts \in [DOMAIN accts -> [next : 0..KmMaxIndex, priv : BOOLEAN]]
    /\ \A a \in DOMAIN accts \cap KmAccounts : accts[a].priv = ~locked

\* The cached index of an account is not behind a view of the database.
Covers(accts, d) == \A a \in DOMAIN d.next \cap DOMAIN accts : accts[a].next >= d.next[a]

\* The open transaction: what nextAddresses left for its commit is about a cached
\* account; all others in memory are ahead of the transaction already, and those
\* that are not in memory are as they were committed.
OnCommitOK(c, d, accts) ==
    /\ c = [acct |-> c.acct, index |-> c.index, enc |-> c.enc]
    /\ c.acct \in DOMAIN d.next \cap DOMAIN accts
    /\ c.index \in 0..KmMaxIndex - 1 /\ d.next[c.acct] = c.index + 1
TxOK ==
    kmTx.open =>
        /\ kmTx = [open |-> TRUE, disk |-> kmTx.disk, onCommit |-> kmTx.onCommit]
        /\ DiskOK(kmTx.disk) /\ kmTx.disk.priv = kmDisk.priv
        /\ kmTx.onCommit # NoCommit => OnCommitOK(kmTx.onCommit, kmTx.disk, kmAcct)
        /\ \A a \in DOMAIN kmTx.disk.next :
              kmTx.onCommit = NoCommit \/ a # kmTx.onCommit.acct =>
                 IF a \in DOMAIN kmAcct THEN kmAcct[a].next >= kmTx.disk.next[a]
                 ELSE a \in DOMAIN kmDisk.next /\ kmDisk.next[a] = kmTx.disk.next[a]

\* The inductive invariant.
KeyManagerIInv ==
    /\ DiskOK(kmDisk) /\ AcctOK(kmAcct, kmLocked) /\ Covers(kmAcct, kmDisk)
    /\ kmTx.open \in BOOLEAN /\ TxOK
    /\ kmPub \in KmPass /\ kmPriv = kmDisk.priv
    /\ kmDerive \subseteq KmAll /\ UnlockOpens
    /\ DOMAIN kmAddrs \subseteq KmAddress \cup {Imported(k) : k \in KmKeys}
    /\ kmLocked \in BOOLEAN /\ kmHold \in BOOLEAN /\ (kmHold => ~kmLocked)

\* What loadAccountInfo leaves in memory.
LEMMA LoadFacts ==
    ASSUME AcctOK(kmAcct, kmLocked), kmLocked \in BOOLEAN, kmDerive \subseteq KmAll, UnlockOpens,
           NEW d, DiskOK(d), NEW acct \in DOMAIN d.next
    PROVE  LET load == LoadAccountInfo(d, acct)
           IN  /\ DOMAIN load.accts = DOMAIN kmAcct \cup {acct}
               /\ AcctOK(load.accts, kmLocked)
               /\ \A a \in DOMAIN kmAcct : load.accts[a] = kmAcct[a]
               /\ acct \notin DOMAIN kmAcct => load.accts[acct].next = d.next[acct]
               /\ load.derive \subseteq KmAll /\ load.derive \ KmWatchAccounts \subseteq DOMAIN load.accts
<1> DEFINE load == LoadAccountInfo(d, acct)
<1>1. CASE acct \in DOMAIN kmAcct
  <2>1. load.accts = kmAcct /\ load.derive = kmDerive
    BY <1>1 DEF LoadAccountInfo
  <2> QED
    BY <1>1, <2>1 DEF UnlockOpens
<1>2. CASE acct \notin DOMAIN kmAcct
  <2> DEFINE info == [next |-> d.next[acct], priv |-> HasPriv(acct)]
  <2>1. load.accts = Put(kmAcct, acct, info) /\ load.derive \subseteq kmDerive \cup {acct}
    BY <1>2 DEF LoadAccountInfo
  <2>2. HasPriv(acct) \in BOOLEAN /\ (acct \in KmAccounts => HasPriv(acct) = ~kmLocked)
    BY DEF HasPriv
  <2>3. info \in [next : 0..KmMaxIndex, priv : BOOLEAN] /\ info.next = d.next[acct]
        /\ (acct \in KmAccounts => info.priv = ~kmLocked)
    <3>1. d.next[acct] \in 0..KmMaxIndex
      BY DEF DiskOK
    <3> QED
      BY <2>2, <3>1
  <2> HIDE DEF info
  <2>4. load.accts = [x \in DOMAIN kmAcct \cup {acct} |-> IF x = acct THEN info ELSE kmAcct[x]]
    BY <2>1 DEF Put
  <2>5. acct \in KmAll
    BY DEF DiskOK
  <2> HIDE DEF load
  <2>6. DOMAIN load.accts = DOMAIN kmAcct \cup {acct} /\ load.accts[acct] = info
        /\ \A a \in DOMAIN kmAcct : load.accts[a] = kmAcct[a]
    BY <1>2, <2>4
  <2>7. AcctOK(load.accts, kmLocked)
    BY <2>3, <2>4, <2>5, <2>6 DEF AcctOK
  <2> QED
    BY <2>1, <2>3, <2>5, <2>6, <2>7 DEF UnlockOpens, load
<1> QED
  BY <1>1, <1>2

\* The invariant says what the run checks.
LEMMA KeyManagerIInvImplies == KeyManagerIInv => KeyManagerInvariant
<1> SUFFICES ASSUME KeyManagerIInv PROVE KeyManagerInvariant
  OBVIOUS
<1>1. DiskOK(kmDisk) /\ AcctOK(kmAcct, kmLocked) /\ Covers(kmAcct, kmDisk) /\ kmPriv = kmDisk.priv
  BY DEF KeyManagerIInv
<1>2. IndexNeverBehind
  <2> SUFFICES ASSUME NEW a \in DOMAIN kmDisk.next
               PROVE  /\ <<a, kmDisk.next[a]>> \notin kmDisk.addrs
                      /\ a \in DOMAIN kmAcct => kmAcct[a].next >= kmDisk.next[a]
    BY DEF IndexNeverBehind
  <2>1. kmDisk.next[a] \in Nat /\ ~(kmDisk.next[a] < kmDisk.next[a])
    BY <1>1, KeyManagerAssumption DEF DiskOK
  <2>2. ASSUME <<a, kmDisk.next[a]>> \in kmDisk.addrs PROVE FALSE
    <3>1. <<a, kmDisk.next[a]>>[1] = a /\ <<a, kmDisk.next[a]>>[2] = kmDisk.next[a]
      OBVIOUS
    <3>2. kmDisk.next[a] < kmDisk.next[a]
      BY <1>1, <2>2, <3>1 DEF DiskOK
    <3> QED
      BY <2>1, <3>2
  <2> QED
    BY <1>1, <2>2 DEF Covers
<1>3. KeyManagerTypeOK
  BY <1>1 DEF KeyManagerIInv, DiskOK, AcctOK, KeyManagerTypeOK
<1>4. HeldIsUnlocked
  BY <1>1 DEF KeyManagerIInv, AcctOK, HeldIsUnlocked
<1> QED
  BY <1>1, <1>2, <1>3, <1>4 DEF KeyManagerIInv, KeyManagerInvariant, PassphraseKept

\* A wallet that has just been opened: nothing is cached and no transaction runs.
LEMMA KeyManagerInitIInv == KeyManagerInit => KeyManagerIInv
<1> SUFFICES ASSUME KeyManagerInit PROVE KeyManagerIInv
  OBVIOUS
<1>1. PICK a \in KmAccounts, p \in KmPass :
        kmDisk = [next |-> [x \in {a} |-> 0], addrs |-> {}, keys |-> {}, pub |-> p, priv |-> p]
  <2>1. (CHOOSE x \in KmAccounts : TRUE) \in KmAccounts /\ (CHOOSE x \in KmPass : TRUE) \in KmPass
    BY KeyManagerAssumption
  <2> QED
    BY <2>1 DEF KeyManagerInit
<1>3. DiskOK(kmDisk)
  BY <1>1, KeyManagerAssumption DEF DiskOK, KmAll
<1>4. /\ kmTx = KmNoTx /\ DOMAIN kmAcct = {} /\ DOMAIN kmAddrs = {} /\ kmDerive = {} /\ kmLocked = TRUE
      /\ kmAcct = <<>> /\ kmPub = kmDisk.pub /\ kmPriv = kmDisk.priv /\ kmHold = FALSE
  BY DEF KeyManagerInit
<1>5. AcctOK(kmAcct, kmLocked) /\ Covers(kmAcct, kmDisk)
  BY <1>4 DEF AcctOK, Covers
<1>6. kmTx.open = FALSE
  BY <1>4 DEF KmNoTx
<1>7. kmPub \in KmPass
  BY <1>3, <1>4 DEF DiskOK
<1> QED
  BY <1>3, <1>4, <1>5, <1>6, <1>7 DEF KeyManagerIInv, TxOK, UnlockOpens

\* Opening a transaction keeps the invariant when its view of the database is
\* sound and memory is ahead of it, but for the account whose index moves at the
\* commit.
LEMMA BeginStep ==
    ASSUME KeyManagerIInv, NEW d, NEW c, Begin(d, c),
           kmDisk' = kmDisk, kmLocked' = kmLocked, kmPub' = kmPub, kmPriv' = kmPriv, kmHold' = kmHold,
           DiskOK(d), d.priv = kmDisk.priv,
           AcctOK(kmAcct', kmLocked), Covers(kmAcct', kmDisk),
           c # NoCommit => OnCommitOK(c, d, kmAcct'),
           \A a \in DOMAIN d.next : c = NoCommit \/ a # c.acct =>
               IF a \in DOMAIN kmAcct' THEN kmAcct'[a].next >= d.next[a]
               ELSE a \in DOMAIN kmDisk.next /\ kmDisk.next[a] = d.next[a],
           kmDerive' \subseteq KmAll, kmDerive' \ KmWatchAccounts \subseteq DOMAIN kmAcct',
           DOMAIN kmAddrs' \subseteq KmAddress \cup {Imported(k) : k \in KmKeys}
    PROVE  KeyManagerIInv'
<1>1. kmTx' = [open |-> TRUE, disk |-> d, onCommit |-> c]
  BY DEF Begin
<1>2. kmTx'.open = TRUE /\ kmTx'.disk = d /\ kmTx'.onCommit = c
  BY <1>1
<1>3. TxOK'
  BY <1>1, <1>2 DEF TxOK
<1> QED
  BY <1>2, <1>3 DEF KeyManagerIInv, UnlockOpens

\* A step that leaves database and transaction alone, and only adds accounts to
\* the cache as they are in the database.
LEMMA CacheStep ==
    ASSUME KeyManagerIInv, NEW acct \in DOMAIN kmDisk.next,
           kmAcct' = LoadAccountInfo(kmDisk, acct).accts,
           kmDerive' \subseteq LoadAccountInfo(kmDisk, acct).derive \cup {acct},
           DOMAIN kmAddrs' \subseteq KmAddress \cup {Imported(k) : k \in KmKeys},
           kmDisk' = kmDisk, kmTx' = kmTx, kmLocked' = kmLocked, kmPub' = kmPub, kmPriv' = kmPriv,
           kmHold' = kmHold
    PROVE  KeyManagerIInv'
<1> DEFINE load == LoadAccountInfo(kmDisk, acct)
<1>1. /\ DOMAIN kmAcct' = DOMAIN kmAcct \cup {acct} /\ AcctOK(kmAcct', kmLocked)
      /\ \A a \in DOMAIN kmAcct : kmAcct'[a] = kmAcct[a]
      /\ acct \notin DOMAIN kmAcct => kmAcct'[acct].next = kmDisk.next[acct]
      /\ load.derive \subseteq KmAll /\ load.derive \ KmWatchAccounts \subseteq DOMAIN kmAcct'
  BY LoadFacts DEF KeyManagerIInv
<1> HIDE DEF load
<1>2. kmDisk.next[acct] \in Nat /\ acct \in KmAll /\ kmDisk.next[acct] >= kmDisk.next[acct]
  BY KeyManagerAssumption DEF KeyManagerIInv, DiskOK
<1>3. Covers(kmAcct', kmDisk)
  BY <1>1, <1>2 DEF KeyManagerIInv, Covers
<1>4. TxOK'
  <2> SUFFICES ASSUME kmTx.open PROVE TxOK'
    BY DEF TxOK
  <2>1. kmTx.onCommit # NoCommit => OnCommitOK(kmTx.onCommit, kmTx.disk, kmAcct')
    BY <1>1 DEF KeyManagerIInv, TxOK, OnCommitOK
  <2>2. ASSUME NEW a \in DOMAIN kmTx.disk.next, kmTx.onCommit = NoCommit \/ a # kmTx.onCommit.acct
        PROVE  IF a \in DOMAIN kmAcct' THEN kmAcct'[a].next >= kmTx.disk.next[a]
               ELSE a \in DOMAIN kmDisk.next /\ kmDisk.next[a] = kmTx.disk.next[a]
    BY <1>1, <1>2, <2>2 DEF KeyManagerIInv, TxOK
  <2> QED
    BY <2>1, <2>2 DEF KeyManagerIInv, TxOK
<1>5. kmDerive' \subseteq KmAll /\ UnlockOpens'
  BY <1>1, <1>2 DEF UnlockOpens, load
<1> QED
  BY <1>1, <1>3, <1>4, <1>5 DEF KeyManagerIInv

\* nextAddresses: the address is the next one in memory, the file follows with the transaction.
LEMMA NextAddressesStep ==
    ASSUME KeyManagerIInv, NEW acct \in KmAll, NextAddresses(acct)
    PROVE  KeyManagerIInv'
<1> DEFINE load == LoadAccountInfo(kmDisk, acct)
<1> DEFINE info == load.accts[acct]
<1> DEFINE addr == <<acct, info.next>>
<1> DEFINE d == [kmDisk EXCEPT !.next[acct] = info.next + 1, !.addrs = @ \cup {addr}]
<1> DEFINE c == [acct |-> acct, index |-> info.next, enc |-> HasPriv(acct)]
<1>1. /\ acct \in DOMAIN kmDisk.next /\ info.next < KmMaxIndex /\ Begin(d, c)
      /\ kmAcct' = load.accts /\ kmAddrs' = Put(kmAddrs, addr, ManagedAddress(info))
      /\ kmDerive' \subseteq load.derive \cup {acct}
      /\ kmDisk' = kmDisk /\ kmLocked' = kmLocked /\ kmPub' = kmPub /\ kmPriv' = kmPriv /\ kmHold' = kmHold
  BY DEF NextAddresses
<1>2. /\ DOMAIN load.accts = DOMAIN kmAcct \cup {acct} /\ AcctOK(load.accts, kmLocked)
      /\ \A a \in DOMAIN kmAcct : load.accts[a] = kmAcct[a]
      /\ acct \notin DOMAIN kmAcct => load.accts[acct].next = kmDisk.next[acct]
      /\ load.derive \subseteq KmAll /\ load.derive \ KmWatchAccounts \subseteq DOMAIN load.accts
  BY <1>1, LoadFacts DEF KeyManagerIInv
<1> HIDE DEF load
<1>3. DiskOK(kmDisk) /\ Covers(kmAcct, kmDisk)
  BY DEF KeyManagerIInv
<1>4. /\ \A a \in DOMAIN kmDisk.next : kmDisk.next[a] \in Nat
      /\ info.next \in 0..KmMaxIndex - 1 /\ info.next + 1 \in 0..KmMaxIndex /\ kmDisk.next[acct] <= info.next
  <2>1. info.next \in 0..KmMaxIndex /\ \A a \in DOMAIN kmDisk.next : kmDisk.next[a] \in 0..KmMaxIndex
    BY <1>2, <1>3 DEF AcctOK, DiskOK
  <2>2. kmDisk.next[acct] <= info.next
    BY <1>1, <1>2, <1>3, <2>1, KeyManagerAssumption DEF Covers
  <2> QED
    BY <1>1, <2>1, <2>2, KeyManagerAssumption
<1> HIDE DEF info
<1>5. /\ d.next = [kmDisk.next EXCEPT ![acct] = info.next + 1] /\ d.addrs = kmDisk.addrs \cup {addr}
      /\ d.keys = kmDisk.keys /\ d.pub = kmDisk.pub /\ d.priv = kmDisk.priv
      /\ d = [next |-> d.next, addrs |-> d.addrs, keys |-> d.keys, pub |-> d.pub, priv |-> d.priv]
  <2>1. kmDisk = [next |-> kmDisk.next, addrs |-> kmDisk.addrs, keys |-> kmDisk.keys,
                  pub |-> kmDisk.pub, priv |-> kmDisk.priv]
    BY <1>3 DEF DiskOK
  <2> DEFINE n == [kmDisk.next EXCEPT ![acct] = info.next + 1]
  <2>2. d = [[kmDisk EXCEPT !.next = n] EXCEPT !.addrs = kmDisk.addrs \cup {addr}]
    BY <2>1
  <2> HIDE DEF d, n
  <2>3. d = [next |-> n, addrs |-> kmDisk.addrs \cup {addr},
             keys |-> kmDisk.keys, pub |-> kmDisk.pub, priv |-> kmDisk.priv]
    BY <2>1, <2>2
  <2> QED
    BY <2>3 DEF n
<1>6. DOMAIN d.next = DOMAIN kmDisk.next /\ d.next[acct] = info.next + 1
      /\ \A a \in DOMAIN kmDisk.next \ {acct} : d.next[a] = kmDisk.next[a]
  BY <1>1, <1>5
<1>7. addr \in KmAddress /\ addr[1] = acct /\ addr[2] = info.next /\ addr \in DOMAIN kmAddrs'
  BY <1>1, <1>4 DEF KmAddress, Put
<1>8. DiskOK(d)
  <2>1. d.next \in [DOMAIN d.next -> 0..KmMaxIndex]
    BY <1>3, <1>4, <1>5 DEF DiskOK
  <2>2. ASSUME NEW x \in d.addrs PROVE x[1] \in DOMAIN d.next /\ x[2] < d.next[x[1]]
    <3>1. CASE x = addr
      BY <1>1, <1>4, <1>6, <1>7, <3>1
    <3>2. CASE x \in kmDisk.addrs
      <4>1. x[1] \in DOMAIN kmDisk.next /\ x[2] < kmDisk.next[x[1]] /\ x \in KmAddress
        BY <1>3, <3>2 DEF DiskOK
      <4>2. x[2] \in Nat
        BY <4>1, KeyManagerAssumption DEF KmAddress
      <4>3. CASE x[1] = acct
        BY <1>1, <1>4, <1>6, <4>1, <4>2, <4>3
      <4>4. CASE x[1] # acct
        BY <1>6, <4>1, <4>4
      <4> QED
        BY <4>3, <4>4
    <3> QED
      BY <1>5, <2>2, <3>1, <3>2
  <2> QED
    BY <1>3, <1>5, <1>6, <1>7, <2>1, <2>2 DEF DiskOK
<1>9. Covers(kmAcct', kmDisk)
  BY <1>1, <1>2, <1>3, <1>4 DEF Covers, info
<1> HIDE DEF d
<1>10. c # NoCommit => OnCommitOK(c, d, kmAcct')
  BY <1>1, <1>2, <1>4, <1>6 DEF OnCommitOK
<1>11. c.acct = acct /\ c # NoCommit
  <2>1. "index" \in DOMAIN c /\ "index" \notin DOMAIN NoCommit
    BY DEF NoCommit
  <2> QED
    BY <2>1
<1> HIDE DEF c
<1>12. ASSUME NEW a \in DOMAIN d.next, c = NoCommit \/ a # c.acct
       PROVE  IF a \in DOMAIN kmAcct' THEN kmAcct'[a].next >= d.next[a]
              ELSE a \in DOMAIN kmDisk.next /\ kmDisk.next[a] = d.next[a]
  <2>1. a # acct /\ a \in DOMAIN kmDisk.next /\ d.next[a] = kmDisk.next[a]
    BY <1>6, <1>11, <1>12
  <2> QED
    BY <1>1, <1>9, <2>1 DEF Covers
<1>13. DOMAIN kmAddrs' \subseteq KmAddress \cup {Imported(k) : k \in KmKeys}
  BY <1>1, <1>7 DEF KeyManagerIInv, Put
<1>14. kmDerive' \subseteq KmAll /\ kmDerive' \ KmWatchAccounts \subseteq DOMAIN kmAcct'
  BY <1>1, <1>2
<1> QED
  BY <1>1, <1>2, <1>5, <1>8, <1>9, <1>10, <1>12, <1>13, <1>14, BeginStep

\* extendAddresses: memory is ahead of the file until the transaction ends.
LEMMA ExtendAddressesStep ==
    ASSUME KeyManagerIInv, NEW acct \in KmAccounts, NEW last \in 0..KmMaxIndex - 1,
           ExtendAddresses(acct, last)
    PROVE  KeyManagerIInv'
<1> DEFINE load == LoadAccountInfo(kmDisk, acct)
<1> DEFINE info == load.accts[acct]
<1> DEFINE new == {<<acct, i>> : i \in info.next..last}
<1> DEFINE d == [kmDisk EXCEPT !.next[acct] = last + 1, !.addrs = @ \cup new]
<1>1. /\ acct \in DOMAIN kmDisk.next /\ info.next <= last /\ Begin(d, NoCommit)
      /\ kmAcct' = Put(load.accts, acct, [info EXCEPT !.next = last + 1])
      /\ DOMAIN kmAddrs' = new \cup DOMAIN kmAddrs
      /\ kmDerive' \subseteq load.derive \cup {acct}
      /\ kmDisk' = kmDisk /\ kmLocked' = kmLocked /\ kmPub' = kmPub /\ kmPriv' = kmPriv /\ kmHold' = kmHold
  BY DEF ExtendAddresses
<1>2. /\ DOMAIN load.accts = DOMAIN kmAcct \cup {acct} /\ AcctOK(load.accts, kmLocked)
      /\ \A a \in DOMAIN kmAcct : load.accts[a] = kmAcct[a]
      /\ acct \notin DOMAIN kmAcct => load.accts[acct].next = kmDisk.next[acct]
      /\ load.derive \subseteq KmAll /\ load.derive \ KmWatchAccounts \subseteq DOMAIN load.accts
  BY <1>1, LoadFacts DEF KeyManagerIInv
<1> HIDE DEF load
<1>3. DiskOK(kmDisk) /\ Covers(kmAcct, kmDisk)
  BY DEF KeyManagerIInv
<1>4. /\ info.next \in Nat /\ last \in Nat /\ last + 1 \in 0..KmMaxIndex /\ kmDisk.next[acct] \in Nat
      /\ info \in [next : 0..KmMaxIndex, priv : BOOLEAN] /\ kmDisk.next[acct] <= last
  <2>1. /\ info \in [next : 0..KmMaxIndex, priv : BOOLEAN]
        /\ \A a \in DOMAIN kmDisk.next : kmDisk.next[a] \in 0..KmMaxIndex
    BY <1>2, <1>3 DEF AcctOK, DiskOK
  <2>2. kmDisk.next[acct] <= info.next
    BY <1>1, <1>2, <1>3, <2>1, KeyManagerAssumption DEF Covers
  <2> QED
    BY <1>1, <2>1, <2>2, KeyManagerAssumption
<1> DEFINE moved == [info EXCEPT !.next = last + 1]
<1>5. moved \in [next : 0..KmMaxIndex, priv : BOOLEAN] /\ moved.next = last + 1 /\ moved.priv = info.priv
  BY <1>4
<1>6. kmAcct' = [x \in DOMAIN load.accts |-> IF x = acct THEN moved ELSE load.accts[x]]
  BY <1>1, <1>2 DEF Put
<1> HIDE DEF moved
<1>7. DOMAIN kmAcct' = DOMAIN load.accts /\ kmAcct'[acct] = moved
      /\ \A a \in DOMAIN load.accts \ {acct} : kmAcct'[a] = load.accts[a]
  BY <1>2, <1>6
<1>8. AcctOK(kmAcct', kmLocked)
  BY <1>2, <1>5, <1>6, <1>7 DEF AcctOK
<1>9. Covers(kmAcct', kmDisk)
  <2> SUFFICES ASSUME NEW a \in DOMAIN kmDisk.next \cap DOMAIN kmAcct'
               PROVE  kmAcct'[a].next >= kmDisk.next[a]
    BY DEF Covers
  <2>1. CASE a = acct
    BY <1>4, <1>5, <1>7, <2>1
  <2>2. CASE a # acct
    BY <1>2, <1>3, <1>7, <2>2 DEF Covers
  <2> QED
    BY <2>1, <2>2
<1>10. new \subseteq KmAddress /\ \A x \in new : x[1] = acct /\ x[2] \in Nat /\ x[2] < last + 1
  <2> SUFFICES ASSUME NEW i \in info.next..last
               PROVE  i \in 0..KmMaxIndex - 1 /\ i < last + 1 /\ acct \in KmAll
    BY DEF KmAddress
  <2> QED
    BY <1>4, KeyManagerAssumption DEF KmAll
<1> HIDE DEF new, info
<1>11. /\ d.next = [kmDisk.next EXCEPT ![acct] = last + 1] /\ d.addrs = kmDisk.addrs \cup new
       /\ d.keys = kmDisk.keys /\ d.pub = kmDisk.pub /\ d.priv = kmDisk.priv
       /\ d = [next |-> d.next, addrs |-> d.addrs, keys |-> d.keys, pub |-> d.pub, priv |-> d.priv]
  <2>1. kmDisk = [next |-> kmDisk.next, addrs |-> kmDisk.addrs, keys |-> kmDisk.keys,
                  pub |-> kmDisk.pub, priv |-> kmDisk.priv]
    BY <1>3 DEF DiskOK
  <2> DEFINE n == [kmDisk.next EXCEPT ![acct] = last + 1]
  <2>2. d = [[kmDisk EXCEPT !.next = n] EXCEPT !.addrs = kmDisk.addrs \cup new]
    BY <2>1
  <2> HIDE DEF d, n
  <2>3. d = [next |-> n, addrs |-> kmDisk.addrs \cup new,
             keys |-> kmDisk.keys, pub |-> kmDisk.pub, priv |-> kmDisk.priv]
    BY <2>1, <2>2
  <2> QED
    BY <2>3 DEF n
<1>12. DOMAIN d.next = DOMAIN kmDisk.next /\ d.next[acct] = last + 1
       /\ \A a \in DOMAIN kmDisk.next \ {acct} : d.next[a] = kmDisk.next[a]
  BY <1>1, <1>11
<1>13. DiskOK(d)
  <2>1. d.next \in [DOMAIN d.next -> 0..KmMaxIndex]
    BY <1>3, <1>4, <1>11 DEF DiskOK
  <2>2. ASSUME NEW x \in d.addrs PROVE x[1] \in DOMAIN d.next /\ x[2] < d.next[x[1]]
    <3>1. CASE x \in new
      BY <1>1, <1>10, <1>12, <3>1
    <3>2. CASE x \in kmDisk.addrs
      <4>1. x[1] \in DOMAIN kmDisk.next /\ x[2] < kmDisk.next[x[1]] /\ x \in KmAddress
        BY <1>3, <3>2 DEF DiskOK
      <4>2. x[2] \in Nat
        BY <4>1, KeyManagerAssumption DEF KmAddress
      <4>3. CASE x[1] = acct
        BY <1>1, <1>4, <1>12, <4>1, <4>2, <4>3
      <4>4. CASE x[1] # acct
        BY <1>12, <4>1, <4>4
      <4> QED
        BY <4>3, <4>4
    <3> QED
      BY <1>11, <2>2, <3>1, <3>2
  <2> QED
    BY <1>3, <1>10, <1>11, <1>12, <2>1, <2>2 DEF DiskOK
<1> HIDE DEF d
<1>14. ASSUME NEW a \in DOMAIN d.next
       PROVE  IF a \in DOMAIN kmAcct' THEN kmAcct'[a].next >= d.next[a]
              ELSE a \in DOMAIN kmDisk.next /\ kmDisk.next[a] = d.next[a]
  <2>1. CASE a = acct
    BY <1>2, <1>4, <1>5, <1>7, <1>12, <2>1
  <2>2. CASE a # acct
    BY <1>9, <1>12, <2>2 DEF Covers
  <2> QED
    BY <2>1, <2>2
<1>15. DOMAIN kmAddrs' \subseteq KmAddress \cup {Imported(k) : k \in KmKeys}
  BY <1>1, <1>10 DEF KeyManagerIInv
<1>16. kmDerive' \subseteq KmAll /\ kmDerive' \ KmWatchAccounts \subseteq DOMAIN kmAcct'
  BY <1>1, <1>2, <1>7 DEF KmAll
<1> QED
  BY <1>1, <1>8, <1>9, <1>11, <1>13, <1>14, <1>15, <1>16, BeginStep

\* ImportPrivateKey and NewAccount.
LEMMA ImportPrivateKeyStep ==
    ASSUME KeyManagerIInv, NEW k \in KmKeys, ImportPrivateKey(k)
    PROVE  KeyManagerIInv'
<1> DEFINE d == [kmDisk EXCEPT !.keys = @ \cup {k}]
<1>1. /\ Begin(d, NoCommit) /\ kmAddrs' = Put(kmAddrs, Imported(k), [enc |-> TRUE, queued |-> FALSE])
      /\ kmDisk' = kmDisk /\ kmLocked' = kmLocked /\ kmPub' = kmPub /\ kmPriv' = kmPriv /\ kmHold' = kmHold
      /\ kmAcct' = kmAcct /\ kmDerive' = kmDerive
  BY DEF ImportPrivateKey
<1>2. DiskOK(kmDisk) /\ Covers(kmAcct, kmDisk) /\ AcctOK(kmAcct, kmLocked)
  BY DEF KeyManagerIInv
<1>3. /\ d.next = kmDisk.next /\ d.addrs = kmDisk.addrs /\ d.keys = kmDisk.keys \cup {k}
      /\ d.pub = kmDisk.pub /\ d.priv = kmDisk.priv
      /\ d = [next |-> d.next, addrs |-> d.addrs, keys |-> d.keys, pub |-> d.pub, priv |-> d.priv]
  <2>1. kmDisk = [next |-> kmDisk.next, addrs |-> kmDisk.addrs, keys |-> kmDisk.keys,
                  pub |-> kmDisk.pub, priv |-> kmDisk.priv]
    BY <1>2 DEF DiskOK
  <2>2. d = [next |-> kmDisk.next, addrs |-> kmDisk.addrs, keys |-> kmDisk.keys \cup {k},
             pub |-> kmDisk.pub, priv |-> kmDisk.priv]
    BY <2>1
  <2> HIDE DEF d
  <2> QED
    BY <2>2
<1> HIDE DEF d
<1>4. DiskOK(d)
  BY <1>2, <1>3 DEF DiskOK
<1>5. \A a \in DOMAIN d.next : IF a \in DOMAIN kmAcct THEN kmAcct[a].next >= d.next[a]
                               ELSE a \in DOMAIN kmDisk.next /\ kmDisk.next[a] = d.next[a]
  BY <1>2, <1>3 DEF Covers
<1>6. DOMAIN kmAddrs' \subseteq KmAddress \cup {Imported(j) : j \in KmKeys}
  BY <1>1 DEF KeyManagerIInv, Put
<1>7. kmDerive' \subseteq KmAll /\ kmDerive' \ KmWatchAccounts \subseteq DOMAIN kmAcct'
  BY <1>1 DEF KeyManagerIInv, UnlockOpens
<1> QED
  BY <1>1, <1>2, <1>3, <1>4, <1>5, <1>6, <1>7, BeginStep

\* newAccount: the row is in the transaction, and the account is loaded from there.
LEMMA NewAccountStep ==
    ASSUME KeyManagerIInv, NEW acct \in KmAll, NewAccount(acct)
    PROVE  KeyManagerIInv'
<1> DEFINE d == [kmDisk EXCEPT !.next = Put(@, acct, 0)]
<1> DEFINE load == LoadAccountInfo(d, acct)
<1>1. /\ acct \notin DOMAIN kmDisk.next /\ Begin(d, NoCommit)
      /\ kmAcct' = load.accts /\ kmDerive' = load.derive /\ kmAddrs' = kmAddrs
      /\ kmDisk' = kmDisk /\ kmLocked' = kmLocked /\ kmPub' = kmPub /\ kmPriv' = kmPriv /\ kmHold' = kmHold
  BY DEF NewAccount
<1>2. DiskOK(kmDisk) /\ Covers(kmAcct, kmDisk) /\ AcctOK(kmAcct, kmLocked)
  BY DEF KeyManagerIInv
<1>3. /\ d.next = [x \in DOMAIN kmDisk.next \cup {acct} |-> IF x = acct THEN 0 ELSE kmDisk.next[x]]
      /\ d.addrs = kmDisk.addrs /\ d.keys = kmDisk.keys /\ d.pub = kmDisk.pub /\ d.priv = kmDisk.priv
      /\ d = [next |-> d.next, addrs |-> d.addrs, keys |-> d.keys, pub |-> d.pub, priv |-> d.priv]
  BY <1>2 DEF DiskOK, Put
<1> HIDE DEF d
<1>4. DOMAIN d.next = DOMAIN kmDisk.next \cup {acct} /\ d.next[acct] = 0
      /\ \A a \in DOMAIN kmDisk.next : d.next[a] = kmDisk.next[a]
  BY <1>1, <1>3
<1>5. DiskOK(d)
  <2>1. d.next \in [DOMAIN d.next -> 0..KmMaxIndex]
    BY <1>2, <1>3, KeyManagerAssumption DEF DiskOK
  <2> QED
    BY <1>2, <1>3, <1>4, <2>1 DEF DiskOK
<1>6. /\ DOMAIN load.accts = DOMAIN kmAcct \cup {acct} /\ AcctOK(load.accts, kmLocked)
      /\ \A a \in DOMAIN kmAcct : load.accts[a] = kmAcct[a]
      /\ load.derive \subseteq KmAll /\ load.derive \ KmWatchAccounts \subseteq DOMAIN load.accts
  BY <1>4, <1>5, LoadFacts DEF KeyManagerIInv
<1> HIDE DEF load
<1>7. Covers(kmAcct', kmDisk)
  BY <1>1, <1>2, <1>6 DEF Covers
<1>8. ASSUME NEW a \in DOMAIN d.next
      PROVE  IF a \in DOMAIN kmAcct' THEN kmAcct'[a].next >= d.next[a]
             ELSE a \in DOMAIN kmDisk.next /\ kmDisk.next[a] = d.next[a]
  <2>1. CASE a = acct
    <3>1. kmAcct'[acct].next \in 0..KmMaxIndex /\ acct \in DOMAIN kmAcct'
      BY <1>1, <1>6 DEF AcctOK
    <3> QED
      BY <1>4, <2>1, <3>1, KeyManagerAssumption
  <2>2. CASE a # acct
    BY <1>4, <1>7, <2>2 DEF Covers
  <2> QED
    BY <2>1, <2>2
<1>9. DOMAIN kmAddrs' \subseteq KmAddress \cup {Imported(k) : k \in KmKeys}
  BY <1>1 DEF KeyManagerIInv
<1> QED
  BY <1>1, <1>3, <1>5, <1>6, <1>7, <1>8, <1>9, BeginStep

\* Commit: what the transaction wrote is in the database, and the account that
\* nextAddresses moved is moved in memory.
LEMMA CommitStep == KeyManagerIInv /\ Commit => KeyManagerIInv'
<1> SUFFICES ASSUME KeyManagerIInv, Commit PROVE KeyManagerIInv'
  OBVIOUS
<1> DEFINE c == kmTx.onCommit
<1>1. /\ kmTx.open /\ kmDisk' = kmTx.disk /\ kmTx' = KmNoTx
      /\ kmLocked' = kmLocked /\ kmPub' = kmPub /\ kmPriv' = kmPriv /\ kmHold' = kmHold
  BY DEF Commit
<1>2. /\ DiskOK(kmTx.disk) /\ kmTx.disk.priv = kmDisk.priv
      /\ c # NoCommit => OnCommitOK(c, kmTx.disk, kmAcct)
      /\ \A a \in DOMAIN kmTx.disk.next \cap DOMAIN kmAcct :
            c = NoCommit \/ a # c.acct => kmAcct[a].next >= kmTx.disk.next[a]
  BY <1>1 DEF KeyManagerIInv, TxOK
<1>3. kmTx'.open = FALSE
  BY <1>1 DEF KmNoTx
<1>4. AcctOK(kmAcct, kmLocked)
  BY DEF KeyManagerIInv
<1>5. CASE c = NoCommit
  <2>1. kmAddrs' = kmAddrs /\ kmDerive' = kmDerive /\ kmAcct' = kmAcct
    BY <1>5 DEF Commit
  <2>2. Covers(kmAcct', kmDisk')
    BY <1>1, <1>2, <1>5, <2>1 DEF Covers
  <2> QED
    BY <1>1, <1>2, <1>3, <2>1, <2>2 DEF KeyManagerIInv, TxOK, UnlockOpens
<1>6. CASE c # NoCommit
  <2>1. /\ kmAddrs' = Put(kmAddrs, <<c.acct, c.index>>,
                          [enc |-> c.enc, queued |-> kmLocked /\ c.acct \in KmAccounts])
        /\ kmDerive' \subseteq kmDerive \cup {c.acct}
        /\ kmAcct' = IF c.acct \in DOMAIN kmAcct
                     THEN [kmAcct EXCEPT ![c.acct].next = c.index + 1] ELSE kmAcct
    BY <1>6 DEF Commit, OnCommit
  <2>2. /\ c.acct \in DOMAIN kmTx.disk.next \cap DOMAIN kmAcct /\ c.acct \in KmAll
        /\ c.index \in 0..KmMaxIndex - 1 /\ kmTx.disk.next[c.acct] = c.index + 1
    BY <1>2, <1>4, <1>6 DEF OnCommitOK, AcctOK
  <2> HIDE DEF c
  <2> DEFINE moved == [kmAcct[c.acct] EXCEPT !.next = c.index + 1]
  <2>3. kmAcct' = [kmAcct EXCEPT ![c.acct] = moved]
    BY <2>1, <2>2
  <2>4. /\ moved \in [next : 0..KmMaxIndex, priv : BOOLEAN] /\ moved.next = c.index + 1
        /\ moved.priv = kmAcct[c.acct].priv
    <3>1. kmAcct[c.acct] \in [next : 0..KmMaxIndex, priv : BOOLEAN]
      BY <1>4, <2>2 DEF AcctOK
    <3>2. c.index + 1 \in 0..KmMaxIndex
      BY <2>2, KeyManagerAssumption
    <3> QED
      BY <3>1, <3>2
  <2> HIDE DEF moved
  <2>5. /\ DOMAIN kmAcct' = DOMAIN kmAcct /\ kmAcct'[c.acct] = moved
        /\ \A a \in DOMAIN kmAcct \ {c.acct} : kmAcct'[a] = kmAcct[a]
    BY <2>2, <2>3
  <2>6. AcctOK(kmAcct', kmLocked)
    BY <1>4, <2>2, <2>3, <2>4, <2>5 DEF AcctOK
  <2>7. Covers(kmAcct', kmDisk')
    <3> SUFFICES ASSUME NEW a \in DOMAIN kmTx.disk.next \cap DOMAIN kmAcct
                 PROVE  kmAcct'[a].next >= kmTx.disk.next[a]
      BY <1>1, <2>5 DEF Covers
    <3>1. CASE a = c.acct
      <4>1. kmTx.disk.next[a] \in Nat
        BY <1>2, KeyManagerAssumption DEF DiskOK
      <4> QED
        BY <2>2, <2>4, <2>5, <3>1, <4>1
    <3>2. CASE a # c.acct
      BY <1>2, <2>5, <3>2 DEF c
    <3> QED
      BY <3>1, <3>2
  <2>8. <<c.acct, c.index>> \in KmAddress
    BY <2>2 DEF KmAddress
  <2>9. DOMAIN kmAddrs' \subseteq KmAddress \cup {Imported(k) : k \in KmKeys}
    BY <2>1, <2>8 DEF KeyManagerIInv, Put
  <2>10. kmDerive' \subseteq KmAll /\ UnlockOpens'
    BY <2>1, <2>2, <2>5 DEF KeyManagerIInv, UnlockOpens
  <2> QED
    BY <1>1, <1>2, <1>3, <2>6, <2>7, <2>9, <2>10 DEF KeyManagerIInv, TxOK
<1> QED
  BY <1>5, <1>6

\* Locking and unlocking change the private keys of the cached accounts and
\* nothing else of them, also while a transaction is open.
LEMMA LockStep ==
    ASSUME KeyManagerIInv, NEW locked \in BOOLEAN, kmLocked' = locked,
           kmAcct' = [a \in DOMAIN kmAcct |-> [kmAcct[a] EXCEPT !.priv = ~locked]],
           kmDerive' \subseteq kmDerive, DOMAIN kmAddrs' = DOMAIN kmAddrs,
           kmDisk' = kmDisk, kmTx' = kmTx, kmPub' = kmPub, kmPriv' = kmPriv,
           kmHold' = kmHold, ~kmHold
    PROVE  KeyManagerIInv'
<1>1. AcctOK(kmAcct, kmLocked)
  BY DEF KeyManagerIInv
<1>2. ASSUME NEW a \in DOMAIN kmAcct
      PROVE  /\ kmAcct'[a] \in [next : 0..KmMaxIndex, priv : BOOLEAN]
             /\ kmAcct'[a].next = kmAcct[a].next /\ kmAcct'[a].priv = ~locked
  <2>1. kmAcct[a] \in [next : 0..KmMaxIndex, priv : BOOLEAN]
    BY <1>1 DEF AcctOK
  <2>2. kmAcct'[a] = [kmAcct[a] EXCEPT !.priv = ~locked]
    OBVIOUS
  <2> QED
    BY <2>1, <2>2
<1>3. DOMAIN kmAcct' = DOMAIN kmAcct
  OBVIOUS
<1>4. AcctOK(kmAcct', locked)
  BY <1>1, <1>2, <1>3 DEF AcctOK
<1>5. Covers(kmAcct', kmDisk)
  BY <1>2, <1>3 DEF KeyManagerIInv, Covers
<1>6. TxOK'
  <2> SUFFICES ASSUME kmTx.open PROVE TxOK'
    BY DEF TxOK
  <2>1. kmTx.onCommit # NoCommit => OnCommitOK(kmTx.onCommit, kmTx.disk, kmAcct')
    BY <1>3 DEF KeyManagerIInv, TxOK, OnCommitOK
  <2>2. ASSUME NEW a \in DOMAIN kmTx.disk.next, kmTx.onCommit = NoCommit \/ a # kmTx.onCommit.acct
        PROVE  IF a \in DOMAIN kmAcct' THEN kmAcct'[a].next >= kmTx.disk.next[a]
               ELSE a \in DOMAIN kmDisk.next /\ kmDisk.next[a] = kmTx.disk.next[a]
    BY <1>2, <1>3, <2>2 DEF KeyManagerIInv, TxOK
  <2> QED
    BY <2>1, <2>2 DEF KeyManagerIInv, TxOK
<1>7. kmDerive' \subseteq KmAll /\ UnlockOpens'
  BY <1>3 DEF KeyManagerIInv, UnlockOpens
<1> QED
  BY <1>4, <1>5, <1>6, <1>7 DEF KeyManagerIInv

\* Outside a transaction the database may change its passphrases: memory follows
\* for the private one.
LEMMA PassphraseStep ==
    ASSUME KeyManagerIInv, NEW pub \in KmPass, NEW priv \in KmPass, ~kmTx.open,
           kmDisk' = [next |-> kmDisk.next, addrs |-> kmDisk.addrs, keys |-> kmDisk.keys,
                      pub |-> pub, priv |-> priv],
           kmPriv' = priv, kmPub' \in KmPass,
           kmTx' = kmTx, kmAcct' = kmAcct, kmAddrs' = kmAddrs, kmDerive' = kmDerive,
           kmLocked' = kmLocked, kmHold' = kmHold
    PROVE  KeyManagerIInv'
<1>1. /\ kmDisk'.next = kmDisk.next /\ kmDisk'.addrs = kmDisk.addrs /\ kmDisk'.keys = kmDisk.keys
      /\ kmDisk'.pub = pub /\ kmDisk'.priv = priv
  OBVIOUS
<1>2. DiskOK(kmDisk')
  BY <1>1 DEF KeyManagerIInv, DiskOK
<1>3. Covers(kmAcct', kmDisk')
  BY <1>1 DEF KeyManagerIInv, Covers
<1> QED
  BY <1>1, <1>2, <1>3 DEF KeyManagerIInv, TxOK, UnlockOpens

\* Every step of the key manager keeps the invariant.
LEMMA KeyManagerNextIInv == KeyManagerIInv /\ [KeyManagerNext]_kmVars => KeyManagerIInv'
<1> SUFFICES ASSUME KeyManagerIInv, [KeyManagerNext]_kmVars PROVE KeyManagerIInv'
  OBVIOUS
<1>a. kmDisk = [next |-> kmDisk.next, addrs |-> kmDisk.addrs, keys |-> kmDisk.keys,
                pub |-> kmDisk.pub, priv |-> kmDisk.priv]
      /\ kmDisk.pub \in KmPass /\ kmDisk.priv \in KmPass /\ kmPub \in KmPass /\ kmPriv = kmDisk.priv
  BY DEF KeyManagerIInv, DiskOK
<1>1. ASSUME NEW acct \in KmAll, NextAddresses(acct) PROVE KeyManagerIInv'
  BY <1>1, NextAddressesStep
<1>2. ASSUME NEW acct \in KmAll, NewAccount(acct) PROVE KeyManagerIInv'
  BY <1>2, NewAccountStep
<1>3. ASSUME NEW acct \in KmAll, ReadAccount(acct) PROVE KeyManagerIInv'
  <2>1. /\ acct \in DOMAIN kmDisk.next
        /\ kmAcct' = LoadAccountInfo(kmDisk, acct).accts /\ kmDerive' = LoadAccountInfo(kmDisk, acct).derive
        /\ kmDisk' = kmDisk /\ kmTx' = kmTx /\ kmAddrs' = kmAddrs /\ kmLocked' = kmLocked
        /\ kmPub' = kmPub /\ kmPriv' = kmPriv /\ kmHold' = kmHold
    BY <1>3 DEF ReadAccount
  <2>2. DOMAIN kmAddrs' \subseteq KmAddress \cup {Imported(k) : k \in KmKeys}
    BY <2>1 DEF KeyManagerIInv
  <2>3. kmDerive' \subseteq LoadAccountInfo(kmDisk, acct).derive \cup {acct}
    BY <2>1
  <2> QED
    BY <2>1, <2>2, <2>3, CacheStep
<1>4. ASSUME NEW acct \in KmWatchAccounts, ImportAccountDryRun(acct) PROVE KeyManagerIInv'
  <2>1. /\ ~kmTx.open /\ kmAcct' = [a \in DOMAIN kmAcct \ {acct} |-> kmAcct[a]]
        /\ kmAddrs' = Put(kmAddrs, <<acct, 0>>, [enc |-> FALSE, queued |-> TRUE])
        /\ kmDerive' = kmDerive \cup {acct}
        /\ kmDisk' = kmDisk /\ kmTx' = kmTx /\ kmLocked' = kmLocked
        /\ kmPub' = kmPub /\ kmPriv' = kmPriv /\ kmHold' = kmHold
    BY <1>4 DEF ImportAccountDryRun
  <2>2. <<acct, 0>> \in KmAddress /\ acct \in KmAll
    BY KeyManagerAssumption DEF KmAddress, KmAll
  <2>3. DOMAIN kmAcct' = DOMAIN kmAcct \ {acct} /\ \A a \in DOMAIN kmAcct' : kmAcct'[a] = kmAcct[a]
    BY <2>1
  <2>4. AcctOK(kmAcct', kmLocked)
    BY <2>1, <2>3 DEF KeyManagerIInv, AcctOK
  <2>5. Covers(kmAcct', kmDisk)
    BY <2>3 DEF KeyManagerIInv, Covers
  <2>6. DOMAIN kmAddrs' \subseteq KmAddress \cup {Imported(k) : k \in KmKeys}
    BY <2>1, <2>2 DEF KeyManagerIInv, Put
  <2>7. kmDerive' \subseteq KmAll /\ UnlockOpens'
    BY <2>1, <2>2, <2>3 DEF KeyManagerIInv, UnlockOpens
  <2> QED
    BY <2>1, <2>4, <2>5, <2>6, <2>7 DEF KeyManagerIInv, TxOK
<1>5. ASSUME NEW acct \in KmAccounts, NEW last \in 0..KmMaxIndex - 1, ExtendAddresses(acct, last)
      PROVE  KeyManagerIInv'
  BY <1>5, ExtendAddressesStep
<1>6. ASSUME NEW k \in KmKeys, ImportPrivateKey(k) PROVE KeyManagerIInv'
  BY <1>6, ImportPrivateKeyStep
<1>7. CASE Commit
  BY <1>7, CommitStep
<1>8. CASE KmRollback
  <2>1. kmTx'.open = FALSE
    BY <1>8 DEF KmRollback, KmNoTx
  <2> QED
    BY <1>8, <2>1 DEF KmRollback, kmMem, KeyManagerIInv, TxOK, UnlockOpens
<1>9. ASSUME NEW addr \in KmAddress, Address(addr) PROVE KeyManagerIInv'
  <2> DEFINE load == LoadAccountInfo(kmDisk, addr[1])
  <2>1. /\ addr \in kmDisk.addrs /\ kmAcct' = load.accts
        /\ kmAddrs' = Put(kmAddrs, addr, ManagedAddress(load.accts[addr[1]]))
        /\ kmDerive' \subseteq load.derive \cup {addr[1]}
        /\ kmDisk' = kmDisk /\ kmTx' = kmTx /\ kmLocked' = kmLocked
        /\ kmPub' = kmPub /\ kmPriv' = kmPriv /\ kmHold' = kmHold
    BY <1>9 DEF Address
  <2>2. addr[1] \in DOMAIN kmDisk.next
    BY <2>1 DEF KeyManagerIInv, DiskOK
  <2> HIDE DEF load
  <2>3. DOMAIN kmAddrs' \subseteq KmAddress \cup {Imported(k) : k \in KmKeys}
    BY <2>1 DEF KeyManagerIInv, Put
  <2> QED
    BY <2>1, <2>2, <2>3, CacheStep DEF load
<1>10. CASE LockManager
  <2>1. /\ ~kmHold /\ kmLocked' = TRUE
        /\ kmAcct' = [a \in DOMAIN kmAcct |-> [kmAcct[a] EXCEPT !.priv = ~TRUE]]
        /\ kmDisk' = kmDisk /\ kmTx' = kmTx /\ kmAddrs' = kmAddrs /\ kmDerive' = kmDerive
        /\ kmPub' = kmPub /\ kmPriv' = kmPriv /\ kmHold' = kmHold
    BY <1>10 DEF LockManager, LockNow, Forget
  <2> QED
    BY <2>1, LockStep
<1>11. CASE Hold
  BY <1>11 DEF Hold, kmMem, KeyManagerIInv, TxOK, UnlockOpens
<1>12. CASE Reopen
  <2>1. /\ kmTx' = KmNoTx /\ DOMAIN kmAcct' = {} /\ kmAcct' = <<>> /\ DOMAIN kmAddrs' = {}
        /\ kmDerive' = {} /\ kmLocked' = TRUE /\ kmPub' = kmDisk.pub /\ kmPriv' = kmDisk.priv
        /\ kmHold' = FALSE /\ kmDisk' = kmDisk
    BY <1>12 DEF Reopen
  <2>2. kmTx'.open = FALSE
    BY <2>1 DEF KmNoTx
  <2>3. AcctOK(kmAcct', kmLocked') /\ Covers(kmAcct', kmDisk')
    BY <2>1 DEF AcctOK, Covers
  <2> QED
    BY <1>a, <2>1, <2>2, <2>3 DEF KeyManagerIInv, TxOK, UnlockOpens
<1>13. ASSUME NEW p \in KmPass, Unlock(p) PROVE KeyManagerIInv'
  <2>1. /\ ~kmHold /\ kmLocked' = FALSE /\ kmDerive' = {} /\ kmAddrs' = Derived(Queued)
        /\ kmAcct' = [a \in DOMAIN kmAcct |-> [kmAcct[a] EXCEPT !.priv = ~FALSE]]
        /\ kmDisk' = kmDisk /\ kmTx' = kmTx /\ kmPub' = kmPub /\ kmPriv' = kmPriv /\ kmHold' = kmHold
    BY <1>13 DEF Unlock
  <2>2. DOMAIN kmAddrs' = DOMAIN kmAddrs /\ kmDerive' \subseteq kmDerive
    BY <2>1 DEF Derived
  <2> QED
    BY <2>1, <2>2, LockStep
<1>14. ASSUME NEW p \in KmPass, UnlockFails(p) PROVE KeyManagerIInv'
  <2>1. /\ ~kmHold /\ kmLocked' = TRUE /\ kmDerive' = kmDerive
        /\ kmAcct' = [a \in DOMAIN kmAcct |-> [kmAcct[a] EXCEPT !.priv = ~TRUE]]
        /\ kmDisk' = kmDisk /\ kmTx' = kmTx /\ kmPub' = kmPub /\ kmPriv' = kmPriv /\ kmHold' = kmHold
    BY <1>14 DEF UnlockFails, LockNow, Forget
  <2>2. DOMAIN kmAddrs' = DOMAIN kmAddrs
    BY <1>14 DEF UnlockFails, Derived
  <2> QED
    BY <2>1, <2>2, LockStep
<1>15. ASSUME NEW p \in KmPass, NEW q \in KmPass, NEW private \in BOOLEAN, ChangePassphrase(p, q, private)
       PROVE  KeyManagerIInv'
  <2>1. /\ ~kmTx.open /\ kmTx' = kmTx /\ kmAcct' = kmAcct /\ kmAddrs' = kmAddrs
        /\ kmDerive' = kmDerive /\ kmLocked' = kmLocked /\ kmHold' = kmHold
    BY <1>15 DEF ChangePassphrase
  <2>2. CASE private
    <3>1. kmPriv' = q /\ kmDisk' = [kmDisk EXCEPT !.priv = q] /\ kmPub' = kmPub
      BY <1>15, <2>2 DEF ChangePassphrase
    <3>2. kmDisk' = [next |-> kmDisk.next, addrs |-> kmDisk.addrs, keys |-> kmDisk.keys,
                     pub |-> kmDisk.pub, priv |-> q]
      BY <1>a, <3>1
    <3> QED
      BY <1>a, <2>1, <3>1, <3>2, PassphraseStep
  <2>3. CASE ~private
    <3>1. kmPub' = q /\ kmDisk' = [kmDisk EXCEPT !.pub = q] /\ kmPriv' = kmPriv
      BY <1>15, <2>3 DEF ChangePassphrase
    <3>2. kmDisk' = [next |-> kmDisk.next, addrs |-> kmDisk.addrs, keys |-> kmDisk.keys,
                     pub |-> q, priv |-> kmDisk.priv]
      BY <1>a, <3>1
    <3> QED
      BY <1>a, <2>1, <3>1, <3>2, PassphraseStep
  <2> QED
    BY <2>2, <2>3
<1>16. ASSUME NEW p \in KmPass, NEW q \in KmPass, NEW r \in KmPass, ChangePassphrases(p, q, r)
       PROVE  KeyManagerIInv'
  <2>1. /\ ~kmTx.open /\ kmTx' = kmTx /\ kmAcct' = kmAcct /\ kmAddrs' = kmAddrs
        /\ kmDerive' = kmDerive /\ kmLocked' = kmLocked /\ kmHold' = kmHold /\ kmPub' = r
    BY <1>16 DEF ChangePassphrases
  <2>2. CASE q = kmPriv
    <3>1. kmPriv' = r /\ kmDisk' = [kmDisk EXCEPT !.pub = r, !.priv = r]
      BY <1>16, <2>2 DEF ChangePassphrases
    <3>2. kmDisk' = [next |-> kmDisk.next, addrs |-> kmDisk.addrs, keys |-> kmDisk.keys,
                     pub |-> r, priv |-> r]
      BY <1>a, <3>1
    <3> QED
      BY <2>1, <3>1, <3>2, PassphraseStep
  <2>3. CASE q # kmPriv
    <3>1. kmPriv' = kmPriv /\ kmDisk' = kmDisk
      BY <1>16, <2>3 DEF ChangePassphrases
    <3> QED
      BY <1>a, <2>1, <3>1, PassphraseStep
  <2> QED
    BY <2>2, <2>3
<1>17. CASE UNCHANGED kmVars
  BY <1>17 DEF kmVars, kmMem, KeyManagerIInv, TxOK, UnlockOpens
<1> QED
  BY <1>1, <1>2, <1>3, <1>4, <1>5, <1>6, <1>7, <1>8, <1>9, <1>10, <1>11, <1>12, <1>13, <1>14,
     <1>15, <1>16, <1>17 DEF KeyManagerNext

\* The keys of the wallet, for any accounts and passphrases, over commits,
\* rollbacks and dry runs with Lock and Unlock in between: no index is given out
\* twice, the passphrase of the database opens the wallet, the keys are in memory
\* just while it is unlocked, and nothing but an account without a private key
\* keeps Unlock from succeeding.
THEOREM NoAddressTwice == KeyManagerSpec => []KeyManagerInvariant
<1> QED
  BY KeyManagerInitIInv, KeyManagerNextIInv, KeyManagerIInvImplies, PTL DEF KeyManagerSpec

-----------------------------------------------------------------------------
(* Ffldb implements BlockDb *)

\* Lookups through the cache: an empty one changes nothing, writing it out does
\* not change what is found, and merging changes is looking through both.
LEMMA OverlayEmpty == ASSUME NEW l PROVE Overlay(l, Empty, {}) = [k \in Rows |-> l[k]]
<1>1. DOMAIN Empty = {}
  BY DEF Empty
<1> QED
  BY <1>1 DEF Overlay

\* Writing the same changes over the rows again changes nothing: a flush may be repeated.
LEMMA OverlayTwice ==
    ASSUME NEW l, NEW put, NEW del
    PROVE  Overlay(Overlay(l, put, del), put, del) = Overlay(l, put, del)
  BY DEF Overlay

\* Changes merged into the cache read as changes written over what the cache shows.
LEMMA OverlayMerged ==
    ASSUME NEW l, NEW put, NEW del, NEW newPut, NEW newDel
    PROVE  Overlay(l, MergePut(put, del, newPut, newDel), MergeDel(put, del, newPut, newDel))
             = Overlay(Overlay(l, put, del), newPut, newDel)
  BY DEF Overlay, MergePut, MergeDel

\* The write transaction works on the committed rows: nothing else writes while
\* it runs, and a flush on its way changes where they are and not what they are.
IsTx(t) == t = [pc |-> t.pc, snap |-> t.snap, put |-> t.put, del |-> t.del,
                blocks |-> t.blocks, prune |-> t.prune, old |-> t.old]
Running == {"run", "delete", "write"}
Committing == {"commit", "flush", "clear", "rows"}
TxSound ==
    /\ IsTx(fdTx) /\ fdTx.pc \in Running \cup Committing
    /\ fdState = "open" /\ fdTx.snap = Committed
    /\ fdTx.pc \in Committing => fdTx.blocks = <<>>
    /\ fdTx.pc = "clear" => fdLdb = Committed
    /\ fdTx.pc = "rows" => fdPut = Empty /\ fdDel = {}

\* The invariant of the refinement.
FfldbIInv ==
    /\ fdLdb = [k \in Rows |-> fdLdb[k]]
    /\ fdTx = NoTx \/ TxSound

\* What the steps of BlockDb see of a step of the database.
Steps == Atomic!BlockDbNext \/ UNCHANGED <<Present(Committed), Present(fdLdb), Mine>>

\* A transaction that runs or commits is not the absent one.
LEMMA NoTxFacts == IsTx(NoTx) /\ NoTx.pc = "none" /\ \A t : t.pc \in Running \cup Committing => t # NoTx
  BY DEF NoTx, IsTx, Running, Committing

\* The transaction goes on and only its own changes change.
LEMMA ChangeStep ==
    ASSUME FfldbIInv, fdTx.pc \in Running,
           IsTx(fdTx'), fdTx'.pc \in Running \cup {"commit"}, fdTx'.snap = fdTx.snap,
           fdTx'.pc = "commit" => fdTx'.blocks = <<>>,
           fdState' = fdState, fdLdb' = fdLdb, fdPut' = fdPut, fdDel' = fdDel
    PROVE  FfldbIInv' /\ Steps
<1>1. fdTx # NoTx /\ fdTx' # NoTx /\ TxSound
  BY NoTxFacts DEF FfldbIInv, Running, Committing
<1>2. Committed' = Committed /\ Present(Committed)' = Present(Committed) /\ Present(fdLdb)' = Present(fdLdb)
  BY DEF Committed, Present
<1>3. TxSound'
  BY <1>1, <1>2 DEF TxSound, Running, Committing
<1>4. Mine # {} /\ Mine' # {}
  BY <1>1 DEF Mine
<1> QED
  BY <1>2, <1>3, <1>4 DEF FfldbIInv, Steps, Atomic!BlockDbNext, Atomic!Change

\* The transaction ends without a trace in the metadata.
LEMMA AbandonStep ==
    ASSUME FfldbIInv, fdTx' = NoTx, fdLdb' = fdLdb, fdPut' = fdPut, fdDel' = fdDel
    PROVE  FfldbIInv' /\ Steps
<1>1. Present(Committed)' = Present(Committed) /\ Present(fdLdb)' = Present(fdLdb)
  BY DEF Committed, Present
<1>2. Mine' = {}
  BY DEF Mine
<1> QED
  BY <1>1, <1>2 DEF FfldbIInv, Steps, Atomic!BlockDbNext, Atomic!Abandon

\* Only readers and files move.
LEMMA SilentStep ==
    ASSUME FfldbIInv, fdTx' = fdTx, fdState' = fdState, fdLdb' = fdLdb, fdPut' = fdPut, fdDel' = fdDel
    PROVE  FfldbIInv' /\ Steps
<1>1. Present(Committed)' = Present(Committed) /\ Present(fdLdb)' = Present(fdLdb) /\ Mine' = Mine
      /\ Committed' = Committed
  BY DEF Committed, Present, Mine, FetchKeys
<1> QED
  BY <1>1 DEF FfldbIInv, TxSound, Steps

\* The transaction takes effect: in the cache, or in leveldb when the cache is empty.
LEMMA CommitMineStep ==
    ASSUME FfldbIInv, fdTx.pc \in Committing, fdTx' = NoTx,
           fdLdb' = [k \in Rows |-> fdLdb'[k]],
           Committed' = Overlay(Committed, fdTx.put, fdTx.del),
           fdLdb' = fdLdb \/ fdLdb' = Committed'
    PROVE  FfldbIInv' /\ Steps
<1>1. fdTx # NoTx /\ TxSound
  BY NoTxFacts DEF FfldbIInv, Running, Committing
<1>2. FetchKeys = Committed' /\ fdTx.blocks = <<>>
  BY <1>1 DEF FetchKeys, TxSound
<1>3. Mine = {Present(Committed')} /\ Mine' = {}
  <2>1. Range(fdTx.blocks) = {}
    BY <1>2 DEF Range
  <2> QED
    BY <1>1, <1>2, <2>1 DEF Mine
<1>4. Present(fdLdb') \in {Present(fdLdb), Present(Committed')}
  OBVIOUS
<1> QED
  BY <1>3, <1>4 DEF FfldbIInv, Steps, Atomic!BlockDbNext, Atomic!CommitMine

\* The cache is lost, in a crash or at a start: what leveldb has is committed.
LEMMA CrashBackStep ==
    ASSUME FfldbIInv, fdTx' = NoTx, fdLdb' = fdLdb, fdPut' = Empty, fdDel' = {}
    PROVE  FfldbIInv' /\ Steps
<1>1. Committed' = fdLdb
  BY OverlayEmpty DEF Committed, FfldbIInv
<1>2. Present(Committed)' = Present(fdLdb) /\ Present(fdLdb)' = Present(fdLdb) /\ Mine' = {}
  BY <1>1 DEF Present, Mine
<1> QED
  BY <1>2 DEF FfldbIInv, Steps, Atomic!BlockDbNext, Atomic!CrashBack

\* A running transaction whose own changes change.
LEMMA PutDeleteFacts ==
    ASSUME IsTx(fdTx), NEW k, NEW v, NEW ks
    PROVE  /\ IsTx(PutKey(k, v)) /\ PutKey(k, v).pc = fdTx.pc /\ PutKey(k, v).snap = fdTx.snap
           /\ PutKey(k, v).blocks = fdTx.blocks
           /\ IsTx(DeleteKeys(ks)) /\ DeleteKeys(ks).pc = fdTx.pc /\ DeleteKeys(ks).snap = fdTx.snap
           /\ DeleteKeys(ks).blocks = fdTx.blocks
<1>1. ASSUME NEW t, NEW put, NEW del, t = [fdTx EXCEPT !.put = put, !.del = del]
      PROVE  IsTx(t) /\ t.pc = fdTx.pc /\ t.snap = fdTx.snap /\ t.blocks = fdTx.blocks
  <2>1. t = [pc |-> fdTx.pc, snap |-> fdTx.snap, put |-> put, del |-> del,
             blocks |-> fdTx.blocks, prune |-> fdTx.prune, old |-> fdTx.old]
    BY <1>1 DEF IsTx
  <2> QED
    BY <2>1 DEF IsTx
<1>2. PutKey(k, v) = [fdTx EXCEPT !.put = Also(fdTx.put, k, v), !.del = fdTx.del \ {k}]
  BY DEF PutKey
<1>3. DeleteKeys(ks) = [fdTx EXCEPT !.put = Restrict(fdTx.put, DOMAIN fdTx.put \ ks), !.del = fdTx.del \cup ks]
  BY DEF DeleteKeys
<1>4. IsTx(PutKey(k, v)) /\ PutKey(k, v).pc = fdTx.pc /\ PutKey(k, v).snap = fdTx.snap
      /\ PutKey(k, v).blocks = fdTx.blocks
  BY <1>1, <1>2
<1>5. IsTx(DeleteKeys(ks)) /\ DeleteKeys(ks).pc = fdTx.pc /\ DeleteKeys(ks).snap = fdTx.snap
      /\ DeleteKeys(ks).blocks = fdTx.blocks
  BY <1>1, <1>3
<1> QED
  BY <1>4, <1>5

\* Every step of the database is a step of BlockDb, or none.
LEMMA FfldbSteps == FfldbIInv /\ [FfldbNext]_fdVars => FfldbIInv' /\ Steps
<1> SUFFICES ASSUME FfldbIInv, [FfldbNext]_fdVars PROVE FfldbIInv' /\ Steps
  OBVIOUS
<1>a. ASSUME fdTx.pc \in Running \cup Committing PROVE TxSound /\ IsTx(fdTx) /\ fdTx # NoTx
  BY <1>a, NoTxFacts DEF FfldbIInv, TxSound
<1>1. CASE BeginUpdate
  <2>1. /\ fdState = "open" /\ fdTx = NoTx /\ fdTx' = [NoTx EXCEPT !.pc = "run", !.snap = Committed]
        /\ fdState' = fdState /\ fdLdb' = fdLdb /\ fdPut' = fdPut /\ fdDel' = fdDel
    BY <1>1 DEF BeginUpdate, fdDisk, fdMem
  <2>2. /\ IsTx(fdTx') /\ fdTx'.pc = "run" /\ fdTx'.snap = Committed
        /\ fdTx'.put = Empty /\ fdTx'.del = {} /\ fdTx'.blocks = <<>>
    BY <2>1 DEF NoTx, IsTx
  <2>3. Committed' = Committed /\ Present(Committed)' = Present(Committed) /\ Present(fdLdb)' = Present(fdLdb)
    BY <2>1 DEF Committed, Present
  <2>4. fdTx' # NoTx /\ TxSound'
    BY <2>1, <2>2, <2>3, NoTxFacts DEF TxSound, Running, Committing
  <2>5. Mine = {} /\ Mine' = {Present(Committed)}
    <3>1. FetchKeys' = Overlay(Committed, Empty, {})
      BY <2>2 DEF FetchKeys
    <3>2. FetchKeys' = Committed
      BY <3>1, OverlayEmpty DEF Committed, Overlay
    <3>3. Range(fdTx'.blocks) = {}
      BY <2>2 DEF Range
    <3> QED
      BY <2>1, <2>4, <3>2, <3>3 DEF Mine
  <2> QED
    BY <2>1, <2>3, <2>4, <2>5 DEF FfldbIInv, Steps, Atomic!BlockDbNext, Atomic!Begin
<1>2. CASE InUpdate
  <2>1. /\ fdTx.pc = "run" /\ fdState' = fdState /\ fdLdb' = fdLdb /\ fdPut' = fdPut /\ fdDel' = fdDel
    BY <1>2 DEF InUpdate, fdDisk, fdMem
  <2>2. IsTx(fdTx)
    BY <1>a, <2>1 DEF Running
  <2>3. IsTx(fdTx') /\ fdTx'.pc = "run" /\ fdTx'.snap = fdTx.snap
    <3>1. ASSUME NEW k \in FdKeys, fdTx' = PutKey(k, <<0, 0>>) \/ fdTx' = DeleteKeys({k})
          PROVE  IsTx(fdTx') /\ fdTx'.pc = "run" /\ fdTx'.snap = fdTx.snap
      BY <2>1, <2>2, <3>1, PutDeleteFacts
    <3>2. ASSUME NEW b \in FdBlocks, StoreBlock(b)
          PROVE  IsTx(fdTx') /\ fdTx'.pc = "run" /\ fdTx'.snap = fdTx.snap
      <4>1. fdTx' = [fdTx EXCEPT !.blocks = Append(@, b)]
        BY <3>2 DEF StoreBlock
      <4> QED
        BY <2>1, <2>2, <4>1 DEF IsTx
    <3>3. ASSUME PruneBlocks
          PROVE  IsTx(fdTx') /\ fdTx'.pc = "run" /\ fdTx'.snap = fdTx.snap
      <4>1. PICK ks, dead : fdTx' = [DeleteKeys(ks) EXCEPT !.prune = dead]
        BY <3>3 DEF PruneBlocks
      <4>2. IsTx(DeleteKeys(ks)) /\ DeleteKeys(ks).pc = "run" /\ DeleteKeys(ks).snap = fdTx.snap
        BY <2>1, <2>2, PutDeleteFacts
      <4> QED
        BY <4>1, <4>2 DEF IsTx
    <3> QED
      BY <1>2, <3>1, <3>2, <3>3 DEF InUpdate
  <2> QED
    BY <2>1, <2>3, ChangeStep DEF Running
<1>3. CASE FdRollbackTx
  BY <1>3, AbandonStep DEF FdRollbackTx, fdDisk, fdMem
<1>4. CASE CommitTxBegin
  <2>1. /\ fdTx.pc = "run" /\ fdState' = fdState /\ fdLdb' = fdLdb /\ fdPut' = fdPut /\ fdDel' = fdDel
        /\ fdTx' = [fdTx EXCEPT !.pc = IF fdTx.prune = {} THEN "write" ELSE "delete", !.old = fdAt]
    BY <1>4 DEF CommitTxBegin, fdDisk, fdMem, Quiet
  <2>2. IsTx(fdTx') /\ fdTx'.pc \in {"write", "delete"} /\ fdTx'.snap = fdTx.snap
    BY <1>a, <2>1 DEF IsTx, Running
  <2> QED
    BY <2>1, <2>2, ChangeStep DEF Running
<1>5. CASE DeleteFile
  <2>1. fdTx.pc = "delete" /\ fdState' = fdState /\ fdLdb' = fdLdb /\ fdPut' = fdPut /\ fdDel' = fdDel
    BY <1>5 DEF DeleteFile, fdMem
  <2>2. \/ fdTx' = [fdTx EXCEPT !.pc = IF fdTx.prune = {Min(fdTx.prune)} THEN "write" ELSE @,
                                !.prune = @ \ {Min(fdTx.prune)}]
        \/ fdTx' = NoTx
    BY <1>5 DEF DeleteFile, End
  <2>3. CASE fdTx' = NoTx
    BY <2>1, <2>3, AbandonStep
  <2>4. CASE fdTx' = [fdTx EXCEPT !.pc = IF fdTx.prune = {Min(fdTx.prune)} THEN "write" ELSE @,
                                  !.prune = @ \ {Min(fdTx.prune)}]
    <3>1. IsTx(fdTx') /\ fdTx'.pc \in {"write", "delete"} /\ fdTx'.snap = fdTx.snap
      BY <1>a, <2>1, <2>4 DEF IsTx, Running
    <3> QED
      BY <2>1, <3>1, ChangeStep DEF Running
  <2> QED
    BY <2>2, <2>3, <2>4
<1>6. CASE WriteBlock
  <2> DEFINE k == Head(fdTx.blocks)
  <2> DEFINE v == <<WriteFile, WriteOffset>>
  <2>1. /\ fdTx.pc = "write" /\ fdState' = fdState /\ fdLdb' = fdLdb /\ fdPut' = fdPut /\ fdDel' = fdDel
        /\ fdTx' = [PutKey(k, v) EXCEPT !.blocks = Tail(@)]
    BY <1>6 DEF WriteBlock, Quiet
  <2>2. IsTx(PutKey(k, v)) /\ PutKey(k, v).pc = "write" /\ PutKey(k, v).snap = fdTx.snap
    BY <1>a, <2>1, PutDeleteFacts DEF Running
  <2>3. IsTx(fdTx') /\ fdTx'.pc = "write" /\ fdTx'.snap = fdTx.snap
    BY <2>1, <2>2 DEF IsTx
  <2> QED
    BY <2>1, <2>3, ChangeStep DEF Running
<1>7. CASE WriteBlockFails
  BY <1>7, AbandonStep DEF WriteBlockFails, End
<1>8. CASE PutCursor
  <2>1. /\ fdTx.pc = "write" /\ fdState' = fdState /\ fdLdb' = fdLdb /\ fdPut' = fdPut /\ fdDel' = fdDel
        /\ fdTx' = [PutKey(Cursor, fdAt) EXCEPT !.pc = "commit"] /\ fdTx.blocks = <<>>
    BY <1>8 DEF PutCursor, Quiet, fdDisk, fdMem
  <2>2. /\ IsTx(PutKey(Cursor, fdAt)) /\ PutKey(Cursor, fdAt).snap = fdTx.snap
        /\ PutKey(Cursor, fdAt).blocks = <<>>
    BY <1>a, <2>1, PutDeleteFacts DEF Running
  <2>3. IsTx(fdTx') /\ fdTx'.pc = "commit" /\ fdTx'.snap = fdTx.snap /\ fdTx'.blocks = <<>>
    BY <2>1, <2>2 DEF IsTx
  <2> QED
    BY <2>1, <2>3, ChangeStep DEF Running
<1>9. CASE MergeCache
  <2>1. /\ fdTx.pc = "commit" /\ fdTx' = NoTx /\ fdLdb' = fdLdb
        /\ fdPut' = MergePut(fdPut, fdDel, fdTx.put, fdTx.del)
        /\ fdDel' = MergeDel(fdPut, fdDel, fdTx.put, fdTx.del)
    BY <1>9 DEF MergeCache, End, fdDisk
  <2>2. Committed' = Overlay(Committed, fdTx.put, fdTx.del)
    BY <2>1, OverlayMerged DEF Committed
  <2>3. fdLdb' = [k \in Rows |-> fdLdb'[k]]
    BY <2>1 DEF FfldbIInv
  <2> QED
    BY <2>1, <2>2, <2>3, CommitMineStep DEF Committing
<1>10. CASE FlushSync
  <2>1. /\ fdTx.pc = "commit" /\ fdState' = fdState /\ fdLdb' = fdLdb /\ fdPut' = fdPut /\ fdDel' = fdDel
        /\ \/ fdTx' = [fdTx EXCEPT !.pc = IF fdPut = Empty /\ fdDel = {} THEN "rows" ELSE "flush"]
           \/ fdTx' = NoTx
    BY <1>10 DEF FlushSync, End, Quiet, fdMem
  <2>2. CASE fdTx' = NoTx
    BY <2>1, <2>2, AbandonStep
  <2>3. CASE fdTx' = [fdTx EXCEPT !.pc = IF fdPut = Empty /\ fdDel = {} THEN "rows" ELSE "flush"]
    <3>1. TxSound /\ IsTx(fdTx) /\ fdTx # NoTx
      BY <1>a, <2>1 DEF Committing
    <3>2. /\ IsTx(fdTx') /\ fdTx'.pc = (IF fdPut = Empty /\ fdDel = {} THEN "rows" ELSE "flush")
          /\ fdTx'.snap = fdTx.snap /\ fdTx'.put = fdTx.put /\ fdTx'.del = fdTx.del
          /\ fdTx'.blocks = fdTx.blocks
      BY <2>3, <3>1 DEF IsTx
    <3>3. Committed' = Committed /\ Present(Committed)' = Present(Committed) /\ Present(fdLdb)' = Present(fdLdb)
      BY <2>1 DEF Committed, Present
    <3>4. TxSound' /\ fdTx' # NoTx
      BY <2>1, <3>1, <3>2, <3>3, NoTxFacts DEF TxSound, Running, Committing
    <3>5. Mine' = Mine
      BY <3>1, <3>2, <3>4 DEF Mine, FetchKeys, Present
    <3> QED
      BY <2>1, <3>3, <3>4, <3>5 DEF FfldbIInv, Steps
  <2> QED
    BY <2>1, <2>2, <2>3
<1>11. CASE FlushCommit
  <2>1. /\ fdTx.pc = "flush" /\ fdState' = fdState /\ fdPut' = fdPut /\ fdDel' = fdDel
        /\ \/ fdLdb' = Committed /\ fdTx' = [fdTx EXCEPT !.pc = "clear"]
           \/ fdLdb' = fdLdb /\ fdTx' = NoTx
    BY <1>11 DEF FlushCommit, CommitTreaps, Committed, Step, End, Quiet, fdMem
  <2>2. CASE fdLdb' = fdLdb /\ fdTx' = NoTx
    BY <2>1, <2>2, AbandonStep
  <2>3. CASE fdLdb' = Committed /\ fdTx' = [fdTx EXCEPT !.pc = "clear"]
    <3>1. TxSound /\ IsTx(fdTx) /\ fdTx # NoTx
      BY <1>a, <2>1 DEF Committing
    <3>2. /\ IsTx(fdTx') /\ fdTx'.pc = "clear" /\ fdTx'.snap = fdTx.snap /\ fdTx'.put = fdTx.put
          /\ fdTx'.del = fdTx.del /\ fdTx'.blocks = fdTx.blocks
      BY <2>3, <3>1 DEF IsTx
    <3>3. Committed' = Committed
      BY <2>1, <2>3, OverlayTwice DEF Committed
    <3>4. Present(Committed)' = Present(Committed) /\ Present(fdLdb)' = Present(Committed)
      BY <2>3, <3>3 DEF Present
    <3>5. TxSound' /\ fdTx' # NoTx
      BY <2>1, <2>3, <3>1, <3>2, <3>3, NoTxFacts DEF TxSound, Running, Committing
    <3>6. Mine' = Mine
      BY <3>1, <3>2, <3>5 DEF Mine, FetchKeys, Present
    <3>7. fdLdb' = [k \in Rows |-> fdLdb'[k]]
      BY <2>3 DEF Committed, Overlay
    <3> QED
      BY <3>4, <3>5, <3>6, <3>7 DEF FfldbIInv, Steps, Atomic!BlockDbNext, Atomic!Persist
  <2> QED
    BY <2>1, <2>2, <2>3
<1>12. CASE FlushClear
  <2>1. /\ fdTx.pc = "clear" /\ fdState' = fdState /\ fdPut' = Empty /\ fdDel' = {} /\ fdLdb' = fdLdb
        /\ fdTx' = [fdTx EXCEPT !.pc = "rows"]
    BY <1>12 DEF FlushClear, Step, Quiet, fdDisk
  <2>2. TxSound /\ IsTx(fdTx) /\ fdTx # NoTx
    BY <1>a, <2>1 DEF Committing
  <2>3. /\ IsTx(fdTx') /\ fdTx'.pc = "rows" /\ fdTx'.snap = fdTx.snap /\ fdTx'.put = fdTx.put
        /\ fdTx'.del = fdTx.del /\ fdTx'.blocks = fdTx.blocks
    BY <2>1, <2>2 DEF IsTx
  <2>4. Committed' = Committed
    <3>1. Committed' = fdLdb
      BY <2>1, OverlayEmpty DEF Committed, FfldbIInv
    <3> QED
      BY <2>1, <2>2, <3>1 DEF TxSound
  <2>5. Present(Committed)' = Present(Committed) /\ Present(fdLdb)' = Present(fdLdb)
    BY <2>1, <2>4 DEF Present
  <2>6. TxSound' /\ fdTx' # NoTx
    BY <2>1, <2>2, <2>3, <2>4, NoTxFacts DEF TxSound, Running, Committing
  <2>7. Mine' = Mine
    BY <2>2, <2>3, <2>6 DEF Mine, FetchKeys, Present
  <2> QED
    BY <2>1, <2>5, <2>6, <2>7 DEF FfldbIInv, Steps
<1>13. CASE CommitRows
  <2>1. /\ fdTx.pc = "rows" /\ fdTx' = NoTx /\ fdPut' = fdPut /\ fdDel' = fdDel
        /\ fdLdb' = Overlay(fdLdb, fdTx.put, fdTx.del) \/ fdLdb' = fdLdb
    BY <1>13 DEF CommitRows, CommitTreaps, End, fdMem
  <2>2. CASE fdLdb' = fdLdb
    BY <2>1, <2>2, AbandonStep
  <2>3. CASE fdLdb' = Overlay(fdLdb, fdTx.put, fdTx.del)
    <3>1. fdPut = Empty /\ fdDel = {}
      BY <1>a, <2>1 DEF TxSound, Committing
    <3>2. Committed = fdLdb
      BY <3>1, OverlayEmpty DEF Committed, FfldbIInv
    <3>3. fdLdb' = [k \in Rows |-> fdLdb'[k]]
      BY <2>3 DEF Overlay
    <3>4. Committed' = fdLdb'
      BY <2>1, <3>1, <3>3, OverlayEmpty DEF Committed
    <3> QED
      BY <2>1, <2>3, <3>2, <3>3, <3>4, CommitMineStep DEF Committing
  <2> QED
    BY <2>1, <2>2, <2>3
<1>14. ASSUME NEW r \in FdReaders, SnapshotLdb(r) \/ SnapshotCache(r) \/ EndView(r)
       PROVE  FfldbIInv' /\ Steps
  BY <1>14, SilentStep DEF SnapshotLdb, SnapshotCache, EndView, ReaderStep, fdDisk, fdMem
<1>15. CASE CloseDb
  <2>1. /\ fdTx = NoTx /\ fdTx' = NoTx /\ fdPut' = fdPut /\ fdDel' = fdDel
        /\ fdLdb' = Committed \/ fdLdb' = fdLdb
    BY <1>15 DEF CloseDb, CommitTreaps, Committed, fdMem
  <2>2. CASE fdLdb' = fdLdb
    BY <2>1, <2>2, AbandonStep
  <2>3. CASE fdLdb' = Committed
    <3>1. Committed' = Committed
      BY <2>1, <2>3, OverlayTwice DEF Committed
    <3>2. Present(Committed)' = Present(Committed) /\ Present(fdLdb)' = Present(Committed)
      BY <2>3, <3>1 DEF Present
    <3>3. Mine' = Mine
      BY <2>1 DEF Mine
    <3>4. fdLdb' = [k \in Rows |-> fdLdb'[k]]
      BY <2>3 DEF Committed, Overlay
    <3> QED
      BY <2>1, <3>2, <3>3, <3>4 DEF FfldbIInv, Steps, Atomic!BlockDbNext, Atomic!Persist
  <2> QED
    BY <2>1, <2>2, <2>3
<1>16. CASE Crash
  BY <1>16, CrashBackStep DEF Crash
<1>17. CASE OpenDb
  <2>1. fdState # "open" /\ fdTx' = fdTx /\ fdLdb' = fdLdb /\ fdPut' = Empty /\ fdDel' = {}
    BY <1>17 DEF OpenDb
  <2>2. fdTx = NoTx
    BY <2>1 DEF FfldbIInv, TxSound
  <2> QED
    BY <2>1, <2>2, CrashBackStep
<1>18. CASE UNCHANGED fdVars
  BY <1>18, SilentStep DEF fdVars, fdDisk, fdMem
<1> QED
  BY <1>1, <1>2, <1>3, <1>4, <1>5, <1>6, <1>7, <1>8, <1>9, <1>10, <1>11, <1>12, <1>13, <1>14,
     <1>15, <1>16, <1>17, <1>18 DEF FfldbNext

\* The block database gives atomic, durable transactions, for any blocks, keys,
\* file size and number of crashes: its cache, its flush in three steps and its
\* start after a crash never show or keep a part of a transaction.
THEOREM BlockDbImplemented == FfldbSpec => AtomicStore
<1>1. FfldbInit => FfldbIInv /\ Atomic!BlockDbInit
  <2> SUFFICES ASSUME FfldbInit PROVE FfldbIInv /\ Atomic!BlockDbInit
    OBVIOUS
  <2>1. /\ fdLdb = [k \in Rows |-> IF k = Cursor THEN <<0, 0>> ELSE NoRow]
        /\ fdPut = Empty /\ fdDel = {} /\ fdTx = NoTx
    BY DEF FfldbInit
  <2>2. fdLdb = [k \in Rows |-> fdLdb[k]]
    BY <2>1
  <2>3. Committed = fdLdb
    BY <2>1, <2>2, OverlayEmpty DEF Committed
  <2> QED
    BY <2>1, <2>2, <2>3 DEF FfldbIInv, Atomic!BlockDbInit, Mine
<1>2. FfldbIInv /\ [FfldbNext]_fdVars
        => FfldbIInv' /\ [Atomic!BlockDbNext]_<<Present(Committed), Present(fdLdb), Mine>>
  BY FfldbSteps DEF Steps
<1> QED
  BY <1>1, <1>2, PTL DEF FfldbSpec, AtomicStore, Atomic!BlockDbSpec

-----------------------------------------------------------------------------
(* What the rows of Ffldb locate is in the files *)

\* Two places in the files: c is not after d, l is before c.
FdNotAfter(c, d) == c[1] < d[1] \/ (c[1] = d[1] /\ c[2] <= d[2])
FdBefore(l, c) == l[1] < c[1] \/ (l[1] = c[1] /\ l[2] < c[2])

\* The files are numbered without a gap, and a beginning of each is synced.
FdStored == FdBlocks \cup {"junk"}
FdSolid(fs) ==
    /\ fs \in [DOMAIN fs -> Seq(FdStored)] /\ DOMAIN fs \subseteq 0..FdMaxFile
    /\ \A f, h \in DOMAIN fs : \A g \in Nat : f <= g /\ g <= h => g \in DOMAIN fs
FdFilesOK(fs, sy) ==
    /\ FdSolid(fs) /\ sy \in [DOMAIN fs -> Nat]
    /\ \A f \in DOMAIN fs : sy[f] <= Len(fs[f])

\* The files have the block b at l, and reach the cursor c.
FdReads(fs, b, l) == l[1] \in DOMAIN fs /\ l[2] < Len(fs[l[1]]) /\ fs[l[1]][l[2] + 1] = b
FdReached(fs, c) == IF DOMAIN fs = {} THEN c = <<0, 0>> ELSE c[1] \in DOMAIN fs /\ c[2] <= Len(fs[c[1]])

\* The rows locate blocks before their cursor, and the files have them or had
\* them when they were pruned.
FdRowsOK(R, fs, pruned) ==
    /\ R \in Contents /\ R[Cursor] \in Locations /\ FdReached(fs, R[Cursor])
    /\ \A b \in FdBlocks : R[b] # NoRow =>
           FdBefore(R[b], R[Cursor]) /\ (R[b] \in pruned \/ FdReads(fs, b, R[b]))

\* The write cursor is the end of the last file, which will not be written again
\* without being opened, and then only behind what is synced; what is before the
\* cursor L of leveldb survives a crash.
FdEndOK(fs, sy, at, opened, L) ==
    /\ at \in Locations
    /\ IF DOMAIN fs = {} THEN at = <<0, 0>> /\ ~opened
       ELSE /\ at[1] \in DOMAIN fs /\ at[2] = Len(fs[at[1]]) /\ \A f \in DOMAIN fs : f <= at[1]
            /\ opened \/ sy[at[1]] = at[2] \/ at[2] = FdFileBlocks
    /\ opened /\ L[1] = at[1] => L[2] <= sy[at[1]]

\* A transaction: its block is written behind everything, the cursor among its
\* rows is the write cursor, the file is synced before leveldb is written, and
\* what it prunes are the first files, before the cursor of leveldb.
FdTxOK(t, fs, sy, at, opened, L) ==
    /\ t.del \subseteq FdBlocks \cup FdKeys /\ DOMAIN t.put \subseteq Rows /\ t.put \in [DOMAIN t.put -> Locations]
    /\ DOMAIN t.put \cap t.del = {}
    /\ t.blocks \in Seq(FdBlocks) /\ Len(t.blocks) <= 1
    /\ t.pc \in {"run", "delete"} \/ t.blocks # <<>> => DOMAIN t.put \subseteq FdKeys
    /\ t.pc \in {"delete", "write"} /\ t.blocks # <<>> => t.old = at
    /\ \A b \in DOMAIN t.put \cap FdBlocks : FdBefore(t.put[b], at) /\ FdReads(fs, b, t.put[b])
    /\ t.pc \in Committing => Cursor \in DOMAIN t.put /\ t.put[Cursor] = at
    /\ t.pc \in {"flush", "clear", "rows"} /\ opened => sy[at[1]] = at[2]
    /\ t.prune \subseteq Nat /\ (t.pc \notin {"run", "delete"} => t.prune = {}) /\ (t.pc = "delete" => t.prune # {})
    /\ \A f \in t.prune : f < L[1] /\ \A g \in DOMAIN fs : g <= f => g \in t.prune

\* The inductive invariant of FfldbInvariant.
FdIInv ==
    /\ fdState \in {"open", "closed", "crashed"} /\ fdOpened \in BOOLEAN
    /\ FdFilesOK(fdFiles, fdSynced) /\ FdRowsOK(fdLdb, fdFiles, fdPruned)
    /\ fdPut \in [DOMAIN fdPut -> Locations] /\ DOMAIN fdPut \subseteq Rows
    /\ fdDel \subseteq FdBlocks \cup FdKeys /\ fdDel \cap DOMAIN fdPut = {}
    /\ fdState # "crashed" => FdEndOK(fdFiles, fdSynced, fdAt, fdOpened, fdLdb[Cursor])
    /\ fdState = "crashed" =>
           fdAt = <<0, 0>> /\ ~fdOpened /\ \A f \in DOMAIN fdFiles : fdSynced[f] = Len(fdFiles[f])
    /\ fdState = "open" =>
           FdRowsOK(Committed, fdFiles, fdPruned) /\ FdNotAfter(fdLdb[Cursor], Committed[Cursor])
    /\ fdTx # NoTx => FdTxOK(fdTx, fdFiles, fdSynced, fdAt, fdOpened, fdLdb[Cursor])

\* A location is a file and an offset.
LEMMA FdLocation ==
    /\ FdFileBlocks \in Nat \ {0} /\ FdMaxFile \in Nat /\ <<0, 0>> \in Locations /\ NoRow \notin Locations
    /\ \A l \in Locations : l = <<l[1], l[2]>> /\ l[1] \in 0..FdMaxFile /\ l[2] \in 0..FdFileBlocks
    /\ \A f \in 0..FdMaxFile, n \in 0..FdFileBlocks : <<f, n>> \in Locations
<1>1. FdFileBlocks \in Nat \ {0} /\ FdMaxFile \in Nat
  BY FfldbAssumption
<1>2. 0 \in 0..FdMaxFile /\ 0 \in 0..FdFileBlocks
  BY <1>1
<1>3. /\ \A l \in Locations : l = <<l[1], l[2]>> /\ l[1] \in 0..FdMaxFile /\ l[2] \in 0..FdFileBlocks
      /\ \A f \in 0..FdMaxFile, n \in 0..FdFileBlocks : <<f, n>> \in Locations
  BY DEF Locations
<1>4. NoRow \notin Locations
  <2> SUFFICES ASSUME NoRow \in Locations PROVE FALSE
    OBVIOUS
  <2>1. <<>> = <<NoRow[1], NoRow[2]>>
    BY <1>3 DEF NoRow
  <2>2. Len(<<>>) = 0 /\ Len(<<NoRow[1], NoRow[2]>>) = 2
    OBVIOUS
  <2> QED
    BY <2>1, <2>2
<1> QED
  BY <1>1, <1>2, <1>3, <1>4

\* The names of rows are told apart.
LEMMA FdNames ==
    /\ Cursor \in Rows /\ Cursor \notin FdBlocks /\ Cursor \notin FdKeys /\ FdBlocks \subseteq Rows /\ FdKeys \subseteq Rows
    /\ \A b \in FdBlocks : b \notin FdKeys /\ b # Cursor
  BY FfldbAssumption DEF Rows

\* The files change, but not what is before the cursor of the rows.
LEMMA FdRowsKept ==
    ASSUME NEW R, NEW fs, NEW pr, FdRowsOK(R, fs, pr), NEW gs, NEW qr, pr \subseteq qr, FdReached(gs, R[Cursor]),
           \A l \in Locations : FdBefore(l, R[Cursor]) /\ l[1] \in DOMAIN fs /\ l[2] < Len(fs[l[1]]) =>
               l \in qr \/ (l[1] \in DOMAIN gs /\ l[2] < Len(gs[l[1]]) /\ gs[l[1]][l[2] + 1] = fs[l[1]][l[2] + 1])
    PROVE  FdRowsOK(R, gs, qr)
<1>1. \A b \in FdBlocks : R[b] # NoRow => R[b] \in Locations
  BY FdNames DEF FdRowsOK, Contents
<1>2. ASSUME NEW b \in FdBlocks, R[b] # NoRow
      PROVE  FdBefore(R[b], R[Cursor]) /\ (R[b] \in qr \/ FdReads(gs, b, R[b]))
  <2>1. FdBefore(R[b], R[Cursor]) /\ (R[b] \in pr \/ FdReads(fs, b, R[b])) /\ R[b] \in Locations
    BY <1>1, <1>2 DEF FdRowsOK
  <2> QED
    BY <2>1 DEF FdReads
<1> QED
  BY <1>2 DEF FdRowsOK

\* The rows of a transaction over others.
LEMMA FdRowsOver ==
    ASSUME NEW R, NEW fs, NEW pr, FdRowsOK(R, fs, pr), NEW put, NEW del,
           put \in [DOMAIN put -> Locations], DOMAIN put \subseteq Rows, del \subseteq FdBlocks \cup FdKeys,
           Cursor \in DOMAIN put, FdReached(fs, put[Cursor]), FdNotAfter(R[Cursor], put[Cursor]),
           \A b \in DOMAIN put \cap FdBlocks : FdBefore(put[b], put[Cursor]) /\ FdReads(fs, b, put[b])
    PROVE  FdRowsOK(Overlay(R, put, del), fs, pr) /\ Overlay(R, put, del)[Cursor] = put[Cursor]
<1> DEFINE N == Overlay(R, put, del)
<1>1. \A k \in Rows : N[k] = IF k \in del THEN NoRow ELSE IF k \in DOMAIN put THEN put[k] ELSE R[k]
  BY DEF Overlay
<1>2. N \in Contents
  <2>1. \A k \in Rows : R[k] \in Locations \cup {NoRow}
    BY DEF FdRowsOK, Contents
  <2> QED
    BY <2>1 DEF Overlay, Contents
<1>3. N[Cursor] = put[Cursor] /\ put[Cursor] \in Locations
  BY <1>1, FdNames
<1>4. ASSUME NEW b \in FdBlocks, N[b] # NoRow
      PROVE  FdBefore(N[b], N[Cursor]) /\ (N[b] \in pr \/ FdReads(fs, b, N[b]))
  <2>1. CASE b \in DOMAIN put
    BY <1>1, <1>3, <1>4, <2>1, FdNames
  <2>2. CASE b \notin DOMAIN put
    <3>1. N[b] = R[b] /\ R[b] \in Locations
      BY <1>1, <1>4, <2>2, FdNames DEF FdRowsOK, Contents
    <3>2. FdBefore(R[b], R[Cursor]) /\ (R[b] \in pr \/ FdReads(fs, b, R[b])) /\ R[Cursor] \in Locations
      BY <1>4, <3>1 DEF FdRowsOK
    <3>3. FdBefore(R[b], put[Cursor])
      <4>1. \A l \in Locations : l[1] \in Int /\ l[2] \in Int
        BY FdLocation
      <4>2. /\ R[b][1] \in Int /\ R[b][2] \in Int /\ R[Cursor][1] \in Int /\ R[Cursor][2] \in Int
            /\ put[Cursor][1] \in Int /\ put[Cursor][2] \in Int
        BY <1>3, <3>1, <3>2, <4>1
      <4> QED
        BY <3>2, <4>2 DEF FdBefore, FdNotAfter
    <3> QED
      BY <1>3, <3>1, <3>2, <3>3
  <2> QED
    BY <2>1, <2>2
<1> QED
  BY <1>2, <1>3, <1>4 DEF FdRowsOK

\* The write cursor is reached, and is not before a cursor that is reached.
LEMMA FdEndFacts ==
    ASSUME NEW fs, NEW sy, NEW at, NEW opened, NEW L, FdFilesOK(fs, sy), FdEndOK(fs, sy, at, opened, L),
           NEW c \in Locations, FdReached(fs, c)
    PROVE  FdReached(fs, at) /\ FdNotAfter(c, at)
<1>1. c[1] \in Int /\ c[2] \in Int /\ at[1] \in Int /\ at[2] \in Int /\ at \in Locations
  BY FdLocation DEF FdEndOK
<1>2. CASE DOMAIN fs = {}
  <2>1. c = <<0, 0>> /\ at = <<0, 0>>
    BY <1>2 DEF FdReached, FdEndOK
  <2> QED
    BY <1>2, <2>1 DEF FdReached, FdNotAfter
<1>3. CASE DOMAIN fs # {}
  <2>1. /\ at[1] \in DOMAIN fs /\ at[2] = Len(fs[at[1]]) /\ c[1] <= at[1] /\ c[2] <= Len(fs[c[1]])
        /\ c[1] \in DOMAIN fs
    BY <1>3 DEF FdReached, FdEndOK
  <2> QED
    BY <1>1, <1>3, <2>1 DEF FdReached, FdNotAfter
<1> QED
  BY <1>2, <1>3

\* A write at the end of a file appends; the rest of the file is empty.
LEMMA FdWriteEnd ==
    ASSUME NEW s \in Seq(FdStored), NEW x \in FdStored
    PROVE  /\ WriteAt(s, Len(s), x) \in Seq(FdStored) /\ Len(WriteAt(s, Len(s), x)) = Len(s) + 1
           /\ WriteAt(s, Len(s), x)[Len(s) + 1] = x
           /\ \A i \in 1..Len(s) : WriteAt(s, Len(s), x)[i] = s[i]
<1> DEFINE a == SubSeq(s, 1, Len(s))
           c == SubSeq(s, Len(s) + 2, Len(s))
<1>1. a \in Seq(FdStored) /\ Len(a) = Len(s) /\ \A i \in 1..Len(s) : a[i] = s[i]
  OBVIOUS
<1>2. c \in Seq(FdStored) /\ Len(c) = 0
  OBVIOUS
<1>3. a \o <<x>> \in Seq(FdStored) /\ Len(a \o <<x>>) = Len(s) + 1 /\ (a \o <<x>>)[Len(s) + 1] = x
      /\ \A i \in 1..Len(s) : (a \o <<x>>)[i] = s[i]
  <2> HIDE DEF a
  <2> QED
    BY <1>1
<1>4. WriteAt(s, Len(s), x) = (a \o <<x>>) \o c
  BY DEF WriteAt
<1> HIDE DEF a, c
<1> DEFINE d == a \o <<x>>
<1>5. d \in Seq(FdStored) /\ Len(d) = Len(s) + 1 /\ Len(s) \in Nat
  BY <1>3
<1> HIDE DEF d
<1>6. d \o c \in Seq(FdStored) /\ Len(d \o c) = Len(s) + 1 /\ \A i \in 1..(Len(s) + 1) : (d \o c)[i] = d[i]
  BY <1>2, <1>5
<1>7. \A i \in 1..Len(s) : i \in 1..(Len(s) + 1)
  BY <1>5
<1>8. Len(s) + 1 \in 1..(Len(s) + 1)
  BY <1>5
<1> QED
  BY <1>3, <1>4, <1>6, <1>7, <1>8 DEF d

\* A file cut off or filled up.
LEMMA FdTruncated ==
    ASSUME NEW s \in Seq(FdStored), NEW n \in Nat
    PROVE  /\ Truncate(s, n) \in Seq(FdStored) /\ Len(Truncate(s, n)) = n
           /\ \A i \in 1..n : i <= Len(s) => Truncate(s, n)[i] = s[i]
<1>1. \A i \in 1..n : i <= Len(s) => s[i] \in FdStored
  OBVIOUS
<1>2. "junk" \in FdStored
  BY DEF FdStored
<1>3. Truncate(s, n) \in [1..n -> FdStored]
  BY <1>1, <1>2 DEF Truncate
<1> QED
  BY <1>3 DEF Truncate

\* Only the transaction changes.
LEMMA FdTxStep ==
    ASSUME FdIInv, UNCHANGED <<fdState, fdFiles, fdSynced, fdLdb, fdAt, fdOpened, fdPut, fdDel, fdPruned>>,
           fdTx' = NoTx \/ FdTxOK(fdTx', fdFiles, fdSynced, fdAt, fdOpened, fdLdb[Cursor])
    PROVE  FdIInv'
<1>1. Committed' = Committed
  BY DEF Committed
<1> QED
  BY <1>1 DEF FdIInv

\* What is known of a transaction that runs.
LEMMA FdRunning ==
    ASSUME FfldbIInv, FdIInv, fdTx.pc \in Running \cup Committing
    PROVE  /\ TxSound /\ IsTx(fdTx) /\ fdTx # NoTx /\ fdState = "open"
           /\ FdTxOK(fdTx, fdFiles, fdSynced, fdAt, fdOpened, fdLdb[Cursor])
           /\ FdEndOK(fdFiles, fdSynced, fdAt, fdOpened, fdLdb[Cursor])
           /\ FdRowsOK(Committed, fdFiles, fdPruned) /\ FdNotAfter(fdLdb[Cursor], Committed[Cursor])
<1>1. fdTx # NoTx
  BY NoTxFacts
<1>2. TxSound
  BY <1>1 DEF FfldbIInv
<1> QED
  BY <1>1, <1>2 DEF FdIInv, TxSound

\* The fields of a transaction with another pc, rows, blocks or files to prune.
LEMMA FdFields ==
    ASSUME NEW t, IsTx(t)
    PROVE  /\ \A pc, old : LET u == [t EXCEPT !.pc = pc, !.old = old] IN
                  u.pc = pc /\ u.put = t.put /\ u.del = t.del /\ u.blocks = t.blocks /\ u.prune = t.prune /\ u.old = old
           /\ \A pc : LET u == [t EXCEPT !.pc = pc] IN
                  u.pc = pc /\ u.put = t.put /\ u.del = t.del /\ u.blocks = t.blocks /\ u.prune = t.prune /\ u.old = t.old
           /\ \A pc, prune : LET u == [t EXCEPT !.pc = pc, !.prune = prune] IN
                  u.pc = pc /\ u.put = t.put /\ u.del = t.del /\ u.blocks = t.blocks /\ u.prune = prune /\ u.old = t.old
           /\ \A put, del : LET u == [t EXCEPT !.put = put, !.del = del] IN
                  u.pc = t.pc /\ u.put = put /\ u.del = del /\ u.blocks = t.blocks /\ u.prune = t.prune /\ u.old = t.old
           /\ \A blocks : LET u == [t EXCEPT !.blocks = blocks] IN
                  u.pc = t.pc /\ u.put = t.put /\ u.del = t.del /\ u.blocks = blocks /\ u.prune = t.prune /\ u.old = t.old
           /\ \A prune : LET u == [t EXCEPT !.prune = prune] IN
                  u.pc = t.pc /\ u.put = t.put /\ u.del = t.del /\ u.blocks = t.blocks /\ u.prune = prune /\ u.old = t.old
<1>1. t = [pc |-> t.pc, snap |-> t.snap, put |-> t.put, del |-> t.del, blocks |-> t.blocks, prune |-> t.prune,
           old |-> t.old]
  BY DEF IsTx
<1> QED
  BY <1>1

\* putKey of the transaction.
LEMMA FdPut ==
    ASSUME IsTx(fdTx), NEW k, NEW v
    PROVE  LET u == PutKey(k, v) IN
               /\ IsTx(u) /\ u.pc = fdTx.pc /\ u.put = Also(fdTx.put, k, v) /\ u.del = fdTx.del \ {k}
               /\ u.blocks = fdTx.blocks /\ u.prune = fdTx.prune /\ u.old = fdTx.old
<1>1. PutKey(k, v) = [fdTx EXCEPT !.put = Also(fdTx.put, k, v), !.del = fdTx.del \ {k}]
  BY DEF PutKey
<1>2. IsTx(PutKey(k, v))
  BY PutDeleteFacts
<1> QED
  BY <1>1, <1>2, FdFields

\* deleteKey of the transaction.
LEMMA FdDelete ==
    ASSUME IsTx(fdTx), NEW ks
    PROVE  LET u == DeleteKeys(ks) IN
               /\ IsTx(u) /\ u.pc = fdTx.pc /\ u.put = Restrict(fdTx.put, DOMAIN fdTx.put \ ks)
               /\ u.del = fdTx.del \cup ks
               /\ u.blocks = fdTx.blocks /\ u.prune = fdTx.prune /\ u.old = fdTx.old
<1>1. DeleteKeys(ks) = [fdTx EXCEPT !.put = Restrict(fdTx.put, DOMAIN fdTx.put \ ks), !.del = fdTx.del \cup ks]
  BY DEF DeleteKeys
<1>2. IsTx(DeleteKeys(ks))
  BY PutDeleteFacts
<1> QED
  BY <1>1, <1>2, FdFields

\* A transaction begins.
LEMMA FdBegin == ASSUME FdIInv, BeginUpdate PROVE FdIInv'
<1>1. fdTx' = [NoTx EXCEPT !.pc = "run", !.snap = Committed]
  BY DEF BeginUpdate
<1>2. fdTx'.pc = "run" /\ fdTx'.put = Empty /\ fdTx'.del = {} /\ fdTx'.blocks = <<>> /\ fdTx'.prune = {}
  BY <1>1 DEF NoTx
<1>3. DOMAIN Empty = {} /\ Empty \in [{} -> Locations]
  BY DEF Empty
<1>4. <<>> \in Seq(FdBlocks) /\ Len(<<>>) = 0
  OBVIOUS
<1>5. FdTxOK(fdTx', fdFiles, fdSynced, fdAt, fdOpened, fdLdb[Cursor])
  BY <1>2, <1>3, <1>4 DEF FdTxOK, Committing
<1> QED
  BY <1>5, FdTxStep DEF BeginUpdate, fdDisk, fdMem, fdHistory

\* The function of the transaction changes a metadata key.
LEMMA FdKeyStep ==
    ASSUME FfldbIInv, FdIInv, fdTx.pc = "run", NEW k \in FdKeys, fdTx' = PutKey(k, <<0, 0>>) \/ fdTx' = DeleteKeys({k})
    PROVE  FdTxOK(fdTx', fdFiles, fdSynced, fdAt, fdOpened, fdLdb[Cursor])
<1>1. IsTx(fdTx) /\ FdTxOK(fdTx, fdFiles, fdSynced, fdAt, fdOpened, fdLdb[Cursor])
  BY FdRunning DEF Running
<1>2. /\ fdTx.put \in [DOMAIN fdTx.put -> Locations] /\ DOMAIN fdTx.put \subseteq FdKeys /\ fdTx.del \subseteq FdBlocks \cup FdKeys
      /\ DOMAIN fdTx.put \cap fdTx.del = {} /\ DOMAIN fdTx.put \subseteq Rows
  BY <1>1 DEF FdTxOK
<1>3. k \in Rows /\ <<0, 0>> \in Locations
  BY FdNames, FdLocation
<1>4. /\ fdTx'.pc = "run" /\ fdTx'.blocks = fdTx.blocks /\ fdTx'.prune = fdTx.prune
      /\ \/ fdTx'.put = Also(fdTx.put, k, <<0, 0>>) /\ fdTx'.del = fdTx.del \ {k}
         \/ fdTx'.put = Restrict(fdTx.put, DOMAIN fdTx.put \ {k}) /\ fdTx'.del = fdTx.del \cup {k}
  BY <1>1, FdPut, FdDelete
<1>5. /\ DOMAIN fdTx'.put \subseteq FdKeys /\ fdTx'.put \in [DOMAIN fdTx'.put -> Locations]
      /\ DOMAIN fdTx'.put \cap fdTx'.del = {} /\ fdTx'.del \subseteq FdBlocks \cup FdKeys
  <2>1. CASE fdTx'.put = Also(fdTx.put, k, <<0, 0>>) /\ fdTx'.del = fdTx.del \ {k}
    <3>1. DOMAIN fdTx'.put = DOMAIN fdTx.put \cup {k} /\ fdTx'.put \in [DOMAIN fdTx.put \cup {k} -> Locations]
      BY <1>2, <1>3, <2>1 DEF Also
    <3> QED
      BY <1>2, <2>1, <3>1
  <2>2. CASE fdTx'.put = Restrict(fdTx.put, DOMAIN fdTx.put \ {k}) /\ fdTx'.del = fdTx.del \cup {k}
    <3>1. DOMAIN fdTx'.put = DOMAIN fdTx.put \ {k} /\ fdTx'.put \in [DOMAIN fdTx.put \ {k} -> Locations]
      BY <1>2, <2>2 DEF Restrict
    <3> QED
      BY <1>2, <2>2, <3>1
  <2> QED
    BY <1>4, <2>1, <2>2
<1>6. DOMAIN fdTx'.put \cap FdBlocks = {} /\ DOMAIN fdTx'.put \subseteq Rows
  BY <1>5, FdNames
<1> QED
  BY <1>1, <1>4, <1>5, <1>6 DEF FdTxOK, Committing

\* It stores a block, the only one.
LEMMA FdStoreStep ==
    ASSUME FdTxBlocks <= 1, FfldbIInv, FdIInv, fdTx.pc = "run", NEW b \in FdBlocks, StoreBlock(b)
    PROVE  FdTxOK(fdTx', fdFiles, fdSynced, fdAt, fdOpened, fdLdb[Cursor])
<1>1. IsTx(fdTx) /\ FdTxOK(fdTx, fdFiles, fdSynced, fdAt, fdOpened, fdLdb[Cursor])
  BY FdRunning DEF Running
<1>2. fdTx' = [fdTx EXCEPT !.blocks = Append(fdTx.blocks, b)] /\ Len(fdTx.blocks) < FdTxBlocks
  BY DEF StoreBlock
<1>3. /\ fdTx'.pc = fdTx.pc /\ fdTx'.put = fdTx.put /\ fdTx'.del = fdTx.del /\ fdTx'.blocks = Append(fdTx.blocks, b)
      /\ fdTx'.prune = fdTx.prune
  BY <1>1, <1>2, FdFields
<1>4. fdTx'.blocks \in Seq(FdBlocks) /\ Len(fdTx'.blocks) <= 1
  <2>1. fdTx.blocks \in Seq(FdBlocks) /\ FdTxBlocks \in Nat
    BY <1>1, FfldbAssumption DEF FdTxOK
  <2>2. Len(fdTx.blocks) \in Nat /\ Append(fdTx.blocks, b) \in Seq(FdBlocks)
        /\ Len(Append(fdTx.blocks, b)) = Len(fdTx.blocks) + 1
    BY <2>1
  <2> QED
    BY <1>2, <1>3, <2>1, <2>2
<1> QED
  BY <1>1, <1>3, <1>4 DEF FdTxOK, Committing

\* The least of a set of numbers.
LEMMA FdMin == ASSUME NEW S \in SUBSET Nat, S # {} PROVE Min(S) \in S /\ \A x \in S : Min(S) <= x
<1>1. \E x \in S : \A y \in S : x <= y
  BY LeastNumber
<1> QED
  BY <1>1 DEF Min

\* It prunes: the first files, all before the cursor of leveldb.
LEMMA FdPruneStep ==
    ASSUME FfldbIInv, FdIInv, fdTx.pc = "run", PruneBlocks
    PROVE  FdTxOK(fdTx', fdFiles, fdSynced, fdAt, fdOpened, fdLdb[Cursor])
<1> DEFINE scan == ScanBlockFiles
           total(n) == scan[3] + FdFileBlocks * (scan[2] - scan[1] - n)
           enough == {n \in 1..(scan[2] - scan[1]) : total(n) <= FdPruneTarget \/ n = scan[2] - scan[1]}
           dead == scan[1]..(scan[1] + Min(enough) - 1)
           ks == {b \in FdBlocks : FetchKeys[b] # NoRow /\ FetchKeys[b][1] \in dead}
<1>1. IsTx(fdTx) /\ FdTxOK(fdTx, fdFiles, fdSynced, fdAt, fdOpened, fdLdb[Cursor])
  BY FdRunning DEF Running
<1>2. /\ scan[1] # scan[2] /\ \A f \in dead : f < fdLdb[Cursor][1]
      /\ fdTx' = [DeleteKeys(ks) EXCEPT !.prune = dead]
  BY DEF PruneBlocks
<1>3. /\ fdTx'.pc = fdTx.pc /\ fdTx'.put = Restrict(fdTx.put, DOMAIN fdTx.put \ ks) /\ fdTx'.del = fdTx.del \cup ks
      /\ fdTx'.blocks = fdTx.blocks /\ fdTx'.prune = dead
  <2> HIDE DEF dead, ks
  <2>1. LET u == DeleteKeys(ks) IN
           /\ IsTx(u) /\ u.pc = fdTx.pc /\ u.put = Restrict(fdTx.put, DOMAIN fdTx.put \ ks) /\ u.del = fdTx.del \cup ks
           /\ u.blocks = fdTx.blocks
    BY <1>1, FdDelete
  <2> QED
    BY <1>2, <2>1, FdFields
<1>4. DOMAIN fdFiles \in SUBSET Nat /\ DOMAIN fdFiles # {} /\ DOMAIN fdFiles \in SUBSET (0..FdMaxFile)
  <2>1. DOMAIN fdFiles \subseteq 0..FdMaxFile /\ FdMaxFile \in Nat
    BY FdLocation DEF FdIInv, FdFilesOK, FdSolid
  <2>2. DOMAIN fdFiles = {} => scan[1] = scan[2]
    BY DEF ScanBlockFiles
  <2>3. \A f \in 0..FdMaxFile : f \in Nat
    BY <2>1
  <2> QED
    BY <1>2, <2>1, <2>2, <2>3
<1>5. scan[1] = Min(DOMAIN fdFiles) /\ scan[2] = Max(DOMAIN fdFiles)
  BY <1>4 DEF ScanBlockFiles
<1>6. scan[1] \in DOMAIN fdFiles /\ (\A g \in DOMAIN fdFiles : scan[1] <= g) /\ scan[2] \in DOMAIN fdFiles
  <2>1. Min(DOMAIN fdFiles) \in DOMAIN fdFiles /\ \A g \in DOMAIN fdFiles : Min(DOMAIN fdFiles) <= g
    BY <1>4, FdMin
  <2>2. Max(DOMAIN fdFiles) \in DOMAIN fdFiles
    BY <1>4, GreatestNumber, FdLocation
  <2> QED
    BY <1>5, <2>1, <2>2
<1>7. Min(enough) \in Nat
  <2>1. scan[2] - scan[1] \in 1..(scan[2] - scan[1])
    <3>1. scan[1] \in Nat /\ scan[2] \in Nat /\ scan[1] <= scan[2]
      BY <1>4, <1>6
    <3> HIDE DEF scan
    <3> QED
      BY <1>2, <3>1
  <2>2. enough # {} /\ enough \in SUBSET Nat
    <3> HIDE DEF scan, total
    <3> QED
      BY <2>1
  <2> HIDE DEF enough
  <2> QED
    BY <2>2, FdMin
<1>8. dead \subseteq Nat /\ \A f \in dead : \A g \in DOMAIN fdFiles : g <= f => g \in dead
  <2>1. scan[1] \in Nat
    BY <1>4, <1>6
  <2> HIDE DEF scan, enough
  <2> QED
    BY <1>4, <1>6, <1>7, <2>1
<1> HIDE DEF dead
<1>9. /\ DOMAIN fdTx'.put \subseteq DOMAIN fdTx.put /\ fdTx'.put \in [DOMAIN fdTx'.put -> Locations]
      /\ DOMAIN fdTx'.put \cap fdTx'.del = {} /\ fdTx'.del \subseteq FdBlocks \cup FdKeys
      /\ \A x \in DOMAIN fdTx'.put : fdTx'.put[x] = fdTx.put[x]
  <2>1. /\ fdTx.put \in [DOMAIN fdTx.put -> Locations] /\ fdTx.del \subseteq FdBlocks \cup FdKeys
        /\ DOMAIN fdTx.put \cap fdTx.del = {}
    BY <1>1 DEF FdTxOK
  <2>2. ks \subseteq FdBlocks
    OBVIOUS
  <2> HIDE DEF ks
  <2> QED
    BY <1>3, <2>1, <2>2 DEF Restrict
<1> QED
  BY <1>1, <1>2, <1>3, <1>8, <1>9 DEF FdTxOK, Committing

\* The function passed to Update.
LEMMA FdInUpdate == ASSUME FdTxBlocks <= 1, FfldbIInv, FdIInv, InUpdate PROVE FdIInv'
<1>1. fdTx.pc = "run" /\ UNCHANGED <<fdState, fdFiles, fdSynced, fdLdb, fdAt, fdOpened, fdPut, fdDel, fdPruned>>
  BY DEF InUpdate, fdDisk, fdMem
<1>2. FdTxOK(fdTx', fdFiles, fdSynced, fdAt, fdOpened, fdLdb[Cursor])
  BY <1>1, FdKeyStep, FdStoreStep, FdPruneStep DEF InUpdate
<1> QED
  BY <1>1, <1>2, FdTxStep

\* The commit begins.
LEMMA FdCommitBegin == ASSUME FfldbIInv, FdIInv, CommitTxBegin PROVE FdIInv'
<1>1. /\ fdTx.pc = "run" /\ UNCHANGED <<fdState, fdFiles, fdSynced, fdLdb, fdAt, fdOpened, fdPut, fdDel, fdPruned>>
      /\ fdTx' = [fdTx EXCEPT !.pc = IF fdTx.prune = {} THEN "write" ELSE "delete", !.old = fdAt]
  BY DEF CommitTxBegin, fdDisk, fdMem, Quiet, fdHistory
<1>2. IsTx(fdTx) /\ FdTxOK(fdTx, fdFiles, fdSynced, fdAt, fdOpened, fdLdb[Cursor])
  BY <1>1, FdRunning DEF Running
<1>3. /\ fdTx'.pc = (IF fdTx.prune = {} THEN "write" ELSE "delete") /\ fdTx'.old = fdAt
      /\ fdTx'.put = fdTx.put /\ fdTx'.del = fdTx.del /\ fdTx'.blocks = fdTx.blocks /\ fdTx'.prune = fdTx.prune
  BY <1>1, <1>2, FdFields
<1>4. FdTxOK(fdTx', fdFiles, fdSynced, fdAt, fdOpened, fdLdb[Cursor])
  BY <1>1, <1>2, <1>3 DEF FdTxOK, Committing
<1> QED
  BY <1>1, <1>4, FdTxStep

\* The write cursor becomes a row.
LEMMA FdPutCursor == ASSUME FfldbIInv, FdIInv, PutCursor PROVE FdIInv'
<1>1. /\ fdTx.pc = "write" /\ UNCHANGED <<fdState, fdFiles, fdSynced, fdLdb, fdAt, fdOpened, fdPut, fdDel, fdPruned>>
      /\ fdTx' = [PutKey(Cursor, fdAt) EXCEPT !.pc = "commit"] /\ fdTx.blocks = <<>>
  BY DEF PutCursor, fdDisk, fdMem, Quiet, fdHistory
<1>2. IsTx(fdTx) /\ FdTxOK(fdTx, fdFiles, fdSynced, fdAt, fdOpened, fdLdb[Cursor]) /\ fdAt \in Locations
  BY <1>1, FdRunning DEF Running, FdEndOK
<1>3. /\ fdTx'.pc = "commit" /\ fdTx'.put = Also(fdTx.put, Cursor, fdAt) /\ fdTx'.del = fdTx.del \ {Cursor}
      /\ fdTx'.blocks = <<>> /\ fdTx'.prune = fdTx.prune
  <2>1. LET u == PutKey(Cursor, fdAt) IN
           /\ IsTx(u) /\ u.put = Also(fdTx.put, Cursor, fdAt) /\ u.del = fdTx.del \ {Cursor}
           /\ u.blocks = fdTx.blocks /\ u.prune = fdTx.prune
    BY <1>2, FdPut
  <2> QED
    BY <1>1, <2>1, FdFields
<1>4. /\ DOMAIN fdTx'.put = DOMAIN fdTx.put \cup {Cursor} /\ fdTx'.put \in [DOMAIN fdTx'.put -> Locations]
      /\ fdTx'.put[Cursor] = fdAt /\ \A x \in DOMAIN fdTx.put : x # Cursor => fdTx'.put[x] = fdTx.put[x]
  <2>1. fdTx.put \in [DOMAIN fdTx.put -> Locations]
    BY <1>2 DEF FdTxOK
  <2> QED
    BY <1>2, <1>3, <2>1 DEF Also
<1>5. /\ DOMAIN fdTx'.put \subseteq Rows /\ DOMAIN fdTx'.put \cap fdTx'.del = {} /\ fdTx'.del \subseteq FdBlocks \cup FdKeys
  BY <1>2, <1>3, <1>4, FdNames DEF FdTxOK
<1>6. \A b \in DOMAIN fdTx'.put \cap FdBlocks : FdBefore(fdTx'.put[b], fdAt) /\ FdReads(fdFiles, b, fdTx'.put[b])
  BY <1>2, <1>4, FdNames DEF FdTxOK
<1>7. FdTxOK(fdTx', fdFiles, fdSynced, fdAt, fdOpened, fdLdb[Cursor])
  BY <1>1, <1>2, <1>3, <1>4, <1>5, <1>6 DEF FdTxOK, Committing
<1> QED
  BY <1>1, <1>7, FdTxStep

\* The rows that a commit makes: those before and the block of the transaction.
LEMMA FdCommitted ==
    ASSUME FfldbIInv, FdIInv, fdTx.pc \in Committing
    PROVE  /\ FdRowsOK(Overlay(Committed, fdTx.put, fdTx.del), fdFiles, fdPruned)
           /\ Overlay(Committed, fdTx.put, fdTx.del)[Cursor] = fdAt
           /\ FdNotAfter(fdLdb[Cursor], fdAt) /\ FdReached(fdFiles, fdAt)
<1>1. /\ FdTxOK(fdTx, fdFiles, fdSynced, fdAt, fdOpened, fdLdb[Cursor])
      /\ FdEndOK(fdFiles, fdSynced, fdAt, fdOpened, fdLdb[Cursor])
      /\ FdRowsOK(Committed, fdFiles, fdPruned)
  BY FdRunning
<1>2. FdFilesOK(fdFiles, fdSynced) /\ FdRowsOK(fdLdb, fdFiles, fdPruned)
  BY DEF FdIInv
<1>3. FdReached(fdFiles, fdAt) /\ FdNotAfter(fdLdb[Cursor], fdAt)
  <2>1. fdLdb[Cursor] \in Locations /\ FdReached(fdFiles, fdLdb[Cursor])
    BY <1>2 DEF FdRowsOK
  <2> QED
    BY <1>1, <1>2, <2>1, FdEndFacts
<1>4. FdNotAfter(Committed[Cursor], fdAt)
  <2>1. Committed[Cursor] \in Locations /\ FdReached(fdFiles, Committed[Cursor])
    BY <1>1 DEF FdRowsOK
  <2> QED
    BY <1>1, <1>2, <2>1, FdEndFacts
<1>5. /\ fdTx.put \in [DOMAIN fdTx.put -> Locations] /\ DOMAIN fdTx.put \subseteq Rows
      /\ fdTx.del \subseteq FdBlocks \cup FdKeys /\ Cursor \in DOMAIN fdTx.put /\ fdTx.put[Cursor] = fdAt
      /\ \A b \in DOMAIN fdTx.put \cap FdBlocks : FdBefore(fdTx.put[b], fdAt) /\ FdReads(fdFiles, b, fdTx.put[b])
  BY <1>1 DEF FdTxOK
<1> DEFINE put == fdTx.put
           del == fdTx.del
<1> HIDE DEF put, del
<1>6. /\ put \in [DOMAIN put -> Locations] /\ DOMAIN put \subseteq Rows /\ del \subseteq FdBlocks \cup FdKeys
      /\ Cursor \in DOMAIN put /\ put[Cursor] = fdAt
      /\ \A b \in DOMAIN put \cap FdBlocks : FdBefore(put[b], put[Cursor]) /\ FdReads(fdFiles, b, put[b])
  BY <1>5 DEF put, del
<1>7. FdRowsOK(Overlay(Committed, put, del), fdFiles, fdPruned) /\ Overlay(Committed, put, del)[Cursor] = put[Cursor]
  BY <1>1, <1>3, <1>4, <1>6, FdRowsOver
<1> QED
  BY <1>3, <1>6, <1>7 DEF put, del

\* The transaction is merged into the cache.
LEMMA FdMerge == ASSUME FfldbIInv, FdIInv, MergeCache PROVE FdIInv'
<1>1. /\ fdTx.pc = "commit" /\ fdTx' = NoTx
      /\ fdPut' = MergePut(fdPut, fdDel, fdTx.put, fdTx.del) /\ fdDel' = MergeDel(fdPut, fdDel, fdTx.put, fdTx.del)
      /\ UNCHANGED <<fdState, fdFiles, fdSynced, fdLdb, fdAt, fdOpened, fdPruned>>
  BY DEF MergeCache, End, fdDisk, fdHistory
<1>2. fdTx.pc \in Committing
  BY <1>1 DEF Committing
<1>3. Committed' = Overlay(Committed, fdTx.put, fdTx.del)
  BY <1>1, OverlayMerged DEF Committed
<1>4. FdRowsOK(Committed', fdFiles, fdPruned) /\ FdNotAfter(fdLdb[Cursor], Committed'[Cursor])
  BY <1>2, <1>3, FdCommitted
<1>5. /\ fdTx.put \in [DOMAIN fdTx.put -> Locations] /\ DOMAIN fdTx.put \subseteq Rows
      /\ fdTx.del \subseteq FdBlocks \cup FdKeys /\ DOMAIN fdTx.put \cap fdTx.del = {} /\ Cursor \notin fdTx.del
  BY <1>2, FdRunning, FdNames DEF FdTxOK
<1>6. /\ fdPut \in [DOMAIN fdPut -> Locations] /\ DOMAIN fdPut \subseteq Rows
      /\ fdDel \subseteq FdBlocks \cup FdKeys /\ fdDel \cap DOMAIN fdPut = {}
  BY DEF FdIInv
<1>7. DOMAIN fdPut' = (DOMAIN fdPut \cup DOMAIN fdTx.put) \ fdTx.del /\ fdPut' \in [DOMAIN fdPut' -> Locations]
  BY <1>1, <1>5, <1>6 DEF MergePut
<1>8. fdDel' = (fdDel \ DOMAIN fdTx.put) \cup fdTx.del
  BY <1>1 DEF MergeDel
<1>9. DOMAIN fdPut' \subseteq Rows /\ fdDel' \subseteq FdBlocks \cup FdKeys /\ fdDel' \cap DOMAIN fdPut' = {}
  BY <1>5, <1>6, <1>7, <1>8
<1> QED
  BY <1>1, <1>4, <1>7, <1>9 DEF FdIInv

\* syncBlocks: then every cursor that the files reach would survive.
LEMMA FdSyncs ==
    ASSUME NEW fs, NEW sy, NEW at, NEW opened \in BOOLEAN, NEW L, FdFilesOK(fs, sy), FdEndOK(fs, sy, at, opened, L),
           NEW sz, sz = IF opened THEN [sy EXCEPT ![at[1]] = Len(fs[at[1]])] ELSE sy
    PROVE  /\ FdFilesOK(fs, sz)
           /\ \A M : FdReached(fs, M) => FdEndOK(fs, sz, at, opened, M)
<1>1. CASE ~opened
  BY <1>1 DEF FdEndOK
<1>2. CASE opened
  <2>1. at[1] \in DOMAIN fs /\ at[2] = Len(fs[at[1]]) /\ at \in Locations /\ \A f \in DOMAIN fs : f <= at[1]
    BY <1>2 DEF FdEndOK
  <2>2. fs \in [DOMAIN fs -> Seq(FdStored)] /\ sy \in [DOMAIN fs -> Nat]
    BY DEF FdFilesOK, FdSolid
  <2>3. Len(fs[at[1]]) \in Nat
    BY <2>1, <2>2
  <2>4. sz \in [DOMAIN fs -> Nat] /\ sz[at[1]] = at[2] /\ \A f \in DOMAIN fs : f # at[1] => sz[f] = sy[f]
    BY <1>2, <2>1, <2>2, <2>3
  <2>5. \A f \in DOMAIN fs : sz[f] <= Len(fs[f])
    BY <2>1, <2>3, <2>4 DEF FdFilesOK
  <2>6. FdFilesOK(fs, sz)
    BY <2>4, <2>5 DEF FdFilesOK
  <2>7. \A M : FdReached(fs, M) => FdEndOK(fs, sz, at, opened, M)
    BY <1>2, <2>1, <2>4 DEF FdEndOK, FdReached
  <2> QED
    BY <2>4, <2>6, <2>7
<1> QED
  BY <1>1, <1>2

\* A flush syncs the file.
LEMMA FdFlushSync == ASSUME FfldbIInv, FdIInv, FlushSync PROVE FdIInv'
<1>1. /\ fdTx.pc = "commit" /\ UNCHANGED <<fdState, fdFiles, fdLdb, fdAt, fdOpened, fdPut, fdDel, fdPruned>>
      /\ \/ /\ fdSynced' = IF fdOpened THEN [fdSynced EXCEPT ![fdAt[1]] = Len(fdFiles[fdAt[1]])] ELSE fdSynced
            /\ fdTx' = [fdTx EXCEPT !.pc = IF fdPut = Empty /\ fdDel = {} THEN "rows" ELSE "flush"]
         \/ fdTx' = NoTx /\ fdSynced' = fdSynced
  BY DEF FlushSync, SyncBlocks, End, Quiet, fdMem, fdHistory
<1>2. CASE fdTx' = NoTx /\ fdSynced' = fdSynced
  BY <1>1, <1>2, FdTxStep
<1>3. CASE /\ fdSynced' = IF fdOpened THEN [fdSynced EXCEPT ![fdAt[1]] = Len(fdFiles[fdAt[1]])] ELSE fdSynced
           /\ fdTx' = [fdTx EXCEPT !.pc = IF fdPut = Empty /\ fdDel = {} THEN "rows" ELSE "flush"]
  <2>1. /\ FdTxOK(fdTx, fdFiles, fdSynced, fdAt, fdOpened, fdLdb[Cursor]) /\ IsTx(fdTx) /\ fdState = "open"
        /\ FdEndOK(fdFiles, fdSynced, fdAt, fdOpened, fdLdb[Cursor])
    BY <1>1, FdRunning DEF Committing
  <2>2. FdFilesOK(fdFiles, fdSynced) /\ fdOpened \in BOOLEAN /\ FdReached(fdFiles, fdLdb[Cursor])
    BY DEF FdIInv, FdRowsOK
  <2>3. /\ FdFilesOK(fdFiles, fdSynced') /\ (fdOpened => fdSynced'[fdAt[1]] = fdAt[2])
        /\ FdEndOK(fdFiles, fdSynced', fdAt, fdOpened, fdLdb[Cursor])
    <3> DEFINE L == fdLdb[Cursor]
               sz == fdSynced'
    <3> HIDE DEF L, sz
    <3>1. FdEndOK(fdFiles, fdSynced, fdAt, fdOpened, L) /\ FdReached(fdFiles, L)
      BY <2>1, <2>2 DEF L
    <3>2. sz = IF fdOpened THEN [fdSynced EXCEPT ![fdAt[1]] = Len(fdFiles[fdAt[1]])] ELSE fdSynced
      BY <1>3 DEF sz
    <3>3. FdFilesOK(fdFiles, sz) /\ FdEndOK(fdFiles, sz, fdAt, fdOpened, L)
      BY <2>2, <3>1, <3>2, FdSyncs
    <3>4. ASSUME fdOpened PROVE sz[fdAt[1]] = fdAt[2]
      <4>1. fdAt[1] \in DOMAIN fdFiles /\ fdAt[2] = Len(fdFiles[fdAt[1]]) /\ fdSynced \in [DOMAIN fdFiles -> Nat]
        BY <2>2, <3>1, <3>4 DEF FdEndOK, FdFilesOK
      <4> QED
        BY <3>2, <3>4, <4>1
    <3> QED
      BY <3>3, <3>4 DEF L, sz
  <2>4. /\ fdTx'.pc \in {"rows", "flush"} /\ fdTx'.put = fdTx.put /\ fdTx'.del = fdTx.del
        /\ fdTx'.blocks = fdTx.blocks /\ fdTx'.prune = fdTx.prune
    BY <1>3, <2>1, FdFields
  <2>5. fdTx.blocks = <<>>
    BY <1>1, FdRunning DEF Committing, TxSound
  <2>6. FdTxOK(fdTx', fdFiles, fdSynced', fdAt, fdOpened, fdLdb[Cursor])
    BY <1>1, <2>1, <2>3, <2>4, <2>5 DEF FdTxOK, Committing
  <2>7. Committed' = Committed
    BY <1>1 DEF Committed
  <2> QED
    BY <1>1, <2>1, <2>3, <2>6, <2>7 DEF FdIInv
<1> QED
  BY <1>1, <1>2, <1>3

\* The cache is written to leveldb.
LEMMA FdFlushCommit == ASSUME FfldbIInv, FdIInv, FlushCommit PROVE FdIInv'
<1>1. /\ fdTx.pc = "flush" /\ UNCHANGED <<fdState, fdFiles, fdSynced, fdAt, fdOpened, fdPut, fdDel, fdPruned>>
      /\ \/ fdLdb' = Committed /\ fdTx' = [fdTx EXCEPT !.pc = "clear"]
         \/ fdLdb' = fdLdb /\ fdTx' = NoTx
  BY DEF FlushCommit, CommitTreaps, Committed, Step, End, Quiet, fdMem, fdHistory
<1>2. CASE fdLdb' = fdLdb /\ fdTx' = NoTx
  BY <1>1, <1>2, FdTxStep
<1>3. CASE fdLdb' = Committed /\ fdTx' = [fdTx EXCEPT !.pc = "clear"]
  <2>1. /\ FdTxOK(fdTx, fdFiles, fdSynced, fdAt, fdOpened, fdLdb[Cursor]) /\ IsTx(fdTx) /\ fdState = "open"
        /\ FdEndOK(fdFiles, fdSynced, fdAt, fdOpened, fdLdb[Cursor]) /\ FdRowsOK(Committed, fdFiles, fdPruned)
        /\ fdTx.blocks = <<>>
    BY <1>1, FdRunning DEF Committing, TxSound
  <2>2. /\ fdTx'.pc = "clear" /\ fdTx'.put = fdTx.put /\ fdTx'.del = fdTx.del
        /\ fdTx'.blocks = fdTx.blocks /\ fdTx'.prune = fdTx.prune
    BY <1>3, <2>1, FdFields
  <2>3. Committed' = Committed
    BY <1>1, <1>3, OverlayTwice DEF Committed
  <2>4. fdOpened => fdSynced[fdAt[1]] = fdAt[2] /\ fdAt[1] \in DOMAIN fdFiles /\ fdAt[2] = Len(fdFiles[fdAt[1]])
    BY <1>1, <2>1 DEF FdTxOK, FdEndOK
  <2>5. FdEndOK(fdFiles, fdSynced, fdAt, fdOpened, Committed[Cursor])
    BY <2>1, <2>4 DEF FdEndOK, FdRowsOK, FdReached
  <2>6. fdTx.prune = {}
    BY <1>1, <2>1 DEF FdTxOK
  <2>7. FdTxOK(fdTx', fdFiles, fdSynced, fdAt, fdOpened, Committed[Cursor])
    BY <1>1, <2>1, <2>2, <2>6 DEF FdTxOK, Committing
  <2>8. FdNotAfter(Committed[Cursor], Committed[Cursor])
    <3>1. Committed[Cursor][1] \in Int /\ Committed[Cursor][2] \in Int
      BY <2>1, FdLocation DEF FdRowsOK
    <3> QED
      BY <3>1 DEF FdNotAfter
  <2> QED
    BY <1>1, <1>3, <2>1, <2>3, <2>5, <2>7, <2>8 DEF FdIInv
<1> QED
  BY <1>1, <1>2, <1>3

\* The cache is cleared.
LEMMA FdFlushClear == ASSUME FfldbIInv, FdIInv, FlushClear PROVE FdIInv'
<1>1. /\ fdTx.pc = "clear" /\ fdTx' = [fdTx EXCEPT !.pc = "rows"] /\ fdPut' = Empty /\ fdDel' = {}
      /\ UNCHANGED <<fdState, fdFiles, fdSynced, fdLdb, fdAt, fdOpened, fdPruned>>
  BY DEF FlushClear, Step, Quiet, fdDisk, fdHistory
<1>2. /\ FdTxOK(fdTx, fdFiles, fdSynced, fdAt, fdOpened, fdLdb[Cursor]) /\ IsTx(fdTx) /\ fdState = "open"
      /\ fdTx.blocks = <<>> /\ fdLdb = Committed
  BY <1>1, FdRunning DEF Committing, TxSound
<1>3. /\ fdTx'.pc = "rows" /\ fdTx'.put = fdTx.put /\ fdTx'.del = fdTx.del
      /\ fdTx'.blocks = fdTx.blocks /\ fdTx'.prune = fdTx.prune
  BY <1>1, <1>2, FdFields
<1>4. Committed' = Committed
  BY <1>1, <1>2, OverlayEmpty DEF Committed, FfldbIInv
<1>5. FdTxOK(fdTx', fdFiles, fdSynced, fdAt, fdOpened, fdLdb[Cursor])
  BY <1>1, <1>2, <1>3 DEF FdTxOK, Committing
<1>6. DOMAIN Empty = {} /\ Empty \in [{} -> Locations]
  BY DEF Empty
<1> QED
  BY <1>1, <1>2, <1>4, <1>5, <1>6 DEF FdIInv

\* After a flush the rows of the transaction are written to leveldb.
LEMMA FdCommitRows == ASSUME FfldbIInv, FdIInv, CommitRows PROVE FdIInv'
<1>1. /\ fdTx.pc = "rows" /\ fdTx' = NoTx /\ (fdLdb' = Overlay(fdLdb, fdTx.put, fdTx.del) \/ fdLdb' = fdLdb)
      /\ UNCHANGED <<fdState, fdFiles, fdSynced, fdAt, fdOpened, fdPut, fdDel, fdPruned>>
  BY DEF CommitRows, CommitTreaps, End, fdMem, fdHistory
<1>2. CASE fdLdb' = fdLdb
  BY <1>1, <1>2, FdTxStep
<1>3. CASE fdLdb' = Overlay(fdLdb, fdTx.put, fdTx.del)
  <2>1. /\ FdTxOK(fdTx, fdFiles, fdSynced, fdAt, fdOpened, fdLdb[Cursor]) /\ fdState = "open"
        /\ FdEndOK(fdFiles, fdSynced, fdAt, fdOpened, fdLdb[Cursor]) /\ fdPut = Empty /\ fdDel = {}
    BY <1>1, FdRunning DEF Committing, TxSound
  <2>2. Committed = fdLdb
    BY <2>1, OverlayEmpty DEF Committed, FfldbIInv
  <2>3. FdRowsOK(fdLdb', fdFiles, fdPruned) /\ fdLdb'[Cursor] = fdAt
    BY <1>1, <1>3, <2>2, FdCommitted DEF Committing
  <2>4. Committed' = fdLdb'
    <3>1. fdLdb' = [k \in Rows |-> fdLdb'[k]]
      BY <1>3 DEF Overlay
    <3> QED
      BY <1>1, <2>1, <3>1, OverlayEmpty DEF Committed
  <2>5. FdEndOK(fdFiles, fdSynced, fdAt, fdOpened, fdAt) /\ FdNotAfter(fdAt, fdAt)
    <3>1. fdAt[1] \in Int /\ fdAt[2] \in Int
      BY <2>1, FdLocation DEF FdEndOK
    <3>2. fdOpened => fdSynced[fdAt[1]] = fdAt[2]
      BY <1>1, <2>1 DEF FdTxOK
    <3> QED
      BY <2>1, <3>1, <3>2 DEF FdEndOK, FdNotAfter
  <2> QED
    BY <1>1, <2>1, <2>3, <2>4, <2>5 DEF FdIInv
<1> QED
  BY <1>1, <1>2, <1>3

\* The database is closed.
LEMMA FdClose == ASSUME FfldbIInv, FdIInv, CloseDb PROVE FdIInv'
<1>1. /\ fdState = "open" /\ fdState' = "closed" /\ fdTx = NoTx /\ fdTx' = NoTx
      /\ \/ /\ fdSynced' = IF fdOpened THEN [fdSynced EXCEPT ![fdAt[1]] = Len(fdFiles[fdAt[1]])] ELSE fdSynced
            /\ fdLdb' = Committed
         \/ fdSynced' = fdSynced /\ fdLdb' = fdLdb
      /\ UNCHANGED <<fdFiles, fdAt, fdOpened, fdPut, fdDel, fdPruned>>
  BY DEF CloseDb, SyncBlocks, CommitTreaps, Committed, fdMem, fdHistory
<1>2. CASE fdSynced' = fdSynced /\ fdLdb' = fdLdb
  BY <1>1, <1>2 DEF FdIInv
<1>3. CASE /\ fdSynced' = IF fdOpened THEN [fdSynced EXCEPT ![fdAt[1]] = Len(fdFiles[fdAt[1]])] ELSE fdSynced
           /\ fdLdb' = Committed
  <2>1. /\ FdFilesOK(fdFiles, fdSynced) /\ fdOpened \in BOOLEAN /\ FdRowsOK(Committed, fdFiles, fdPruned)
        /\ FdEndOK(fdFiles, fdSynced, fdAt, fdOpened, fdLdb[Cursor])
    BY <1>1 DEF FdIInv
  <2>2. FdReached(fdFiles, Committed[Cursor])
    BY <2>1 DEF FdRowsOK
  <2>3. FdFilesOK(fdFiles, fdSynced') /\ FdEndOK(fdFiles, fdSynced', fdAt, fdOpened, Committed[Cursor])
    BY <1>3, <2>1, <2>2, FdSyncs
  <2> QED
    BY <1>1, <1>3, <2>1, <2>3 DEF FdIInv
<1> QED
  BY <1>1, <1>2, <1>3

\* The first of the files to be pruned is deleted.
LEMMA FdDeleteFile == ASSUME FfldbIInv, FdIInv, DeleteFile PROVE FdIInv'
<1> DEFINE f == Min(fdTx.prune)
<1>1. /\ fdTx.pc = "delete" /\ UNCHANGED <<fdState, fdLdb, fdAt, fdOpened, fdPut, fdDel>>
      /\ \/ /\ f \in DOMAIN fdFiles
            /\ fdFiles' = Restrict(fdFiles, DOMAIN fdFiles \ {f})
            /\ fdSynced' = Restrict(fdSynced, DOMAIN fdSynced \ {f})
            /\ fdPruned' = fdPruned \cup ({f} \X (0..(Len(fdFiles[f]) - 1)))
            /\ fdTx' = [fdTx EXCEPT !.pc = IF fdTx.prune = {f} THEN "write" ELSE fdTx.pc, !.prune = fdTx.prune \ {f}]
         \/ fdTx' = NoTx /\ UNCHANGED <<fdFiles, fdSynced, fdPruned>>
  BY DEF DeleteFile, End, fdMem
<1>2. CASE fdTx' = NoTx /\ UNCHANGED <<fdFiles, fdSynced, fdPruned>>
  BY <1>1, <1>2, FdTxStep
<1>3. CASE /\ f \in DOMAIN fdFiles
           /\ fdFiles' = Restrict(fdFiles, DOMAIN fdFiles \ {f})
           /\ fdSynced' = Restrict(fdSynced, DOMAIN fdSynced \ {f})
           /\ fdPruned' = fdPruned \cup ({f} \X (0..(Len(fdFiles[f]) - 1)))
           /\ fdTx' = [fdTx EXCEPT !.pc = IF fdTx.prune = {f} THEN "write" ELSE fdTx.pc, !.prune = fdTx.prune \ {f}]
  <2>1. /\ FdTxOK(fdTx, fdFiles, fdSynced, fdAt, fdOpened, fdLdb[Cursor]) /\ IsTx(fdTx) /\ fdState = "open"
        /\ FdEndOK(fdFiles, fdSynced, fdAt, fdOpened, fdLdb[Cursor])
        /\ FdRowsOK(Committed, fdFiles, fdPruned) /\ FdNotAfter(fdLdb[Cursor], Committed[Cursor])
    BY <1>1, FdRunning DEF Running
  <2>2. FdFilesOK(fdFiles, fdSynced) /\ FdRowsOK(fdLdb, fdFiles, fdPruned)
    BY DEF FdIInv
  <2>3. f \in fdTx.prune /\ f \in Nat /\ \A x \in fdTx.prune : f <= x
    <3>1. fdTx.prune \in SUBSET Nat /\ fdTx.prune # {}
      BY <1>1, <2>1 DEF FdTxOK
    <3> QED
      BY <3>1, FdMin
  <2> HIDE DEF f
  <2> DEFINE L == fdLdb[Cursor]
             D == DOMAIN fdFiles \ {f}
  <2>4. /\ DOMAIN fdFiles' = D /\ DOMAIN fdSynced' = D
        /\ \A g \in D : fdFiles'[g] = fdFiles[g] /\ fdSynced'[g] = fdSynced[g]
    BY <1>3, <2>2 DEF Restrict, FdFilesOK
  <2>5. DOMAIN fdFiles \subseteq Nat /\ \A g \in D : f < g
    <3>1. DOMAIN fdFiles \subseteq 0..FdMaxFile /\ FdMaxFile \in Nat
      BY <2>2, FdLocation DEF FdFilesOK, FdSolid
    <3>2. \A g \in DOMAIN fdFiles : g \in Nat
      BY <3>1
    <3>3. \A g \in DOMAIN fdFiles : g <= f => g \in fdTx.prune
      BY <2>1, <2>3 DEF FdTxOK
    <3> QED
      BY <2>3, <3>2, <3>3
  <2>6. f < L[1]
    BY <2>1, <2>3 DEF FdTxOK
  <2>7. FdFilesOK(fdFiles', fdSynced')
    <3>1. fdFiles \in [DOMAIN fdFiles -> Seq(FdStored)] /\ fdSynced \in [DOMAIN fdFiles -> Nat]
      BY <2>2 DEF FdFilesOK, FdSolid
    <3>2. fdFiles' \in [D -> Seq(FdStored)] /\ fdSynced' \in [D -> Nat]
      BY <1>3, <3>1 DEF Restrict
    <3>3. \A g, h \in D : \A x \in Nat : g <= x /\ x <= h => x \in D
      BY <2>2, <2>3, <2>5 DEF FdFilesOK, FdSolid
    <3>4. D \subseteq 0..FdMaxFile /\ \A g \in D : fdSynced'[g] <= Len(fdFiles'[g])
      BY <2>2, <2>4 DEF FdFilesOK, FdSolid
    <3> HIDE DEF D
    <3> QED
      BY <2>4, <3>2, <3>3, <3>4 DEF FdFilesOK, FdSolid
  <2>8. ASSUME NEW R, FdRowsOK(R, fdFiles, fdPruned), FdNotAfter(L, R[Cursor])
        PROVE  FdRowsOK(R, fdFiles', fdPruned')
    <3>1. R[Cursor] \in Locations /\ L \in Locations
      BY <2>2, <2>8 DEF FdRowsOK
    <3>2. R[Cursor][1] \in Int /\ L[1] \in Int
      BY <3>1, FdLocation
    <3>3. f < R[Cursor][1]
      BY <2>3, <2>6, <2>8, <3>2 DEF FdNotAfter
    <3>4. R[Cursor][1] \in D /\ R[Cursor][2] <= Len(fdFiles[R[Cursor][1]])
      <4>1. R[Cursor][1] \in DOMAIN fdFiles /\ R[Cursor][2] <= Len(fdFiles[R[Cursor][1]])
        BY <1>3, <2>8 DEF FdRowsOK, FdReached
      <4> QED
        BY <2>3, <3>2, <3>3, <4>1
    <3>5. FdReached(fdFiles', R[Cursor])
      BY <2>4, <3>4 DEF FdReached
    <3>6. ASSUME NEW l \in Locations, l[1] \in DOMAIN fdFiles, l[2] < Len(fdFiles[l[1]])
          PROVE  \/ l \in fdPruned'
                 \/ /\ l[1] \in DOMAIN fdFiles' /\ l[2] < Len(fdFiles'[l[1]])
                    /\ fdFiles'[l[1]][l[2] + 1] = fdFiles[l[1]][l[2] + 1]
      <4>1. CASE l[1] = f
        <5>1. l = <<f, l[2]>> /\ l[2] \in Nat /\ Len(fdFiles[f]) \in Nat
          BY <2>2, <3>6, <4>1, FdLocation DEF FdFilesOK, FdSolid
        <5>2. l[2] \in 0..(Len(fdFiles[f]) - 1)
          BY <3>6, <4>1, <5>1
        <5>3. l \in {f} \X (0..(Len(fdFiles[f]) - 1))
          BY <5>1, <5>2
        <5> QED
          BY <1>3, <5>3
      <4>2. CASE l[1] # f
        BY <2>4, <3>6, <4>2
      <4> QED
        BY <4>1, <4>2
    <3>7. fdPruned \subseteq fdPruned'
      BY <1>3
    <3> QED
      BY <2>8, <3>5, <3>6, <3>7, FdRowsKept
  <2>9. FdRowsOK(fdLdb, fdFiles', fdPruned') /\ FdRowsOK(Committed, fdFiles', fdPruned')
    <3>1. FdNotAfter(L, L)
      <4>1. L[1] \in Int /\ L[2] \in Int
        BY <2>2, FdLocation DEF FdRowsOK
      <4> QED
        BY <4>1 DEF FdNotAfter
    <3> QED
      BY <2>1, <2>2, <2>8, <3>1
  <2>10. FdEndOK(fdFiles', fdSynced', fdAt, fdOpened, L)
    <3>1. /\ fdAt[1] \in DOMAIN fdFiles /\ fdAt[2] = Len(fdFiles[fdAt[1]]) /\ (\A g \in DOMAIN fdFiles : g <= fdAt[1])
          /\ fdAt \in Locations /\ (fdOpened \/ fdSynced[fdAt[1]] = fdAt[2] \/ fdAt[2] = FdFileBlocks)
          /\ (fdOpened /\ L[1] = fdAt[1] => L[2] <= fdSynced[fdAt[1]])
      BY <1>3, <2>1 DEF FdEndOK
    <3>2. L[1] \in DOMAIN fdFiles
      BY <1>3, <2>2 DEF FdRowsOK, FdReached
    <3>3. fdAt[1] \in D
      <4>1. L[1] \in Nat /\ fdAt[1] \in Nat /\ L[1] <= fdAt[1]
        BY <2>5, <3>1, <3>2
      <4> QED
        BY <2>3, <2>6, <3>1, <4>1
    <3> QED
      BY <2>4, <3>1, <3>3 DEF FdEndOK
  <2>11. /\ fdTx'.pc = (IF fdTx.prune = {f} THEN "write" ELSE "delete") /\ fdTx'.put = fdTx.put /\ fdTx'.del = fdTx.del
         /\ fdTx'.blocks = fdTx.blocks /\ fdTx'.prune = fdTx.prune \ {f} /\ fdTx'.old = fdTx.old
    BY <1>1, <1>3, <2>1, FdFields
  <2>12. FdTxOK(fdTx', fdFiles', fdSynced', fdAt, fdOpened, L)
    <3>1. DOMAIN fdTx.put \cap FdBlocks = {}
      BY <1>1, <2>1, FdNames DEF FdTxOK
    <3>2. fdTx.prune # {f} => fdTx.prune \ {f} # {}
      BY <2>3
    <3>3. fdTx.prune = {f} => fdTx.prune \ {f} = {}
      OBVIOUS
    <3>4. \A x \in fdTx.prune \ {f} : x < L[1] /\ \A g \in D : g <= x => g \in fdTx.prune \ {f}
      BY <2>1 DEF FdTxOK
    <3> QED
      BY <1>1, <2>1, <2>4, <2>11, <3>1, <3>2, <3>3, <3>4 DEF FdTxOK, Committing
  <2>13. Committed' = Committed
    BY <1>1 DEF Committed
  <2> QED
    BY <1>1, <2>1, <2>7, <2>9, <2>10, <2>12, <2>13 DEF FdIInv
<1> QED
  BY <1>1, <1>2, <1>3

\* Where the next block goes: behind the last file's end, or at the beginning of
\* a file that is not there yet.
LEMMA FdNextPlace ==
    ASSUME FdFilesOK(fdFiles, fdSynced), NEW L, FdEndOK(fdFiles, fdSynced, fdAt, fdOpened, L), WriteFile <= FdMaxFile
    PROVE  /\ WriteFile \in 0..FdMaxFile /\ WriteOffset \in 0..(FdFileBlocks - 1)
           /\ Opened(WriteFile) \in Seq(FdStored) /\ Len(Opened(WriteFile)) = WriteOffset
           /\ \A f \in DOMAIN fdFiles : f \in Nat /\ f <= WriteFile
           /\ (DOMAIN fdFiles = {} => WriteFile = 0 /\ WriteOffset = 0)
           /\ (Rolls => /\ WriteFile = fdAt[1] + 1 /\ WriteOffset = 0 /\ WriteFile \notin DOMAIN fdFiles
                        /\ fdAt[1] \in DOMAIN fdFiles /\ fdAt[2] = FdFileBlocks)
           /\ (~Rolls => WriteFile = fdAt[1] /\ WriteOffset = fdAt[2] /\ fdAt[2] # FdFileBlocks)
<1>1. /\ FdFileBlocks \in Nat \ {0} /\ FdMaxFile \in Nat
      /\ fdAt = <<fdAt[1], fdAt[2]>> /\ fdAt[1] \in 0..FdMaxFile /\ fdAt[2] \in 0..FdFileBlocks
  BY FdLocation DEF FdEndOK
<1>2. /\ fdFiles \in [DOMAIN fdFiles -> Seq(FdStored)] /\ \A f \in DOMAIN fdFiles : f \in 0..FdMaxFile
  BY DEF FdFilesOK, FdSolid
<1>3. <<>> \in Seq(FdStored) /\ Len(<<>>) = 0
  OBVIOUS
<1>4. CASE Rolls
  <2>1. fdAt[2] = FdFileBlocks /\ WriteFile = fdAt[1] + 1 /\ WriteOffset = 0
    BY <1>1, <1>4 DEF Rolls, WriteFile, WriteOffset
  <2>2. DOMAIN fdFiles # {}
    <3>1. DOMAIN fdFiles = {} => fdAt[2] = 0
      BY DEF FdEndOK
    <3> QED
      BY <1>1, <2>1, <3>1
  <2>3. fdAt[1] \in DOMAIN fdFiles /\ \A f \in DOMAIN fdFiles : f <= fdAt[1]
    BY <2>2 DEF FdEndOK
  <2>4. WriteFile \notin DOMAIN fdFiles /\ \A f \in DOMAIN fdFiles : f \in Nat /\ f <= WriteFile
    BY <1>1, <1>2, <2>1, <2>3
  <2>5. Opened(WriteFile) = <<>>
    BY <2>4 DEF Opened
  <2>6. WriteFile \in 0..FdMaxFile /\ WriteOffset \in 0..(FdFileBlocks - 1)
    BY <1>1, <2>1
  <2> QED
    BY <1>3, <1>4, <2>1, <2>2, <2>3, <2>4, <2>5, <2>6
<1>5. CASE ~Rolls
  <2>1. WriteFile = fdAt[1] /\ WriteOffset = fdAt[2] /\ fdAt[2] + 1 <= FdFileBlocks
    BY <1>1, <1>5 DEF Rolls, WriteFile, WriteOffset
  <2>2. WriteFile \in 0..FdMaxFile /\ WriteOffset \in 0..(FdFileBlocks - 1) /\ fdAt[2] # FdFileBlocks
    BY <1>1, <2>1
  <2>3. CASE DOMAIN fdFiles = {}
    <3>1. fdAt[1] = 0 /\ fdAt[2] = 0
      BY <2>3 DEF FdEndOK
    <3>2. Opened(WriteFile) = <<>>
      BY <2>3 DEF Opened
    <3> QED
      BY <1>3, <1>5, <2>1, <2>2, <2>3, <3>1, <3>2
  <2>4. CASE DOMAIN fdFiles # {}
    <3>1. fdAt[1] \in DOMAIN fdFiles /\ fdAt[2] = Len(fdFiles[fdAt[1]]) /\ \A f \in DOMAIN fdFiles : f <= fdAt[1]
      BY <2>4 DEF FdEndOK
    <3>2. Opened(WriteFile) = fdFiles[fdAt[1]] /\ fdFiles[fdAt[1]] \in Seq(FdStored)
      BY <1>2, <2>1, <3>1 DEF Opened
    <3>3. \A f \in DOMAIN fdFiles : f \in Nat
      BY <1>1, <1>2
    <3> QED
      BY <1>5, <2>1, <2>2, <2>4, <3>1, <3>2, <3>3
  <2> QED
    BY <2>3, <2>4
<1> QED
  BY <1>4, <1>5

\* The files with a block more: what was there stays.
LEMMA FdWritten ==
    ASSUME FdFilesOK(fdFiles, fdSynced), NEW L, FdEndOK(fdFiles, fdSynced, fdAt, fdOpened, L), WriteFile <= FdMaxFile,
           NEW x \in FdStored, NEW gs, gs = Also(fdFiles, WriteFile, WriteAt(Opened(WriteFile), WriteOffset, x))
    PROVE  /\ FdSolid(gs) /\ DOMAIN gs = DOMAIN fdFiles \cup {WriteFile}
           /\ Len(gs[WriteFile]) = WriteOffset + 1 /\ gs[WriteFile][WriteOffset + 1] = x
           /\ \A f \in DOMAIN fdFiles : f # WriteFile => gs[f] = fdFiles[f]
           /\ \A f \in DOMAIN fdFiles : /\ Len(fdFiles[f]) <= Len(gs[f])
                                        /\ \A i \in 1..Len(fdFiles[f]) : gs[f][i] = fdFiles[f][i]
           /\ \A R, pr : FdRowsOK(R, fdFiles, pr) => FdRowsOK(R, gs, pr)
<1> DEFINE s == Opened(WriteFile)
           w == WriteAt(s, WriteOffset, x)
<1>1. /\ WriteFile \in 0..FdMaxFile /\ WriteOffset \in 0..(FdFileBlocks - 1)
      /\ s \in Seq(FdStored) /\ Len(s) = WriteOffset
      /\ \A f \in DOMAIN fdFiles : f \in Nat /\ f <= WriteFile
      /\ (DOMAIN fdFiles = {} => WriteFile = 0 /\ WriteOffset = 0)
  BY FdNextPlace
<1>2. /\ w \in Seq(FdStored) /\ Len(w) = WriteOffset + 1 /\ w[WriteOffset + 1] = x
      /\ \A i \in 1..Len(s) : w[i] = s[i]
  <2> HIDE DEF s
  <2>1. w = WriteAt(s, Len(s), x)
    BY <1>1
  <2> QED
    BY <1>1, <2>1, FdWriteEnd
<1>3. WriteFile \in DOMAIN fdFiles => s = fdFiles[WriteFile]
  BY DEF Opened
<1> HIDE DEF s
<1>4. fdFiles \in [DOMAIN fdFiles -> Seq(FdStored)] /\ DOMAIN fdFiles \subseteq 0..FdMaxFile
  BY DEF FdFilesOK, FdSolid
<1>5. gs = Also(fdFiles, WriteFile, w)
  BY DEF s
<1> HIDE DEF w
<1>6. /\ DOMAIN gs = DOMAIN fdFiles \cup {WriteFile} /\ gs[WriteFile] = w
      /\ \A f \in DOMAIN fdFiles : f # WriteFile => gs[f] = fdFiles[f]
  BY <1>5 DEF Also
<1>7. gs \in [DOMAIN gs -> Seq(FdStored)] /\ DOMAIN gs \subseteq 0..FdMaxFile
  BY <1>1, <1>2, <1>4, <1>5 DEF Also
<1>8. \A f, h \in DOMAIN gs : \A g \in Nat : f <= g /\ g <= h => g \in DOMAIN gs
  <2> SUFFICES ASSUME NEW f \in DOMAIN gs, NEW h \in DOMAIN gs, NEW g \in Nat, f <= g, g <= h PROVE g \in DOMAIN gs
    OBVIOUS
  <2>1. \A k \in DOMAIN gs : k \in Nat /\ k <= WriteFile
    BY <1>1, <1>6
  <2>2. CASE h \in DOMAIN fdFiles /\ f \in DOMAIN fdFiles
    BY <1>6, <2>2 DEF FdFilesOK, FdSolid
  <2>3. CASE f = WriteFile \/ g = WriteFile
    BY <1>6, <2>1, <2>3
  <2>4. CASE h = WriteFile /\ f # WriteFile /\ g # WriteFile
    <3>1. f \in DOMAIN fdFiles /\ DOMAIN fdFiles # {}
      BY <1>6, <2>4
    <3>2. fdAt[1] \in DOMAIN fdFiles /\ fdAt[1] \in Nat
      BY <1>1, <3>1 DEF FdEndOK
    <3>3. g <= fdAt[1]
      <4>1. WriteFile <= fdAt[1] + 1 /\ WriteFile \in Nat
        BY <1>1, <2>1, <1>6, <3>2 DEF WriteFile
      <4> QED
        BY <2>4, <3>2, <4>1
    <3>4. g \in DOMAIN fdFiles
      BY <3>1, <3>2, <3>3 DEF FdFilesOK, FdSolid
    <3> QED
      BY <1>6, <3>4
  <2> QED
    BY <1>6, <2>2, <2>3, <2>4
<1>9. \A f \in DOMAIN fdFiles : /\ Len(fdFiles[f]) <= Len(gs[f])
                                /\ \A i \in 1..Len(fdFiles[f]) : gs[f][i] = fdFiles[f][i]
  <2> SUFFICES ASSUME NEW f \in DOMAIN fdFiles
               PROVE  Len(fdFiles[f]) <= Len(gs[f]) /\ \A i \in 1..Len(fdFiles[f]) : gs[f][i] = fdFiles[f][i]
    OBVIOUS
  <2>1. Len(fdFiles[f]) \in Nat
    BY <1>4
  <2>2. CASE f = WriteFile
    <3>1. s = fdFiles[f] /\ gs[f] = w
      BY <1>3, <1>6, <2>2
    <3> QED
      BY <1>1, <1>2, <2>1, <3>1
  <2>3. CASE f # WriteFile
    BY <1>6, <2>1, <2>3
  <2> QED
    BY <2>2, <2>3
<1>10. ASSUME NEW R, NEW pr, FdRowsOK(R, fdFiles, pr) PROVE FdRowsOK(R, gs, pr)
  <2>1. R[Cursor] \in Locations /\ FdReached(fdFiles, R[Cursor])
    BY <1>10 DEF FdRowsOK
  <2>2. FdReached(gs, R[Cursor])
    <3>1. CASE DOMAIN fdFiles = {}
      <4>1. R[Cursor][1] = 0 /\ R[Cursor][2] = 0
        BY <2>1, <3>1 DEF FdReached
      <4>2. WriteFile = 0 /\ Len(gs[0]) = 1
        BY <1>1, <1>2, <1>6, <3>1
      <4> QED
        BY <1>6, <4>1, <4>2 DEF FdReached
    <3>2. CASE DOMAIN fdFiles # {}
      <4>1. R[Cursor][1] \in DOMAIN fdFiles /\ R[Cursor][2] <= Len(fdFiles[R[Cursor][1]]) /\ R[Cursor][2] \in Nat
        BY <2>1, <3>2, FdLocation DEF FdReached
      <4>2. Len(fdFiles[R[Cursor][1]]) \in Nat /\ Len(gs[R[Cursor][1]]) \in Nat
        BY <1>4, <1>6, <1>7, <4>1
      <4>3. R[Cursor][2] <= Len(gs[R[Cursor][1]])
        BY <1>9, <4>1, <4>2
      <4> QED
        BY <1>6, <4>1, <4>3 DEF FdReached
    <3> QED
      BY <3>1, <3>2
  <2>3. ASSUME NEW l \in Locations, l[1] \in DOMAIN fdFiles, l[2] < Len(fdFiles[l[1]])
        PROVE  l[1] \in DOMAIN gs /\ l[2] < Len(gs[l[1]]) /\ gs[l[1]][l[2] + 1] = fdFiles[l[1]][l[2] + 1]
    <3>1. l[2] \in Nat /\ Len(fdFiles[l[1]]) \in Nat /\ l[1] \in DOMAIN gs
      BY <1>4, <1>6, <2>3, FdLocation
    <3>2. Len(gs[l[1]]) \in Nat
      BY <1>7, <3>1
    <3>3. l[2] + 1 \in 1..Len(fdFiles[l[1]])
      BY <2>3, <3>1
    <3> QED
      BY <1>9, <2>3, <3>1, <3>2, <3>3
  <2> QED
    BY <1>10, <2>2, <2>3, FdRowsKept
<1> QED
  BY <1>2, <1>6, <1>7, <1>8, <1>9, <1>10 DEF FdSolid

\* The less of two numbers.
LEMMA FdLess == ASSUME NEW a \in Nat, NEW b \in Nat
                PROVE  LET m == Min({a, b}) IN m \in Nat /\ m <= a /\ m <= b /\ (m = a \/ m = b)
<1>1. {a, b} \in SUBSET Nat /\ {a, b} # {}
  OBVIOUS
<1>2. Min({a, b}) \in {a, b} /\ \A x \in {a, b} : Min({a, b}) <= x
  BY <1>1, FdMin
<1> QED
  BY <1>2

\* The block of the transaction is written.
LEMMA FdWriteBlock == ASSUME FfldbIInv, FdIInv, WriteBlock PROVE FdIInv'
<1> DEFINE b == Head(fdTx.blocks)
           L == fdLdb[Cursor]
           at == <<WriteFile, WriteOffset + 1>>
<1>1. /\ fdTx.pc = "write" /\ fdTx.blocks # <<>> /\ WriteFile <= FdMaxFile
      /\ fdFiles' = Also(fdFiles, WriteFile, WriteAt(Opened(WriteFile), WriteOffset, b))
      /\ fdSynced' = Also(fdSynced, WriteFile, Min({OpenedSync(WriteFile), WriteOffset}))
      /\ fdAt' = at /\ fdOpened' = TRUE
      /\ fdTx' = [PutKey(b, <<WriteFile, WriteOffset>>) EXCEPT !.blocks = Tail(PutKey(b, <<WriteFile, WriteOffset>>).blocks)]
      /\ UNCHANGED <<fdState, fdLdb, fdPut, fdDel, fdPruned>>
  BY DEF WriteBlock, Quiet, fdHistory
<1>2. /\ FdTxOK(fdTx, fdFiles, fdSynced, fdAt, fdOpened, L) /\ IsTx(fdTx) /\ fdState = "open"
      /\ FdEndOK(fdFiles, fdSynced, fdAt, fdOpened, L) /\ FdRowsOK(Committed, fdFiles, fdPruned)
  BY <1>1, FdRunning DEF Running
<1>3. FdFilesOK(fdFiles, fdSynced) /\ FdRowsOK(fdLdb, fdFiles, fdPruned) /\ fdOpened \in BOOLEAN
  BY DEF FdIInv
<1>4. b \in FdBlocks /\ Tail(fdTx.blocks) = <<>>
  <2>1. fdTx.blocks \in Seq(FdBlocks) /\ Len(fdTx.blocks) <= 1
    BY <1>2 DEF FdTxOK
  <2> DEFINE q == fdTx.blocks
  <2>2. q \in Seq(FdBlocks) /\ Len(q) <= 1 /\ q # <<>>
    BY <1>1, <2>1
  <2> HIDE DEF q
  <2>3. Head(q) \in FdBlocks /\ Tail(q) = <<>>
    BY <2>2
  <2> QED
    BY <2>3 DEF q
<1> HIDE DEF b
<1>5. /\ WriteFile \in 0..FdMaxFile /\ WriteOffset \in 0..(FdFileBlocks - 1)
      /\ \A f \in DOMAIN fdFiles : f \in Nat /\ f <= WriteFile
      /\ (DOMAIN fdFiles = {} => WriteFile = 0 /\ WriteOffset = 0)
      /\ (Rolls => WriteFile \notin DOMAIN fdFiles)
      /\ (~Rolls => WriteFile = fdAt[1] /\ WriteOffset = fdAt[2] /\ fdAt[2] # FdFileBlocks)
  BY <1>1, <1>2, <1>3, FdNextPlace
<1>6. WriteFile \in Nat /\ WriteOffset \in Nat /\ <<WriteFile, WriteOffset>> \in Locations /\ at \in Locations
  <2>1. FdFileBlocks \in Nat /\ FdMaxFile \in Nat
    BY FdLocation
  <2>2. WriteFile \in Nat /\ WriteOffset \in Nat /\ WriteOffset \in 0..FdFileBlocks /\ WriteOffset + 1 \in 0..FdFileBlocks
    BY <1>5, <2>1
  <2> QED
    BY <1>5, <2>2, FdLocation
<1>7. /\ FdSolid(fdFiles') /\ DOMAIN fdFiles' = DOMAIN fdFiles \cup {WriteFile}
      /\ Len(fdFiles'[WriteFile]) = WriteOffset + 1 /\ fdFiles'[WriteFile][WriteOffset + 1] = b
      /\ \A f \in DOMAIN fdFiles : f # WriteFile => fdFiles'[f] = fdFiles[f]
      /\ \A R, pr : FdRowsOK(R, fdFiles, pr) => FdRowsOK(R, fdFiles', pr)
  <2> DEFINE gs == fdFiles'
  <2>1. b \in FdStored
    BY <1>4 DEF FdStored
  <2>2. gs = Also(fdFiles, WriteFile, WriteAt(Opened(WriteFile), WriteOffset, b))
    BY <1>1
  <2>3. FdEndOK(fdFiles, fdSynced, fdAt, fdOpened, L) /\ FdFilesOK(fdFiles, fdSynced) /\ WriteFile <= FdMaxFile
    BY <1>1, <1>2, <1>3
  <2> HIDE DEF gs, L
  <2>4. /\ FdSolid(gs) /\ DOMAIN gs = DOMAIN fdFiles \cup {WriteFile}
        /\ Len(gs[WriteFile]) = WriteOffset + 1 /\ gs[WriteFile][WriteOffset + 1] = b
        /\ \A f \in DOMAIN fdFiles : f # WriteFile => gs[f] = fdFiles[f]
        /\ \A R, pr : FdRowsOK(R, fdFiles, pr) => FdRowsOK(R, gs, pr)
    <3>1. FdSolid(gs)
      BY ONLY <2>1, <2>2, <2>3, FdWritten
    <3>2. DOMAIN gs = DOMAIN fdFiles \cup {WriteFile}
      BY ONLY <2>1, <2>2, <2>3, FdWritten
    <3>3. Len(gs[WriteFile]) = WriteOffset + 1 /\ gs[WriteFile][WriteOffset + 1] = b
      BY ONLY <2>1, <2>2, <2>3, FdWritten
    <3>4. \A f \in DOMAIN fdFiles : f # WriteFile => gs[f] = fdFiles[f]
      BY ONLY <2>1, <2>2, <2>3, FdWritten
    <3>5. \A R, pr : FdRowsOK(R, fdFiles, pr) => FdRowsOK(R, gs, pr)
      BY ONLY <2>1, <2>2, <2>3, FdWritten
    <3> QED
      BY <3>1, <3>2, <3>3, <3>4, <3>5
  <2> QED
    BY <2>4 DEF gs
<1> DEFINE m == Min({OpenedSync(WriteFile), WriteOffset})
<1>8. m \in Nat /\ m <= WriteOffset /\ (m = OpenedSync(WriteFile) \/ m = WriteOffset)
  <2>1. OpenedSync(WriteFile) \in Nat
    BY <1>3 DEF OpenedSync, FdFilesOK
  <2> QED
    BY <1>6, <2>1, FdLess
<1> HIDE DEF m
<1>9. /\ fdSynced' \in [DOMAIN fdFiles' -> Nat] /\ fdSynced'[WriteFile] = m
      /\ \A f \in DOMAIN fdFiles : f # WriteFile => fdSynced'[f] = fdSynced[f]
  <2>1. fdSynced \in [DOMAIN fdFiles -> Nat] /\ fdSynced' = Also(fdSynced, WriteFile, m)
    BY <1>1, <1>3 DEF FdFilesOK, m
  <2> QED
    BY <1>7, <1>8, <2>1 DEF Also
<1>10. FdFilesOK(fdFiles', fdSynced')
  <2>1. ASSUME NEW f \in DOMAIN fdFiles' PROVE fdSynced'[f] <= Len(fdFiles'[f])
    <3>1. CASE f = WriteFile
      BY <1>6, <1>7, <1>8, <1>9, <3>1
    <3>2. CASE f # WriteFile
      BY <1>3, <1>7, <1>9, <3>2 DEF FdFilesOK
    <3> QED
      BY <3>1, <3>2
  <2> QED
    BY <1>7, <1>9, <2>1 DEF FdFilesOK
<1>11. FdEndOK(fdFiles', fdSynced', fdAt', fdOpened', L)
  <2>1. at[1] = WriteFile /\ at[2] = WriteOffset + 1
    OBVIOUS
  <2>2. \A f \in DOMAIN fdFiles' : f <= WriteFile
    BY <1>5, <1>6, <1>7
  <2>3. ASSUME L[1] = WriteFile PROVE L[2] <= fdSynced'[WriteFile]
    <3>1. FdReached(fdFiles, L) /\ L \in Locations
      BY <1>3 DEF FdRowsOK
    <3>2. L[2] \in Nat
      BY <3>1, FdLocation
    <3>3. CASE DOMAIN fdFiles = {}
      <4>1. L[2] = 0
        BY <3>1, <3>3 DEF FdReached
      <4> QED
        BY <1>8, <1>9, <4>1
    <3>4. CASE DOMAIN fdFiles # {}
      <4>1. WriteFile \in DOMAIN fdFiles /\ L[2] <= Len(fdFiles[WriteFile])
        BY <2>3, <3>1, <3>4 DEF FdReached
      <4>2. ~Rolls /\ WriteFile = fdAt[1] /\ WriteOffset = fdAt[2] /\ fdAt[2] # FdFileBlocks
        BY <1>5, <4>1
      <4>3. /\ fdAt[2] = Len(fdFiles[fdAt[1]]) /\ (fdOpened \/ fdSynced[fdAt[1]] = fdAt[2])
            /\ (fdOpened => L[2] <= fdSynced[fdAt[1]])
        BY <1>2, <2>3, <3>4, <4>2 DEF FdEndOK
      <4>4. L[2] <= fdSynced[WriteFile] /\ L[2] <= WriteOffset
        BY <4>1, <4>2, <4>3
      <4>5. OpenedSync(WriteFile) = fdSynced[WriteFile]
        BY <4>1 DEF OpenedSync
      <4> QED
        BY <1>8, <1>9, <4>4, <4>5
    <3> QED
      BY <3>3, <3>4
  <2>4. DOMAIN fdFiles' # {}
    BY <1>7
  <2> QED
    BY <1>1, <1>6, <1>7, <2>1, <2>2, <2>3, <2>4 DEF FdEndOK
<1>12. /\ fdTx'.pc = "write" /\ fdTx'.put = Also(fdTx.put, b, <<WriteFile, WriteOffset>>) /\ fdTx'.del = fdTx.del \ {b}
       /\ fdTx'.blocks = <<>> /\ fdTx'.prune = fdTx.prune
  <2> DEFINE u == PutKey(b, <<WriteFile, WriteOffset>>)
  <2>1. /\ IsTx(u) /\ u.put = Also(fdTx.put, b, <<WriteFile, WriteOffset>>) /\ u.del = fdTx.del \ {b}
        /\ u.blocks = fdTx.blocks /\ u.prune = fdTx.prune /\ u.pc = fdTx.pc
    BY <1>2, FdPut
  <2>2. fdTx' = [u EXCEPT !.blocks = <<>>]
    BY <1>1, <1>4, <2>1
  <2> HIDE DEF u
  <2>3. fdTx'.pc = u.pc /\ fdTx'.put = u.put /\ fdTx'.del = u.del /\ fdTx'.blocks = <<>> /\ fdTx'.prune = u.prune
    BY <2>1, <2>2, FdFields
  <2> QED
    BY <1>1, <2>1, <2>3
<1>13. FdTxOK(fdTx', fdFiles', fdSynced', fdAt', fdOpened', L)
  <2>1. /\ DOMAIN fdTx.put \subseteq FdKeys /\ fdTx.put \in [DOMAIN fdTx.put -> Locations] /\ DOMAIN fdTx.put \subseteq Rows
        /\ fdTx.del \subseteq FdBlocks \cup FdKeys /\ DOMAIN fdTx.put \cap fdTx.del = {} /\ fdTx.prune = {}
    BY <1>1, <1>2 DEF FdTxOK
  <2>2. /\ DOMAIN fdTx'.put = DOMAIN fdTx.put \cup {b} /\ fdTx'.put \in [DOMAIN fdTx'.put -> Locations]
        /\ fdTx'.put[b] = <<WriteFile, WriteOffset>>
    BY <1>6, <1>12, <2>1 DEF Also
  <2>3. DOMAIN fdTx'.put \subseteq Rows /\ DOMAIN fdTx'.put \cap fdTx'.del = {} /\ DOMAIN fdTx'.put \cap FdBlocks = {b}
    BY <1>4, <1>12, <2>1, <2>2, FdNames
  <2>4. FdBefore(<<WriteFile, WriteOffset>>, at) /\ FdReads(fdFiles', b, <<WriteFile, WriteOffset>>)
    BY <1>6, <1>7 DEF FdBefore, FdReads
  <2>5. <<>> \in Seq(FdBlocks) /\ Len(<<>>) = 0 /\ fdTx'.del \subseteq FdBlocks \cup FdKeys /\ fdTx'.prune = {}
    BY <1>12, <2>1
  <2>6. \A x \in DOMAIN fdTx'.put \cap FdBlocks : FdBefore(fdTx'.put[x], fdAt') /\ FdReads(fdFiles', x, fdTx'.put[x])
    BY <1>1, <2>2, <2>3, <2>4
  <2> QED
    BY <1>12, <2>2, <2>3, <2>5, <2>6 DEF FdTxOK, Committing
<1>14. Committed' = Committed
  BY <1>1 DEF Committed
<1>15. FdRowsOK(fdLdb, fdFiles', fdPruned) /\ FdRowsOK(Committed, fdFiles', fdPruned)
  BY <1>2, <1>3, <1>7
<1> QED
  BY <1>1, <1>2, <1>10, <1>11, <1>13, <1>14, <1>15 DEF FdIInv

\* handleRollback when every file behind is there: they go, and the old one is
\* cut off at the old cursor and synced.
LEMMA FdRolledBack ==
    ASSUME NEW fs, FdSolid(fs), NEW at, NEW opened, NEW old \in Locations, old[1] \in DOMAIN fs, old[2] <= Len(fs[old[1]]),
           at[1] \in DOMAIN fs, \A f \in DOMAIN fs : f <= at[1], at # old,
           fdSynced \in [DOMAIN fdSynced -> Nat], HandleRollback(fs, at, opened, old)
    PROVE  /\ FdFilesOK(fdFiles', fdSynced') /\ fdAt' = old /\ fdOpened' = TRUE
           /\ \A L : FdReached(fdFiles', L) => FdEndOK(fdFiles', fdSynced', fdAt', fdOpened', L)
           /\ \A R, pr : FdRowsOK(R, fs, pr) /\ FdNotAfter(R[Cursor], old) => FdRowsOK(R, fdFiles', pr)
<1> DEFINE o == old[1]
           s == Truncate(fs[o], old[2])
           D == DOMAIN fs \ Gone(at, old)
<1>1. /\ fs \in [DOMAIN fs -> Seq(FdStored)] /\ FdMaxFile \in Nat /\ DOMAIN fs \subseteq 0..FdMaxFile
      /\ o \in Nat /\ old[2] \in Nat /\ at[1] \in Nat /\ \A f \in DOMAIN fs : f \in Nat
  BY FdLocation DEF FdSolid
<1>2. \A f : f \in Gone(at, old) <=> f \in Nat /\ o < f /\ f <= at[1]
  BY <1>1 DEF Gone
<1>3. \A f \in Gone(at, old) : f \in DOMAIN fs
  BY <1>1, <1>2 DEF FdSolid
<1>4. ~RollbackStops(fs, at, old)
  BY <1>3 DEF RollbackStops
<1>5. D = {f \in DOMAIN fs : f <= o} /\ o \in D
  BY <1>1, <1>2
<1>6. fdFiles' = Also(Restrict(fs, D), o, s)
  <2>1. {f \in Gone(at, old) : f \notin DOMAIN fs} = {}
    BY <1>3
  <2>2. RollbackFiles(fs, at, old) = Also(Restrict(fs, D), o, s)
    BY <2>1 DEF RollbackFiles
  <2> QED
    BY <2>2 DEF HandleRollback
<1>7. s \in Seq(FdStored) /\ Len(s) = old[2] /\ \A i \in 1..old[2] : s[i] = fs[o][i]
  <2>1. fs[o] \in Seq(FdStored) /\ Len(fs[o]) \in Nat
    BY <1>1
  <2>2. /\ s \in Seq(FdStored) /\ Len(s) = old[2]
        /\ \A i \in 1..old[2] : i <= Len(fs[o]) => s[i] = fs[o][i]
    BY <1>1, <2>1, FdTruncated
  <2>3. \A i \in 1..old[2] : i <= Len(fs[o])
    BY <1>1, <2>1
  <2> QED
    BY <2>2, <2>3
<1> HIDE DEF s, D
<1>8. /\ DOMAIN fdFiles' = D /\ fdFiles'[o] = s /\ fdFiles' \in [D -> Seq(FdStored)]
      /\ \A f \in D : f # o => fdFiles'[f] = fs[f]
  BY <1>1, <1>5, <1>6, <1>7 DEF Also, Restrict
<1>9. FdSolid(fdFiles')
  <2>1. \A f, h \in D : \A g \in Nat : f <= g /\ g <= h => g \in D
    BY <1>1, <1>5 DEF FdSolid
  <2> QED
    BY <1>1, <1>5, <1>8, <2>1 DEF FdSolid
<1>10. /\ fdSynced' = [f \in D |-> IF f = o THEN Len(fdFiles'[f])
                                   ELSE IF f \in DOMAIN fdSynced THEN Min({fdSynced[f], Len(fdFiles'[f])}) ELSE 0]
       /\ fdAt' = old /\ fdOpened' = TRUE
  BY <1>4, <1>8 DEF HandleRollback
<1>11. ASSUME NEW f \in D
       PROVE  fdSynced'[f] \in Nat /\ fdSynced'[f] <= Len(fdFiles'[f])
  <2>1. Len(fdFiles'[f]) \in Nat
    BY <1>8
  <2>2. f \in DOMAIN fdSynced => fdSynced[f] \in Nat
    OBVIOUS
  <2>3. CASE f = o
    BY <1>10, <2>1, <2>3
  <2>4. CASE f # o /\ f \in DOMAIN fdSynced
    <3>1. fdSynced'[f] = Min({fdSynced[f], Len(fdFiles'[f])})
      BY <1>10, <2>4
    <3> QED
      BY <2>1, <2>2, <2>4, <3>1, FdLess
  <2>5. CASE f # o /\ f \notin DOMAIN fdSynced
    BY <1>10, <2>1, <2>5
  <2> QED
    BY <2>3, <2>4, <2>5
<1>12. FdFilesOK(fdFiles', fdSynced')
  <2>1. fdSynced' \in [D -> Nat]
    BY <1>10, <1>11
  <2> QED
    BY <1>8, <1>9, <1>11, <2>1 DEF FdFilesOK
<1>13. fdSynced'[o] = old[2]
  BY <1>5, <1>7, <1>8, <1>10
<1>14. ASSUME NEW L, FdReached(fdFiles', L) PROVE FdEndOK(fdFiles', fdSynced', fdAt', fdOpened', L)
  <2>1. D # {} /\ \A f \in D : f <= o
    BY <1>5
  <2>2. L[1] = o => L[2] <= old[2]
    BY <1>7, <1>8, <1>14, <2>1 DEF FdReached
  <2> QED
    BY <1>5, <1>7, <1>8, <1>10, <1>13, <2>1, <2>2 DEF FdEndOK
<1>15. ASSUME NEW R, NEW pr, FdRowsOK(R, fs, pr), FdNotAfter(R[Cursor], old) PROVE FdRowsOK(R, fdFiles', pr)
  <2> DEFINE c == R[Cursor]
  <2>1. c \in Locations /\ FdReached(fs, c)
    BY <1>15 DEF FdRowsOK
  <2>2. c[1] \in Nat /\ c[2] \in Nat /\ c[1] \in DOMAIN fs /\ c[2] <= Len(fs[c[1]])
    BY <1>5, <2>1, FdLocation DEF FdReached
  <2>3. FdNotAfter(c, old)
    BY <1>15
  <2> HIDE DEF c
  <2>4. FdReached(fdFiles', c)
    <3>1. c[1] \in D
      BY <1>1, <1>5, <2>2, <2>3 DEF FdNotAfter
    <3>2. CASE c[1] = o
      BY <1>1, <1>7, <1>8, <2>2, <2>3, <3>1, <3>2 DEF FdReached, FdNotAfter
    <3>3. CASE c[1] # o
      BY <1>8, <2>2, <3>1, <3>3 DEF FdReached
    <3> QED
      BY <3>2, <3>3
  <2>5. ASSUME NEW l \in Locations, FdBefore(l, c), l[1] \in DOMAIN fs, l[2] < Len(fs[l[1]])
        PROVE  /\ l[1] \in DOMAIN fdFiles' /\ l[2] < Len(fdFiles'[l[1]])
               /\ fdFiles'[l[1]][l[2] + 1] = fs[l[1]][l[2] + 1]
    <3>1. l[1] \in Nat /\ l[2] \in Nat
      BY FdLocation
    <3>2. l[1] \in D /\ (l[1] = o => l[2] < old[2])
      BY <1>1, <1>5, <2>2, <2>3, <2>5, <3>1 DEF FdNotAfter, FdBefore
    <3>3. CASE l[1] = o
      <4>1. l[2] + 1 \in 1..old[2]
        BY <1>1, <3>1, <3>2, <3>3
      <4> QED
        BY <1>7, <1>8, <3>2, <3>3, <4>1
    <3>4. CASE l[1] # o
      BY <1>8, <2>5, <3>2, <3>4
    <3> QED
      BY <3>3, <3>4
  <2> QED
    BY <1>15, <2>4, <2>5, FdRowsKept DEF c
<1> QED
  BY <1>10, <1>12, <1>14, <1>15

\* handleRollback to the place where the cursor is, or that stops at the first
\* file: no file changes.
LEMMA FdNotRolledBack ==
    ASSUME FdFilesOK(fdFiles, fdSynced), NEW at, NEW opened, NEW old, HandleRollback(fdFiles, at, opened, old),
           \/ at = old
           \/ at[1] \in Nat /\ old[1] \in Nat /\ at[1] = old[1] + 1 /\ at[1] \notin DOMAIN fdFiles
    PROVE  /\ fdFiles' = fdFiles /\ fdSynced' = fdSynced /\ fdAt' = old
           /\ fdOpened' = IF at = old THEN opened ELSE FALSE
<1>1. fdFiles \in [DOMAIN fdFiles -> Seq(FdStored)] /\ fdSynced \in [DOMAIN fdFiles -> Nat]
  BY DEF FdFilesOK, FdSolid
<1>2. RollbackFiles(fdFiles, at, old) = fdFiles /\ (at # old => RollbackStops(fdFiles, at, old))
  <2>1. CASE at = old
    BY <2>1 DEF RollbackFiles
  <2>2. CASE at # old
    <3>1. at[1] \in Nat /\ old[1] \in Nat /\ at[1] = old[1] + 1 /\ at[1] \notin DOMAIN fdFiles
      BY <2>2
    <3>2. Gone(at, old) = {at[1]}
      BY <3>1 DEF Gone
    <3> DEFINE missing == {f \in Gone(at, old) : f \notin DOMAIN fdFiles}
    <3>3. missing = {at[1]}
      BY <3>1, <3>2
    <3>4. Max({at[1]}) = at[1]
      BY <3>1 DEF Max
    <3>5. (Max(missing) + 1)..at[1] = {}
      BY <3>1, <3>3, <3>4
    <3>6. Restrict(fdFiles, DOMAIN fdFiles) = fdFiles
      BY <1>1 DEF Restrict
    <3>7. RollbackFiles(fdFiles, at, old) = Restrict(fdFiles, DOMAIN fdFiles \ ((Max(missing) + 1)..at[1]))
      BY <2>2, <3>3 DEF RollbackFiles
    <3> QED
      BY <3>1, <3>2, <3>5, <3>6, <3>7 DEF RollbackStops
  <2> QED
    BY <2>1, <2>2
<1>3. /\ fdFiles' = fdFiles /\ fdAt' = old /\ fdOpened' = IF at = old THEN opened ELSE FALSE
      /\ fdSynced' = [f \in DOMAIN fdFiles |-> Min({fdSynced[f], Len(fdFiles[f])})]
  BY <1>1, <1>2 DEF HandleRollback
<1>4. \A f \in DOMAIN fdFiles : Min({fdSynced[f], Len(fdFiles[f])}) = fdSynced[f]
  <2> SUFFICES ASSUME NEW f \in DOMAIN fdFiles PROVE Min({fdSynced[f], Len(fdFiles[f])}) = fdSynced[f]
    OBVIOUS
  <2>1. fdSynced[f] \in Nat /\ Len(fdFiles[f]) \in Nat /\ fdSynced[f] <= Len(fdFiles[f])
    BY <1>1 DEF FdFilesOK
  <2> QED
    BY <2>1, FdLess
<1> QED
  BY <1>1, <1>3, <1>4

\* A write that fails: the files are what they were before the transaction.
LEMMA FdWriteFails == ASSUME FfldbIInv, FdIInv, WriteBlockFails PROVE FdIInv'
<1> DEFINE L == fdLdb[Cursor]
           gs == Also(fdFiles, WriteFile, WriteAt(Opened(WriteFile), WriteOffset, "junk"))
<1>1. /\ fdTx.pc = "write" /\ fdTx.blocks # <<>> /\ WriteFile <= FdMaxFile
      /\ \/ (Rolls \/ ~fdOpened) /\ HandleRollback(fdFiles, <<WriteFile, WriteOffset>>, FALSE, fdTx.old)
         \/ HandleRollback(gs, <<WriteFile, WriteOffset + 1>>, TRUE, fdTx.old)
      /\ fdTx' = NoTx /\ UNCHANGED <<fdState, fdLdb, fdPut, fdDel, fdPruned>>
  BY DEF WriteBlockFails, Quiet, fdHistory, End
<1>2. /\ FdTxOK(fdTx, fdFiles, fdSynced, fdAt, fdOpened, L) /\ fdState = "open"
      /\ FdEndOK(fdFiles, fdSynced, fdAt, fdOpened, L) /\ FdRowsOK(Committed, fdFiles, fdPruned)
      /\ FdNotAfter(L, Committed[Cursor])
  BY <1>1, FdRunning DEF Running
<1>3. FdFilesOK(fdFiles, fdSynced) /\ FdRowsOK(fdLdb, fdFiles, fdPruned) /\ fdOpened \in BOOLEAN
  BY DEF FdIInv
<1>4. fdTx.old = fdAt
  BY <1>1, <1>2 DEF FdTxOK
<1>5. /\ WriteFile \in 0..FdMaxFile /\ WriteOffset \in 0..(FdFileBlocks - 1)
      /\ \A f \in DOMAIN fdFiles : f \in Nat /\ f <= WriteFile
      /\ (DOMAIN fdFiles = {} => WriteFile = 0 /\ WriteOffset = 0)
      /\ (Rolls => /\ WriteFile = fdAt[1] + 1 /\ WriteFile \notin DOMAIN fdFiles /\ fdAt[1] \in DOMAIN fdFiles
                   /\ fdAt[2] = FdFileBlocks)
      /\ (~Rolls => WriteFile = fdAt[1] /\ WriteOffset = fdAt[2])
  BY <1>1, <1>2, <1>3, FdNextPlace
<1>6. /\ fdAt \in Locations /\ fdAt = <<fdAt[1], fdAt[2]>> /\ fdAt[1] \in Nat /\ fdAt[2] \in Nat
      /\ WriteFile \in Nat /\ WriteOffset \in Nat
  <2>1. fdAt \in Locations /\ FdMaxFile \in Nat /\ FdFileBlocks \in Nat
    BY <1>2, FdLocation DEF FdEndOK
  <2>2. fdAt = <<fdAt[1], fdAt[2]>> /\ fdAt[1] \in 0..FdMaxFile /\ fdAt[2] \in 0..FdFileBlocks
    BY <2>1, FdLocation
  <2> QED
    BY <1>5, <2>1, <2>2
<1>7. Committed' = Committed
  BY <1>1 DEF Committed
<1>8. CASE (Rolls \/ ~fdOpened) /\ HandleRollback(fdFiles, <<WriteFile, WriteOffset>>, FALSE, fdTx.old)
  <2> DEFINE at == <<WriteFile, WriteOffset>>
  <2>1. \/ at = fdAt
        \/ at[1] \in Nat /\ fdAt[1] \in Nat /\ at[1] = fdAt[1] + 1 /\ at[1] \notin DOMAIN fdFiles
    BY <1>5, <1>6
  <2>2. fdFiles' = fdFiles /\ fdSynced' = fdSynced /\ fdAt' = fdAt /\ fdOpened' = FALSE
    <3>1. HandleRollback(fdFiles, at, FALSE, fdAt)
      BY <1>4, <1>8
    <3> HIDE DEF at
    <3> QED
      BY <1>3, <2>1, <3>1, FdNotRolledBack
  <2>3. FdEndOK(fdFiles, fdSynced, fdAt, FALSE, L)
    <3>1. CASE Rolls
      BY <1>2, <1>5, <3>1 DEF FdEndOK
    <3>2. CASE ~fdOpened
      BY <1>2, <3>2 DEF FdEndOK
    <3> QED
      BY <1>8, <3>1, <3>2
  <2> QED
    BY <1>1, <1>2, <1>3, <1>7, <2>2, <2>3 DEF FdIInv
<1>9. CASE HandleRollback(gs, <<WriteFile, WriteOffset + 1>>, TRUE, fdTx.old)
  <2> DEFINE at == <<WriteFile, WriteOffset + 1>>
  <2>1. "junk" \in FdStored
    BY DEF FdStored
  <2>2. FdEndOK(fdFiles, fdSynced, fdAt, fdOpened, L) /\ FdFilesOK(fdFiles, fdSynced) /\ WriteFile <= FdMaxFile
    BY <1>1, <1>2, <1>3
  <2>3. gs = Also(fdFiles, WriteFile, WriteAt(Opened(WriteFile), WriteOffset, "junk"))
    OBVIOUS
  <2>4. HandleRollback(gs, at, TRUE, fdAt)
    BY <1>4, <1>9
  <2> HIDE DEF gs, L
  <2>5. FdSolid(gs)
    BY ONLY <2>1, <2>2, <2>3, FdWritten
  <2>6. DOMAIN gs = DOMAIN fdFiles \cup {WriteFile}
    BY ONLY <2>1, <2>2, <2>3, FdWritten
  <2>7. Len(gs[WriteFile]) = WriteOffset + 1
    BY ONLY <2>1, <2>2, <2>3, FdWritten
  <2>8. \A f \in DOMAIN fdFiles : f # WriteFile => gs[f] = fdFiles[f]
    BY ONLY <2>1, <2>2, <2>3, FdWritten
  <2>9. \A R, pr : FdRowsOK(R, fdFiles, pr) => FdRowsOK(R, gs, pr)
    BY ONLY <2>1, <2>2, <2>3, FdWritten
  <2>10. at[1] = WriteFile /\ at[2] = WriteOffset + 1 /\ at # fdAt
    BY <1>5, <1>6
  <2>11. fdAt[1] \in DOMAIN gs /\ fdAt[2] <= Len(gs[fdAt[1]])
    <3>1. CASE Rolls
      <4>1. fdAt[1] \in DOMAIN fdFiles /\ fdAt[1] # WriteFile
        BY <1>5, <1>6, <3>1
      <4>2. fdAt[2] = Len(fdFiles[fdAt[1]])
        BY <1>2, <4>1 DEF FdEndOK
      <4> QED
        BY <1>6, <2>6, <2>8, <4>1, <4>2
    <3>2. CASE ~Rolls
      BY <1>5, <1>6, <2>6, <2>7, <3>2
    <3> QED
      BY <3>1, <3>2
  <2>12. at[1] \in DOMAIN gs /\ \A f \in DOMAIN gs : f <= at[1]
    BY <1>5, <1>6, <2>6, <2>10
  <2>13. fdSynced \in [DOMAIN fdSynced -> Nat]
    BY <1>3 DEF FdFilesOK
  <2> HIDE DEF at
  <2>14. /\ FdFilesOK(fdFiles', fdSynced') /\ fdAt' = fdAt /\ fdOpened' = TRUE
    BY ONLY <1>6, <2>4, <2>5, <2>10, <2>11, <2>12, <2>13, FdRolledBack
  <2>15. \A M : FdReached(fdFiles', M) => FdEndOK(fdFiles', fdSynced', fdAt', fdOpened', M)
    BY ONLY <1>6, <2>4, <2>5, <2>10, <2>11, <2>12, <2>13, FdRolledBack
  <2>16. \A R, pr : FdRowsOK(R, gs, pr) /\ FdNotAfter(R[Cursor], fdAt) => FdRowsOK(R, fdFiles', pr)
    BY ONLY <1>6, <2>4, <2>5, <2>10, <2>11, <2>12, <2>13, FdRolledBack
  <2>17. ASSUME NEW R, FdRowsOK(R, fdFiles, fdPruned) PROVE FdRowsOK(R, fdFiles', fdPruned)
    <3>1. R[Cursor] \in Locations /\ FdReached(fdFiles, R[Cursor])
      BY <2>17 DEF FdRowsOK
    <3>2. FdNotAfter(R[Cursor], fdAt)
      BY <2>2, <3>1, FdEndFacts
    <3> QED
      BY <2>9, <2>16, <2>17, <3>2
  <2>18. FdRowsOK(fdLdb, fdFiles', fdPruned) /\ FdRowsOK(Committed, fdFiles', fdPruned)
    BY <1>2, <1>3, <2>17
  <2>19. FdEndOK(fdFiles', fdSynced', fdAt', fdOpened', fdLdb[Cursor])
    BY <2>15, <2>18 DEF FdRowsOK
  <2> QED
    BY <1>1, <1>2, <1>7, <2>14, <2>18, <2>19 DEF FdIInv, L
<1> QED
  BY <1>1, <1>8, <1>9

\* The machine stops: the files keep everything before the cursor of leveldb.
LEMMA FdCrash == ASSUME ~FdLoseClosed, FdIInv, Crash PROVE FdIInv'
<1> DEFINE L == fdLdb[Cursor]
<1>1. PICK keep \in [DOMAIN fdFiles -> 0..FdFileBlocks] :
          /\ \A f \in DOMAIN fdFiles : keep[f] <= Len(fdFiles[f]) /\ Keeps(f, keep[f])
          /\ fdFiles' = [f \in DOMAIN fdFiles |-> SubSeq(fdFiles[f], 1, keep[f])]
          /\ fdSynced' = keep
  BY DEF Crash
<1>2. /\ fdState \in {"open", "closed"} /\ fdState' = "crashed" /\ fdTx' = NoTx
      /\ fdAt' = <<0, 0>> /\ fdOpened' = FALSE /\ fdPut' = Empty /\ fdDel' = {} /\ UNCHANGED <<fdLdb, fdPruned>>
  BY DEF Crash
<1>3. /\ FdFilesOK(fdFiles, fdSynced) /\ FdRowsOK(fdLdb, fdFiles, fdPruned) /\ fdOpened \in BOOLEAN
      /\ FdEndOK(fdFiles, fdSynced, fdAt, fdOpened, L)
  BY <1>2 DEF FdIInv
<1>4. /\ fdFiles \in [DOMAIN fdFiles -> Seq(FdStored)] /\ fdSynced \in [DOMAIN fdFiles -> Nat]
      /\ \A f \in DOMAIN fdFiles : f \in Nat
  <2>1. DOMAIN fdFiles \subseteq 0..FdMaxFile /\ FdMaxFile \in Nat
    BY <1>3, FdLocation DEF FdFilesOK, FdSolid
  <2> QED
    BY <1>3, <2>1 DEF FdFilesOK, FdSolid
<1>5. ASSUME NEW f \in DOMAIN fdFiles
      PROVE  /\ keep[f] \in Nat /\ fdFiles'[f] \in Seq(FdStored) /\ Len(fdFiles'[f]) = keep[f]
             /\ keep[f] <= Len(fdFiles[f]) /\ fdSynced[f] <= keep[f] /\ Len(fdFiles[f]) \in Nat
             /\ \A i \in 1..keep[f] : fdFiles'[f][i] = fdFiles[f][i]
             /\ (~(fdOpened /\ f = fdAt[1]) => keep[f] = Len(fdFiles[f]))
  <2>1. keep[f] \in Nat /\ keep[f] <= Len(fdFiles[f]) /\ fdFiles[f] \in Seq(FdStored)
    BY <1>1, <1>4, FdLocation
  <2>2. fdFiles'[f] = SubSeq(fdFiles[f], 1, keep[f])
    BY <1>1
  <2>3. fdSynced[f] <= keep[f] /\ (~(fdOpened /\ f = fdAt[1]) => keep[f] = Len(fdFiles[f]))
    BY <1>1 DEF Keeps
  <2> DEFINE s == fdFiles[f]
             k == keep[f]
  <2>4. s \in Seq(FdStored) /\ k \in Nat /\ k <= Len(s)
    BY <2>1
  <2> HIDE DEF s, k
  <2>5. SubSeq(s, 1, k) \in Seq(FdStored) /\ Len(SubSeq(s, 1, k)) = k /\ \A i \in 1..k : SubSeq(s, 1, k)[i] = s[i]
    BY <2>4
  <2>6. Len(s) \in Nat
    BY <2>4
  <2> QED
    BY <2>1, <2>2, <2>3, <2>5, <2>6 DEF s, k
<1>6. DOMAIN fdFiles' = DOMAIN fdFiles
  BY <1>1
<1>7. FdFilesOK(fdFiles', fdSynced') /\ \A f \in DOMAIN fdFiles' : fdSynced'[f] = Len(fdFiles'[f])
  <2>1. fdFiles' \in [DOMAIN fdFiles -> Seq(FdStored)]
    BY <1>1, <1>5
  <2>2. keep \in [DOMAIN fdFiles -> Nat]
    BY <1>5
  <2>3. FdSolid(fdFiles')
    BY <1>3, <1>6, <2>1 DEF FdFilesOK, FdSolid
  <2>4. \A f \in DOMAIN fdFiles : keep[f] = Len(fdFiles'[f]) /\ keep[f] <= Len(fdFiles'[f])
    BY <1>5
  <2> QED
    BY <1>1, <1>6, <2>2, <2>3, <2>4 DEF FdFilesOK
<1>8. L \in Locations /\ L[1] \in Nat /\ L[2] \in Nat /\ FdReached(fdFiles, L)
  <2>1. L \in Locations /\ FdReached(fdFiles, L)
    BY <1>3 DEF FdRowsOK
  <2> QED
    BY <2>1, FdLocation
<1>9. ASSUME DOMAIN fdFiles # {}
      PROVE  L[1] \in DOMAIN fdFiles /\ L[2] <= keep[L[1]] /\ L[1] <= fdAt[1] /\ fdAt[1] \in Nat
  <2>1. L[1] \in DOMAIN fdFiles /\ L[2] <= Len(fdFiles[L[1]])
    BY <1>8, <1>9 DEF FdReached
  <2>2. /\ fdAt[1] \in DOMAIN fdFiles /\ L[1] <= fdAt[1] /\ (fdOpened /\ L[1] = fdAt[1] => L[2] <= fdSynced[fdAt[1]])
    BY <1>3, <1>9, <2>1 DEF FdEndOK
  <2>3. CASE fdOpened /\ L[1] = fdAt[1]
    BY <1>4, <1>5, <1>8, <2>1, <2>2, <2>3
  <2>4. CASE ~(fdOpened /\ L[1] = fdAt[1])
    BY <1>4, <1>5, <2>1, <2>2, <2>4
  <2> QED
    BY <2>3, <2>4
<1>10. FdReached(fdFiles', L)
  <2>1. CASE DOMAIN fdFiles = {}
    BY <1>6, <1>8, <2>1 DEF FdReached
  <2>2. CASE DOMAIN fdFiles # {}
    BY <1>5, <1>6, <1>9, <2>2 DEF FdReached
  <2> QED
    BY <2>1, <2>2
<1>11. ASSUME NEW l \in Locations, FdBefore(l, L), l[1] \in DOMAIN fdFiles, l[2] < Len(fdFiles[l[1]])
       PROVE  /\ l[1] \in DOMAIN fdFiles' /\ l[2] < Len(fdFiles'[l[1]])
              /\ fdFiles'[l[1]][l[2] + 1] = fdFiles[l[1]][l[2] + 1]
  <2>1. l[1] \in Nat /\ l[2] \in Nat /\ L[2] <= keep[L[1]] /\ L[1] <= fdAt[1] /\ fdAt[1] \in Nat
        /\ L[1] \in DOMAIN fdFiles
    BY <1>9, <1>11, FdLocation
  <2>2. l[2] < keep[l[1]]
    <3>1. CASE l[1] = L[1]
      BY <1>5, <1>8, <1>11, <2>1, <3>1 DEF FdBefore
    <3>2. CASE l[1] # L[1]
      <4>1. l[1] # fdAt[1]
        BY <1>8, <1>11, <2>1, <3>2 DEF FdBefore
      <4> QED
        BY <1>5, <1>11, <4>1
    <3> QED
      BY <3>1, <3>2
  <2>3. l[2] + 1 \in 1..keep[l[1]] /\ Len(fdFiles'[l[1]]) = keep[l[1]]
    BY <1>5, <1>11, <2>1, <2>2
  <2> QED
    BY <1>5, <1>6, <1>11, <2>2, <2>3
<1>12. FdRowsOK(fdLdb, fdFiles', fdPruned)
  BY <1>3, <1>10, <1>11, FdRowsKept
<1>13. DOMAIN Empty = {} /\ Empty \in [{} -> Locations]
  BY DEF Empty
<1> QED
  BY <1>2, <1>7, <1>12, <1>13 DEF FdIInv

\* The last file, as scanBlockFiles finds it: it is where the cursor was when
\* the database was closed.
LEMMA FdScanned ==
    ASSUME FdIInv, DOMAIN fdFiles # {}
    PROVE  LET m == Max(DOMAIN fdFiles) IN
               /\ m \in DOMAIN fdFiles /\ m \in Nat /\ \A f \in DOMAIN fdFiles : f <= m
               /\ ScanBlockFiles[2] = m /\ ScanBlockFiles[3] = Len(fdFiles[m])
               /\ Len(fdFiles[m]) \in Nat
               /\ (fdState # "crashed" => fdAt[1] = m /\ fdAt[2] = Len(fdFiles[m]))
<1> DEFINE m == Max(DOMAIN fdFiles)
<1>1. FdFilesOK(fdFiles, fdSynced) /\ (fdState # "crashed" => FdEndOK(fdFiles, fdSynced, fdAt, fdOpened, fdLdb[Cursor]))
  BY DEF FdIInv
<1>2. DOMAIN fdFiles \in SUBSET (0..FdMaxFile) /\ FdMaxFile \in Nat /\ fdFiles \in [DOMAIN fdFiles -> Seq(FdStored)]
  BY <1>1, FdLocation DEF FdFilesOK, FdSolid
<1>3. m \in DOMAIN fdFiles /\ \A f \in DOMAIN fdFiles : f <= m
  BY <1>2, GreatestNumber
<1>4. ScanBlockFiles = <<Min(DOMAIN fdFiles), m, Len(fdFiles[m])>>
  BY DEF ScanBlockFiles
<1> HIDE DEF m
<1>5. m \in Nat /\ \A f \in DOMAIN fdFiles : f \in Nat
  BY <1>2, <1>3
<1>6. Len(fdFiles[m]) \in Nat
  BY <1>2, <1>3
<1>7. ASSUME fdState # "crashed" PROVE fdAt[1] = m /\ fdAt[2] = Len(fdFiles[m])
  <2>1. fdAt[1] \in DOMAIN fdFiles /\ fdAt[2] = Len(fdFiles[fdAt[1]]) /\ m <= fdAt[1] /\ fdAt[1] <= m
    BY <1>1, <1>3, <1>7 DEF FdEndOK
  <2> QED
    BY <1>5, <2>1
<1>8. ScanBlockFiles[2] = m /\ ScanBlockFiles[3] = Len(fdFiles[m])
  BY <1>4
<1> QED
  BY <1>3, <1>5, <1>6, <1>7, <1>8 DEF m

\* A start: the files reach the cursor of leveldb, and what is behind it goes.
LEMMA FdOpen == ASSUME FfldbIInv, FdIInv, OpenDb PROVE FdIInv'
<1> DEFINE L == fdLdb[Cursor]
           m == Max(DOMAIN fdFiles)
           at == IF ScanBlockFiles[2] = -1 THEN <<0, 0>> ELSE <<ScanBlockFiles[2], ScanBlockFiles[3]>>
<1>1. /\ fdState \in {"closed", "crashed"} /\ fdPut' = Empty /\ fdDel' = {}
      /\ UNCHANGED <<fdLdb, fdTx, fdPruned>>
      /\ ~Ahead(L, at) => fdState' = "open" /\ HandleRollback(fdFiles, at, FALSE, L)
  BY DEF OpenDb, fdHistory
<1>2. fdTx' = NoTx
  BY <1>1 DEF FfldbIInv, TxSound
<1>3. Committed' = fdLdb
  BY <1>1, OverlayEmpty DEF Committed, FfldbIInv
<1>4. FdFilesOK(fdFiles, fdSynced) /\ FdRowsOK(fdLdb, fdFiles, fdPruned) /\ fdOpened \in BOOLEAN
  BY DEF FdIInv
<1>5. L \in Locations /\ L = <<L[1], L[2]>> /\ L[1] \in Nat /\ L[2] \in Nat /\ FdReached(fdFiles, L)
  <2>1. L \in Locations /\ FdReached(fdFiles, L)
    BY <1>4 DEF FdRowsOK
  <2> QED
    BY <2>1, FdLocation
<1>6. DOMAIN Empty = {} /\ Empty \in [{} -> Locations]
  BY DEF Empty
<1>7. ASSUME fdState' = "open", FdFilesOK(fdFiles', fdSynced'), FdRowsOK(fdLdb, fdFiles', fdPruned),
             FdEndOK(fdFiles', fdSynced', fdAt', fdOpened', L), fdOpened' \in BOOLEAN
      PROVE  FdIInv'
  <2>1. FdNotAfter(fdLdb'[Cursor], Committed'[Cursor])
    BY <1>1, <1>3, <1>5 DEF FdNotAfter
  <2> QED
    BY <1>1, <1>2, <1>3, <1>6, <1>7, <2>1 DEF FdIInv
<1>8. ASSUME at = L, FdEndOK(fdFiles, fdSynced, L, FALSE, L) PROVE FdIInv'
  <2>1. ~Ahead(L, at)
    BY <1>5, <1>8 DEF Ahead
  <2>2. fdState' = "open" /\ HandleRollback(fdFiles, L, FALSE, L)
    BY <1>1, <1>8, <2>1
  <2> HIDE DEF L
  <2>3. fdFiles' = fdFiles /\ fdSynced' = fdSynced /\ fdAt' = L /\ fdOpened' = FALSE
    BY <1>4, <2>2, FdNotRolledBack
  <2> QED
    BY <1>4, <1>7, <1>8, <2>2, <2>3
<1>9. CASE DOMAIN fdFiles = {}
  <2>1. L = <<0, 0>> /\ at = <<0, 0>>
    BY <1>5, <1>9 DEF FdReached, ScanBlockFiles
  <2>2. FdEndOK(fdFiles, fdSynced, L, FALSE, L)
    BY <1>5, <1>9, <2>1 DEF FdEndOK
  <2> QED
    BY <1>8, <2>1, <2>2
<1>10. CASE DOMAIN fdFiles # {}
  <2>1. /\ m \in DOMAIN fdFiles /\ m \in Nat /\ \A f \in DOMAIN fdFiles : f <= m
        /\ ScanBlockFiles[2] = m /\ ScanBlockFiles[3] = Len(fdFiles[m]) /\ Len(fdFiles[m]) \in Nat
        /\ (fdState # "crashed" => fdAt[1] = m /\ fdAt[2] = Len(fdFiles[m]))
    BY <1>10, FdScanned
  <2> HIDE DEF m
  <2>2. at = <<m, Len(fdFiles[m])>>
    BY <2>1
  <2>3. L[1] \in DOMAIN fdFiles /\ L[2] <= Len(fdFiles[L[1]]) /\ L[1] <= m
    BY <1>5, <1>10, <2>1 DEF FdReached
  <2>4. ~Ahead(L, at)
    BY <1>5, <2>1, <2>2, <2>3 DEF Ahead
  <2> HIDE DEF at
  <2>5. CASE at = L
    <3>1. L[1] = m /\ L[2] = Len(fdFiles[m])
      BY <2>2, <2>5
    <3>2. fdSynced[m] = L[2] \/ L[2] = FdFileBlocks
      <4>1. CASE fdState = "crashed"
        BY <2>1, <3>1, <4>1 DEF FdIInv
      <4>2. CASE fdState # "crashed"
        <5>1. FdEndOK(fdFiles, fdSynced, fdAt, fdOpened, L)
          BY <4>2 DEF FdIInv
        <5>2. fdAt[1] = m /\ fdAt[2] = L[2]
          BY <2>1, <3>1, <4>2
        <5>3. fdSynced[m] \in Nat /\ fdSynced[m] <= L[2]
          BY <1>4, <2>1, <3>1 DEF FdFilesOK
        <5>4. CASE fdOpened
          <6>1. L[2] <= fdSynced[m]
            BY <3>1, <5>1, <5>2, <5>4 DEF FdEndOK
          <6> QED
            BY <1>5, <5>3, <6>1
        <5>5. CASE ~fdOpened
          BY <1>10, <5>1, <5>2, <5>5 DEF FdEndOK
        <5> QED
          BY <5>4, <5>5
      <4> QED
        BY <4>1, <4>2
    <3>3. FdEndOK(fdFiles, fdSynced, L, FALSE, L)
      BY <1>5, <1>10, <2>1, <3>1, <3>2 DEF FdEndOK
    <3> QED
      BY <1>8, <2>5, <3>3
  <2>6. CASE at # L
    <3>1. fdState' = "open" /\ HandleRollback(fdFiles, at, FALSE, L)
      BY <1>1, <2>4
    <3>2. FdSolid(fdFiles) /\ fdSynced \in [DOMAIN fdSynced -> Nat]
      BY <1>4 DEF FdFilesOK
    <3>3. at[1] \in DOMAIN fdFiles /\ \A f \in DOMAIN fdFiles : f <= at[1]
      BY <2>1, <2>2
    <3>a. L = fdLdb[Cursor]
      OBVIOUS
    <3> HIDE DEF L
    <3>4. FdFilesOK(fdFiles', fdSynced') /\ fdAt' = L /\ fdOpened' = TRUE
      BY ONLY <1>5, <2>3, <2>6, <3>1, <3>2, <3>3, FdRolledBack
    <3>5. \A M : FdReached(fdFiles', M) => FdEndOK(fdFiles', fdSynced', fdAt', fdOpened', M)
      BY ONLY <1>5, <2>3, <2>6, <3>1, <3>2, <3>3, FdRolledBack
    <3>6. \A R, pr : FdRowsOK(R, fdFiles, pr) /\ FdNotAfter(R[Cursor], L) => FdRowsOK(R, fdFiles', pr)
      BY ONLY <1>5, <2>3, <2>6, <3>1, <3>2, <3>3, FdRolledBack
    <3>7. FdNotAfter(L, L)
      BY <1>5 DEF FdNotAfter
    <3>8. FdRowsOK(fdLdb, fdFiles', fdPruned)
      BY <1>4, <3>a, <3>6, <3>7
    <3>9. FdEndOK(fdFiles', fdSynced', fdAt', fdOpened', L)
      BY <3>a, <3>5, <3>8 DEF FdRowsOK
    <3> QED
      BY <1>7, <3>1, <3>4, <3>8, <3>9
  <2> QED
    BY <2>5, <2>6
<1> QED
  BY <1>9, <1>10

\* The empty database.
LEMMA FdInit == FfldbInit => FfldbIInv /\ FdIInv
<1> SUFFICES ASSUME FfldbInit PROVE FfldbIInv /\ FdIInv
  OBVIOUS
<1>1. /\ fdState = "open" /\ fdFiles = Empty /\ fdSynced = Empty /\ fdAt = <<0, 0>> /\ fdOpened = FALSE
      /\ fdLdb = [k \in Rows |-> IF k = Cursor THEN <<0, 0>> ELSE NoRow]
      /\ fdPut = Empty /\ fdDel = {} /\ fdTx = NoTx
  BY DEF FfldbInit
<1>2. fdLdb = [k \in Rows |-> fdLdb[k]]
  BY <1>1
<1>3. Committed = fdLdb
  BY <1>1, <1>2, OverlayEmpty DEF Committed
<1>4. DOMAIN Empty = {} /\ \A S : Empty \in [{} -> S]
  BY DEF Empty
<1>5. fdLdb[Cursor] = <<0, 0>> /\ <<0, 0>> \in Locations /\ \A b \in FdBlocks : fdLdb[b] = NoRow
  BY <1>1, FdNames, FdLocation
<1>6. fdLdb \in Contents
  BY <1>1, <1>5 DEF Contents
<1>7. FdRowsOK(fdLdb, fdFiles, fdPruned)
  BY <1>1, <1>4, <1>5, <1>6 DEF FdRowsOK, FdReached
<1>8. FdFilesOK(fdFiles, fdSynced)
  BY <1>1, <1>4 DEF FdFilesOK, FdSolid
<1>9. FdEndOK(fdFiles, fdSynced, fdAt, fdOpened, fdLdb[Cursor])
  BY <1>1, <1>4, <1>5 DEF FdEndOK
<1>10. FdNotAfter(fdLdb[Cursor], Committed[Cursor])
  BY <1>3, <1>5 DEF FdNotAfter
<1> QED
  BY <1>1, <1>2, <1>3, <1>4, <1>7, <1>8, <1>9, <1>10 DEF FfldbIInv, FdIInv

\* Every step keeps the files and the rows in agreement.
LEMMA FdNext ==
    ASSUME FdTxBlocks <= 1, ~FdLoseClosed, FfldbIInv, FdIInv, [FfldbNext]_fdVars
    PROVE  FfldbIInv' /\ FdIInv'
<1>1. FfldbIInv'
  BY FfldbSteps
<1>2. CASE FdRollbackTx
  BY <1>1, <1>2, FdTxStep DEF FdRollbackTx, fdDisk, fdMem, fdHistory
<1>3. ASSUME UNCHANGED <<fdState, fdFiles, fdSynced, fdLdb, fdAt, fdOpened, fdPut, fdDel, fdPruned, fdTx>> PROVE FdIInv'
  BY <1>3 DEF FdIInv, Committed
<1>4. ASSUME NEW r \in FdReaders, SnapshotLdb(r) \/ SnapshotCache(r) \/ EndView(r) PROVE FdIInv'
  BY <1>3, <1>4 DEF SnapshotLdb, SnapshotCache, EndView, ReaderStep, fdDisk, fdMem, fdHistory
<1>5. CASE UNCHANGED fdVars
  BY <1>1, <1>3, <1>5 DEF fdVars, fdDisk, fdMem, fdHistory
<1> QED
  BY <1>1, <1>2, <1>4, <1>5, FdBegin, FdInUpdate, FdCommitBegin, FdDeleteFile, FdWriteBlock, FdWriteFails, FdPutCursor,
     FdMerge, FdFlushSync, FdFlushCommit, FdFlushClear, FdCommitRows, FdClose, FdCrash, FdOpen DEF FfldbNext

\* The agreement is what the database promises.
LEMMA FdPromise == FdIInv => FfldbInvariant
<1> SUFFICES ASSUME FdIInv PROVE FfldbInvariant
  OBVIOUS
<1>1. FdFilesOK(fdFiles, fdSynced) /\ FdRowsOK(fdLdb, fdFiles, fdPruned)
  BY DEF FdIInv
<1>2. /\ fdFiles \in [DOMAIN fdFiles -> Seq(FdStored)] /\ fdSynced \in [DOMAIN fdFiles -> Nat]
      /\ DOMAIN fdFiles \subseteq 0..FdMaxFile
  BY <1>1 DEF FdFilesOK, FdSolid
<1>3. fdAt \in Locations
  <2>1. CASE fdState = "crashed"
    BY <2>1, FdLocation DEF FdIInv
  <2>2. CASE fdState # "crashed"
    BY <2>2 DEF FdIInv, FdEndOK
  <2> QED
    BY <2>1, <2>2
<1>4. ASSUME NEW f \in DOMAIN fdFiles
      PROVE  fdSynced[f] \in 0..Len(fdFiles[f]) /\ Range(fdFiles[f]) \subseteq FdBlocks \cup {"junk"}
  <2>1. fdFiles[f] \in Seq(FdStored) /\ fdSynced[f] \in Nat /\ fdSynced[f] <= Len(fdFiles[f]) /\ Len(fdFiles[f]) \in Nat
    BY <1>1, <1>2 DEF FdFilesOK
  <2>2. \A i \in DOMAIN fdFiles[f] : fdFiles[f][i] \in FdStored
    BY <2>1
  <2> QED
    BY <2>1, <2>2 DEF Range, FdStored
<1>5. ASSUME fdOpened PROVE fdAt[1] \in DOMAIN fdFiles /\ fdAt[2] <= Len(fdFiles[fdAt[1]])
  <2>1. FdEndOK(fdFiles, fdSynced, fdAt, fdOpened, fdLdb[Cursor])
    BY <1>5 DEF FdIInv
  <2>2. fdAt[1] \in DOMAIN fdFiles /\ fdAt[2] = Len(fdFiles[fdAt[1]])
    BY <1>5, <2>1 DEF FdEndOK
  <2>3. Len(fdFiles[fdAt[1]]) \in Nat
    BY <1>2, <2>2
  <2> QED
    BY <2>2, <2>3
<1>6. FfldbTypeOK
  <2>1. /\ fdState \in {"open", "closed", "crashed"} /\ fdOpened \in BOOLEAN /\ fdLdb \in Contents
        /\ fdPut \in [DOMAIN fdPut -> Locations] /\ DOMAIN fdPut \subseteq Rows
        /\ fdDel \subseteq Rows /\ fdDel \cap DOMAIN fdPut = {}
    BY <1>1, FdNames DEF FdIInv, FdRowsOK
  <2>2. Range(fdPut) \subseteq Locations
    BY <2>1 DEF Range
  <2>3. DOMAIN fdFiles = DOMAIN fdSynced
    BY <1>2
  <2> QED
    BY <1>2, <1>3, <1>4, <1>5, <2>1, <2>2, <2>3 DEF FfldbTypeOK
<1>7. IndexedIsReadable
  BY DEF IndexedIsReadable, FdIInv, FdRowsOK, FdReads, ReadBlock
<1>8. OpensAgain
  BY DEF OpensAgain, FdIInv
<1> QED
  BY <1>6, <1>7, <1>8 DEF FfldbInvariant

\* When a transaction stores one block, as those of the chain do, and a file that
\* was closed keeps its data, every block that the committed rows locate can be
\* read from its file or was pruned, and the database can be opened again, after
\* any number of crashes and failed operations and for any file size.
THEOREM BlocksReadable == ASSUME FdTxBlocks <= 1, ~FdLoseClosed PROVE FfldbSpec => []FfldbInvariant
<1>1. FfldbInit => FfldbIInv /\ FdIInv
  BY FdInit
<1>2. (FfldbIInv /\ FdIInv) /\ [FfldbNext]_fdVars => (FfldbIInv /\ FdIInv)'
  BY FdNext
<1>3. FfldbIInv /\ FdIInv => FfldbInvariant
  BY FdPromise
<1> QED
  BY <1>1, <1>2, <1>3, PTL DEF FfldbSpec
=============================================================================
