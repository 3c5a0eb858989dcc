------------------------------ MODULE KeyManager ------------------------------
(***************************************************************************)
(* The keys of an OrcaWallet: waddrmgr (manager.go, scoped_manager.go,     *)
(* address.go) and walletLocker of wallet.go.  Accounts and addresses live *)
(* in the database and, as far as they were used, in memory, with their    *)
(* private keys while the manager is unlocked.  A write transaction is     *)
(* open over several calls and is committed or rolled back later: a dry    *)
(* run always rolls back.  Unlock and Lock run on another goroutine and    *)
(* take the mutex of the root manager only, so they come in between.       *)
(***************************************************************************)
EXTENDS Naturals, FiniteSets

CONSTANTS
    KmAccounts,         \* accounts with private keys that may be created
    KmWatchAccounts,    \* accounts imported with a public key only
    KmKeys,             \* private keys that may be imported
    KmPass,             \* passphrases
    KmMaxIndex,         \* bound of the model: addresses per account
    KmExtends           \* whether a recovery extends the addresses

ASSUME KeyManagerAssumption ==
    /\ KmMaxIndex \in Nat \ {0} /\ KmAccounts \cap KmWatchAccounts = {}
    /\ KmAccounts # {} /\ KmPass # {}      \* a wallet has its default account and a passphrase

VARIABLES
    kmDisk,             \* committed: next index by account, addresses, imported keys, passphrases
    kmTx,               \* the open write transaction: its view of the database, and onCommit
    kmAcct,             \* acctInfo: cached accounts with next index and whether acctKeyPriv is there
    kmAddrs,            \* addrs: cached address objects: encrypted key there, object in deriveOnUnlock
    kmDerive,           \* the accounts of the objects in deriveOnUnlock
    kmLocked, kmPub, kmPriv,    \* locked; the passphrases the master keys in memory open with
    kmHold              \* walletLocker waits for a heldUnlock to be released

kmMem == <<kmAcct, kmAddrs, kmDerive, kmLocked, kmPub, kmPriv>>
kmVars == <<kmDisk, kmTx, kmMem, kmHold>>

KmAll == KmAccounts \cup KmWatchAccounts
KmAddress == KmAll \X (0..KmMaxIndex - 1)
Imported(k) == <<"imported", k>>
Put(f, k, v) == [x \in DOMAIN f \cup {k} |-> IF x = k THEN v ELSE f[x]]
KmNoTx == [open |-> FALSE]
NoCommit == [acct |-> "none"]
Begin(disk, onCommit) == /\ ~kmTx.open
                         /\ kmTx' = [open |-> TRUE, disk |-> disk, onCommit |-> onCommit]
HasPriv(acct) == acct \in KmAccounts /\ ~kmLocked

\* loadAccountInfo: from the cache or the given view of the database.  The last
\* address of a branch is made with it, and goes to deriveOnUnlock when its
\* key is public.
LoadAccountInfo(disk, acct) ==
    IF acct \in DOMAIN kmAcct THEN [accts |-> kmAcct, derive |-> kmDerive]
    ELSE [accts |-> Put(kmAcct, acct, [next |-> disk.next[acct], priv |-> HasPriv(acct)]),
          derive |-> IF HasPriv(acct) THEN kmDerive ELSE kmDerive \cup {acct}]

\* deriveKeyFromPath and keyToManaged: the object of a stored address
ManagedAddress(info) == [enc |-> info.priv, queued |-> ~info.priv]

KeyManagerInit ==
    /\ LET a == CHOOSE a \in KmAccounts : TRUE
           p == CHOOSE p \in KmPass : TRUE
       IN  kmDisk = [next |-> [x \in {a} |-> 0], addrs |-> {}, keys |-> {}, pub |-> p, priv |-> p]
    /\ kmTx = KmNoTx /\ kmAcct = <<>> /\ kmAddrs = <<>> /\ kmDerive = {}
    /\ kmLocked = TRUE /\ kmPub = kmDisk.pub /\ kmPriv = kmDisk.priv /\ kmHold = FALSE

-----------------------------------------------------------------------------
(* Write transactions *)

\* nextAddresses: the address is stored and read back into the cache; the index
\* moves and the object that was handed out replaces the one in the cache when
\* the transaction is committed.
NextAddresses(acct) ==
    LET load == LoadAccountInfo(kmDisk, acct)
        info == load.accts[acct]
        addr == <<acct, info.next>>
    IN  /\ acct \in DOMAIN kmDisk.next /\ info.next < KmMaxIndex
        /\ Begin([kmDisk EXCEPT !.next[acct] = info.next + 1, !.addrs = @ \cup {addr}],
                 [acct |-> acct, index |-> info.next, enc |-> HasPriv(acct)])
        /\ kmAcct' = load.accts /\ kmAddrs' = Put(kmAddrs, addr, ManagedAddress(info))
        /\ kmDerive' = load.derive \cup (IF info.priv THEN {} ELSE {acct})
        /\ UNCHANGED <<kmDisk, kmLocked, kmPub, kmPriv, kmHold>>

\* extendAddresses, for a recovery: memory follows at once.  The key is always
\* derived from the public key, since watchOnly is set for an account whose
\* private key is there.
ExtendAddresses(acct, last) ==
    LET load == LoadAccountInfo(kmDisk, acct)
        info == load.accts[acct]
        new == {<<acct, i>> : i \in info.next..last}
        watchOnly == info.priv
    IN  /\ KmExtends /\ acct \in KmAccounts \cap DOMAIN kmDisk.next /\ info.next <= last
        /\ Begin([kmDisk EXCEPT !.next[acct] = last + 1, !.addrs = @ \cup new], NoCommit)
        /\ kmAcct' = Put(load.accts, acct, [info EXCEPT !.next = last + 1])
        /\ kmAddrs' = [a \in new \cup DOMAIN kmAddrs |->
                         IF a \in new THEN [enc |-> FALSE, queued |-> kmLocked /\ ~watchOnly] ELSE kmAddrs[a]]
        /\ kmDerive' = load.derive \cup (IF kmLocked /\ ~watchOnly THEN {acct} ELSE {})
        /\ UNCHANGED <<kmDisk, kmLocked, kmPub, kmPriv, kmHold>>

\* ImportPrivateKey: refused when the address is known in memory or on disk
ImportPrivateKeyAny(k) ==   \* mutant: the key is stored as an address of no account
    /\ ~kmLocked /\ ~kmTx.open
    /\ Begin([kmDisk EXCEPT !.addrs = @ \cup {Imported(k)}], NoCommit)
    /\ kmAddrs' = Put(kmAddrs, Imported(k), [enc |-> TRUE, queued |-> FALSE])
    /\ UNCHANGED <<kmDisk, kmAcct, kmDerive, kmLocked, kmPub, kmPriv, kmHold>>
ImportPrivateKey(k) ==
    /\ ~kmLocked /\ Imported(k) \notin DOMAIN kmAddrs /\ k \notin kmDisk.keys
    /\ Begin([kmDisk EXCEPT !.keys = @ \cup {k}], NoCommit)
    /\ kmAddrs' = Put(kmAddrs, Imported(k), [enc |-> TRUE, queued |-> FALSE])
    /\ UNCHANGED <<kmDisk, kmAcct, kmDerive, kmLocked, kmPub, kmPriv, kmHold>>

\* NewAccount of an unlocked manager, NewAccountWatchingOnly of any; the
\* properties are read back in the same transaction.
NewAccount(acct) ==
    LET disk == [kmDisk EXCEPT !.next = Put(@, acct, 0)]
        load == LoadAccountInfo(disk, acct)
    IN  /\ acct \in KmAll \ DOMAIN kmDisk.next
        /\ acct \in KmAccounts => ~kmLocked
        /\ Begin(disk, NoCommit)
        /\ kmAcct' = load.accts /\ kmDerive' = load.derive
        /\ UNCHANGED <<kmDisk, kmAddrs, kmLocked, kmPub, kmPriv, kmHold>>

\* ImportAccountDryRun: an account and an address that are rolled back; the
\* account leaves the cache, its address and deriveOnUnlock do not.
ImportAccountDryRunAll(acct) ==     \* mutant: empties the whole account cache
    /\ ~kmTx.open /\ acct \in KmWatchAccounts \ DOMAIN kmDisk.next
    /\ kmAcct' = <<>>
    /\ kmAddrs' = Put(kmAddrs, <<acct, 0>>, [enc |-> FALSE, queued |-> TRUE])
    /\ kmDerive' = kmDerive \cup {acct}
    /\ UNCHANGED <<kmDisk, kmTx, kmLocked, kmPub, kmPriv, kmHold>>
ImportAccountDryRun(acct) ==
    /\ ~kmTx.open /\ acct \in KmWatchAccounts \ DOMAIN kmDisk.next
    /\ kmAcct' = [a \in DOMAIN kmAcct \ {acct} |-> kmAcct[a]]
    /\ kmAddrs' = Put(kmAddrs, <<acct, 0>>, [enc |-> FALSE, queued |-> TRUE])
    /\ kmDerive' = kmDerive \cup {acct}
    /\ UNCHANGED <<kmDisk, kmTx, kmLocked, kmPub, kmPriv, kmHold>>

\* onCommit of nextAddresses.  Whether the object needs its key at the next
\* Unlock is decided here, by the lock as it is now.
OnCommitStale(c) ==         \* mutant: forgets the index
    /\ kmAddrs' = Put(kmAddrs, <<c.acct, c.index>>, [enc |-> c.enc, queued |-> FALSE])
    /\ UNCHANGED <<kmDerive, kmAcct>>
OnCommit(c) ==
    LET addr == <<c.acct, c.index>>
        queued == kmLocked /\ c.acct \in KmAccounts
    IN  /\ kmAddrs' = Put(kmAddrs, addr, [enc |-> c.enc, queued |-> queued])
        /\ kmDerive' = IF queued THEN kmDerive \cup {c.acct} ELSE kmDerive
        /\ kmAcct' = IF c.acct \in DOMAIN kmAcct
                     THEN [kmAcct EXCEPT ![c.acct].next = c.index + 1] ELSE kmAcct

Commit ==
    /\ kmTx.open /\ kmDisk' = kmTx.disk /\ kmTx' = KmNoTx
    /\ IF kmTx.onCommit = NoCommit THEN UNCHANGED <<kmAddrs, kmDerive, kmAcct>>
       ELSE OnCommit(kmTx.onCommit)
    /\ UNCHANGED <<kmLocked, kmPub, kmPriv, kmHold>>

\* A dry run of a payment, which takes a change address, or an error of a later
\* step.  A new account is the last step of its transaction.
KmRollback ==
    /\ kmTx.open /\ kmTx' = KmNoTx /\ DOMAIN kmTx.disk.next = DOMAIN kmDisk.next
    /\ UNCHANGED <<kmDisk, kmMem, kmHold>>

-----------------------------------------------------------------------------
(* Readers *)

\* AccountProperties, LastExternalAddress and others, in a transaction of their own
ReadAccount(acct) ==
    /\ acct \in DOMAIN kmDisk.next \ DOMAIN kmAcct
    /\ LET load == LoadAccountInfo(kmDisk, acct)
       IN  kmAcct' = load.accts /\ kmDerive' = load.derive
    /\ UNCHANGED <<kmDisk, kmTx, kmAddrs, kmLocked, kmPub, kmPriv, kmHold>>

\* Address: loadAndCacheAddress of an address that is not cached
Address(addr) ==
    LET load == LoadAccountInfo(kmDisk, addr[1])
        info == load.accts[addr[1]]
    IN  /\ addr \in kmDisk.addrs \ DOMAIN kmAddrs
        /\ kmAcct' = load.accts /\ kmAddrs' = Put(kmAddrs, addr, ManagedAddress(info))
        /\ kmDerive' = load.derive \cup (IF info.priv THEN {} ELSE {addr[1]})
        /\ UNCHANGED <<kmDisk, kmTx, kmLocked, kmPub, kmPriv, kmHold>>

-----------------------------------------------------------------------------
(* walletLocker *)

ForgetNothing(accts) == accts   \* mutant: the account keys stay
\* lock forgets the keys of the cached accounts
Forget(accts) == [a \in DOMAIN accts |-> [accts[a] EXCEPT !.priv = FALSE]]
LockNow == kmLocked' = TRUE /\ kmAcct' = Forget(kmAcct)

\* A request, or the timeout of an earlier Unlock.
LockManager ==
    /\ ~kmHold /\ ~kmLocked /\ LockNow
    /\ UNCHANGED <<kmDisk, kmTx, kmAddrs, kmDerive, kmPub, kmPriv, kmHold>>

\* Unlock decrypts the key of every cached account and derives what is in
\* deriveOnUnlock: both need an account that has a private key and is cached.
Decrypts == DOMAIN kmAcct \subseteq KmAccounts
Derives == kmDerive \subseteq KmAccounts \cap DOMAIN kmAcct

\* The objects whose keys are derived leave deriveOnUnlock.
Derived(done) == [a \in DOMAIN kmAddrs |-> IF a \in done THEN [enc |-> TRUE, queued |-> FALSE]
                                           ELSE kmAddrs[a]]
Queued == {a \in DOMAIN kmAddrs : kmAddrs[a].queued}

Unlock(pass) ==
    /\ ~kmHold /\ kmLocked /\ pass = kmPriv /\ Decrypts /\ Derives
    /\ kmLocked' = FALSE /\ kmDerive' = {} /\ kmAddrs' = Derived(Queued)
    /\ kmAcct' = [a \in DOMAIN kmAcct |-> [kmAcct[a] EXCEPT !.priv = TRUE]]
    /\ UNCHANGED <<kmDisk, kmTx, kmPub, kmPriv, kmHold>>

\* A wrong passphrase, or one of the steps fails: the manager is locked, also
\* when it was not; some of the objects may have been served before.
UnlockFails(pass) ==
    /\ ~kmHold /\ LockNow
    /\ \/ pass # kmPriv /\ UNCHANGED kmAddrs
       \/ /\ pass = kmPriv /\ kmLocked /\ ~(Decrypts /\ Derives)
          /\ \E done \in SUBSET {a \in Queued : a[1] \in KmAccounts} : kmAddrs' = Derived(done)
    /\ UNCHANGED <<kmDisk, kmTx, kmDerive, kmPub, kmPriv, kmHold>>

\* holdUnlock of a goroutine that signs, and its release
Hold ==
    /\ kmHold' = ~kmHold /\ (~kmHold => ~kmLocked)
    /\ UNCHANGED <<kmDisk, kmTx, kmMem>>

\* ChangePassphrase, public or private, in a transaction of walletLocker: the
\* master key in memory changes with the call
ChangePassphrase(old, new, private) ==
    /\ ~kmHold /\ ~kmTx.open /\ old # new
    /\ old = (IF private THEN kmPriv ELSE kmPub)
    /\ IF private THEN kmPriv' = new /\ kmDisk' = [kmDisk EXCEPT !.priv = new] /\ UNCHANGED kmPub
                  ELSE kmPub' = new /\ kmDisk' = [kmDisk EXCEPT !.pub = new] /\ UNCHANGED kmPriv
    /\ UNCHANGED <<kmTx, kmAcct, kmAddrs, kmDerive, kmLocked, kmHold>>

\* ChangePassphrases: both in one transaction.  When the old private passphrase
\* is wrong the transaction is rolled back, after the public one changed in memory.
ChangePassphrasesFirst(pubOld, privOld, new) ==     \* mutant: the private passphrase goes first
    /\ ~kmHold /\ ~kmTx.open /\ privOld = kmPriv /\ pubOld # new
    /\ kmPriv' = new
    /\ IF pubOld = kmPub
       THEN kmPub' = new /\ kmDisk' = [kmDisk EXCEPT !.pub = new, !.priv = new]
       ELSE UNCHANGED <<kmPub, kmDisk>>
    /\ UNCHANGED <<kmTx, kmAcct, kmAddrs, kmDerive, kmLocked, kmHold>>
ChangePassphrases(pubOld, privOld, new) ==
    /\ ~kmHold /\ ~kmTx.open /\ pubOld = kmPub /\ pubOld # new
    /\ kmPub' = new
    /\ IF privOld = kmPriv
       THEN kmPriv' = new /\ kmDisk' = [kmDisk EXCEPT !.pub = new, !.priv = new]
       ELSE UNCHANGED <<kmPriv, kmDisk>>
    /\ UNCHANGED <<kmTx, kmAcct, kmAddrs, kmDerive, kmLocked, kmHold>>

\* The wallet stops at any time and is opened again from the database.
Reopen ==
    /\ kmTx' = KmNoTx /\ kmAcct' = <<>> /\ kmAddrs' = <<>> /\ kmDerive' = {}
    /\ kmLocked' = TRUE /\ kmPub' = kmDisk.pub /\ kmPriv' = kmDisk.priv /\ kmHold' = FALSE
    /\ UNCHANGED kmDisk

KeyManagerNext ==
    \/ \E acct \in KmAll : NextAddresses(acct) \/ NewAccount(acct) \/ ReadAccount(acct)
    \/ \E acct \in KmWatchAccounts : ImportAccountDryRun(acct)
    \/ \E acct \in KmAccounts, last \in 0..KmMaxIndex - 1 : ExtendAddresses(acct, last)
    \/ \E k \in KmKeys : ImportPrivateKey(k)
    \/ Commit \/ KmRollback
    \/ \E addr \in KmAddress : Address(addr)
    \/ LockManager \/ Hold \/ Reopen
    \/ \E p \in KmPass : Unlock(p) \/ UnlockFails(p)
    \/ \E p, q \in KmPass, private \in BOOLEAN : ChangePassphrase(p, q, private)
    \/ \E p, q, r \in KmPass : ChangePassphrases(p, q, r)

KeyManagerSpec == KeyManagerInit /\ [][KeyManagerNext]_kmVars

-----------------------------------------------------------------------------
(* Properties *)

\* The types of the accounts, addresses and passphrases in the database and in memory.
KeyManagerTypeOK ==
    /\ DOMAIN kmDisk.next \subseteq KmAll /\ kmDisk.addrs \subseteq KmAddress
    /\ kmDisk.keys \subseteq KmKeys /\ {kmDisk.pub, kmDisk.priv, kmPub, kmPriv} \subseteq KmPass
    /\ DOMAIN kmAcct \subseteq KmAll /\ kmDerive \subseteq KmAll
    /\ \A a \in DOMAIN kmAcct : kmAcct[a].next \in 0..KmMaxIndex /\ kmAcct[a].priv \in BOOLEAN
    /\ DOMAIN kmAddrs \subseteq KmAddress \cup {Imported(k) : k \in KmKeys}
    /\ kmLocked \in BOOLEAN /\ kmHold \in BOOLEAN /\ kmTx.open \in BOOLEAN

\* No address is handed out twice: the cached next index of an account is never
\* behind the addresses in the database, whatever was rolled back, cached or
\* committed in between, and the next address of the database is a new one.
IndexNeverBehind ==
    \A a \in DOMAIN kmDisk.next :
        /\ <<a, kmDisk.next[a]>> \notin kmDisk.addrs
        /\ a \in DOMAIN kmAcct => kmAcct[a].next >= kmDisk.next[a]

\* The wallet opens with the private passphrase it was unlocked with before: the
\* one in memory is the one of the database.
PassphraseKept == kmPriv = kmDisk.priv

\* While a goroutine holds the unlock to sign, the manager stays unlocked; the
\* account keys are in memory just while it is, which nextAddresses relies on.
HeldIsUnlocked == /\ kmHold => ~kmLocked
                  /\ \A a \in DOMAIN kmAcct \cap KmAccounts : kmAcct[a].priv = ~kmLocked

\* The right passphrase unlocks the wallet: whatever a reader, a dry run or a
\* rollback left in memory, only an account without a private key is in the way.
UnlockOpens == kmDerive \ KmWatchAccounts \subseteq DOMAIN kmAcct

\* Every address of an account with private keys can sign once the wallet is
\* unlocked: its object has the key, or gets it at the next Unlock.
KeysAvailable ==
    \A a \in DOMAIN kmAddrs : (a \in kmDisk.addrs /\ a[1] \in KmAccounts /\ ~kmTx.open) =>
        kmAddrs[a].enc \/ kmAddrs[a].queued

\* Memory and database of the address manager stay in step over commits,
\* rollbacks, locks and passphrase changes: no index is given out twice, the
\* passphrase on disk opens the wallet, and nobody signs while it is locked.
KeyManagerInvariant ==
    /\ KeyManagerTypeOK /\ IndexNeverBehind /\ PassphraseKept /\ HeldIsUnlocked
    /\ UnlockOpens
=============================================================================
