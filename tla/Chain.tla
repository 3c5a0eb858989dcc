-------------------------------- MODULE Chain --------------------------------
(***************************************************************************)
(* The block chain of an OrcaNet node (coin/OrcaNet/blockchain): the pool  *)
(* of orphans, the block index, the best chain, the set of unspent outputs *)
(* with its cache, and what the data base keeps of them.                   *)
(*                                                                         *)
(* Blocks come in through ProcessBlock, always on the goroutine of the     *)
(* sync manager, so there is one writer; at says where it is.  The chain   *)
(* lock is held everywhere but at the places in Unlocked: connectBlock,    *)
(* disconnectBlock and maybeAcceptBlock give it up to send a notification, *)
(* and then other goroutines may read outputs, which fills the cache.      *)
(* Every db.Update is atomic and is a step of its own, so that a crash may *)
(* fall between any two.                                                   *)
(*                                                                         *)
(* A block is an element of Block; its hash is itself.  An output that is  *)
(* spent in the block that creates it never reaches the set and is left    *)
(* out.  The entry of an output is the height of the block that made it,   *)
(* as the same transaction may be in two branches.                         *)
(***************************************************************************)
EXTENDS Integers, Sequences, SequencesExt, FiniteSets

CONSTANTS
    Block, Genesis,     \* the blocks that may arrive, and the first one
    Prev,               \* [Block -> Block], PrevBlock of the header
    Work,               \* [Block -> Nat], CalcWork of the header's bits
    Creates, Spends,    \* [Block -> SUBSET Out], outputs made and spent
    Out,                \* the transaction outputs
    Fault,              \* [Block -> {"none", "context", "connect"}], the rule it breaks
    Fast,               \* the blocks that come with BFFastAdd, up to a checkpoint
    MaxOrphans,         \* maxOrphanBlocks
    Others,             \* whether other goroutines look up outputs in a reorganization
    MaxCrashes          \* a bound of the model

ASSUME ChainAssumption ==
    /\ IsFiniteSet(Block) /\ Genesis \in Block /\ IsFiniteSet(Out)
    /\ Prev \in [Block -> Block] /\ Work \in [Block -> Nat]
    /\ Creates \in [Block -> SUBSET Out] /\ Spends \in [Block -> SUBSET Out]
    /\ Fault \in [Block -> {"none", "context", "connect"}]
    /\ \A b \in Fast : b \in Block /\ Fault[b] = "none"
    /\ MaxOrphans \in Nat \ {0} /\ MaxCrashes \in Nat
    /\ Others \in BOOLEAN

Nil == "nil"        \* no block
None == -1          \* no entry: the output does not exist or is spent
NotCached == [kind |-> "absent"]

VARIABLES
    dBlocks,    \* disk: the blocks whose data is stored
    dIndex,     \* disk: the block index, a status for each block in it
    dBest,      \* disk: the best chain state
    dUtxo,      \* disk: the utxo set
    dCons,      \* disk: the block that the utxo set is said to be consistent with
    dJournal,   \* disk: the spend journal, the entries that each block spent
    index,      \* the block index in memory
    tip,        \* the tip of bestChain
    cache,      \* the utxo cache
    lastFlush,  \* lastFlushHash of the cache
    orphans,    \* the orphan pool in the order of arrival
    oldest,     \* oldestOrphan
    at,         \* where the writer is
    cur,        \* the block that the writer handles
    todo,       \* the hashes that processOrphans has still to handle
    detach, attach, \* the blocks a reorganization has still to move
    view,       \* the UtxoViewpoint of a reorganization
    crashes     \* how often the node crashed

disk == <<dBlocks, dIndex, dBest, dUtxo, dCons, dJournal>>
pool == <<orphans, oldest>>
plan == <<detach, attach, view>>
chainVars == <<disk, index, tip, cache, lastFlush, pool, at, cur, todo, plan, crashes>>

-----------------------------------------------------------------------------
(* Blocks, branches and the outputs they leave *)

\* The blocks from genesis to b, in order of their height.
Branch[b \in Block] == IF b = Genesis THEN <<b>> ELSE Append(Branch[Prev[b]], b)

WorkSum[b \in Block] == IF b = Genesis THEN Work[b] ELSE WorkSum[Prev[b]] + Work[b]

Height(b) == Len(Branch[b]) - 1
Ancestors(b) == Range(Branch[b])

\* The last block that the branches of v and n have in common.
FindFork(v, n) ==
    Last(SelectSeq(Branch[n], LAMBDA b : b \in Ancestors(v)))

\* The blocks of n's branch after the fork f.
After(f, n) == SubSeq(Branch[n], Height(f) + 2, Len(Branch[n]))

\* A set of entries after the transactions of b.
Apply(utxo, b) ==
    [o \in Out |-> IF o \in Creates[b] THEN Height(b)
                   ELSE IF o \in Spends[b] THEN None ELSE utxo[o]]

NoUtxo == [o \in Out |-> None]

\* The reference: the outputs that are unspent at the end of b's branch.
Ledger[b \in Block] == IF b = Genesis THEN NoUtxo ELSE Apply(Ledger[Prev[b]], b)

Status == SUBSET {"valid", "failed", "ancestor"}
KnownInvalid(ix, b) == ix[b] \cap {"failed", "ancestor"} # {}
KnownValid(ix, b) == "valid" \in ix[b]
SetStatusFlags(ix, S, flag) == [b \in DOMAIN ix |-> IF b \in S THEN ix[b] \cup {flag} ELSE ix[b]]

-----------------------------------------------------------------------------
(* The cache of unspent outputs *)

\* kind "entry": an entry, with its height; "miss": a nil entry
Entry(h, spent, fresh, modified) ==
    [kind |-> "entry", h |-> h, spent |-> spent, fresh |-> fresh, modified |-> modified]
Cached == [kind : {"absent", "miss"}]
          \cup [kind : {"entry"}, h : Nat, spent : BOOLEAN, fresh : BOOLEAN, modified : BOOLEAN]
Emptied == [o \in Out |-> NotCached]

\* fetchEntries: what is not cached is loaded, a missing output as a nil entry.
FetchEntries(S) ==
    [o \in Out |->
        IF o \in S /\ cache[o] = NotCached
        THEN IF dUtxo[o] = None THEN [kind |-> "miss"] ELSE Entry(dUtxo[o], FALSE, FALSE, FALSE)
        ELSE cache[o]]

Unspent(c, o) == c[o].kind = "entry" /\ ~c[o].spent

\* What the cache, with the data base under it, says of an output.
Lookup(c, o) ==
    CASE c[o] = NotCached -> dUtxo[o]
      [] Unspent(c, o) -> c[o].h
      [] OTHER -> None

\* connectTransactions needs an entry for every input, spent or not.
HasInputs(b) == \A o \in Spends[b] : FetchEntries(Spends[b])[o].kind = "entry"

\* Mutation: the journal gets the height of the spending block.
SpentTxOutsAtSpender(c, b) == [o \in Out |-> IF o \in Spends[b] THEN Height(b) ELSE None]

\* The stxos of a block for the spend journal, from the entries of its inputs
SpentTxOuts(c, b) == [o \in Out |-> IF o \in Spends[b] THEN c[o].h ELSE None]

\* Mutation: a spent entry is forgotten although it is on disk.
ConnectTransactionsForget(b) ==
    [o \in Out |-> IF o \in Creates[b] THEN Entry(Height(b), FALSE, TRUE, TRUE)
                   ELSE IF o \in Spends[b] THEN NotCached ELSE FetchEntries(Spends[b])[o]]

ConnectTransactions(b) ==
    LET c == FetchEntries(Spends[b])
    IN  [o \in Out |->
            CASE o \in Creates[b] -> Entry(Height(b), FALSE, TRUE, TRUE)
              [] o \in Spends[b] -> IF c[o].fresh THEN NotCached
                                    ELSE [c[o] EXCEPT !.spent = TRUE, !.modified = TRUE]
              [] OTHER -> c[o]]

\* writeCache: nil and spent entries are deleted, modified ones are put.
WriteCache(c) ==
    [o \in Out |-> CASE c[o] = NotCached -> dUtxo[o]
                     [] ~Unspent(c, o) -> None
                     [] c[o].modified -> c[o].h
                     [] OTHER -> dUtxo[o]]

\* flush of the cache c with the best state of b
Flush(c, b) ==
    /\ dUtxo' = WriteCache(c)
    /\ dCons' = b
    /\ cache' = Emptied
    /\ lastFlush' = b

\* FlushIfNeeded: nothing to do if it was just done, else it depends on memory.
FlushIfNeeded(c, b) ==
    \/ cache' = c /\ UNCHANGED <<dUtxo, dCons, lastFlush>>
    \/ b # lastFlush /\ Flush(c, b)

Utxos == <<dUtxo, dCons, cache, lastFlush>>

-----------------------------------------------------------------------------
(* The viewpoint of a reorganization, which is written to the data base    *)
(* past the cache.  Its entries have the form of the cache's.              *)

\* fetchInputUtxos with a nil cache
FetchInputUtxos(v, b) ==
    [o \in Out |->
        IF o \in Spends[b] /\ v[o] = NotCached
        THEN IF dUtxo[o] = None THEN [kind |-> "miss"] ELSE Entry(dUtxo[o], FALSE, FALSE, FALSE)
        ELSE v[o]]

ViewConnect(v, b) ==
    [o \in Out |-> CASE o \in Creates[b] -> Entry(Height(b), FALSE, TRUE, TRUE)
                     [] o \in Spends[b] -> [v[o] EXCEPT !.spent = TRUE, !.modified = TRUE]
                     [] OTHER -> v[o]]

\* Mutation: the outputs that the block spent do not come back.
DisconnectTransactionsLose(v, b) ==
    [o \in Out |-> IF o \in Creates[b] THEN Entry(Height(b), TRUE, FALSE, TRUE) ELSE v[o]]

\* Created outputs become spent, spent ones come back from the journal.
DisconnectTransactions(v, b) ==
    [o \in Out |-> CASE o \in Creates[b] -> Entry(Height(b), TRUE, FALSE, TRUE)
                     [] o \in Spends[b] -> Entry(dJournal[b][o], FALSE, FALSE, TRUE)
                     [] OTHER -> v[o]]

PutUtxoView(v) ==
    [o \in Out |-> IF v[o].kind = "entry" /\ v[o].modified
                   THEN IF v[o].spent THEN None ELSE v[o].h
                   ELSE dUtxo[o]]

\* The flag is toggled, not cleared.
Commit(v) ==
    [o \in Out |-> IF v[o].kind # "entry" \/ (v[o].modified /\ v[o].spent) THEN NotCached
                   ELSE [v[o] EXCEPT !.modified = ~@]]

-----------------------------------------------------------------------------
(* Start *)

Fresh ==
    /\ orphans = <<>> /\ oldest = Nil
    /\ cur = Nil /\ todo = <<>>
    /\ detach = <<>> /\ attach = <<>> /\ view = Emptied

\* createChainState, and InitConsistentState on a data base without a status
ChainInit ==
    /\ dBlocks = {Genesis}
    /\ dIndex = [b \in {Genesis} |-> {"valid"}]
    /\ dBest = Genesis /\ dUtxo = NoUtxo /\ dCons = Genesis
    /\ dJournal = [b \in {Genesis} |-> NoUtxo]
    /\ index = dIndex /\ tip = Genesis
    /\ cache = Emptied /\ lastFlush = Genesis
    /\ Fresh
    /\ at = "idle" /\ crashes = 0

-----------------------------------------------------------------------------
(* ProcessBlock: duplicates, orphans, acceptance *)

Unlocked == at \in {"idle", "connected", "detached", "attached", "accepted"}

ChainHaveBlock(b) == b \in DOMAIN index \/ b \in Range(orphans)

\* addOrphanBlock.  Orphans expire in the order of their arrival; n of them
\* have.  oldestOrphan may point to one that has left the pool.
AddOrphanBlock(b, n) ==
    LET kept == SubSeq(orphans, n + 1, Len(orphans))
        old == IF oldest = Nil /\ kept # <<>> THEN kept[1] ELSE oldest
        full == Len(kept) + 1 > MaxOrphans
    IN  /\ orphans' = Append(IF full THEN SelectSeq(kept, LAMBDA o : o # old) ELSE kept, b)
        /\ oldest' = IF full THEN Nil ELSE old

ProcessBlock(b) ==
    /\ at = "idle" /\ ~ChainHaveBlock(b)
    /\ \/ /\ Prev[b] \notin DOMAIN index
          /\ \E n \in 0..Len(orphans) : AddOrphanBlock(b, n)
          /\ UNCHANGED <<at, cur>>
       \/ /\ Prev[b] \in DOMAIN index
          /\ at' = "store" /\ cur' = b
          /\ UNCHANGED pool
    /\ UNCHANGED <<disk, index, tip, cache, lastFlush, todo, plan, crashes>>

\* ProcessBlock returns an error; processOrphans gives up.
Return ==
    at' = "idle" /\ todo' = <<>> /\ cur' = Nil

\* maybeAcceptBlock up to the storing of the block's data
StoreBlock ==
    /\ at = "store"
    /\ IF KnownInvalid(index, Prev[cur]) \/ Fault[cur] = "context"
       THEN Return /\ UNCHANGED dBlocks
       ELSE dBlocks' = dBlocks \cup {cur} /\ at' = "index" /\ UNCHANGED <<cur, todo>>
    /\ UNCHANGED <<dIndex, dBest, dUtxo, dCons, dJournal, index, tip, cache, lastFlush, pool, plan, crashes>>

\* AddNode and flushToDB
AddNode ==
    /\ at = "index"
    /\ index' = [b \in DOMAIN index \cup {cur} |-> IF b = cur THEN {} ELSE index[b]]
    /\ dIndex' = index'
    /\ at' = "decide"
    /\ UNCHANGED <<dBlocks, dBest, dUtxo, dCons, dJournal, tip, cache, lastFlush, pool, cur, todo,
                   plan, crashes>>

\* Mutation: the scripts are not run.
CheckInputsOnly(b, utxo) == \A o \in Spends[b] : utxo[o] # None

\* checkConnectBlock: the rule the block breaks is its scripts or its inputs.
CheckConnectBlock(b, utxo) ==
    Fault[b] # "connect" /\ \A o \in Spends[b] : utxo[o] # None

\* connectBestChain for a block that extends the tip
CheckExtension ==
    LET c == FetchEntries(Spends[cur])
    IN  /\ Prev[cur] = tip
        /\ IF cur \in Fast
           THEN /\ at' = "connect"
                /\ UNCHANGED <<dIndex, index, cache, cur, todo>>
           ELSE LET ok == CheckConnectBlock(cur, [o \in Out |-> Lookup(c, o)])
                IN  /\ cache' = c
                    /\ index' = SetStatusFlags(index, {cur}, IF ok THEN "valid" ELSE "failed")
                    /\ dIndex' = index'
                    /\ IF ok THEN at' = "connect" /\ UNCHANGED <<cur, todo>> ELSE Return
        /\ UNCHANGED plan

\* Mutation: the work of the block is compared instead of its branch's.
ExtendSideChainByBlock ==
    /\ Prev[cur] # tip
    /\ Work[cur] <= WorkSum[tip]
    /\ at' = "accepted"
    /\ UNCHANGED <<dIndex, index, cache, cur, todo, plan>>

ExtendSideChain ==
    /\ Prev[cur] # tip
    /\ WorkSum[cur] <= WorkSum[tip]
    /\ at' = "accepted"
    /\ UNCHANGED <<dIndex, index, cache, cur, todo, plan>>

\* getReorganizeNodes: an invalid ancestor makes both lists empty, and then
\* reorganizeChain has nothing to do and no error to return.
Reorganize ==
    LET fork == FindFork(tip, cur)
        side == After(fork, cur)
        bad == {i \in DOMAIN side : KnownInvalid(index, side[i])}
    IN  /\ Prev[cur] # tip
        /\ WorkSum[cur] > WorkSum[tip]
        /\ IF bad # {}
           THEN /\ index' = SetStatusFlags(index, {side[i] : i \in {j \in DOMAIN side :
                                                       \A k \in bad : j > k}}, "ancestor")
                /\ dIndex' = index'
                /\ at' = "accepted"
                /\ UNCHANGED plan
           ELSE /\ at' = "reorg"
                /\ detach' = Reverse(After(fork, tip))
                /\ attach' = side
                /\ UNCHANGED <<dIndex, index, view>>
        /\ UNCHANGED <<cache, cur, todo>>

ConnectBestChain ==
    /\ at = "decide"
    /\ CheckExtension \/ ExtendSideChain \/ Reorganize
    /\ UNCHANGED <<dBlocks, dBest, dUtxo, dCons, dJournal, tip, lastFlush, pool, crashes>>

-----------------------------------------------------------------------------
(* Connecting a block to the tip, through the cache *)

\* The transactions go to the cache, then connectBlock updates the data base,
\* the tip and, with the lock given up, the subscribers.
ConnectTip ==
    /\ at = "connect"
    /\ IF HasInputs(cur)
       THEN /\ cache' = ConnectTransactions(cur)
            /\ dBest' = cur /\ tip' = cur
            /\ dJournal' = [b \in DOMAIN dJournal \cup {cur} |->
                              IF b = cur THEN SpentTxOuts(FetchEntries(Spends[cur]), cur)
                              ELSE dJournal[b]]
            /\ at' = "connected"
            /\ UNCHANGED <<cur, todo>>
       ELSE /\ Return
            /\ cache' = FetchEntries(Spends[cur])
            /\ UNCHANGED <<dBest, tip, dJournal>>
    /\ UNCHANGED <<dBlocks, dIndex, dUtxo, dCons, index, lastFlush, pool, plan, crashes>>

\* Mutation: the cache is flushed with the best state of the parent.
FlushConnectedLate ==
    /\ at = "connected"
    /\ FlushIfNeeded(cache, Prev[cur])
    /\ at' = "mark"
    /\ UNCHANGED <<dBlocks, dIndex, dBest, dJournal, index, tip, pool, cur, todo, plan, crashes>>

\* The end of connectBlock
FlushConnected ==
    /\ at = "connected"
    /\ FlushIfNeeded(cache, cur)
    /\ at' = "mark"
    /\ UNCHANGED <<dBlocks, dIndex, dBest, dJournal, index, tip, pool, cur, todo, plan, crashes>>

\* The end of connectBestChain: a block that was not checked becomes valid.
MarkValid ==
    /\ at = "mark"
    /\ index' = SetStatusFlags(index, {cur}, "valid")
    /\ dIndex' = index'
    /\ at' = "accepted"
    /\ UNCHANGED <<dBlocks, dBest, dUtxo, dCons, dJournal, tip, cache, lastFlush, pool, cur, todo,
                   plan, crashes>>

-----------------------------------------------------------------------------
(* reorganizeChain *)

\* Mutation: a reorganization does not flush the cache first.
NoFlushBefore ==
    /\ at = "reorg"
    /\ at' = "check"
    /\ UNCHANGED <<disk, cache, lastFlush, index, tip, pool, cur, todo, plan, crashes>>

FlushBefore ==
    /\ at = "reorg"
    /\ Flush(cache, tip)
    /\ at' = "check"
    /\ UNCHANGED <<dBlocks, dIndex, dBest, dJournal, index, tip, pool, cur, todo, plan, crashes>>

\* The outputs at the fork point, by the journals of the blocks to detach.
Undone[k \in Nat] ==
    IF k = 0 THEN dUtxo
    ELSE [o \in Out |-> CASE o \in Creates[detach[k]] -> None
                          [] o \in Spends[detach[k]] -> dJournal[detach[k]][o]
                          [] OTHER -> Undone[k - 1][o]]

Redone[k \in Nat] == IF k = 0 THEN Undone[Len(detach)] ELSE Apply(Redone[k - 1], attach[k])

\* Every block to attach is checked before anything is changed.  The first
\* that breaks a rule is marked, and so are the ones after it.
CheckAttach ==
    LET known == {k \in DOMAIN attach : KnownValid(index, attach[k])}
        bad == {k \in DOMAIN attach \ known : ~CheckConnectBlock(attach[k], Redone[k - 1])}
        viewed == UNION {Creates[detach[i]] \cup Spends[detach[i]] : i \in DOMAIN detach}
        loaded == UNION {Spends[attach[i]] \cup Creates[attach[i]] : i \in DOMAIN attach \ known}
        first == CHOOSE k \in bad : \A j \in bad : k <= j
        passed == {attach[k] : k \in {j \in DOMAIN attach \ known : bad = {} \/ j < first}}
        checked == SetStatusFlags(index, passed, "valid")
    IN  /\ at = "check"
        /\ cache' = FetchEntries(loaded \ viewed)
        /\ IF bad = {}
           THEN /\ index' = checked
                /\ at' = IF detach = <<>> THEN "prepare" ELSE "detach"
                /\ view' = Emptied
                /\ UNCHANGED <<dIndex, cur, todo, detach, attach>>
           ELSE /\ index' = SetStatusFlags(SetStatusFlags(checked, {attach[first]}, "failed"),
                                {attach[k] : k \in (first + 1)..Len(attach)}, "ancestor")
                /\ dIndex' = index'
                /\ detach' = <<>> /\ attach' = <<>>
                /\ Return /\ UNCHANGED view
        /\ UNCHANGED <<dBlocks, dBest, dUtxo, dCons, dJournal, tip, lastFlush, pool, crashes>>

\* disconnectBlock.  The lock is given up at its end, for the notification.
DisconnectBlock ==
    LET b == Head(detach)
        v == DisconnectTransactions(FetchInputUtxos(view, b), b)
    IN  /\ at = "detach" /\ b = tip
        /\ dIndex' = index
        /\ dBest' = Prev[b] /\ tip' = Prev[b]
        /\ dUtxo' = PutUtxoView(v)
        /\ dJournal' = [x \in DOMAIN dJournal \ {b} |-> dJournal[x]]
        /\ view' = Commit(v)
        /\ at' = "detached"
        /\ UNCHANGED <<dBlocks, dCons, index, cache, lastFlush, pool, cur, todo, detach, attach, crashes>>

\* On the notification the sync manager offers the transactions of the block
\* to the memory pool, which looks up their inputs and outputs.
Detached ==
    LET b == Head(detach)
    IN  /\ at = "detached"
        /\ cache' = FetchEntries(Creates[b] \cup Spends[b])
        /\ detach' = Tail(detach)
        /\ at' = IF Len(detach) = 1 THEN "prepare" ELSE "detach"
        /\ UNCHANGED <<disk, index, tip, lastFlush, pool, cur, todo, attach, view, crashes>>

\* connectBlock with a view: the cache is flushed with the state of the block
\* that is about to be connected.
FlushForView ==
    LET b == Head(attach)
        v == FetchInputUtxos(view, b)
    IN  /\ at = "prepare"
        /\ IF \A o \in Spends[b] : v[o].kind = "entry"
           THEN /\ view' = ViewConnect(v, b)
                /\ Flush(cache, b)
                /\ at' = "attach"
                /\ UNCHANGED <<cur, todo, detach, attach>>
           ELSE /\ detach' = <<>> /\ attach' = <<>>
                /\ Return /\ UNCHANGED <<Utxos, view>>
        /\ dIndex' = index
        /\ UNCHANGED <<dBlocks, dBest, dJournal, index, tip, pool, crashes>>

ConnectBlock ==
    LET b == Head(attach)
    IN  /\ at = "attach" /\ Prev[b] = tip
        /\ dBest' = b /\ tip' = b
        /\ dUtxo' = PutUtxoView(view)
        /\ dJournal' = [x \in DOMAIN dJournal \cup {b} |->
                          IF x = b THEN SpentTxOuts(view, b) ELSE dJournal[x]]
        /\ view' = Commit(view)
        /\ at' = "attached"
        /\ UNCHANGED <<dBlocks, dIndex, dCons, index, cache, lastFlush, pool, cur, todo, detach,
                       attach, crashes>>

\* The cache was flushed with this best state: FlushIfNeeded does nothing.
Attached ==
    /\ at = "attached"
    /\ attach' = Tail(attach)
    /\ at' = IF Len(attach) = 1 THEN "settle" ELSE "prepare"
    /\ UNCHANGED <<disk, index, tip, cache, lastFlush, pool, cur, todo, detach, view, crashes>>

\* The last flush of reorganizeChain and of the index
FlushAfter ==
    /\ at = "settle"
    /\ Flush(cache, tip)
    /\ dIndex' = index
    /\ view' = Emptied
    /\ at' = "accepted"
    /\ UNCHANGED <<dBlocks, dBest, dJournal, index, tip, pool, cur, todo, detach, attach, crashes>>

-----------------------------------------------------------------------------
(* After the notification NTBlockAccepted *)

\* Mutation: an accepted block leaves the orphans alone.
ProcessNoOrphans ==
    /\ at = "accepted"
    /\ at' = "idle" /\ todo' = <<>> /\ cur' = Nil
    /\ UNCHANGED <<disk, index, tip, cache, lastFlush, pool, plan, crashes>>

\* processOrphans: the blocks that wait for an accepted one, in the order of
\* their arrival, and those that wait for them.
ProcessOrphans ==
    LET hashes == Append(todo, cur)
        ready == [i \in DOMAIN hashes |-> SelectSeq(orphans, LAMBDA o : Prev[o] = hashes[i])]
        some == {i \in DOMAIN hashes : ready[i] # <<>>}
        first == CHOOSE i \in some : \A j \in some : i <= j
        next == ready[first][1]
    IN  /\ at = "accepted"
        /\ IF some = {}
           THEN /\ at' = "idle" /\ todo' = <<>> /\ cur' = Nil
                /\ UNCHANGED pool
           ELSE /\ at' = "store" /\ cur' = next
                /\ todo' = SubSeq(hashes, first, Len(hashes))
                /\ orphans' = SelectSeq(orphans, LAMBDA o : o # next)
                /\ UNCHANGED oldest
        /\ UNCHANGED <<disk, index, tip, cache, lastFlush, plan, crashes>>

-----------------------------------------------------------------------------
(* Other goroutines, shutdown and restart *)

\* FetchUtxoView and FetchUtxoEntry, under the read lock
FetchUtxo(o) ==
    /\ Unlocked /\ (at = "detached" => Others)
    /\ cache[o] = NotCached
    /\ cache' = FetchEntries({o})
    /\ UNCHANGED <<disk, index, tip, lastFlush, pool, at, cur, todo, plan, crashes>>

\* FlushUtxoCache: now and then by the sync manager, and when it stops
FlushUtxoCache ==
    /\ at = "idle"
    /\ Flush(cache, tip)
    /\ UNCHANGED <<dBlocks, dIndex, dBest, dJournal, index, tip, pool, at, cur, todo, plan, crashes>>

\* The process ends, in any state; memory is lost.
Crash ==
    /\ crashes < MaxCrashes /\ at \notin {"down", "stuck"}
    /\ crashes' = crashes + 1
    /\ at' = "down"
    /\ index' = [b \in {Genesis} |-> {}] /\ tip' = Genesis /\ cache' = Emptied /\ lastFlush' = Nil
    /\ orphans' = <<>> /\ oldest' = Nil /\ cur' = Nil /\ todo' = <<>>
    /\ detach' = <<>> /\ attach' = <<>> /\ view' = Emptied
    /\ UNCHANGED disk

\* initChainState, and the start of InitConsistentState
Restart ==
    /\ at = "down"
    /\ index' = SetStatusFlags(dIndex, Ancestors(dBest), "valid")
    /\ dIndex' = index'
    /\ tip' = dBest
    /\ attach' = After(FindFork(dBest, dCons), dBest)
    /\ at' = "replay"
    /\ UNCHANGED <<dBlocks, dBest, dUtxo, dCons, dJournal, cache, lastFlush, pool, cur, todo,
                   detach, view, crashes>>

\* The loop of InitConsistentState, one block at a time.  Without an input of
\* the block the node does not start.
Replay ==
    /\ at = "replay" /\ attach # <<>>
    /\ LET b == Head(attach)
       IN  IF b \in dBlocks /\ HasInputs(b)
           THEN /\ FlushIfNeeded(ConnectTransactions(b), b)
                /\ attach' = Tail(attach) /\ UNCHANGED at
           ELSE at' = "stuck" /\ UNCHANGED <<Utxos, attach>>
    /\ UNCHANGED <<dBlocks, dIndex, dBest, dJournal, index, tip, pool, cur, todo, detach, view, crashes>>

\* Mutation: the last flush hash keeps its default value.
StartedUnset ==
    /\ at = "replay" /\ attach = <<>>
    /\ at' = "idle"
    /\ UNCHANGED <<disk, index, tip, cache, lastFlush, pool, cur, todo, plan, crashes>>

Started ==
    /\ at = "replay" /\ attach = <<>>
    /\ lastFlush' = tip
    /\ at' = "idle"
    /\ UNCHANGED <<disk, index, tip, cache, pool, cur, todo, plan, crashes>>

Writer ==
    \/ StoreBlock \/ AddNode \/ ConnectBestChain
    \/ ConnectTip \/ FlushConnected \/ MarkValid
    \/ FlushBefore \/ CheckAttach \/ DisconnectBlock \/ Detached
    \/ FlushForView \/ ConnectBlock \/ Attached \/ FlushAfter
    \/ ProcessOrphans \/ Replay \/ Started

ChainNext ==
    \/ \E b \in Block \ {Genesis} : ProcessBlock(b)
    \/ Writer
    \/ \E o \in Out : FetchUtxo(o)
    \/ FlushUtxoCache
    \/ Crash \/ Restart

ChainSpec == ChainInit /\ [][ChainNext]_chainVars

-----------------------------------------------------------------------------
(* Properties *)

Places == {"idle", "store", "index", "decide", "connect", "connected", "mark", "reorg", "check",
           "detach", "detached", "prepare", "attach", "attached", "settle", "accepted", "down",
           "replay", "stuck"}

\* The types of the variables of the chain and of the data base; only before
\* the node is up is the hash of the last flush not known.
ChainTypeOK ==
    /\ dBlocks \subseteq Block
    /\ DOMAIN dIndex \subseteq Block /\ \A b \in DOMAIN dIndex : dIndex[b] \in Status
    /\ DOMAIN index \subseteq Block /\ \A b \in DOMAIN index : index[b] \in Status
    /\ dBest \in Block /\ dCons \in Block /\ tip \in Block
    /\ lastFlush \in Block \/ (lastFlush = Nil /\ at \in {"down", "replay", "stuck"})
    /\ dUtxo \in [Out -> Nat \cup {None}]
    /\ DOMAIN dJournal \subseteq Block
    /\ \A o \in Out : cache[o] \in Cached /\ view[o] \in Cached
    /\ \A i \in DOMAIN orphans : orphans[i] \in Block
    /\ oldest \in Block \cup {Nil} /\ cur \in Block \cup {Nil}
    /\ todo \in Seq(Block) /\ detach \in Seq(Block) /\ attach \in Seq(Block)
    /\ at \in Places /\ crashes \in 0..MaxCrashes

\* Whenever the process may die, the unspent outputs on disk are those at the
\* fork of the best block and of the block named by the consistency status, so
\* that InitConsistentState, which only replays blocks from there, rebuilds the
\* set of the tip.
DiskRecoverable == dUtxo = Ledger[FindFork(dBest, dCons)]

\* When ProcessBlock has returned, the cache over the data base is the set of
\* unspent outputs of the best chain, whatever was flushed, reorganized, read
\* by others or replayed after a crash.
UtxoMatchesTip == at = "idle" => \A o \in Out : Lookup(cache, o) = Ledger[tip][o]

\* The node starts again after every crash: no block to replay is missing an
\* input or its data.
StartsAgain == at # "stuck"

\* No block that breaks a rule is ever in the best chain, in memory or on disk,
\* and no block of it is marked invalid.
BestIsValid ==
    /\ \A b \in Ancestors(dBest) : Fault[b] = "none"
    /\ at # "down" => \A b \in Ancestors(tip) : ~KnownInvalid(index, b)

\* A branch whose blocks are all known and all keep the rules has no more work
\* than the best chain once ProcessBlock has returned, except after a crash,
\* when the node takes the better branch only with the next block on it.
MostWork ==
    at = "idle" /\ crashes = 0 =>
        \A b \in DOMAIN index :
            (\A a \in Ancestors(b) : Fault[a] = "none" /\ Spends[a] \subseteq
                {o \in Out : a # Genesis /\ Ledger[Prev[a]][o] # None})
            => WorkSum[b] <= WorkSum[tip]

\* The journal has what every block of the best chain spent, as it was.
JournalComplete ==
    \A b \in Ancestors(dBest) \ {Genesis} :
        /\ b \in DOMAIN dJournal
        /\ \A o \in Spends[b] : dJournal[b][o] = Ledger[Prev[b]][o]

\* Blocks whose parent arrives do not stay in the pool of orphans, unless a
\* block that was handled before them broke a rule.
OrphansLeave ==
    at = "idle" /\ (\A b \in Block : Fault[b] = "none" \/ b \notin dBlocks) =>
        \A i \in DOMAIN orphans : Prev[orphans[i]] \notin DOMAIN index

-----------------------------------------------------------------------------
(* The abstract specification *)

\* The outputs that InitConsistentState would rebuild, should the process die.
Recovered ==
    LET blocks == After(FindFork(dBest, dCons), dBest)
        utxo[i \in 0..Len(blocks)] == IF i = 0 THEN dUtxo ELSE Apply(utxo[i - 1], blocks[i])
    IN  utxo[Len(blocks)]

Durable == INSTANCE DurableChain WITH
    best <- dBest, coins <- LET utxo == Recovered IN {o \in Out : utxo[o] # None}

\* Although the outputs are written long after the blocks, and in any number
\* of transactions, the data base goes from one best chain with its outputs to
\* the next, and a crash changes nothing.
DurableStore == Durable!DurableSpec

\* The chain, its output cache and its database agree at every step of a
\* reorganization, a flush or a crash: the cache is the output set of the tip,
\* the disk can be rolled forward to it, the tip is the valid block with the
\* most work, and the journal can undo every block.
ChainInvariant ==
    /\ ChainTypeOK /\ DiskRecoverable /\ UtxoMatchesTip /\ StartsAgain /\ BestIsValid
    /\ MostWork /\ JournalComplete /\ OrphansLeave
=============================================================================
