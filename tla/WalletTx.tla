------------------------------- MODULE WalletTx -------------------------------
(***************************************************************************)
(* The transaction store of an OrcaWallet wallet (wtxmgr) and how the      *)
(* wallet fills it from the node's notifications (wallet/chainntfns.go)    *)
(* and rolls it back (wallet/wallet.go, syncWithChain).                    *)
(*                                                                         *)
(* txStore has the buckets of the database.  An operation of the store is  *)
(* an operator from store to store; every notification is one database     *)
(* transaction, so its changes appear in one step or not at all.           *)
(*                                                                         *)
(* The node first notifies the relevant transactions of a block, one by    *)
(* one, then the block.  A block is an element of WtBlock; its key is its  *)
(* height and itself.                                                      *)
(***************************************************************************)
EXTENDS Integers, Sequences, SequencesExt, FiniteSets, FiniteSetsExt, Functions

CONSTANTS
    WtTx,               \* [Tx -> record]: ins, outs (sets of outpoints), coinbase
    WtValue,            \* the values of outpoints
    WtOwn,              \* the outpoints that pay to the wallet
    WtBlock,            \* the blocks: [name -> sequence of transactions]
    WtMempool,          \* transactions that may appear unconfirmed
    WtMaturity,         \* CoinbaseMaturity
    WtReorgDown,        \* whether the chain may change while the wallet is down
    WtMaxMoves          \* bound of the model: blocks notified

ASSUME WalletTxAssumption ==
    /\ \A op \in DOMAIN WtValue : WtValue[op] \in Nat \ {0}
    /\ WtOwn \subseteq DOMAIN WtValue /\ WtMempool \subseteq DOMAIN WtTx
    /\ WtMaturity \in Nat /\ WtReorgDown \in BOOLEAN

VARIABLES
    txStore,
    wtChain,            \* the blocks the wallet has synced to
    wtNext, wtSent,     \* the block that is being notified; how many of its transactions were
    wtMoves

wtVars == <<txStore, wtChain, wtNext, wtSent, wtMoves>>

NoBlock == "no block"
InsOf(t) == WtTx[t].ins
OutsOf(t) == WtTx[t].outs
SumValues(ops) == MapThenSumSet(LAMBDA op : WtValue[op], ops)
Without(f, S) == [x \in DOMAIN f \ S |-> f[x]]
With(f, S, v) == [x \in DOMAIN f \cup S |-> IF x \in S THEN v ELSE f[x]]

\* createBuckets
EmptyStore ==
    [blocks |-> <<>>,       \* by height: the block and its transactions
     records |-> {},        \* <<transaction, block key>>
     credits |-> <<>>,      \* <<outpoint, block key>>: spent or not
     debits |-> <<>>,       \* <<transaction, outpoint, block key>>: the key of the credit
     unspent |-> <<>>,      \* outpoint: the block key of its credit
     unmined |-> {}, unminedCredits |-> {},
     unminedInputs |-> <<>>,    \* outpoint: the transactions that spend it
     minedBalance |-> 0, locked |-> {}]

-----------------------------------------------------------------------------
(* Unconfirmed transactions *)

PutRawUnminedInput(db, op, t) ==
    [db EXCEPT !.unminedInputs = With(@, {op}, (IF op \in DOMAIN @ THEN @[op] ELSE <<>>) \o <<t>>)]

\* Mutation: the list of an outpoint goes with the first of its spenders.
DeleteRawUnminedInputAll(f, op, t) == Without(f, {op})

DeleteRawUnminedInput(f, op, t) ==
    IF op \notin DOMAIN f THEN f
    ELSE LET rest == SelectSeq(f[op], LAMBDA x : x # t)
         IN  IF rest = <<>> THEN Without(f, {op}) ELSE [f EXCEPT ![op] = rest]

DeleteUnminedInputs(db, t) ==
    [db EXCEPT !.unminedInputs = FoldSet(LAMBDA op, f : DeleteRawUnminedInput(f, op, t), @, InsOf(t))]

DeleteUnminedTx(db, t) ==
    [DeleteUnminedInputs(db, t) EXCEPT !.unminedCredits = @ \ OutsOf(t), !.unmined = @ \ {t}]

UnminedSpenders(db, ops) ==
    db.unmined \cap UNION {Range(db.unminedInputs[op]) : op \in ops \cap DOMAIN db.unminedInputs}

\* Mutation: the transactions that spend its outputs stay.
RemoveConflictOnly(db, t) == DeleteUnminedTx(db, t)

\* removeConflict, with the unconfirmed transactions that spend its outputs,
\* those that spend theirs and so on
RemoveConflict(db, t) ==
    LET gone[n \in 0..Cardinality(db.unmined)] ==
            IF n = 0 THEN {t}
            ELSE gone[n - 1] \cup UnminedSpenders(db, UNION {OutsOf(x) : x \in gone[n - 1]})
    IN  FoldSet(LAMBDA x, d : DeleteUnminedTx(d, x), db, gone[Cardinality(db.unmined)])

RemoveDoubleSpends(db, t) ==
    FoldSet(LAMBDA x, d : IF x \in d.unmined THEN RemoveConflict(d, x) ELSE d,
            db, UnminedSpenders(db, InsOf(t)) \ {t})

Recorded(db, t) == \E r \in db.records : r[1] = t

\* insertMemPoolTx; the caller learns whether the transaction was there.
InsertMemPoolTx(db, t) ==
    IF OutsOf(t) \cap DOMAIN db.unspent # {} THEN db
    ELSE FoldSet(LAMBDA op, d : PutRawUnminedInput(d, op, t),
                 [db EXCEPT !.unmined = @ \cup {t}], InsOf(t))

-----------------------------------------------------------------------------
(* Confirmed transactions *)

\* updateMinedBalance: debits for the wallet's outputs it spends, credits for
\* its outputs that were unconfirmed credits
UpdateMinedBalance(db, t, blk) ==
    LET spent == InsOf(t) \cap DOMAIN db.unspent
        new == OutsOf(t) \cap db.unminedCredits
        CreditOf(op) == <<op, db.unspent[op]>>
    IN  [db EXCEPT
            !.credits = With(With(@, {CreditOf(op) : op \in spent}, "spent"),
                             {<<op, blk>> : op \in new}, "unspent"),
            !.debits = [k \in DOMAIN @ \cup {<<t, op, blk>> : op \in spent} |->
                            IF k \in DOMAIN @ THEN @[k] ELSE CreditOf(k[2])],
            !.unspent = With(Without(@, spent), new, blk),
            !.minedBalance = (@ - SumValues(spent)) + SumValues(new)]

\* putBlockRecord or appendRawBlockRecord: the transactions of a height are
\* listed under the block that was first seen there.
AddToBlock(blocks, t, blk) ==
    IF blk[1] \in DOMAIN blocks THEN [blocks EXCEPT ![blk[1]].txs = Append(@, t)]
    ELSE With(blocks, {blk[1]}, [block |-> blk, txs |-> <<t>>])

InsertMinedTx(db, t, blk) ==
    LET d1 == UpdateMinedBalance([db EXCEPT !.blocks = AddToBlock(@, t, blk),
                                            !.records = @ \cup {<<t, blk>>}], t, blk)
        d2 == IF t \in d1.unmined THEN DeleteUnminedTx(d1, t) ELSE d1
    IN  [RemoveDoubleSpends(d2, t) EXCEPT !.locked = @ \ InsOf(t)]

\* addCredit of a confirmed and of an unconfirmed transaction
AddMinedCredits(db, t, blk) ==
    LET new == {op \in OutsOf(t) \cap WtOwn : <<op, blk>> \notin DOMAIN db.credits}
    IN  [db EXCEPT !.credits = With(@, {<<op, blk>> : op \in new}, "unspent"),
                   !.unspent = With(@, new, blk), !.minedBalance = @ + SumValues(new)]

AddUnminedCredits(db, t) ==
    IF Recorded(db, t) THEN db
    ELSE [db EXCEPT !.unminedCredits = @ \cup (OutsOf(t) \cap WtOwn)]

\* addRelevantTx of the wallet
AddRelevantTx(db, t, blk) ==
    IF blk = NoBlock
    THEN IF Recorded(db, t) \/ t \in db.unmined THEN db ELSE AddUnminedCredits(InsertMemPoolTx(db, t), t)
    ELSE IF <<t, blk>> \in db.records THEN db ELSE AddMinedCredits(InsertMinedTx(db, t, blk), t, blk)

-----------------------------------------------------------------------------
(* Rollback *)

\* Mutation: the output stays among the unspent ones.
DropCreditsOnly(db, ops, blk) == [db EXCEPT !.credits = Without(@, {<<op, blk>> : op \in ops})]

\* A credit of a transaction of a block that goes leaves the credits and, if it
\* is there, the unspent outputs.
DropCredits(db, ops, blk) ==
    LET unspent == ops \cap DOMAIN db.unspent
    IN  [db EXCEPT !.credits = Without(@, {<<op, blk>> : op \in ops}),
                   !.unspent = Without(@, unspent), !.minedBalance = @ - SumValues(unspent)]

\* Mutation: the outputs it spent are not given back.
UnspendInputsKeep(db, t, blk) ==
    [db EXCEPT !.debits = Without(@, {<<t, op, blk>> : op \in InsOf(t)})]

\* The debits of the transaction go; a credit that is still there is unspent again.
UnspendInputs(db, t, blk) ==
    LET keys == {<<t, op, blk>> : op \in InsOf(t)} \cap DOMAIN db.debits
        back == {k \in keys : db.debits[k] \in DOMAIN db.credits}
    IN  [db EXCEPT !.debits = Without(@, keys),
                   !.credits = With(@, {db.debits[k] : k \in back}, "unspent"),
                   !.unspent = [op \in DOMAIN @ \cup {k[2] : k \in back} |->
                                    IF op \in DOMAIN @ THEN @[op] ELSE db.debits[<<t, op, blk>>][2]],
                   !.minedBalance = @ + SumValues({k[2] : k \in back})]

RollbackTx(db, t, blk) ==
    LET own == {op \in OutsOf(t) : <<op, blk>> \in DOMAIN db.credits}
        d1 == [db EXCEPT !.records = @ \ {<<t, blk>>}]
        d2 == FoldSet(LAMBDA op, d : PutRawUnminedInput(d, op, t),
                      [d1 EXCEPT !.unmined = @ \cup {t}], InsOf(t))
        d3 == UnspendInputs(d2, t, blk)
    IN  IF WtTx[t].coinbase THEN DropCredits(d1, own, blk)
        ELSE DropCredits([d3 EXCEPT !.unminedCredits = @ \cup own], own, blk)

\* The transactions that Rollback to below height h goes through: the highest
\* block first, the transactions of a block in their order
RolledBack(db, h) ==
    LET hs == SetToSortSeq({x \in DOMAIN db.blocks : x >= h}, LAMBDA x, y : x > y)
    IN  FlattenSeq([i \in DOMAIN hs |->
            [j \in DOMAIN db.blocks[hs[i]].txs |-> <<db.blocks[hs[i]].txs[j], db.blocks[hs[i]].block>>]])

\* Rollback stops with an error, and with it the database transaction, at a
\* transaction that has no record under its block.
CanRollback(db, h) == \A i \in DOMAIN RolledBack(db, h) : RolledBack(db, h)[i] \in db.records

Rollback(db, h) ==
    LET rs == RolledBack(db, h)
        coinbase == {op \in UNION {OutsOf(rs[i][1]) : i \in {j \in DOMAIN rs : WtTx[rs[j][1]].coinbase}} :
                        \E k \in DOMAIN db.credits : k[1] = op}
        d1 == FoldLeft(LAMBDA d, r : RollbackTx(d, r[1], r[2]), db, rs)
        d2 == [d1 EXCEPT !.blocks = Without(@, {x \in DOMAIN @ : x >= h})]
    IN  IF ~CanRollback(db, h) THEN db
        ELSE FoldSet(LAMBDA t, d : IF t \in d.unmined THEN RemoveConflict(d, t) ELSE d,
                     d2, UnminedSpenders(d2, coinbase))

-----------------------------------------------------------------------------
(* Balance, computed from minedBalance by taking off what does not count *)

\* Mutation: a locked output that an unconfirmed transaction spends is taken off twice.
NotSpendableTwice(db) ==
    SumValues(DOMAIN db.unspent \cap db.locked)
    + SumValues(DOMAIN db.unspent \cap DOMAIN db.unminedInputs)

NotSpendable(db) ==
    SumValues(DOMAIN db.unspent \cap (db.locked \cup DOMAIN db.unminedInputs))

Confirmations(h, sync) == (sync - h) + 1

\* What the walk over the newest blocks takes off
NotMature(db, minConf, sync) ==
    LET stop == IF WtMaturity > minConf THEN WtMaturity ELSE minConf
        hs == {h \in DOMAIN db.blocks : h >= sync - stop}
        Off(h) == {op \in UNION {OutsOf(t) : t \in Range(db.blocks[h].txs)} :
                    /\ op \notin db.locked \cup DOMAIN db.unminedInputs
                    /\ <<op, db.blocks[h].block>> \in DOMAIN db.credits
                    /\ db.credits[<<op, db.blocks[h].block>>] = "unspent"
                    /\ \/ Confirmations(h, sync) < minConf
                       \/ /\ Confirmations(h, sync) < WtMaturity
                          /\ \E t \in Range(db.blocks[h].txs) : op \in OutsOf(t) /\ WtTx[t].coinbase}
    IN  SumValues(UNION {Off(h) : h \in hs})

Balance(db, minConf, sync) ==
    ((db.minedBalance - NotSpendable(db)) - NotMature(db, minConf, sync))
    + IF minConf > 0 THEN 0
      ELSE SumValues(db.unminedCredits \ (db.locked \cup DOMAIN db.unminedInputs))

-----------------------------------------------------------------------------
(* The wallet *)

WalletTxInit ==
    /\ txStore = EmptyStore /\ wtChain = <<>> /\ wtNext = NoBlock /\ wtSent = 0 /\ wtMoves = 0

Key(h, b) == <<h, b>>
ChainTxs == UNION {Range(WtBlock[wtChain[i]]) : i \in DOMAIN wtChain}
SpentBy(ts) == UNION {InsOf(t) : t \in ts}
MadeBy(ts) == UNION {OutsOf(t) : t \in ts}

\* A block may follow wtChain: its inputs are there and unspent.
Follows(b) ==
    LET ts == WtBlock[b]
        all == ChainTxs \cup Range(ts)
    IN  /\ b \notin Range(wtChain) /\ Range(ts) \cap ChainTxs = {}
        /\ SpentBy(Range(ts)) \subseteq MadeBy(all)
        /\ SpentBy(Range(ts)) \cap SpentBy(ChainTxs) = {}

\* The node has a next block.
NodeBlock(b) ==
    /\ wtNext = NoBlock /\ wtMoves < WtMaxMoves /\ Follows(b)
    /\ wtNext' = b /\ wtSent' = 0 /\ wtMoves' = wtMoves + 1
    /\ UNCHANGED <<txStore, wtChain>>

\* RelevantTx for the next transaction of the block
RelevantTx ==
    /\ wtNext # NoBlock /\ wtSent < Len(WtBlock[wtNext])
    /\ txStore' = AddRelevantTx(txStore, WtBlock[wtNext][wtSent + 1], Key(Len(wtChain) + 1, wtNext))
    /\ wtSent' = wtSent + 1
    /\ UNCHANGED <<wtChain, wtNext, wtMoves>>

\* BlockConnected: SetSyncedTo
BlockConnected ==
    /\ wtNext # NoBlock /\ wtSent = Len(WtBlock[wtNext])
    /\ wtChain' = Append(wtChain, wtNext) /\ wtNext' = NoBlock /\ wtSent' = 0
    /\ UNCHANGED <<txStore, wtMoves>>

\* disconnectBlock, or syncWithChain after a reorganization of several blocks;
\* an error leaves everything as it is.
Disconnected(h) ==
    /\ wtNext = NoBlock /\ CanRollback(txStore, h + 1)
    /\ txStore' = Rollback(txStore, h + 1)
    /\ wtChain' = SubSeq(wtChain, 1, h)
    /\ UNCHANGED <<wtNext, wtSent, wtMoves>>

\* An unconfirmed transaction whose inputs the chain and the unconfirmed ones have
UnminedTx(t) ==
    /\ wtNext = NoBlock /\ t \notin ChainTxs
    /\ InsOf(t) \subseteq MadeBy(ChainTxs \cup txStore.unmined) \ SpentBy(ChainTxs)
    /\ txStore' = AddRelevantTx(txStore, t, NoBlock)
    /\ UNCHANGED <<wtChain, wtNext, wtSent, wtMoves>>

\* RemoveUnminedTx, when the node refuses a transaction of the wallet
RemoveUnminedTx(t) ==
    /\ t \in txStore.unmined
    /\ txStore' = RemoveConflict(txStore, t)
    /\ UNCHANGED <<wtChain, wtNext, wtSent, wtMoves>>

\* LockOutput and UnlockOutput of a known output, or the end of the lease
LockOutput(op) ==
    /\ wtNext = NoBlock /\ op \in txStore.unminedCredits \cup DOMAIN txStore.unspent
    /\ txStore' = [txStore EXCEPT !.locked = IF op \in @ THEN @ \ {op} ELSE @ \cup {op}]
    /\ UNCHANGED <<wtChain, wtNext, wtSent, wtMoves>>

\* The wallet stops between two notifications.  When it runs again the node
\* notifies the block from its start or, when the chain has changed meanwhile,
\* another block: syncWithChain compares only the blocks up to SyncedTo.
Restart ==
    /\ wtNext # NoBlock /\ wtSent > 0 /\ wtSent' = 0
    /\ wtNext' \in IF WtReorgDown THEN {wtNext, NoBlock} ELSE {wtNext}
    /\ UNCHANGED <<txStore, wtChain, wtMoves>>

WalletTxNext ==
    \/ RelevantTx \/ BlockConnected \/ Restart
    \/ \E b \in DOMAIN WtBlock : NodeBlock(b)
    \/ \E h \in 0..(Len(wtChain) - 1) : Disconnected(h)
    \/ \E t \in WtMempool : UnminedTx(t) \/ RemoveUnminedTx(t)
    \/ \E op \in WtOwn : LockOutput(op)

WalletTxSpec == WalletTxInit /\ [][WalletTxNext]_wtVars

-----------------------------------------------------------------------------
(* Properties *)

\* The types of the store: keys refer to what exists.
WalletTxTypeOK ==
    /\ \A r \in txStore.records : r[1] \in DOMAIN WtTx /\ r[2][1] \in DOMAIN txStore.blocks
    /\ \A k \in DOMAIN txStore.credits : k[1] \in WtOwn /\ txStore.credits[k] \in {"spent", "unspent"}
    /\ \A k \in DOMAIN txStore.debits : txStore.debits[k] \in DOMAIN txStore.credits
    /\ \A op \in DOMAIN txStore.unspent : <<op, txStore.unspent[op]>> \in DOMAIN txStore.credits
    /\ txStore.unmined \subseteq DOMAIN WtTx /\ txStore.unminedCredits \subseteq WtOwn
    /\ txStore.minedBalance \in Nat

\* Between two blocks, however often transactions were seen unconfirmed, mined,
\* rolled back, replaced and mined elsewhere, the unspent outputs of the store
\* are exactly the wallet's outputs that are unspent on the chain, and
\* minedBalance is their sum.
LedgerMatchesChain ==
    wtNext = NoBlock =>
        /\ DOMAIN txStore.unspent = (WtOwn \cap MadeBy(ChainTxs)) \ SpentBy(ChainTxs)
        /\ txStore.minedBalance = SumValues(DOMAIN txStore.unspent)
        /\ {r[1] : r \in txStore.records} = ChainTxs

\* unminedInputs lists for every outpoint the unconfirmed transactions that
\* spend it, each once: an entry too many hides an output from UnspentOutputs
\* for good, one too few lets a double spend stay.
UnminedIndexed ==
    /\ \A op \in DOMAIN txStore.unminedInputs :
            /\ Cardinality(Range(txStore.unminedInputs[op])) = Len(txStore.unminedInputs[op])
            /\ txStore.unminedInputs[op] # <<>>
            /\ \A t \in Range(txStore.unminedInputs[op]) : t \in txStore.unmined /\ op \in InsOf(t)
    /\ \A t \in txStore.unmined : \A op \in InsOf(t) :
            op \in DOMAIN txStore.unminedInputs /\ t \in Range(txStore.unminedInputs[op])

\* An unconfirmed transaction can still be mined: it is not on the chain, no
\* transaction of the chain has spent its inputs, and they exist on the chain
\* or in unconfirmed transactions, so that nothing the wallet shows as
\* unconfirmed hangs on a coinbase or a double spend that is gone.
UnminedPossible ==
    wtNext = NoBlock => \A t \in txStore.unmined :
        /\ t \notin ChainTxs /\ InsOf(t) \cap SpentBy(ChainTxs) = {}
        /\ InsOf(t) \subseteq MadeBy(ChainTxs \cup txStore.unmined)
        /\ \A op \in txStore.unminedCredits : \E u \in txStore.unmined : op \in OutsOf(u)

\* Balance agrees with the sum over what UnspentOutputs lists, for every number
\* of confirmations: not leased, not spent by an unconfirmed transaction, with
\* enough confirmations and, from a coinbase, mature.
BalanceIsSpendable ==
    wtNext = NoBlock => \A minConf \in 0..2 :
        LET sync == Len(wtChain)
            Height(op) == txStore.unspent[op][1]
            Mature(op) == (\E t \in ChainTxs : op \in OutsOf(t) /\ WtTx[t].coinbase)
                            => Confirmations(Height(op), sync) >= WtMaturity
            free == (DOMAIN txStore.unspent \cup txStore.unminedCredits)
                    \ (txStore.locked \cup DOMAIN txStore.unminedInputs)
            counted == {op \in free : IF op \in DOMAIN txStore.unspent
                                       THEN Confirmations(Height(op), sync) >= minConf /\ Mature(op)
                                       ELSE minConf = 0}
        IN  Balance(txStore, minConf, sync) = SumValues(counted)

\* syncWithChain rolls back the blocks the wallet has seen that no longer exist:
\* at a height the wallet has synced to, the store has as mined only
\* transactions of the block of that height.
MinedIsOnChain ==
    \A r \in txStore.records : r[2][1] <= Len(wtChain) => wtChain[r[2][1]] = r[2][2]

\* After any blocks, rollbacks and unconfirmed transactions the buckets of the
\* wallet describe the same ledger, and the balance is what could be spent.
WalletTxInvariant ==
    /\ WalletTxTypeOK /\ LedgerMatchesChain /\ UnminedIndexed /\ UnminedPossible
    /\ BalanceIsSpendable
===============================================================================
