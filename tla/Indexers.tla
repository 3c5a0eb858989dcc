------------------------------ MODULE Indexers ------------------------------
(***************************************************************************)
(* The optional indexes of the node (blockchain/indexers): the             *)
(* transaction index, the address index, which stores the block ids of the *)
(* transaction index, and the committed-filter index.  While the node runs *)
(* they change in the database transaction that connects or disconnects a  *)
(* block.  Between two starts the operator may enable, disable or drop     *)
(* them, so a start finishes interrupted drops, creates what is missing,   *)
(* rolls back what left the main chain and indexes what is missing, each   *)
(* step in a transaction of its own.                                       *)
(*                                                                         *)
(* A process that is killed keeps what it committed; losing the last       *)
(* commits as well is being killed earlier (module Ffldb).                 *)
(***************************************************************************)
EXTENDS Integers, Sequences, FiniteSets, SequencesExt, FiniteSetsExt, Functions

CONSTANTS
    IxParent,    \* the block tree: block -> parent, "zero" for the genesis block
    IxSpends,    \* the blocks with a transaction that spends an output
    IxGenesis,   \* the genesis block
    IxIncrement, \* the stride of TxIndex.Init (100000)
    IxBatch,     \* rows a transaction of dropIndex deletes (maxDeletions)
    IxMaxMoves,  \* bound: blocks connected or disconnected while the node runs
    IxMaxStarts  \* bound: starts of the process

IxBlocks == DOMAIN IxParent
IxNames == <<"tx", "addr", "cf">>
Indexes == ToSet(IxNames)
\* The buckets of each index, a bucket before the ones nested in it.
IndexBuckets == [i \in Indexes |-> CASE i = "tx" -> <<"txbyhashidx">>
                                     [] i = "addr" -> <<"txbyaddridx">>
                                     [] i = "cf" -> <<"cfindexparentbucket", "cf0byhashidx", "cf0headerbyhashidx", "cf0hashbyhashidx">>]
BucketNames == UNION {ToSet(IndexBuckets[i]) : i \in Indexes}
IdBuckets == {"idbyhashidx", "hashbyididx"}

ASSUME IndexersAssumption ==
    /\ IxGenesis \in IxBlocks /\ IxSpends \subseteq IxBlocks \ {IxGenesis}
    /\ \A b \in IxBlocks : IF b = IxGenesis THEN IxParent[b] = "zero" ELSE IxParent[b] \in IxBlocks \ {b}
    /\ {IxIncrement, IxBatch} \subseteq Nat \ {0}
    /\ {IxMaxMoves, IxMaxStarts} \subseteq Nat

VARIABLES
    ixDb,     \* the database: tips, drop marks, buckets, rows, block ids
    ixChain,  \* the main chain, from the genesis block
    ixJournal,\* the blocks that have a spend journal entry
    ixPc,     \* what the process does
    ixOn,     \* Manager.enabledIndexes
    ixDrops,  \* the indexes that dropIndex has yet to drop, the current one first
    ixList,   \* dropIndex: the buckets left of subBuckets
    ixCur,    \* TxIndex.curBlockID
    ixError,  \* why the last start failed
    ixMoves,  \* blocks connected or disconnected so far
    ixStarts  \* starts so far

ixProc == <<ixPc, ixOn, ixDrops, ixList, ixCur>>
ixVars == <<ixDb, ixChain, ixJournal, ixProc, ixError, ixMoves, ixStarts>>

Absent == "absent"
Path(b) == {x \in IxBlocks : \E n \in 0..Cardinality(IxBlocks) :
               LET up[k \in 0..n] == IF k = 0 THEN b ELSE IF up[k - 1] = "zero" THEN "zero" ELSE IxParent[up[k - 1]]
               IN up[n] = x}
BlockHeight(b) == IF b = "zero" THEN -1 ELSE Cardinality(Path(b)) - 1
OnMain(b) == b \in ToSet(ixChain)
IxErrors == {"", "assert", "noid", "norow", "noheader", "exists", "journal", "panic"}

IxMaxId == IxMaxMoves + Cardinality(IxBlocks)

\* The types of the index tips, of the rows of their buckets and of the start in progress.
IndexersTypeOK ==
    /\ ixDb.tip \in [Indexes -> IxBlocks \cup {"zero", Absent}] /\ ixDb.mark \subseteq Indexes
    /\ ixDb.have \subseteq BucketNames \cup IdBuckets
    /\ \A k \in BucketNames : ixDb.rows[k] \subseteq IxBlocks \X (0..IxMaxId)
    /\ ixDb.idOf \subseteq IxBlocks \X (1..IxMaxId) /\ ixDb.hashBy \subseteq (1..IxMaxId) \X IxBlocks
    /\ ixChain # <<>> /\ ixChain[1] = IxGenesis /\ ixJournal \subseteq IxBlocks
    /\ ixPc \in {"off", "drop", "list", "rows", "bucket", "ids", "tip", "create", "rollback", "catchup", "run"}
    /\ ToSet(ixOn) \subseteq Indexes /\ ToSet(ixDrops) \subseteq Indexes /\ ToSet(ixList) \subseteq BucketNames
    /\ ixCur \in 0..IxMaxId /\ ixError \in IxErrors

IxInit ==
    /\ ixDb = [tip |-> [i \in Indexes |-> Absent], mark |-> {}, have |-> {},
               rows |-> [k \in BucketNames |-> {}], idOf |-> {}, hashBy |-> {}]
    /\ ixChain = <<IxGenesis>> /\ ixJournal = {}
    /\ ixPc = "off" /\ ixOn = <<>> /\ ixDrops = <<>> /\ ixList = <<>> /\ ixCur = 0
    /\ ixError = "" /\ ixMoves = 0 /\ ixStarts = 0

----------------------------------------------------------------------------
(* One block and one index, inside a database transaction.                 *)

\* dbPutIndexerTip
PutTip(db, i, tip) == [db EXCEPT !.tip[i] = tip]

\* dbFetchBlockIDByHash: the ids stored for a block.
BlockIds(db, b) == {p[2] : p \in {q \in db.idOf : q[1] = b}}

\* dbPutBlockIDIndexEntry and dbRemoveBlockIDIndexEntry: both maps overwrite.
PutBlockId(db, b, id) ==
    [db EXCEPT !.idOf = {p \in @ : p[1] # b} \cup {<<b, id>>},
               !.hashBy = {p \in @ : p[1] # id} \cup {<<id, b>>}]
RemoveBlockId(db, b) ==
    [db EXCEPT !.idOf = {p \in @ : p[1] # b},
               !.hashBy = {p \in @ : p[1] \notin BlockIds(db, b)}]

\* The rows of a block in the buckets of the committed filters; only the child buckets have rows.
CfBuckets == ToSet(Tail(IndexBuckets["cf"]))
RowsOf(db, k, b) == {p \in db.rows[k] : p[1] = b}

\* dbIndexConnectBlock and the ConnectBlock of the index: why it fails, and what it stores.
ConnectError(db, i, b) ==
    CASE db.tip[i] # IxParent[b] -> "assert"
      [] i = "addr" /\ BlockIds(db, b) = {} -> "noid"
      [] i = "cf" /\ IxParent[b] # "zero" /\ RowsOf(db, "cf0headerbyhashidx", IxParent[b]) = {} -> "noheader"
      [] OTHER -> ""
TxConnect(db, b, id) == PutBlockId([db EXCEPT !.rows["txbyhashidx"] = {p \in @ : p[1] # b} \cup {<<b, id>>}], b, id)
AddrConnect(db, b) == [db EXCEPT !.rows["txbyaddridx"] = @ \cup {<<b, id>> : id \in BlockIds(db, b)}]
CfConnect(db, b) == [db EXCEPT !.rows = [k \in BucketNames |-> IF k \in CfBuckets THEN @[k] \cup {<<b, 0>>} ELSE @[k]]]
IndexConnect(db, i, b, id) ==
    PutTip(CASE i = "tx" -> TxConnect(db, b, id)
             [] i = "addr" -> AddrConnect(db, b)
             [] i = "cf" -> CfConnect(db, b), i, b)

\* dbIndexDisconnectBlock and the DisconnectBlock of the index.
DisconnectError(db, i, b) ==
    CASE db.tip[i] # b -> "assert"
      [] i = "tx" /\ RowsOf(db, "txbyhashidx", b) = {} -> "norow"
      [] i = "addr" /\ RowsOf(db, "txbyaddridx", b) = {} -> "assert"
      [] OTHER -> ""
IndexDisconnect(db, i, b) ==
    PutTip(CASE i = "tx" -> RemoveBlockId([db EXCEPT !.rows["txbyhashidx"] = {p \in @ : p[1] # b}], b)
             [] i = "addr" -> [db EXCEPT !.rows["txbyaddridx"] = {p \in @ : p[1] # b}]
             [] i = "cf" -> [db EXCEPT !.rows = [k \in BucketNames |->
                                 IF k \in CfBuckets THEN {p \in @[k] : p[1] # b} ELSE @[k]]],
           i, IxParent[b])

\* curBlockID after a block was connected to, or disconnected from, an index.
CurAfterConnect(i, cur) == IF i = "tx" THEN cur + 1 ELSE cur
CurAfterDisconnectAny(i, cur) == cur - 1
CurAfterDisconnect(i, cur) == IF i = "tx" THEN cur - 1 ELSE cur

\* Manager.ConnectBlock and Manager.DisconnectBlock: every enabled index in order, up to the first error.
ManagerConnect(db, b) ==
    FoldLeft(LAMBDA s, i : IF s.err # "" THEN s
                           ELSE IF ConnectError(s.db, i, b) # "" THEN [s EXCEPT !.err = ConnectError(s.db, i, b)]
                           ELSE [err |-> "", db |-> IndexConnect(s.db, i, b, s.cur + 1), cur |-> CurAfterConnect(i, s.cur)],
             [err |-> "", db |-> db, cur |-> ixCur], ixOn)
ManagerDisconnect(db, b) ==
    FoldLeft(LAMBDA s, i : IF s.err # "" THEN s
                           ELSE IF DisconnectError(s.db, i, b) # "" THEN [s EXCEPT !.err = DisconnectError(s.db, i, b)]
                           ELSE [err |-> "", db |-> IndexDisconnect(s.db, i, b), cur |-> CurAfterDisconnect(i, s.cur)],
             [err |-> "", db |-> db, cur |-> ixCur], ixOn)

----------------------------------------------------------------------------
(* Starting the process.                                                   *)

\* The process ends: its memory is gone.  An error is kept for the properties.
Exit(err) ==
    /\ ixPc' = "off" /\ ixOn' = <<>> /\ ixDrops' = <<>> /\ ixList' = <<>> /\ ixCur' = 0 /\ ixError' = err

\* newServer: the address index enables the transaction index; the order is fixed.
EnabledFor(wanted) == SelectSeq(IxNames, LAMBDA i : i \in wanted \/ (i = "tx" /\ "addr" \in wanted))

\* maybeFinishDrops: the enabled indexes with a drop mark.
NoDropsToFinish(on) == <<>>
DropsToFinish(on) == SelectSeq(on, LAMBDA i : i \in ixDb.mark)

\* Manager.Init up to maybeFinishDrops: the marked indexes are dropped before anything else.
StartNode ==
    /\ ixPc = "off" /\ ixStarts < IxMaxStarts /\ ixStarts' = ixStarts + 1
    /\ \E wanted \in SUBSET Indexes :
          LET on == EnabledFor(wanted)
              drops == DropsToFinish(on)
          IN /\ ixOn' = on /\ ixDrops' = drops
             /\ ixPc' = IF on = <<>> THEN "run" ELSE IF drops = <<>> THEN "create" ELSE "drop"
    /\ ixError' = ""
    /\ UNCHANGED <<ixDb, ixChain, ixJournal, ixList, ixCur, ixMoves>>

\* btcdMain with --dropaddrindex, --droptxindex or --dropcfindex: drop and exit.
StartDrop ==
    /\ ixPc = "off" /\ ixStarts < IxMaxStarts /\ ixStarts' = ixStarts + 1
    /\ ixDrops' \in {<<"addr">>, <<"addr", "tx">>, <<"cf">>}
    /\ ixPc' = "drop" /\ ixError' = ""
    /\ UNCHANGED <<ixDb, ixChain, ixJournal, ixOn, ixList, ixCur, ixMoves>>

\* What follows a dropped index: the next one, the creation of the enabled ones, or the exit.
AfterDrop ==
    IF Len(ixDrops) > 1 THEN ixPc' = "drop" /\ ixDrops' = Tail(ixDrops) /\ ixList' = <<>> /\ UNCHANGED <<ixOn, ixCur, ixError>>
    ELSE IF ixOn # <<>> THEN ixPc' = "create" /\ ixDrops' = <<>> /\ ixList' = <<>> /\ UNCHANGED <<ixOn, ixCur, ixError>>
    ELSE Exit("")

\* dropIndex: an index without a tip is not there; otherwise the drop is marked.
MarkDropNot ==
    /\ ixPc = "drop"
    /\ IF ixDb.tip[Head(ixDrops)] = Absent
       THEN AfterDrop
       ELSE ixPc' = "list" /\ UNCHANGED <<ixOn, ixDrops, ixList, ixCur, ixError>>
    /\ UNCHANGED <<ixDb, ixChain, ixJournal, ixMoves, ixStarts>>

MarkDrop ==
    /\ ixPc = "drop"
    /\ IF ixDb.tip[Head(ixDrops)] = Absent
       THEN AfterDrop /\ UNCHANGED ixDb
       ELSE /\ ixDb' = [ixDb EXCEPT !.mark = @ \cup {Head(ixDrops)}]
            /\ ixPc' = "list" /\ UNCHANGED <<ixOn, ixDrops, ixList, ixCur, ixError>>
    /\ UNCHANGED <<ixChain, ixJournal, ixMoves, ixStarts>>

\* subBucketClosure: the nested buckets are listed, and deleted from the last to the first.
\* A bucket that is gone is nil, and ForEachBucket is called on it.
ListBuckets ==
    /\ ixPc = "list"
    /\ LET all == IndexBuckets[Head(ixDrops)] IN
       IF all[1] \in ixDb.have
       THEN /\ ixList' = Reverse(SelectSeq(all, LAMBDA k : k \in ixDb.have)) /\ ixPc' = "rows"
            /\ UNCHANGED <<ixOn, ixDrops, ixCur, ixError>>
       ELSE Exit("panic")
    /\ UNCHANGED <<ixDb, ixChain, ixJournal, ixMoves, ixStarts>>

\* One transaction of the deletion loop.  A full batch is followed by another one.
DeleteRows ==
    /\ ixPc = "rows"
    /\ LET k == Head(ixList) IN
       \E gone \in SUBSET ixDb.rows[k] :
          /\ Cardinality(gone) = Min({IxBatch, Cardinality(ixDb.rows[k])})
          /\ ixDb' = [ixDb EXCEPT !.rows[k] = @ \ gone]
          /\ ixPc' = IF Cardinality(gone) = IxBatch THEN "rows" ELSE "bucket"
    /\ UNCHANGED <<ixChain, ixJournal, ixOn, ixDrops, ixList, ixCur, ixError, ixMoves, ixStarts>>

\* The emptied bucket is deleted; the transaction index has its block ids left, the others their tip.
DeleteBucket ==
    /\ ixPc = "bucket"
    /\ ixDb' = [ixDb EXCEPT !.have = @ \ {Head(ixList)}]
    /\ ixList' = Tail(ixList)
    /\ ixPc' = IF Len(ixList) > 1 THEN "rows" ELSE IF Head(ixDrops) = "tx" THEN "ids" ELSE "tip"
    /\ UNCHANGED <<ixChain, ixJournal, ixOn, ixDrops, ixCur, ixError, ixMoves, ixStarts>>

\* dropBlockIDIndex
DropBlockIds ==
    /\ ixPc = "ids"
    /\ ixDb' = [ixDb EXCEPT !.have = @ \ IdBuckets, !.idOf = {}, !.hashBy = {}]
    /\ ixPc' = "tip"
    /\ UNCHANGED <<ixChain, ixJournal, ixOn, ixDrops, ixList, ixCur, ixError, ixMoves, ixStarts>>

\* The tip and the mark are removed together.
DropTip ==
    /\ ixPc = "tip"
    /\ ixDb' = [PutTip(ixDb, Head(ixDrops), Absent) EXCEPT !.mark = @ \ {Head(ixDrops)}]
    /\ AfterDrop
    /\ UNCHANGED <<ixChain, ixJournal, ixMoves, ixStarts>>

\* TxIndex.Init: a stride to an unknown id, then a bisection between a known and an unknown one.
KnownId(id) == id \in {p[1] : p \in ixDb.hashBy}
FirstUnknown == 1 + IxIncrement * Min({n \in 0..IxMaxId : ~KnownId(1 + IxIncrement * n)})
Bisect(lo, hi) ==
    LET f[n \in 0..IxMaxId + IxIncrement] ==
            IF n = 0 THEN <<lo, hi>>
            ELSE LET p == f[n - 1] mid == (p[1] + p[2]) \div 2
                 IN IF p[1] + 1 = p[2] THEN p ELSE IF KnownId(mid) THEN <<mid, p[2]>> ELSE <<p[1], mid>>
    IN f[IxMaxId + IxIncrement][1]
TxIndexInitFresh == 0
TxIndexInit == IF FirstUnknown = 1 THEN 0 ELSE Bisect(FirstUnknown - IxIncrement, FirstUnknown)

\* maybeCreateIndexes in one transaction, then the Init of each index.
CreateIndexes ==
    /\ ixPc = "create"
    /\ LET new == {i \in ToSet(ixOn) : ixDb.tip[i] = Absent}
           made == UNION {ToSet(IndexBuckets[i]) : i \in new} \cup IF "tx" \in new THEN IdBuckets ELSE {}
       IN IF made \cap ixDb.have # {}
          THEN Exit("exists") /\ UNCHANGED ixDb
          ELSE /\ ixDb' = [ixDb EXCEPT !.tip = [i \in Indexes |-> IF i \in new THEN "zero" ELSE @[i]], !.have = @ \cup made]
               /\ ixCur' = IF "tx" \in ToSet(ixOn) THEN TxIndexInit ELSE 0
               /\ ixPc' = "rollback" /\ UNCHANGED <<ixOn, ixDrops, ixList, ixError>>
    /\ UNCHANGED <<ixChain, ixJournal, ixMoves, ixStarts>>

\* FetchSpendJournal: a block that spends has an entry only while it is in the main chain.
JournalMissing(b) == b \in IxSpends \ ixJournal

\* Manager.Init rolls the indexes back to the main chain, the last one first, block by block.
OffMain(i) == ixDb.tip[i] # "zero" /\ ~OnMain(ixDb.tip[i])
RollBack ==
    /\ ixPc = "rollback" /\ \E i \in ToSet(ixOn) : OffMain(i)
    /\ LET i == ixOn[Max({n \in DOMAIN ixOn : OffMain(ixOn[n])})]
           b == ixDb.tip[i]
       IN IF JournalMissing(b) THEN Exit("journal") /\ UNCHANGED ixDb
          ELSE IF DisconnectError(ixDb, i, b) # "" THEN Exit(DisconnectError(ixDb, i, b)) /\ UNCHANGED ixDb
          ELSE /\ ixDb' = IndexDisconnect(ixDb, i, b) /\ ixCur' = CurAfterDisconnect(i, ixCur)
               /\ UNCHANGED <<ixPc, ixOn, ixDrops, ixList, ixError>>
    /\ UNCHANGED <<ixChain, ixJournal, ixMoves, ixStarts>>
RolledBack ==
    /\ ixPc = "rollback" /\ \A i \in ToSet(ixOn) : ~OffMain(i)
    /\ ixPc' = "catchup"
    /\ UNCHANGED <<ixDb, ixChain, ixJournal, ixOn, ixDrops, ixList, ixCur, ixError, ixMoves, ixStarts>>

\* Manager.Init indexes the missing blocks: from the lowest tip up, at each height
\* the indexes that are below it, in order.
LowestHeight == Min({BlockHeight(ixDb.tip[ixOn[n]]) : n \in DOMAIN ixOn})
NextToIndexAny == ixOn[1]
NextToIndex == ixOn[Min({n \in DOMAIN ixOn : BlockHeight(ixDb.tip[ixOn[n]]) < LowestHeight + 1})]
CatchUp ==
    /\ ixPc = "catchup" /\ LowestHeight < Len(ixChain) - 1
    /\ LET i == NextToIndex
           b == ixChain[LowestHeight + 2]
       IN IF i # "tx" /\ JournalMissing(b) THEN Exit("journal") /\ UNCHANGED ixDb
          ELSE IF ConnectError(ixDb, i, b) # "" THEN Exit(ConnectError(ixDb, i, b)) /\ UNCHANGED ixDb
          ELSE /\ ixDb' = IndexConnect(ixDb, i, b, ixCur + 1) /\ ixCur' = CurAfterConnect(i, ixCur)
               /\ UNCHANGED <<ixPc, ixOn, ixDrops, ixList, ixError>>
    /\ UNCHANGED <<ixChain, ixJournal, ixMoves, ixStarts>>
CaughtUp ==
    /\ ixPc = "catchup" /\ LowestHeight = Len(ixChain) - 1
    /\ ixPc' = "run"
    /\ UNCHANGED <<ixDb, ixChain, ixJournal, ixOn, ixDrops, ixList, ixCur, ixError, ixMoves, ixStarts>>

----------------------------------------------------------------------------
(* The node runs: the chain calls the manager inside its own transaction.  *)

\* BlockChain.connectBlock: the journal entry, the indexes and the best state commit together or not at all.
\* An error of an index ends the run here; NoInternalError says there is none.
IxConnect ==
    /\ ixPc = "run" /\ ixMoves < IxMaxMoves /\ ixMoves' = ixMoves + 1
    /\ \E b \in IxBlocks :
          /\ IxParent[b] = Last(ixChain)
          /\ LET r == ManagerConnect(ixDb, b) IN
             IF r.err # "" THEN Exit(r.err) /\ UNCHANGED <<ixDb, ixChain, ixJournal>>
             ELSE /\ ixDb' = r.db /\ ixCur' = r.cur /\ ixChain' = Append(ixChain, b) /\ ixJournal' = ixJournal \cup {b}
                  /\ UNCHANGED <<ixPc, ixOn, ixDrops, ixList, ixError>>
    /\ UNCHANGED ixStarts

\* BlockChain.disconnectBlock: the journal entry is removed in the same transaction.
JournalAfterDisconnect(b) == ixJournal \ {b}
IxDisconnect ==
    /\ ixPc = "run" /\ ixMoves < IxMaxMoves /\ ixMoves' = ixMoves + 1 /\ Len(ixChain) > 1
    /\ LET b == Last(ixChain)
           r == ManagerDisconnect(ixDb, b)
       IN IF r.err # "" THEN Exit(r.err) /\ UNCHANGED <<ixDb, ixChain, ixJournal>>
          ELSE /\ ixDb' = r.db /\ ixCur' = r.cur /\ ixChain' = Front(ixChain) /\ ixJournal' = JournalAfterDisconnect(b)
               /\ UNCHANGED <<ixPc, ixOn, ixDrops, ixList, ixError>>
    /\ UNCHANGED ixStarts

\* The process is interrupted or killed, at any point.
IxStop ==
    /\ ixPc # "off"
    /\ Exit("")
    /\ UNCHANGED <<ixDb, ixChain, ixJournal, ixMoves, ixStarts>>

IxDone == ixPc = "off" /\ ixStarts = IxMaxStarts /\ UNCHANGED ixVars

IxNext ==
    \/ StartNode \/ StartDrop \/ MarkDrop \/ ListBuckets \/ DeleteRows \/ DeleteBucket \/ DropBlockIds \/ DropTip
    \/ CreateIndexes \/ RollBack \/ RolledBack \/ CatchUp \/ CaughtUp \/ IxConnect \/ IxDisconnect \/ IxStop \/ IxDone

IxSpec == IxInit /\ [][IxNext]_ixVars

----------------------------------------------------------------------------
(* Properties.                                                             *)

\* An index that is not being dropped holds exactly the blocks up to its tip, in every
\* one of its buckets, whatever was enabled, disabled, dropped and interrupted before.
RowsFollowTip ==
    \A i \in Indexes \ ixDb.mark :
        \A k \in IF i = "cf" THEN CfBuckets ELSE ToSet(IndexBuckets[i]) :
            {p[1] : p \in ixDb.rows[k]} = IF ixDb.tip[i] \in {"zero", Absent} THEN {} ELSE Path(ixDb.tip[i])

\* While the node runs, the enabled indexes are complete: not marked for a drop, and at the tip of the main chain.
EnabledAtTip ==
    ixPc = "run" => \A i \in ToSet(ixOn) : i \notin ixDb.mark /\ ixDb.tip[i] = Last(ixChain)

\* While the node runs, a block id stored by an enabled index leads back to the block it was
\* stored for: dbFetchBlockHashBySerializedID finds that block and no other.
IdsResolve ==
    ixPc = "run" =>
        \A k \in {"txbyhashidx", "txbyaddridx"} :
            (\E i \in ToSet(ixOn) : k \in ToSet(IndexBuckets[i])) =>
                \A p \in ixDb.rows[k] : {q[2] : q \in {r \in ixDb.hashBy : r[1] = p[2]}} = {p[1]}

\* The internal errors of the indexes (an assertion on a tip, a missing row, id or filter
\* header, a bucket that is already there) never stop the node.
NoInternalError == ixError \in {"", "journal", "panic"}

\* manager.go:272, "it can happen if the chain is reorganized while the index is disabled": the
\* start rolls such an index back, so it never stops on the blocks that left the chain.
RollbackSucceeds == ixError # "journal"

\* manager.go:549, "so the drop can be resumed if it is stopped before it is done".
DropResumes == ixError # "panic"

\* Whatever was enabled, disabled, dropped and stopped between two starts: the
\* rows of an index are those of its tip, an index in use is at the tip of the
\* chain, its block ids lead back to their blocks, and no assertion fails.
IndexersInvariant ==
    /\ IndexersTypeOK /\ RowsFollowTip /\ EnabledAtTip /\ IdsResolve /\ NoInternalError
=============================================================================
