------------------------------- MODULE Ffldb -------------------------------
(***************************************************************************)
(* The block database (database/ffldb): blocks in flat files, everything   *)
(* else in leveldb behind a cache.  A write transaction holds the write    *)
(* lock and collects its changes; its commit deletes pruned files, appends *)
(* its blocks to the files, and then either merges its rows into the cache *)
(* or flushes: sync the current file, write the cache to leveldb, clear    *)
(* the cache, write the rows of the transaction.  Readers take snapshots   *)
(* without the write lock.  A crash loses the cache and the file data that *)
(* was not synced, and the next start reconciles files and metadata.       *)
(*                                                                         *)
(* Offsets count blocks: every block has length one.  The rows are the     *)
(* location of each block, the write cursor, and the other metadata keys.  *)
(***************************************************************************)
EXTENDS Integers, Sequences, FiniteSets, SequencesExt, FiniteSetsExt, Functions

CONSTANTS
    FdBlocks,     \* blocks that are stored
    FdKeys,       \* keys of the other metadata
    FdReaders,    \* goroutines that call View
    FdFileBlocks, \* blocks that fit in a file (maxBlockFileSize)
    FdPruneTarget,\* blocks of files that pruning keeps
    FdTxBlocks,   \* blocks a transaction stores (the chain stores one)
    FdMaxUpdates, \* bound: changes of other metadata keys
    FdMaxFile,    \* bound: the highest file number
    FdMaxCrashes, \* bound: crashes of the machine
    FdMaxFaults,  \* bound: operations of the file system that fail
    FdLoseClosed  \* whether a crash loses data of a file closed without a sync

Cursor == "cursor"

ASSUME FfldbAssumption ==
    /\ FdFileBlocks \in Nat \ {0} /\ FdTxBlocks \in Nat /\ FdPruneTarget \in Nat /\ FdPruneTarget >= FdFileBlocks
    /\ FdMaxFile \in Nat
    /\ FdMaxUpdates \in Nat /\ FdMaxCrashes \in Nat /\ FdMaxFaults \in Nat /\ FdLoseClosed \in BOOLEAN
    /\ Cursor \notin FdBlocks \cup FdKeys /\ FdBlocks \cap FdKeys = {}

Rows == FdBlocks \cup FdKeys \cup {Cursor}
NoRow == <<>>
Locations == (0..FdMaxFile) \X (0..FdFileBlocks)
Contents == [Rows -> Locations \cup {NoRow}]

VARIABLES
    fdState,   \* "open", "closed", "crashed" or "corrupt"
    fdFiles,   \* the block files: file number -> sequence of blocks
    fdSynced,  \* file number -> blocks known to be on the disk
    fdAt,      \* the write cursor: <<curFileNum, curOffset>>
    fdOpened,  \* whether curFile.file is open
    fdLdb,     \* the contents of leveldb
    fdPut,     \* cachedKeys
    fdDel,     \* cachedRemove
    fdTx,      \* the write transaction
    fdPruned,  \* history: locations of blocks in files that pruning deleted
    fdView,    \* the readers: the snapshot of leveldb, what was committed since, whether the view is one of it
    fdUpdates, \* changes of other metadata keys so far
    fdCrashes, \* crashes so far
    fdFaults   \* failed operations so far

fdMem == <<fdAt, fdOpened, fdPut, fdDel>>
fdDisk == <<fdFiles, fdSynced, fdLdb>>
fdHistory == <<fdPruned, fdUpdates, fdCrashes>>
fdVars == <<fdState, fdDisk, fdMem, fdTx, fdView, fdHistory, fdFaults>>

Empty == [k \in {} |-> NoRow]
NoTx == [pc |-> "none", snap |-> Empty, put |-> Empty, del |-> {}, blocks |-> <<>>, prune |-> {}, old |-> <<0, 0>>]
NoView == [pc |-> "none", ldb |-> Empty, seen |-> {}, whole |-> TRUE]

----------------------------------------------------------------------------
(* Rows: leveldb below the cache below the transaction's own changes *)

\* f with the value v at k.
Also(f, k, v) == [x \in DOMAIN f \cup {k} |-> IF x = k THEN v ELSE f[x]]

\* What a lookup finds: removed, else put, else what is below.
Overlay(below, put, del) ==
    [k \in Rows |-> IF k \in del THEN NoRow ELSE IF k \in DOMAIN put THEN put[k] ELSE below[k]]

Committed == Overlay(fdLdb, fdPut, fdDel)

\* Changes stacked on changes: a key is put or removed, whichever is last.
MergePut(put, del, newPut, newDel) == 
    [k \in (DOMAIN put \cup DOMAIN newPut) \ newDel |-> IF k \in DOMAIN newPut THEN newPut[k] ELSE put[k]]
MergeDel(put, del, newPut, newDel) == (del \ DOMAIN newPut) \cup newDel

\* Mutant: the pending removals are not written.
CommitTreapsPut(put, del) == Overlay(fdLdb, put, {})

\* commitTreaps: one leveldb transaction.
CommitTreaps(put, del) == Overlay(fdLdb, put, del)

\* What the running write transaction sees.
FetchKeys == Overlay(fdTx.snap, fdTx.put, fdTx.del)

HasBlock(b) == (\E i \in DOMAIN fdTx.blocks : fdTx.blocks[i] = b) \/ FetchKeys[b] # NoRow

----------------------------------------------------------------------------
(* Block files *)

\* The numbers of the first and the last file and the length of the last, from the directory.
ScanBlockFiles ==
    IF DOMAIN fdFiles = {} THEN <<-1, -1, 0>>
    ELSE <<Min(DOMAIN fdFiles), Max(DOMAIN fdFiles), Len(fdFiles[Max(DOMAIN fdFiles)])>>

Ahead(a, b) == a[1] > b[1] \/ (a[1] = b[1] /\ a[2] > b[2])

\* Whether the bytes at a location are those of block b.
ReadBlock(b, loc) == loc[1] \in DOMAIN fdFiles /\ loc[2] < Len(fdFiles[loc[1]]) /\ fdFiles[loc[1]][loc[2] + 1] = b

\* writeBlock moves to the next file when the block does not fit.
\* Mutant: the next file begins one block late.
RollsLate == fdAt[2] > FdFileBlocks
Rolls == fdAt[2] + 1 > FdFileBlocks
WriteFile == IF Rolls THEN fdAt[1] + 1 ELSE fdAt[1]
WriteOffset == IF Rolls THEN 0 ELSE fdAt[2]

\* WriteAt at an offset: the rest of the file stays.
WriteAt(s, off, b) == SubSeq(s, 1, off) \o <<b>> \o SubSeq(s, off + 2, Len(s))
Opened(f) == IF f \in DOMAIN fdFiles THEN fdFiles[f] ELSE <<>>
OpenedSync(f) == IF f \in DOMAIN fdFiles THEN fdSynced[f] ELSE 0

\* A file is truncated, or extended with zeros.
Truncate(s, n) == [i \in 1..n |-> IF i <= Len(s) THEN s[i] ELSE "junk"]

\* handleRollback from the cursor `at' to old, over files fs: the files behind are deleted, a missing
\* one ends it; then the old file is opened, truncated and synced.  The cursor is the old one anyway.
Gone(at, old) == (old[1] + 1)..at[1]
RollbackStops(fs, at, old) == \E f \in Gone(at, old) : f \notin DOMAIN fs
RollbackFiles(fs, at, old) ==
    LET missing == {f \in Gone(at, old) : f \notin DOMAIN fs}
        gone == IF missing = {} THEN Gone(at, old) ELSE (Max(missing) + 1)..at[1]
        kept == Restrict(fs, DOMAIN fs \ gone)
    IN  IF at = old THEN fs
        ELSE IF missing # {} THEN kept
        ELSE Also(kept, old[1], Truncate(IF old[1] \in DOMAIN fs THEN fs[old[1]] ELSE <<>>, old[2]))
HandleRollback(fs, at, opened, old) ==
    /\ fdFiles' = RollbackFiles(fs, at, old)
    /\ fdSynced' = [f \in DOMAIN fdFiles' |->
           IF at # old /\ ~RollbackStops(fs, at, old) /\ f = old[1] THEN Len(fdFiles'[f])
           ELSE IF f \in DOMAIN fdSynced THEN Min({fdSynced[f], Len(fdFiles'[f])}) ELSE 0]
    /\ fdAt' = old
    /\ fdOpened' = IF at = old THEN opened ELSE ~RollbackStops(fs, at, old)

----------------------------------------------------------------------------
(* A write transaction *)

\* begin(true): write lock, then the snapshot; no flush can come between its two reads.
BeginUpdate ==
    /\ fdState = "open" /\ fdTx = NoTx
    /\ fdTx' = [NoTx EXCEPT !.pc = "run", !.snap = Committed]
    /\ UNCHANGED <<fdState, fdDisk, fdMem, fdView, fdHistory, fdFaults>>

\* putKey and deleteKey
PutKey(k, v) == [fdTx EXCEPT !.put = Also(@, k, v), !.del = @ \ {k}]
DeleteKeys(ks) == [fdTx EXCEPT !.put = Restrict(@, DOMAIN @ \ ks), !.del = @ \cup ks]

StoreBlock(b) == Len(fdTx.blocks) < FdTxBlocks /\ ~HasBlock(b) /\ fdTx' = [fdTx EXCEPT !.blocks = Append(@, b)]

\* PruneBlocks: the oldest files, until the rest is within the target; the last file always stays.
\* The rows of the blocks in them go too.  Assumed: the target, three files or more, keeps the file of
\* the cursor that leveldb has, which is flushed every five minutes.
PruneBlocks ==
    LET scan == ScanBlockFiles
        total(n) == scan[3] + FdFileBlocks * (scan[2] - scan[1] - n)
        enough == {n \in 1..(scan[2] - scan[1]) : total(n) <= FdPruneTarget \/ n = scan[2] - scan[1]}
        dead == scan[1]..(scan[1] + Min(enough) - 1)
    IN  /\ scan[1] # scan[2] /\ total(0) > FdPruneTarget
        /\ fdTx.prune = {} /\ \A f \in dead : f < fdLdb[Cursor][1]
        /\ fdTx' = [DeleteKeys({b \in FdBlocks : FetchKeys[b] # NoRow /\ FetchKeys[b][1] \in dead}) EXCEPT
                        !.prune = dead]

\* The function passed to Update: metadata, blocks and pruning in any order.
InUpdate ==
    /\ fdTx.pc = "run"
    /\ \/ /\ \E k \in FdKeys : \/ FetchKeys[k] = NoRow /\ fdTx' = PutKey(k, <<0, 0>>)
                               \/ FetchKeys[k] # NoRow /\ fdTx' = DeleteKeys({k})
          /\ fdUpdates < FdMaxUpdates /\ fdUpdates' = fdUpdates + 1
       \/ \E b \in FdBlocks : StoreBlock(b) /\ UNCHANGED fdUpdates
       \/ PruneBlocks /\ UNCHANGED fdUpdates
    /\ UNCHANGED <<fdState, fdDisk, fdMem, fdView, fdPruned, fdCrashes, fdFaults>>

\* The function fails: Rollback, which only closes the transaction.
FdRollbackTx ==
    /\ fdTx.pc = "run"
    /\ fdTx' = NoTx
    /\ UNCHANGED <<fdState, fdDisk, fdMem, fdView, fdHistory, fdFaults>>

----------------------------------------------------------------------------
(* Its commit: writePendingAndCommit and commitTx, one step per effect *)

Step(from, to) == fdTx.pc = from /\ fdTx' = [fdTx EXCEPT !.pc = to]
Quiet == UNCHANGED <<fdState, fdView, fdHistory>>
NoFault == UNCHANGED fdFaults
Fault == fdFaults < FdMaxFaults /\ fdFaults' = fdFaults + 1
End == fdTx' = NoTx

CommitTxBegin ==
    /\ fdTx.pc = "run"
    /\ fdTx' = [fdTx EXCEPT !.pc = IF fdTx.prune = {} THEN "write" ELSE "delete", !.old = fdAt]
    /\ UNCHANGED <<fdDisk, fdMem>> /\ NoFault /\ Quiet

\* The pending deletions come first: they cannot be undone.  One that fails ends the transaction.
DeleteFile ==
    LET f == Min(fdTx.prune)
    IN  /\ fdTx.pc = "delete"
        /\ \/ /\ f \in DOMAIN fdFiles
              /\ fdFiles' = Restrict(fdFiles, DOMAIN fdFiles \ {f})
              /\ fdSynced' = Restrict(fdSynced, DOMAIN fdSynced \ {f})
              /\ fdPruned' = fdPruned \cup ({f} \X (0..(Len(fdFiles[f]) - 1)))
              /\ fdTx' = [fdTx EXCEPT !.pc = IF fdTx.prune = {f} THEN "write" ELSE @, !.prune = @ \ {f}]
              /\ NoFault
           \/ Fault /\ End /\ UNCHANGED <<fdFiles, fdSynced, fdPruned>>
        /\ UNCHANGED <<fdLdb, fdMem, fdState, fdView, fdUpdates, fdCrashes>>

\* The next block: into the files, and its location among the rows of the transaction.
WriteBlock ==
    /\ fdTx.pc = "write" /\ fdTx.blocks # <<>> /\ WriteFile <= FdMaxFile
    /\ fdFiles' = Also(fdFiles, WriteFile, WriteAt(Opened(WriteFile), WriteOffset, Head(fdTx.blocks)))
    /\ fdSynced' = Also(fdSynced, WriteFile, Min({OpenedSync(WriteFile), WriteOffset}))
    /\ fdAt' = <<WriteFile, WriteOffset + 1>> /\ fdOpened' = TRUE
    /\ fdTx' = [PutKey(Head(fdTx.blocks), <<WriteFile, WriteOffset>>) EXCEPT !.blocks = Tail(@)]
    /\ UNCHANGED <<fdLdb, fdPut, fdDel>> /\ NoFault /\ Quiet

\* Opening the file fails, or the write breaks off: everything written is rolled back.
WriteBlockFails ==
    /\ fdTx.pc = "write" /\ fdTx.blocks # <<>> /\ WriteFile <= FdMaxFile
    /\ \/ /\ Rolls \/ ~fdOpened
          /\ HandleRollback(fdFiles, <<WriteFile, WriteOffset>>, FALSE, fdTx.old)
       \/ HandleRollback(Also(fdFiles, WriteFile, WriteAt(Opened(WriteFile), WriteOffset, "junk")),
                         <<WriteFile, WriteOffset + 1>>, TRUE, fdTx.old)
    /\ Fault /\ End
    /\ UNCHANGED <<fdLdb, fdPut, fdDel>> /\ Quiet

\* Mutant: the row has the cursor from before the blocks.
PutCursorOld ==
    /\ fdTx.pc = "write" /\ fdTx.blocks = <<>>
    /\ fdTx' = [PutKey(Cursor, fdTx.old) EXCEPT !.pc = "commit"]
    /\ UNCHANGED <<fdDisk, fdMem>> /\ NoFault /\ Quiet

\* All blocks are written: the write cursor becomes a row too.
PutCursor ==
    /\ fdTx.pc = "write" /\ fdTx.blocks = <<>>
    /\ fdTx' = [PutKey(Cursor, fdAt) EXCEPT !.pc = "commit"]
    /\ UNCHANGED <<fdDisk, fdMem>> /\ NoFault /\ Quiet

\* A commit that takes effect is one of the states a snapshot being taken may show.
Notice ==
    fdView' = [r \in FdReaders |->
        IF fdView[r].pc = "ldb" THEN [fdView[r] EXCEPT !.seen = @ \cup {Committed'}] ELSE fdView[r]]

\* needsFlush depends on the time and the size of the cache: either may happen.
MergeCache ==
    /\ fdTx.pc = "commit"
    /\ fdPut' = MergePut(fdPut, fdDel, fdTx.put, fdTx.del)
    /\ fdDel' = MergeDel(fdPut, fdDel, fdTx.put, fdTx.del)
    /\ End
    /\ UNCHANGED <<fdDisk, fdAt, fdOpened, fdState, fdHistory>> /\ NoFault /\ Notice

\* Mutant: the file is not synced before the metadata is written.
SyncNothing == UNCHANGED fdSynced

\* syncBlocks syncs the file that is open for writing, and no other.
SyncBlocks ==
    fdSynced' = IF fdOpened THEN [fdSynced EXCEPT ![fdAt[1]] = Len(fdFiles[fdAt[1]])] ELSE fdSynced

FlushSync ==
    /\ fdTx.pc = "commit"
    /\ \/ /\ SyncBlocks
          /\ fdTx' = [fdTx EXCEPT !.pc = IF fdPut = Empty /\ fdDel = {} THEN "rows" ELSE "flush"]
          /\ NoFault
       \/ Fault /\ End /\ UNCHANGED fdSynced
    /\ UNCHANGED <<fdFiles, fdLdb, fdMem>> /\ Quiet

\* The cache goes to leveldb in one transaction of its own.
FlushCommit ==
    /\ fdTx.pc = "flush"
    /\ \/ fdLdb' = CommitTreaps(fdPut, fdDel) /\ Step("flush", "clear") /\ NoFault
       \/ Fault /\ End /\ UNCHANGED fdLdb
    /\ UNCHANGED <<fdFiles, fdSynced, fdMem>> /\ Quiet

FlushClear ==
    /\ Step("clear", "rows")
    /\ fdPut' = Empty /\ fdDel' = {}
    /\ UNCHANGED <<fdDisk, fdAt, fdOpened>> /\ NoFault /\ Quiet

\* After a flush the rows of the transaction skip the cache.
CommitRows ==
    /\ fdTx.pc = "rows"
    /\ \/ fdLdb' = CommitTreaps(fdTx.put, fdTx.del) /\ NoFault
       \/ Fault /\ UNCHANGED fdLdb
    /\ End
    /\ UNCHANGED <<fdFiles, fdSynced, fdMem, fdState, fdHistory>> /\ Notice

----------------------------------------------------------------------------
(* Readers: begin(false) reads leveldb and then the cache, without the write lock *)

ReaderStep(r, v) ==
    /\ fdView' = [fdView EXCEPT ![r] = v]
    /\ UNCHANGED <<fdState, fdDisk, fdMem, fdTx, fdHistory, fdFaults>>

SnapshotLdb(r) ==
    /\ fdState = "open" /\ fdView[r].pc = "none"
    /\ ReaderStep(r, [NoView EXCEPT !.pc = "ldb", !.ldb = fdLdb, !.seen = {Committed}])

SnapshotCache(r) ==
    /\ fdView[r].pc = "ldb"
    /\ ReaderStep(r, [NoView EXCEPT !.pc = "read",
           !.whole = Overlay(fdView[r].ldb, fdPut, fdDel) \in fdView[r].seen])

EndView(r) == fdView[r].pc = "read" /\ ReaderStep(r, NoView)

----------------------------------------------------------------------------
(* Close, crash and start *)

\* Close waits for the transactions that are open (closeLock), flushes and closes whatever comes of it.
CloseDb ==
    /\ fdState = "open" /\ fdTx = NoTx /\ \A r \in FdReaders : fdView[r] = NoView
    /\ \/ SyncBlocks /\ fdLdb' = CommitTreaps(fdPut, fdDel) /\ NoFault
       \/ Fault /\ UNCHANGED <<fdSynced, fdLdb>>
    /\ fdState' = "closed"
    /\ UNCHANGED <<fdFiles, fdMem, fdTx, fdView, fdHistory>>

\* The machine stops: each file keeps what was synced and a part of the rest.  A file that is not
\* open for writing was closed without a sync.
Keeps(f, n) == fdSynced[f] <= n /\ ((fdOpened /\ f = fdAt[1]) \/ FdLoseClosed \/ n = Len(fdFiles[f]))
Crash ==
    /\ fdState \in {"open", "closed"} /\ fdCrashes < FdMaxCrashes
    /\ \E keep \in [DOMAIN fdFiles -> 0..FdFileBlocks] :
           /\ \A f \in DOMAIN fdFiles : keep[f] <= Len(fdFiles[f]) /\ Keeps(f, keep[f])
           /\ fdFiles' = [f \in DOMAIN fdFiles |-> SubSeq(fdFiles[f], 1, keep[f])]
           /\ fdSynced' = keep
    /\ fdState' = "crashed"
    /\ fdTx' = NoTx /\ fdView' = [r \in FdReaders |-> NoView]
    /\ fdAt' = <<0, 0>> /\ fdOpened' = FALSE /\ fdPut' = Empty /\ fdDel' = {}
    /\ fdCrashes' = fdCrashes + 1
    /\ UNCHANGED <<fdLdb, fdPruned, fdUpdates, fdFaults>>

\* openDB: the write cursor from the files, then reconcileDB against the cursor in the metadata.
OpenDb ==
    LET scan == ScanBlockFiles
        at == IF scan[2] = -1 THEN <<0, 0>> ELSE <<scan[2], scan[3]>>
        cur == fdLdb[Cursor]
    IN  /\ fdState \in {"closed", "crashed"}
        /\ fdPut' = Empty /\ fdDel' = {}
        /\ IF Ahead(cur, at)
           THEN fdState' = "corrupt" /\ UNCHANGED <<fdFiles, fdSynced, fdAt, fdOpened>>
           ELSE fdState' = "open" /\ HandleRollback(fdFiles, at, FALSE, cur)
        /\ UNCHANGED <<fdLdb, fdTx, fdView, fdHistory, fdFaults>>

FfldbInit ==
    /\ fdState = "open"
    /\ fdFiles = Empty /\ fdSynced = Empty
    /\ fdAt = <<0, 0>> /\ fdOpened = FALSE
    /\ fdLdb = [k \in Rows |-> IF k = Cursor THEN <<0, 0>> ELSE NoRow]
    /\ fdPut = Empty /\ fdDel = {}
    /\ fdTx = NoTx /\ fdView = [r \in FdReaders |-> NoView]
    /\ fdPruned = {} /\ fdUpdates = 0 /\ fdCrashes = 0 /\ fdFaults = 0

FfldbNext ==
    \/ BeginUpdate \/ InUpdate \/ FdRollbackTx
    \/ CommitTxBegin \/ DeleteFile \/ WriteBlock \/ WriteBlockFails \/ PutCursor
    \/ MergeCache \/ FlushSync \/ FlushCommit \/ FlushClear \/ CommitRows
    \/ \E r \in FdReaders : SnapshotLdb(r) \/ SnapshotCache(r) \/ EndView(r)
    \/ CloseDb \/ Crash \/ OpenDb

FfldbSpec == FfldbInit /\ [][FfldbNext]_fdVars

----------------------------------------------------------------------------
(* Properties *)

\* Every piece of state has its type; the cache never both puts and removes a key, and the cursor
\* stays within the file it names.
FfldbTypeOK ==
    /\ fdState \in {"open", "closed", "crashed", "corrupt"}
    /\ DOMAIN fdFiles = DOMAIN fdSynced /\ DOMAIN fdFiles \subseteq 0..FdMaxFile
    /\ \A f \in DOMAIN fdFiles :
           fdSynced[f] \in 0..Len(fdFiles[f]) /\ Range(fdFiles[f]) \subseteq FdBlocks \cup {"junk"}
    /\ fdAt \in Locations /\ fdOpened \in BOOLEAN
    /\ fdLdb \in Contents
    /\ DOMAIN fdPut \subseteq Rows /\ Range(fdPut) \subseteq Locations
    /\ fdDel \subseteq Rows /\ fdDel \cap DOMAIN fdPut = {}
    /\ fdOpened => fdAt[1] \in DOMAIN fdFiles /\ fdAt[2] <= Len(fdFiles[fdAt[1]])

\* A block that the committed rows have a location for can be read there, after crashes, failed
\* writes and flushes too; only files that pruning deleted are missing.
IndexedIsReadable ==
    fdState = "open" =>
        \A b \in FdBlocks : Committed[b] # NoRow => ReadBlock(b, Committed[b]) \/ Committed[b] \in fdPruned

\* A start after any crash finds the files no shorter than the metadata says.
OpensAgain == fdState # "corrupt"

\* What a View transaction sees was committed at some moment while it was begun: Snapshot returns
\* the database "at a particular point in time".
ViewIsCommitted == \A r \in FdReaders : fdView[r].whole

\* The database implements atomic, durable transactions.
Present(c) == {k \in FdBlocks \cup FdKeys : c[k] # NoRow}
Mine == IF fdTx = NoTx THEN {} ELSE {Present(FetchKeys) \cup Range(fdTx.blocks)}
Atomic == INSTANCE BlockDb WITH
    view <- Present(Committed), stable <- Present(fdLdb), mine <- Mine
AtomicStore == Atomic!BlockDbSpec

\* Every block the metadata locate can be read from the files, and the database
\* can be opened again, after any failed operation or crash.
FfldbInvariant ==
    /\ FfldbTypeOK /\ IndexedIsReadable /\ OpensAgain
=============================================================================
