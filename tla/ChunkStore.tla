----------------------------- MODULE ChunkStore -----------------------------
(***************************************************************************)
(* The directory ./files/stored of a peer, which local uploads fill with   *)
(* chunks (SaveChunkedFile, for SetupRegisterFile) and other peers with    *)
(* whole files (storeFile, DataStore.PutFile).  Both name a file by the    *)
(* hash of its data, use os.WriteFile, and know nothing of each other.     *)
(*                                                                         *)
(* A hash is modelled by the data itself: names are equal exactly if the   *)
(* data are.  What SaveChunkedFile writes is always the whole buffer, so a *)
(* last, shorter chunk is followed by bytes of the chunk before it.        *)
(* os.WriteFile opens, creating or truncating the file, and then writes;   *)
(* either may fail: no space, no permission (PutFile's files are           *)
(* read-only), an I/O error.                                               *)
(***************************************************************************)
EXTENDS Integers, Sequences, SequencesExt, FiniteSets

CONSTANTS
    Uploads,        \* the calls of SaveChunkedFile
    Puts,           \* the calls of PutFile
    Content,        \* Content[w]: the bytes of the file that w stores
    ChunkSize,      \* bytes in a chunk
    DriveCap        \* drive_cap of the DataStore

Writers == Uploads \cup Puts

ASSUME ChunkStoreAssumption ==
    /\ Content \in [Writers -> Seq(Nat)]
    /\ ChunkSize \in Nat \ {0}
    /\ DriveCap \in Nat
    /\ Uploads \cap Puts = {}

VARIABLES
    dir,        \* the directory: a function from the names in it to their data
    writerAt,         \* where each writer is
    buf,        \* what each writer writes next
    hashes,     \* the names each writer has made
    cleaned,    \* how many of them its clean-up has removed
    linked,     \* whether the file each writer has open is still in dir
    available,  \* uploads in StoredFileInfoMap, which others may request
    lost        \* history variable: names whose file was removed by a clean-up
                \* or an eviction, or left empty by a write that failed, and
                \* that no writer has written since

chunkStoreVars == <<dir, writerAt, buf, hashes, cleaned, linked, available, lost>>

Name(w) == hashes[w][Len(hashes[w])]
Bytes == {0} \cup UNION {Range(Content[w]) : w \in Writers}

\* The types of the directory files/stored and of the uploads and puts that fill it.
ChunkStoreTypeOK ==
    /\ \A h \in DOMAIN dir : h \in Seq(Bytes) /\ dir[h] \in Seq(Bytes)
    /\ writerAt \in [Writers -> {"read", "open", "write", "clean", "done", "failed"}]
    /\ \A w \in Writers : buf[w] \in Seq(Bytes) /\ hashes[w] \in Seq(Seq(Bytes))
    /\ \A w \in Uploads : Len(buf[w]) = ChunkSize
    /\ \A w \in Writers : cleaned[w] \in 0..Len(hashes[w])
    /\ linked \in [Writers -> BOOLEAN]
    /\ available \subseteq Uploads

ChunkStoreInit ==
    /\ dir = [h \in {} |-> <<>>]
    /\ writerAt = [w \in Writers |-> "read"]
    /\ buf = [w \in Writers |-> [i \in 1..ChunkSize |-> 0]]
    /\ hashes = [w \in Writers |-> <<>>]
    /\ cleaned = [w \in Writers |-> 0]
    /\ linked = [w \in Writers |-> FALSE]
    /\ available = {}
    /\ lost = {}

-----------------------------------------------------------------------------
(* SaveChunkedFile *)

\* Mutation: a file ends at the first read that does not fill the buffer.
RestFull(u) ==
    LET rest == SubSeq(Content[u], ChunkSize * Len(hashes[u]) + 1, Len(Content[u]))
    IN  IF Len(rest) < ChunkSize THEN <<>> ELSE rest

\* The bytes of the file that have not been read.
Rest(u) == SubSeq(Content[u], ChunkSize * Len(hashes[u]) + 1, Len(Content[u]))

\* The next read, of at most ChunkSize bytes.
Piece(u) == SubSeq(Rest(u), 1, IF Len(Rest(u)) < ChunkSize THEN Len(Rest(u)) ELSE ChunkSize)

\* Mutation: the read appends to the buffer.
FilledLonger(u) == buf[u] \o Piece(u)

\* What a read leaves in the buffer: the bytes read, then what was there.
Filled(u) == Piece(u) \o SubSeq(buf[u], Len(Piece(u)) + 1, ChunkSize)

\* Mutation: the chunk is hashed and the buffer written before the read.
ReadChunkStale(u) ==
    /\ u \in Uploads
    /\ writerAt[u] = "read"
    /\ Rest(u) # <<>>
    /\ hashes' = [hashes EXCEPT ![u] = Append(@, Piece(u))]
    /\ writerAt' = [writerAt EXCEPT ![u] = "open"]
    /\ UNCHANGED <<dir, buf, cleaned, linked, available, lost>>

\* A chunk is read, hashed, and its name noted.
ReadChunk(u) ==
    /\ u \in Uploads
    /\ writerAt[u] = "read"
    /\ Rest(u) # <<>>
    /\ buf' = [buf EXCEPT ![u] = Filled(u)]
    /\ hashes' = [hashes EXCEPT ![u] = Append(@, Piece(u))]
    /\ writerAt' = [writerAt EXCEPT ![u] = "open"]
    /\ UNCHANGED <<dir, cleaned, linked, available, lost>>

\* The file cannot be read: the chunks written so far stay.
ReadFails(u) ==
    /\ u \in Uploads
    /\ writerAt[u] = "read"
    /\ writerAt' = [writerAt EXCEPT ![u] = "failed"]
    /\ UNCHANGED <<dir, buf, hashes, cleaned, linked, available, lost>>

\* The end of the file: SetupRegisterFile enters it in StoredFileInfoMap.
Register(u) ==
    /\ u \in Uploads
    /\ writerAt[u] = "read"
    /\ Rest(u) = <<>>
    /\ writerAt' = [writerAt EXCEPT ![u] = "done"]
    /\ available' = available \cup {u}
    /\ UNCHANGED <<dir, buf, hashes, cleaned, linked, lost>>

\* dir without h, and the writers that had the file open.
RemoveFile(h) ==
    /\ dir' = [g \in DOMAIN dir \ {h} |-> dir[g]]
    /\ linked' = [w \in Writers |-> linked[w] /\ Name(w) # h]
    /\ lost' = lost \cup {h}

\* A write failed: the names noted so far are removed one by one, until one
\* is not there.
Clean(u) ==
    /\ u \in Uploads
    /\ writerAt[u] = "clean"
    /\ LET h == hashes[u][cleaned[u] + 1]
           removes == h \in DOMAIN dir
           last == cleaned[u] + 1 = Len(hashes[u])
       IN  /\ IF removes THEN RemoveFile(h) ELSE UNCHANGED <<dir, linked, lost>>
           /\ cleaned' = [cleaned EXCEPT ![u] = IF removes THEN @ + 1 ELSE @]
           /\ writerAt' = [writerAt EXCEPT ![u] = IF removes /\ ~last THEN "clean" ELSE "failed"]
    /\ UNCHANGED <<buf, hashes, available>>

-----------------------------------------------------------------------------
(* PutFile *)

\* The data of a put are written as they are.  A file that is larger than
\* drive_cap first evicts one that is not empty (the one that the directory
\* lists last): drive_size is never changed from 0.
Put(p) ==
    /\ p \in Puts
    /\ writerAt[p] = "read"
    /\ IF Len(Content[p]) > DriveCap /\ \E h \in DOMAIN dir : dir[h] # <<>>
         THEN \E h \in DOMAIN dir : dir[h] # <<>> /\ RemoveFile(h)
         ELSE UNCHANGED <<dir, linked, lost>>
    /\ buf' = [buf EXCEPT ![p] = Content[p]]
    /\ hashes' = [hashes EXCEPT ![p] = <<Content[p]>>]
    /\ writerAt' = [writerAt EXCEPT ![p] = "open"]
    /\ UNCHANGED <<cleaned, available>>

-----------------------------------------------------------------------------
(* os.WriteFile *)

Opened(h) == [g \in DOMAIN dir \cup {h} |-> IF g = h THEN <<>> ELSE dir[g]]

\* Where an error takes a writer, and where success does.
Failed(w) == IF w \in Uploads THEN "clean" ELSE "failed"
Written(w) == IF w \in Uploads THEN "read" ELSE "done"

OpenFile(w) ==
    /\ writerAt[w] = "open"
    /\ dir' = Opened(Name(w))
    /\ linked' = [linked EXCEPT ![w] = TRUE]
    /\ writerAt' = [writerAt EXCEPT ![w] = "write"]
    /\ UNCHANGED <<buf, hashes, cleaned, available, lost>>

\* Mutation: an error is not noticed.
OpenFailsUnnoticed(w) ==
    /\ writerAt[w] = "open"
    /\ writerAt' = [writerAt EXCEPT ![w] = Written(w)]
    /\ UNCHANGED <<dir, buf, hashes, cleaned, linked, available, lost>>

OpenFails(w) ==
    /\ writerAt[w] = "open"
    /\ writerAt' = [writerAt EXCEPT ![w] = Failed(w)]
    /\ UNCHANGED <<dir, buf, hashes, cleaned, linked, available, lost>>

\* The write goes to the file that was opened, which may have been removed.
WriteFile(w) ==
    /\ writerAt[w] = "write"
    /\ dir' = IF linked[w] THEN [dir EXCEPT ![Name(w)] = buf[w]] ELSE dir
    /\ linked' = [linked EXCEPT ![w] = FALSE]
    /\ writerAt' = [writerAt EXCEPT ![w] = Written(w)]
    /\ lost' = IF linked[w] THEN lost \ {Name(w)} ELSE lost
    /\ UNCHANGED <<buf, hashes, cleaned, available>>

WriteFails(w) ==
    /\ writerAt[w] = "write"
    /\ linked' = [linked EXCEPT ![w] = FALSE]
    /\ writerAt' = [writerAt EXCEPT ![w] = Failed(w)]
    /\ lost' = lost \cup {Name(w)}
    /\ UNCHANGED <<dir, buf, hashes, cleaned, available>>

ChunkStoreNext ==
    \/ \E u \in Uploads : ReadChunk(u) \/ ReadFails(u) \/ Register(u) \/ Clean(u)
    \/ \E p \in Puts : Put(p)
    \/ \E w \in Writers : OpenFile(w) \/ OpenFails(w) \/ WriteFile(w) \/ WriteFails(w)

ChunkStoreSpec == ChunkStoreInit /\ [][ChunkStoreNext]_chunkStoreVars

-----------------------------------------------------------------------------
(* Properties *)

\* An upload that others may request names chunks that, put together, are the
\* file, each but the last of the full size: chunk i is at (i-1) * ChunkSize.
ChunksCoverFile ==
    \A u \in available :
        /\ FlattenSeq(hashes[u]) = Content[u]
        /\ \A i \in 1..(Len(hashes[u]) - 1) : Len(hashes[u][i]) = ChunkSize

\* "Any file that is available to be requested for by anyone on the network
\* is in files/stored" (peer/README.md:127): every chunk of an upload is
\* there, whatever other uploads and puts share it, except those that another
\* writer's clean-up or eviction removed: a failed upload also removes chunks
\* that it shares with a file registered before.
AvailableIsStored ==
    \A u \in available : \A i \in 1..Len(hashes[u]) :
        hashes[u][i] \in DOMAIN dir \cup lost

\* A file's data begin with the data its name is the hash of, also when
\* several writers write it at once, unless one has just truncated it or a
\* write failed.
ContentAddressed ==
    \A h \in DOMAIN dir \ lost :
        \/ IsPrefix(h, dir[h])
        \/ \E w \in Writers : linked[w] /\ Name(w) = h

\* What an upload registered is in files/stored under its hash and adds up to
\* the file, however writers that share chunks interleave or fail.
ChunkStoreInvariant ==
    /\ ChunkStoreTypeOK /\ ChunksCoverFile /\ AvailableIsStored /\ ContentAddressed
=============================================================================
