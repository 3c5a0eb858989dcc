---------------------------- MODULE FileTransfer ----------------------------
(***************************************************************************)
(* Paid download of a file, chunk by chunk: jobRoutine (or the command     *)
(* line's "get") picks a holder, Client.GetFileOnce requests, pays for and *)
(* writes the chunks, and the holder's HandleStoredFileStream serves them, *)
(* while the user starts, pauses, terminates and removes the job, streams  *)
(* break, holders come and go, and the peer's process dies.                *)
(*                                                                         *)
(* A worker is one call of GetFileOnce.  Workers 1..MaxJobs are the        *)
(* goroutines of the jobs of JobTable; workers (1-MaxGets)..0 are the      *)
(* successive "get"s of the command line, whose job id is the empty string *)
(* and which therefore have no row in the table.                           *)
(***************************************************************************)
EXTENDS JobTable, Sequences, FiniteSets

CONSTANTS
    MaxGets,    \* how many "get" commands are typed (a bound)
    Peers,      \* the other nodes
    Files,      \* file hashes
    Chunks,     \* Chunks[f]: how many chunk hashes the holders of f have
    Offers,     \* the lists of holders the market may answer with
    None        \* no file, or no holder, chosen yet

Offer == [id : Peers, price : Nat]
NoOffer == [id |-> None, price |-> 0]

ASSUME TransferAssumption ==
    /\ MaxGets \in Nat
    /\ Chunks \in [Files -> Nat]
    /\ Offers \subseteq Seq(Offer)

Gets == (1 - MaxGets)..0
Workers == (1 - MaxGets)..MaxJobs

VARIABLES
    pc,         \* where each worker is
    file,       \* hash it downloads
    holder,     \* [id, price] of the holder it chose
    next,       \* chunkIndex + 1
    stream,     \* its libp2p stream, and what is in flight on it
    serves,     \* serves[p]: hashes for which p has a stream handler
    disk,       \* disk[f]: the chunks in ./files/requested/f, by index
    paid,       \* history variable: payments each worker made
    spent,      \* history variable: coins each worker's payments moved
    written,    \* history variable: chunks each worker wrote
    late,       \* history variable: payments for j since its status last
                \* changed, if that status is "paused" or "terminated"
    misread,    \* history variable: scans of j since its status last changed
                \* that returned something else
    revived     \* history variable: jobs StartJob was called on after they
                \* were over

workerVars == <<pc, file, holder, next, stream>>
ghostVars == <<paid, spent, written, late, misread, revived>>
vars == <<jobs, issued, scan, pc, file, holder, next, stream, serves, disk,
          paid, spent, written, late, misread, revived>>

Running == {"lookup", "connect", "request", "recv", "pay", "account", "write",
            "check", "scan", "poll", "pollscan", "finish", "fail"}
Ended == {"unheld", "failed", "stopped", "finished", "killed"}

Open == {"idle", "request", "response"}

\* The types of the job table, of the workers of GetFileOnce and of what they share.
TypeOK ==
    /\ TableTypeOK
    /\ pc \in [Workers -> {"idle"} \cup Running \cup Ended]
    /\ file \in [Workers -> Files \cup {None}]
    /\ holder \in [Workers -> Offer \cup {NoOffer}]
    /\ next \in [Workers -> Nat]
    /\ stream \in [Workers -> {"none", "closed"} \cup Open]
    /\ serves \in [Peers -> SUBSET Files]
    /\ disk \in [Files -> Seq(Nat)]
    /\ paid \in [Workers -> Nat]
    /\ spent \in [Workers -> Nat]
    /\ written \in [Workers -> Nat]
    /\ late \in [JobIds -> Nat]
    /\ misread \in [JobIds -> Nat]
    /\ revived \in SUBSET JobIds

Init ==
    /\ TableInit
    /\ pc = [w \in Workers |-> "idle"]
    /\ file = [w \in Workers |-> None]
    /\ holder = [w \in Workers |-> NoOffer]
    /\ next = [w \in Workers |-> 0]
    /\ stream = [w \in Workers |-> "none"]
    /\ serves = [p \in Peers |-> Files]
    /\ disk = [f \in Files |-> <<>>]
    /\ paid = [w \in Workers |-> 0]
    /\ spent = [w \in Workers |-> 0]
    /\ written = [w \in Workers |-> 0]
    /\ late = [j \in JobIds |-> 0]
    /\ misread = [j \in JobIds |-> 0]
    /\ revived = {}

-----------------------------------------------------------------------------
(* The user: AddJobHandler, the command line, the job routes. *)

Goto(w, from, to) == pc[w] = from /\ pc' = [pc EXCEPT ![w] = to]

AddJobHandler(j, f) ==
    /\ AddJob(j)
    /\ Goto(j, "idle", "lookup")
    /\ file' = [file EXCEPT ![j] = f]
    /\ UNCHANGED <<holder, next, stream, serves, disk, ghostVars>>

\* The command line runs one "get" at a time.
Get(w, f) ==
    /\ \A v \in Gets : v > w => pc[v] \in Ended
    /\ Goto(w, "idle", "lookup")
    /\ file' = [file EXCEPT ![w] = f]
    /\ UNCHANGED <<jobs, issued, scan, holder, next, stream, serves, disk, ghostVars>>

\* The counts late and misread begin again when j's status changes.
StatusChange(j) ==
    IF jobs'[j].status = jobs[j].status
      THEN UNCHANGED <<late, misread>>
      ELSE /\ late' = [late EXCEPT ![j] = 0]
           /\ misread' = [misread EXCEPT ![j] = 0]

OnlyTable(j) ==
    /\ StatusChange(j)
    /\ UNCHANGED <<workerVars, serves, disk, paid, spent, written>>

UserStarts(j) ==
    /\ StartJob(j)
    /\ revived' = IF pc[j] \in Ended \/ jobs[j].status \in {"terminated", "finished"}
                    THEN revived \cup {j} ELSE revived
    /\ OnlyTable(j)

UserPauses(j) == PauseJob(j) /\ OnlyTable(j) /\ UNCHANGED revived
UserTerminates(j) == TerminateJob(j) /\ OnlyTable(j) /\ UNCHANGED revived
UserRemoves(j) == RemoveFromHistory(j) /\ OnlyTable(j) /\ UNCHANGED revived

-----------------------------------------------------------------------------
(* The worker: jobRoutine, then GetFileOnce. *)

\* The first of the cheapest offers.  jobRoutine also looks for the peer the
\* user asked for by comparing the DER bytes of each holder's key with a
\* string decoded from JSON; DER bytes are not valid UTF-8, so none is equal.
BestHolder(offers) ==
    offers[CHOOSE i \in DOMAIN offers : \A k \in DOMAIN offers :
             /\ offers[i].price <= offers[k].price
             /\ offers[i].price = offers[k].price => i <= k]

\* Without a holder (also when the market cannot be asked) the routine
\* returns and leaves the job's status as it is.
Lookup(w) ==
    /\ \/ Goto(w, "lookup", "unheld") /\ UNCHANGED holder
       \/ /\ Goto(w, "lookup", "connect")
          /\ \E offers \in Offers \ {<<>>} :
               holder' = [holder EXCEPT ![w] = BestHolder(offers)]
    /\ UNCHANGED <<jobs, issued, scan, file, next, stream, serves, disk, ghostVars>>

\* Dialling and opening the stream fail when the holder has no handler for
\* the hash, and may fail for any reason.
Connect(w) ==
    /\ \/ /\ Goto(w, "connect", "request")
          /\ file[w] \in serves[holder[w].id]
          /\ stream' = [stream EXCEPT ![w] = "idle"]
       \/ /\ Goto(w, "connect", "fail")
          /\ UNCHANGED stream
    /\ UNCHANGED <<jobs, issued, scan, file, holder, next, serves, disk, ghostVars>>

SendRequest(w) ==
    /\ \/ /\ stream[w] = "idle"
          /\ Goto(w, "request", "recv")
          /\ stream' = [stream EXCEPT ![w] = "request"]
       \/ /\ stream[w] = "closed"
          /\ Goto(w, "request", "fail")
          /\ UNCHANGED stream
    /\ UNCHANGED <<jobs, issued, scan, file, holder, next, serves, disk, ghostVars>>

Receive(w) ==
    /\ \/ /\ stream[w] = "response"
          /\ Goto(w, "recv", "pay")
          /\ stream' = [stream EXCEPT ![w] = "idle"]
       \/ /\ stream[w] = "closed"
          /\ Goto(w, "recv", "fail")
          /\ UNCHANGED stream
    /\ UNCHANGED <<jobs, issued, scan, file, holder, next, serves, disk, ghostVars>>

Stopped(j) == jobs[j].status \in {"paused", "terminated"}

\* Mutation: a failed payment is tried again.
PayRetries(w) ==
    /\ Goto(w, "pay", "account") \/ Goto(w, "pay", "pay")
    /\ paid' = [paid EXCEPT ![w] = @ + 1]
    /\ spent' = [spent EXCEPT ![w] = @ + holder[w].price]
    /\ UNCHANGED <<jobs, issued, scan, file, holder, next, stream, serves, disk,
                   written, late, misread, revived>>

\* sendTransactionFee runs btcctl.  It may fail before the coins have moved,
\* and it may report an error after they have.
Pay(w) ==
    /\ Goto(w, "pay", "account") \/ Goto(w, "pay", "fail")
    /\ \/ /\ paid' = [paid EXCEPT ![w] = @ + 1]
          /\ spent' = [spent EXCEPT ![w] = @ + holder[w].price]
          /\ late' = IF w \in JobIds /\ Stopped(w) THEN [late EXCEPT ![w] = @ + 1] ELSE late
       \/ /\ pc'[w] = "fail"
          /\ UNCHANGED <<paid, spent, late>>
    /\ UNCHANGED <<jobs, issued, scan, file, holder, next, stream, serves, disk,
                   written, misread, revived>>

\* The price was printed from an int64, so it parses; the transaction that
\* SendTransaction would post has no valid URL and is dropped.
Account(w) ==
    /\ Goto(w, "account", "write")
    /\ IF w \in JobIds THEN UpdateJobCost(w, holder[w].price)
                       ELSE UNCHANGED <<jobs, issued, scan>>
    /\ UNCHANGED <<file, holder, next, stream, serves, disk, ghostVars>>

\* WriteChunk for a given test of the last chunk and a given new file.
WriteChunkWith(w, last, contents) ==
    /\ pc[w] = "write"
    /\ disk' = [disk EXCEPT ![file[w]] = contents]
    /\ written' = [written EXCEPT ![w] = @ + 1]
    /\ IF last
         THEN Goto(w, "write", "finish") /\ UNCHANGED next
         ELSE /\ Goto(w, "write", IF w \in JobIds THEN "check" ELSE "request")
              /\ next' = [next EXCEPT ![w] = @ + 1]
    /\ UNCHANGED <<jobs, issued, scan, file, holder, stream, serves, paid, spent,
                   late, misread, revived>>

\* Mutations: the loop ends one chunk early, or one chunk late, or the file
\* is truncated by whoever writes its first chunk.
WriteChunkShort(w) ==
    WriteChunkWith(w, next[w] >= Chunks[file[w]] - 2, Append(disk[file[w]], next[w]))
WriteChunkLong(w) ==
    WriteChunkWith(w, next[w] = Chunks[file[w]], Append(disk[file[w]], next[w]))
WriteChunkTruncates(w) ==
    WriteChunkWith(w, next[w] = Chunks[file[w]] - 1,
                   IF next[w] = 0 THEN <<0>> ELSE Append(disk[file[w]], next[w]))

\* Append the chunk to ./files/requested/<hash>, whatever is there already,
\* and stop after the last one.
WriteChunk(w) ==
    WriteChunkWith(w, next[w] = Chunks[file[w]] - 1, Append(disk[file[w]], next[w]))

\* The status check between two chunks, and the poll of a paused job.
BeginCheck(j) ==
    /\ Goto(j, "check", "scan") \/ Goto(j, "poll", "pollscan")
    /\ GetJobStatusBegin(j)
    /\ UNCHANGED <<file, holder, next, stream, serves, disk, ghostVars>>

\* The end of a check that returns status and sends the worker to "to".
EndScan(j, status, from, to) ==
    /\ GetJobStatusEnd(j, status)
    /\ Goto(j, from, to)
    /\ stream' = IF to = "stopped" THEN [stream EXCEPT ![j] = "closed"] ELSE stream
    /\ misread' = IF status = jobs[j].status THEN misread ELSE [misread EXCEPT ![j] = @ + 1]
    /\ UNCHANGED <<file, holder, next, serves, disk, paid, spent, written, late, revived>>

\* Mutation: a terminated job is not noticed between chunks.
EndCheckMissesTerminated(j) ==
    \E status \in scan[j] :
        EndScan(j, status, "scan", IF status = "paused" THEN "poll" ELSE "request")

EndCheck(j) ==
    \E status \in scan[j] :
        EndScan(j, status, "scan", CASE status = "terminated" -> "stopped"
                                     [] status = "paused" -> "poll"
                                     [] OTHER -> "request")

\* Mutation: only "active" ends the wait.
EndPollAwaitsActive(j) ==
    \E status \in scan[j] :
        EndScan(j, status, "pollscan", IF status = "active" THEN "request" ELSE "poll")

\* Anything but "paused" ends the wait; "terminated" is not looked at again
\* before the next chunk has been paid for.
EndPoll(j) ==
    \E status \in scan[j] :
        EndScan(j, status, "pollscan", IF status = "paused" THEN "poll" ELSE "request")

\* The last UpdateJobStatus of a worker, and its deferred s.Close().
Report(w, from, status, to) ==
    /\ Goto(w, from, to)
    /\ IF w \in JobIds THEN UpdateJobStatus(w, status) /\ StatusChange(w)
                       ELSE UNCHANGED <<jobs, issued, scan, late, misread>>
    /\ stream' = [stream EXCEPT ![w] = IF @ = "none" THEN @ ELSE "closed"]
    /\ UNCHANGED <<file, holder, next, serves, disk, paid, spent, written, revived>>

Finish(w) == Report(w, "finish", "finished", "finished")

\* Mutation: an error path returns without UpdateJobStatus.
FailSilently(w) ==
    /\ Goto(w, "fail", "failed")
    /\ UNCHANGED <<jobs, issued, scan, file, holder, next, stream, serves, disk, ghostVars>>

Fail(w) == Report(w, "fail", "terminated", "failed")

\* A failed write ends in log.Fatal: the process exits with every worker in
\* it.  So does a crash of the machine, or "exit" on the command line.
Kill ==
    /\ TableRestart
    /\ pc' = [w \in Workers |-> IF pc[w] \in Running THEN "killed" ELSE pc[w]]
    /\ stream' = [w \in Workers |-> IF stream[w] \in Open THEN "closed" ELSE stream[w]]
    /\ late' = [j \in JobIds |-> 0]
    /\ misread' = [j \in JobIds |-> 0]
    /\ UNCHANGED <<file, holder, next, serves, disk, paid, spent, written, revived>>

-----------------------------------------------------------------------------
(* Holders and the network. *)

\* HandleStoredFileStream answers with the chunk, or returns on an error
\* (its chunk file is gone) and so closes the stream.
Serve(w) ==
    /\ stream[w] = "request"
    /\ next[w] < Chunks[file[w]]
    /\ stream' = [stream EXCEPT ![w] = "response"]
    /\ UNCHANGED <<jobs, issued, scan, pc, file, holder, next, serves, disk, ghostVars>>

\* A stream breaks, or the holder closes it.
Break(w) ==
    /\ stream[w] \in Open
    /\ stream' = [stream EXCEPT ![w] = "closed"]
    /\ UNCHANGED <<jobs, issued, scan, pc, file, holder, next, serves, disk, ghostVars>>

\* The holder's process ends: it crashed, or it was asked for a chunk index
\* that its list of chunk hashes does not have and panicked.
HolderDies(p) ==
    /\ serves' = [serves EXCEPT ![p] = {}]
    /\ stream' = [w \in Workers |-> IF stream[w] \in Open /\ holder[w].id = p
                                      THEN "closed" ELSE stream[w]]
    /\ UNCHANGED <<jobs, issued, scan, pc, file, holder, next, disk, ghostVars>>

OutOfRange(w) == stream[w] = "request" /\ next[w] >= Chunks[file[w]]

HolderPanics(w) == OutOfRange(w) /\ HolderDies(holder[w].id)

\* SetupRegisterFile ends by setting the stream handler.
HolderRegisters(p, f) ==
    /\ f \notin serves[p]
    /\ serves' = [serves EXCEPT ![p] = @ \cup {f}]
    /\ UNCHANGED <<jobs, issued, scan, workerVars, disk, ghostVars>>

-----------------------------------------------------------------------------
User ==
    \/ \E j \in JobIds : \/ \E f \in Files : AddJobHandler(j, f)
                         \/ UserStarts(j) \/ UserPauses(j)
                         \/ UserTerminates(j) \/ UserRemoves(j)
    \/ \E w \in Gets, f \in Files : Get(w, f)

Worker(w) ==
    \/ Lookup(w) \/ Connect(w) \/ SendRequest(w) \/ Receive(w)
    \/ Pay(w) \/ Account(w) \/ WriteChunk(w) \/ Finish(w) \/ Fail(w)
    \/ w \in JobIds /\ (BeginCheck(w) \/ EndCheck(w) \/ EndPoll(w))

Network ==
    \/ \E w \in Workers : Serve(w) \/ Break(w) \/ HolderPanics(w)
    \/ \E p \in Peers : HolderDies(p) \/ \E f \in Files : HolderRegisters(p, f)

Next == User \/ (\E w \in Workers : Worker(w)) \/ Network \/ Kill

\* Goroutines keep running; a holder answers, panics or closes the stream.
Fairness == \A w \in Workers : WF_vars(Worker(w)) /\ WF_vars(Serve(w) \/ HolderPanics(w))

Spec == Init /\ [][Next]_vars /\ Fairness

-----------------------------------------------------------------------------
(* Properties *)

\* The peer pays for a chunk before it keeps it, and for no chunk twice: a
\* worker, dead or alive, has paid for every chunk it wrote and for at most
\* one more, the one it was about to write.  GetFileOnce pays on receipt and
\* writes afterwards, and any failure, pause or crash may fall in between.
PayPerChunk ==
    \A w \in Workers : written[w] <= paid[w] /\ paid[w] <= written[w] + 1

\* AccumulatedCost of a job in the table is what its worker spent, except for
\* the one payment that has been made and not yet accounted for: while the
\* worker is between the two, or when it ended because btcctl reported an
\* error after the coins had moved.
CostIsSpent ==
    \A j \in JobIds : InTable(j) =>
        \/ spent[j] = jobs[j].cost
        \/ /\ pc[j] \in {"account", "fail", "failed"}
           /\ spent[j] = jobs[j].cost + holder[j].price

\* A job that shows "finished" has written every chunk of its file, paid for
\* each exactly once, and its worker is over; no other writer of the status
\* can make it look finished.
FinishedMeansComplete ==
    \A j \in JobIds : jobs[j].status = "finished" =>
        /\ pc[j] = "finished"
        /\ written[j] = Chunks[file[j]]
        /\ paid[j] = Chunks[file[j]]

\* After a pause or a termination at most the chunk in flight is still paid
\* for, as long as the status stays: each further payment needs a status
\* check that misread the table because a writer was changing it meanwhile.
StopBound ==
    \A j \in JobIds : Stopped(j) => late[j] <= 1 + misread[j]

\* A job that shows "active" has a live worker, unless no holder was found,
\* the user started it again when it was over, or a racing scan misled its
\* worker.  Every error path of GetFileOnce must report the failure.
ActiveMeansRunning ==
    \A j \in JobIds : jobs[j].status = "active" =>
        \/ pc[j] \in Running
        \/ pc[j] = "unheld"
        \/ j \in revived
        \/ misread[j] > 0

\* A holder is never asked for a chunk its file does not have, unless the
\* file is empty (then chunkHashes[0] panics and takes the holder down).
RequestInRange ==
    \A w \in Workers : OutOfRange(w) => Chunks[file[w]] = 0

\* Chunk i of a file is in ./files/requested as often as workers got that
\* far: nothing is lost, and nothing is written twice by one worker.
DiskAccounts ==
    \A f \in Files : \A i \in 0..Chunks[f] :
        Cardinality({n \in DOMAIN disk[f] : disk[f][n] = i}) =
        Cardinality({w \in Workers : file[w] = f /\ written[w] > i})

\* A download that is not left paused for ever comes to an end: the worker
\* finishes, fails, stops, or dies with the process.  Lost streams, dead
\* holders and empty files must all wake it up.
DownloadsEnd ==
    /\ \A w \in Gets : <>[](pc[w] \notin Running)
    /\ \A j \in JobIds :
         <>[](jobs[j].status # "paused") => <>[](pc[j] \notin Running)

\* "Any file that has been requested by the user is stored in the
\* files/requested folder" (peer/README.md:125): when a job shows "finished",
\* the file on disk is the sequence of its chunks.  GetFileOnce opens the
\* file with O_APPEND and never truncates it, so what an earlier download of
\* the same hash left there stays in front.
FinishedFileIsWhole ==
    \A j \in JobIds : jobs[j].status = "finished" =>
        disk[file[j]] = [n \in 1..Chunks[file[j]] |-> n - 1]
=============================================================================
