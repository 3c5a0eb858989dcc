--------------------------- MODULE GoroutineProofs ---------------------------
(***************************************************************************)
(* Proofs about the three components whose goroutines share state under    *)
(* mutexes and channels, for every number of jobs, calls, connections and  *)
(* requests: the job manager never loses track of what jobs.json holds;    *)
(* no peer-table call undoes what another has stored; and no call of the   *)
(* RPC client is forgotten while it waits.                                 *)
(***************************************************************************)
EXTENDS JobManager, PeerTable, RpcClient, JobTableProofs, SetSums

-----------------------------------------------------------------------------
(* The job manager *)

\* Every row of the table belongs to an id that was given out, so the row that
\* AddJob fills is not in jobs.json: HistoryNotAhead needs it.
RowsIssued == \A j \in JobIds : jobs[j] # Absent => j <= issued

\* The inductive invariant.
IInv == TypeOK /\ CleanMeansSaved /\ HistoryNotAhead /\ RowsIssued

-----------------------------------------------------------------------------

\* The manager starts with an empty table and a clear flag.
LEMMA InitIInv == Init => IInv
<1> SUFFICES ASSUME Init PROVE IInv
  OBVIOUS
<1>1. TypeOK
  BY TableInitTypeOK, RowType DEF Init, TypeOK, File, NoJobs
<1>2. jobs = NoJobs /\ history.rows = NoJobs /\ lastSave = "none"
  BY DEF Init, TableInit, NoJobs
<1> QED
  BY <1>1, <1>2 DEF IInv, CleanMeansSaved, HistoryNotAhead, RowsIssued, NoJobs

\* What a step that changes the table owes the invariant: it sets Changed,
\* the rows it leaves belong to given-out ids, and it lowers no cost of a row
\* that jobs.json may have.
LEMMA WriterStep ==
    ASSUME IInv, Writes, TableTypeOK',
           issued <= issued',
           \A j \in JobIds : jobs'[j] # Absent => j <= issued',
           \A j \in JobIds : history.rows[j] # Absent /\ InTable(j)' =>
                                 history.rows[j].cost <= jobs'[j].cost
    PROVE  IInv'
<1> USE DEF IInv
<1>1. TypeOK'
  BY DEF TypeOK, Writes
<1>2. CleanMeansSaved'
  BY DEF CleanMeansSaved, Writes
<1>3. HistoryNotAhead'
  <2>1. history' = history
    BY DEF Writes
  <2>2. issued \in Nat /\ issued' \in Nat /\ JobIds \subseteq Nat
    BY MaxJobsAssumption DEF TypeOK, TableTypeOK, JobIds
  <2>3. ASSUME NEW j \in JobIds, history.rows[j] # Absent
        PROVE  j <= issued'
    BY <2>2, <2>3 DEF HistoryNotAhead
  <2>4. ASSUME NEW j \in JobIds, history.rows[j] # Absent, InTable(j)'
        PROVE  history.rows[j].cost <= jobs'[j].cost
    BY <2>4
  <2> QED
    BY <2>1, <2>3, <2>4 DEF HistoryNotAhead
<1>4. RowsIssued'
  BY DEF RowsIssued
<1> QED
  BY <1>1, <1>2, <1>3, <1>4

\* A step that keeps statuses in or out of the table and lowers no cost.
LEMMA UpdateStep ==
    ASSUME IInv, Writes, TableTypeOK', issued' = issued,
           \A j \in JobIds : jobs[j].cost <= jobs'[j].cost,
           \A j \in JobIds : InTable(j)' <=> InTable(j),
           \A j \in JobIds : jobs'[j] # Absent => jobs[j] # Absent
    PROVE  IInv'
<1>1. \A j \in JobIds : jobs'[j] # Absent => j <= issued'
  BY DEF IInv, RowsIssued
<1>2. ASSUME NEW j \in JobIds, history.rows[j] # Absent, InTable(j)'
      PROVE  history.rows[j].cost <= jobs'[j].cost
  <2>1. history.rows[j].cost \in Nat /\ jobs[j].cost \in Nat /\ jobs'[j].cost \in Nat
    BY DEF IInv, TypeOK, TableTypeOK, File, Row
  <2>2. history.rows[j].cost <= jobs[j].cost
    BY <1>2 DEF IInv, HistoryNotAhead
  <2> QED
    BY <2>1, <2>2
<1>3. issued <= issued'
  BY MaxJobsAssumption DEF IInv, TypeOK, TableTypeOK
<1> QED
  BY <1>1, <1>2, <1>3, WriterStep

\* Steps that leave the table alone.
LEMMA TableUnchanged ==
    ASSUME IInv, jobs' = jobs, issued' = issued, scan' = scan
    PROVE  TableTypeOK' /\ RowsIssued'
BY DEF IInv, TypeOK, TableTypeOK, RowsIssued

\* The invariant is inductive: one case for each action.
LEMMA NextIInv == IInv /\ [Next]_vars => IInv'
<1> SUFFICES ASSUME IInv, [Next]_vars PROVE IInv'
  OBVIOUS
<1>t. TableTypeOK /\ JobIds \subseteq Nat /\ issued \in Nat
  BY MaxJobsAssumption DEF IInv, TypeOK, TableTypeOK, JobIds
<1>s. ASSUME NEW j \in JobIds, NEW s \in Status, SetStatus(j, s), Writes
      PROVE  IInv'
  <2>1. \A k \in JobIds : jobs[k].cost \in Nat
    BY <1>t DEF TableTypeOK, Row
  <2> QED
    BY <1>s, <1>t, <2>1, SetStatusFacts, UpdateStep
<1>1. CASE Add
  <2> PICK j \in JobIds : AddJob(j)
    BY <1>1 DEF Add
  <2>1. /\ TableTypeOK' /\ j = issued + 1 /\ issued' = j
        /\ \A k \in JobIds \ {j} : jobs'[k] = jobs[k]
    BY <1>t, AddJobFacts
  <2>2. \A k \in JobIds : jobs'[k] # Absent => k <= issued'
    BY <1>t, <2>1 DEF IInv, RowsIssued
  <2>3. history.rows[j] = Absent
    BY <1>t, <2>1 DEF IInv, HistoryNotAhead
  <2>4. \A k \in JobIds : history.rows[k] # Absent /\ InTable(k)' =>
            history.rows[k].cost <= jobs'[k].cost
    BY <2>1, <2>3 DEF IInv, HistoryNotAhead, InTable
  <2> QED
    BY <1>1, <1>t, <2>1, <2>2, <2>4, WriterStep DEF Add
<1>2. CASE Start
  BY <1>2, <1>s DEF Start, StartJob, Status
<1>3. CASE Pause
  BY <1>3, <1>s DEF Pause, PauseJob, Status
<1>4. CASE Terminate
  BY <1>4, <1>s DEF Terminate, TerminateJob, Status
<1>5. CASE Remove
  <2> PICK j \in JobIds : RemoveFromHistory(j)
    BY <1>5 DEF Remove
  <2>1. /\ TableTypeOK' /\ issued' = issued /\ jobs'[j] = Absent
        /\ \A k \in JobIds \ {j} : jobs'[k] = jobs[k]
    BY <1>t, RemoveFacts
  <2>2. \A k \in JobIds : jobs'[k] # Absent => k <= issued'
    BY <2>1 DEF IInv, RowsIssued
  <2>3. ~InTable(j)'
    BY <2>1 DEF InTable, Absent
  <2>4. \A k \in JobIds : history.rows[k] # Absent /\ InTable(k)' =>
            history.rows[k].cost <= jobs'[k].cost
    BY <2>1, <2>3 DEF IInv, HistoryNotAhead, InTable
  <2> QED
    BY <1>5, <1>t, <2>1, <2>2, <2>4, WriterStep DEF Remove
<1>6. CASE Clear
  <2>1. jobs' = jobs /\ issued' = issued /\ scan' = scan
    BY <1>6, <1>t, ClearHistoryKeepsAll DEF Clear, tableVars
  <2>2. TableTypeOK' /\ RowsIssued'
    BY <2>1, TableUnchanged
  <2>3. TypeOK'
    BY <1>6, <2>2 DEF Clear, IInv, TypeOK
  <2>4. CleanMeansSaved'
    BY <1>6, <2>1 DEF Clear, IInv, TypeOK, CleanMeansSaved
  <2>5. HistoryNotAhead'
    BY <1>6, <2>1 DEF Clear, IInv, HistoryNotAhead, InTable
  <2> QED
    BY <2>2, <2>3, <2>4, <2>5 DEF IInv
<1>7. CASE ReportStatus
  BY <1>7, <1>s DEF ReportStatus, UpdateJobStatus, Status
<1>8. CASE ReportCost
  <2> PICK j \in JobIds, c \in Prices : UpdateJobCost(j, c)
    BY <1>8 DEF ReportCost
  <2>1. c \in Nat
    BY PricesAssumption
  <2>2. \A k \in JobIds : InTable(k)' <=> InTable(k)
    BY <1>t, <2>1, UpdateJobCostFacts DEF InTable
  <2> QED
    BY <1>8, <1>t, <2>1, <2>2, UpdateJobCostFacts, UpdateStep DEF ReportCost
<1>9. ASSUME SaveHistory \/ SaveOpen \/ SaveWritten \/ SaveError \/ UNCHANGED vars
      PROVE  IInv'
  <2>1. jobs' = jobs /\ issued' = issued /\ scan' = scan
    BY <1>9 DEF SaveHistory, SaveOpen, SaveWritten, SaveError, vars
  <2>2. TableTypeOK' /\ RowsIssued'
    BY <2>1, TableUnchanged
  <2>3. TypeOK'
    <3>1. Truncated \in File /\ [readable |-> TRUE, rows |-> jobs] \in File
      BY <1>t, RowType DEF Truncated, File, NoJobs, TableTypeOK
    <3> QED
      BY <1>9, <2>2, <3>1
      DEF SaveHistory, SaveOpen, SaveWritten, SaveError, vars, IInv, TypeOK
  <2>4. CleanMeansSaved'
    BY <1>9, <2>1 DEF SaveHistory, SaveOpen, SaveWritten, SaveError, vars,
                      IInv, CleanMeansSaved, Locked
  <2>5. HistoryNotAhead'
    <3>1. history' = history \/ history'.rows = NoJobs \/ history'.rows = jobs
      BY <1>9 DEF SaveHistory, SaveOpen, SaveWritten, SaveError, vars, Truncated
    <3>2. \A j \in JobIds : jobs[j].cost \in Nat /\ NoJobs[j] = Absent
      BY <1>t DEF TableTypeOK, Row, NoJobs
    <3> QED
      BY <2>1, <3>1, <3>2 DEF IInv, HistoryNotAhead, RowsIssued, InTable
  <2> QED
    BY <2>2, <2>3, <2>4, <2>5 DEF IInv
<1>10. CASE Restart
  <2>1. TableTypeOK' /\ issued' = issued /\ \A j \in JobIds : jobs'[j] = Absent
    BY <1>10, <1>t, RestartFacts DEF Restart
  <2>2. jobs' = NoJobs
    BY <1>10 DEF Restart, TableRestart, NoJobs
  <2>3. \A j \in JobIds : ~InTable(j)'
    BY <2>1 DEF InTable, Absent
  <2>4. TypeOK'
    BY <1>10, <2>1 DEF Restart, IInv, TypeOK
  <2>5. CleanMeansSaved'
    BY <1>10, <2>2 DEF Restart, CleanMeansSaved, NoJobs
  <2>6. HistoryNotAhead'
    BY <1>10, <2>1, <2>3 DEF Restart, IInv, HistoryNotAhead
  <2>7. RowsIssued'
    BY <2>1 DEF RowsIssued
  <2> QED
    BY <2>4, <2>5, <2>6, <2>7 DEF IInv
<1> QED
  BY <1>1, <1>2, <1>3, <1>4, <1>5, <1>6, <1>7, <1>8, <1>9, <1>10 DEF Next

\* Every reachable state of the job manager satisfies the invariant.
THEOREM Invariance == Spec => []IInv
BY InitIInv, NextIInv, PTL DEF Spec

\* The job manager's state is well typed: no writer, save or restart leaves a
\* row with an unknown status or a negative cost.
THEOREM TypeCorrect == Spec => []TypeOK
BY Invariance, PTL DEF IInv

\* However many jobs there are and wherever the process stops, a clear
\* Changed flag between saves means that jobs.json is the table.
THEOREM CleanIsSaved == Spec => []CleanMeansSaved
BY Invariance, PTL DEF IInv

\* jobs.json never shows more cost than the table, nor an unknown job.
THEOREM HistoryBehind == Spec => []HistoryNotAhead
BY Invariance, PTL DEF IInv

-----------------------------------------------------------------------------
(* The peer table *)

\* A call that was not begun is nowhere.
NotBegun == \A c \in Calls : c > begun => call[c].at = "none"

\* A call at work holds the mutex, its peer is in the table and its copy is
\* still the row: nobody else writes that row meanwhile.
WorkerOwns ==
    \A c \in Calls : call[c].at = "work" =>
        /\ mutex = c
        /\ call[c].peer \in known
        /\ call[c].val = row[call[c].peer]

\* The inductive invariant.
PeerTableIInv == PeerTableInvariant /\ NotBegun /\ WorkerOwns

-----------------------------------------------------------------------------

\* New and changed rows are rows.
LEMMA RowTypes ==
    /\ NewRow \in PeerRow
    /\ \A v \in PeerRow : /\ [v EXCEPT !.located = TRUE] \in PeerRow
                          /\ [v EXCEPT !.timed = TRUE] \in PeerRow
                          /\ [v EXCEPT !.open = FALSE] \in PeerRow
BY DEF NewRow, PeerRow

\* The values of the mutex, free, leaked or the call that has it, are told apart.
LEMMA CallNumbers == Calls \subseteq Nat /\ Free \notin Calls /\ Leaked \notin Calls
                     /\ Leaked # Free /\ Leaked \in Nat /\ Calls \subseteq 0..Leaked
                     /\ Free \in 0..Leaked /\ Leaked \in 0..Leaked
BY PeerTableAssumption DEF Calls, Free, Leaked

\* What a call stores keeps whatever its copy of the row said.
LEMMA UpdatedFacts ==
    ASSUME PeerTableTypeOK, NEW c \in Calls
    PROVE  /\ Updated(c) \in PeerRow
           /\ call[c].val.located => Updated(c).located
           /\ call[c].val.timed => Updated(c).timed
           /\ ~call[c].val.open => ~Updated(c).open
<1>1. call[c].val \in PeerRow
  BY DEF PeerTableTypeOK, Call
<1>2. CASE call[c].op = "location"
  BY <1>1, <1>2, RowTypes DEF Updated, PeerRow
<1>3. CASE call[c].op = "latency"
  BY <1>1, <1>3, RowTypes DEF Updated, PeerRow
<1>4. CASE call[c].op \notin {"location", "latency"}
  <2>1. Updated(c) = [call[c].val EXCEPT !.open = FALSE]
    BY <1>4 DEF Updated
  <2>2. /\ Updated(c).located = call[c].val.located
        /\ Updated(c).timed = call[c].val.timed
        /\ Updated(c).open = FALSE
    BY <1>1, <2>1 DEF PeerRow
  <2>3. Updated(c) \in PeerRow
    BY <1>1, <2>1, RowTypes
  <2> QED
    BY <2>2, <2>3
<1> QED
  BY <1>2, <1>3, <1>4

\* A look-up that returns without unlocking has a peer without a public address.
LEMMA RefusesFacts ==
    ASSUME NEW c \in Calls, Refuses(c)
    PROVE  Address[call[c].peer] # "public"
BY DEF Refuses

\* What beginning a call does: the row of calls gets one new entry, at the
\* mutex, and the calls at work are the ones that were.
LEMMA BeginFacts ==
    ASSUME PeerTableIInv, NEW p \in Peers,
           NEW op \in {"location", "latency", "remove", "find"}, Begin(op, p)
    PROVE  /\ call' \in [Calls -> Call] /\ begun' \in 0..MaxCalls
           /\ NotBegun'
           /\ \A c \in Calls : call'[c].at = "work" => call'[c] = call[c]
           /\ \A c \in Calls : call[c].at = "work" => call'[c] = call[c]
<1> DEFINE new == [op |-> op, peer |-> p, at |-> "lock", val |-> NewRow]
<1>1. begun + 1 \in Calls /\ begun' = begun + 1 /\ begun \in 0..MaxCalls
  BY PeerTableAssumption DEF PeerTableIInv, PeerTableInvariant, PeerTableTypeOK, Begin, Calls
<1>2. new \in Call
  BY RowTypes DEF Call
<1>3. call \in [Calls -> Call] /\ call' = [call EXCEPT ![begun + 1] = new]
  BY DEF PeerTableIInv, PeerTableInvariant, PeerTableTypeOK, Begin
<1>4. call[begun + 1].at = "none"
  BY <1>1, CallNumbers DEF PeerTableIInv, NotBegun
<1>5. \A c \in Calls : c # begun + 1 => call'[c] = call[c]
  BY <1>3
<1>6. call'[begun + 1].at = "lock"
  BY <1>1, <1>3
<1>7. NotBegun'
  BY <1>1, <1>5, CallNumbers DEF NotBegun, PeerTableIInv
<1>8. call' \in [Calls -> Call]
  BY <1>1, <1>2, <1>3
<1>9. begun' \in 0..MaxCalls
  BY <1>1, PeerTableAssumption DEF Calls
<1> QED
  BY <1>1, <1>4, <1>5, <1>6, <1>7, <1>8, <1>9

\* At start the mutex is free and no call has begun.
LEMMA PeerTableInitIInv == PeerTableInit => PeerTableIInv
<1> SUFFICES ASSUME PeerTableInit PROVE PeerTableIInv
  OBVIOUS
<1>1. (CHOOSE p \in Peers : TRUE) \in Peers
  BY PeerTableAssumption
<1>2. \A c \in Calls : call[c] \in Call /\ call[c].at = "none"
  BY <1>1, RowTypes DEF PeerTableInit, Call
<1>3. PeerTableTypeOK
  <2>1. call \in [Calls -> Call]
    BY <1>2 DEF PeerTableInit
  <2>2. row \in [Peers -> PeerRow] /\ \A p \in Peers \ known : row[p] = NewRow
    BY RowTypes DEF PeerTableInit
  <2>3. known = {} /\ mutex = Free /\ begun = 0 /\ crashed = FALSE
    BY DEF PeerTableInit
  <2>4. begun \in 0..MaxCalls
    BY <2>3, PeerTableAssumption
  <2> QED
    BY <2>1, <2>2, <2>3, <2>4, CallNumbers DEF PeerTableTypeOK
<1>4. LeakHasCause
  BY CallNumbers DEF PeerTableInit, LeakHasCause
<1> QED
  BY <1>2, <1>3, <1>4 DEF PeerTableIInv, PeerTableInvariant, NotBegun, WorkerOwns

\* A step that begins a call and leaves the mutex alone.
LEMMA BeginStep ==
    ASSUME PeerTableIInv, NEW p \in Peers,
           NEW op \in {"location", "latency", "remove", "find"}, Begin(op, p),
           mutex' = mutex, crashed' = crashed,
           \/ known' = known /\ row' = row
           \/ p \notin known /\ known' = known \cup {p} /\ row' = [row EXCEPT ![p] = NewRow]
    PROVE  PeerTableIInv'
<1>1. /\ call' \in [Calls -> Call] /\ begun' \in 0..MaxCalls /\ NotBegun'
      /\ \A c \in Calls : call'[c].at = "work" => call'[c] = call[c]
      /\ \A c \in Calls : call[c].at = "work" => call'[c] = call[c]
  BY BeginFacts
<1>2. PeerTableTypeOK /\ LeakHasCause /\ WorkerOwns
  BY DEF PeerTableIInv, PeerTableInvariant
<1>3. /\ known \subseteq known' /\ known' \subseteq Peers
      /\ row' \in [Peers -> PeerRow]
      /\ \A q \in known : row'[q] = row[q]
      /\ \A q \in Peers \ known' : row'[q] = NewRow
  BY <1>2, RowTypes DEF PeerTableTypeOK
<1>4. PeerTableTypeOK'
  BY <1>1, <1>2, <1>3 DEF PeerTableTypeOK
<1>5. LeakHasCause'
  BY <1>1, <1>2, <1>3 DEF LeakHasCause
<1>6. WorkerOwns'
  BY <1>1, <1>2, <1>3 DEF WorkerOwns
<1> QED
  BY <1>1, <1>4, <1>5, <1>6 DEF PeerTableIInv, PeerTableInvariant

\* A step of one call c that leaves the others where they are.
LEMMA PeerCallStep ==
    ASSUME PeerTableIInv, NEW c \in Calls, call[c].at \in {"lock", "work"},
           known' = known, begun' = begun, crashed' = crashed,
           row' \in [Peers -> PeerRow], \A p \in Peers \ known : row'[p] = row[p],
           call' \in [Calls -> Call], \A d \in Calls \ {c} : call'[d] = call[d]
    PROVE  /\ NotBegun'
           /\ mutex' \in 0..Leaked => PeerTableTypeOK'
<1>1. PeerTableTypeOK /\ NotBegun
  BY DEF PeerTableIInv, PeerTableInvariant
<1>2. c <= begun
  BY <1>1, CallNumbers, PeerTableAssumption DEF NotBegun, PeerTableTypeOK, Calls
<1>3. begun \in Nat
  BY <1>1, PeerTableAssumption DEF PeerTableTypeOK
<1>4. NotBegun'
  BY <1>1, <1>2, <1>3, CallNumbers DEF NotBegun
<1> QED
  BY <1>1, <1>4 DEF PeerTableTypeOK

\* The invariant is inductive: one case for each action.
LEMMA PeerTableNextIInv == PeerTableIInv /\ [PeerTableNext]_peerTableVars => PeerTableIInv'
<1> SUFFICES ASSUME PeerTableIInv, [PeerTableNext]_peerTableVars PROVE PeerTableIInv'
  OBVIOUS
<1>t. PeerTableTypeOK /\ LeakHasCause /\ NotBegun /\ WorkerOwns
  BY DEF PeerTableIInv, PeerTableInvariant
<1>1. ASSUME NEW p \in Peers, ListPeer(p) PROVE PeerTableIInv'
  BY <1>1, BeginStep DEF ListPeer
<1>2. ASSUME NEW p \in Peers, UpdateLatency(p) PROVE PeerTableIInv'
  BY <1>2, BeginStep DEF UpdateLatency
<1>3. ASSUME NEW p \in Peers, RemovePeer(p) PROVE PeerTableIInv'
  BY <1>3, BeginStep DEF RemovePeer
<1>4. ASSUME NEW p \in Peers, FindPeers(p) PROVE PeerTableIInv'
  BY <1>4, BeginStep DEF FindPeers
<1>5. ASSUME NEW c \in Calls, Lock(c) PROVE PeerTableIInv'
  <2>1. /\ call[c].at = "lock" /\ mutex = Free /\ mutex' = c /\ call[c].peer \in known
        /\ known' = known /\ row' = row /\ begun' = begun /\ crashed' = crashed
        /\ call' = [call EXCEPT ![c] = [@ EXCEPT !.at = "work", !.val = row[call[c].peer]]]
    BY <1>5, <1>t DEF Lock, Found, PeerTableTypeOK, Call
  <2>2. /\ call' \in [Calls -> Call] /\ \A d \in Calls \ {c} : call'[d] = call[d]
        /\ call'[c].at = "work" /\ call'[c].peer = call[c].peer
        /\ call'[c].val = row[call[c].peer]
    BY <1>t, <2>1 DEF PeerTableTypeOK, Call
  <2>3. PeerTableTypeOK' /\ NotBegun'
    BY <1>t, <2>1, <2>2, PeerCallStep, CallNumbers DEF PeerTableTypeOK
  <2>4. LeakHasCause'
    BY <2>1, <2>2, CallNumbers DEF LeakHasCause
  <2>5. \A d \in Calls \ {c} : call[d].at # "work"
    BY <1>t, <2>1, CallNumbers DEF WorkerOwns
  <2>6. WorkerOwns'
    BY <2>1, <2>2, <2>5 DEF WorkerOwns
  <2> QED
    BY <2>3, <2>4, <2>6 DEF PeerTableIInv, PeerTableInvariant
<1>d. ASSUME NEW c \in Calls, call[c].at \in {"lock", "work"}, call' = [call EXCEPT ![c].at = "done"]
      PROVE  /\ call' \in [Calls -> Call] /\ \A d \in Calls \ {c} : call'[d] = call[d]
             /\ call'[c].at = "done"
  BY <1>d, <1>t DEF PeerTableTypeOK, Call
<1>6. ASSUME NEW c \in Calls, NotFound(c) PROVE PeerTableIInv'
  <2>1. /\ call[c].at = "lock" /\ mutex = Free /\ mutex' = mutex
        /\ known' = known /\ row' = row /\ begun' = begun /\ crashed' = crashed
        /\ call' = [call EXCEPT ![c].at = "done"]
    BY <1>6 DEF NotFound
  <2>2. /\ call' \in [Calls -> Call] /\ \A d \in Calls \ {c} : call'[d] = call[d]
        /\ call'[c].at = "done"
    BY <1>d, <2>1
  <2>3. PeerTableTypeOK' /\ NotBegun'
    BY <1>t, <2>1, <2>2, PeerCallStep, CallNumbers DEF PeerTableTypeOK
  <2>4. LeakHasCause' /\ WorkerOwns'
    BY <1>t, <2>1, <2>2, CallNumbers DEF LeakHasCause, WorkerOwns
  <2> QED
    BY <2>3, <2>4 DEF PeerTableIInv, PeerTableInvariant
<1>7. ASSUME NEW c \in Calls, ReturnLocked(c) PROVE PeerTableIInv'
  <2>1. /\ call[c].at = "work" /\ mutex' = Leaked /\ Refuses(c)
        /\ known' = known /\ row' = row /\ begun' = begun /\ crashed' = crashed
        /\ call' = [call EXCEPT ![c].at = "done"]
    BY <1>7 DEF ReturnLocked
  <2>2. /\ call' \in [Calls -> Call] /\ \A d \in Calls \ {c} : call'[d] = call[d]
        /\ call'[c].at = "done"
    BY <1>d, <2>1
  <2>3. PeerTableTypeOK' /\ NotBegun'
    BY <1>t, <2>1, <2>2, PeerCallStep, CallNumbers DEF PeerTableTypeOK
  <2>4. call[c].peer \in known /\ Address[call[c].peer] # "public" /\ mutex = c
    BY <1>t, <2>1, RefusesFacts DEF WorkerOwns
  <2>5. LeakHasCause'
    BY <2>1, <2>4, CallNumbers DEF LeakHasCause
  <2>6. WorkerOwns'
    BY <1>t, <2>1, <2>2, <2>4, CallNumbers DEF WorkerOwns
  <2> QED
    BY <2>3, <2>5, <2>6 DEF PeerTableIInv, PeerTableInvariant
<1>8. ASSUME NEW c \in Calls, Store(c) PROVE PeerTableIInv'
  <2>1. /\ call[c].at = "work" /\ mutex' = Free
        /\ row' = [row EXCEPT ![call[c].peer] = Updated(c)]
        /\ known' = known /\ begun' = begun /\ crashed' = crashed
        /\ call' = [call EXCEPT ![c].at = "done"]
    BY <1>8 DEF Store
  <2>2. /\ call' \in [Calls -> Call] /\ \A d \in Calls \ {c} : call'[d] = call[d]
        /\ call'[c].at = "done"
    BY <1>d, <2>1
  <2>3. call[c].peer \in known /\ mutex = c /\ Updated(c) \in PeerRow
    BY <1>t, <2>1, UpdatedFacts DEF WorkerOwns
  <2>4. row' \in [Peers -> PeerRow] /\ \A p \in Peers \ known : row'[p] = row[p]
    BY <1>t, <2>1, <2>3 DEF PeerTableTypeOK
  <2>5. PeerTableTypeOK' /\ NotBegun'
    BY <1>t, <2>1, <2>2, <2>4, PeerCallStep, CallNumbers DEF PeerTableTypeOK
  <2>6. LeakHasCause' /\ WorkerOwns'
    BY <1>t, <2>1, <2>2, <2>3, CallNumbers DEF LeakHasCause, WorkerOwns
  <2> QED
    BY <2>5, <2>6 DEF PeerTableIInv, PeerTableInvariant
<1>9. CASE Crash
  BY <1>9, <1>t DEF Crash, PeerTableIInv, PeerTableInvariant, PeerTableTypeOK, LeakHasCause,
                    NotBegun, WorkerOwns
<1>10. CASE UNCHANGED peerTableVars
  BY <1>10, <1>t DEF peerTableVars, PeerTableIInv, PeerTableInvariant, PeerTableTypeOK, LeakHasCause,
                     NotBegun, WorkerOwns
<1> QED
  BY <1>1, <1>2, <1>3, <1>4, <1>5, <1>6, <1>7, <1>8, <1>9, <1>10 DEF PeerTableNext

\* The table is well typed, and peerTableMUT is only ever lost to an address
\* that getLocationFromIP or getLatency cannot use, whatever the peers.
THEOREM MutexLostForCause == PeerTableSpec => []PeerTableInvariant
<1>1. PeerTableIInv => PeerTableInvariant
  BY DEF PeerTableIInv
<1> QED
  BY <1>1, PeerTableInitIInv, PeerTableNextIInv, PTL DEF PeerTableSpec

\* No look-up and no removal undoes what another call stored in peerTable.
THEOREM NoLostUpdate == PeerTableSpec => UpdatesKept
<1> DEFINE Kept == \A p \in Peers : /\ row[p].located => row'[p].located
                                    /\ row[p].timed => row'[p].timed
                                    /\ ~row[p].open => ~row'[p].open
<1>1. ASSUME PeerTableIInv, [PeerTableNext]_peerTableVars PROVE [Kept]_peerTableVars
  <2>t. PeerTableTypeOK /\ WorkerOwns
    BY <1>1 DEF PeerTableIInv, PeerTableInvariant
  <2>1. ASSUME NEW p \in Peers, ListPeer(p) PROVE Kept
    BY <2>1, <2>t DEF ListPeer, PeerTableTypeOK
  <2>2. ASSUME NEW c \in Calls, Store(c) PROVE Kept
    <3>1. row' = [row EXCEPT ![call[c].peer] = Updated(c)] /\ call[c].val = row[call[c].peer]
      BY <2>2, <2>t DEF Store, WorkerOwns
    <3>2. /\ call[c].val.located => Updated(c).located
          /\ call[c].val.timed => Updated(c).timed
          /\ ~call[c].val.open => ~Updated(c).open
      BY <2>t, UpdatedFacts
    <3> QED
      BY <3>1, <3>2, <2>t DEF PeerTableTypeOK
  <2>3. CASE row' = row
    BY <2>3
  <2> QED
    BY <1>1, <2>1, <2>2, <2>3 DEF PeerTableNext, UpdateLatency, RemovePeer, FindPeers, Lock,
                                  NotFound, ReturnLocked, Crash, peerTableVars
<1> QED
  BY <1>1, PeerTableInitIInv, PeerTableNextIInv, PTL DEF PeerTableSpec, UpdatesKept

-----------------------------------------------------------------------------
(* The RPC client *)

\* Only keeps the elements in T, and no others.
LEMMA OnlyKeeps ==
    ASSUME NEW S, NEW s \in Seq(S), NEW T
    PROVE  Only(s, T) \in Seq(S) /\ Range(Only(s, T)) = Range(s) \cap T
<1> DEFINE n == Len(s)
           V == Seq(S)
           stp == [x \in (1..n) \X V |-> IF s[x[1]] \in T THEN Append(x[2], s[x[1]]) ELSE x[2]]
           Sol(f) == f = [i \in 0..n |-> IF i = 0 THEN <<>>
                              ELSE IF s[i] \in T THEN Append(f[i - 1], s[i]) ELSE f[i - 1]]
           g == CHOOSE f : Sol(f)
<1>1. n \in Nat /\ <<>> \in V /\ \A i \in 1..n : s[i] \in S
  OBVIOUS
<1>2. stp \in [(1..n) \X V -> V] /\ \A i \in 1..n, v \in V : stp[<<i, v>>] \in V
  OBVIOUS
<1>3. PICK h : Iterates(h, <<>>, stp, n)
  <2> HIDE DEF V, stp
  <2> QED
    BY <1>1, <1>2, IteratesExists
<1>4. \A i \in 0..n : h[i] \in V
  <2> HIDE DEF V, stp
  <2> QED
    BY <1>1, <1>2, <1>3, IteratesIn
<1>5. \A i \in 0..n : i # 0 => i \in 1..n /\ i - 1 \in 0..n
  BY <1>1
<1>6. Sol(h)
  <2>1. \A i \in 0..n : i # 0 =>
           stp[<<i, h[i - 1]>>] = IF s[i] \in T THEN Append(h[i - 1], s[i]) ELSE h[i - 1]
    <3> SUFFICES ASSUME NEW i \in 0..n, i # 0
                 PROVE stp[<<i, h[i - 1]>>] = IF s[i] \in T THEN Append(h[i - 1], s[i]) ELSE h[i - 1]
      OBVIOUS
    <3>1. <<i, h[i - 1]>> \in (1..n) \X V
      BY <1>4, <1>5
    <3> QED
      BY <3>1
  <2> QED
    BY <1>3, <2>1 DEF Iterates
<1>7. Sol(g)
  <2> HIDE DEF Sol
  <2> QED
    BY <1>6
<1>8. Only(s, T) = g[n]
  BY DEF Only
<1> HIDE DEF g
<1>9. \A i \in 0..n : g[i] = IF i = 0 THEN <<>>
                              ELSE IF s[i] \in T THEN Append(g[i - 1], s[i]) ELSE g[i - 1]
  BY <1>7
<1> DEFINE D == {k \in 0..n : g[k] \in Seq(S) /\ Range(g[k]) = {s[j] : j \in 1..k} \cap T}
<1>10. 0 \in D
  <2>1. 0 \in 0..n
    BY <1>1
  <2>2. g[0] = <<>>
    BY <1>9, <2>1
  <2>3. Range(<<>>) = {} /\ <<>> \in Seq(S) /\ 1..0 = {}
    BY <1>1, RangeIn
  <2> QED
    BY <2>1, <2>2, <2>3
<1>11. \A k \in 0..(n - 1) : k \in D => k + 1 \in D
  <2> SUFFICES ASSUME NEW k \in 0..(n - 1), k \in D PROVE k + 1 \in D
    OBVIOUS
  <2>1. k + 1 \in 0..n /\ k + 1 # 0 /\ (k + 1) - 1 = k /\ k \in Nat /\ k + 1 \in 1..n
    BY <1>1
  <2>2. g[k + 1] = IF s[k + 1] \in T THEN Append(g[k], s[k + 1]) ELSE g[k]
    BY <1>9, <2>1
  <2>3. {s[j] : j \in 1..(k + 1)} = {s[j] : j \in 1..k} \cup {s[k + 1]}
    BY <2>1
  <2>4. s[k + 1] \in S
    BY <1>1, <2>1
  <2>5. Range(Append(g[k], s[k + 1])) = Range(g[k]) \cup {s[k + 1]}
    BY <2>4, RangeAppend
  <2>6. CASE s[k + 1] \in T
    <3>1. g[k + 1] = Append(g[k], s[k + 1]) /\ g[k] \in Seq(S)
      BY <2>2, <2>6
    <3>2. g[k + 1] \in Seq(S)
      BY <2>4, <3>1
    <3>3. Range(g[k + 1]) = Range(g[k]) \cup {s[k + 1]} /\ Range(g[k]) = {s[j] : j \in 1..k} \cap T
      BY <2>5, <3>1
    <3>4. Range(g[k + 1]) = {s[j] : j \in 1..(k + 1)} \cap T
      BY ONLY <3>3, <2>3, <2>6
    <3> QED
      BY <2>1, <3>2, <3>4
  <2>7. CASE s[k + 1] \notin T
    BY <2>1, <2>2, <2>3, <2>4, <2>7
  <2> QED
    BY <2>6, <2>7
<1>12. n \in D
  <2> HIDE DEF D
  <2>1. \A i \in 0..n : i \in D
    BY <1>1, <1>10, <1>11, InductionUpTo
  <2> QED
    BY <1>1, <2>1
<1> QED
  BY <1>8, <1>12 DEF Range

RcPc == {"none", "loop", "select", "read", "write", "remove", "answer", "disconnect", "drain", "done"}
RcGo == [pc : RcPc, on : 0..RcConns, req : Req \cup {NoReq}]
RcSendPc == {"none", "register", "await", "copy", "check", "send", "done"}
RcSender == [pc : RcSendPc, on : 0..RcConns, todo : Seq(Req)]
RcCallRec == [pc : {"none", "send", "post", "done"}, on : 0..RcConns]
RcResponse == {"none", "result", "error", "twice"}
RcPostRec == [pc : {"none", "loop", "try", "drain", "done"}, req : Req \cup {NoReq}]

\* The types of the variables of the connection; the disconnect channels of
\* later connections are not closed.
RcConnTypes ==
    /\ rcMode \in {"reconnect", "once", "post"}
    /\ rcShut \in BOOLEAN /\ rcCur \in Conn /\ rcDown \in BOOLEAN
    /\ rcClosed \subseteq Conn /\ rcLink \subseteq Conn /\ rcFails \in 0..RcMaxFails
    /\ rcDown <=> rcCur \in rcClosed
    /\ rcRec \in {"none", "wait", "dial", "set", "done"}
    /\ rcRec = "set" => rcCur + 1 \in Conn
    /\ \A g \in rcClosed : g <= rcCur

\* The types of the variables about requests.
RcReqTypes ==
    /\ rcList \in Seq(Req) /\ rcSend \in Seq(Req) /\ Len(rcSend) <= RcBuffer
    /\ rcTracked \in BOOLEAN
    /\ rcResp \in [Req -> RcResponse]
    /\ rcCall \in [Req -> RcCallRec]
    /\ rcWire \in [Conn -> SUBSET Req]
    /\ rcPost \in RcPostRec
    /\ rcDrained \subseteq Req

\* The types of the goroutines of connections.
RcGoTypes ==
    /\ rcIn \in [Conn -> RcGo] /\ rcOut \in [Conn -> RcGo]
    /\ rcResend \in [Conn -> RcSender]

RcTypes == RcConnTypes /\ RcReqTypes /\ RcGoTypes

\* What the steps of the goroutines of connection g carry with them.
RcInPlace(g) ==
    /\ g > rcCur => rcIn[g].pc = "none" /\ rcIn[g] = Idle
    /\ rcIn[g].pc \in {"remove", "answer"} => rcIn[g].req \in Req
    /\ rcIn[g].pc = "read" => rcIn[g].on \in Conn
RcOutPlace(g) ==
    /\ g > rcCur => rcOut[g].pc = "none" /\ rcOut[g] = Idle
    /\ rcOut[g].pc = "write" => rcOut[g].req \in Req
    /\ rcOut[g].pc # "write" => rcOut[g].req = NoReq
    /\ rcOut[g].pc = "select" => g <= rcOut[g].on /\ rcOut[g].on <= rcCur
    /\ rcOut[g].pc = "drain" /\ g = rcCur => rcDown
RcResendPlace(g) ==
    /\ g > rcCur => rcResend[g].pc = "none" /\ rcResend[g] = NoResend
    /\ rcResend[g].pc # "none" => g > 1
    /\ rcResend[g].pc = "send" =>
          g <= rcResend[g].on /\ rcResend[g].on <= rcCur /\ rcResend[g].todo # <<>>
RcPlaces == \A g \in Conn : RcInPlace(g) /\ RcOutPlace(g) /\ RcResendPlace(g)

\* The two ways to work share no goroutine.
RcModes ==
    /\ rcMode = "post" =>
          /\ rcList = <<>> /\ rcRec = "none"
          /\ \A g \in Conn : rcIn[g].pc = "none" /\ rcOut[g].pc = "none" /\ rcResend[g].pc = "none"
          /\ \A m \in Req : rcCall[m].pc # "send"
    /\ rcMode # "post" => rcPost.pc = "none" /\ \A m \in Req : rcCall[m].pc # "post"
    /\ \A m \in Regs : rcResend[m[2]].pc \in {"none", "register"} => rcCall[m].pc = "none"
    /\ rcPost.pc = "try" => rcPost.req \in Req
    /\ rcPost.pc = "loop" => rcPost.req = NoReq

\* A request that has no entry yet.
Fresh(m) == IF m \in Regs THEN rcResend[m[2]].pc \in {"none", "register"} ELSE rcCall[m].pc = "none"
Answering(g, m) == rcIn[g].pc = "answer" /\ rcIn[g].req = m

\* One way at most leads from a request to its response.
RcToken(m) ==
    /\ rcResp[m] # "twice"
    /\ m \in Range(rcList) => rcResp[m] = "none"
    /\ \A g \in Conn : Answering(g, m) => rcResp[m] = "none" /\ m \notin Range(rcList)
    /\ \A g, h \in Conn : Answering(g, m) /\ Answering(h, m) => g = h
    /\ Fresh(m) => rcResp[m] = "none" /\ m \notin Range(rcList) /\ \A g \in Conn : ~Answering(g, m)
RcTokens == rcMode # "post" => \A m \in Req : RcToken(m)

Somewhere(m) ==
    \/ m \in Range(rcList)
    \/ \E g \in Conn : Answering(g, m)
    \/ m[1] \in RcRescan /\ rcCur > 1
    \/ rcMode = "post" /\ (rcShut \/ m \in Range(rcSend) \/ rcPost.req = m)

RcWait(m) == rcCall[m].pc \in {"send", "done"} /\ rcResp[m] = "none" => Somewhere(m)
RcWaits == \A m \in Req : RcWait(m)

\* A request of the list is on its way on the current connection, or will be.
RcCovered(m) ==
    \/ m \in Range(rcSend) \/ m \in rcWire[rcCur]
    \/ \E g \in Conn : rcOut[g].req = m
    \/ \E g \in Conn : rcIn[g].req = m /\ rcIn[g].pc = "remove"
    \/ rcCall[m].pc = "send" /\ rcCall[m].on = rcCur
    \/ rcResend[rcCur].pc \in {"register", "await", "copy"}
    \/ rcResend[rcCur].pc \in {"check", "send"} /\ m \in Range(rcResend[rcCur].todo)

RcLive == rcMode = "reconnect" /\ ~rcDown /\ rcCur \in rcLink
RcCover(m) == RcLive /\ m \in Range(rcList) /\ m \notin rcDrained => RcCovered(m)
RcCovers == \A m \in Req : RcCover(m)

RpcClientIInv == RcTypes /\ RcPlaces /\ RcModes /\ RcTokens /\ RcWaits /\ RcCovers
-----------------------------------------------------------------------------
(* Steps *)

\* The requests of the client and of resendRequests; none of them is NoReq.
LEMMA ReqFacts ==
    /\ \A g \in Conn : <<"reg", g>> \in Req /\ <<"reg", g>> \in Regs
    /\ NoReq \notin Req /\ \A m \in Regs : m[2] \in Conn /\ m = <<"reg", m[2]>>
    /\ \A m \in ClientCalls : m \notin Regs /\ m \in Req
    /\ 1 \in Conn /\ RcConns \in Nat /\ \A g \in Conn : g \in Nat /\ g \in 0..RcConns
BY RpcClientAssumption DEF Req, Regs, ClientCalls, NoReq, Conn

-----------------------------------------------------------------------------
(* What the steps do to the goroutines and to the requests, field by field *)

SetIn(g, pc, on, req) ==
    /\ rcIn' \in [Conn -> RcGo] /\ \A h \in Conn : h # g => rcIn'[h] = rcIn[h]
    /\ rcIn'[g].pc = pc /\ rcIn'[g].on = on /\ rcIn'[g].req = req
SetOut(g, pc, on, req) ==
    /\ rcOut' \in [Conn -> RcGo] /\ \A h \in Conn : h # g => rcOut'[h] = rcOut[h]
    /\ rcOut'[g].pc = pc /\ rcOut'[g].on = on /\ rcOut'[g].req = req
SetResend(g, pc, on, todo) ==
    /\ rcResend' \in [Conn -> RcSender] /\ \A h \in Conn : h # g => rcResend'[h] = rcResend[h]
    /\ rcResend'[g].pc = pc /\ rcResend'[g].on = on /\ rcResend'[g].todo = todo
SetCall(m, pc, on) ==
    /\ rcCall' \in [Req -> RcCallRec] /\ \A k \in Req : k # m => rcCall'[k] = rcCall[k]
    /\ rcCall'[m].pc = pc /\ rcCall'[m].on = on

\* The requests ms are answered, each with its first response.
Answers(ms, with) ==
    /\ rcResp' \in [Req -> RcResponse]
    /\ \A m \in Req : m \notin ms => rcResp'[m] = rcResp[m]
    /\ \A m \in ms : m \in Req => rcResp'[m] = IF rcResp[m] = "none" THEN with ELSE "twice"

Lists(ms) == rcList' \in Seq(Req) /\ Range(rcList') = ms
Sends(ms) == rcSend' \in Seq(Req) /\ Range(rcSend') = ms /\ Len(rcSend') <= RcBuffer

\* The types, one by one.
LEMMA RcTypeFacts ==
    ASSUME RcTypes
    PROVE  /\ rcIn \in [Conn -> RcGo] /\ rcOut \in [Conn -> RcGo] /\ rcResend \in [Conn -> RcSender]
           /\ rcCall \in [Req -> RcCallRec] /\ rcResp \in [Req -> RcResponse] /\ rcWire \in [Conn -> SUBSET Req]
           /\ rcList \in Seq(Req) /\ rcSend \in Seq(Req) /\ Len(rcSend) <= RcBuffer /\ rcDrained \subseteq Req
           /\ rcCur \in Conn /\ rcCur \in 0..RcConns /\ rcClosed \subseteq Conn /\ rcLink \subseteq Conn
           /\ Range(rcList) \subseteq Req /\ Range(rcSend) \subseteq Req
BY ReqFacts, RangeIn DEF RcTypes, RcConnTypes, RcReqTypes, RcGoTypes

\* The fields of the records.
LEMMA RcFieldFacts ==
    /\ \A r \in RcGo : r.pc \in RcPc /\ r.on \in 0..RcConns /\ r.req \in Req \cup {NoReq}
    /\ \A r \in RcSender : r.pc \in RcSendPc /\ r.on \in 0..RcConns /\ r.todo \in Seq(Req)
    /\ \A r \in RcCallRec : r.pc \in {"none", "send", "post", "done"} /\ r.on \in 0..RcConns
BY DEF RcGo, RcSender, RcCallRec

\* A response to each of the requests ms.
LEMMA AnswersIs ==
    ASSUME rcResp \in [Req -> RcResponse], NEW ms, NEW with \in {"result", "error"},
           rcResp' = Responded(ms, with)
    PROVE  Answers(ms, with)
BY DEF Responded, Answers, RcResponse

\* addRequest with the list open.
LEMMA ListsMore ==
    ASSUME rcList \in Seq(Req), NEW m \in Req, rcList' = Append(rcList, m)
    PROVE  Lists(Range(rcList) \cup {m})
BY RangeAppend DEF Lists

\* A request goes into the channel.
LEMMA SendsMore ==
    ASSUME rcSend \in Seq(Req), NEW m \in Req, Len(rcSend) < RcBuffer, rcSend' = Append(rcSend, m)
    PROVE  Sends(Range(rcSend) \cup {m})
BY RangeAppend, RpcClientAssumption DEF Sends

\* A request is taken from the channel.
LEMMA SendsLess ==
    ASSUME rcSend \in Seq(Req), Len(rcSend) <= RcBuffer, rcSend # <<>>, rcSend' = Tail(rcSend)
    PROVE  /\ Sends(Range(Tail(rcSend))) /\ Head(rcSend) \in Req
           /\ Range(rcSend) = {Head(rcSend)} \cup Range(Tail(rcSend))
<1>1. Tail(rcSend) \in Seq(Req) /\ Head(rcSend) \in Req /\ Len(Tail(rcSend)) = Len(rcSend) - 1
  BY RangeTail
<1>2. Len(rcSend) \in Nat /\ RcBuffer \in Nat
  BY RpcClientAssumption
<1>3. Range(rcSend) = {Head(rcSend)} \cup Range(Tail(rcSend))
  BY RangeTail
<1> QED
  BY <1>1, <1>2, <1>3 DEF Sends

\* A step of a caller.
LEMMA CallSets ==
    ASSUME rcCall \in [Req -> RcCallRec], NEW m \in Req, NEW pc \in {"none", "send", "post", "done"}, NEW ch \in 0..RcConns,
           CallStep(m, pc, ch)
    PROVE  SetCall(m, pc, ch)
BY DEF CallStep, SetCall, RcCallRec

\* A step of a resend.
LEMMA ResendSets ==
    ASSUME rcResend \in [Conn -> RcSender], NEW g \in Conn, NEW r \in RcSender, ResendStep(g, r)
    PROVE  SetResend(g, r.pc, r.on, r.todo)
BY DEF ResendStep, SetResend

\* The resends that start a stage anew.
LEMMA NoResendIs ==
    ASSUME NEW pc \in RcSendPc
    PROVE  LET r == [NoResend EXCEPT !.pc = pc] IN r \in RcSender /\ r.pc = pc /\ r.on = 0 /\ r.todo = <<>>
<1>1. <<>> \in Seq(Req) /\ 0 \in 0..RcConns
  BY ReqFacts
<1> QED
  BY <1>1 DEF NoResend, RcSender

\* ... and the step that starts it.
LEMMA ResendStarts ==
    ASSUME rcResend \in [Conn -> RcSender], NEW g \in Conn, NEW pc \in RcSendPc, ResendStep(g, [NoResend EXCEPT !.pc = pc])
    PROVE  SetResend(g, pc, 0, <<>>)
<1>1. PICK r : r = [NoResend EXCEPT !.pc = pc]
  OBVIOUS
<1>2. r \in RcSender /\ r.pc = pc /\ r.on = 0 /\ r.todo = <<>>
  BY <1>1, NoResendIs
<1>3. SetResend(g, r.pc, r.on, r.todo)
  BY <1>1, <1>2, ResendSets
<1> QED
  BY <1>2, <1>3

\* A resend with requests left to look at.
LEMMA ResendGoesOn ==
    ASSUME rcResend \in [Conn -> RcSender], NEW g \in Conn, NEW l \in Seq(Req),
           ResendStep(g, [NoResend EXCEPT !.pc = "check", !.todo = l])
    PROVE  SetResend(g, "check", 0, l)
<1>1. PICK r : r = [NoResend EXCEPT !.pc = "check", !.todo = l]
  OBVIOUS
<1>2. 0 \in 0..RcConns /\ "check" \in RcSendPc
  BY ReqFacts DEF RcSendPc
<1>3. r = [pc |-> "check", on |-> 0, todo |-> l]
  BY <1>1 DEF NoResend
<1>4. r \in RcSender
  BY <1>2, <1>3 DEF RcSender
<1>5. SetResend(g, r.pc, r.on, r.todo)
  BY <1>1, <1>4, ResendSets
<1> QED
  BY <1>3, <1>5

\* wsInHandler looks at the connection.
LEMMA InLoopSets ==
    ASSUME NEW g \in Conn, rcIn \in [Conn -> RcGo], rcCur \in Conn, InLoop(g)
    PROVE  SetIn(g, IF rcShut THEN "disconnect" ELSE "read", rcCur, rcIn[g].req)
BY ReqFacts DEF InLoop, RcGo, SetIn, RcPc

\* removeRequest.
LEMMA RemoveSets ==
    ASSUME NEW g \in Conn, rcIn \in [Conn -> RcGo], RemoveRequest(g)
    PROVE  IF rcIn[g].req \in Range(rcList) THEN SetIn(g, "answer", rcIn[g].on, rcIn[g].req)
           ELSE SetIn(g, "loop", 0, NoReq)
BY ReqFacts DEF RemoveRequest, RcGo, Idle, SetIn, RcPc

\* handleMessage ends.
LEMMA HandleSets ==
    ASSUME NEW g \in Conn, rcIn \in [Conn -> RcGo], HandleMessage(g)
    PROVE  SetIn(g, "loop", 0, NoReq)
BY ReqFacts DEF HandleMessage, RcGo, Idle, SetIn, RcPc

\* wsInHandler ends.
LEMMA InDisconnectSets ==
    ASSUME NEW g \in Conn, rcIn \in [Conn -> RcGo], InDisconnect(g)
    PROVE  SetIn(g, "done", 0, NoReq)
BY ReqFacts DEF InDisconnect, RcGo, Idle, SetIn, RcPc

\* A read that fails or brings an answer.
LEMMA InReadSets ==
    ASSUME NEW g \in Conn, rcIn \in [Conn -> RcGo], rcIn[g].on \in Conn, rcWire \in [Conn -> SUBSET Req], RcInRead(g)
    PROVE  \/ SetIn(g, "disconnect", rcIn[g].on, rcIn[g].req) /\ UNCHANGED rcWire
           \/ \E m \in Req : /\ m \in rcWire[rcIn[g].on] /\ SetIn(g, "remove", rcIn[g].on, m)
                             /\ rcWire' \in [Conn -> SUBSET Req] /\ \A h \in Conn : h # rcIn[g].on => rcWire'[h] = rcWire[h]
                             /\ rcWire'[rcIn[g].on] = rcWire[rcIn[g].on] \ {m}
<1>1. CASE rcIn' = [rcIn EXCEPT ![g].pc = "disconnect"] /\ UNCHANGED rcWire
  BY <1>1 DEF RcGo, SetIn, RcPc
<1>2. ASSUME NEW m \in rcWire[rcIn[g].on], rcWire' = [rcWire EXCEPT ![rcIn[g].on] = @ \ {m}],
             rcIn' = [rcIn EXCEPT ![g] = [@ EXCEPT !.pc = "remove", !.req = m]]
      PROVE  /\ m \in Req /\ SetIn(g, "remove", rcIn[g].on, m)
             /\ rcWire' \in [Conn -> SUBSET Req] /\ \A h \in Conn : h # rcIn[g].on => rcWire'[h] = rcWire[h]
             /\ rcWire'[rcIn[g].on] = rcWire[rcIn[g].on] \ {m}
  <2>1. m \in Req
    BY <1>2
  <2>2. SetIn(g, "remove", rcIn[g].on, m)
    BY <1>2, <2>1 DEF RcGo, SetIn, RcPc
  <2>3. /\ rcWire' \in [Conn -> SUBSET Req] /\ \A h \in Conn : h # rcIn[g].on => rcWire'[h] = rcWire[h]
        /\ rcWire'[rcIn[g].on] = rcWire[rcIn[g].on] \ {m}
    BY <1>2
  <2> QED
    BY <2>1, <2>2, <2>3
<1> QED
  BY <1>1, <1>2 DEF RcInRead

\* wsOutHandler looks up the disconnect channel.
LEMMA OutLoopSets ==
    ASSUME NEW g \in Conn, rcOut \in [Conn -> RcGo], rcCur \in Conn, OutLoop(g)
    PROVE  SetOut(g, "select", rcCur, rcOut[g].req)
BY ReqFacts DEF OutLoop, RcGo, SetOut, RcPc

\* wsOutHandler takes a request, or sees the disconnect.
LEMMA OutSelectSets ==
    ASSUME NEW g \in Conn, rcOut \in [Conn -> RcGo], rcSend \in Seq(Req), Len(rcSend) <= RcBuffer, OutSelect(g)
    PROVE  \/ /\ SetOut(g, "write", rcOut[g].on, Head(rcSend)) /\ Sends(Range(Tail(rcSend))) /\ Head(rcSend) \in Req
              /\ Range(rcSend) = {Head(rcSend)} \cup Range(Tail(rcSend))
           \/ SetOut(g, "drain", rcOut[g].on, rcOut[g].req) /\ UNCHANGED rcSend /\ rcOut[g].on \in rcClosed
<1>1. CASE /\ rcSend # <<>> /\ rcSend' = Tail(rcSend)
           /\ rcOut' = [rcOut EXCEPT ![g] = [@ EXCEPT !.pc = "write", !.req = Head(rcSend)]]
  <2>1. Sends(Range(Tail(rcSend))) /\ Head(rcSend) \in Req /\ Range(rcSend) = {Head(rcSend)} \cup Range(Tail(rcSend))
    BY <1>1, SendsLess
  <2>2. PICK m \in Req : m = Head(rcSend)
    BY <2>1
  <2>3. SetOut(g, "write", rcOut[g].on, m)
    BY <1>1, <2>2 DEF RcGo, SetOut, RcPc
  <2> QED
    BY <2>1, <2>2, <2>3
<1>2. CASE rcOut[g].on \in rcClosed /\ UNCHANGED rcSend /\ rcOut' = [rcOut EXCEPT ![g].pc = "drain"]
  <2>1. SetOut(g, "drain", rcOut[g].on, rcOut[g].req)
    BY <1>2 DEF RcGo, SetOut, RcPc
  <2> QED
    BY <1>2, <2>1
<1> QED
  BY <1>1, <1>2 DEF OutSelect

\* wsOutHandler writes, or loses the connection.
LEMMA OutWriteSets ==
    ASSUME NEW g \in Conn, rcOut \in [Conn -> RcGo], OutWrite(g)
    PROVE  SetOut(g, IF rcCur \in rcLink THEN "loop" ELSE "disconnect", 0, NoReq)
BY ReqFacts DEF OutWrite, RcGo, Idle, SetOut, RcPc

\* ... and the server has the request.
LEMMA OutWriteWire ==
    ASSUME NEW g \in Conn, rcWire \in [Conn -> SUBSET Req], rcOut[g].req \in Req, rcCur \in Conn, OutWrite(g)
    PROVE  /\ rcWire' \in [Conn -> SUBSET Req] /\ \A h \in Conn : rcWire[h] \subseteq rcWire'[h]
           /\ rcCur \in rcLink => rcOut[g].req \in rcWire'[rcCur]
BY DEF OutWrite

\* wsOutHandler goes on to its cleanup.
LEMMA OutDisconnectSets ==
    ASSUME NEW g \in Conn, rcOut \in [Conn -> RcGo], OutDisconnect(g)
    PROVE  SetOut(g, "drain", rcOut[g].on, rcOut[g].req)
BY ReqFacts DEF OutDisconnect, RcGo, SetOut, RcPc

\* wsOutHandler ends.
LEMMA OutDrainSets ==
    ASSUME NEW g \in Conn, rcOut \in [Conn -> RcGo], OutDrain(g)
    PROVE  SetOut(g, "done", 0, NoReq)
BY ReqFacts DEF OutDrain, RcGo, Idle, SetOut, RcPc

\* Disconnect, whoever calls it.
LEMMA DisconnectDoes ==
    ASSUME rcResp \in [Req -> RcResponse], rcCur \in Conn, rcClosed \subseteq Conn, rcLink \subseteq Conn,
           rcDown \in BOOLEAN, rcDown <=> rcCur \in rcClosed, DoDisconnect
    PROVE  /\ rcDown' = TRUE /\ rcClosed' = rcClosed \cup {rcCur} /\ rcLink' \subseteq rcLink
BY DEF DoDisconnect

\* Every request of the list is answered and none is left.
LEMMA AnswerAllDoes ==
    ASSUME rcResp \in [Req -> RcResponse], AnswerAll
    PROVE  Answers(Range(rcList), "error") /\ Lists({}) /\ rcList' = <<>>
<1>1. Answers(Range(rcList), "error")
  BY AnswersIs DEF AnswerAll
<1>2. <<>> \in Seq(Req)
  OBVIOUS
<1>3. rcList' = <<>> /\ Range(<<>>) = {}
  BY <1>2, RangeIn DEF AnswerAll
<1> QED
  BY <1>1, <1>2, <1>3 DEF Lists

-----------------------------------------------------------------------------
(* The steps, field by field *)

SetPost(pc, req) == rcPost' \in RcPostRec /\ rcPost'.pc = pc /\ rcPost'.req = req

\* What a disconnect does: without reconnection the requests are answered.
Drops ==
    /\ rcDown' = TRUE /\ rcClosed' = rcClosed \cup {rcCur} /\ rcLink' \subseteq rcLink
    /\ rcCur' = rcCur /\ rcFails' = rcFails
    /\ \/ UNCHANGED <<rcList, rcResp, rcShut>>
       \/ rcShut' = TRUE /\ Answers(Range(rcList), "error") /\ Lists({})

\* Disconnect, whoever calls it.
LEMMA DisconnectDrops ==
    ASSUME RcTypes, Disconnect
    PROVE  Drops
<1>1. rcDown \in BOOLEAN /\ (rcDown <=> rcCur \in rcClosed)
  BY DEF RcTypes, RcConnTypes
<1>2. rcDown' = TRUE /\ rcClosed' = rcClosed \cup {rcCur} /\ rcLink' \subseteq rcLink
  BY <1>1, RcTypeFacts, DisconnectDoes DEF Disconnect
<1>3. AnswerAll => Answers(Range(rcList), "error") /\ Lists({})
  BY RcTypeFacts, AnswerAllDoes
<1> QED
  BY <1>2, <1>3 DEF Disconnect, Drops

\* SendRequest, field by field.
LEMMA SendRequestFlat ==
    ASSUME NEW m \in Req, RcTypes, SendRequest(m)
    PROVE  /\ rcMode # "post" /\ m \in ClientCalls /\ rcCall[m].pc = "none"
           /\ \/ rcShut /\ Answers({m}, "error") /\ UNCHANGED rcList /\ SetCall(m, "done", 0)
              \/ ~rcShut /\ Lists(Range(rcList) \cup {m}) /\ UNCHANGED rcResp /\ SetCall(m, "send", rcCur)
           /\ UNCHANGED <<rcMode, rcConnVars, rcSend, rcWire, rcTracked, rcDrained, rcIn, rcOut, rcResend, rcRec, rcPost>>
<1>1. rcShut => Answers({m}, "error") /\ UNCHANGED rcList
  BY RcTypeFacts, AnswersIs DEF SendRequest, AddRequest
<1>2. ~rcShut => Lists(Range(rcList) \cup {m}) /\ UNCHANGED rcResp
  BY RcTypeFacts, ListsMore DEF SendRequest, AddRequest
<1>3. IF rcShut THEN SetCall(m, "done", 0) ELSE SetCall(m, "send", rcCur)
  BY RcTypeFacts, ReqFacts, CallSets DEF SendRequest
<1> QED
  BY <1>1, <1>2, <1>3 DEF SendRequest

\* CallSend, field by field.
LEMMA CallSendFlat ==
    ASSUME NEW m \in Req, RcTypes, CallSend(m)
    PROVE  /\ rcCall[m].pc = "send" /\ SetCall(m, "done", 0)
           /\ Sends(Range(rcSend) \cup {m}) \/ (rcCall[m].on \in rcClosed /\ UNCHANGED rcSend)
           /\ UNCHANGED <<rcMode, rcConnVars, rcList, rcResp, rcWire, rcTracked, rcDrained, rcIn, rcOut, rcResend, rcRec, rcPost>>
<1>1. SetCall(m, "done", 0)
  BY RcTypeFacts, ReqFacts, CallSets DEF CallSend
<1>2. Sends(Range(rcSend) \cup {m}) \/ (rcCall[m].on \in rcClosed /\ UNCHANGED rcSend)
  BY RcTypeFacts, SendsMore DEF CallSend, SendMessage
<1> QED
  BY <1>1, <1>2 DEF CallSend

\* SendPostRequest, field by field.
LEMMA SendPostRequestFlat ==
    ASSUME NEW m \in Req, RcTypes, SendPostRequest(m)
    PROVE  /\ rcMode = "post" /\ m \in ClientCalls /\ rcCall[m].pc = "none" /\ SetCall(m, "post", 0)
           /\ Answers({m}, "error") \/ UNCHANGED rcResp
           /\ UNCHANGED <<rcMode, rcConnVars, rcList, rcSend, rcWire, rcTracked, rcDrained, rcIn, rcOut, rcResend, rcRec, rcPost>>
<1>1. SetCall(m, "post", 0)
  BY RcTypeFacts, ReqFacts, CallSets DEF SendPostRequest
<1>2. Answers({m}, "error") \/ UNCHANGED rcResp
  BY RcTypeFacts, AnswersIs DEF SendPostRequest
<1> QED
  BY <1>1, <1>2 DEF SendPostRequest

\* PostChannel, field by field.
LEMMA PostChannelFlat ==
    ASSUME NEW m \in Req, RcTypes, PostChannel(m)
    PROVE  /\ rcCall[m].pc = "post" /\ SetCall(m, "done", 0)
           /\ Sends(Range(rcSend) \cup {m}) \/ (rcShut /\ UNCHANGED rcSend)
           /\ UNCHANGED <<rcMode, rcConnVars, rcList, rcResp, rcWire, rcTracked, rcDrained, rcIn, rcOut, rcResend, rcRec, rcPost>>
<1>1. SetCall(m, "done", 0)
  BY RcTypeFacts, ReqFacts, CallSets DEF PostChannel
<1>2. Sends(Range(rcSend) \cup {m}) \/ (rcShut /\ UNCHANGED rcSend)
  BY RcTypeFacts, SendsMore DEF PostChannel
<1> QED
  BY <1>1, <1>2 DEF PostChannel

\* InLoop, field by field.
LEMMA InLoopFlat ==
    ASSUME NEW g \in Conn, RcTypes, InLoop(g)
    PROVE  /\ rcIn[g].pc = "loop" /\ SetIn(g, IF rcShut THEN "disconnect" ELSE "read", rcCur, rcIn[g].req)
           /\ UNCHANGED <<rcMode, rcConnVars, rcReqVars, rcCall, rcOut, rcResend, rcRec, rcPost>>
<1>1. SetIn(g, IF rcShut THEN "disconnect" ELSE "read", rcCur, rcIn[g].req)
  BY RcTypeFacts, InLoopSets
<1> QED
  BY <1>1 DEF InLoop

\* RcInRead, field by field.
LEMMA RcInReadFlat ==
    ASSUME NEW g \in Conn, RcTypes, RcPlaces, RcInRead(g)
    PROVE  /\ rcIn[g].pc = "read"
           /\ \/ SetIn(g, "disconnect", rcIn[g].on, rcIn[g].req) /\ UNCHANGED rcWire
              \/ \E m \in Req : /\ m \in rcWire[rcIn[g].on] /\ SetIn(g, "remove", rcIn[g].on, m)
                                /\ rcWire' \in [Conn -> SUBSET Req] /\ \A h \in Conn : h # rcIn[g].on => rcWire'[h] = rcWire[h]
                                /\ rcWire'[rcIn[g].on] = rcWire[rcIn[g].on] \ {m}
           /\ UNCHANGED <<rcMode, rcConnVars, rcList, rcSend, rcResp, rcTracked, rcDrained, rcCall, rcOut, rcResend, rcRec, rcPost>>
<1>1. rcIn[g].on \in Conn
  BY DEF RcPlaces, RcInPlace, RcInRead
<1>2. \/ SetIn(g, "disconnect", rcIn[g].on, rcIn[g].req) /\ UNCHANGED rcWire
      \/ \E m \in Req : /\ m \in rcWire[rcIn[g].on] /\ SetIn(g, "remove", rcIn[g].on, m)
                        /\ rcWire' \in [Conn -> SUBSET Req] /\ \A h \in Conn : h # rcIn[g].on => rcWire'[h] = rcWire[h]
                        /\ rcWire'[rcIn[g].on] = rcWire[rcIn[g].on] \ {m}
  BY <1>1, RcTypeFacts, InReadSets
<1> QED
  BY <1>1, <1>2 DEF RcInRead

\* RemoveRequest, field by field.
LEMMA RemoveRequestFlat ==
    ASSUME NEW g \in Conn, RcTypes, RemoveRequest(g)
    PROVE  /\ rcIn[g].pc = "remove" /\ Lists(Range(rcList) \ {rcIn[g].req})
           /\ IF rcIn[g].req \in Range(rcList) THEN SetIn(g, "answer", rcIn[g].on, rcIn[g].req)
              ELSE SetIn(g, "loop", 0, NoReq)
           /\ UNCHANGED <<rcMode, rcConnVars, rcSend, rcResp, rcWire, rcTracked, rcDrained, rcCall, rcOut, rcResend, rcRec, rcPost>>
<1>1. IF rcIn[g].req \in Range(rcList) THEN SetIn(g, "answer", rcIn[g].on, rcIn[g].req)
      ELSE SetIn(g, "loop", 0, NoReq)
  BY RcTypeFacts, RemoveSets
<1>2. rcList' = Only(rcList, Req \ {rcIn[g].req})
  BY DEF RemoveRequest, Without
<1>3. rcList' \in Seq(Req) /\ Range(rcList') = Range(rcList) \cap (Req \ {rcIn[g].req})
  BY <1>2, RcTypeFacts, OnlyKeeps
<1>4. Lists(Range(rcList) \ {rcIn[g].req})
  BY <1>3, RcTypeFacts DEF Lists
<1> QED
  BY <1>1, <1>2, <1>3, <1>4 DEF RemoveRequest

\* HandleMessage, field by field.
LEMMA HandleMessageFlat ==
    ASSUME NEW g \in Conn, RcTypes, HandleMessage(g)
    PROVE  /\ rcIn[g].pc = "answer" /\ SetIn(g, "loop", 0, NoReq)
           /\ Answers({rcIn[g].req}, "result") /\ rcTracked' \in BOOLEAN
           /\ UNCHANGED <<rcMode, rcConnVars, rcList, rcSend, rcWire, rcDrained, rcCall, rcOut, rcResend, rcRec, rcPost>>
<1>1. SetIn(g, "loop", 0, NoReq)
  BY RcTypeFacts, HandleSets
<1>2. Answers({rcIn[g].req}, "result")
  BY RcTypeFacts, AnswersIs DEF HandleMessage
<1>3. rcTracked' \in BOOLEAN
  BY DEF HandleMessage
<1> QED
  BY <1>1, <1>2, <1>3 DEF HandleMessage

\* InDisconnect, field by field.
LEMMA InDisconnectFlat ==
    ASSUME NEW g \in Conn, RcTypes, InDisconnect(g)
    PROVE  /\ rcIn[g].pc = "disconnect" /\ SetIn(g, "done", 0, NoReq) /\ Drops
           /\ UNCHANGED <<rcMode, rcSend, rcWire, rcTracked, rcDrained, rcCall, rcOut, rcResend, rcRec, rcPost>>
<1>1. SetIn(g, "done", 0, NoReq)
  BY RcTypeFacts, InDisconnectSets
<1>2. Drops
  BY DisconnectDrops DEF InDisconnect
<1> QED
  BY <1>1, <1>2 DEF InDisconnect

\* OutLoop, field by field.
LEMMA OutLoopFlat ==
    ASSUME NEW g \in Conn, RcTypes, OutLoop(g)
    PROVE  /\ rcOut[g].pc = "loop" /\ SetOut(g, "select", rcCur, rcOut[g].req)
           /\ UNCHANGED <<rcMode, rcConnVars, rcReqVars, rcCall, rcIn, rcResend, rcRec, rcPost>>
<1>1. SetOut(g, "select", rcCur, rcOut[g].req)
  BY RcTypeFacts, OutLoopSets
<1> QED
  BY <1>1 DEF OutLoop

\* OutSelect, field by field.
LEMMA OutSelectFlat ==
    ASSUME NEW g \in Conn, RcTypes, OutSelect(g)
    PROVE  /\ rcOut[g].pc = "select"
           /\ \/ /\ SetOut(g, "write", rcOut[g].on, Head(rcSend)) /\ Sends(Range(Tail(rcSend))) /\ Head(rcSend) \in Req
                 /\ Range(rcSend) = {Head(rcSend)} \cup Range(Tail(rcSend))
              \/ SetOut(g, "drain", rcOut[g].on, rcOut[g].req) /\ UNCHANGED rcSend /\ rcOut[g].on \in rcClosed
           /\ UNCHANGED <<rcMode, rcConnVars, rcList, rcResp, rcWire, rcTracked, rcDrained, rcCall, rcIn, rcResend, rcRec, rcPost>>
<1>1. \/ /\ SetOut(g, "write", rcOut[g].on, Head(rcSend)) /\ Sends(Range(Tail(rcSend))) /\ Head(rcSend) \in Req
         /\ Range(rcSend) = {Head(rcSend)} \cup Range(Tail(rcSend))
      \/ SetOut(g, "drain", rcOut[g].on, rcOut[g].req) /\ UNCHANGED rcSend /\ rcOut[g].on \in rcClosed
  BY RcTypeFacts, OutSelectSets
<1> QED
  BY <1>1 DEF OutSelect

\* OutWrite, field by field.
LEMMA OutWriteFlat ==
    ASSUME NEW g \in Conn, RcTypes, RcPlaces, OutWrite(g)
    PROVE  /\ rcOut[g].pc = "write"
           /\ SetOut(g, IF rcCur \in rcLink THEN "loop" ELSE "disconnect", 0, NoReq)
           /\ rcWire' \in [Conn -> SUBSET Req] /\ \A h \in Conn : rcWire[h] \subseteq rcWire'[h]
           /\ rcCur \in rcLink => rcOut[g].req \in rcWire'[rcCur]
           /\ UNCHANGED <<rcMode, rcConnVars, rcList, rcSend, rcResp, rcTracked, rcDrained, rcCall, rcIn, rcResend, rcRec, rcPost>>
<1>1. rcOut[g].req \in Req
  BY DEF RcPlaces, RcOutPlace, OutWrite
<1>2. SetOut(g, IF rcCur \in rcLink THEN "loop" ELSE "disconnect", 0, NoReq)
  BY RcTypeFacts, OutWriteSets
<1>3. /\ rcWire' \in [Conn -> SUBSET Req] /\ \A h \in Conn : rcWire[h] \subseteq rcWire'[h]
      /\ rcCur \in rcLink => rcOut[g].req \in rcWire'[rcCur]
  BY <1>1, RcTypeFacts, OutWriteWire
<1> QED
  BY <1>1, <1>2, <1>3 DEF OutWrite

\* OutDisconnect, field by field.
LEMMA OutDisconnectFlat ==
    ASSUME NEW g \in Conn, RcTypes, OutDisconnect(g)
    PROVE  /\ rcOut[g].pc = "disconnect" /\ SetOut(g, "drain", rcOut[g].on, rcOut[g].req) /\ Drops
           /\ UNCHANGED <<rcMode, rcSend, rcWire, rcTracked, rcDrained, rcCall, rcIn, rcResend, rcRec, rcPost>>
<1>1. SetOut(g, "drain", rcOut[g].on, rcOut[g].req)
  BY RcTypeFacts, OutDisconnectSets
<1>2. Drops
  BY DisconnectDrops DEF OutDisconnect
<1> QED
  BY <1>1, <1>2 DEF OutDisconnect

\* OutDrain, field by field.
LEMMA OutDrainFlat ==
    ASSUME NEW g \in Conn, RcTypes, OutDrain(g)
    PROVE  /\ rcOut[g].pc = "drain" /\ SetOut(g, "done", 0, NoReq) /\ Sends({})
           /\ rcDrained' = IF g # rcCur THEN rcDrained \cup Range(rcSend) ELSE rcDrained
           /\ UNCHANGED <<rcMode, rcConnVars, rcList, rcResp, rcWire, rcTracked, rcCall, rcIn, rcResend, rcRec, rcPost>>
<1>1. SetOut(g, "done", 0, NoReq)
  BY RcTypeFacts, OutDrainSets
<1>2. <<>> \in Seq(Req) /\ Len(<<>>) = 0
  OBVIOUS
<1>3. Range(<<>>) = {}
  BY <1>2, RangeIn
<1>4. 0 <= RcBuffer
  BY RpcClientAssumption
<1>5. Sends({})
  BY <1>2, <1>3, <1>4 DEF OutDrain, Sends
<1> QED
  BY <1>1, <1>2, <1>3, <1>4, <1>5 DEF OutDrain

\* Reregister, field by field.
LEMMA ReregisterFlat ==
    ASSUME NEW g \in Conn, RcTypes, Reregister(g)
    PROVE  /\ rcResend[g].pc = "register"
           /\ \/ rcShut /\ Answers({<<"reg", g>>}, "error") /\ UNCHANGED <<rcList, rcCall>> /\ SetResend(g, "await", 0, <<>>)
              \/ /\ ~rcShut /\ Lists(Range(rcList) \cup {<<"reg", g>>}) /\ UNCHANGED rcResp
                 /\ SetCall(<<"reg", g>>, "send", rcCur) /\ SetResend(g, "await", 0, <<>>)
              \/ UNCHANGED <<rcList, rcResp, rcCall>> /\ SetResend(g, "copy", 0, <<>>)
           /\ UNCHANGED <<rcMode, rcConnVars, rcSend, rcWire, rcTracked, rcDrained, rcIn, rcOut, rcRec, rcPost>>
<1>1. PICK m \in Req : m = <<"reg", g>>
  BY ReqFacts
<1>2. \A pc \in RcSendPc : ResendStep(g, [NoResend EXCEPT !.pc = pc]) => SetResend(g, pc, 0, <<>>)
  BY RcTypeFacts, ResendStarts
<1>3. "await" \in RcSendPc /\ "copy" \in RcSendPc
  BY DEF RcSendPc
<1>4. AddRequest(m) /\ rcShut => Answers({m}, "error") /\ UNCHANGED rcList
  BY RcTypeFacts, AnswersIs DEF AddRequest
<1>5. AddRequest(m) /\ ~rcShut => Lists(Range(rcList) \cup {m}) /\ UNCHANGED rcResp
  BY RcTypeFacts, ListsMore DEF AddRequest
<1>6. CallStep(m, "send", rcCur) => SetCall(m, "send", rcCur)
  BY RcTypeFacts, ReqFacts, CallSets
<1> QED
  BY <1>1, <1>2, <1>3, <1>4, <1>5, <1>6 DEF Reregister

\* ReregisterEnds, field by field.
LEMMA ReregisterEndsFlat ==
    ASSUME NEW g \in Conn, RcTypes, ReregisterEnds(g)
    PROVE  /\ rcResend[g].pc = "await" /\ rcCall[<<"reg", g>>].pc \in {"none", "done"} /\ rcResp[<<"reg", g>>] # "none"
           /\ \/ SetResend(g, "copy", 0, <<>>) /\ UNCHANGED <<rcConnVars, rcList, rcResp>>
              \/ SetResend(g, "done", 0, <<>>) /\ Drops
           /\ UNCHANGED <<rcMode, rcSend, rcWire, rcTracked, rcDrained, rcCall, rcIn, rcOut, rcRec, rcPost>>
<1>1. \A pc \in RcSendPc : ResendStep(g, [NoResend EXCEPT !.pc = pc]) => SetResend(g, pc, 0, <<>>)
  BY RcTypeFacts, ResendStarts
<1>2. "done" \in RcSendPc /\ "copy" \in RcSendPc
  BY DEF RcSendPc
<1>3. Disconnect => Drops
  BY DisconnectDrops
<1> QED
  BY <1>1, <1>2, <1>3 DEF ReregisterEnds

\* CopyRequests, field by field.
LEMMA CopyRequestsFlat ==
    ASSUME NEW g \in Conn, RcTypes, CopyRequests(g)
    PROVE  /\ rcResend[g].pc = "copy" /\ Lists(Range(rcList) \cap {m \in Req : m[1] \notin RcRescan})
           /\ SetResend(g, "check", 0, rcList')
           /\ UNCHANGED <<rcMode, rcConnVars, rcSend, rcResp, rcWire, rcTracked, rcDrained, rcCall, rcIn, rcOut, rcRec, rcPost>>
<1>1. rcList' \in Seq(Req) /\ Range(rcList') = Range(rcList) \cap {m \in Req : m[1] \notin RcRescan}
  BY RcTypeFacts, OnlyKeeps DEF CopyRequests
<1>2. PICK l \in Seq(Req) : l = rcList'
  BY <1>1
<1>3. SetResend(g, "check", 0, l)
  BY <1>2, RcTypeFacts, ResendGoesOn DEF CopyRequests
<1>4. Lists(Range(rcList) \cap {m \in Req : m[1] \notin RcRescan})
  BY <1>1 DEF Lists
<1> QED
  BY <1>1, <1>2, <1>3, <1>4 DEF CopyRequests

\* ResendCheck, field by field.
LEMMA ResendCheckFlat ==
    ASSUME NEW g \in Conn, RcTypes, ResendCheck(g)
    PROVE  /\ rcResend[g].pc = "check"
           /\ \/ SetResend(g, "done", 0, <<>>) /\ (rcResend[g].todo = <<>> \/ rcDown)
              \/ SetResend(g, "send", rcCur, rcResend[g].todo) /\ rcResend[g].todo # <<>>
           /\ UNCHANGED <<rcMode, rcConnVars, rcReqVars, rcCall, rcIn, rcOut, rcRec, rcPost>>
<1>1. ResendStep(g, [NoResend EXCEPT !.pc = "done"]) => SetResend(g, "done", 0, <<>>)
  BY RcTypeFacts, ResendStarts DEF RcSendPc
<1>2. LET r == [rcResend[g] EXCEPT !.pc = "send", !.on = rcCur]
      IN  r \in RcSender /\ r.pc = "send" /\ r.on = rcCur /\ r.todo = rcResend[g].todo
  BY RcTypeFacts DEF RcSender, RcSendPc
<1>3. ResendStep(g, [rcResend[g] EXCEPT !.pc = "send", !.on = rcCur])
         => SetResend(g, "send", rcCur, rcResend[g].todo)
  BY <1>2, RcTypeFacts, ResendSets
<1> QED
  BY <1>1, <1>2, <1>3 DEF ResendCheck

\* ResendRequest, field by field.
LEMMA ResendRequestFlat ==
    ASSUME NEW g \in Conn, RcTypes, RcPlaces, ResendRequest(g)
    PROVE  /\ rcResend[g].pc = "send" /\ SetResend(g, "check", 0, Tail(rcResend[g].todo))
           /\ LET m == Head(rcResend[g].todo)
              IN  /\ Range(rcResend[g].todo) = {m} \cup Range(Tail(rcResend[g].todo)) /\ m \in Req
                  /\ Sends(Range(rcSend) \cup {m}) \/ (rcResend[g].on \in rcClosed /\ UNCHANGED rcSend)
           /\ UNCHANGED <<rcMode, rcConnVars, rcList, rcResp, rcWire, rcTracked, rcDrained, rcCall, rcIn, rcOut, rcRec, rcPost>>
<1>1. rcResend[g].todo # <<>>
  BY DEF RcPlaces, RcResendPlace, ResendRequest
<1>2. rcResend[g].todo \in Seq(Req)
  BY RcTypeFacts, RcFieldFacts
<1>3. PICK t \in Seq(Req) : t = Tail(rcResend[g].todo)
  BY <1>1, <1>2, RangeTail
<1>4. PICK m \in Req : m = Head(rcResend[g].todo)
  BY <1>1, <1>2, RangeTail
<1>5. Range(rcResend[g].todo) = {m} \cup Range(t)
  BY <1>1, <1>2, <1>3, <1>4, RangeTail
<1>6. SetResend(g, "check", 0, t)
  BY <1>3, RcTypeFacts, ResendGoesOn DEF ResendRequest
<1>7. Sends(Range(rcSend) \cup {m}) \/ (rcResend[g].on \in rcClosed /\ UNCHANGED rcSend)
  BY <1>4, RcTypeFacts, SendsMore DEF ResendRequest, SendMessage
<1> QED
  BY <1>1, <1>2, <1>3, <1>4, <1>5, <1>6, <1>7 DEF ResendRequest

\* Reconnect, field by field.
LEMMA ReconnectFlat ==
    ASSUME RcTypes, RcPlaces, Reconnect
    PROVE  /\ rcRec = "set" /\ rcRec' = "wait" /\ rcCur + 1 \in Conn /\ rcCur' = rcCur + 1
           /\ rcDown' = FALSE /\ rcLink' = rcLink \cup {rcCur + 1}
           /\ SetIn(rcCur + 1, "loop", 0, NoReq) /\ SetOut(rcCur + 1, "loop", 0, NoReq)
           /\ SetResend(rcCur + 1, "register", 0, <<>>)
           /\ UNCHANGED <<rcMode, rcShut, rcClosed, rcFails, rcReqVars, rcCall, rcPost>>
<1>1. PICK g \in Conn : g = rcCur + 1
  BY DEF Reconnect, RcTypes, RcConnTypes
<1>2. g > rcCur
  BY <1>1, RcTypeFacts DEF Conn
<1>3. rcIn[g] = Idle /\ rcOut[g] = Idle /\ rcResend[g] = NoResend
  BY <1>2 DEF RcPlaces, RcInPlace, RcOutPlace, RcResendPlace
<1>4. rcIn' = [rcIn EXCEPT ![g] = [Idle EXCEPT !.pc = "loop"]]
  BY <1>1, <1>3 DEF Reconnect
<1>5. SetIn(g, "loop", 0, NoReq)
  <2>1. PICK r : r = [Idle EXCEPT !.pc = "loop"]
    OBVIOUS
  <2>2. r = [pc |-> "loop", on |-> 0, req |-> NoReq]
    BY <2>1 DEF Idle
  <2>3. r \in RcGo
    BY <2>2, RcTypeFacts, ReqFacts DEF RcGo, RcPc
  <2> QED
    BY <1>4, <2>1, <2>2, <2>3, RcTypeFacts DEF SetIn
<1>6. rcOut' = [rcOut EXCEPT ![g] = [Idle EXCEPT !.pc = "loop"]]
  BY <1>1, <1>3 DEF Reconnect
<1>7. SetOut(g, "loop", 0, NoReq)
  BY <1>6, RcTypeFacts, ReqFacts DEF SetOut, Idle, RcGo, RcPc
<1>8. ResendStep(g, [NoResend EXCEPT !.pc = "register"])
  BY <1>1, <1>3 DEF Reconnect, ResendStep
<1>9. SetResend(g, "register", 0, <<>>)
  BY <1>8, RcTypeFacts, ResendStarts DEF RcSendPc
<1> QED
  BY <1>1, <1>2, <1>3, <1>4, <1>5, <1>6, <1>7, <1>8, <1>9 DEF Reconnect

\* PostHandler, field by field.
LEMMA PostHandlerFlat ==
    ASSUME RcTypes, PostHandler
    PROVE  /\ rcPost.pc = "loop"
           /\ \/ /\ SetPost("try", Head(rcSend)) /\ Sends(Range(Tail(rcSend))) /\ Head(rcSend) \in Req
                 /\ Range(rcSend) = {Head(rcSend)} \cup Range(Tail(rcSend))
              \/ rcShut /\ UNCHANGED rcSend /\ SetPost("drain", rcPost.req)
           /\ UNCHANGED <<rcMode, rcConnVars, rcList, rcResp, rcWire, rcTracked, rcDrained, rcCall, rcIn, rcOut, rcResend, rcRec>>
<1>1. rcPost \in RcPostRec
  BY DEF RcTypes, RcReqTypes
<1>2. ASSUME rcSend # <<>>, rcSend' = Tail(rcSend), rcPost' = [pc |-> "try", req |-> Head(rcSend)]
      PROVE  /\ SetPost("try", Head(rcSend)) /\ Sends(Range(Tail(rcSend))) /\ Head(rcSend) \in Req
             /\ Range(rcSend) = {Head(rcSend)} \cup Range(Tail(rcSend))
  <2>1. Sends(Range(Tail(rcSend))) /\ Head(rcSend) \in Req /\ Range(rcSend) = {Head(rcSend)} \cup Range(Tail(rcSend))
    BY <1>2, SendsLess, RcTypeFacts
  <2>2. SetPost("try", Head(rcSend))
    BY <1>2, <2>1 DEF SetPost, RcPostRec
  <2> QED
    BY <2>1, <2>2
<1>3. rcPost' = [rcPost EXCEPT !.pc = "drain"] => SetPost("drain", rcPost.req)
  BY <1>1 DEF SetPost, RcPostRec
<1> QED
  BY <1>1, <1>2, <1>3 DEF PostHandler

\* HandleSendPost, field by field.
LEMMA HandleSendPostFlat ==
    ASSUME RcTypes, HandleSendPost
    PROVE  /\ rcPost.pc = "try" /\ SetPost("loop", NoReq)
           /\ (\E with \in {"result", "error"} : Answers({rcPost.req}, with)) \/ (rcShut /\ UNCHANGED rcResp)
           /\ UNCHANGED <<rcMode, rcConnVars, rcList, rcSend, rcWire, rcTracked, rcDrained, rcCall, rcIn, rcOut, rcResend, rcRec>>
<1>1. SetPost("loop", NoReq)
  BY DEF HandleSendPost, SetPost, RcPostRec
<1>2. (\E with \in {"result", "error"} : Answers({rcPost.req}, with)) \/ (rcShut /\ UNCHANGED rcResp)
  BY RcTypeFacts, AnswersIs DEF HandleSendPost
<1> QED
  BY <1>1, <1>2 DEF HandleSendPost

\* PostCleanup, field by field.
LEMMA PostCleanupFlat ==
    ASSUME RcTypes, PostCleanup
    PROVE  /\ rcPost.pc = "drain"
           /\ \/ SetPost("done", rcPost.req) /\ UNCHANGED <<rcSend, rcResp>>
              \/ /\ Answers({Head(rcSend)}, "error") /\ Sends(Range(Tail(rcSend))) /\ UNCHANGED rcPost
                 /\ Range(rcSend) = {Head(rcSend)} \cup Range(Tail(rcSend))
           /\ UNCHANGED <<rcMode, rcConnVars, rcList, rcWire, rcTracked, rcDrained, rcCall, rcIn, rcOut, rcResend, rcRec>>
<1>1. rcPost \in RcPostRec
  BY DEF RcTypes, RcReqTypes
<1>2. rcPost' = [rcPost EXCEPT !.pc = "done"] => SetPost("done", rcPost.req)
  BY <1>1 DEF SetPost, RcPostRec
<1>3. rcSend # <<>> /\ rcSend' = Tail(rcSend) => Sends(Range(Tail(rcSend))) /\ Range(rcSend) = {Head(rcSend)} \cup Range(Tail(rcSend))
  BY RcTypeFacts, SendsLess
<1>4. rcResp' = Responded({Head(rcSend)}, "error") => Answers({Head(rcSend)}, "error")
  BY RcTypeFacts, AnswersIs
<1> QED
  BY <1>1, <1>2, <1>3, <1>4 DEF PostCleanup

\* Shutdown, field by field.
LEMMA ShutdownFlat ==
    ASSUME RcTypes, Shutdown
    PROVE  /\ ~rcShut /\ rcShut' = TRUE /\ Answers(Range(rcList), "error") /\ Lists({})
           /\ IF rcMode = "post" THEN UNCHANGED <<rcDown, rcClosed, rcLink>>
              ELSE rcDown' = TRUE /\ rcClosed' = rcClosed \cup {rcCur} /\ rcLink' \subseteq rcLink
           /\ UNCHANGED <<rcMode, rcCur, rcFails, rcSend, rcWire, rcTracked, rcDrained, rcProcVars>>
<1>1. rcDown \in BOOLEAN /\ (rcDown <=> rcCur \in rcClosed)
  BY DEF RcTypes, RcConnTypes
<1>2. DoDisconnect => rcDown' = TRUE /\ rcClosed' = rcClosed \cup {rcCur} /\ rcLink' \subseteq rcLink
  BY <1>1, RcTypeFacts, DisconnectDoes
<1>3. Answers(Range(rcList), "error") /\ Lists({})
  BY RcTypeFacts, AnswerAllDoes DEF Shutdown
<1> QED
  BY <1>1, <1>2, <1>3 DEF Shutdown

-----------------------------------------------------------------------------
(* The types are kept *)

\* The types of the connection are kept.
LEMMA RcConnStep ==
    ASSUME RcTypes, RcPlaces, [RpcClientNext]_rcVars
    PROVE  RcConnTypes'
<1>a. RcConnTypes /\ RcReqTypes /\ RcGoTypes
  BY DEF RcTypes
<1>0. CASE UNCHANGED rcVars
  BY <1>0, <1>a DEF RcConnTypes, rcVars, rcConnVars, rcReqVars, rcProcVars
<1>1. ASSUME NEW m \in Req, SendRequest(m) PROVE RcConnTypes'
  <2>1. UNCHANGED <<rcMode, rcConnVars, rcRec>>
    BY <1>1 DEF SendRequest, rcProcVars
  <2> QED
    BY <2>1, <1>a DEF RcConnTypes, rcConnVars
<1>2. ASSUME NEW m \in Req, CallSend(m) PROVE RcConnTypes'
  <2>1. UNCHANGED <<rcMode, rcConnVars, rcRec>>
    BY <1>2 DEF CallSend, rcProcVars
  <2> QED
    BY <2>1, <1>a DEF RcConnTypes, rcConnVars
<1>3. ASSUME NEW m \in Req, SendPostRequest(m) PROVE RcConnTypes'
  <2>1. UNCHANGED <<rcMode, rcConnVars, rcRec>>
    BY <1>3 DEF SendPostRequest, rcProcVars
  <2> QED
    BY <2>1, <1>a DEF RcConnTypes, rcConnVars
<1>4. ASSUME NEW m \in Req, PostChannel(m) PROVE RcConnTypes'
  <2>1. UNCHANGED <<rcMode, rcConnVars, rcRec>>
    BY <1>4 DEF PostChannel, rcProcVars
  <2> QED
    BY <2>1, <1>a DEF RcConnTypes, rcConnVars
<1>5. ASSUME NEW g \in Conn, InLoop(g) PROVE RcConnTypes'
  <2>1. UNCHANGED <<rcMode, rcConnVars, rcRec>>
    BY <1>5 DEF InLoop, rcProcVars
  <2> QED
    BY <2>1, <1>a DEF RcConnTypes, rcConnVars
<1>6. ASSUME NEW g \in Conn, RcInRead(g) PROVE RcConnTypes'
  <2>1. UNCHANGED <<rcMode, rcConnVars, rcRec>>
    BY <1>6 DEF RcInRead, rcProcVars
  <2> QED
    BY <2>1, <1>a DEF RcConnTypes, rcConnVars
<1>7. ASSUME NEW g \in Conn, RemoveRequest(g) PROVE RcConnTypes'
  <2>1. UNCHANGED <<rcMode, rcConnVars, rcRec>>
    BY <1>7 DEF RemoveRequest, rcProcVars
  <2> QED
    BY <2>1, <1>a DEF RcConnTypes, rcConnVars
<1>8. ASSUME NEW g \in Conn, HandleMessage(g) PROVE RcConnTypes'
  <2>1. UNCHANGED <<rcMode, rcConnVars, rcRec>>
    BY <1>8 DEF HandleMessage, rcProcVars
  <2> QED
    BY <2>1, <1>a DEF RcConnTypes, rcConnVars
<1>9. ASSUME NEW g \in Conn, InDisconnect(g) PROVE RcConnTypes'
  <2>1. Drops /\ UNCHANGED <<rcMode, rcRec>>
    BY <1>9, InDisconnectFlat
  <2>2. rcShut' \in BOOLEAN
    BY <2>1, <1>a DEF Drops, RcConnTypes
  <2>3. rcCur \in Nat /\ \A h \in Conn : h \in Nat
    BY <1>a, ReqFacts DEF RcConnTypes
  <2> QED
    BY <2>1, <2>2, <2>3, <1>a DEF Drops, RcConnTypes
<1>10. ASSUME NEW g \in Conn, OutLoop(g) PROVE RcConnTypes'
  <2>1. UNCHANGED <<rcMode, rcConnVars, rcRec>>
    BY <1>10 DEF OutLoop, rcProcVars
  <2> QED
    BY <2>1, <1>a DEF RcConnTypes, rcConnVars
<1>11. ASSUME NEW g \in Conn, OutSelect(g) PROVE RcConnTypes'
  <2>1. UNCHANGED <<rcMode, rcConnVars, rcRec>>
    BY <1>11 DEF OutSelect, rcProcVars
  <2> QED
    BY <2>1, <1>a DEF RcConnTypes, rcConnVars
<1>12. ASSUME NEW g \in Conn, OutWrite(g) PROVE RcConnTypes'
  <2>1. UNCHANGED <<rcMode, rcConnVars, rcRec>>
    BY <1>12 DEF OutWrite, rcProcVars
  <2> QED
    BY <2>1, <1>a DEF RcConnTypes, rcConnVars
<1>13. ASSUME NEW g \in Conn, OutDisconnect(g) PROVE RcConnTypes'
  <2>1. Drops /\ UNCHANGED <<rcMode, rcRec>>
    BY <1>13, OutDisconnectFlat
  <2>2. rcShut' \in BOOLEAN
    BY <2>1, <1>a DEF Drops, RcConnTypes
  <2>3. rcCur \in Nat /\ \A h \in Conn : h \in Nat
    BY <1>a, ReqFacts DEF RcConnTypes
  <2> QED
    BY <2>1, <2>2, <2>3, <1>a DEF Drops, RcConnTypes
<1>14. ASSUME NEW g \in Conn, OutDrain(g) PROVE RcConnTypes'
  <2>1. UNCHANGED <<rcMode, rcConnVars, rcRec>>
    BY <1>14 DEF OutDrain, rcProcVars
  <2> QED
    BY <2>1, <1>a DEF RcConnTypes, rcConnVars
<1>15. ASSUME NEW g \in Conn, Reregister(g) PROVE RcConnTypes'
  <2>1. UNCHANGED <<rcMode, rcConnVars, rcRec>>
    BY <1>15 DEF Reregister, rcProcVars
  <2> QED
    BY <2>1, <1>a DEF RcConnTypes, rcConnVars
<1>16. ASSUME NEW g \in Conn, ReregisterEnds(g) PROVE RcConnTypes'
  <2>1. CASE UNCHANGED rcConnVars
    BY <1>16, <2>1, <1>a DEF RcConnTypes, rcConnVars, ReregisterEnds
  <2>2. CASE Drops
    <3>1. UNCHANGED <<rcMode, rcRec>>
      BY <1>16, ReregisterEndsFlat
    <3>2. rcShut' \in BOOLEAN
      BY <2>2, <1>a DEF Drops, RcConnTypes
    <3>3. rcCur \in Nat /\ \A h \in Conn : h \in Nat
      BY <1>a, ReqFacts DEF RcConnTypes
    <3> QED
      BY <2>2, <3>1, <3>2, <3>3, <1>a DEF Drops, RcConnTypes
  <2> QED
    BY <1>16, <2>1, <2>2, ReregisterEndsFlat
<1>17. ASSUME NEW g \in Conn, CopyRequests(g) PROVE RcConnTypes'
  <2>1. UNCHANGED <<rcMode, rcConnVars, rcRec>>
    BY <1>17 DEF CopyRequests, rcProcVars
  <2> QED
    BY <2>1, <1>a DEF RcConnTypes, rcConnVars
<1>18. ASSUME NEW g \in Conn, ResendCheck(g) PROVE RcConnTypes'
  <2>1. UNCHANGED <<rcMode, rcConnVars, rcRec>>
    BY <1>18 DEF ResendCheck, rcProcVars
  <2> QED
    BY <2>1, <1>a DEF RcConnTypes, rcConnVars
<1>19. ASSUME NEW g \in Conn, ResendRequest(g) PROVE RcConnTypes'
  <2>1. UNCHANGED <<rcMode, rcConnVars, rcRec>>
    BY <1>19 DEF ResendRequest, rcProcVars
  <2> QED
    BY <2>1, <1>a DEF RcConnTypes, rcConnVars
<1>20. ASSUME ReconnectWait PROVE RcConnTypes'
  BY <1>20, <1>a DEF RcConnTypes, ReconnectWait, rcConnVars, rcReqVars, rcProcVars
<1>21. ASSUME Dial PROVE RcConnTypes'
  BY <1>21, <1>a DEF RcConnTypes, Dial, rcConnVars, rcReqVars, rcProcVars
<1>22. ASSUME Reconnect PROVE RcConnTypes'
  <2>1. /\ rcCur + 1 \in Conn /\ rcCur' = rcCur + 1 /\ rcDown' = FALSE /\ rcLink' = rcLink \cup {rcCur + 1} /\ rcRec' = "wait"
        /\ UNCHANGED <<rcMode, rcShut, rcClosed, rcFails>>
    BY <1>22, ReconnectFlat
  <2>2. rcCur \in Nat /\ \A h \in Conn : h \in Nat
    BY <1>a, ReqFacts DEF RcConnTypes
  <2>3. \A h \in rcClosed : h <= rcCur + 1 /\ h # rcCur + 1
    BY <2>2, <1>a DEF RcConnTypes
  <2> QED
    BY <2>1, <2>2, <2>3, <1>a DEF RcConnTypes
<1>23. ASSUME PostHandler PROVE RcConnTypes'
  <2>1. UNCHANGED <<rcMode, rcConnVars, rcRec>>
    BY <1>23 DEF PostHandler, rcProcVars
  <2> QED
    BY <2>1, <1>a DEF RcConnTypes, rcConnVars
<1>24. ASSUME HandleSendPost PROVE RcConnTypes'
  <2>1. UNCHANGED <<rcMode, rcConnVars, rcRec>>
    BY <1>24 DEF HandleSendPost, rcProcVars
  <2> QED
    BY <2>1, <1>a DEF RcConnTypes, rcConnVars
<1>25. ASSUME PostCleanup PROVE RcConnTypes'
  <2>1. UNCHANGED <<rcMode, rcConnVars, rcRec>>
    BY <1>25 DEF PostCleanup, rcProcVars
  <2> QED
    BY <2>1, <1>a DEF RcConnTypes, rcConnVars
<1>26. ASSUME Shutdown PROVE RcConnTypes'
  <2>1. rcCur \in Nat /\ \A h \in Conn : h \in Nat
    BY <1>a, ReqFacts DEF RcConnTypes
  <2>2. rcShut' = TRUE /\ UNCHANGED <<rcMode, rcCur, rcFails, rcRec>>
    BY <1>26 DEF Shutdown, rcProcVars
  <2>3. \/ UNCHANGED <<rcDown, rcClosed, rcLink>>
        \/ rcDown' = TRUE /\ rcClosed' = rcClosed \cup {rcCur} /\ rcLink' \subseteq rcLink
    BY <1>26, ShutdownFlat
  <2>4. CASE UNCHANGED <<rcDown, rcClosed, rcLink>>
    BY <2>2, <2>4, <1>a DEF RcConnTypes
  <2>5. CASE rcDown' = TRUE /\ rcClosed' = rcClosed \cup {rcCur} /\ rcLink' \subseteq rcLink
    BY <2>1, <2>2, <2>5, <1>a DEF RcConnTypes
  <2> QED
    BY <2>3, <2>4, <2>5
<1>27. ASSUME LinkFails PROVE RcConnTypes'
  <2>1. rcFails' = rcFails + 1 /\ rcFails < RcMaxFails /\ rcLink' \subseteq rcLink /\ UNCHANGED <<rcMode, rcShut, rcCur, rcDown, rcClosed, rcRec>>
    BY <1>27 DEF LinkFails, rcProcVars
  <2>2. rcFails' \in 0..RcMaxFails
    BY <2>1, <1>a, RpcClientAssumption DEF RcConnTypes
  <2> QED
    BY <2>1, <2>2, <1>a DEF RcConnTypes
<1> QED
  BY <1>0, <1>1, <1>2, <1>3, <1>4, <1>5, <1>6, <1>7, <1>8, <1>9, <1>10, <1>11, <1>12, <1>13, <1>14, <1>15, <1>16, <1>17, <1>18, <1>19, <1>20, <1>21, <1>22, <1>23, <1>24, <1>25, <1>26, <1>27 DEF RpcClientNext, CallNext, InNext, OutNext, ResendNext, RecNext, PostNext

\* The types of the requests are kept.
LEMMA RcReqStep ==
    ASSUME RcTypes, RcPlaces, [RpcClientNext]_rcVars
    PROVE  RcReqTypes'
<1>a. RcConnTypes /\ RcReqTypes /\ RcGoTypes
  BY DEF RcTypes
<1>0. CASE UNCHANGED rcVars
  BY <1>0, <1>a DEF RcReqTypes, rcVars, rcConnVars, rcReqVars, rcProcVars
<1>1. ASSUME NEW m \in Req, SendRequest(m) PROVE RcReqTypes'
  BY <1>1, SendRequestFlat, <1>a DEF RcReqTypes, Answers, Lists, SetCall, rcConnVars, rcReqVars, rcProcVars
<1>2. ASSUME NEW m \in Req, CallSend(m) PROVE RcReqTypes'
  BY <1>2, CallSendFlat, <1>a DEF RcReqTypes, Sends, SetCall, rcConnVars, rcReqVars, rcProcVars
<1>3. ASSUME NEW m \in Req, SendPostRequest(m) PROVE RcReqTypes'
  BY <1>3, SendPostRequestFlat, <1>a DEF RcReqTypes, Answers, SetCall, rcConnVars, rcReqVars, rcProcVars
<1>4. ASSUME NEW m \in Req, PostChannel(m) PROVE RcReqTypes'
  BY <1>4, PostChannelFlat, <1>a DEF RcReqTypes, Sends, SetCall, rcConnVars, rcReqVars, rcProcVars
<1>5. ASSUME NEW g \in Conn, InLoop(g) PROVE RcReqTypes'
  BY <1>5, InLoopFlat, <1>a DEF RcReqTypes, rcConnVars, rcReqVars, rcProcVars
<1>6. ASSUME NEW g \in Conn, RcInRead(g) PROVE RcReqTypes'
  BY <1>6, RcInReadFlat, <1>a DEF RcReqTypes, rcConnVars, rcReqVars, rcProcVars
<1>7. ASSUME NEW g \in Conn, RemoveRequest(g) PROVE RcReqTypes'
  BY <1>7, RemoveRequestFlat, <1>a DEF RcReqTypes, Lists, rcConnVars, rcReqVars, rcProcVars
<1>8. ASSUME NEW g \in Conn, HandleMessage(g) PROVE RcReqTypes'
  BY <1>8, HandleMessageFlat, <1>a DEF RcReqTypes, Answers, rcConnVars, rcReqVars, rcProcVars
<1>9. ASSUME NEW g \in Conn, InDisconnect(g) PROVE RcReqTypes'
  BY <1>9, InDisconnectFlat, <1>a DEF RcReqTypes, Drops, Answers, Lists, rcConnVars, rcReqVars, rcProcVars
<1>10. ASSUME NEW g \in Conn, OutLoop(g) PROVE RcReqTypes'
  BY <1>10, OutLoopFlat, <1>a DEF RcReqTypes, rcConnVars, rcReqVars, rcProcVars
<1>11. ASSUME NEW g \in Conn, OutSelect(g) PROVE RcReqTypes'
  BY <1>11, OutSelectFlat, <1>a DEF RcReqTypes, Sends, rcConnVars, rcReqVars, rcProcVars
<1>12. ASSUME NEW g \in Conn, OutWrite(g) PROVE RcReqTypes'
  BY <1>12, OutWriteFlat, <1>a DEF RcReqTypes, rcConnVars, rcReqVars, rcProcVars
<1>13. ASSUME NEW g \in Conn, OutDisconnect(g) PROVE RcReqTypes'
  BY <1>13, OutDisconnectFlat, <1>a DEF RcReqTypes, Drops, Answers, Lists, rcConnVars, rcReqVars, rcProcVars
<1>14. ASSUME NEW g \in Conn, OutDrain(g) PROVE RcReqTypes'
  <2>1. rcDrained' \subseteq Req
    BY <1>14, OutDrainFlat, RcTypeFacts
  <2>2. Sends({}) /\ UNCHANGED <<rcMode, rcList, rcResp, rcWire, rcTracked, rcCall, rcPost>>
    BY <1>14, OutDrainFlat
  <2> QED
    BY <2>1, <2>2, <1>a DEF RcReqTypes, Sends
<1>15. ASSUME NEW g \in Conn, Reregister(g) PROVE RcReqTypes'
  BY <1>15, ReregisterFlat, <1>a DEF RcReqTypes, Answers, Lists, SetCall, rcConnVars, rcReqVars, rcProcVars
<1>16. ASSUME NEW g \in Conn, ReregisterEnds(g) PROVE RcReqTypes'
  BY <1>16, ReregisterEndsFlat, <1>a DEF RcReqTypes, Drops, Answers, Lists, rcConnVars, rcReqVars, rcProcVars
<1>17. ASSUME NEW g \in Conn, CopyRequests(g) PROVE RcReqTypes'
  BY <1>17, CopyRequestsFlat, <1>a DEF RcReqTypes, Lists, rcConnVars, rcReqVars, rcProcVars
<1>18. ASSUME NEW g \in Conn, ResendCheck(g) PROVE RcReqTypes'
  BY <1>18, ResendCheckFlat, <1>a DEF RcReqTypes, rcConnVars, rcReqVars, rcProcVars
<1>19. ASSUME NEW g \in Conn, ResendRequest(g) PROVE RcReqTypes'
  BY <1>19, ResendRequestFlat, <1>a DEF RcReqTypes, Sends, rcConnVars, rcReqVars, rcProcVars
<1>20. ASSUME ReconnectWait PROVE RcReqTypes'
  BY <1>20, <1>a DEF RcReqTypes, ReconnectWait, rcConnVars, rcReqVars, rcProcVars
<1>21. ASSUME Dial PROVE RcReqTypes'
  BY <1>21, <1>a DEF RcReqTypes, Dial, rcConnVars, rcReqVars, rcProcVars
<1>22. ASSUME Reconnect PROVE RcReqTypes'
  BY <1>22, ReconnectFlat, <1>a DEF RcReqTypes, rcConnVars, rcReqVars, rcProcVars
<1>23. ASSUME PostHandler PROVE RcReqTypes'
  BY <1>23, PostHandlerFlat, <1>a DEF RcReqTypes, SetPost, Sends, rcConnVars, rcReqVars, rcProcVars
<1>24. ASSUME HandleSendPost PROVE RcReqTypes'
  BY <1>24, HandleSendPostFlat, <1>a DEF RcReqTypes, SetPost, Answers, rcConnVars, rcReqVars, rcProcVars
<1>25. ASSUME PostCleanup PROVE RcReqTypes'
  BY <1>25, PostCleanupFlat, <1>a DEF RcReqTypes, SetPost, Answers, Sends, rcConnVars, rcReqVars, rcProcVars
<1>26. ASSUME Shutdown PROVE RcReqTypes'
  BY <1>26, ShutdownFlat, <1>a DEF RcReqTypes, Answers, Lists, rcConnVars, rcReqVars, rcProcVars
<1>27. ASSUME LinkFails PROVE RcReqTypes'
  BY <1>27, <1>a DEF RcReqTypes, LinkFails, rcConnVars, rcReqVars, rcProcVars
<1> QED
  BY <1>0, <1>1, <1>2, <1>3, <1>4, <1>5, <1>6, <1>7, <1>8, <1>9, <1>10, <1>11, <1>12, <1>13, <1>14, <1>15, <1>16, <1>17, <1>18, <1>19, <1>20, <1>21, <1>22, <1>23, <1>24, <1>25, <1>26, <1>27 DEF RpcClientNext, CallNext, InNext, OutNext, ResendNext, RecNext, PostNext

\* The types of the goroutines are kept.
LEMMA RcGoStep ==
    ASSUME RcTypes, RcPlaces, [RpcClientNext]_rcVars
    PROVE  RcGoTypes'
<1>a. RcConnTypes /\ RcReqTypes /\ RcGoTypes
  BY DEF RcTypes
<1>0. CASE UNCHANGED rcVars
  BY <1>0, <1>a DEF RcGoTypes, rcVars, rcConnVars, rcReqVars, rcProcVars
<1>1. ASSUME NEW m \in Req, SendRequest(m) PROVE RcGoTypes'
  BY <1>1, SendRequestFlat, <1>a DEF RcGoTypes, rcConnVars, rcReqVars, rcProcVars
<1>2. ASSUME NEW m \in Req, CallSend(m) PROVE RcGoTypes'
  BY <1>2, CallSendFlat, <1>a DEF RcGoTypes, rcConnVars, rcReqVars, rcProcVars
<1>3. ASSUME NEW m \in Req, SendPostRequest(m) PROVE RcGoTypes'
  BY <1>3, SendPostRequestFlat, <1>a DEF RcGoTypes, rcConnVars, rcReqVars, rcProcVars
<1>4. ASSUME NEW m \in Req, PostChannel(m) PROVE RcGoTypes'
  BY <1>4, PostChannelFlat, <1>a DEF RcGoTypes, rcConnVars, rcReqVars, rcProcVars
<1>5. ASSUME NEW g \in Conn, InLoop(g) PROVE RcGoTypes'
  BY <1>5, InLoopFlat, <1>a DEF RcGoTypes, SetIn, rcConnVars, rcReqVars, rcProcVars
<1>6. ASSUME NEW g \in Conn, RcInRead(g) PROVE RcGoTypes'
  BY <1>6, RcInReadFlat, <1>a DEF RcGoTypes, SetIn, rcConnVars, rcReqVars, rcProcVars
<1>7. ASSUME NEW g \in Conn, RemoveRequest(g) PROVE RcGoTypes'
  BY <1>7, RemoveRequestFlat, <1>a DEF RcGoTypes, SetIn, rcConnVars, rcReqVars, rcProcVars
<1>8. ASSUME NEW g \in Conn, HandleMessage(g) PROVE RcGoTypes'
  BY <1>8, HandleMessageFlat, <1>a DEF RcGoTypes, SetIn, rcConnVars, rcReqVars, rcProcVars
<1>9. ASSUME NEW g \in Conn, InDisconnect(g) PROVE RcGoTypes'
  BY <1>9, InDisconnectFlat, <1>a DEF RcGoTypes, SetIn, rcConnVars, rcReqVars, rcProcVars
<1>10. ASSUME NEW g \in Conn, OutLoop(g) PROVE RcGoTypes'
  BY <1>10, OutLoopFlat, <1>a DEF RcGoTypes, SetOut, rcConnVars, rcReqVars, rcProcVars
<1>11. ASSUME NEW g \in Conn, OutSelect(g) PROVE RcGoTypes'
  BY <1>11, OutSelectFlat, <1>a DEF RcGoTypes, SetOut, rcConnVars, rcReqVars, rcProcVars
<1>12. ASSUME NEW g \in Conn, OutWrite(g) PROVE RcGoTypes'
  BY <1>12, OutWriteFlat, <1>a DEF RcGoTypes, SetOut, rcConnVars, rcReqVars, rcProcVars
<1>13. ASSUME NEW g \in Conn, OutDisconnect(g) PROVE RcGoTypes'
  BY <1>13, OutDisconnectFlat, <1>a DEF RcGoTypes, SetOut, rcConnVars, rcReqVars, rcProcVars
<1>14. ASSUME NEW g \in Conn, OutDrain(g) PROVE RcGoTypes'
  BY <1>14, OutDrainFlat, <1>a DEF RcGoTypes, SetOut, rcConnVars, rcReqVars, rcProcVars
<1>15. ASSUME NEW g \in Conn, Reregister(g) PROVE RcGoTypes'
  BY <1>15, ReregisterFlat, <1>a DEF RcGoTypes, SetResend, rcConnVars, rcReqVars, rcProcVars
<1>16. ASSUME NEW g \in Conn, ReregisterEnds(g) PROVE RcGoTypes'
  BY <1>16, ReregisterEndsFlat, <1>a DEF RcGoTypes, SetResend, rcConnVars, rcReqVars, rcProcVars
<1>17. ASSUME NEW g \in Conn, CopyRequests(g) PROVE RcGoTypes'
  BY <1>17, CopyRequestsFlat, <1>a DEF RcGoTypes, SetResend, rcConnVars, rcReqVars, rcProcVars
<1>18. ASSUME NEW g \in Conn, ResendCheck(g) PROVE RcGoTypes'
  BY <1>18, ResendCheckFlat, <1>a DEF RcGoTypes, SetResend, rcConnVars, rcReqVars, rcProcVars
<1>19. ASSUME NEW g \in Conn, ResendRequest(g) PROVE RcGoTypes'
  BY <1>19, ResendRequestFlat, <1>a DEF RcGoTypes, SetResend, rcConnVars, rcReqVars, rcProcVars
<1>20. ASSUME ReconnectWait PROVE RcGoTypes'
  BY <1>20, <1>a DEF RcGoTypes, ReconnectWait, rcConnVars, rcReqVars, rcProcVars
<1>21. ASSUME Dial PROVE RcGoTypes'
  BY <1>21, <1>a DEF RcGoTypes, Dial, rcConnVars, rcReqVars, rcProcVars
<1>22. ASSUME Reconnect PROVE RcGoTypes'
  BY <1>22, ReconnectFlat, <1>a DEF RcGoTypes, SetIn, SetOut, SetResend, rcConnVars, rcReqVars, rcProcVars
<1>23. ASSUME PostHandler PROVE RcGoTypes'
  BY <1>23, PostHandlerFlat, <1>a DEF RcGoTypes, rcConnVars, rcReqVars, rcProcVars
<1>24. ASSUME HandleSendPost PROVE RcGoTypes'
  BY <1>24, HandleSendPostFlat, <1>a DEF RcGoTypes, rcConnVars, rcReqVars, rcProcVars
<1>25. ASSUME PostCleanup PROVE RcGoTypes'
  BY <1>25, PostCleanupFlat, <1>a DEF RcGoTypes, rcConnVars, rcReqVars, rcProcVars
<1>26. ASSUME Shutdown PROVE RcGoTypes'
  BY <1>26, ShutdownFlat, <1>a DEF RcGoTypes, rcConnVars, rcReqVars, rcProcVars
<1>27. ASSUME LinkFails PROVE RcGoTypes'
  BY <1>27, <1>a DEF RcGoTypes, LinkFails, rcConnVars, rcReqVars, rcProcVars
<1> QED
  BY <1>0, <1>1, <1>2, <1>3, <1>4, <1>5, <1>6, <1>7, <1>8, <1>9, <1>10, <1>11, <1>12, <1>13, <1>14, <1>15, <1>16, <1>17, <1>18, <1>19, <1>20, <1>21, <1>22, <1>23, <1>24, <1>25, <1>26, <1>27 DEF RpcClientNext, CallNext, InNext, OutNext, ResendNext, RecNext, PostNext

\* The types are kept.
LEMMA RcTypesStep ==
    ASSUME RcTypes, RcPlaces, [RpcClientNext]_rcVars
    PROVE  RcTypes'
BY RcConnStep, RcReqStep, RcGoStep DEF RcTypes

-----------------------------------------------------------------------------
(* What the goroutines carry *)

\* What wsInHandler carries is kept.
LEMMA RcInPlaceStep ==
    ASSUME RcTypes, RcPlaces, NEW k \in Conn, [RpcClientNext]_rcVars
    PROVE  RcInPlace(k)'
<1>a. /\ rcCur \in Nat /\ rcCur \in Conn /\ k \in Nat /\ rcDown \in BOOLEAN
      /\ \A h \in Conn : h \in Nat
  BY RcTypeFacts, ReqFacts DEF RcTypes, RcConnTypes
<1>b. \A h \in Conn : RcInPlace(h) /\ RcOutPlace(h) /\ RcResendPlace(h)
  BY DEF RcPlaces
<1>0. CASE UNCHANGED rcVars
  BY <1>0, <1>a, <1>b DEF RcInPlace, rcVars, rcConnVars, rcReqVars, rcProcVars
<1>1. ASSUME NEW m \in Req, SendRequest(m) PROVE RcInPlace(k)'
  BY <1>1, SendRequestFlat, <1>a, <1>b DEF RcInPlace, rcConnVars, rcReqVars, rcProcVars
<1>2. ASSUME NEW m \in Req, CallSend(m) PROVE RcInPlace(k)'
  BY <1>2, CallSendFlat, <1>a, <1>b DEF RcInPlace, rcConnVars, rcReqVars, rcProcVars
<1>3. ASSUME NEW m \in Req, SendPostRequest(m) PROVE RcInPlace(k)'
  BY <1>3, SendPostRequestFlat, <1>a, <1>b DEF RcInPlace, rcConnVars, rcReqVars, rcProcVars
<1>4. ASSUME NEW m \in Req, PostChannel(m) PROVE RcInPlace(k)'
  BY <1>4, PostChannelFlat, <1>a, <1>b DEF RcInPlace, rcConnVars, rcReqVars, rcProcVars
<1>5. ASSUME NEW g \in Conn, InLoop(g) PROVE RcInPlace(k)'
  BY <1>5, InLoopFlat, <1>a, <1>b DEF RcInPlace, SetIn, rcConnVars, rcReqVars, rcProcVars
<1>6. ASSUME NEW g \in Conn, RcInRead(g) PROVE RcInPlace(k)'
  BY <1>6, RcInReadFlat, <1>a, <1>b DEF RcInPlace, SetIn, rcConnVars, rcReqVars, rcProcVars
<1>7. ASSUME NEW g \in Conn, RemoveRequest(g) PROVE RcInPlace(k)'
  BY <1>7, RemoveRequestFlat, <1>a, <1>b DEF RcInPlace, SetIn, rcConnVars, rcReqVars, rcProcVars
<1>8. ASSUME NEW g \in Conn, HandleMessage(g) PROVE RcInPlace(k)'
  BY <1>8, HandleMessageFlat, <1>a, <1>b DEF RcInPlace, SetIn, rcConnVars, rcReqVars, rcProcVars
<1>9. ASSUME NEW g \in Conn, InDisconnect(g) PROVE RcInPlace(k)'
  BY <1>9, InDisconnectFlat, <1>a, <1>b DEF RcInPlace, SetIn, Drops, rcConnVars, rcReqVars, rcProcVars
<1>10. ASSUME NEW g \in Conn, OutLoop(g) PROVE RcInPlace(k)'
  BY <1>10, OutLoopFlat, <1>a, <1>b DEF RcInPlace, rcConnVars, rcReqVars, rcProcVars
<1>11. ASSUME NEW g \in Conn, OutSelect(g) PROVE RcInPlace(k)'
  BY <1>11, OutSelectFlat, <1>a, <1>b DEF RcInPlace, rcConnVars, rcReqVars, rcProcVars
<1>12. ASSUME NEW g \in Conn, OutWrite(g) PROVE RcInPlace(k)'
  BY <1>12, OutWriteFlat, <1>a, <1>b DEF RcInPlace, rcConnVars, rcReqVars, rcProcVars
<1>13. ASSUME NEW g \in Conn, OutDisconnect(g) PROVE RcInPlace(k)'
  BY <1>13, OutDisconnectFlat, <1>a, <1>b DEF RcInPlace, Drops, rcConnVars, rcReqVars, rcProcVars
<1>14. ASSUME NEW g \in Conn, OutDrain(g) PROVE RcInPlace(k)'
  BY <1>14, OutDrainFlat, <1>a, <1>b DEF RcInPlace, rcConnVars, rcReqVars, rcProcVars
<1>15. ASSUME NEW g \in Conn, Reregister(g) PROVE RcInPlace(k)'
  BY <1>15, ReregisterFlat, <1>a, <1>b DEF RcInPlace, rcConnVars, rcReqVars, rcProcVars
<1>16. ASSUME NEW g \in Conn, ReregisterEnds(g) PROVE RcInPlace(k)'
  <2>1. UNCHANGED <<rcCur, rcIn>>
    BY <1>16 DEF ReregisterEnds, Disconnect, rcConnVars
  <2> QED
    BY <2>1, <1>b DEF RcInPlace
<1>17. ASSUME NEW g \in Conn, CopyRequests(g) PROVE RcInPlace(k)'
  BY <1>17, CopyRequestsFlat, <1>a, <1>b DEF RcInPlace, rcConnVars, rcReqVars, rcProcVars
<1>18. ASSUME NEW g \in Conn, ResendCheck(g) PROVE RcInPlace(k)'
  BY <1>18, ResendCheckFlat, <1>a, <1>b DEF RcInPlace, rcConnVars, rcReqVars, rcProcVars
<1>19. ASSUME NEW g \in Conn, ResendRequest(g) PROVE RcInPlace(k)'
  BY <1>19, ResendRequestFlat, <1>a, <1>b DEF RcInPlace, rcConnVars, rcReqVars, rcProcVars
<1>20. ASSUME ReconnectWait PROVE RcInPlace(k)'
  BY <1>20, <1>a, <1>b DEF RcInPlace, ReconnectWait, rcConnVars, rcReqVars, rcProcVars
<1>21. ASSUME Dial PROVE RcInPlace(k)'
  BY <1>21, <1>a, <1>b DEF RcInPlace, Dial, rcConnVars, rcReqVars, rcProcVars
<1>22. ASSUME Reconnect PROVE RcInPlace(k)'
  BY <1>22, ReconnectFlat, <1>a, <1>b DEF RcInPlace, SetIn, rcConnVars, rcReqVars, rcProcVars
<1>23. ASSUME PostHandler PROVE RcInPlace(k)'
  BY <1>23, PostHandlerFlat, <1>a, <1>b DEF RcInPlace, rcConnVars, rcReqVars, rcProcVars
<1>24. ASSUME HandleSendPost PROVE RcInPlace(k)'
  BY <1>24, HandleSendPostFlat, <1>a, <1>b DEF RcInPlace, rcConnVars, rcReqVars, rcProcVars
<1>25. ASSUME PostCleanup PROVE RcInPlace(k)'
  BY <1>25, PostCleanupFlat, <1>a, <1>b DEF RcInPlace, rcConnVars, rcReqVars, rcProcVars
<1>26. ASSUME Shutdown PROVE RcInPlace(k)'
  BY <1>26, ShutdownFlat, <1>a, <1>b DEF RcInPlace, rcConnVars, rcReqVars, rcProcVars
<1>27. ASSUME LinkFails PROVE RcInPlace(k)'
  BY <1>27, <1>a, <1>b DEF RcInPlace, LinkFails, rcConnVars, rcReqVars, rcProcVars
<1> QED
  BY <1>0, <1>1, <1>2, <1>3, <1>4, <1>5, <1>6, <1>7, <1>8, <1>9, <1>10, <1>11, <1>12, <1>13, <1>14, <1>15, <1>16, <1>17, <1>18, <1>19, <1>20, <1>21, <1>22, <1>23, <1>24, <1>25, <1>26, <1>27 DEF RpcClientNext, CallNext, InNext, OutNext, ResendNext, RecNext, PostNext

\* What wsOutHandler carries is kept.
LEMMA RcOutPlaceStep ==
    ASSUME RcTypes, RcPlaces, NEW k \in Conn, [RpcClientNext]_rcVars
    PROVE  RcOutPlace(k)'
<1>a. /\ rcCur \in Nat /\ rcCur \in Conn /\ k \in Nat /\ rcDown \in BOOLEAN
      /\ \A h \in Conn : h \in Nat
  BY RcTypeFacts, ReqFacts DEF RcTypes, RcConnTypes
<1>b. \A h \in Conn : RcInPlace(h) /\ RcOutPlace(h) /\ RcResendPlace(h)
  BY DEF RcPlaces
<1>0. CASE UNCHANGED rcVars
  BY <1>0, <1>a, <1>b DEF RcOutPlace, rcVars, rcConnVars, rcReqVars, rcProcVars
<1>1. ASSUME NEW m \in Req, SendRequest(m) PROVE RcOutPlace(k)'
  BY <1>1, SendRequestFlat, <1>a, <1>b DEF RcOutPlace, rcConnVars, rcReqVars, rcProcVars
<1>2. ASSUME NEW m \in Req, CallSend(m) PROVE RcOutPlace(k)'
  BY <1>2, CallSendFlat, <1>a, <1>b DEF RcOutPlace, rcConnVars, rcReqVars, rcProcVars
<1>3. ASSUME NEW m \in Req, SendPostRequest(m) PROVE RcOutPlace(k)'
  BY <1>3, SendPostRequestFlat, <1>a, <1>b DEF RcOutPlace, rcConnVars, rcReqVars, rcProcVars
<1>4. ASSUME NEW m \in Req, PostChannel(m) PROVE RcOutPlace(k)'
  BY <1>4, PostChannelFlat, <1>a, <1>b DEF RcOutPlace, rcConnVars, rcReqVars, rcProcVars
<1>5. ASSUME NEW g \in Conn, InLoop(g) PROVE RcOutPlace(k)'
  BY <1>5, InLoopFlat, <1>a, <1>b DEF RcOutPlace, rcConnVars, rcReqVars, rcProcVars
<1>6. ASSUME NEW g \in Conn, RcInRead(g) PROVE RcOutPlace(k)'
  BY <1>6, RcInReadFlat, <1>a, <1>b DEF RcOutPlace, rcConnVars, rcReqVars, rcProcVars
<1>7. ASSUME NEW g \in Conn, RemoveRequest(g) PROVE RcOutPlace(k)'
  BY <1>7, RemoveRequestFlat, <1>a, <1>b DEF RcOutPlace, rcConnVars, rcReqVars, rcProcVars
<1>8. ASSUME NEW g \in Conn, HandleMessage(g) PROVE RcOutPlace(k)'
  BY <1>8, HandleMessageFlat, <1>a, <1>b DEF RcOutPlace, rcConnVars, rcReqVars, rcProcVars
<1>9. ASSUME NEW g \in Conn, InDisconnect(g) PROVE RcOutPlace(k)'
  BY <1>9, InDisconnectFlat, <1>a, <1>b DEF RcOutPlace, Drops, rcConnVars, rcReqVars, rcProcVars
<1>10. ASSUME NEW g \in Conn, OutLoop(g) PROVE RcOutPlace(k)'
  BY <1>10, OutLoopFlat, <1>a, <1>b DEF RcOutPlace, SetOut, rcConnVars, rcReqVars, rcProcVars
<1>11. ASSUME NEW g \in Conn, OutSelect(g) PROVE RcOutPlace(k)'
  <2>1. rcOut[g].on \in Nat /\ (rcDown <=> rcCur \in rcClosed)
    BY RcTypeFacts, RcFieldFacts, ReqFacts DEF RcTypes, RcConnTypes
  <2>2. UNCHANGED <<rcCur, rcDown>> /\ rcOut[g].pc = "select"
    BY <1>11 DEF OutSelect, rcConnVars
  <2>3. rcOut[g].on \in rcClosed /\ g = rcCur => rcDown
    BY <1>a, <1>b, <2>1, <2>2 DEF RcOutPlace
  <2>4. CASE k # g
    <3>1. rcOut'[k] = rcOut[k]
      BY <1>11, <2>4, OutSelectFlat DEF SetOut
    <3> QED
      BY <2>2, <3>1, <1>b DEF RcOutPlace
  <2>5. CASE k = g
    <3>1. ~(g > rcCur) /\ rcOut[g].req = NoReq
      BY <2>2, <1>b DEF RcOutPlace
    <3>2. \/ rcOut'[g].pc = "write" /\ rcOut'[g].req \in Req
          \/ rcOut'[g].pc = "drain" /\ rcOut'[g].req = rcOut[g].req /\ rcOut[g].on \in rcClosed
      BY <1>11, OutSelectFlat DEF SetOut
    <3> QED
      BY <2>2, <2>3, <2>5, <3>1, <3>2 DEF RcOutPlace
  <2> QED
    BY <2>4, <2>5
<1>12. ASSUME NEW g \in Conn, OutWrite(g) PROVE RcOutPlace(k)'
  BY <1>12, OutWriteFlat, <1>a, <1>b DEF RcOutPlace, SetOut, rcConnVars, rcReqVars, rcProcVars
<1>13. ASSUME NEW g \in Conn, OutDisconnect(g) PROVE RcOutPlace(k)'
  BY <1>13, OutDisconnectFlat, <1>a, <1>b DEF RcOutPlace, SetOut, Drops, rcConnVars, rcReqVars, rcProcVars
<1>14. ASSUME NEW g \in Conn, OutDrain(g) PROVE RcOutPlace(k)'
  BY <1>14, OutDrainFlat, <1>a, <1>b DEF RcOutPlace, SetOut, rcConnVars, rcReqVars, rcProcVars
<1>15. ASSUME NEW g \in Conn, Reregister(g) PROVE RcOutPlace(k)'
  BY <1>15, ReregisterFlat, <1>a, <1>b DEF RcOutPlace, rcConnVars, rcReqVars, rcProcVars
<1>16. ASSUME NEW g \in Conn, ReregisterEnds(g) PROVE RcOutPlace(k)'
  BY <1>16, ReregisterEndsFlat, <1>a, <1>b DEF RcOutPlace, Drops, rcConnVars, rcReqVars, rcProcVars
<1>17. ASSUME NEW g \in Conn, CopyRequests(g) PROVE RcOutPlace(k)'
  BY <1>17, CopyRequestsFlat, <1>a, <1>b DEF RcOutPlace, rcConnVars, rcReqVars, rcProcVars
<1>18. ASSUME NEW g \in Conn, ResendCheck(g) PROVE RcOutPlace(k)'
  BY <1>18, ResendCheckFlat, <1>a, <1>b DEF RcOutPlace, rcConnVars, rcReqVars, rcProcVars
<1>19. ASSUME NEW g \in Conn, ResendRequest(g) PROVE RcOutPlace(k)'
  BY <1>19, ResendRequestFlat, <1>a, <1>b DEF RcOutPlace, rcConnVars, rcReqVars, rcProcVars
<1>20. ASSUME ReconnectWait PROVE RcOutPlace(k)'
  BY <1>20, <1>a, <1>b DEF RcOutPlace, ReconnectWait, rcConnVars, rcReqVars, rcProcVars
<1>21. ASSUME Dial PROVE RcOutPlace(k)'
  BY <1>21, <1>a, <1>b DEF RcOutPlace, Dial, rcConnVars, rcReqVars, rcProcVars
<1>22. ASSUME Reconnect PROVE RcOutPlace(k)'
  <2>1. rcCur' = rcCur + 1 /\ SetOut(rcCur + 1, "loop", 0, NoReq) /\ rcCur + 1 \in Conn
    BY <1>22, ReconnectFlat
  <2>2. rcOut[k].on \in Nat
    BY RcTypeFacts, RcFieldFacts, ReqFacts
  <2>3. CASE k = rcCur + 1
    BY <1>a, <2>1, <2>3 DEF SetOut, RcOutPlace
  <2>4. CASE k # rcCur + 1
    <3>1. rcOut'[k] = rcOut[k] /\ (k > rcCur + 1 => k > rcCur) /\ (rcOut[k].on <= rcCur => rcOut[k].on <= rcCur + 1)
      BY <1>a, <2>1, <2>2, <2>4 DEF SetOut
    <3> QED
      BY <2>1, <2>4, <3>1, <1>b DEF RcOutPlace
  <2> QED
    BY <2>3, <2>4
<1>23. ASSUME PostHandler PROVE RcOutPlace(k)'
  BY <1>23, PostHandlerFlat, <1>a, <1>b DEF RcOutPlace, rcConnVars, rcReqVars, rcProcVars
<1>24. ASSUME HandleSendPost PROVE RcOutPlace(k)'
  BY <1>24, HandleSendPostFlat, <1>a, <1>b DEF RcOutPlace, rcConnVars, rcReqVars, rcProcVars
<1>25. ASSUME PostCleanup PROVE RcOutPlace(k)'
  BY <1>25, PostCleanupFlat, <1>a, <1>b DEF RcOutPlace, rcConnVars, rcReqVars, rcProcVars
<1>26. ASSUME Shutdown PROVE RcOutPlace(k)'
  BY <1>26, ShutdownFlat, <1>a, <1>b DEF RcOutPlace, rcConnVars, rcReqVars, rcProcVars
<1>27. ASSUME LinkFails PROVE RcOutPlace(k)'
  BY <1>27, <1>a, <1>b DEF RcOutPlace, LinkFails, rcConnVars, rcReqVars, rcProcVars
<1> QED
  BY <1>0, <1>1, <1>2, <1>3, <1>4, <1>5, <1>6, <1>7, <1>8, <1>9, <1>10, <1>11, <1>12, <1>13, <1>14, <1>15, <1>16, <1>17, <1>18, <1>19, <1>20, <1>21, <1>22, <1>23, <1>24, <1>25, <1>26, <1>27 DEF RpcClientNext, CallNext, InNext, OutNext, ResendNext, RecNext, PostNext

\* What resendRequests carries is kept.
LEMMA RcResendPlaceStep ==
    ASSUME RcTypes, RcPlaces, NEW k \in Conn, [RpcClientNext]_rcVars
    PROVE  RcResendPlace(k)'
<1>a. /\ rcCur \in Nat /\ rcCur \in Conn /\ k \in Nat /\ rcDown \in BOOLEAN
      /\ \A h \in Conn : h \in Nat
  BY RcTypeFacts, ReqFacts DEF RcTypes, RcConnTypes
<1>b. \A h \in Conn : RcInPlace(h) /\ RcOutPlace(h) /\ RcResendPlace(h)
  BY DEF RcPlaces
<1>0. CASE UNCHANGED rcVars
  BY <1>0, <1>a, <1>b DEF RcResendPlace, rcVars, rcConnVars, rcReqVars, rcProcVars
<1>1. ASSUME NEW m \in Req, SendRequest(m) PROVE RcResendPlace(k)'
  BY <1>1, SendRequestFlat, <1>a, <1>b DEF RcResendPlace, rcConnVars, rcReqVars, rcProcVars
<1>2. ASSUME NEW m \in Req, CallSend(m) PROVE RcResendPlace(k)'
  BY <1>2, CallSendFlat, <1>a, <1>b DEF RcResendPlace, rcConnVars, rcReqVars, rcProcVars
<1>3. ASSUME NEW m \in Req, SendPostRequest(m) PROVE RcResendPlace(k)'
  BY <1>3, SendPostRequestFlat, <1>a, <1>b DEF RcResendPlace, rcConnVars, rcReqVars, rcProcVars
<1>4. ASSUME NEW m \in Req, PostChannel(m) PROVE RcResendPlace(k)'
  BY <1>4, PostChannelFlat, <1>a, <1>b DEF RcResendPlace, rcConnVars, rcReqVars, rcProcVars
<1>5. ASSUME NEW g \in Conn, InLoop(g) PROVE RcResendPlace(k)'
  BY <1>5, InLoopFlat, <1>a, <1>b DEF RcResendPlace, rcConnVars, rcReqVars, rcProcVars
<1>6. ASSUME NEW g \in Conn, RcInRead(g) PROVE RcResendPlace(k)'
  BY <1>6, RcInReadFlat, <1>a, <1>b DEF RcResendPlace, rcConnVars, rcReqVars, rcProcVars
<1>7. ASSUME NEW g \in Conn, RemoveRequest(g) PROVE RcResendPlace(k)'
  BY <1>7, RemoveRequestFlat, <1>a, <1>b DEF RcResendPlace, rcConnVars, rcReqVars, rcProcVars
<1>8. ASSUME NEW g \in Conn, HandleMessage(g) PROVE RcResendPlace(k)'
  BY <1>8, HandleMessageFlat, <1>a, <1>b DEF RcResendPlace, rcConnVars, rcReqVars, rcProcVars
<1>9. ASSUME NEW g \in Conn, InDisconnect(g) PROVE RcResendPlace(k)'
  BY <1>9, InDisconnectFlat, <1>a, <1>b DEF RcResendPlace, Drops, rcConnVars, rcReqVars, rcProcVars
<1>10. ASSUME NEW g \in Conn, OutLoop(g) PROVE RcResendPlace(k)'
  BY <1>10, OutLoopFlat, <1>a, <1>b DEF RcResendPlace, rcConnVars, rcReqVars, rcProcVars
<1>11. ASSUME NEW g \in Conn, OutSelect(g) PROVE RcResendPlace(k)'
  BY <1>11, OutSelectFlat, <1>a, <1>b DEF RcResendPlace, rcConnVars, rcReqVars, rcProcVars
<1>12. ASSUME NEW g \in Conn, OutWrite(g) PROVE RcResendPlace(k)'
  BY <1>12, OutWriteFlat, <1>a, <1>b DEF RcResendPlace, rcConnVars, rcReqVars, rcProcVars
<1>13. ASSUME NEW g \in Conn, OutDisconnect(g) PROVE RcResendPlace(k)'
  BY <1>13, OutDisconnectFlat, <1>a, <1>b DEF RcResendPlace, Drops, rcConnVars, rcReqVars, rcProcVars
<1>14. ASSUME NEW g \in Conn, OutDrain(g) PROVE RcResendPlace(k)'
  BY <1>14, OutDrainFlat, <1>a, <1>b DEF RcResendPlace, rcConnVars, rcReqVars, rcProcVars
<1>15. ASSUME NEW g \in Conn, Reregister(g) PROVE RcResendPlace(k)'
  BY <1>15, ReregisterFlat, <1>a, <1>b DEF RcResendPlace, SetResend, rcConnVars, rcReqVars, rcProcVars
<1>16. ASSUME NEW g \in Conn, ReregisterEnds(g) PROVE RcResendPlace(k)'
  BY <1>16, ReregisterEndsFlat, <1>a, <1>b DEF RcResendPlace, SetResend, Drops, rcConnVars, rcReqVars, rcProcVars
<1>17. ASSUME NEW g \in Conn, CopyRequests(g) PROVE RcResendPlace(k)'
  BY <1>17, CopyRequestsFlat, <1>a, <1>b DEF RcResendPlace, SetResend, rcConnVars, rcReqVars, rcProcVars
<1>18. ASSUME NEW g \in Conn, ResendCheck(g) PROVE RcResendPlace(k)'
  BY <1>18, ResendCheckFlat, <1>a, <1>b DEF RcResendPlace, SetResend, rcConnVars, rcReqVars, rcProcVars
<1>19. ASSUME NEW g \in Conn, ResendRequest(g) PROVE RcResendPlace(k)'
  BY <1>19, ResendRequestFlat, <1>a, <1>b DEF RcResendPlace, SetResend, rcConnVars, rcReqVars, rcProcVars
<1>20. ASSUME ReconnectWait PROVE RcResendPlace(k)'
  BY <1>20, <1>a, <1>b DEF RcResendPlace, ReconnectWait, rcConnVars, rcReqVars, rcProcVars
<1>21. ASSUME Dial PROVE RcResendPlace(k)'
  BY <1>21, <1>a, <1>b DEF RcResendPlace, Dial, rcConnVars, rcReqVars, rcProcVars
<1>22. ASSUME Reconnect PROVE RcResendPlace(k)'
  <2>1. rcCur' = rcCur + 1 /\ SetResend(rcCur + 1, "register", 0, <<>>) /\ rcCur + 1 \in Conn
    BY <1>22, ReconnectFlat
  <2>2. rcResend[k].on \in Nat /\ rcCur >= 1
    BY RcTypeFacts, RcFieldFacts, ReqFacts, RpcClientAssumption DEF Conn
  <2>3. CASE k = rcCur + 1
    BY <1>a, <2>1, <2>2, <2>3 DEF SetResend, RcResendPlace
  <2>4. CASE k # rcCur + 1
    <3>1. rcResend'[k] = rcResend[k] /\ (k > rcCur + 1 => k > rcCur) /\ (rcResend[k].on <= rcCur => rcResend[k].on <= rcCur + 1)
      BY <1>a, <2>1, <2>2, <2>4 DEF SetResend
    <3> QED
      BY <2>1, <2>4, <3>1, <1>b DEF RcResendPlace
  <2> QED
    BY <2>3, <2>4
<1>23. ASSUME PostHandler PROVE RcResendPlace(k)'
  BY <1>23, PostHandlerFlat, <1>a, <1>b DEF RcResendPlace, rcConnVars, rcReqVars, rcProcVars
<1>24. ASSUME HandleSendPost PROVE RcResendPlace(k)'
  BY <1>24, HandleSendPostFlat, <1>a, <1>b DEF RcResendPlace, rcConnVars, rcReqVars, rcProcVars
<1>25. ASSUME PostCleanup PROVE RcResendPlace(k)'
  BY <1>25, PostCleanupFlat, <1>a, <1>b DEF RcResendPlace, rcConnVars, rcReqVars, rcProcVars
<1>26. ASSUME Shutdown PROVE RcResendPlace(k)'
  BY <1>26, ShutdownFlat, <1>a, <1>b DEF RcResendPlace, rcConnVars, rcReqVars, rcProcVars
<1>27. ASSUME LinkFails PROVE RcResendPlace(k)'
  BY <1>27, <1>a, <1>b DEF RcResendPlace, LinkFails, rcConnVars, rcReqVars, rcProcVars
<1> QED
  BY <1>0, <1>1, <1>2, <1>3, <1>4, <1>5, <1>6, <1>7, <1>8, <1>9, <1>10, <1>11, <1>12, <1>13, <1>14, <1>15, <1>16, <1>17, <1>18, <1>19, <1>20, <1>21, <1>22, <1>23, <1>24, <1>25, <1>26, <1>27 DEF RpcClientNext, CallNext, InNext, OutNext, ResendNext, RecNext, PostNext

\* ... so all of them.
LEMMA RcPlacesStep ==
    ASSUME RcTypes, RcPlaces, [RpcClientNext]_rcVars
    PROVE  RcPlaces'
<1>1. \A k \in Conn : RcInPlace(k)' /\ RcOutPlace(k)' /\ RcResendPlace(k)'
  BY RcInPlaceStep, RcOutPlaceStep, RcResendPlaceStep
<1> QED
  BY <1>1 DEF RcPlaces

\* The two ways to work stay apart.
LEMMA RcModesStep ==
    ASSUME RcTypes, RcPlaces, RcModes, [RpcClientNext]_rcVars
    PROVE  RcModes'
<1>a. /\ \A m \in Regs : m[2] \in Conn /\ m = <<"reg", m[2]>> /\ m \in Req
      /\ \A m \in ClientCalls : m \notin Regs /\ m \in Req
  BY ReqFacts DEF Req
<1>0. CASE UNCHANGED rcVars
  BY <1>0, <1>a DEF RcModes, rcVars, rcConnVars, rcReqVars, rcProcVars
<1>1. ASSUME NEW m \in Req, SendRequest(m) PROVE RcModes'
  BY <1>1, SendRequestFlat, <1>a DEF RcModes, Answers, Lists, SetCall, rcConnVars, rcReqVars, rcProcVars
<1>2. ASSUME NEW m \in Req, CallSend(m) PROVE RcModes'
  BY <1>2, CallSendFlat, <1>a DEF RcModes, Sends, SetCall, rcConnVars, rcReqVars, rcProcVars
<1>3. ASSUME NEW m \in Req, SendPostRequest(m) PROVE RcModes'
  BY <1>3, SendPostRequestFlat, <1>a DEF RcModes, Answers, SetCall, rcConnVars, rcReqVars, rcProcVars
<1>4. ASSUME NEW m \in Req, PostChannel(m) PROVE RcModes'
  BY <1>4, PostChannelFlat, <1>a DEF RcModes, Sends, SetCall, rcConnVars, rcReqVars, rcProcVars
<1>5. ASSUME NEW g \in Conn, InLoop(g) PROVE RcModes'
  BY <1>5, InLoopFlat, <1>a DEF RcModes, SetIn, rcConnVars, rcReqVars, rcProcVars
<1>6. ASSUME NEW g \in Conn, RcInRead(g) PROVE RcModes'
  BY <1>6, RcInReadFlat, <1>a DEF RcModes, SetIn, rcConnVars, rcReqVars, rcProcVars
<1>7. ASSUME NEW g \in Conn, RemoveRequest(g) PROVE RcModes'
  BY <1>7, RemoveRequestFlat, <1>a DEF RcModes, SetIn, Lists, rcConnVars, rcReqVars, rcProcVars
<1>8. ASSUME NEW g \in Conn, HandleMessage(g) PROVE RcModes'
  BY <1>8, HandleMessageFlat, <1>a DEF RcModes, SetIn, Answers, rcConnVars, rcReqVars, rcProcVars
<1>9. ASSUME NEW g \in Conn, InDisconnect(g) PROVE RcModes'
  <2>1. rcMode # "post" /\ UNCHANGED <<rcMode, rcPost, rcCall, rcResend>>
    BY <1>9 DEF RcModes, InDisconnect
  <2> QED
    BY <2>1 DEF RcModes
<1>10. ASSUME NEW g \in Conn, OutLoop(g) PROVE RcModes'
  BY <1>10, OutLoopFlat, <1>a DEF RcModes, SetOut, rcConnVars, rcReqVars, rcProcVars
<1>11. ASSUME NEW g \in Conn, OutSelect(g) PROVE RcModes'
  BY <1>11, OutSelectFlat, <1>a DEF RcModes, SetOut, Sends, rcConnVars, rcReqVars, rcProcVars
<1>12. ASSUME NEW g \in Conn, OutWrite(g) PROVE RcModes'
  BY <1>12, OutWriteFlat, <1>a DEF RcModes, SetOut, rcConnVars, rcReqVars, rcProcVars
<1>13. ASSUME NEW g \in Conn, OutDisconnect(g) PROVE RcModes'
  <2>1. rcMode # "post" /\ UNCHANGED <<rcMode, rcPost, rcCall, rcResend>>
    BY <1>13 DEF RcModes, OutDisconnect
  <2> QED
    BY <2>1 DEF RcModes
<1>14. ASSUME NEW g \in Conn, OutDrain(g) PROVE RcModes'
  BY <1>14, OutDrainFlat, <1>a DEF RcModes, SetOut, Sends, rcConnVars, rcReqVars, rcProcVars
<1>15. ASSUME NEW g \in Conn, Reregister(g) PROVE RcModes'
  <2>1. rcMode # "post" /\ UNCHANGED <<rcMode, rcPost>>
    BY <1>15 DEF RcModes, Reregister
  <2>2. rcResend'[g].pc \in {"await", "copy"} /\ \A h \in Conn : h # g => rcResend'[h] = rcResend[h]
    BY <1>15, ReregisterFlat DEF SetResend
  <2>3. \A k \in Req : k # <<"reg", g>> => rcCall'[k] = rcCall[k]
    BY <1>15, ReregisterFlat DEF SetCall
  <2>4. rcCall' # rcCall => rcCall'[<<"reg", g>>].pc = "send"
    BY <1>15, ReregisterFlat DEF SetCall
  <2>5. \A k \in Req : rcCall'[k].pc # "post"
    BY <2>1, <2>3, <2>4 DEF RcModes
  <2>6. \A k \in Regs : rcResend'[k[2]].pc \in {"none", "register"} => rcCall'[k].pc = "none"
    <3> SUFFICES ASSUME NEW k \in Regs, rcResend'[k[2]].pc \in {"none", "register"} PROVE rcCall'[k].pc = "none"
      OBVIOUS
    <3>1. k[2] \in Conn /\ k = <<"reg", k[2]>> /\ k \in Req
      BY <1>a
    <3>2. k[2] # g
      BY <2>2
    <3>3. k # <<"reg", g>>
      BY <3>1, <3>2
    <3> QED
      BY <2>2, <2>3, <3>1, <3>2, <3>3 DEF RcModes
  <2> QED
    BY <2>1, <2>5, <2>6 DEF RcModes
<1>16. ASSUME NEW g \in Conn, ReregisterEnds(g) PROVE RcModes'
  <2>1. rcMode # "post" /\ UNCHANGED <<rcMode, rcPost, rcCall>> /\ rcResend[g].pc = "await"
    BY <1>16 DEF RcModes, ReregisterEnds
  <2>2. \A h \in Conn : rcResend'[h].pc \in {"none", "register"} => rcResend'[h].pc = rcResend[h].pc
    BY <1>16, ReregisterEndsFlat DEF SetResend
  <2> QED
    BY <1>a, <2>1, <2>2 DEF RcModes
<1>17. ASSUME NEW g \in Conn, CopyRequests(g) PROVE RcModes'
  BY <1>17, CopyRequestsFlat, <1>a DEF RcModes, SetResend, Lists, rcConnVars, rcReqVars, rcProcVars
<1>18. ASSUME NEW g \in Conn, ResendCheck(g) PROVE RcModes'
  BY <1>18, ResendCheckFlat, <1>a DEF RcModes, SetResend, rcConnVars, rcReqVars, rcProcVars
<1>19. ASSUME NEW g \in Conn, ResendRequest(g) PROVE RcModes'
  BY <1>19, ResendRequestFlat, <1>a DEF RcModes, SetResend, Sends, rcConnVars, rcReqVars, rcProcVars
<1>20. ASSUME ReconnectWait PROVE RcModes'
  BY <1>20, <1>a DEF RcModes, ReconnectWait, rcConnVars, rcReqVars, rcProcVars
<1>21. ASSUME Dial PROVE RcModes'
  BY <1>21, <1>a DEF RcModes, Dial, rcConnVars, rcReqVars, rcProcVars
<1>22. ASSUME Reconnect PROVE RcModes'
  <2>1. rcMode # "post" /\ UNCHANGED <<rcMode, rcPost, rcCall>>
    BY <1>22 DEF RcModes, Reconnect
  <2>2. PICK g \in Conn : g = rcCur + 1 /\ SetResend(g, "register", 0, <<>>)
    BY <1>22, ReconnectFlat
  <2>3. rcResend[g].pc = "none"
    BY <2>2, RcTypeFacts, ReqFacts DEF RcPlaces, RcResendPlace
  <2>4. \A h \in Conn : rcResend'[h].pc \in {"none", "register"} => rcResend[h].pc \in {"none", "register"}
    BY <2>2, <2>3 DEF SetResend
  <2> QED
    BY <1>a, <2>1, <2>4 DEF RcModes
<1>23. ASSUME PostHandler PROVE RcModes'
  BY <1>23, PostHandlerFlat, <1>a DEF RcModes, SetPost, Sends, rcConnVars, rcReqVars, rcProcVars
<1>24. ASSUME HandleSendPost PROVE RcModes'
  BY <1>24, HandleSendPostFlat, <1>a DEF RcModes, SetPost, Answers, rcConnVars, rcReqVars, rcProcVars
<1>25. ASSUME PostCleanup PROVE RcModes'
  BY <1>25, PostCleanupFlat, <1>a DEF RcModes, SetPost, Answers, Sends, rcConnVars, rcReqVars, rcProcVars
<1>26. ASSUME Shutdown PROVE RcModes'
  <2>1. rcList' = <<>> /\ UNCHANGED <<rcMode, rcProcVars>>
    BY <1>26 DEF Shutdown, AnswerAll
  <2> QED
    BY <2>1 DEF RcModes, rcProcVars
<1>27. ASSUME LinkFails PROVE RcModes'
  BY <1>27, <1>a DEF RcModes, LinkFails, rcConnVars, rcReqVars, rcProcVars
<1> QED
  BY <1>0, <1>1, <1>2, <1>3, <1>4, <1>5, <1>6, <1>7, <1>8, <1>9, <1>10, <1>11, <1>12, <1>13, <1>14, <1>15, <1>16, <1>17, <1>18, <1>19, <1>20, <1>21, <1>22, <1>23, <1>24, <1>25, <1>26, <1>27 DEF RpcClientNext, CallNext, InNext, OutNext, ResendNext, RecNext, PostNext

-----------------------------------------------------------------------------
(* One response *)

\* A disconnect gives a request its first response or none.
LEMMA TokenDrops ==
    ASSUME NEW k \in Req, RcToken(k), Drops, Fresh(k)' => Fresh(k), \A g \in Conn : Answering(g, k)' => Answering(g, k)
    PROVE  RcToken(k)'
<1>1. CASE UNCHANGED <<rcList, rcResp, rcShut>>
  BY <1>1 DEF RcToken
<1>2. CASE Answers(Range(rcList), "error") /\ Lists({})
  BY <1>2 DEF RcToken, Answers, Lists
<1> QED
  BY <1>1, <1>2 DEF Drops

\* A step gives a request no second response.
LEMMA RcTokenStep ==
    ASSUME RcTypes, RcPlaces, RcModes, RcTokens, rcMode # "post", NEW k \in Req, [RpcClientNext]_rcVars
    PROVE  RcToken(k)'
<1>a. /\ \A m \in Regs : m[2] \in Conn /\ m = <<"reg", m[2]>> /\ m \in Req
      /\ \A m \in ClientCalls : m \notin Regs /\ m \in Req
      /\ \A g \in Conn : <<"reg", g>> \in Regs /\ <<"reg", g>>[2] = g
  BY ReqFacts DEF Req
<1>b. RcToken(k)
  BY DEF RcTokens
<1>0. CASE UNCHANGED rcVars
  BY <1>0, <1>a, <1>b DEF RcToken, Fresh, Answering, rcVars, rcConnVars, rcReqVars, rcProcVars
<1>1. ASSUME NEW m \in Req, SendRequest(m) PROVE RcToken(k)'
  BY <1>1, SendRequestFlat, <1>a, <1>b DEF RcToken, Fresh, Answering, Answers, Lists, SetCall, rcConnVars, rcReqVars, rcProcVars
<1>2. ASSUME NEW m \in Req, CallSend(m) PROVE RcToken(k)'
  BY <1>2, CallSendFlat, <1>a, <1>b DEF RcToken, Fresh, Answering, Sends, SetCall, rcConnVars, rcReqVars, rcProcVars
<1>3. ASSUME NEW m \in Req, SendPostRequest(m) PROVE RcToken(k)'
  BY <1>3, SendPostRequestFlat, <1>a, <1>b DEF RcToken, Fresh, Answering, Answers, SetCall, rcConnVars, rcReqVars, rcProcVars
<1>4. ASSUME NEW m \in Req, PostChannel(m) PROVE RcToken(k)'
  BY <1>4, PostChannelFlat, <1>a, <1>b DEF RcToken, Fresh, Answering, Sends, SetCall, rcConnVars, rcReqVars, rcProcVars
<1>5. ASSUME NEW g \in Conn, InLoop(g) PROVE RcToken(k)'
  BY <1>5, InLoopFlat, <1>a, <1>b DEF RcToken, Fresh, Answering, SetIn, rcConnVars, rcReqVars, rcProcVars
<1>6. ASSUME NEW g \in Conn, RcInRead(g) PROVE RcToken(k)'
  BY <1>6, RcInReadFlat, <1>a, <1>b DEF RcToken, Fresh, Answering, SetIn, rcConnVars, rcReqVars, rcProcVars
<1>7. ASSUME NEW g \in Conn, RemoveRequest(g) PROVE RcToken(k)'
  BY <1>7, RemoveRequestFlat, <1>a, <1>b DEF RcToken, Fresh, Answering, SetIn, Lists, rcConnVars, rcReqVars, rcProcVars
<1>8. ASSUME NEW g \in Conn, HandleMessage(g) PROVE RcToken(k)'
  BY <1>8, HandleMessageFlat, <1>a, <1>b DEF RcToken, Fresh, Answering, SetIn, Answers, rcConnVars, rcReqVars, rcProcVars
<1>9. ASSUME NEW g \in Conn, InDisconnect(g) PROVE RcToken(k)'
  <2>1. Fresh(k)' => Fresh(k)
    BY <1>9, InDisconnectFlat, <1>a DEF Fresh
  <2>2. \A h \in Conn : Answering(h, k)' => Answering(h, k)
    BY <1>9, InDisconnectFlat DEF Answering, SetIn
  <2> QED
    BY <1>9, InDisconnectFlat, <1>b, <2>1, <2>2, TokenDrops
<1>10. ASSUME NEW g \in Conn, OutLoop(g) PROVE RcToken(k)'
  BY <1>10, OutLoopFlat, <1>a, <1>b DEF RcToken, Fresh, Answering, SetOut, rcConnVars, rcReqVars, rcProcVars
<1>11. ASSUME NEW g \in Conn, OutSelect(g) PROVE RcToken(k)'
  BY <1>11, OutSelectFlat, <1>a, <1>b DEF RcToken, Fresh, Answering, SetOut, Sends, rcConnVars, rcReqVars, rcProcVars
<1>12. ASSUME NEW g \in Conn, OutWrite(g) PROVE RcToken(k)'
  BY <1>12, OutWriteFlat, <1>a, <1>b DEF RcToken, Fresh, Answering, SetOut, rcConnVars, rcReqVars, rcProcVars
<1>13. ASSUME NEW g \in Conn, OutDisconnect(g) PROVE RcToken(k)'
  <2>1. Fresh(k)' => Fresh(k)
    BY <1>13, OutDisconnectFlat, <1>a DEF Fresh
  <2>2. \A h \in Conn : Answering(h, k)' => Answering(h, k)
    BY <1>13, OutDisconnectFlat DEF Answering, SetIn
  <2> QED
    BY <1>13, OutDisconnectFlat, <1>b, <2>1, <2>2, TokenDrops
<1>14. ASSUME NEW g \in Conn, OutDrain(g) PROVE RcToken(k)'
  BY <1>14, OutDrainFlat, <1>a, <1>b DEF RcToken, Fresh, Answering, SetOut, Sends, rcConnVars, rcReqVars, rcProcVars
<1>15. ASSUME NEW g \in Conn, Reregister(g) PROVE RcToken(k)'
  <2>1. rcResend[g].pc = "register" /\ UNCHANGED rcIn
    BY <1>15, ReregisterFlat
  <2>2. rcResend'[g].pc \in {"await", "copy"} /\ \A h \in Conn : h # g => rcResend'[h] = rcResend[h]
    BY <1>15, ReregisterFlat DEF SetResend
  <2>3. \A n \in Req : n # <<"reg", g>> => rcCall'[n] = rcCall[n]
    BY <1>15, ReregisterFlat DEF SetCall
  <2>4. \A h \in Conn : Answering(h, k)' <=> Answering(h, k)
    BY <2>1 DEF Answering
  <2>5. CASE k = <<"reg", g>>
    <3>1. Fresh(k) /\ ~Fresh(k)'
      BY <1>a, <2>1, <2>2, <2>5 DEF Fresh
    <3>2. \/ rcResp' = rcResp /\ (rcList' = rcList \/ Lists(Range(rcList) \cup {k}))
          \/ Answers({k}, "error") /\ rcList' = rcList
      BY <1>15, ReregisterFlat, <2>5
    <3> QED
      BY <1>b, <2>4, <3>1, <3>2 DEF RcToken, Lists, Answers
  <2>6. CASE k # <<"reg", g>>
    <3>1. Fresh(k)' => Fresh(k)
      BY <1>a, <2>1, <2>2, <2>3, <2>6 DEF Fresh
    <3>2. rcResp'[k] = rcResp[k] /\ (k \in Range(rcList') <=> k \in Range(rcList))
      BY <1>15, ReregisterFlat, <2>6 DEF Answers, Lists
    <3> QED
      BY <1>b, <2>4, <3>1, <3>2 DEF RcToken
  <2> QED
    BY <2>5, <2>6
<1>16. ASSUME NEW g \in Conn, ReregisterEnds(g) PROVE RcToken(k)'
  <2>1. Fresh(k)' => Fresh(k)
    BY <1>16, ReregisterEndsFlat, <1>a DEF Fresh, SetResend
  <2>2. \A h \in Conn : Answering(h, k)' => Answering(h, k)
    BY <1>16, ReregisterEndsFlat DEF Answering
  <2>3. CASE Drops
    BY <2>3, <1>b, <2>1, <2>2, TokenDrops
  <2>4. CASE UNCHANGED <<rcList, rcResp>>
    BY <2>4, <1>b, <2>1, <2>2 DEF RcToken
  <2> QED
    BY <1>16, ReregisterEndsFlat, <2>3, <2>4
<1>17. ASSUME NEW g \in Conn, CopyRequests(g) PROVE RcToken(k)'
  BY <1>17, CopyRequestsFlat, <1>a, <1>b DEF RcToken, Fresh, Answering, SetResend, Lists, rcConnVars, rcReqVars, rcProcVars
<1>18. ASSUME NEW g \in Conn, ResendCheck(g) PROVE RcToken(k)'
  BY <1>18, ResendCheckFlat, <1>a, <1>b DEF RcToken, Fresh, Answering, SetResend, rcConnVars, rcReqVars, rcProcVars
<1>19. ASSUME NEW g \in Conn, ResendRequest(g) PROVE RcToken(k)'
  BY <1>19, ResendRequestFlat, <1>a, <1>b DEF RcToken, Fresh, Answering, SetResend, Sends, rcConnVars, rcReqVars, rcProcVars
<1>20. ASSUME ReconnectWait PROVE RcToken(k)'
  BY <1>20, <1>a, <1>b DEF RcToken, Fresh, Answering, ReconnectWait, rcConnVars, rcReqVars, rcProcVars
<1>21. ASSUME Dial PROVE RcToken(k)'
  BY <1>21, <1>a, <1>b DEF RcToken, Fresh, Answering, Dial, rcConnVars, rcReqVars, rcProcVars
<1>22. ASSUME Reconnect PROVE RcToken(k)'
  <2>1. PICK g \in Conn : g = rcCur + 1 /\ SetResend(g, "register", 0, <<>>) /\ SetIn(g, "loop", 0, NoReq)
    BY <1>22, ReconnectFlat
  <2>2. rcResend[g].pc = "none"
    BY <2>1, RcTypeFacts, ReqFacts DEF RcPlaces, RcResendPlace
  <2>3. UNCHANGED <<rcCall, rcList, rcResp>>
    BY <1>22, ReconnectFlat DEF rcReqVars
  <2>4. Fresh(k)' => Fresh(k)
    BY <1>a, <2>1, <2>2, <2>3 DEF Fresh, SetResend
  <2>5. \A h \in Conn : Answering(h, k)' => Answering(h, k)
    BY <2>1 DEF Answering, SetIn
  <2> QED
    BY <1>b, <2>3, <2>4, <2>5 DEF RcToken
<1>23. ASSUME PostHandler PROVE RcToken(k)'
  BY <1>23 DEF PostHandler, RcModes
<1>24. ASSUME HandleSendPost PROVE RcToken(k)'
  BY <1>24 DEF HandleSendPost, RcModes
<1>25. ASSUME PostCleanup PROVE RcToken(k)'
  BY <1>25 DEF PostCleanup, RcModes
<1>26. ASSUME Shutdown PROVE RcToken(k)'
  BY <1>26, ShutdownFlat, <1>a, <1>b DEF RcToken, Fresh, Answering, Answers, Lists, rcConnVars, rcReqVars, rcProcVars
<1>27. ASSUME LinkFails PROVE RcToken(k)'
  BY <1>27, <1>a, <1>b DEF RcToken, Fresh, Answering, LinkFails, rcConnVars, rcReqVars, rcProcVars
<1> QED
  BY <1>0, <1>1, <1>2, <1>3, <1>4, <1>5, <1>6, <1>7, <1>8, <1>9, <1>10, <1>11, <1>12, <1>13, <1>14, <1>15, <1>16, <1>17, <1>18, <1>19, <1>20, <1>21, <1>22, <1>23, <1>24, <1>25, <1>26, <1>27 DEF RpcClientNext, CallNext, InNext, OutNext, ResendNext, RecNext, PostNext

\* The mode is chosen once.
LEMMA RcModeKept == [RpcClientNext]_rcVars => rcMode' = rcMode
BY DEF RpcClientNext, rcVars, CallNext, InNext, OutNext, ResendNext, RecNext, PostNext,
       SendRequest, CallSend, SendPostRequest, PostChannel, InLoop, RcInRead, RemoveRequest, HandleMessage,
       InDisconnect, OutLoop, OutSelect, OutWrite, OutDisconnect, OutDrain, Reregister, ReregisterEnds,
       CopyRequests, ResendCheck, ResendRequest, ReconnectWait, Dial, Reconnect, PostHandler, HandleSendPost,
       PostCleanup, Shutdown, LinkFails

\* No request has a second response.
LEMMA RcTokensStep ==
    ASSUME RcTypes, RcPlaces, RcModes, RcTokens, [RpcClientNext]_rcVars
    PROVE  RcTokens'
<1> SUFFICES ASSUME rcMode' # "post", NEW k \in Req PROVE RcToken(k)'
  BY DEF RcTokens
<1>1. rcMode # "post"
  BY RcModeKept
<1> QED
  BY <1>1, RcTokenStep

\* A request keeps somebody who has it as long as its caller waits.
LEMMA RcWaitStep ==
    ASSUME RcTypes, RcPlaces, RcModes, RcTokens, RcWaits, NEW k \in Req, [RpcClientNext]_rcVars
    PROVE  RcWait(k)'
<1>a. /\ \A m \in ClientCalls : m \in Req
      /\ \A g \in Conn : <<"reg", g>> \in Req
      /\ NoReq \notin Req
  BY ReqFacts DEF Req
<1>b. RcWait(k)
  BY DEF RcWaits
<1>0. CASE UNCHANGED rcVars
  BY <1>0, <1>a, <1>b DEF RcWait, Somewhere, Answering, rcVars, rcConnVars, rcReqVars, rcProcVars
<1>1. ASSUME NEW m \in Req, SendRequest(m) PROVE RcWait(k)'
  BY <1>1, SendRequestFlat, <1>a, <1>b DEF RcWait, Somewhere, Answering, Answers, Lists, SetCall, rcConnVars, rcReqVars, rcProcVars
<1>2. ASSUME NEW m \in Req, CallSend(m) PROVE RcWait(k)'
  BY <1>2, CallSendFlat, <1>a, <1>b DEF RcWait, Somewhere, Answering, Sends, SetCall, rcConnVars, rcReqVars, rcProcVars
<1>3. ASSUME NEW m \in Req, SendPostRequest(m) PROVE RcWait(k)'
  BY <1>3, SendPostRequestFlat, <1>a, <1>b DEF RcWait, Somewhere, Answering, Answers, SetCall, rcConnVars, rcReqVars, rcProcVars
<1>4. ASSUME NEW m \in Req, PostChannel(m) PROVE RcWait(k)'
  <2>1. rcMode = "post"
    BY <1>4 DEF RcModes, PostChannel
  <2>2. CASE rcShut /\ UNCHANGED rcSend
    BY <1>4, PostChannelFlat, <1>a, <1>b, <2>1, <2>2 DEF RcWait, Somewhere, SetCall, rcConnVars
  <2>3. CASE Sends(Range(rcSend) \cup {m})
    <3>1. k = m => Somewhere(k)'
      BY <1>4, <2>1, <2>3 DEF PostChannel, Somewhere, Sends
    <3>2. k # m => rcCall'[k] = rcCall[k] /\ (Somewhere(k) => Somewhere(k)')
      BY <1>4, PostChannelFlat, <1>a, <1>b, <2>3 DEF Somewhere, Answering, SetCall, Sends, rcConnVars
    <3>3. UNCHANGED rcResp
      BY <1>4, PostChannelFlat, <1>a, <1>b
    <3> QED
      BY <1>b, <3>1, <3>2, <3>3 DEF RcWait
  <2> QED
    BY <1>4, PostChannelFlat, <1>a, <1>b, <2>2, <2>3
<1>5. ASSUME NEW g \in Conn, InLoop(g) PROVE RcWait(k)'
  BY <1>5, InLoopFlat, <1>a, <1>b DEF RcWait, Somewhere, Answering, SetIn, rcConnVars, rcReqVars, rcProcVars
<1>6. ASSUME NEW g \in Conn, RcInRead(g) PROVE RcWait(k)'
  BY <1>6, RcInReadFlat, <1>a, <1>b DEF RcWait, Somewhere, Answering, SetIn, rcConnVars, rcReqVars, rcProcVars
<1>7. ASSUME NEW g \in Conn, RemoveRequest(g) PROVE RcWait(k)'
  BY <1>7, RemoveRequestFlat, <1>a, <1>b DEF RcWait, Somewhere, Answering, SetIn, Lists, rcConnVars, rcReqVars, rcProcVars
<1>8. ASSUME NEW g \in Conn, HandleMessage(g) PROVE RcWait(k)'
  BY <1>8, HandleMessageFlat, <1>a, <1>b DEF RcWait, Somewhere, Answering, SetIn, Answers, rcConnVars, rcReqVars, rcProcVars
<1>9. ASSUME NEW g \in Conn, InDisconnect(g) PROVE RcWait(k)'
  BY <1>9, InDisconnectFlat, <1>a, <1>b DEF RcWait, Somewhere, Answering, SetIn, Drops, Answers, Lists, rcConnVars, rcReqVars, rcProcVars
<1>10. ASSUME NEW g \in Conn, OutLoop(g) PROVE RcWait(k)'
  BY <1>10, OutLoopFlat, <1>a, <1>b DEF RcWait, Somewhere, Answering, SetOut, rcConnVars, rcReqVars, rcProcVars
<1>11. ASSUME NEW g \in Conn, OutSelect(g) PROVE RcWait(k)'
  <2>1. rcMode # "post" /\ UNCHANGED <<rcMode, rcShut, rcCur, rcList, rcIn, rcResp, rcCall>>
    BY <1>11 DEF RcModes, OutSelect, rcConnVars
  <2> QED
    BY <1>b, <2>1 DEF RcWait, Somewhere, Answering
<1>12. ASSUME NEW g \in Conn, OutWrite(g) PROVE RcWait(k)'
  BY <1>12, OutWriteFlat, <1>a, <1>b DEF RcWait, Somewhere, Answering, SetOut, rcConnVars, rcReqVars, rcProcVars
<1>13. ASSUME NEW g \in Conn, OutDisconnect(g) PROVE RcWait(k)'
  BY <1>13, OutDisconnectFlat, <1>a, <1>b DEF RcWait, Somewhere, Answering, SetOut, Drops, Answers, Lists, rcConnVars, rcReqVars, rcProcVars
<1>14. ASSUME NEW g \in Conn, OutDrain(g) PROVE RcWait(k)'
  <2>1. rcMode # "post" /\ UNCHANGED <<rcMode, rcShut, rcCur, rcList, rcIn, rcResp, rcCall>>
    BY <1>14 DEF RcModes, OutDrain, rcConnVars
  <2> QED
    BY <1>b, <2>1 DEF RcWait, Somewhere, Answering
<1>15. ASSUME NEW g \in Conn, Reregister(g) PROVE RcWait(k)'
  BY <1>15, ReregisterFlat, <1>a, <1>b DEF RcWait, Somewhere, Answering, SetResend, Answers, Lists, SetCall, rcConnVars, rcReqVars, rcProcVars
<1>16. ASSUME NEW g \in Conn, ReregisterEnds(g) PROVE RcWait(k)'
  BY <1>16, ReregisterEndsFlat, <1>a, <1>b DEF RcWait, Somewhere, Answering, SetResend, Drops, Answers, Lists, rcConnVars, rcReqVars, rcProcVars
<1>17. ASSUME NEW g \in Conn, CopyRequests(g) PROVE RcWait(k)'
  <2>1. rcMode # "post" /\ UNCHANGED <<rcMode, rcCur, rcIn, rcResp, rcCall>>
    BY <1>17 DEF RcModes, CopyRequests, rcConnVars
  <2>2. rcCur > 1
    <3>1. g > 1 /\ ~(g > rcCur)
      BY <1>17 DEF CopyRequests, RcPlaces, RcResendPlace
    <3>2. g \in Nat /\ rcCur \in Nat
      BY RcTypeFacts, ReqFacts
    <3> QED
      BY <3>1, <3>2
  <2>3. k \in Range(rcList) => k \in Range(rcList') \/ k[1] \in RcRescan
    BY <1>17, CopyRequestsFlat, <1>a, <1>b DEF Lists
  <2>4. Somewhere(k) => Somewhere(k)'
    BY <2>1, <2>2, <2>3 DEF Somewhere, Answering
  <2> QED
    BY <1>b, <2>1, <2>4 DEF RcWait
<1>18. ASSUME NEW g \in Conn, ResendCheck(g) PROVE RcWait(k)'
  BY <1>18, ResendCheckFlat, <1>a, <1>b DEF RcWait, Somewhere, Answering, SetResend, rcConnVars, rcReqVars, rcProcVars
<1>19. ASSUME NEW g \in Conn, ResendRequest(g) PROVE RcWait(k)'
  BY <1>19, ResendRequestFlat, <1>a, <1>b DEF RcWait, Somewhere, Answering, SetResend, Sends, rcConnVars, rcReqVars, rcProcVars
<1>20. ASSUME ReconnectWait PROVE RcWait(k)'
  BY <1>20, <1>a, <1>b DEF RcWait, Somewhere, Answering, ReconnectWait, rcConnVars, rcReqVars, rcProcVars
<1>21. ASSUME Dial PROVE RcWait(k)'
  BY <1>21, <1>a, <1>b DEF RcWait, Somewhere, Answering, Dial, rcConnVars, rcReqVars, rcProcVars
<1>22. ASSUME Reconnect PROVE RcWait(k)'
  <2>1. PICK g \in Conn : g = rcCur + 1 /\ SetIn(g, "loop", 0, NoReq)
    BY <1>22, ReconnectFlat
  <2>2. rcIn[g].pc = "none"
    BY <2>1, RcTypeFacts, ReqFacts DEF RcPlaces, RcInPlace
  <2>3. rcMode # "post" /\ UNCHANGED <<rcMode, rcList, rcResp, rcCall>>
    BY <1>22 DEF RcModes, Reconnect, rcReqVars
  <2>4. rcCur > 1 => rcCur' > 1
    BY <1>22, ReconnectFlat, RcTypeFacts, ReqFacts
  <2>5. \A h \in Conn : Answering(h, k) => Answering(h, k)'
    BY <2>1, <2>2 DEF Answering, SetIn
  <2> QED
    BY <1>b, <2>3, <2>4, <2>5 DEF RcWait, Somewhere
<1>23. ASSUME PostHandler PROVE RcWait(k)'
  <2>1. UNCHANGED <<rcMode, rcShut, rcCur, rcList, rcIn, rcResp, rcCall>>
    BY <1>23 DEF PostHandler, rcConnVars
  <2>2. rcPost.req = NoReq
    BY <1>23 DEF PostHandler, RcModes
  <2>3. k \in Range(rcSend) => k \in Range(rcSend') \/ rcPost'.req = k
    BY <1>23, PostHandlerFlat DEF SetPost, Sends
  <2>4. Somewhere(k) => Somewhere(k)'
    BY <1>a, <2>1, <2>2, <2>3 DEF Somewhere, Answering
  <2> QED
    BY <1>b, <2>1, <2>4 DEF RcWait
<1>24. ASSUME HandleSendPost PROVE RcWait(k)'
  BY <1>24, HandleSendPostFlat, <1>a, <1>b DEF RcWait, Somewhere, Answering, SetPost, Answers, rcConnVars, rcReqVars, rcProcVars
<1>25. ASSUME PostCleanup PROVE RcWait(k)'
  BY <1>25, PostCleanupFlat, <1>a, <1>b DEF RcWait, Somewhere, Answering, SetPost, Answers, Sends, rcConnVars, rcReqVars, rcProcVars
<1>26. ASSUME Shutdown PROVE RcWait(k)'
  BY <1>26, ShutdownFlat, <1>a, <1>b DEF RcWait, Somewhere, Answering, Answers, Lists, rcConnVars, rcReqVars, rcProcVars
<1>27. ASSUME LinkFails PROVE RcWait(k)'
  BY <1>27, <1>a, <1>b DEF RcWait, Somewhere, Answering, LinkFails, rcConnVars, rcReqVars, rcProcVars
<1> QED
  BY <1>0, <1>1, <1>2, <1>3, <1>4, <1>5, <1>6, <1>7, <1>8, <1>9, <1>10, <1>11, <1>12, <1>13, <1>14, <1>15, <1>16, <1>17, <1>18, <1>19, <1>20, <1>21, <1>22, <1>23, <1>24, <1>25, <1>26, <1>27 DEF RpcClientNext, CallNext, InNext, OutNext, ResendNext, RecNext, PostNext

\* Every request keeps somebody who has it.
LEMMA RcWaitsStep ==
    ASSUME RcTypes, RcPlaces, RcModes, RcTokens, RcWaits, [RpcClientNext]_rcVars
    PROVE  RcWaits'
<1>1. \A k \in Req : RcWait(k)'
  BY RcWaitStep
<1> QED
  BY <1>1 DEF RcWaits

-----------------------------------------------------------------------------
(* On its way *)

\* A request of the list stays on its way.
LEMMA RcCoverStep ==
    ASSUME RcTypes, RcPlaces, RcModes, RcCovers, NEW k \in Req, [RpcClientNext]_rcVars
    PROVE  RcCover(k)'
<1>a. /\ rcCur \in Nat /\ rcCur \in Conn /\ \A h \in Conn : h \in Nat
      /\ rcDown <=> rcCur \in rcClosed
  BY RcTypeFacts, ReqFacts DEF RcTypes, RcConnTypes
<1>b. RcCover(k)
  BY DEF RcCovers
<1>c. \A h \in Conn : RcInPlace(h) /\ RcOutPlace(h) /\ RcResendPlace(h)
  BY DEF RcPlaces
<1>0. CASE UNCHANGED rcVars
  BY <1>0, <1>a, <1>b DEF RcCover, RcLive, RcCovered, rcVars, rcConnVars, rcReqVars, rcProcVars
<1>1. ASSUME NEW m \in Req, SendRequest(m) PROVE RcCover(k)'
  BY <1>1, SendRequestFlat, <1>a, <1>b DEF RcCover, RcLive, RcCovered, Answers, Lists, SetCall, rcConnVars, rcReqVars, rcProcVars
<1>2. ASSUME NEW m \in Req, CallSend(m) PROVE RcCover(k)'
  BY <1>2, CallSendFlat, <1>a, <1>b DEF RcCover, RcLive, RcCovered, Sends, SetCall, rcConnVars, rcReqVars, rcProcVars
<1>3. ASSUME NEW m \in Req, SendPostRequest(m) PROVE RcCover(k)'
  BY <1>3, SendPostRequestFlat, <1>a, <1>b DEF RcCover, RcLive, RcCovered, Answers, SetCall, rcConnVars, rcReqVars, rcProcVars
<1>4. ASSUME NEW m \in Req, PostChannel(m) PROVE RcCover(k)'
  BY <1>4, PostChannelFlat, <1>a, <1>b DEF RcCover, RcLive, RcCovered, Sends, SetCall, rcConnVars, rcReqVars, rcProcVars
<1>5. ASSUME NEW g \in Conn, InLoop(g) PROVE RcCover(k)'
  BY <1>5, InLoopFlat, <1>a, <1>b DEF RcCover, RcLive, RcCovered, SetIn, rcConnVars, rcReqVars, rcProcVars
<1>6. ASSUME NEW g \in Conn, RcInRead(g) PROVE RcCover(k)'
  BY <1>6, RcInReadFlat, <1>a, <1>b DEF RcCover, RcLive, RcCovered, SetIn, rcConnVars, rcReqVars, rcProcVars
<1>7. ASSUME NEW g \in Conn, RemoveRequest(g) PROVE RcCover(k)'
  BY <1>7, RemoveRequestFlat, <1>a, <1>b DEF RcCover, RcLive, RcCovered, SetIn, Lists, rcConnVars, rcReqVars, rcProcVars
<1>8. ASSUME NEW g \in Conn, HandleMessage(g) PROVE RcCover(k)'
  BY <1>8, HandleMessageFlat, <1>a, <1>b DEF RcCover, RcLive, RcCovered, SetIn, Answers, rcConnVars, rcReqVars, rcProcVars
<1>9. ASSUME NEW g \in Conn, InDisconnect(g) PROVE RcCover(k)'
  <2>1. rcDown' = TRUE
    BY <1>9, InDisconnectFlat DEF Drops
  <2> QED
    BY <2>1 DEF RcCover, RcLive
<1>10. ASSUME NEW g \in Conn, OutLoop(g) PROVE RcCover(k)'
  BY <1>10, OutLoopFlat, <1>a, <1>b DEF RcCover, RcLive, RcCovered, SetOut, rcConnVars, rcReqVars, rcProcVars
<1>11. ASSUME NEW g \in Conn, OutSelect(g) PROVE RcCover(k)'
  <2>1. UNCHANGED <<rcMode, rcConnVars, rcList, rcWire, rcDrained, rcCall, rcIn, rcResend>> /\ rcOut[g].pc = "select"
    BY <1>11 DEF OutSelect
  <2>2. rcOut[g].req # k
    BY <1>c, <2>1, ReqFacts DEF RcOutPlace
  <2>3. \A h \in Conn : rcOut[h].req = k => rcOut'[h].req = k
    BY <1>11, OutSelectFlat, <2>2 DEF SetOut
  <2>4. k \in Range(rcSend) => k \in Range(rcSend') \/ rcOut'[g].req = k
    BY <1>11, OutSelectFlat DEF SetOut, Sends
  <2>5. RcCovered(k) => RcCovered(k)'
    BY <2>1, <2>3, <2>4 DEF RcCovered, rcConnVars
  <2> QED
    BY <1>b, <2>1, <2>5 DEF RcCover, RcLive, rcConnVars
<1>12. ASSUME NEW g \in Conn, OutWrite(g) PROVE RcCover(k)'
  BY <1>12, OutWriteFlat, <1>a, <1>b DEF RcCover, RcLive, RcCovered, SetOut, rcConnVars, rcReqVars, rcProcVars
<1>13. ASSUME NEW g \in Conn, OutDisconnect(g) PROVE RcCover(k)'
  <2>1. rcDown' = TRUE
    BY <1>13, OutDisconnectFlat DEF Drops
  <2> QED
    BY <2>1 DEF RcCover, RcLive
<1>14. ASSUME NEW g \in Conn, OutDrain(g) PROVE RcCover(k)'
  <2>1. UNCHANGED <<rcMode, rcConnVars, rcList, rcWire, rcCall, rcIn, rcResend>> /\ rcOut[g].pc = "drain"
    BY <1>14 DEF OutDrain
  <2>2. CASE g = rcCur
    BY <1>c, <2>1, <2>2 DEF RcOutPlace, RcCover, RcLive, rcConnVars
  <2>3. CASE g # rcCur
    <3>1. rcDrained' = rcDrained \cup Range(rcSend)
      BY <1>14, OutDrainFlat, <2>3
    <3>2. rcOut[g].req # k
      BY <1>c, <2>1, ReqFacts DEF RcOutPlace
    <3>3. \A h \in Conn : rcOut[h].req = k => rcOut'[h].req = k
      BY <1>14, OutDrainFlat, <3>2 DEF SetOut
    <3>4. k \notin Range(rcSend) /\ RcCovered(k) => RcCovered(k)'
      BY <2>1, <3>3 DEF RcCovered, rcConnVars
    <3> QED
      BY <1>b, <2>1, <3>1, <3>4 DEF RcCover, RcLive, rcConnVars
  <2> QED
    BY <2>2, <2>3
<1>15. ASSUME NEW g \in Conn, Reregister(g) PROVE RcCover(k)'
  <2>1. UNCHANGED <<rcMode, rcConnVars, rcSend, rcWire, rcDrained, rcIn, rcOut>> /\ rcResend[g].pc = "register"
    BY <1>15 DEF Reregister
  <2>2. rcResend'[g].pc \in {"await", "copy"} /\ \A h \in Conn : h # g => rcResend'[h] = rcResend[h]
    BY <1>15, ReregisterFlat DEF SetResend
  <2>3. CASE rcResend[rcCur].pc = "register"
    <3>1. rcResend'[rcCur].pc \in {"register", "await", "copy"}
      BY <1>a, <2>2, <2>3
    <3> QED
      BY <2>1, <3>1 DEF RcCover, RcCovered, rcConnVars
  <2>4. CASE rcResend[rcCur].pc # "register"
    <3>1. rcResend'[rcCur] = rcResend[rcCur]
      BY <1>a, <2>1, <2>2, <2>4
    <3>2. \/ rcList' = rcList /\ rcCall' = rcCall
          \/ Lists(Range(rcList) \cup {<<"reg", g>>}) /\ SetCall(<<"reg", g>>, "send", rcCur)
      BY <1>15, ReregisterFlat
    <3>3. CASE rcList' = rcList /\ rcCall' = rcCall
      BY <1>b, <2>1, <3>1, <3>3 DEF RcCover, RcLive, RcCovered, rcConnVars
    <3>4. CASE Lists(Range(rcList) \cup {<<"reg", g>>}) /\ SetCall(<<"reg", g>>, "send", rcCur)
      <4>1. CASE k = <<"reg", g>>
        BY <2>1, <3>4, <4>1 DEF RcCover, RcCovered, SetCall, rcConnVars
      <4>2. CASE k # <<"reg", g>>
        <5>1. rcCall'[k] = rcCall[k] /\ (k \in Range(rcList') => k \in Range(rcList))
          BY <3>4, <4>2 DEF SetCall, Lists
        <5> QED
          BY <1>b, <2>1, <3>1, <5>1 DEF RcCover, RcLive, RcCovered, rcConnVars
      <4> QED
        BY <4>1, <4>2
    <3> QED
      BY <3>2, <3>3, <3>4
  <2> QED
    BY <2>3, <2>4
<1>16. ASSUME NEW g \in Conn, ReregisterEnds(g) PROVE RcCover(k)'
  <2>1. CASE Drops
    BY <2>1 DEF Drops, RcCover, RcLive
  <2>2. CASE SetResend(g, "copy", 0, <<>>) /\ UNCHANGED <<rcConnVars, rcList, rcResp>>
    <3>1. UNCHANGED <<rcMode, rcSend, rcWire, rcDrained, rcCall, rcIn, rcOut>>
      BY <1>16 DEF ReregisterEnds
    <3>2. CASE g = rcCur
      BY <1>a, <2>2, <3>2 DEF RcCover, RcCovered, SetResend, rcConnVars
    <3>3. CASE g # rcCur
      <4>1. rcResend'[rcCur] = rcResend[rcCur]
        BY <1>a, <2>2, <3>3 DEF SetResend
      <4> QED
        BY <1>b, <2>2, <3>1, <4>1 DEF RcCover, RcLive, RcCovered, rcConnVars
    <3> QED
      BY <3>2, <3>3
  <2> QED
    BY <1>16, ReregisterEndsFlat, <2>1, <2>2
<1>17. ASSUME NEW g \in Conn, CopyRequests(g) PROVE RcCover(k)'
  BY <1>17, CopyRequestsFlat, <1>a, <1>b DEF RcCover, RcLive, RcCovered, SetResend, Lists, rcConnVars, rcReqVars, rcProcVars
<1>18. ASSUME NEW g \in Conn, ResendCheck(g) PROVE RcCover(k)'
  <2>1. UNCHANGED <<rcMode, rcConnVars, rcList, rcWire, rcDrained, rcCall, rcIn, rcOut, rcSend>> /\ rcResend[g].pc = "check"
    BY <1>18 DEF ResendCheck, rcReqVars
  <2>2. CASE g # rcCur
    <3>1. rcResend'[rcCur] = rcResend[rcCur]
      BY <1>18, ResendCheckFlat, <1>a, <2>2 DEF SetResend
    <3> QED
      BY <1>b, <2>1, <3>1 DEF RcCover, RcLive, RcCovered, rcConnVars
  <2>3. CASE g = rcCur
    <3>1. rcResend[g].todo \in Seq(Req)
      BY RcTypeFacts, RcFieldFacts
    <3>2. rcResend[g].todo = <<>> => k \notin Range(rcResend[g].todo)
      BY <3>1, RangeIn
    <3>3. CASE rcDown
      BY <2>1, <3>3 DEF RcCover, RcLive, rcConnVars
    <3>4. CASE ~rcDown
      <4>1. k \in Range(rcResend[g].todo) => rcResend'[g].pc = "send" /\ k \in Range(rcResend'[g].todo)
        BY <1>18, ResendCheckFlat, <3>2, <3>4 DEF SetResend
      <4> QED
        BY <1>b, <2>1, <2>3, <4>1 DEF RcCover, RcLive, RcCovered, rcConnVars
    <3> QED
      BY <3>3, <3>4
  <2> QED
    BY <2>2, <2>3
<1>19. ASSUME NEW g \in Conn, ResendRequest(g) PROVE RcCover(k)'
  <2>1. UNCHANGED <<rcMode, rcConnVars, rcList, rcWire, rcDrained, rcCall, rcIn, rcOut>> /\ rcResend[g].pc = "send"
    BY <1>19 DEF ResendRequest, rcReqVars
  <2>2. CASE g # rcCur
    <3>1. rcResend'[rcCur] = rcResend[rcCur] /\ Range(rcSend) \subseteq Range(rcSend')
      BY <1>19, ResendRequestFlat, <1>a, <2>2 DEF SetResend, Sends
    <3> QED
      BY <1>b, <2>1, <3>1 DEF RcCover, RcLive, RcCovered, rcConnVars
  <2>3. CASE g = rcCur
    <3>1. rcResend[g].on = rcCur
      <4>1. g <= rcResend[g].on /\ rcResend[g].on <= rcCur
        BY <1>c, <2>1 DEF RcResendPlace
      <4>2. rcResend[g].on \in Nat
        BY RcTypeFacts, RcFieldFacts, ReqFacts
      <4> QED
        BY <1>a, <2>3, <4>1, <4>2
    <3>2. CASE rcDown
      BY <2>1, <3>2 DEF RcCover, RcLive, rcConnVars
    <3>3. CASE ~rcDown
      <4>1. PICK m \in Req : /\ Range(rcResend[g].todo) = {m} \cup Range(Tail(rcResend[g].todo))
                             /\ Sends(Range(rcSend) \cup {m})
        BY <1>19, ResendRequestFlat, <1>a, <3>1, <3>3
      <4>2. rcResend'[g].pc = "check" /\ rcResend'[g].todo = Tail(rcResend[g].todo)
        BY <1>19, ResendRequestFlat DEF SetResend
      <4>3. Range(rcSend') = Range(rcSend) \cup {m}
        BY <4>1 DEF Sends
      <4>4. RcCovered(k) => RcCovered(k)'
        BY <2>1, <2>3, <4>1, <4>2, <4>3 DEF RcCovered, rcConnVars
      <4> QED
        BY <1>b, <2>1, <4>4 DEF RcCover, RcLive, rcConnVars
    <3> QED
      BY <3>2, <3>3
  <2> QED
    BY <2>2, <2>3
<1>20. ASSUME ReconnectWait PROVE RcCover(k)'
  BY <1>20, <1>a, <1>b DEF RcCover, RcLive, RcCovered, ReconnectWait, rcConnVars, rcReqVars, rcProcVars
<1>21. ASSUME Dial PROVE RcCover(k)'
  BY <1>21, <1>a, <1>b DEF RcCover, RcLive, RcCovered, Dial, rcConnVars, rcReqVars, rcProcVars
<1>22. ASSUME Reconnect PROVE RcCover(k)'
  BY <1>22, ReconnectFlat, <1>a, <1>b DEF RcCover, RcLive, RcCovered, SetIn, SetOut, SetResend, rcConnVars, rcReqVars, rcProcVars
<1>23. ASSUME PostHandler PROVE RcCover(k)'
  <2>1. rcMode' # "reconnect"
    BY <1>23 DEF PostHandler, RcModes
  <2> QED
    BY <2>1 DEF RcCover, RcLive
<1>24. ASSUME HandleSendPost PROVE RcCover(k)'
  <2>1. rcMode' # "reconnect"
    BY <1>24 DEF HandleSendPost, RcModes
  <2> QED
    BY <2>1 DEF RcCover, RcLive
<1>25. ASSUME PostCleanup PROVE RcCover(k)'
  <2>1. rcMode' # "reconnect"
    BY <1>25 DEF PostCleanup, RcModes
  <2> QED
    BY <2>1 DEF RcCover, RcLive
<1>26. ASSUME Shutdown PROVE RcCover(k)'
  <2>1. Range(rcList') = {}
    BY <1>26, ShutdownFlat DEF Lists
  <2> QED
    BY <2>1 DEF RcCover
<1>27. ASSUME LinkFails PROVE RcCover(k)'
  BY <1>27, <1>a, <1>b DEF RcCover, RcLive, RcCovered, LinkFails, rcConnVars, rcReqVars, rcProcVars
<1> QED
  BY <1>0, <1>1, <1>2, <1>3, <1>4, <1>5, <1>6, <1>7, <1>8, <1>9, <1>10, <1>11, <1>12, <1>13, <1>14, <1>15, <1>16, <1>17, <1>18, <1>19, <1>20, <1>21, <1>22, <1>23, <1>24, <1>25, <1>26, <1>27 DEF RpcClientNext, CallNext, InNext, OutNext, ResendNext, RecNext, PostNext

\* Every request of the list stays on its way.
LEMMA RcCoversStep ==
    ASSUME RcTypes, RcPlaces, RcModes, RcCovers, [RpcClientNext]_rcVars
    PROVE  RcCovers'
<1>1. \A k \in Req : RcCover(k)'
  BY RcCoverStep
<1> QED
  BY <1>1 DEF RcCovers

-----------------------------------------------------------------------------
(* The theorem *)

\* New: nothing is under way.
LEMMA RcInit == RpcClientInit => RpcClientIInv
<1> SUFFICES ASSUME RpcClientInit PROVE RpcClientIInv
  OBVIOUS
<1>1. <<>> \in Seq(Req) /\ Len(<<>>) = 0
  OBVIOUS
<1>2. Range(<<>>) = {}
  BY <1>1, RangeIn
<1>3. /\ rcMode \in {"reconnect", "once", "post"} /\ rcShut = FALSE /\ rcCur = 1 /\ rcDown = FALSE /\ rcClosed = {}
      /\ rcFails = 0 /\ rcLink \subseteq {1} /\ rcList = <<>> /\ rcSend = <<>> /\ rcTracked = FALSE /\ rcDrained = {}
      /\ rcRec \in {"none", "wait"} /\ (rcMode = "post" => rcRec = "none")
  BY DEF RpcClientInit
<1>4. /\ rcResp = [m \in Req |-> "none"] /\ rcCall = [m \in Req |-> [pc |-> "none", on |-> 0]]
      /\ rcWire = [g \in Conn |-> {}] /\ rcResend = [g \in Conn |-> NoResend]
  BY DEF RpcClientInit
<1>5. /\ rcIn \in [Conn -> {Idle, [Idle EXCEPT !.pc = "loop"]}] /\ rcOut = rcIn
      /\ \A g \in Conn : g # 1 \/ rcMode = "post" => rcIn[g] = Idle
  BY DEF RpcClientInit, Idle
<1>6. rcPost = [pc |-> IF rcMode = "post" THEN "loop" ELSE "none", req |-> NoReq]
  BY DEF RpcClientInit
<1>7. /\ Idle \in RcGo /\ Idle.pc = "none" /\ Idle.req = NoReq
      /\ [Idle EXCEPT !.pc = "loop"] \in RcGo /\ [Idle EXCEPT !.pc = "loop"].pc = "loop" /\ [Idle EXCEPT !.pc = "loop"].req = NoReq
  BY ReqFacts DEF Idle, RcGo, RcPc
<1>8. NoResend \in RcSender /\ NoResend.pc = "none"
  BY <1>1, ReqFacts DEF NoResend, RcSender, RcSendPc
<1>9. \A g \in Conn : /\ rcIn[g].pc \in {"none", "loop"} /\ rcIn[g].req = NoReq /\ (rcMode = "post" => rcIn[g].pc = "none")
                      /\ rcOut[g] = rcIn[g] /\ rcResend[g] = NoResend /\ (g > 1 => rcIn[g] = Idle /\ rcIn[g].pc = "none")
  <2> SUFFICES ASSUME NEW g \in Conn
               PROVE  /\ rcIn[g].pc \in {"none", "loop"} /\ rcIn[g].req = NoReq /\ (rcMode = "post" => rcIn[g].pc = "none")
                      /\ rcOut[g] = rcIn[g] /\ rcResend[g] = NoResend /\ (g > 1 => rcIn[g] = Idle /\ rcIn[g].pc = "none")
    OBVIOUS
  <2>1. rcOut[g] = rcIn[g] /\ rcResend[g] = NoResend
    BY <1>4, <1>5
  <2>2. g > 1 => g # 1
    BY ReqFacts
  <2>3. PICK l : l = [Idle EXCEPT !.pc = "loop"]
    OBVIOUS
  <2>4. (rcIn[g] = Idle \/ rcIn[g] = l) /\ (g # 1 \/ rcMode = "post" => rcIn[g] = Idle)
    BY <1>5, <2>3
  <2>5. l.pc = "loop" /\ l.req = NoReq /\ Idle.pc = "none" /\ Idle.req = NoReq
    BY <1>7, <2>3
  <2> QED
    BY <2>1, <2>2, <2>4, <2>5
<1>10. RcTypes
  <2>1. RcConnTypes
    <3>1. 0 \in 0..RcMaxFails
      BY RpcClientAssumption
    <3> QED
      BY <1>3, <3>1, ReqFacts DEF RcConnTypes
  <2>2. rcCall \in [Req -> RcCallRec] /\ rcResp \in [Req -> RcResponse] /\ rcWire \in [Conn -> SUBSET Req]
    BY <1>4, ReqFacts DEF RcCallRec, RcResponse
  <2>3. rcPost \in RcPostRec
    BY <1>6 DEF RcPostRec
  <2>4. Len(rcSend) <= RcBuffer
    BY <1>1, <1>3, RpcClientAssumption
  <2>5. RcReqTypes
    BY <1>1, <1>3, <2>2, <2>3, <2>4 DEF RcReqTypes
  <2>6. RcGoTypes
    BY <1>4, <1>5, <1>7, <1>8 DEF RcGoTypes
  <2> QED
    BY <2>1, <2>5, <2>6 DEF RcTypes
<1>11. RcPlaces
  BY <1>3, <1>8, <1>9 DEF RcPlaces, RcInPlace, RcOutPlace, RcResendPlace
<1>12. RcModes
  BY <1>3, <1>4, <1>6, <1>8, <1>9, ReqFacts DEF RcModes, Req
<1>13. RcTokens
  BY <1>2, <1>3, <1>4, <1>9 DEF RcTokens, RcToken, Answering
<1>14. RcWaits
  BY <1>4 DEF RcWaits, RcWait
<1>15. RcCovers
  BY <1>2, <1>3 DEF RcCovers, RcCover
<1> QED
  BY <1>10, <1>11, <1>12, <1>13, <1>14, <1>15 DEF RpcClientIInv

\* The inductive invariant says what RpcClientInvariant says.
LEMMA RcImplies == RpcClientIInv => RpcClientInvariant
<1> SUFFICES ASSUME RpcClientIInv PROVE RpcClientInvariant
  OBVIOUS
<1>0. RcTypes /\ RcPlaces /\ RcModes /\ RcTokens /\ RcWaits /\ RcCovers
  BY DEF RpcClientIInv
<1>1. RpcClientTypeOK
  BY <1>0, RcTypeFacts DEF RpcClientTypeOK, RcTypes, RcConnTypes, RcReqTypes, RcResponse
<1>2. AnsweredOnce
  BY <1>0 DEF RcTokens, RcToken, AnsweredOnce
<1>3. WaitsForSomething
  BY <1>0 DEF RcWaits, RcWait, Somewhere, Answering, WaitsForSomething, Waiting
<1>4. OnItsWay
  <2> SUFFICES ASSUME rcMode = "reconnect", Settled, NEW m \in Range(rcList), m \notin rcDrained
               PROVE  \/ m \in Range(rcSend) \cup rcWire[rcCur]
                      \/ \E g \in Conn : rcOut[g].req = m \/ (rcIn[g].req = m /\ rcIn[g].pc = "remove")
    BY DEF OnItsWay
  <2>1. m \in Req
    BY <1>0, RcTypeFacts
  <2>2. RcCovered(m)
    BY <1>0, <2>1 DEF RcCovers, RcCover, RcLive, Settled
  <2> QED
    BY <2>1, <2>2 DEF RcCovered, Settled
<1> QED
  BY <1>1, <1>2, <1>3, <1>4 DEF RpcClientInvariant

\* Whatever the interleaving of callers, handlers of old and new connections, reconnects, resends and
\* shutdowns: a websocket request gets at most one response, a caller that waits has its request
\* in the list or with a handler that is answering it, and on a settled connection every request of
\* the list is on its way.
THEOREM RpcClientAnswers == RpcClientSpec => []RpcClientInvariant
<1>1. RpcClientInit => RpcClientIInv
  BY RcInit
<1>2. RpcClientIInv /\ [RpcClientNext]_rcVars => RpcClientIInv'
  BY RcTypesStep, RcPlacesStep, RcModesStep, RcTokensStep, RcWaitsStep, RcCoversStep DEF RpcClientIInv
<1>3. RpcClientIInv => RpcClientInvariant
  BY RcImplies
<1> QED
  BY <1>1, <1>2, <1>3, PTL DEF RpcClientSpec
=============================================================================
