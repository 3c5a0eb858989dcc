--------------------------- MODULE JobTableProofs ---------------------------
(***************************************************************************)
(* Lemmas about the operations of JobTable, for every number of jobs: what *)
(* each writer and the unlocked reader keep and change.  The proofs about  *)
(* JobManager and FileTransfer rest on them.                               *)
(***************************************************************************)
EXTENDS JobTable, TLAPS

\* The rows the writers store are rows.
LEMMA RowType ==
    /\ Absent \in Row
    /\ [status |-> "active", cost |-> 0] \in Row
    /\ [j \in JobIds |-> Absent] \in [JobIds -> Row]
BY DEF Absent, Row, NoStatus, Status

\* SetStatus changes at most the status of one row that is in the table, and
\* only the scan for that row.
LEMMA SetStatusFacts ==
    ASSUME TableTypeOK, NEW j \in JobIds, NEW s \in Status, SetStatus(j, s)
    PROVE  /\ TableTypeOK'
           /\ issued' = issued
           /\ \A k \in JobIds : jobs'[k].cost = jobs[k].cost
           /\ \A k \in JobIds : InTable(k)' <=> InTable(k)
           /\ \A k \in JobIds : jobs'[k] # Absent => jobs[k] # Absent
           /\ \A k \in JobIds \ {j} : jobs'[k] = jobs[k] /\ scan'[k] = scan[k]
           /\ InTable(j) => jobs'[j].status = s
           /\ ~InTable(j) => jobs' = jobs /\ scan' = scan
<1> USE DEF TableTypeOK
<1>1. CASE ~InTable(j)
  <2>1. UNCHANGED tableVars
    BY <1>1 DEF SetStatus, tableVars
  <2> QED
    BY <1>1, <2>1 DEF tableVars, InTable
<1>2. CASE InTable(j)
  <2>1. jobs' = [jobs EXCEPT ![j].status = s] /\ issued' = issued
    BY <1>2 DEF SetStatus
  <2>2. jobs[j] \in Row
    OBVIOUS
  <2>3. jobs'[j] = [jobs[j] EXCEPT !.status = s]
    BY <2>1
  <2>4. /\ jobs'[j] \in Row
        /\ jobs'[j].status = s
        /\ jobs'[j].cost = jobs[j].cost
    BY <2>2, <2>3 DEF Row
  <2>5. \A k \in JobIds \ {j} : jobs'[k] = jobs[k]
    BY <2>1
  <2>6. jobs' \in [JobIds -> Row]
    BY <2>1, <2>4, <2>5
  <2>7. /\ scan' \in [JobIds -> SUBSET (Status \cup {NoStatus})]
        /\ \A k \in JobIds \ {j} : scan'[k] = scan[k]
    BY <1>2 DEF SetStatus
  <2>8. s # NoStatus
    BY DEF Status, NoStatus
  <2>9. jobs[j] # Absent
    BY <1>2 DEF InTable, Absent
  <2> QED
    BY <1>2, <2>1, <2>4, <2>5, <2>6, <2>7, <2>8, <2>9 DEF InTable
<1> QED
  BY <1>1, <1>2

\* UpdateJobCost only adds to the cost of a row that is in the table.
LEMMA UpdateJobCostFacts ==
    ASSUME TableTypeOK, NEW j \in JobIds, NEW c \in Nat, UpdateJobCost(j, c)
    PROVE  /\ TableTypeOK'
           /\ issued' = issued /\ scan' = scan
           /\ \A k \in JobIds : jobs[k].cost <= jobs'[k].cost
           /\ \A k \in JobIds : jobs'[k].status = jobs[k].status
           /\ \A k \in JobIds : jobs'[k] # Absent => jobs[k] # Absent
           /\ \A k \in JobIds \ {j} : jobs'[k] = jobs[k]
           /\ InTable(j) => jobs'[j].cost = jobs[j].cost + c
<1> USE DEF TableTypeOK
<1>1. issued' = issued /\ scan' = scan
  BY DEF UpdateJobCost
<1>2. CASE ~InTable(j)
  <2>1. jobs' = jobs
    BY <1>2 DEF UpdateJobCost
  <2>2. \A k \in JobIds : jobs[k].cost \in Nat
    BY DEF Row
  <2> QED
    BY <1>1, <1>2, <2>1, <2>2
<1>3. CASE InTable(j)
  <2>1. jobs' = [jobs EXCEPT ![j].cost = @ + c]
    BY <1>3 DEF UpdateJobCost
  <2>2. jobs[j] \in Row /\ jobs[j].cost \in Nat
    BY DEF Row
  <2>3. jobs'[j] = [jobs[j] EXCEPT !.cost = jobs[j].cost + c]
    BY <2>1
  <2>4. /\ jobs'[j] \in Row
        /\ jobs'[j].status = jobs[j].status
        /\ jobs'[j].cost = jobs[j].cost + c
    BY <2>2, <2>3 DEF Row
  <2>5. \A k \in JobIds \ {j} : jobs'[k] = jobs[k]
    BY <2>1
  <2>6. jobs' \in [JobIds -> Row]
    BY <2>1, <2>4, <2>5
  <2>7. jobs[j] # Absent
    BY <1>3 DEF InTable, Absent
  <2>8. \A k \in JobIds : jobs[k].cost \in Nat
    BY DEF Row
  <2>9. \A k \in JobIds : jobs[k].cost <= jobs'[k].cost
    BY <2>2, <2>4, <2>5, <2>8
  <2> QED
    BY <1>1, <2>4, <2>5, <2>6, <2>7, <2>9
<1> QED
  BY <1>2, <1>3

\* AddJob fills the first row that was never used.
LEMMA AddJobFacts ==
    ASSUME TableTypeOK, NEW j \in JobIds, AddJob(j)
    PROVE  /\ TableTypeOK'
           /\ j = issued + 1 /\ issued' = j /\ scan' = scan
           /\ jobs'[j] = [status |-> "active", cost |-> 0]
           /\ \A k \in JobIds \ {j} : jobs'[k] = jobs[k]
<1>1. j = issued + 1 /\ issued' = j /\ scan' = scan
  BY DEF AddJob
<1>2. issued' \in 0..MaxJobs
  BY <1>1, MaxJobsAssumption DEF JobIds
<1>3. jobs' = [jobs EXCEPT ![j] = [status |-> "active", cost |-> 0]]
  BY DEF AddJob
<1>4. jobs' \in [JobIds -> Row]
  BY <1>3, RowType DEF TableTypeOK
<1>5. jobs'[j] = [status |-> "active", cost |-> 0] /\ \A k \in JobIds \ {j} : jobs'[k] = jobs[k]
  BY <1>3 DEF TableTypeOK
<1> QED
  BY <1>1, <1>2, <1>4, <1>5 DEF TableTypeOK

\* RemoveFromHistory clears one row.  It may add to the scans in progress.
LEMMA RemoveFacts ==
    ASSUME TableTypeOK, NEW j \in JobIds, RemoveFromHistory(j)
    PROVE  /\ TableTypeOK'
           /\ issued' = issued
           /\ jobs'[j] = Absent
           /\ \A k \in JobIds \ {j} : jobs'[k] = jobs[k]
           /\ \A k \in JobIds : scan[k] \subseteq scan'[k] /\ (scan[k] = {} => scan'[k] = {})
<1>1. jobs' \in [JobIds -> Row] /\ issued' = issued
  BY RowType DEF TableTypeOK, RemoveFromHistory
<1>2. \A m \in j..MaxJobs : jobs[m].status \in Status \cup {NoStatus}
  BY MaxJobsAssumption DEF TableTypeOK, Row, JobIds
<1>3. scan' \in [JobIds -> SUBSET (Status \cup {NoStatus})]
  BY <1>2 DEF TableTypeOK, RemoveFromHistory
<1>4. jobs'[j] = Absent /\ \A k \in JobIds \ {j} : jobs'[k] = jobs[k]
  BY DEF TableTypeOK, RemoveFromHistory
<1>5. \A k \in JobIds : scan[k] \subseteq scan'[k] /\ (scan[k] = {} => scan'[k] = {})
  BY DEF TableTypeOK, RemoveFromHistory
<1> QED
  BY <1>1, <1>3, <1>4, <1>5 DEF TableTypeOK

\* No row has the status ClearHistory looks for, so it keeps them all.
LEMMA ClearHistoryKeepsAll ==
    ASSUME TableTypeOK, ClearHistory
    PROVE  UNCHANGED tableVars
<1>1. \A j \in JobIds : jobs[j].status # "completed"
  BY DEF TableTypeOK, Row, Status, NoStatus
<1>2. jobs' = jobs
  BY <1>1 DEF TableTypeOK, ClearHistory
<1> QED
  BY <1>2 DEF ClearHistory, tableVars

\* Both ends of a scan leave the table alone and keep its types.
LEMMA ScanFacts ==
    ASSUME TableTypeOK, NEW j \in JobIds,
           GetJobStatusBegin(j) \/ \E s \in scan[j] : GetJobStatusEnd(j, s)
    PROVE  TableTypeOK' /\ jobs' = jobs /\ issued' = issued
<1>1. jobs[j].status \in Status \cup {NoStatus}
  BY DEF TableTypeOK, Row
<1> QED
  BY <1>1 DEF TableTypeOK, GetJobStatusBegin, GetJobStatusEnd

\* A new process has an empty table.
LEMMA RestartFacts ==
    ASSUME TableTypeOK, TableRestart
    PROVE  /\ TableTypeOK'
           /\ issued' = issued
           /\ \A j \in JobIds : jobs'[j] = Absent
BY RowType DEF TableTypeOK, TableRestart

\* The first process has one too.
LEMMA TableInitTypeOK == TableInit => TableTypeOK
BY RowType, MaxJobsAssumption DEF TableInit, TableTypeOK
=============================================================================
