------------------------------ MODULE JobTable ------------------------------
(***************************************************************************)
(* The in-memory job table of a peer node: the slice Manager.Jobs of       *)
(* peer/internal/jobs, without its periodic save (that is JobManager).     *)
(*                                                                         *)
(* A job id is a fresh uuid and rows are appended, so an id stands here    *)
(* for its position in the order of creation: job k precedes job j in the  *)
(* slice exactly when k < j, and removing rows keeps that order.  A job    *)
(* that is not in the slice has the row Absent, whose status is the empty  *)
(* string GetJobStatus returns for it.                                     *)
(*                                                                         *)
(* Every writer holds Manager.Mutex for its whole body and is one step.    *)
(* GetJobStatus takes no lock.  It copies the slice header and then reads  *)
(* rows that writers may be moving, so it is a scan with a beginning and   *)
(* an end; scan[j] is the set of values the scan in progress for job j may *)
(* still return ({}: no scan in progress).                                 *)
(***************************************************************************)
EXTENDS Integers

CONSTANT MaxJobs            \* how many jobs are created (a bound)

ASSUME MaxJobsAssumption == MaxJobs \in Nat

JobIds == 1..MaxJobs

NoStatus == ""

\* The statuses the program writes.  ClearHistory looks for "completed",
\* which is not one of them.
Status == {"active", "paused", "terminated", "finished"}

\* The parts of Job that the program reads back or updates.
Row == [status : Status \cup {NoStatus}, cost : Nat]

Absent == [status |-> NoStatus, cost |-> 0]

VARIABLES
    jobs,       \* Manager.Jobs
    issued,     \* how many ids uuid.New has given out
    scan        \* outcomes still open for the unlocked scan of each job

tableVars == <<jobs, issued, scan>>

\* The types of Manager.Jobs and of the unlocked scans of GetJobStatus.
TableTypeOK ==
    /\ jobs \in [JobIds -> Row]
    /\ issued \in 0..MaxJobs
    /\ scan \in [JobIds -> SUBSET (Status \cup {NoStatus})]

TableInit ==
    /\ jobs = [j \in JobIds |-> Absent]
    /\ issued = 0
    /\ scan = [j \in JobIds |-> {}]

InTable(j) == jobs[j].status # NoStatus

-----------------------------------------------------------------------------
(* Writers, each under the mutex. *)

\* Mutation: the cost starts at -1, like ProjectedCost and ETA.
AddJobUncosted(j) ==
    /\ issued < MaxJobs
    /\ j = issued + 1
    /\ issued' = j
    /\ jobs' = [jobs EXCEPT ![j] = [status |-> "active", cost |-> -1]]
    /\ UNCHANGED scan

\* AddJobHandler builds an "active" job with a fresh id and appends it.  A
\* scan in progress has its own slice header and does not see the new row.
AddJob(j) ==
    /\ issued < MaxJobs
    /\ j = issued + 1
    /\ issued' = j
    /\ jobs' = [jobs EXCEPT ![j] = [status |-> "active", cost |-> 0]]
    /\ UNCHANGED scan

\* Overwrite the status of row j, whatever it was; an unknown id changes
\* nothing.  A scan that meets the write may return the old string, the new
\* one, or a torn one (new pointer, old length) that equals no status, for
\* which NoStatus stands: callers only compare with "paused" and "terminated".
SetStatus(j, s) ==
    /\ jobs' = IF InTable(j) THEN [jobs EXCEPT ![j].status = s] ELSE jobs
    /\ scan' = IF InTable(j) /\ scan[j] # {}
                 THEN [scan EXCEPT ![j] = @ \cup {s, NoStatus}]
                 ELSE scan
    /\ UNCHANGED issued

StartJob(j) == InTable(j) /\ SetStatus(j, "active")
PauseJob(j) == InTable(j) /\ SetStatus(j, "paused")
TerminateJob(j) == InTable(j) /\ SetStatus(j, "terminated")

UpdateJobStatus(j, s) == SetStatus(j, s)

\* Mutation: the cost is overwritten instead of accumulated.
UpdateJobCostOverwrites(j, additionalCost) ==
    /\ jobs' = IF InTable(j) THEN [jobs EXCEPT ![j].cost = additionalCost] ELSE jobs
    /\ UNCHANGED <<issued, scan>>

UpdateJobCost(j, additionalCost) ==
    /\ jobs' = IF InTable(j)
                 THEN [jobs EXCEPT ![j].cost = @ + additionalCost]
                 ELSE jobs
    /\ UNCHANGED <<issued, scan>>

\* append(Jobs[:idx], Jobs[idx+1:]...) shifts the later rows down in place.
\* A scan for one of the shifted rows may miss it, or read a half-copied row
\* that pairs its id with the status of another row being moved.
RemoveFromHistory(j) ==
    /\ InTable(j)
    /\ jobs' = [jobs EXCEPT ![j] = Absent]
    /\ scan' = [k \in JobIds |->
                  IF k < j \/ scan[k] = {}
                    THEN scan[k]
                    ELSE scan[k] \cup {NoStatus}
                           \cup {jobs[m].status : m \in j..MaxJobs}]
    /\ UNCHANGED issued

\* Keeps every row whose status is not "completed", in a new slice.
ClearHistory ==
    /\ jobs' = [j \in JobIds |->
                  IF jobs[j].status # "completed" THEN jobs[j] ELSE Absent]
    /\ UNCHANGED <<issued, scan>>

-----------------------------------------------------------------------------
(* GetJobStatus: the unlocked reader. *)

GetJobStatusBegin(j) ==
    /\ scan[j] = {}
    /\ scan' = [scan EXCEPT ![j] = {jobs[j].status}]
    /\ UNCHANGED <<jobs, issued>>

GetJobStatusEnd(j, status) ==
    /\ status \in scan[j]
    /\ scan' = [scan EXCEPT ![j] = {}]
    /\ UNCHANGED <<jobs, issued>>

\* Mutation: ids are counted from one again in every process.
TableRestartReusesIds ==
    /\ jobs' = [j \in JobIds |-> Absent]
    /\ scan' = [j \in JobIds |-> {}]
    /\ issued' = 0

\* The process ended and a new one runs InitPeriodicJobSave: an empty table
\* (the history file is not read back), and ids that were never used before.
TableRestart ==
    /\ jobs' = [j \in JobIds |-> Absent]
    /\ scan' = [j \in JobIds |-> {}]
    /\ UNCHANGED issued
=============================================================================
