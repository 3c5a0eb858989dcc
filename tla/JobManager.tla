----------------------------- MODULE JobManager -----------------------------
(***************************************************************************)
(* The job manager of peer/internal/jobs: the table of JobTable, the       *)
(* Changed flag, the goroutine InitPeriodicJobSave that writes the table   *)
(* to jobs.json every ten seconds when the flag is set, and the crash or   *)
(* exit of the process at any point.                                       *)
(*                                                                         *)
(* Manager.Mutex is held across several steps only by the saver, so the    *)
(* saver's program counter is the mutex: writers need saver = "idle".      *)
(* Worker goroutines appear as arbitrary calls of UpdateJobStatus and      *)
(* UpdateJobCost; FileTransfer says which calls they make.                 *)
(***************************************************************************)
EXTENDS JobTable

CONSTANTS
    Prices,     \* what one chunk may cost
    MaxCost     \* bound on a job's accumulated cost

ASSUME PricesAssumption == Prices \subseteq Nat

VARIABLES
    changed,    \* Manager.Changed
    saver,      \* the saver, in SaveHistory: it holds Manager.Mutex unless idle
    history,    \* jobs.json
    lastSave    \* history variable: how this process's last SaveHistory ended

managerVars == <<changed, saver, history, lastSave>>
vars == <<jobs, issued, scan, changed, saver, history, lastSave>>

NoJobs == [j \in JobIds |-> Absent]

\* jobs.json: whether LoadHistory can decode it, and the rows it holds.
File == [readable : BOOLEAN, rows : [JobIds -> Row]]

\* jobs.json after os.WriteFile has truncated it and before all is written.
Truncated == [readable |-> FALSE, rows |-> NoJobs]

\* The types of the job table, of the Changed flag, of the saver and of jobs.json.
TypeOK ==
    /\ TableTypeOK
    /\ changed \in BOOLEAN
    /\ saver \in {"idle", "opening", "writing"}
    /\ history \in File
    /\ lastSave \in {"none", "ok", "failed"}

Init ==
    /\ TableInit
    /\ changed = FALSE
    /\ saver = "idle"
    /\ history = [readable |-> TRUE, rows |-> NoJobs]
    /\ lastSave = "none"

-----------------------------------------------------------------------------
(* A writer takes the mutex, changes the table and sets Changed. *)

Locked == saver = "idle"

Writes ==
    /\ Locked
    /\ changed' = TRUE
    /\ UNCHANGED <<saver, history, lastSave>>

Add == Writes /\ \E j \in JobIds : AddJob(j)
Start == Writes /\ \E j \in JobIds : StartJob(j)
Pause == Writes /\ \E j \in JobIds : PauseJob(j)
Terminate == Writes /\ \E j \in JobIds : TerminateJob(j)

\* Mutation: removing a row does not set Changed.
RemoveUnflagged ==
    /\ Locked
    /\ \E j \in JobIds : RemoveFromHistory(j)
    /\ UNCHANGED managerVars

Remove == Writes /\ \E j \in JobIds : RemoveFromHistory(j)

\* Mutation: a worker's report does not set Changed.
ReportStatusUnflagged ==
    /\ Locked
    /\ \E j \in JobIds, s \in {"terminated", "finished"} :
         InTable(j) /\ UpdateJobStatus(j, s)
    /\ UNCHANGED managerVars

\* A worker's reports.  For an id that is no longer in the table they change
\* nothing, and leave Changed alone.
ReportStatus ==
    /\ Writes
    /\ \E j \in JobIds, s \in {"terminated", "finished"} :
         InTable(j) /\ UpdateJobStatus(j, s)

ReportCost ==
    /\ Writes
    /\ \E j \in JobIds, c \in Prices :
         /\ InTable(j)
         /\ jobs[j].cost + c <= MaxCost
         /\ UpdateJobCost(j, c)

\* ClearHistory sets Changed once for every row it keeps.
Clear ==
    /\ Locked
    /\ ClearHistory
    /\ changed' = (changed \/ \E j \in JobIds : InTable(j) /\ jobs[j].status # "completed")
    /\ UNCHANGED <<saver, history, lastSave>>

-----------------------------------------------------------------------------
(* The periodic save.  Changed is cleared first, and stays cleared when     *)
(* the write fails: InitPeriodicJobSave ignores the error.                  *)

SaveHistory ==
    /\ Locked
    /\ changed
    /\ changed' = FALSE
    /\ saver' = "opening"
    /\ UNCHANGED <<jobs, issued, scan, history, lastSave>>

\* os.WriteFile opens with O_TRUNC.
SaveOpen ==
    /\ saver = "opening"
    /\ saver' = "writing"
    /\ history' = Truncated
    /\ UNCHANGED <<jobs, issued, scan, changed, lastSave>>

SaveWritten ==
    /\ saver = "writing"
    /\ saver' = "idle"
    /\ history' = [readable |-> TRUE, rows |-> jobs]
    /\ lastSave' = "ok"
    /\ UNCHANGED <<jobs, issued, scan, changed>>

SaveError ==
    /\ saver # "idle"
    /\ saver' = "idle"
    /\ lastSave' = "failed"
    /\ UNCHANGED <<jobs, issued, scan, changed, history>>

\* The process dies anywhere, also between the truncation and the write.
Restart ==
    /\ TableRestart
    /\ changed' = FALSE
    /\ saver' = "idle"
    /\ lastSave' = "none"
    /\ UNCHANGED history

Next ==
    \/ Add \/ Start \/ Pause \/ Terminate \/ Remove \/ Clear
    \/ ReportStatus \/ ReportCost
    \/ SaveHistory \/ SaveOpen \/ SaveWritten \/ SaveError
    \/ Restart

Saver == SaveHistory \/ SaveOpen \/ SaveWritten \/ SaveError

\* The saver's goroutine keeps running, and Go's mutex lets it in in the end.
Fairness == WF_vars(Saver)

Spec == Init /\ [][Next]_vars /\ Fairness

-----------------------------------------------------------------------------
(* Properties *)

\* Between saves, a clear Changed flag means that nothing is owed to the
\* disk: if the last save succeeded jobs.json is the table, and if there was
\* none yet the table is empty.  (After a failed save the change is lost
\* until a later writer sets the flag again.)  This is what lets
\* InitPeriodicJobSave skip the save: a writer that forgot the flag, or a
\* save that cleared it for a table it did not write, would break it.
CleanMeansSaved ==
    saver = "idle" /\ ~changed =>
        /\ lastSave = "ok" => history = [readable |-> TRUE, rows |-> jobs]
        /\ lastSave = "none" => jobs = NoJobs

\* jobs.json never runs ahead of the table: every row it has for a
\* job that is still in the table shows at most the cost accumulated there,
\* and no row for a job that was never created.  The saver reads the table
\* and writes the file in different steps while workers add to the costs.
HistoryNotAhead ==
    \A j \in JobIds : history.rows[j] # Absent =>
        /\ j <= issued
        /\ InTable(j) => history.rows[j].cost <= jobs[j].cost

\* A finished job reaches jobs.json, unless the job is changed again first,
\* a save fails, or the process stops.  Relies on the flag not being lost
\* between the saver's test and its write.
FinishedIsSaved ==
    \A j \in JobIds :
        jobs[j].status = "finished" ~>
            \/ jobs[j].status # "finished"
            \/ lastSave = "failed"
            \/ history.rows[j].status = "finished"
=============================================================================
