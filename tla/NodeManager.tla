----------------------------- MODULE NodeManager -----------------------------
(***************************************************************************)
(* The coin server's control of the OrcaNet node (coin/server): the routes *)
(* /mine and /stopMine stop the node and start it again with or without    *)
(* mining, by Stop and Start of manageOrcaNet.  All requests share the     *)
(* package variable cmdProcess, without a lock.                            *)
(*                                                                         *)
(* Stop interrupts the process of cmdProcess and sleeps five seconds; it   *)
(* never waits for the process, so one that has ended stays a zombie that  *)
(* can still be signalled.  Start assigns a new command to cmdProcess and  *)
(* then reads the variable again for the pipes and once more to start it.  *)
(* The node itself is external: it ends when it is interrupted, sooner or  *)
(* later, when its mining address is empty, and when another node on the   *)
(* machine still holds the data base.                                      *)
(***************************************************************************)
EXTENDS Integers, FiniteSets

CONSTANT Requests       \* the calls of /mine and /stopMine

ASSUME NodeManagerAssumption == IsFiniteSet(Requests)

\* One command is made by main and at most one by each request.
Procs == 1..(Cardinality(Requests) + 1)
Nil == 0

Params == [mining : BOOLEAN, addressed : BOOLEAN]
Proc == [st : {"none", "starting", "running", "stopping", "dead"},
         piped : BOOLEAN, params : Params]
Plain == [mining |-> FALSE, addressed |-> FALSE]
NoProc == [st |-> "none", piped |-> FALSE, params |-> Plain]

VARIABLES
    proc,       \* the commands that were made, and the nodes they started
    made,       \* how many
    cmdProcess, \* the package variable, Nil before it is assigned
    at,         \* where each request is
    params,     \* the parameters of the node that each request will start
    was,        \* history variable: the nodes that lived when Stop was called
    last,       \* history variable: whether the last answered request mines
    overlapped, \* history variable: a request came while another ran
    slow        \* history variable: a node outlived the five seconds of Stop

nodeManagerVars == <<proc, made, cmdProcess, at, params, was, last, overlapped, slow>>

Live == {p \in Procs : proc[p].st \in {"starting", "running", "stopping"}}
Idle == {"new", "failed", "answered"}

\* The types of cmdProcess, of the processes and of the requests.
NodeManagerTypeOK ==
    /\ proc \in [Procs -> Proc]
    /\ made \in 0..Cardinality(Procs)
    /\ cmdProcess \in 0..made
    /\ \A p \in Procs : p > made => proc[p] = NoProc
    /\ at \in [Requests -> Idle \cup {"stop", "sleep", "awake", "pipes", "launch"}]
    /\ params \in [Requests -> Params]
    /\ was \in [Requests -> SUBSET Procs]
    /\ last \in BOOLEAN /\ overlapped \in BOOLEAN /\ slow \in BOOLEAN

\* main has called Start: the executable was not found, or could not be
\* started, or the node is starting.  main ignores the error.
NodeManagerInit ==
    /\ \/ made = 0 /\ cmdProcess = Nil /\ proc = [p \in Procs |-> NoProc]
       \/ /\ made = 1
          /\ cmdProcess = 1
          /\ \E st \in {"none", "starting"} :
               proc = [p \in Procs |-> IF p = 1 THEN [st |-> st, piped |-> TRUE, params |-> Plain]
                                       ELSE NoProc]
    /\ at = [r \in Requests |-> "new"]
    /\ params = [r \in Requests |-> Plain]
    /\ was = [r \in Requests |-> {}]
    /\ last = FALSE
    /\ overlapped = FALSE
    /\ slow = FALSE

Goto(r, from, to) == at[r] = from /\ at' = [at EXCEPT ![r] = to]

-----------------------------------------------------------------------------
(* The handlers up to the call of Stop *)

Begin(r, with) ==
    /\ Goto(r, "new", "stop")
    /\ params' = [params EXCEPT ![r] = with]
    /\ overlapped' = (overlapped \/ \E q \in Requests : at[q] \notin Idle)
    /\ UNCHANGED <<proc, made, cmdProcess, was, last, slow>>

\* When btcctl fails the error is written to the client, and the handler goes
\* on with an empty address.
Mine(r) == \E addressed \in BOOLEAN : Begin(r, [mining |-> TRUE, addressed |-> addressed])

StopMine(r) == Begin(r, Plain)

-----------------------------------------------------------------------------
(* Stop *)

\* cmdProcess and cmdProcess.Process are set.
Started == cmdProcess # Nil /\ proc[cmdProcess].st # "none"

StopFails(r) ==
    /\ ~Started
    /\ Goto(r, "stop", "failed")
    /\ UNCHANGED <<proc, made, cmdProcess, params, was, last, overlapped, slow>>

\* Mutation: no interrupt is sent.
StopUnsent(r) ==
    /\ Started
    /\ Goto(r, "stop", "sleep")
    /\ was' = [was EXCEPT ![r] = Live]
    /\ UNCHANGED <<proc, made, cmdProcess, params, last, overlapped, slow>>

Stop(r) ==
    /\ Started
    /\ Goto(r, "stop", "sleep")
    /\ proc' = [proc EXCEPT ![cmdProcess].st = IF @ = "dead" THEN "dead" ELSE "stopping"]
    /\ was' = [was EXCEPT ![r] = Live]
    /\ UNCHANGED <<made, cmdProcess, params, last, overlapped, slow>>

\* The five seconds are over, whatever became of the node.
Wake(r) ==
    /\ Goto(r, "sleep", "awake")
    /\ slow' = (slow \/ \E p \in was[r] : proc[p].st = "stopping")
    /\ UNCHANGED <<proc, made, cmdProcess, params, was, last, overlapped>>

-----------------------------------------------------------------------------
(* Start *)

\* The executable is gone.
StartFails(r) ==
    /\ Goto(r, "awake", "failed")
    /\ UNCHANGED <<proc, made, cmdProcess, params, was, last, overlapped, slow>>

\* Mutation: the node is started without the parameters of the request.
AssignPlain(r) ==
    /\ Goto(r, "awake", "pipes")
    /\ made' = made + 1
    /\ cmdProcess' = made + 1
    /\ UNCHANGED <<proc, params, was, last, overlapped, slow>>

\* Mutation: the variable is assigned a command that was not made.
AssignUnmade(r) ==
    /\ Goto(r, "awake", "pipes")
    /\ cmdProcess' = made + 1
    /\ UNCHANGED <<proc, made, params, was, last, overlapped, slow>>

\* cmdProcess = exec.Command(...)
Assign(r) ==
    /\ Goto(r, "awake", "pipes")
    /\ made' = made + 1
    /\ cmdProcess' = made + 1
    /\ proc' = [proc EXCEPT ![made + 1].params = params[r]]
    /\ UNCHANGED <<params, was, last, overlapped, slow>>

\* StdoutPipe and StderrPipe of whatever command cmdProcess now is: they
\* fail when it has its pipes or was started, by another request.
Pipes(r) ==
    /\ at[r] = "pipes"
    /\ IF proc[cmdProcess].piped \/ proc[cmdProcess].st # "none"
         THEN Goto(r, "pipes", "failed") /\ UNCHANGED proc
         ELSE Goto(r, "pipes", "launch") /\ proc' = [proc EXCEPT ![cmdProcess].piped = TRUE]
    /\ UNCHANGED <<made, cmdProcess, params, was, last, overlapped, slow>>

\* cmdProcess.Start() fails: it was started already, or the system refuses.
LaunchFails(r) ==
    /\ Goto(r, "launch", "failed")
    /\ UNCHANGED <<proc, made, cmdProcess, params, was, last, overlapped, slow>>

\* The node is started, and the request is answered "Mining successfully
\* started", by /stopMine too.
Launch(r) ==
    /\ Goto(r, "launch", "answered")
    /\ proc[cmdProcess].st = "none"
    /\ proc' = [proc EXCEPT ![cmdProcess].st = "starting"]
    /\ last' = params[r].mining
    /\ UNCHANGED <<made, cmdProcess, params, was, overlapped, slow>>

-----------------------------------------------------------------------------
(* The node *)

NodeStep(p, from, to) ==
    /\ proc[p].st \in from
    /\ proc' = [proc EXCEPT ![p].st = to]
    /\ UNCHANGED <<made, cmdProcess, at, params, was, last, overlapped, slow>>

\* The data base is free, and the mining address is one.
Boot(p) ==
    /\ \A q \in Procs \ {p} : proc[q].st \notin {"running", "stopping"}
    /\ proc[p].params.mining => proc[p].params.addressed
    /\ NodeStep(p, {"starting"}, "running")

\* It does not come up, it crashes, or it has handled the interrupt.
Exit(p) == NodeStep(p, {"starting", "running", "stopping"}, "dead")

NodeManagerNext ==
    \/ \E r \in Requests :
         \/ Mine(r) \/ StopMine(r) \/ StopFails(r) \/ Stop(r) \/ Wake(r)
         \/ StartFails(r) \/ Assign(r) \/ Pipes(r) \/ LaunchFails(r) \/ Launch(r)
    \/ \E p \in Procs : Boot(p) \/ Exit(p)

NodeManagerSpec == NodeManagerInit /\ [][NodeManagerNext]_nodeManagerVars

-----------------------------------------------------------------------------
(* Properties *)

\* Requests that come one after the other never lose a node: as long as every
\* node ends within the five seconds of Stop, a node that lives is the one
\* that the next Stop will interrupt, whichever starts fail in between.
Managed == ~overlapped /\ ~slow => Live \subseteq {cmdProcess}

\* Without overlapping requests, the node that lives under cmdProcess mines
\* exactly if the last request that was answered with success asked for it;
\* a request that failed does not change what the node does.
ModeFollows ==
    ~overlapped /\ cmdProcess \in Live => proc[cmdProcess].params.mining = last

\* "Stop: ends the running OrcaNet instance if its running" (manager.go:82),
\* without overlapping requests, even after a node that outlived its five
\* seconds: when Stop has returned without an error, every node that lived at
\* the call has at least been told to end.  (Two overlapping requests may each
\* assign cmdProcess and start a node, and no Stop ever reaches the first.)
StopEnds ==
    ~overlapped => \A r \in Requests : at[r] = "awake" =>
        \A p \in was[r] : proc[p].st \in {"stopping", "dead"}

\* Requests that do not overlap keep the node under control: no node is lost, it
\* mines as the last successful request asked, and Stop reaches every node.
NodeManagerInvariant ==
    /\ NodeManagerTypeOK /\ Managed /\ ModeFollows /\ StopEnds
=============================================================================
