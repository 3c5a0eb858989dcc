------------------------------- MODULE ConnMgr -------------------------------
(***************************************************************************)
(* The connection manager of an OrcaNet node (connmgr/connmanager.go): it  *)
(* keeps TargetOutbound outgoing connections up and the permanent ones     *)
(* besides.  connHandler owns the tables; goroutines hand it requests over *)
(* an unbuffered channel, so that a step in which a goroutine has a        *)
(* request taken is a step of both.  A request has at most one goroutine   *)
(* at a time; cmAt says where it is:                                       *)
(*   "register"  sends registerPending      "address"  GetNewAddress       *)
(*   "connect"   about to Connect, maybe after the retry timer             *)
(*   "dial"      in Dial, or sends its result                              *)
(*   "replace"   Remove, NewConnReq                                        *)
(*   "established" in OnConnection          "none"     no goroutine        *)
(* The lengths of the retry delays are left out: a timer fires some time.  *)
(* The node has a GetNewAddress (it was not started with --connect).       *)
(***************************************************************************)
EXTENDS Integers, Sequences, FiniteSets

CONSTANTS
    NetAddr,            \* addresses of other nodes
    TargetOutbound,
    MaxConnReq          \* bound of the model: requests ever made

ASSUME ConnMgrAssumption == TargetOutbound \in Nat \ {0} /\ MaxConnReq \in Nat

VARIABLES
    connReqs,           \* the requests by id: perm, addr, state
    cmPending, cmConns, \* pending and conns of connHandler
    cmAt,               \* where the goroutine of a request is
    cmNew,              \* goroutines about to call NewConnReq
    cmStop              \* Stop was called and connHandler has ended

cmTables == <<connReqs, cmPending, cmConns>>
cmVars == <<cmTables, cmAt, cmNew, cmStop>>

NoNetAddr == "no address"
ConnStates == {"none", "pending", "failing", "canceled", "established", "disconnected"}
CmPoints == {"register", "address", "connect", "dial", "replace", "established", "none"}
CmIds == 1..Len(connReqs)

ConnMgrInit ==
    /\ connReqs = <<>> /\ cmPending = {} /\ cmConns = {} /\ cmAt = <<>>
    /\ cmNew = 0 /\ cmStop = FALSE

UpdateState(id, s) == connReqs' = [connReqs EXCEPT ![id].state = s]
CmGo(id, point) == cmAt' = [cmAt EXCEPT ![id] = point]

\* Mutation: a request for any address is not replaced when it fails.
HandleFailedConnKeep(id) == IF connReqs[id].perm THEN "connect" ELSE "none"

\* handleFailedConn: a permanent request is retried, another is replaced.
HandleFailedConn(id) == IF connReqs[id].perm THEN "connect" ELSE "replace"

-----------------------------------------------------------------------------
(* The cases of connHandler *)

\* registerPending of Connect; that of NewConnReq is below.
HandleRegisterPending(id) ==
    /\ ~cmStop /\ cmAt[id] = "register"
    /\ UpdateState(id, "pending") /\ cmPending' = cmPending \cup {id}
    /\ CmGo(id, "dial")
    /\ UNCHANGED <<cmConns, cmNew, cmStop>>

\* A connection whose request is no longer pending is closed.
HandleConnected(id) ==
    /\ ~cmStop /\ cmAt[id] = "dial"
    /\ IF id \notin cmPending
       THEN CmGo(id, "none") /\ UNCHANGED cmTables
       ELSE /\ UpdateState(id, "established") /\ CmGo(id, "established")
            /\ cmConns' = cmConns \cup {id} /\ cmPending' = cmPending \ {id}
    /\ UNCHANGED <<cmNew, cmStop>>

\* The dial has failed, or no address was found.
HandleFailed(id) ==
    /\ ~cmStop /\ cmAt[id] \in {"dial", "address"}
    /\ IF id \notin cmPending
       THEN CmGo(id, "none") /\ UNCHANGED connReqs
       ELSE UpdateState(id, "failing") /\ CmGo(id, HandleFailedConn(id))
    /\ UNCHANGED <<cmPending, cmConns, cmNew, cmStop>>

\* handleDisconnected, sent by Disconnect (retry) and Remove.  A retried request
\* gets a goroutine again; otherwise its goroutine is at rest.
HandleDisconnected(id, retry) ==
    CASE id \in cmConns ->
            /\ cmConns' = cmConns \ {id}
            /\ IF retry /\ (Cardinality(cmConns') < TargetOutbound \/ connReqs[id].perm)
               THEN /\ UpdateState(id, "pending") /\ cmPending' = cmPending \cup {id}
                    /\ CmGo(id, HandleFailedConn(id))
               ELSE /\ IF retry THEN UNCHANGED connReqs ELSE UpdateState(id, "disconnected")
                    /\ CmGo(id, "none") /\ UNCHANGED cmPending
      [] id \notin cmConns /\ id \in cmPending ->
            /\ UpdateState(id, "canceled") /\ cmPending' = cmPending \ {id}
            /\ CmGo(id, "none") /\ UNCHANGED cmConns
      [] id \notin cmConns \cup cmPending -> CmGo(id, "none") /\ UNCHANGED cmTables

-----------------------------------------------------------------------------
(* The goroutines *)

NewReq(perm, addr, point) ==
    /\ Len(connReqs) < MaxConnReq
    /\ connReqs' = Append(connReqs, [perm |-> perm, addr |-> addr,
                                     state |-> IF point = "address" THEN "pending" ELSE "none"])
    /\ cmAt' = Append(cmAt, point)

\* NewConnReq, registered with connHandler
NewConnReq ==
    /\ cmNew > 0 /\ ~cmStop
    /\ NewReq(FALSE, NoNetAddr, "address") /\ cmPending' = cmPending \cup {Len(connReqs')}
    /\ cmNew' = cmNew - 1
    /\ UNCHANGED <<cmConns, cmStop>>

\* NewConnReq goes on with the address the callback has found.
TakeAddress(id, addr) ==
    /\ cmAt[id] = "address"
    /\ connReqs' = [connReqs EXCEPT ![id].addr = addr] /\ CmGo(id, "connect")
    /\ UNCHANGED <<cmPending, cmConns, cmNew, cmStop>>

\* Connect of a request that has an id
Connect(id) ==
    /\ cmAt[id] = "connect" /\ ~cmStop
    /\ CmGo(id, IF connReqs[id].state = "canceled" THEN "none" ELSE "dial")
    /\ UNCHANGED <<cmTables, cmNew, cmStop>>

\* Remove and NewConnReq, in the goroutine handleFailedConn starts
Replace(id) ==
    /\ cmAt[id] = "replace" /\ ~cmStop
    /\ HandleDisconnected(id, FALSE) /\ cmNew' = cmNew + 1
    /\ UNCHANGED cmStop

\* Stop, and the end of connHandler; goroutines that wait for it return.
StopConnMgr ==
    /\ cmStop' = TRUE /\ cmNew' = 0
    /\ cmAt' = [id \in DOMAIN cmAt |-> IF cmAt[id] = "established" THEN cmAt[id] ELSE "none"]
    /\ UNCHANGED cmTables

ConnMgrNext ==
    \/ NewConnReq
    \/ \E id \in CmIds : \/ HandleRegisterPending(id) \/ HandleConnected(id) \/ HandleFailed(id)
                         \/ Connect(id) \/ Replace(id)
=============================================================================
