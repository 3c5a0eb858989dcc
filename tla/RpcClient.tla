----------------------------- MODULE RpcClient -----------------------------
(***************************************************************************)
(* The RPC client the wallet and the tools talk to a node with             *)
(* (rpcclient/infrastructure.go).  A websocket client keeps a list of the  *)
(* requests without an answer; per connection a goroutine reads answers    *)
(* and one writes requests from a channel; when the connection is lost,    *)
(* the reconnect handler dials again, starts new goroutines and sends the  *)
(* list again.  An HTTP POST client has one goroutine that works off a     *)
(* channel.  Goroutines of an old connection may still be running when the *)
(* next one is up.                                                         *)
(***************************************************************************)
EXTENDS Integers, Sequences, FiniteSets, Functions

CONSTANTS
    RcCalls,    \* requests that callers make, each once
    RcRescan,   \* those of methods that are not sent again (ignoreResends)
    RcNotify,   \* those that register for notifications
    RcBuffer,   \* capacity of the send channels
    RcConns,    \* bound: connections
    RcMaxFails  \* bound: connections that fail

ASSUME RpcClientAssumption ==
    /\ RcRescan \subseteq RcCalls /\ RcNotify \subseteq RcCalls
    /\ RcBuffer \in Nat \ {0} /\ RcConns \in Nat \ {0} /\ RcMaxFails \in Nat

Conn == 1..RcConns
ClientCalls == RcCalls \X {0}
Regs == {"reg"} \X Conn    \* the requests of reregisterNtfns, one per connection
Req == ClientCalls \cup Regs
NoReq == <<"none", -1>>

VARIABLES
    rcMode,    \* "reconnect", "once" (DisableAutoReconnect) or "post" (HTTPPostMode)
    rcShut,    \* whether the shutdown channel is closed
    rcCur,     \* the connection wsConn and disconnect belong to
    rcDown,    \* the flag disconnected
    rcClosed,  \* connections whose disconnect channel is closed
    rcLink,    \* connections whose transport works
    rcFails,   \* connections that failed
    rcList,    \* requestList
    rcSend,    \* sendChan, in post mode sendPostChan
    rcResp,    \* what is in each response channel
    rcCall,    \* the goroutines in sendRequest: step, and the disconnect channel they wait for
    rcWire,    \* per connection: requests the server has and has not answered
    rcIn,      \* per connection: wsInHandler
    rcOut,     \* per connection: wsOutHandler
    rcResend,  \* per connection: resendRequests
    rcRec,     \* wsReconnectHandler
    rcPost,    \* sendPostHandler
    rcTracked, \* whether a registration is remembered (ntfnState)
    rcDrained  \* history: requests an old wsOutHandler took from the channel of a later connection

rcConnVars == <<rcShut, rcCur, rcDown, rcClosed, rcLink, rcFails>>
rcReqVars == <<rcList, rcSend, rcResp, rcWire, rcTracked, rcDrained>>
rcProcVars == <<rcCall, rcIn, rcOut, rcResend, rcRec, rcPost>>
rcVars == <<rcMode, rcConnVars, rcReqVars, rcProcVars>>

Idle == [pc |-> "none", on |-> 0, req |-> NoReq]

\* The list of the elements of s that are in the set T.
Only(s, T) ==
    LET f[i \in 0..Len(s)] == IF i = 0 THEN <<>>
                              ELSE IF s[i] \in T THEN Append(f[i - 1], s[i]) ELSE f[i - 1]
    IN  f[Len(s)]
Without(s, m) == Only(s, Req \ {m})

----------------------------------------------------------------------------
(* Steps shared by the goroutines *)

\* A response goes into the channel of the request, which has room for one.
Responded(ms, with) == [m \in Req |-> IF m \in ms THEN (IF rcResp[m] = "none" THEN with ELSE "twice") ELSE rcResp[m]]

\* addRequest refuses after a shutdown; the refusal is the response.
AddRequest(m) ==
    IF rcShut THEN rcResp' = Responded({m}, "error") /\ UNCHANGED rcList
    ELSE rcList' = Append(rcList, m) /\ UNCHANGED rcResp

\* Mutant: the flag is set and the channel stays open.
DoDisconnectLate ==
    /\ rcDown' = TRUE
    /\ UNCHANGED <<rcClosed, rcLink>>

\* doDisconnect: once per connection.
DoDisconnect ==
    /\ rcDown' = TRUE
    /\ rcClosed' = IF rcDown THEN rcClosed ELSE rcClosed \cup {rcCur}
    /\ rcLink' = IF rcDown THEN rcLink ELSE rcLink \ {rcCur}

\* Disconnect: without reconnection the requests are answered and the client shuts down.
\* Mutant: the list is cleared before its requests are answered.
AnswerNone == rcList' = <<>> /\ UNCHANGED rcResp
AnswerAll == rcResp' = Responded(Range(rcList), "error") /\ rcList' = <<>>
Disconnect ==
    /\ DoDisconnect
    /\ IF rcMode = "once" /\ ~rcDown THEN AnswerAll /\ rcShut' = TRUE
       ELSE UNCHANGED <<rcList, rcResp, rcShut>>
    /\ UNCHANGED <<rcCur, rcFails>>

\* sendMessage chooses between the send channel and the disconnect channel it looked up.
SendMessage(m, ch) ==
    \/ Len(rcSend) < RcBuffer /\ rcSend' = Append(rcSend, m)
    \/ ch \in rcClosed /\ UNCHANGED rcSend

----------------------------------------------------------------------------
(* Callers: SendCmd, sendRequest *)

CallStep(m, pc, ch) == rcCall' = [rcCall EXCEPT ![m] = [pc |-> pc, on |-> ch]]

\* addRequest, and the disconnect channel sendMessage will wait for.  It may be looked up later, but
\* the channel of an older connection allows whatever that of a later one does.
SendRequest(m) ==
    /\ rcMode # "post" /\ m \in ClientCalls /\ rcCall[m].pc = "none"
    /\ AddRequest(m)
    /\ IF rcShut THEN CallStep(m, "done", 0) ELSE CallStep(m, "send", rcCur)
    /\ UNCHANGED <<rcMode, rcConnVars, rcSend, rcWire, rcTracked, rcDrained, rcIn, rcOut, rcResend, rcRec, rcPost>>

CallSend(m) ==
    /\ rcCall[m].pc = "send"
    /\ SendMessage(m, rcCall[m].on)
    /\ CallStep(m, "done", 0)
    /\ UNCHANGED <<rcMode, rcConnVars, rcList, rcResp, rcWire, rcTracked, rcDrained, rcIn, rcOut, rcResend, rcRec, rcPost>>

\* Shutdown holds requestLock: every pending request is answered, then the connection is closed.
Shutdown ==
    /\ ~rcShut
    /\ rcShut' = TRUE
    /\ AnswerAll
    /\ IF rcMode = "post" THEN UNCHANGED <<rcDown, rcClosed, rcLink>> ELSE DoDisconnect
    /\ UNCHANGED <<rcMode, rcCur, rcFails, rcSend, rcWire, rcTracked, rcDrained, rcProcVars>>

----------------------------------------------------------------------------
(* wsInHandler, wsOutHandler: goroutine g was started for connection g *)

\* The handler reads from what wsConn is at that moment.
InLoop(g) ==
    /\ rcIn[g].pc = "loop"
    /\ rcIn' = [rcIn EXCEPT ![g] = [@ EXCEPT !.pc = IF rcShut THEN "disconnect" ELSE "read", !.on = rcCur]]
    /\ UNCHANGED <<rcMode, rcConnVars, rcReqVars, rcCall, rcOut, rcResend, rcRec, rcPost>>

RcInRead(g) ==
    /\ rcIn[g].pc = "read"
    /\ \/ /\ rcIn[g].on \notin rcLink
          /\ rcIn' = [rcIn EXCEPT ![g].pc = "disconnect"]
          /\ UNCHANGED rcWire
       \/ /\ rcIn[g].on \in rcLink
          /\ \E m \in rcWire[rcIn[g].on] :
                 /\ rcWire' = [rcWire EXCEPT ![rcIn[g].on] = @ \ {m}]
                 /\ rcIn' = [rcIn EXCEPT ![g] = [@ EXCEPT !.pc = "remove", !.req = m]]
    /\ UNCHANGED <<rcMode, rcConnVars, rcList, rcSend, rcResp, rcTracked, rcDrained, rcCall, rcOut, rcResend, rcRec, rcPost>>

\* Mutant: the request stays in the list.
RemoveRequestKeep(g) ==
    LET m == rcIn[g].req
    IN  /\ rcIn[g].pc = "remove"
        /\ rcIn' = [rcIn EXCEPT ![g] = IF m \in Range(rcList) THEN [@ EXCEPT !.pc = "answer"] ELSE [Idle EXCEPT !.pc = "loop"]]
        /\ UNCHANGED <<rcMode, rcConnVars, rcReqVars, rcCall, rcOut, rcResend, rcRec, rcPost>>

\* handleMessage: removeRequest first; an answer nobody waits for is ignored.
RemoveRequest(g) ==
    LET m == rcIn[g].req
    IN  /\ rcIn[g].pc = "remove"
        /\ rcList' = Without(rcList, m)
        /\ rcIn' = [rcIn EXCEPT ![g] = IF m \in Range(rcList) THEN [@ EXCEPT !.pc = "answer"] ELSE [Idle EXCEPT !.pc = "loop"]]
        /\ UNCHANGED <<rcMode, rcConnVars, rcSend, rcResp, rcWire, rcTracked, rcDrained, rcCall, rcOut, rcResend, rcRec, rcPost>>

\* ... then the registration is remembered and the response given.
HandleMessage(g) ==
    LET m == rcIn[g].req
    IN  /\ rcIn[g].pc = "answer"
        /\ rcTracked' = (rcTracked \/ m[1] \in RcNotify \/ m \in Regs)
        /\ rcResp' = Responded({m}, "result")
        /\ rcIn' = [rcIn EXCEPT ![g] = [Idle EXCEPT !.pc = "loop"]]
        /\ UNCHANGED <<rcMode, rcConnVars, rcList, rcSend, rcWire, rcDrained, rcCall, rcOut, rcResend, rcRec, rcPost>>

InDisconnect(g) ==
    /\ rcIn[g].pc = "disconnect"
    /\ Disconnect
    /\ rcIn' = [rcIn EXCEPT ![g] = [Idle EXCEPT !.pc = "done"]]
    /\ UNCHANGED <<rcMode, rcSend, rcWire, rcTracked, rcDrained, rcCall, rcOut, rcResend, rcRec, rcPost>>

OutLoop(g) ==
    /\ rcOut[g].pc = "loop"
    /\ rcOut' = [rcOut EXCEPT ![g] = [@ EXCEPT !.pc = "select", !.on = rcCur]]
    /\ UNCHANGED <<rcMode, rcConnVars, rcReqVars, rcCall, rcIn, rcResend, rcRec, rcPost>>

OutSelect(g) ==
    /\ rcOut[g].pc = "select"
    /\ \/ /\ rcSend # <<>> /\ rcSend' = Tail(rcSend)
          /\ rcOut' = [rcOut EXCEPT ![g] = [@ EXCEPT !.pc = "write", !.req = Head(rcSend)]]
       \/ /\ rcOut[g].on \in rcClosed /\ UNCHANGED rcSend
          /\ rcOut' = [rcOut EXCEPT ![g].pc = "drain"]
    /\ UNCHANGED <<rcMode, rcConnVars, rcList, rcResp, rcWire, rcTracked, rcDrained, rcCall, rcIn, rcResend, rcRec, rcPost>>

\* WriteMessage to what wsConn is at that moment.
OutWrite(g) ==
    /\ rcOut[g].pc = "write"
    /\ IF rcCur \in rcLink
       THEN /\ rcWire' = [rcWire EXCEPT ![rcCur] = @ \cup {rcOut[g].req}]
            /\ rcOut' = [rcOut EXCEPT ![g] = [Idle EXCEPT !.pc = "loop"]]
       ELSE UNCHANGED rcWire /\ rcOut' = [rcOut EXCEPT ![g] = [Idle EXCEPT !.pc = "disconnect"]]
    /\ UNCHANGED <<rcMode, rcConnVars, rcList, rcSend, rcResp, rcTracked, rcDrained, rcCall, rcIn, rcResend, rcRec, rcPost>>

OutDisconnect(g) ==
    /\ rcOut[g].pc = "disconnect"
    /\ Disconnect
    /\ rcOut' = [rcOut EXCEPT ![g].pc = "drain"]
    /\ UNCHANGED <<rcMode, rcSend, rcWire, rcTracked, rcDrained, rcCall, rcIn, rcResend, rcRec, rcPost>>

\* The cleanup empties the channel, which a later connection shares.
OutDrain(g) ==
    /\ rcOut[g].pc = "drain"
    /\ rcSend' = <<>>
    /\ rcDrained' = IF g # rcCur THEN rcDrained \cup Range(rcSend) ELSE rcDrained
    /\ rcOut' = [rcOut EXCEPT ![g] = [Idle EXCEPT !.pc = "done"]]
    /\ UNCHANGED <<rcMode, rcConnVars, rcList, rcResp, rcWire, rcTracked, rcCall, rcIn, rcResend, rcRec, rcPost>>

\* The network or the server drops the connection.
LinkFails ==
    /\ rcCur \in rcLink /\ rcFails < RcMaxFails
    /\ rcLink' = rcLink \ {rcCur}
    /\ rcFails' = rcFails + 1
    /\ UNCHANGED <<rcMode, rcShut, rcCur, rcDown, rcClosed, rcReqVars, rcProcVars>>

----------------------------------------------------------------------------
(* wsReconnectHandler and resendRequests *)

ReconnectWait ==
    /\ rcRec = "wait"
    /\ \/ rcCur \in rcClosed /\ rcRec' = "dial"
       \/ rcShut /\ rcRec' = "done"
    /\ UNCHANGED <<rcMode, rcConnVars, rcReqVars, rcCall, rcIn, rcOut, rcResend, rcPost>>

\* Mutant: shutdown is not looked at before a dial.
DialOn ==
    /\ rcRec = "dial"
    /\ rcRec' \in IF rcCur + 1 \in Conn THEN {"dial", "set"} ELSE {"dial"}
    /\ UNCHANGED <<rcMode, rcConnVars, rcReqVars, rcCall, rcIn, rcOut, rcResend, rcPost>>

\* A dial that fails is tried again; shutdown is only looked at before each dial.
Dial ==
    /\ rcRec = "dial"
    /\ rcRec' \in IF rcShut THEN {"done"} ELSE IF rcCur + 1 \in Conn THEN {"dial", "set"} ELSE {"dial"}
    /\ UNCHANGED <<rcMode, rcConnVars, rcReqVars, rcCall, rcIn, rcOut, rcResend, rcPost>>

\* The new connection takes the place of the old one; start() and go resendRequests().
Reconnect ==
    LET g == rcCur + 1
    IN  /\ rcRec = "set"
        /\ rcCur' = g /\ rcDown' = FALSE /\ rcLink' = rcLink \cup {g}
        /\ rcIn' = [rcIn EXCEPT ![g].pc = "loop"]
        /\ rcOut' = [rcOut EXCEPT ![g].pc = "loop"]
        /\ rcResend' = [rcResend EXCEPT ![g].pc = "register"]
        /\ rcRec' = "wait"
        /\ UNCHANGED <<rcMode, rcShut, rcClosed, rcFails, rcReqVars, rcCall, rcPost>>

ResendStep(g, r) == rcResend' = [rcResend EXCEPT ![g] = r]
NoResend == [pc |-> "none", on |-> 0, todo |-> <<>>]

\* reregisterNtfns makes a request of its own and waits for the answer.
Reregister(g) ==
    LET m == <<"reg", g>>
    IN  /\ rcResend[g].pc = "register"
        /\ IF rcTracked
           THEN /\ AddRequest(m)
                /\ IF rcShut THEN UNCHANGED rcCall ELSE CallStep(m, "send", rcCur)
                /\ ResendStep(g, [NoResend EXCEPT !.pc = "await"])
           ELSE ResendStep(g, [NoResend EXCEPT !.pc = "copy"]) /\ UNCHANGED <<rcList, rcResp, rcCall>>
        /\ UNCHANGED <<rcMode, rcConnVars, rcSend, rcWire, rcTracked, rcDrained, rcIn, rcOut, rcRec, rcPost>>

ReregisterEnds(g) ==
    LET m == <<"reg", g>>
    IN  /\ rcResend[g].pc = "await" /\ rcCall[m].pc \in {"none", "done"} /\ rcResp[m] # "none"
        /\ IF rcResp[m] = "result"
           THEN ResendStep(g, [NoResend EXCEPT !.pc = "copy"]) /\ UNCHANGED <<rcConnVars, rcList, rcResp>>
           ELSE ResendStep(g, [NoResend EXCEPT !.pc = "done"]) /\ Disconnect
        /\ UNCHANGED <<rcMode, rcSend, rcWire, rcTracked, rcDrained, rcCall, rcIn, rcOut, rcRec, rcPost>>

\* The list is copied; requests that are not sent again leave it, without an answer.
CopyRequests(g) ==
    /\ rcResend[g].pc = "copy"
    /\ rcList' = Only(rcList, {m \in Req : m[1] \notin RcRescan})
    /\ ResendStep(g, [NoResend EXCEPT !.pc = "check", !.todo = rcList'])
    /\ UNCHANGED <<rcMode, rcConnVars, rcSend, rcResp, rcWire, rcTracked, rcDrained, rcCall, rcIn, rcOut, rcRec, rcPost>>

ResendCheck(g) ==
    /\ rcResend[g].pc = "check"
    /\ ResendStep(g, IF rcResend[g].todo = <<>> \/ rcDown THEN [NoResend EXCEPT !.pc = "done"]
                     ELSE [rcResend[g] EXCEPT !.pc = "send", !.on = rcCur])
    /\ UNCHANGED <<rcMode, rcConnVars, rcReqVars, rcCall, rcIn, rcOut, rcRec, rcPost>>

\* Mutant: the copied requests are dropped when the connection was lost in between.
ResendNothing(g) ==
    /\ rcResend[g].pc = "send"
    /\ ResendStep(g, [NoResend EXCEPT !.pc = "done"])
    /\ UNCHANGED <<rcMode, rcConnVars, rcReqVars, rcCall, rcIn, rcOut, rcRec, rcPost>>

ResendRequest(g) ==
    /\ rcResend[g].pc = "send"
    /\ SendMessage(Head(rcResend[g].todo), rcResend[g].on)
    /\ ResendStep(g, [NoResend EXCEPT !.pc = "check", !.todo = Tail(rcResend[g].todo)])
    /\ UNCHANGED <<rcMode, rcConnVars, rcList, rcResp, rcWire, rcTracked, rcDrained, rcCall, rcIn, rcOut, rcRec, rcPost>>

----------------------------------------------------------------------------
(* HTTP POST mode: sendPostRequest and sendPostHandler *)

\* After a shutdown the request is answered, and goes on to the channel all the same.
SendPostRequest(m) ==
    /\ rcMode = "post" /\ m \in ClientCalls /\ rcCall[m].pc = "none"
    /\ rcResp' = IF rcShut THEN Responded({m}, "error") ELSE rcResp
    /\ CallStep(m, "post", 0)
    /\ UNCHANGED <<rcMode, rcConnVars, rcList, rcSend, rcWire, rcTracked, rcDrained, rcIn, rcOut, rcResend, rcRec, rcPost>>

PostChannel(m) ==
    /\ rcCall[m].pc = "post"
    /\ \/ Len(rcSend) < RcBuffer /\ rcSend' = Append(rcSend, m)
       \/ rcShut /\ UNCHANGED rcSend
    /\ CallStep(m, "done", 0)
    /\ UNCHANGED <<rcMode, rcConnVars, rcList, rcResp, rcWire, rcTracked, rcDrained, rcIn, rcOut, rcResend, rcRec, rcPost>>

PostHandler ==
    /\ rcPost.pc = "loop"
    /\ \/ rcSend # <<>> /\ rcSend' = Tail(rcSend) /\ rcPost' = [pc |-> "try", req |-> Head(rcSend)]
       \/ rcShut /\ UNCHANGED rcSend /\ rcPost' = [rcPost EXCEPT !.pc = "drain"]
    /\ UNCHANGED <<rcMode, rcConnVars, rcList, rcResp, rcWire, rcTracked, rcDrained, rcCall, rcIn, rcOut, rcResend, rcRec>>

\* handleSendPostMessage: an answer, an error after the last try, or a shutdown while it backs off.
HandleSendPost ==
    /\ rcPost.pc = "try"
    /\ \/ \E with \in {"result", "error"} : rcResp' = Responded({rcPost.req}, with)
       \/ rcShut /\ UNCHANGED rcResp
    /\ rcPost' = [pc |-> "loop", req |-> NoReq]
    /\ UNCHANGED <<rcMode, rcConnVars, rcList, rcSend, rcWire, rcTracked, rcDrained, rcCall, rcIn, rcOut, rcResend, rcRec>>

PostCleanup ==
    /\ rcPost.pc = "drain"
    /\ IF rcSend = <<>> THEN rcPost' = [rcPost EXCEPT !.pc = "done"] /\ UNCHANGED <<rcSend, rcResp>>
       ELSE rcResp' = Responded({Head(rcSend)}, "error") /\ rcSend' = Tail(rcSend) /\ UNCHANGED rcPost
    /\ UNCHANGED <<rcMode, rcConnVars, rcList, rcWire, rcTracked, rcDrained, rcCall, rcIn, rcOut, rcResend, rcRec>>

----------------------------------------------------------------------------
\* New: the first connection is up, its goroutines run; in post mode only the post handler.
RpcClientInit ==
    LET ws == IF rcMode = "post" THEN "none" ELSE "loop"
        first(pc) == [g \in Conn |-> IF g = 1 THEN [Idle EXCEPT !.pc = pc] ELSE Idle]
    IN  /\ rcMode \in {"reconnect", "once", "post"}
        /\ rcShut = FALSE /\ rcCur = 1 /\ rcDown = FALSE /\ rcClosed = {} /\ rcFails = 0
        /\ rcLink = IF rcMode = "post" THEN {} ELSE {1}
        /\ rcList = <<>> /\ rcSend = <<>>
        /\ rcResp = [m \in Req |-> "none"]
        /\ rcCall = [m \in Req |-> [pc |-> "none", on |-> 0]]
        /\ rcWire = [g \in Conn |-> {}]
        /\ rcIn = first(ws) /\ rcOut = first(ws)
        /\ rcResend = [g \in Conn |-> NoResend]
        /\ rcRec = IF rcMode = "reconnect" THEN "wait" ELSE "none"
        /\ rcPost = [pc |-> IF rcMode = "post" THEN "loop" ELSE "none", req |-> NoReq]
        /\ rcTracked = FALSE /\ rcDrained = {}

CallNext(m) == SendRequest(m) \/ CallSend(m) \/ SendPostRequest(m) \/ PostChannel(m)
InNext(g) == InLoop(g) \/ RcInRead(g) \/ RemoveRequest(g) \/ HandleMessage(g) \/ InDisconnect(g)
OutNext(g) == OutLoop(g) \/ OutSelect(g) \/ OutWrite(g) \/ OutDisconnect(g) \/ OutDrain(g)
ResendNext(g) == Reregister(g) \/ ReregisterEnds(g) \/ CopyRequests(g) \/ ResendCheck(g) \/ ResendRequest(g)
RecNext == ReconnectWait \/ Dial \/ Reconnect
PostNext == PostHandler \/ HandleSendPost \/ PostCleanup

RpcClientNext ==
    \/ \E m \in Req : CallNext(m)
    \/ \E g \in Conn : InNext(g) \/ OutNext(g) \/ ResendNext(g)
    \/ RecNext \/ PostNext \/ Shutdown \/ LinkFails

\* The goroutines run; nothing makes callers, Shutdown or failures happen.
RpcClientFairness ==
    /\ \A m \in Req : WF_rcVars(CallSend(m) \/ PostChannel(m))
    /\ \A g \in Conn : /\ WF_rcVars(InNext(g)) /\ WF_rcVars(OutNext(g))
                       /\ WF_rcVars(ResendNext(g))
    /\ WF_rcVars(RecNext) /\ WF_rcVars(PostNext)

RpcClientSpec == RpcClientInit /\ [][RpcClientNext]_rcVars /\ RpcClientFairness

----------------------------------------------------------------------------
(* Properties *)

\* Types; the disconnected flag says whether the current disconnect channel is closed.
RpcClientTypeOK ==
    /\ rcMode \in {"reconnect", "once", "post"}
    /\ rcShut \in BOOLEAN /\ rcCur \in Conn /\ rcDown \in BOOLEAN /\ rcTracked \in BOOLEAN
    /\ rcClosed \subseteq Conn /\ rcLink \subseteq Conn /\ rcFails \in 0..RcMaxFails
    /\ Range(rcList) \subseteq Req /\ Range(rcSend) \subseteq Req /\ Len(rcSend) <= RcBuffer
    /\ rcResp \in [Req -> {"none", "result", "error", "twice"}]
    /\ rcDown <=> rcCur \in rcClosed

\* A websocket request gets one response, however it was sent, resent, answered and shut down: its
\* channel has room for one and a second would block the goroutine that reads the connection.
AnsweredOnce == rcMode # "post" => \A m \in Req : rcResp[m] # "twice"

\* A request whose caller waits is in the list or just being answered; only what resendRequests
\* leaves out, and in post mode what a shutdown overtakes, waits for nothing.
Waiting(m) == rcCall[m].pc = "done" /\ rcResp[m] = "none"
WaitsForSomething ==
    \A m \in Req : Waiting(m) =>
        \/ m \in Range(rcList)
        \/ \E g \in Conn : rcIn[g].pc = "answer" /\ rcIn[g].req = m
        \/ m[1] \in RcRescan /\ rcCur > 1
        \/ rcMode = "post" /\ (rcShut \/ m \in Range(rcSend) \/ rcPost.req = m)

\* Once a connection is settled, its resend done, every request in the list is on its way on this
\* connection; the exception is one an old wsOutHandler took away while it cleaned up.
Settled ==
    /\ ~rcDown /\ rcCur \in rcLink /\ rcResend[rcCur].pc \in {"none", "done"}
    /\ \A m \in Req : rcCall[m].pc \in {"none", "done"}
OnItsWay ==
    rcMode = "reconnect" /\ Settled =>
        \A m \in Range(rcList) \ rcDrained :
            \/ m \in Range(rcSend) \cup rcWire[rcCur]
            \/ \E g \in Conn : rcOut[g].req = m \/ (rcIn[g].req = m /\ rcIn[g].pc = "remove")

\* After Shutdown every goroutine ends: WaitForShutdown returns.
Ended ==
    /\ \A g \in Conn : {rcIn[g].pc, rcOut[g].pc, rcResend[g].pc} \subseteq {"none", "done"}
    /\ rcRec \in {"none", "done"} /\ rcPost.pc \in {"none", "done"}
ShutdownEnds == rcShut ~> Ended

\* A command is answered at most once, and as long as its caller waits there is
\* somebody who has it, over lost connections, resends and shutdowns.
RpcClientInvariant ==
    /\ RpcClientTypeOK /\ AnsweredOnce /\ WaitsForSomething /\ OnItsWay
=============================================================================
