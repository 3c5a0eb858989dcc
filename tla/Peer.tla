--------------------------------- MODULE Peer ---------------------------------
(***************************************************************************)
(* One connection of an OrcaNet node (peer/peer.go) and the getdata        *)
(* listener of server.go that runs on its input goroutine.  After the      *)
(* handshake five goroutines serve the connection: inHandler reads and     *)
(* handles, queueHandler buffers what is to be sent so that QueueMessage   *)
(* does not block, outHandler writes, stallHandler watches for answers     *)
(* that do not come and pingHandler keeps the connection alive.  They talk *)
(* over channels of one place and stop when quit is closed, in any order.  *)
(***************************************************************************)
EXTENDS Integers, Sequences, FiniteSets, Functions

CONSTANTS
    PeCallers,          \* goroutines that queue messages and do not wait for them
    PeOutputBuffer,     \* outputBufferSize
    PeTrickle,          \* maxInvTrickleSize
    PeInv,              \* inventory of type tx that is announced
    PeInventories,      \* inventories of the getdata messages that come
    PeMaxQueued,        \* bound of the model: messages the callers queue
    PeMaxReceived       \* bound of the model: messages received

ASSUME PeerAssumption ==
    /\ PeOutputBuffer \in Nat \ {0} /\ PeTrickle \in Nat \ {0}
    /\ PeMaxQueued \in Nat /\ PeMaxReceived \in Nat
    /\ PeInventories \subseteq Seq({"found", "missing", "nofilter", "unknown"})
    /\ {"idle", "message"} \cap PeInv = {}

VARIABLES
    peNeg,              \* the handshake: "version", "verack", "up" or "failed"
    disconnect,         \* the flag and the closed channel quit
    outputQueue, outputInvChan, sendQueue, sendDoneQueue, stallControl,     \* channels
    peQueue,            \* queueHandler: at, waiting, pendingMsgs, invSendQueue
    peOut,              \* outHandler: at and the message it holds
    peStall,            \* stallHandler: at, ioStopped, whether an answer is awaited
    peIn,               \* inHandler: see InRead
    peCall,             \* the callers: "idle", or what they send after the check
    peDone,             \* the done channels made so far: signals they hold
    knownInventory,
    peSent,             \* history variable: number of the last message written, inventory announced
    peCount, peReceived \* messages numbered so far, messages received

peQuiet == <<peCount, peReceived>>
peVars == <<peNeg, disconnect, outputQueue, outputInvChan, sendQueue, sendDoneQueue, stallControl,
            peQueue, peOut, peStall, peIn, peCall, peDone, knownInventory, peSent, peQuiet>>

\* an outMsg: number in the order of QueueMessage, inventory announced, done channel (0 for nil)
OutMsg == [no : Nat, inv : SUBSET PeInv, done : Nat, asks : BOOLEAN]
NoMsg == [no |-> 0, inv |-> {}, done |-> 0, asks |-> FALSE]
PeConnected == peNeg # "failed" /\ ~disconnect
Started == peNeg = "up"
InIdle == [at |-> "read", next |-> "read", msg |-> NoMsg, list |-> <<>>, i |-> 1,
           wait |-> 0, nf |-> FALSE, added |-> FALSE, dc |-> 0]

PeerInit ==
    /\ peNeg = "version" /\ disconnect = FALSE
    /\ outputQueue = <<>> /\ outputInvChan = <<>> /\ sendQueue = <<>>
    /\ sendDoneQueue = 0 /\ stallControl = <<>>
    /\ peQueue = [at |-> "select", waiting |-> FALSE, pending |-> <<>>, invs |-> <<>>]
    /\ peOut = [at |-> "select", msg |-> NoMsg]
    /\ peStall = [at |-> "select", ioStopped |-> FALSE, awaits |-> FALSE]
    /\ peIn = InIdle /\ peCall = [c \in PeCallers |-> "idle"] /\ peDone = <<>>
    /\ knownInventory = {} /\ peSent = [no |-> 0, inv |-> {}] /\ peCount = 0 /\ peReceived = 0

-----------------------------------------------------------------------------
(* The handshake and Disconnect *)

\* readRemoteVersionMsg and waitToFinishNegotiation: version, then anything up
\* to verack.  Listeners run on the way and messages may be queued from then on.
Negotiate ==
    /\ peNeg \in {"version", "verack"} /\ ~disconnect
    /\ peNeg' = IF peNeg = "version" THEN "verack" ELSE "up"
    /\ UNCHANGED <<disconnect, outputQueue, outputInvChan, sendQueue, sendDoneQueue, stallControl,
                   peQueue, peOut, peStall, peIn, peCall, peDone, knownInventory, peSent, peQuiet>>

\* a refused version, a message out of place, an error or negotiateTimeout
NegotiateFails ==
    /\ peNeg \in {"version", "verack"}
    /\ peNeg' = "failed" /\ disconnect' = TRUE
    /\ UNCHANGED <<outputQueue, outputInvChan, sendQueue, sendDoneQueue, stallControl,
                   peQueue, peOut, peStall, peIn, peCall, peDone, knownInventory, peSent, peQuiet>>

\* Disconnect by another part of the node, or by the idle timer
PeerDisconnect ==
    /\ Started /\ ~disconnect /\ disconnect' = TRUE
    /\ UNCHANGED <<peNeg, outputQueue, outputInvChan, sendQueue, sendDoneQueue, stallControl,
                   peQueue, peOut, peStall, peIn, peCall, peDone, knownInventory, peSent, peQuiet>>

-----------------------------------------------------------------------------
(* The callers *)

CallRest == <<peNeg, disconnect, sendQueue, sendDoneQueue, stallControl, peQueue, peOut, peStall,
              peIn, peDone, knownInventory, peSent, peReceived>>

\* QueueMessage and QueueInventory look at Connected first, and QueueInventory
\* at what the peer knows ...
CallerChecks(c) ==
    /\ peNeg # "version" /\ peCall[c] = "idle" /\ PeConnected /\ peCount < PeMaxQueued
    /\ \E what \in {"message"} \cup (PeInv \ knownInventory) :
         peCall' = [peCall EXCEPT ![c] = what]
    /\ UNCHANGED <<CallRest, outputQueue, outputInvChan, peCount>>

\* ... and send on the channel in a second step, which blocks when it is full
CallerQueuesFull(c) ==      \* mutant: does not wait for room
    /\ peCall[c] = "message"
    /\ outputQueue' = Append(outputQueue, [NoMsg EXCEPT !.no = peCount + 1, !.asks = TRUE])
    /\ peCount' = peCount + 1 /\ peCall' = [peCall EXCEPT ![c] = "idle"]
    /\ UNCHANGED <<CallRest, outputInvChan>>
CallerQueues(c) ==
    /\ peCall[c] = "message" /\ Len(outputQueue) < PeOutputBuffer
    /\ outputQueue' = Append(outputQueue, [NoMsg EXCEPT !.no = peCount + 1, !.asks = TRUE])
    /\ peCount' = peCount + 1 /\ peCall' = [peCall EXCEPT ![c] = "idle"]
    /\ UNCHANGED <<CallRest, outputInvChan>>

CallerAnnounces(c) ==
    /\ peCall[c] \in PeInv /\ Len(outputInvChan) < PeOutputBuffer
    /\ outputInvChan' = Append(outputInvChan, peCall[c])
    /\ peCount' = peCount + 1 /\ peCall' = [peCall EXCEPT ![c] = "idle"]
    /\ UNCHANGED <<CallRest, outputQueue>>

-----------------------------------------------------------------------------
(* queueHandler *)

QueueRest == <<peNeg, disconnect, stallControl, peOut, peStall, peIn, peCall, knownInventory,
               peSent, peQuiet>>

Signal(dones, ch) == IF ch = 0 THEN dones ELSE [dones EXCEPT ![ch] = @ + 1]
SignalAll(dones, msgs) ==
    [ch \in DOMAIN dones |-> dones[ch] + Cardinality({k \in DOMAIN msgs : msgs[k].done = ch})]

\* queuePacket for messages in a row: the first goes to sendQueue when nothing
\* is under way, which blocks when that is full; the others wait in pendingMsgs
QueuePacketFront(q, msgs) ==        \* mutant: pendingMsgs as a stack
    IF msgs = <<>> THEN UNCHANGED sendQueue /\ peQueue' = q
    ELSE IF q.waiting
    THEN UNCHANGED sendQueue /\ peQueue' = [q EXCEPT !.pending = msgs \o @]
    ELSE /\ sendQueue = <<>> /\ sendQueue' = <<Head(msgs)>>
         /\ peQueue' = [q EXCEPT !.waiting = TRUE, !.pending = @ \o Tail(msgs)]
QueuePacket(q, msgs) ==
    IF msgs = <<>> THEN UNCHANGED sendQueue /\ peQueue' = q
    ELSE IF q.waiting
    THEN UNCHANGED sendQueue /\ peQueue' = [q EXCEPT !.pending = @ \o msgs]
    ELSE /\ sendQueue = <<>> /\ sendQueue' = <<Head(msgs)>>
         /\ peQueue' = [q EXCEPT !.waiting = TRUE, !.pending = @ \o Tail(msgs)]

QueueOutput ==
    /\ peQueue.at = "select" /\ Started /\ outputQueue # <<>>
    /\ QueuePacket(peQueue, <<Head(outputQueue)>>)
    /\ outputQueue' = Tail(outputQueue)
    /\ UNCHANGED <<QueueRest, outputInvChan, sendDoneQueue, peDone>>

\* A message was written: the next one may go.
QueueSendDoneClear ==       \* mutant: waiting is cleared although the next message goes out
    /\ peQueue.at = "select" /\ Started /\ sendDoneQueue > 0
    /\ sendDoneQueue' = sendDoneQueue - 1
    /\ IF peQueue.pending = <<>>
       THEN peQueue' = [peQueue EXCEPT !.waiting = FALSE] /\ UNCHANGED sendQueue
       ELSE /\ sendQueue = <<>> /\ sendQueue' = <<Head(peQueue.pending)>>
            /\ peQueue' = [peQueue EXCEPT !.pending = Tail(@), !.waiting = FALSE]
    /\ UNCHANGED <<QueueRest, outputQueue, outputInvChan, peDone>>
QueueSendDone ==
    /\ peQueue.at = "select" /\ Started /\ sendDoneQueue > 0
    /\ sendDoneQueue' = sendDoneQueue - 1
    /\ IF peQueue.pending = <<>>
       THEN peQueue' = [peQueue EXCEPT !.waiting = FALSE] /\ UNCHANGED sendQueue
       ELSE /\ sendQueue = <<>> /\ sendQueue' = <<Head(peQueue.pending)>>
            /\ peQueue' = [peQueue EXCEPT !.pending = Tail(@)]
    /\ UNCHANGED <<QueueRest, outputQueue, outputInvChan, peDone>>

QueueInv ==
    /\ peQueue.at = "select" /\ Started /\ outputInvChan # <<>>
    /\ peQueue' = [peQueue EXCEPT !.invs = Append(@, Head(outputInvChan))]
    /\ outputInvChan' = Tail(outputInvChan)
    /\ UNCHANGED <<QueueRest, outputQueue, sendQueue, sendDoneQueue, peDone>>

\* the inventory of the trickle in messages of PeTrickle, without what the peer
\* knows, which includes what came earlier in the queue
Trickled ==
    LET invs == peQueue.invs
        fresh == {i \in 1..Len(invs) : /\ invs[i] \notin knownInventory
                                       /\ \A j \in 1..(i - 1) : invs[j] # invs[i]}
        batch(n) == (n + PeTrickle - 1) \div PeTrickle
        in(k) == {i \in fresh : batch(Cardinality({j \in fresh : j <= i})) = k}
    IN  [k \in 1..batch(Cardinality(fresh)) |-> [NoMsg EXCEPT !.inv = {invs[i] : i \in in(k)}]]

Trickle ==
    /\ peQueue.at = "select" /\ Started /\ ~disconnect /\ peQueue.invs # <<>>
    /\ QueuePacket([peQueue EXCEPT !.invs = <<>>], Trickled)
    /\ knownInventory' = knownInventory \cup Range(peQueue.invs)
    /\ UNCHANGED <<peNeg, disconnect, stallControl, peOut, peStall, peIn, peCall, peSent, peQuiet,
                   outputQueue, outputInvChan, sendDoneQueue, peDone>>

\* quit is closed: pendingMsgs is given up, then the channels are drained until
\* both are empty, and queueQuit is closed.
QueueQuitsFlush ==          \* mutant: waits until pendingMsgs was sent
    /\ Started /\ disconnect
    /\ \/ /\ peQueue.at = "select" /\ peQueue.pending = <<>>
          /\ peQueue' = [peQueue EXCEPT !.at = "drain"]
          /\ UNCHANGED <<peDone, outputQueue, outputInvChan>>
       \/ /\ peQueue.at = "drain"
          /\ peQueue' = [peQueue EXCEPT !.at = "ended"]
          /\ UNCHANGED <<peDone, outputQueue, outputInvChan>>
    /\ UNCHANGED <<QueueRest, sendQueue, sendDoneQueue>>
QueueQuits ==
    /\ Started /\ disconnect
    /\ \/ /\ peQueue.at = "select"
          /\ peQueue' = [peQueue EXCEPT !.at = "drain", !.pending = <<>>]
          /\ peDone' = SignalAll(peDone, peQueue.pending)
          /\ UNCHANGED <<outputQueue, outputInvChan>>
       \/ /\ peQueue.at = "drain" /\ outputQueue # <<>>
          /\ peDone' = Signal(peDone, Head(outputQueue).done)
          /\ outputQueue' = Tail(outputQueue) /\ UNCHANGED <<peQueue, outputInvChan>>
       \/ /\ peQueue.at = "drain" /\ outputInvChan # <<>>
          /\ outputInvChan' = Tail(outputInvChan) /\ UNCHANGED <<peQueue, peDone, outputQueue>>
       \/ /\ peQueue.at = "drain" /\ outputQueue = <<>> /\ outputInvChan = <<>>
          /\ peQueue' = [peQueue EXCEPT !.at = "ended"]
          /\ UNCHANGED <<peDone, outputQueue, outputInvChan>>
    /\ UNCHANGED <<QueueRest, sendQueue, sendDoneQueue>>

-----------------------------------------------------------------------------
(* outHandler *)

OutRest == <<peNeg, outputQueue, outputInvChan, peQueue, peStall, peIn, peCall, knownInventory,
             peQuiet>>

OutTakes ==
    /\ peOut.at = "select" /\ Started /\ sendQueue # <<>>
    /\ peOut' = [at |-> "stall", msg |-> Head(sendQueue)] /\ sendQueue' = <<>>
    /\ UNCHANGED <<OutRest, disconnect, sendDoneQueue, stallControl, peDone, peSent>>

OutTellsStall ==
    /\ peOut.at = "stall" /\ stallControl = <<>>
    /\ stallControl' = <<IF peOut.msg.asks THEN "asks" ELSE "other">>
    /\ peOut' = [peOut EXCEPT !.at = "write"]
    /\ UNCHANGED <<OutRest, disconnect, sendQueue, sendDoneQueue, peDone, peSent>>

\* writeMessage does nothing, without an error, once the peer is disconnected
OutWrites ==
    /\ peOut.at = "write"
    /\ peSent' = IF disconnect THEN peSent
                 ELSE [no |-> IF peOut.msg.no = 0 THEN peSent.no ELSE peOut.msg.no,
                       inv |-> peSent.inv \cup peOut.msg.inv]
    /\ peDone' = Signal(peDone, peOut.msg.done)
    /\ peOut' = [at |-> "done", msg |-> NoMsg]
    /\ UNCHANGED <<OutRest, disconnect, sendQueue, sendDoneQueue, stallControl>>

\* The connection breaks: no entry for sendDoneQueue.
OutWriteFailsTwice ==       \* mutant: no continue after the error
    /\ peOut.at = "write"
    /\ disconnect' = TRUE
    /\ peDone' = Signal(Signal(peDone, peOut.msg.done), peOut.msg.done)
    /\ peOut' = [at |-> "done", msg |-> NoMsg]
    /\ UNCHANGED <<OutRest, sendQueue, sendDoneQueue, stallControl, peSent>>
OutWriteFails ==
    /\ peOut.at = "write"
    /\ disconnect' = TRUE /\ peDone' = Signal(peDone, peOut.msg.done)
    /\ peOut' = [at |-> "select", msg |-> NoMsg]
    /\ UNCHANGED <<OutRest, sendQueue, sendDoneQueue, stallControl, peSent>>

OutTellsQueue ==
    /\ peOut.at = "done" /\ sendDoneQueue = 0
    /\ sendDoneQueue' = 1 /\ peOut' = [peOut EXCEPT !.at = "select"]
    /\ UNCHANGED <<OutRest, disconnect, sendQueue, stallControl, peDone, peSent>>

\* After quit it waits for queueQuit, drains sendQueue and closes outQuit.
OutQuits ==
    /\ Started /\ disconnect
    /\ \/ /\ peOut.at = "select" /\ peOut' = [peOut EXCEPT !.at = "drain"]
          /\ UNCHANGED <<sendQueue, peDone>>
       \/ /\ peOut.at = "drain" /\ peQueue.at = "ended"
          /\ peDone' = SignalAll(peDone, sendQueue)
          /\ sendQueue' = <<>> /\ peOut' = [peOut EXCEPT !.at = "ended"]
    /\ UNCHANGED <<OutRest, disconnect, sendDoneQueue, stallControl, peSent>>

-----------------------------------------------------------------------------
(* stallHandler *)

StallRest == <<peNeg, outputQueue, outputInvChan, sendQueue, sendDoneQueue, peQueue, peOut, peIn,
               peCall, peDone, knownInventory, peSent, peQuiet>>

\* A request sets a deadline for its answer, an answer clears it.
StallHears ==
    /\ peStall.at = "select" /\ Started /\ stallControl # <<>>
    /\ peStall' = [peStall EXCEPT !.awaits = CASE Head(stallControl) = "asks" -> TRUE
                                               [] Head(stallControl) = "answer" -> FALSE
                                               [] OTHER -> @]
    /\ stallControl' = <<>> /\ UNCHANGED <<StallRest, disconnect>>

StallTick ==
    /\ peStall.at = "select" /\ Started /\ peStall.awaits
    /\ disconnect' = TRUE /\ UNCHANGED <<StallRest, peStall, stallControl>>

\* inQuit and outQuit are closed for good: the second of either kind ends the
\* loop, which need not be the other one.
StallQuits ==
    /\ Started /\ (peIn.at = "ended" \/ peOut.at = "ended")
    /\ \/ /\ peStall.at = "select"
          /\ peStall' = [peStall EXCEPT !.ioStopped = TRUE,
                                        !.at = IF peStall.ioStopped THEN "drain" ELSE @]
          /\ UNCHANGED stallControl
       \/ /\ peStall.at = "drain" /\ stallControl # <<>> /\ stallControl' = <<>>
          /\ UNCHANGED peStall
       \/ /\ peStall.at = "drain" /\ stallControl = <<>>
          /\ peStall' = [peStall EXCEPT !.at = "ended"] /\ UNCHANGED stallControl
    /\ UNCHANGED <<StallRest, disconnect>>

-----------------------------------------------------------------------------
(* inHandler *)

InRest == <<peNeg, disconnect, outputInvChan, sendQueue, sendDoneQueue, peQueue, peOut, peStall,
            peCall, knownInventory, peSent>>

\* readMessage: a message comes.  "next" is what its handler does first.
InRead ==
    /\ peIn.at = "read" /\ Started /\ ~disconnect /\ peReceived < PeMaxReceived
    /\ peReceived' = peReceived + 1
    /\ \/ \E next \in {"handled", "pong", "reject"} : peIn' = [peIn EXCEPT !.at = "recv", !.next = next]
       \/ \E list \in PeInventories :
            peIn' = [peIn EXCEPT !.at = "recv", !.next = "getdata", !.list = list, !.i = 1,
                                 !.wait = 0, !.nf = FALSE, !.added = FALSE]
    /\ UNCHANGED <<InRest, outputQueue, stallControl, peDone, peCount>>

\* readMessage fails: with a reject for a message it cannot read, at once when
\* the connection is gone.
InReadFails ==
    /\ peIn.at = "read" /\ Started
    /\ \/ peIn' = [peIn EXCEPT !.at = "end"]
       \/ ~disconnect /\ peReceived < PeMaxReceived /\ peIn' = [peIn EXCEPT !.at = "reject"]
    /\ UNCHANGED <<InRest, outputQueue, stallControl, peDone, peQuiet>>

\* The two reports before the handler, and the one after it.
InTellsStall ==
    /\ peIn.at \in {"recv", "start", "handled"} /\ stallControl = <<>>
    /\ stallControl' = <<IF peIn.at = "recv" THEN "answer" ELSE "other">>
    /\ peIn' = [peIn EXCEPT !.at = CASE @ = "recv" -> "start" [] @ = "start" -> peIn.next
                                      [] OTHER -> IF disconnect THEN "end" ELSE "read"]
    /\ UNCHANGED <<InRest, outputQueue, peDone, peQuiet>>

\* handlePingMsg; PushRejectMsg with wait, after which the loop ends; the new
\* done channel of OnGetData
InHandles ==
    /\ \/ /\ peIn.at = "pong" /\ UNCHANGED peDone
          /\ peIn' = [peIn EXCEPT !.at = "check", !.next = "handled", !.msg = NoMsg]
       \/ /\ peIn.at = "reject" /\ peDone' = Append(peDone, 0)
          /\ peIn' = [peIn EXCEPT !.at = "check", !.next = "wait", !.dc = Len(peDone) + 1,
                                 !.nf = TRUE, !.msg = [NoMsg EXCEPT !.done = Len(peDone) + 1]]
       \/ /\ peIn.at = "getdata" /\ peDone' = Append(peDone, 0)
          /\ peIn' = [peIn EXCEPT !.at = "items", !.dc = Len(peDone) + 1]
    /\ UNCHANGED <<InRest, outputQueue, stallControl, peQuiet>>

\* QueueMessage of this goroutine: the check, which signals the done channel
\* itself when the peer is gone ...
InChecks ==
    /\ peIn.at = "check"
    /\ IF PeConnected THEN peIn' = [peIn EXCEPT !.at = "put"] /\ UNCHANGED peDone
       ELSE peIn' = [peIn EXCEPT !.at = peIn.next] /\ peDone' = Signal(peDone, peIn.msg.done)
    /\ UNCHANGED <<InRest, outputQueue, stallControl, peQuiet>>

\* ... and the send, which blocks while outputQueue is full
InPuts ==
    /\ peIn.at = "put" /\ Len(outputQueue) < PeOutputBuffer
    /\ outputQueue' = Append(outputQueue, [peIn.msg EXCEPT !.no = peCount + 1])
    /\ peCount' = peCount + 1 /\ peIn' = [peIn EXCEPT !.at = peIn.next]
    /\ UNCHANGED <<InRest, stallControl, peDone, peReceived>>

\* One entry of OnGetData: the last one signals the common channel, every third
\* one a channel of its own, which the next entry that is sent waits for.
GetDataItem ==
    /\ peIn.at = "items" /\ peIn.i <= Len(peIn.list)
    /\ LET item == peIn.list[peIn.i]
           last == peIn.i = Len(peIn.list)
           own == ~(last /\ ~peIn.nf) /\ peIn.i % 3 = 0
           c == IF last /\ ~peIn.nf THEN peIn.dc ELSE IF own THEN Len(peDone) + 1 ELSE 0
           dones == IF own THEN Append(peDone, 0) ELSE peDone
       IN  \/ /\ item = "unknown" /\ peDone' = dones /\ peIn' = [peIn EXCEPT !.i = @ + 1]
           \/ /\ item = "missing"       \* signalled at once; the last entry takes the signal back
              /\ peDone' = IF last THEN dones ELSE Signal(dones, c)
              /\ peIn' = [peIn EXCEPT !.i = @ + 1, !.wait = c, !.nf = TRUE, !.added = TRUE]
           \/ /\ item = "nofilter" /\ peDone' = Signal(dones, c)
              /\ peIn' = [peIn EXCEPT !.i = @ + 1, !.wait = c, !.added = TRUE]
           \/ /\ item = "found" /\ (peIn.wait # 0 => peDone[peIn.wait] > 0)
              /\ peDone' = IF peIn.wait = 0 THEN dones ELSE [dones EXCEPT ![peIn.wait] = @ - 1]
              /\ peIn' = [peIn EXCEPT !.at = "check", !.next = "items", !.i = @ + 1,
                                     !.wait = c, !.added = TRUE, !.msg = [NoMsg EXCEPT !.done = c]]
    /\ UNCHANGED <<InRest, outputQueue, stallControl, peQuiet>>

\* The end of OnGetData: notfound is sent, and the common channel waited for.
GetDataEndsNil ==           \* mutant: notfound is queued without the done channel
    /\ peIn.at = "items" /\ peIn.i > Len(peIn.list)
    /\ IF peIn.nf THEN peIn' = [peIn EXCEPT !.at = "check", !.next = "waitdata", !.msg = NoMsg]
       ELSE peIn' = [peIn EXCEPT !.at = IF peIn.added THEN "waitdata" ELSE "handled"]
    /\ UNCHANGED <<InRest, outputQueue, stallControl, peDone, peQuiet>>
GetDataEnds ==
    /\ peIn.at = "items" /\ peIn.i > Len(peIn.list)
    /\ IF peIn.nf THEN peIn' = [peIn EXCEPT !.at = "check", !.next = "waitdata",
                                           !.msg = [NoMsg EXCEPT !.done = peIn.dc]]
       ELSE peIn' = [peIn EXCEPT !.at = IF peIn.added THEN "waitdata" ELSE "handled"]
    /\ UNCHANGED <<InRest, outputQueue, stallControl, peDone, peQuiet>>

\* <-doneChan of OnGetData and of PushRejectMsg
InWaits ==
    /\ peIn.at \in {"wait", "waitdata"} /\ peDone[peIn.dc] > 0
    /\ peDone' = [peDone EXCEPT ![peIn.dc] = @ - 1]
    /\ peIn' = [peIn EXCEPT !.at = IF peIn.at = "wait" THEN "end" ELSE "handled"]
    /\ UNCHANGED <<InRest, outputQueue, stallControl, peQuiet>>

InEnds ==
    /\ peIn.at = "end" /\ disconnect' = TRUE /\ peIn' = [InIdle EXCEPT !.at = "ended"]
    /\ UNCHANGED <<peNeg, outputInvChan, sendQueue, sendDoneQueue, peQueue, peOut, peStall,
                   peCall, knownInventory, peSent, outputQueue, stallControl, peDone, peQuiet>>

-----------------------------------------------------------------------------
QueueStep == QueueOutput \/ QueueSendDone \/ QueueInv \/ QueueQuits
OutStep == OutTakes \/ OutTellsStall \/ OutTellsQueue \/ OutQuits
InStep == InTellsStall \/ InHandles \/ InChecks \/ InPuts \/ GetDataItem \/ GetDataEnds \/ InWaits
          \/ InEnds

PeerNext ==
    \/ Negotiate \/ NegotiateFails \/ PeerDisconnect
    \/ \E c \in PeCallers : CallerChecks(c) \/ CallerQueues(c) \/ CallerAnnounces(c)
    \/ QueueStep \/ Trickle
    \/ OutStep \/ OutWrites \/ OutWriteFails
    \/ StallHears \/ StallTick \/ StallQuits
    \/ InStep \/ InRead \/ InReadFails

\* The goroutines run, the two ends of a channel and the cases of select are
\* served in the end, and a closed connection ends its reads and writes.
PeerFairness ==
    /\ WF_peVars(QueueStep) /\ WF_peVars(OutStep)
    /\ WF_peVars(StallHears \/ StallQuits) /\ WF_peVars(InStep)
    /\ WF_peVars(disconnect /\ (OutWrites \/ OutWriteFails))
    /\ WF_peVars(disconnect /\ InReadFails)

PeerSpec == PeerInit /\ [][PeerNext]_peVars /\ PeerFairness

-----------------------------------------------------------------------------
(* Properties *)

\* The types of the handlers and channels of a peer; no channel is over its capacity.
PeerTypeOK ==
    /\ peNeg \in {"version", "verack", "up", "failed"} /\ disconnect \in BOOLEAN
    /\ outputQueue \in Seq(OutMsg) /\ sendQueue \in Seq(OutMsg) /\ sendDoneQueue \in 0..1
    /\ Len(outputQueue) <= PeOutputBuffer /\ Len(outputInvChan) <= PeOutputBuffer
    /\ Len(sendQueue) <= 1 /\ Len(stallControl) <= 1
    /\ peQueue.at \in {"select", "drain", "ended"} /\ peQueue.pending \in Seq(OutMsg)
    /\ peOut.at \in {"select", "stall", "write", "done", "drain", "ended"}
    /\ peStall.at \in {"select", "drain", "ended"} /\ peDone \in Seq(Nat)
    /\ knownInventory \subseteq PeInv /\ peSent.inv \subseteq PeInv

\* A done channel has one place, and its message is signalled by whoever gives
\* it up last: outHandler, the two drains or QueueMessage itself.  It is
\* signalled once, so that none of them ever blocks on it.
SignalledOnce == \A ch \in 1..Len(peDone) : peDone[ch] <= 1

\* While the peer is connected at most one message is between queueHandler and
\* outHandler, and waiting says so: neither blocks on a channel of one place.
OneUnderWay ==
    LET under == Len(sendQueue) + (IF peOut.at \in {"stall", "write", "done"} THEN 1 ELSE 0)
                 + sendDoneQueue
    IN  /\ under <= 1
        /\ under = 1 => peQueue.waiting
        /\ under = 0 => \/ disconnect
                        \/ ~peQueue.waiting /\ peQueue.pending = <<>>

\* Messages leave in the order in which they were queued, however they wait in
\* outputQueue, pendingMsgs and sendQueue, and inventory is announced once.
SentInOrder ==
    (peOut.at = "write" /\ ~disconnect) =>
        /\ peOut.msg.no # 0 => peOut.msg.no > peSent.no
        /\ peOut.msg.inv \cap peSent.inv = {}

\* While the peer is connected, what inHandler waits for is on its way: the
\* channel is signalled or a message that will signal it is in the queues.  The
\* exception is a getdata whose last entry is of an unknown type.
AwaitedIsComing ==
    LET queued == Range(outputQueue) \cup Range(peQueue.pending) \cup Range(sendQueue)
                  \cup {peOut.msg}
        coming(ch) == peDone[ch] > 0 \/ \E m \in queued : m.done = ch
    IN  ~disconnect =>
          /\ peIn.at \in {"wait", "waitdata"} =>
                \/ coming(peIn.dc)
                \/ peIn.at = "waitdata" /\ peIn.list[Len(peIn.list)] = "unknown"
          /\ (peIn.at = "items" /\ peIn.i <= Len(peIn.list) /\ peIn.wait # 0) => coming(peIn.wait)

\* After Disconnect queueHandler gives up everything it holds and ends, and
\* whatever was queued for inHandler when it ends has been signalled; the
\* others end too, unless they hang on a goroutine that ended before them.
QueueEnds == (Started /\ disconnect) ~> (peQueue.at = "ended")

\* After Disconnect every goroutine of the peer ends: nothing is left waiting.
HandlersEnd == (Started /\ disconnect) ~>
    (peQueue.at = "ended" /\ peOut.at = "ended" /\ peIn.at = "ended" /\ peStall.at = "ended")

\* The four handlers of a peer hand messages over without losing, repeating or
\* reordering one, and whoever waits for a done channel is going to be told.
PeerInvariant ==
    /\ PeerTypeOK /\ SignalledOnce /\ OneUnderWay /\ SentInOrder /\ AwaitedIsComing
=============================================================================
