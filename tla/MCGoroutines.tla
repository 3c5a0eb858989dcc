---------------------------- MODULE MCGoroutines ----------------------------
(* The components whose properties need the fairness of goroutines, each in  *)
(* behaviours of its own: the job manager and the peer table of the          *)
(* application, the message handlers of a peer and the RPC client of the coin *)
(* node.  part says which component moves, and fairness is asked of it alone. *)
EXTENDS JobManager, MCPeerTable, MCPeer, RpcClient

VARIABLE part  \* the component of this behaviour

MCPrices == {1}

MCInit ==
    /\ part \in {"jobs", "peers", "peer", "rpc"}
    /\ Init /\ PeerTableInit /\ PeerInit /\ RpcClientInit
    /\ part # "rpc" => rcMode = "post"

MCNext ==
    /\ UNCHANGED part
    /\ \/ part = "jobs" /\ Next /\ UNCHANGED <<peerTableVars, peVars, rcVars>>
       \/ part = "peers" /\ PeerTableNext /\ UNCHANGED <<vars, peVars, rcVars>>
       \/ part = "peer" /\ PeerNext /\ UNCHANGED <<vars, peerTableVars, rcVars>>
       \/ part = "rpc" /\ RpcClientNext /\ UNCHANGED <<vars, peerTableVars, peVars>>

MCSpec ==
    /\ MCInit /\ [][MCNext]_<<part, vars, peerTableVars, peVars, rcVars>>
    \* Fairness of JobManager, PeerTable, Peer and RpcClient
    /\ WF_vars(part = "jobs" /\ Saver)
    /\ \A c \in Calls : /\ WF_peerTableVars(part = "peers" /\ (Lock(c) \/ NotFound(c)))
                        /\ WF_peerTableVars(part = "peers" /\ (ReturnLocked(c) \/ Store(c)))
    /\ WF_peVars(part = "peer" /\ QueueStep)
    /\ WF_peVars(part = "peer" /\ OutStep)
    /\ WF_peVars(part = "peer" /\ (StallHears \/ StallQuits))
    /\ WF_peVars(part = "peer" /\ InStep)
    /\ WF_peVars(part = "peer" /\ disconnect /\ (OutWrites \/ OutWriteFails))
    /\ WF_peVars(part = "peer" /\ disconnect /\ InReadFails)
    /\ \A m \in Req : WF_rcVars(part = "rpc" /\ (CallSend(m) \/ PostChannel(m)))
    /\ \A g \in Conn : /\ WF_rcVars(part = "rpc" /\ InNext(g))
                       /\ WF_rcVars(part = "rpc" /\ OutNext(g))
                       /\ WF_rcVars(part = "rpc" /\ ResendNext(g))
    /\ WF_rcVars(part = "rpc" /\ RecNext)
    /\ WF_rcVars(part = "rpc" /\ PostNext)
=============================================================================
