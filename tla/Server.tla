-------------------------------- MODULE Server --------------------------------
(***************************************************************************)
(* The peers of an OrcaNet node (server.go): peerHandler owns the tables   *)
(* of inbound, outbound and persistent peers and the bans.  Every peer has *)
(* goroutines of its own: one handles its messages and reports it with     *)
(* AddPeer when verack has come, another waits for the end of the          *)
(* connection and reports that.  The two reports travel over different     *)
(* channels, and select takes either first.                                *)
(***************************************************************************)
EXTENDS ConnMgr, FiniteSetsExt, SequencesExt

CONSTANTS
    NetGroup(_),        \* GroupKey of an address
    NetPermanent,       \* addresses of the persistent peers of the configuration
    NetInbound,         \* the hosts that connect to this node
    NetWhitelist,       \* whitelisted hosts, which are not banned
    MaxPeers,           \* cfg.MaxPeers
    MaxPeerId           \* bound of the model: peers ever created

ASSUME ServerAssumption ==
    MaxPeers \in Nat \ {0} /\ NetPermanent \subseteq NetAddr /\ IsFiniteSet(NetPermanent)

VARIABLES
    svPeers,            \* the peers by id: req (0 if inbound), addr, persistent, connected,
                        \* verack, done (peerDoneHandler has reported)
    inboundPeers, outboundPeers, persistentPeers, banned, outboundGroups,
    newPeers, donePeers, banPeers,
    svRun,              \* peerHandler: "start", "run" or "done"
    svShutdown,
    svAdHoc             \* history variable: temporary connections asked for by connectNode

svState == <<inboundPeers, outboundPeers, persistentPeers, banned, outboundGroups>>
svChans == <<newPeers, donePeers, banPeers>>
svVars == <<cmVars, svPeers, svState, svChans, svRun, svShutdown, svAdHoc>>

Groups == {NetGroup(a) : a \in NetAddr}
PeerIds == 1..Len(svPeers)
Listed == inboundPeers \cup outboundPeers \cup persistentPeers
PeerCount == Cardinality(inboundPeers) + Cardinality(outboundPeers) + Cardinality(persistentPeers)
IsInbound(p) == svPeers[p].req = 0
GroupOf(p) == NetGroup(svPeers[p].addr)

\* Disconnect of peer.Peer, for every peer of a set
Hangup(ps) == svPeers' = [q \in PeerIds |->
                            IF q \in ps THEN [svPeers[q] EXCEPT !.connected = FALSE] ELSE svPeers[q]]

\* newServer starts a goroutine for every persistent peer; they may register
\* before peerHandler calls connManager.Start.
ServerInit ==
    /\ connReqs = [i \in 1..Cardinality(NetPermanent) |->
                    [perm |-> TRUE, addr |-> SetToSeq(NetPermanent)[i], state |-> "none"]]
    /\ cmAt = [i \in 1..Cardinality(NetPermanent) |-> "register"]
    /\ cmPending = {} /\ cmConns = {} /\ cmNew = 0 /\ cmStop = FALSE
    /\ svPeers = <<>> /\ inboundPeers = {} /\ outboundPeers = {} /\ persistentPeers = {}
    /\ banned = {} /\ outboundGroups = [g \in Groups |-> 0]
    /\ newPeers = <<>> /\ donePeers = <<>> /\ banPeers = <<>>
    /\ svRun = "start" /\ svShutdown = FALSE /\ svAdHoc = 0

\* connManager.Start, from peerHandler.  connReqCount counts those persistent
\* requests that already have their id.
StartConnMgr ==
    /\ svRun = "start" /\ svRun' = "run"
    /\ \E n \in 0..Len(connReqs) : cmNew' = IF n < TargetOutbound THEN TargetOutbound - n ELSE 0
    /\ svAdHoc' = cmNew' - TargetOutbound
    /\ UNCHANGED <<cmTables, cmAt, cmStop, svPeers, svState, svChans, svShutdown>>

-----------------------------------------------------------------------------
(* Connections come up *)

svRest == <<svState, svRun, svShutdown, svAdHoc>>

\* newAddressFunc: an address of a group that has no outbound peer.  The query
\* is answered by peerHandler.
NewAddress(id, addr) ==
    /\ svRun = "run" /\ outboundGroups[NetGroup(addr)] = 0
    /\ TakeAddress(id, addr)
    /\ UNCHANGED <<svPeers, svChans, svRest>>

NewServerPeer(id, addr, persist) ==
    /\ Len(svPeers) < MaxPeerId
    /\ svPeers' = Append(svPeers, [req |-> id, addr |-> addr, persistent |-> persist,
                                   connected |-> TRUE, verack |-> FALSE, done |-> FALSE])

InboundPeerConnected(host) ==
    /\ ~cmStop /\ svRun = "run" /\ NewServerPeer(0, host, FALSE)
    /\ UNCHANGED <<cmVars, svChans, svRest>>

\* What peerHandler and outboundPeerConnected tell the connection manager: a
\* persistent peer is dialled again, another is replaced.
GiveUpConn(id, persist) ==
    IF cmStop THEN UNCHANGED cmVars
    ELSE /\ HandleDisconnected(id, persist)
         /\ cmNew' = IF persist THEN cmNew ELSE cmNew + 1
         /\ UNCHANGED cmStop

\* OnConnection; NewOutboundPeer may fail.
OutboundPeerConnected(id) ==
    /\ cmAt[id] = "established"
    /\ \/ /\ NewServerPeer(id, connReqs[id].addr, connReqs[id].perm) /\ CmGo(id, "none")
          /\ UNCHANGED <<cmTables, cmNew, cmStop>>
       \/ GiveUpConn(id, connReqs[id].perm) /\ ~cmStop /\ UNCHANGED svPeers
    /\ UNCHANGED <<svChans, svRest>>

\* OnVerAck: the peer counts as negotiated; AddPeer may have to wait.
OnVerAck(p) ==
    /\ svPeers[p].connected /\ ~svPeers[p].verack
    /\ svPeers' = [svPeers EXCEPT ![p].verack = TRUE]
    /\ Len(newPeers) < MaxPeers /\ newPeers' = Append(newPeers, p)
    /\ UNCHANGED <<cmVars, donePeers, banPeers, svRest>>

\* The connection ends by itself, or the peer's ban score is too high.
PeerDisconnects(p) ==
    /\ svPeers[p].connected /\ Hangup({p})
    /\ \/ UNCHANGED banPeers
       \/ /\ svPeers[p].verack /\ svPeers[p].addr \notin NetWhitelist
          /\ Len(banPeers) < MaxPeers /\ banPeers' = Append(banPeers, p)
    /\ UNCHANGED <<cmVars, newPeers, donePeers, svRest>>

PeerDoneHandler(p) ==
    /\ ~svPeers[p].connected /\ ~svPeers[p].done
    /\ svPeers' = [svPeers EXCEPT ![p].done = TRUE]
    /\ Len(donePeers) < MaxPeers /\ donePeers' = Append(donePeers, p)
    /\ UNCHANGED <<cmVars, newPeers, banPeers, svRest>>

-----------------------------------------------------------------------------
(* The cases of peerHandler *)

\* Mutation: whether the peer is still connected does not matter.
AddableAny(p) == PeerCount < MaxPeers

\* The checks of handleAddPeerMsg that do not concern bans
Addable(p) == svPeers[p].connected /\ ~svShutdown /\ PeerCount < MaxPeers

HandleAddPeerMsg ==
    /\ svRun = "run" /\ newPeers # <<>> /\ newPeers' = Tail(newPeers)
    /\ LET p == Head(newPeers)
           host == svPeers[p].addr
           Refused == Hangup({p}) /\ UNCHANGED <<inboundPeers, outboundPeers, persistentPeers, outboundGroups>>
       IN  \/ host \in banned /\ Refused /\ UNCHANGED banned
           \/ /\ ~Addable(p) /\ Refused
              /\ banned' \in {banned, banned \ {host}}      \* the ban may have ended
           \/ /\ Addable(p) /\ UNCHANGED svPeers
              /\ banned' = banned \ {host}
              /\ IF IsInbound(p)
                 THEN /\ inboundPeers' = inboundPeers \cup {p}
                      /\ UNCHANGED <<outboundPeers, persistentPeers, outboundGroups>>
                 ELSE /\ outboundGroups' = [outboundGroups EXCEPT ![GroupOf(p)] = @ + 1]
                      /\ IF svPeers[p].persistent
                         THEN persistentPeers' = persistentPeers \cup {p} /\ UNCHANGED outboundPeers
                         ELSE outboundPeers' = outboundPeers \cup {p} /\ UNCHANGED persistentPeers
                      /\ UNCHANGED inboundPeers
    /\ UNCHANGED <<cmVars, donePeers, banPeers, svRun, svShutdown, svAdHoc>>

\* Mutation: the connection manager hears only of peers in the list.
TellConnMgrListed(p) ==
    IF IsInbound(p) \/ p \notin Listed THEN UNCHANGED cmVars
    ELSE GiveUpConn(svPeers[p].req, svPeers[p].persistent)

TellConnMgr(p) ==
    IF IsInbound(p) THEN UNCHANGED cmVars ELSE GiveUpConn(svPeers[p].req, svPeers[p].persistent)

\* Mutation: the group of a peer that disconnectNode has taken out is left again.
LeaveListTwice(p) ==
    /\ inboundPeers' = inboundPeers \ {p} /\ outboundPeers' = outboundPeers \ {p}
    /\ persistentPeers' = persistentPeers \ {p}
    /\ outboundGroups' = IF IsInbound(p) \/ ~svPeers[p].verack THEN outboundGroups
                         ELSE [outboundGroups EXCEPT ![GroupOf(p)] = @ - 1]

\* A peer leaves its list and its group.
LeaveList(p) ==
    /\ inboundPeers' = inboundPeers \ {p} /\ outboundPeers' = outboundPeers \ {p}
    /\ persistentPeers' = persistentPeers \ {p}
    /\ outboundGroups' = IF IsInbound(p) \/ p \notin Listed THEN outboundGroups
                         ELSE [outboundGroups EXCEPT ![GroupOf(p)] = @ - 1]

HandleDonePeerMsg ==
    /\ svRun = "run" /\ donePeers # <<>> /\ donePeers' = Tail(donePeers)
    /\ TellConnMgr(Head(donePeers)) /\ LeaveList(Head(donePeers))
    /\ UNCHANGED <<svPeers, banned, newPeers, banPeers, svRun, svShutdown, svAdHoc>>

HandleBanPeerMsg ==
    /\ svRun = "run" /\ banPeers # <<>> /\ banPeers' = Tail(banPeers)
    /\ banned' = banned \cup {svPeers[Head(banPeers)].addr}
    /\ UNCHANGED <<cmVars, svPeers, inboundPeers, outboundPeers, persistentPeers, outboundGroups,
                   newPeers, donePeers, svRun, svShutdown, svAdHoc>>

\* connectNodeMsg of handleQuery
ConnectNode(addr, perm) ==
    /\ svRun = "run" /\ ~cmStop /\ PeerCount < MaxPeers
    /\ \A p \in persistentPeers : svPeers[p].addr # addr
    /\ NewReq(perm, addr, "register") /\ svAdHoc' = IF perm THEN svAdHoc ELSE svAdHoc + 1
    /\ UNCHANGED <<cmPending, cmConns, cmNew, cmStop, svPeers, svState, svChans, svRun, svShutdown>>

\* disconnectPeer of one table, for disconnectNodeMsg and removeNodeMsg
DisconnectNode(p) ==
    /\ svRun = "run" /\ p \in Listed
    /\ Hangup({p}) /\ LeaveList(p)
    /\ UNCHANGED <<cmVars, banned, svChans, svRun, svShutdown, svAdHoc>>

\* Stop
StopServer ==
    /\ svRun = "run" /\ ~svShutdown /\ svShutdown' = TRUE
    /\ UNCHANGED <<cmVars, svPeers, svState, svChans, svRun, svAdHoc>>

\* The end of peerHandler
QuitPeerHandler ==
    /\ svRun = "run" /\ svShutdown /\ svRun' = "done"
    /\ Hangup(Listed) /\ StopConnMgr
    /\ newPeers' = <<>> /\ donePeers' = <<>> /\ UNCHANGED banPeers
    /\ UNCHANGED <<svState, svShutdown, svAdHoc>>

PeerHandler ==
    \/ HandleAddPeerMsg \/ HandleDonePeerMsg \/ HandleBanPeerMsg
    \/ \E p \in PeerIds : DisconnectNode(p)
    \/ \E a \in NetAddr, perm \in BOOLEAN : ConnectNode(a, perm)

\* The process ends with peerHandler.
ServerNext ==
    /\ svRun # "done"
    /\ \/ StartConnMgr \/ PeerHandler \/ StopServer \/ QuitPeerHandler
       \/ svRun = "run" /\ ConnMgrNext /\ UNCHANGED <<svPeers, svChans, svRest>>
       \/ \E id \in CmIds : OutboundPeerConnected(id) \/ \E a \in NetAddr : NewAddress(id, a)
       \/ \E h \in NetInbound : InboundPeerConnected(h)
       \/ \E p \in PeerIds : OnVerAck(p) \/ PeerDisconnects(p) \/ PeerDoneHandler(p)

ServerSpec == ServerInit /\ [][ServerNext]_svVars

-----------------------------------------------------------------------------
(* Properties *)

\* The types of the variables of the server and of the connection manager.
ServerTypeOK ==
    /\ cmPending \subseteq CmIds /\ cmConns \subseteq CmIds /\ cmPending \cap cmConns = {}
    /\ \A id \in CmIds : connReqs[id].state \in ConnStates /\ cmAt[id] \in CmPoints
    /\ Listed \subseteq PeerIds /\ PeerCount <= MaxPeers
    /\ outboundGroups \in [Groups -> Nat] /\ cmNew \in Nat

\* outboundGroups counts the outbound peers of every group, whichever of the
\* reports, of disconnectNode and of the bans comes first: newAddressFunc
\* relies on the count being zero for a group without a peer.
GroupsMatch ==
    \A g \in Groups :
        outboundGroups[g] = Cardinality({p \in outboundPeers \cup persistentPeers : GroupOf(p) = g})

\* No peer stays in a table for good: one whose connection has ended still has
\* its report of that to come.
NoDeadPeers ==
    svRun = "run" => \A p \in Listed :
        ~svPeers[p].connected /\ svPeers[p].done => \E i \in DOMAIN donePeers : donePeers[i] = p

\* A connection in the connection manager's table belongs to a peer that lives
\* or is about to be reported as gone, so that its slot is filled again.
ConnsHavePeer ==
    svRun = "run" => \A id \in cmConns :
        \/ cmAt[id] = "established"
        \/ \E p \in PeerIds : /\ svPeers[p].req = id
                              /\ svPeers[p].done => \E i \in DOMAIN donePeers : donePeers[i] = p

\* The number of outgoing connections that are up, being made or about to be
\* made does not drift: TargetOutbound, less the persistent peers that were
\* there at the start, plus the temporary ones connectNode has added.
OutboundKept ==
    svRun = "run" =>
        cmNew + Cardinality({id \in CmIds : ~connReqs[id].perm
                               /\ (id \in cmConns \/ cmAt[id] # "none")}) = TargetOutbound + svAdHoc

\* The tables of the server and the requests of the connection manager agree:
\* groups count the peers in the tables, no peer that has ended stays, every
\* established connection has a peer or loses it, and the target is kept.
ServerInvariant ==
    /\ ServerTypeOK /\ GroupsMatch /\ NoDeadPeers /\ ConnsHavePeer /\ OutboundKept
==============================================================================
