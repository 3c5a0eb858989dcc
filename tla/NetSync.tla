------------------------------- MODULE NetSync -------------------------------
(***************************************************************************)
(* The sync manager of an OrcaNet node (netsync/manager.go): one goroutine *)
(* that handles the messages of all peers in the order of msgChan, chooses *)
(* a peer to fetch the chain from, up to the last checkpoint by headers    *)
(* first, keeps track of what it has asked whom for, and gives up a peer   *)
(* that makes no progress.                                                 *)
(*                                                                         *)
(* The chain that honest peers have is 1..Tip; a block and its height are  *)
(* the same number, and Bogus is the hash of a header that nothing         *)
(* follows.  A peer in Faulty may answer wrongly, late or never; the       *)
(* others answer every request, in order, in less than maxStallDuration.   *)
(* A disconnected peer's messages that are already in msgChan are still    *)
(* handled.                                                                *)
(***************************************************************************)
EXTENDS Integers, Sequences, SequencesExt, FiniteSets, FiniteSetsExt

CONSTANTS
    Peer, Faulty,       \* the peers, and those that may misbehave
    Tip,                \* the height of the chain
    Checkpoints,        \* heights of the checkpoints
    Txn,                \* transactions that peers announce
    MaxRequested,       \* maxRequestedBlocks and maxRequestedTxns
    MaxInv, MaxHeaders, \* the blocks in the answer to getblocks, the headers to getheaders
    MinInFlight,        \* minInFlightBlocks
    MaxQueue            \* bound of the model: messages in msgChan

NoPeer == "nobody"

ASSUME NetSyncAssumption ==
    /\ NoPeer \notin Peer /\ Faulty \subseteq Peer /\ Tip \in Nat \ {0} /\ Checkpoints \subseteq 1..Tip
    /\ MaxRequested \in Nat \ {0} /\ MaxInv \in Nat \ {0} /\ MaxHeaders \in Nat \ {0} /\ MinInFlight \in Nat

VARIABLES
    peerStates,     \* for every known peer: syncCandidate and what was requested of it
    lastBlock,      \* LastBlock of every peer
    syncPeer,
    requested,      \* requestedBlocks and requestedTxns
    rejectedTxns,
    headersFirst,   \* headersFirstMode
    headerList, startHeader,    \* the headers; the index of the next to request, 0 for none,
                                \* or -h for the header h that has left the list
    nextCheckpoint, \* a height, or 0
    best, blockOrphans, txPool, \* the chain and the memory pool
    msgChan,
    asked,          \* what every peer was sent and has not answered
    prevAsk,        \* prevGetBlocks and prevGetHdrs of every peer
    conn,           \* the connection of every peer: "new", "up", "closing" or "down"
    announced       \* history variable: what every peer has announced

nsWorld == <<best, blockOrphans, txPool>>
nsHeaders == <<headersFirst, headerList, startHeader, nextCheckpoint>>
nsVars == <<peerStates, lastBlock, syncPeer, requested, rejectedTxns, nsHeaders, nsWorld, msgChan,
            asked, prevAsk, conn, announced>>

Bogus == 0
NoAsk == [blocks |-> <<>>, headers |-> <<>>]

\* Mutation: the next height instead of the next checkpoint
FindNextHeaderCheckpointHeight(h) == h + 1

\* findNextHeaderCheckpoint
FindNextHeaderCheckpoint(h) ==
    LET later == {c \in Checkpoints : c > h} IN IF later = {} THEN 0 ELSE Min(later)

\* chain.IsCurrent: the tip is recent
ChainCurrent == best = Tip
Current == ChainCurrent /\ (syncPeer = NoPeer \/ best >= lastBlock[syncPeer])

-----------------------------------------------------------------------------
(* What a handler does to the requests and to the messages of a peer.      *)
(* A handler works on s, the variables it may change, and returns them.    *)

Send(s, p, m) == [s EXCEPT !.asked[p] = Append(@, m)]

\* PushGetBlocksMsg and PushGetHeadersMsg do not repeat the last request.
PushGetBlocks(s, p, from, stop) ==
    IF s.prev[p].blocks = <<from, stop>> THEN s
    ELSE Send([s EXCEPT !.prev[p].blocks = <<from, stop>>], p, [ask |-> "blocks", from |-> from])

PushGetHeaders(s, p, from, stop) ==
    IF s.prev[p].headers = <<from, stop>> THEN s
    ELSE Send([s EXCEPT !.prev[p].headers = <<from, stop>>], p,
              [ask |-> "headers", from |-> from, stop |-> stop])

Disconnect(s, p) == [s EXCEPT !.conn[p] = IF @ = "up" THEN "closing" ELSE @]

ResetHeaderState(s, h) ==
    [s EXCEPT !.first = FALSE, !.start = 0, !.list = IF s.check # 0 THEN <<h>> ELSE <<>>]

Kinds == {"block", "tx"}
NoRequests == [k \in Kinds |-> {}]

\* Mutation: what was requested of the peer is forgotten only for transactions.
ClearRequestedStateTxns(s, old) == [s EXCEPT !.req["tx"] = @ \ old["tx"]]

ClearRequestedState(s, old) == [s EXCEPT !.req = [k \in Kinds |-> s.req[k] \ old[k]]]

\* The peers startSync chooses from: those ahead of the chain, else those level
\* with it
SyncPeers(s) ==
    LET cand == {p \in DOMAIN s.states : s.states[p].cand}
        higher == {p \in cand : lastBlock[p] > best}
        equal == {p \in cand : lastBlock[p] = best}
    IN  IF higher # {} THEN higher ELSE equal

\* startSync with the chosen peer.  Candidates behind the chain lose their flag.
StartSyncWith(s, p) ==
    LET t == [s EXCEPT !.states = [q \in DOMAIN s.states |->
                    [s.states[q] EXCEPT !.cand = @ /\ lastBlock[q] >= best]]]
    IN  IF p = NoPeer THEN t
        ELSE LET u == [t EXCEPT !.req["block"] = {}, !.sync = p]
             IN  IF s.check # 0 /\ best < s.check
                 THEN [PushGetHeaders(u, p, best, s.check) EXCEPT !.first = TRUE]
                 ELSE PushGetBlocks(u, p, best, 0)

StartSync(s) ==
    IF s.sync # NoPeer THEN {s}
    ELSE IF SyncPeers(s) = {} THEN {StartSyncWith(s, NoPeer)}
    ELSE {StartSyncWith(s, p) : p \in SyncPeers(s)}

\* Mutation: the sync does not start again with another peer.
UpdateSyncPeerIdle(s, dc) ==
    {[IF dc THEN Disconnect(s, s.sync) ELSE s EXCEPT !.sync = NoPeer, !.first = FALSE]}

UpdateSyncPeer(s, dc) ==
    LET t == IF dc THEN Disconnect(s, s.sync) ELSE s
        u == IF t.first THEN ResetHeaderState(t, best) ELSE t
    IN  StartSync([u EXCEPT !.sync = NoPeer])

\* limitAdd: a random element makes room
LimitAdd(S, x) ==
    IF Cardinality(S) + 1 > MaxRequested THEN {(S \ {y}) \cup {x} : y \in S} ELSE {S \cup {x}}

\* The requests of one kind, of the node and of a peer, become m and n.
SetRequests(s, p, kind, m, n) == [s EXCEPT !.req[kind] = m, !.states[p].req[kind] = n]
Forget(s, p, kind, x) == SetRequests(s, p, kind, s.req[kind] \ {x}, s.states[p].req[kind] \ {x})

\* One entry of the request queue of handleInvMsg
Request(s, p, kind, x) ==
    IF x \in s.req[kind] THEN {s}
    ELSE {Send(SetRequests(s, p, kind, m, n), p, [ask |-> "data", kind |-> kind, item |-> x]) :
            m \in LimitAdd(s.req[kind], x), n \in LimitAdd(s.states[p].req[kind], x)}

Have == (0..best) \cup blockOrphans
HaveBlock(b) == b \in Have
HaveInventory(kind, x) == IF kind = "block" THEN HaveBlock(x) ELSE x \in txPool

\* An element of headerList that is removed has no successor.
RemoveFront(s) ==
    [s EXCEPT !.list = Tail(@), !.start = IF @ = 1 THEN -s.list[1] ELSE IF @ > 1 THEN @ - 1 ELSE @]

\* fetchHeaderBlocks: everything from startHeader on that the chain does not have
FetchHeaderBlocks(s, have) ==
    LET next == IF s.start < 0 THEN <<-s.start>> ELSE SubSeq(s.list, s.start, Len(s.list))
        want == {i \in DOMAIN next : next[i] \notin have}
        blocks == {next[i] : i \in want}
        \* what the peer is asked up to the header i
        asks[i \in 0..Len(next)] ==
            IF i = 0 THEN s.asked[s.sync]
            ELSE IF i \notin want THEN asks[i - 1]
            ELSE Append(asks[i - 1], [ask |-> "data", kind |-> "block", item |-> next[i]])
    IN  IF s.start = 0 THEN s
        ELSE [s EXCEPT !.req["block"] = @ \cup blocks, !.states[s.sync].req["block"] = @ \cup blocks,
                       !.asked[s.sync] = asks[Len(next)], !.start = 0]

Now == [states |-> peerStates, sync |-> syncPeer, req |-> requested, first |-> headersFirst,
        list |-> headerList, start |-> startHeader, check |-> nextCheckpoint,
        asked |-> asked, prev |-> prevAsk, conn |-> conn]

Becomes(s) ==
    /\ peerStates' = s.states /\ syncPeer' = s.sync /\ requested' = s.req
    /\ headersFirst' = s.first /\ headerList' = s.list /\ startHeader' = s.start
    /\ nextCheckpoint' = s.check /\ asked' = s.asked /\ prevAsk' = s.prev /\ conn' = s.conn
    /\ UNCHANGED announced

-----------------------------------------------------------------------------
NetSyncInit ==
    /\ peerStates = [p \in {} |-> {}] /\ lastBlock = [p \in Peer |-> Tip]
    /\ syncPeer = NoPeer /\ requested = NoRequests /\ rejectedTxns = {}
    /\ headersFirst = FALSE /\ startHeader = 0
    /\ nextCheckpoint = FindNextHeaderCheckpoint(0)
    /\ headerList = IF nextCheckpoint # 0 THEN <<0>> ELSE <<>>
    /\ best = 0 /\ blockOrphans = {} /\ txPool = {}
    /\ msgChan = <<>> /\ asked = [p \in Peer |-> <<>>] /\ prevAsk = [p \in Peer |-> NoAsk]
    /\ conn = [p \in Peer |-> "new"] /\ announced = {}

(* Handlers of the messages in msgChan *)

Handle(kind) == msgChan # <<>> /\ Head(msgChan).msg = kind /\ msgChan' = Tail(msgChan)
From == Head(msgChan).peer
Known == From \in DOMAIN peerStates
Nothing == Becomes(Now) /\ UNCHANGED <<lastBlock, rejectedTxns, nsWorld>>

HandleNewPeerMsg ==
    /\ Handle("new")
    /\ LET s == [Now EXCEPT !.states = [q \in DOMAIN peerStates \cup {From} |->
                    IF q = From THEN [cand |-> TRUE, req |-> NoRequests] ELSE peerStates[q]]]
       IN  \E t \in StartSync(s) : Becomes(t)
    /\ UNCHANGED <<lastBlock, rejectedTxns, nsWorld>>

\* Mutation: the sync peer stays when it has gone.
HandleDonePeerMsgStay ==
    /\ Handle("done") /\ Known
    /\ LET s == ClearRequestedState([Now EXCEPT !.states = [q \in DOMAIN peerStates \ {From} |->
                    peerStates[q]]], peerStates[From].req)
       IN  Becomes(s)
    /\ UNCHANGED <<lastBlock, rejectedTxns, nsWorld>>

HandleDonePeerMsg ==
    /\ Handle("done")
    /\ IF ~Known THEN Nothing
       ELSE /\ LET s == ClearRequestedState([Now EXCEPT !.states = [q \in DOMAIN peerStates \ {From} |->
                            peerStates[q]]], peerStates[From].req)
               IN  \E t \in IF From = syncPeer THEN UpdateSyncPeer(s, FALSE) ELSE {s} : Becomes(t)
            /\ UNCHANGED <<lastBlock, rejectedTxns, nsWorld>>

\* handleTxMsg; a transaction that is refused is not asked for again until the
\* next block.
HandleTxMsg ==
    /\ Handle("tx")
    /\ LET t == Head(msgChan).item
       IN  IF ~Known \/ t \in rejectedTxns THEN Nothing
           ELSE /\ Becomes(Forget(Now, From, "tx", t))
                /\ IF Head(msgChan).good
                   THEN txPool' = txPool \cup {t} /\ UNCHANGED rejectedTxns
                   ELSE rejectedTxns' = rejectedTxns \cup {t} /\ UNCHANGED txPool
                /\ UNCHANGED <<lastBlock, best, blockOrphans>>

\* ProcessBlock of the chain: the block and the orphans that follow it
Connected(b) ==
    LET reach == {h \in b..Tip : \A x \in (b + 1)..h : x \in blockOrphans} IN Max(reach)

\* GetOrphanRoot: the first of the orphans that b follows
OrphanRoot(b, orphans) == Min({r \in 1..b : r..b \subseteq orphans})

\* What handleBlockMsg does after a block that was accepted
AfterBlock(s, p, b, isCheckpoint, have) ==
    IF ~s.first THEN s
    ELSE IF ~isCheckpoint
         THEN IF s.start # 0 /\ Cardinality(s.states[p].req["block"]) < MinInFlight
              THEN FetchHeaderBlocks(s, have) ELSE s
    ELSE LET next == FindNextHeaderCheckpoint(s.check)
             t == [s EXCEPT !.check = next]
         IN  IF next # 0 THEN PushGetHeaders(t, p, b, next)
             ELSE PushGetBlocks([t EXCEPT !.first = FALSE, !.list = <<>>], p, b, 0)

HandleBlockMsg ==
    LET b == Head(msgChan).item
        p == From
        front == headersFirst /\ headerList # <<>> /\ headerList[1] = b
        checkpoint == front /\ b = nextCheckpoint
        t == Forget(Now, p, "block", b)
        s == IF front /\ ~checkpoint THEN RemoveFront(t) ELSE t
    IN  /\ Handle("block")
        /\ CASE ~Known -> Nothing
             [] Known /\ b \notin peerStates[p].req["block"] ->
                    Becomes(Disconnect(Now, p)) /\ UNCHANGED <<lastBlock, rejectedTxns, nsWorld>>
             [] Known /\ b \in peerStates[p].req["block"] /\ (~Head(msgChan).good \/ HaveBlock(b)) ->
                    Becomes(s) /\ UNCHANGED <<lastBlock, rejectedTxns, nsWorld>>
             [] Known /\ b \in peerStates[p].req["block"] /\ Head(msgChan).good /\ ~HaveBlock(b) ->
                    IF b > best + 1
                    THEN /\ blockOrphans' = blockOrphans \cup {b}
                         /\ lastBlock' = [lastBlock EXCEPT ![p] = b]
                         /\ UNCHANGED <<best, txPool, rejectedTxns>>
                         /\ LET root == OrphanRoot(b, blockOrphans')
                            IN  Becomes(AfterBlock(PushGetBlocks(s, p, best, root), p, b, checkpoint, Have'))
                    ELSE /\ best' = Connected(b)
                         /\ blockOrphans' = {o \in blockOrphans : o > best'}
                         /\ lastBlock' = [lastBlock EXCEPT ![p] = best']
                         /\ rejectedTxns' = {}
                         /\ UNCHANGED txPool
                         /\ Becomes(AfterBlock(s, p, b, checkpoint, Have'))

\* handleHeadersMsg: up to the first header that does not follow, or that
\* contradicts the checkpoint
HandleHeadersMsg ==
    LET hs == Head(msgChan).items
        p == From
        \* the length of the longest prefix of hs that extends the list
        Follows(i) == \A j \in 1..i : hs[j] # Bogus /\ hs[j] = (IF j = 1 THEN Last(headerList) ELSE hs[j - 1]) + 1
        n == Max({i \in 0..Len(hs) : Follows(i)})
        k == IF nextCheckpoint \in {hs[j] : j \in 1..n}
             THEN CHOOSE j \in 1..n : hs[j] = nextCheckpoint ELSE n
        s == [Now EXCEPT !.list = @ \o SubSeq(hs, 1, k),
                         !.start = IF @ = 0 /\ k > 0 THEN Len(headerList) + 1 ELSE @]
        reached == k > 0 /\ hs[k] = nextCheckpoint
    IN  /\ Handle("headers")
        /\ CASE ~Known -> Becomes(Now)
             [] Known /\ (~headersFirst \/ (hs # <<>> /\ headerList = <<>>)) -> Becomes(Disconnect(Now, p))
             [] Known /\ headersFirst /\ hs = <<>> -> Becomes(Now)
             [] OTHER ->
                CASE reached -> Becomes(FetchHeaderBlocks(RemoveFront(s), Have))
                  [] ~reached /\ k < Len(hs) -> Becomes(Disconnect(s, p))
                  [] OTHER -> Becomes(PushGetHeaders(s, p, hs[k], nextCheckpoint))
        /\ UNCHANGED <<lastBlock, rejectedTxns, nsWorld>>

HandleNotFoundMsg ==
    /\ Handle("notfound")
    /\ LET k == Head(msgChan).kind
           x == Head(msgChan).item
       IN  IF Known /\ x \in peerStates[From].req[k]
           THEN Becomes(Forget(Now, From, k, x))
           ELSE Becomes(Now)
    /\ UNCHANGED <<lastBlock, rejectedTxns, nsWorld>>

\* One entry after the other of the request queue: what the node does not have
\* and has not refused
RequestNext(states, p, kind, x) ==
    IF HaveInventory(kind, x) \/ (kind = "tx" /\ x \in rejectedTxns) THEN states
    ELSE UNION {Request(s, p, kind, x) : s \in states}

RequestAll(s, p, kind, xs) ==
    LET r[i \in 0..Len(xs)] == IF i = 0 THEN {s} ELSE RequestNext(r[i - 1], p, kind, xs[i])
    IN  r[Len(xs)]

\* handleInvMsg.  An inv here holds blocks or transactions.
HandleInvMsg ==
    LET xs == Head(msgChan).items
        k == Head(msgChan).kind
        p == From
        last == xs[Len(xs)]
        more == IF k = "tx" \/ ~HaveBlock(last) THEN Now
                ELSE IF last \in blockOrphans THEN PushGetBlocks(Now, p, best, OrphanRoot(last, blockOrphans))
                ELSE PushGetBlocks(Now, p, last, 0)
    IN  /\ Handle("inv")
        /\ IF ~Known \/ (p # syncPeer /\ ~Current) THEN Nothing
           ELSE /\ lastBlock' = IF k = "block" /\ Current /\ last <= best
                                THEN [lastBlock EXCEPT ![p] = last] ELSE lastBlock
                /\ IF headersFirst THEN Becomes(Now)
                   ELSE \E s \in RequestAll(more, p, k, xs) : Becomes(s)
                /\ UNCHANGED <<rejectedTxns, nsWorld>>

\* An honest peer has answered everything: no progress for three minutes.
Silent(p) ==
    p \in Faulty \/ (asked[p] = <<>> /\ \A i \in DOMAIN msgChan :
                                          msgChan[i].peer = p => msgChan[i].msg = "inv" /\ msgChan[i].new)

HandleStallSample ==
    /\ syncPeer # NoPeer /\ syncPeer \in DOMAIN peerStates /\ Silent(syncPeer) /\ ~Current
    /\ \E s \in UpdateSyncPeer(ClearRequestedState(Now, peerStates[syncPeer].req),
                               lastBlock[syncPeer] > best) : Becomes(s)
    /\ UNCHANGED <<lastBlock, rejectedTxns, nsWorld, msgChan>>

BlockHandler ==
    \/ HandleNewPeerMsg \/ HandleDonePeerMsg \/ HandleTxMsg \/ HandleBlockMsg
    \/ HandleHeadersMsg \/ HandleNotFoundMsg \/ HandleInvMsg

-----------------------------------------------------------------------------
(* The peers *)

Queue(m) == Len(msgChan) < MaxQueue /\ msgChan' = Append(msgChan, m)
nsManager == <<peerStates, syncPeer, requested, rejectedTxns, nsHeaders, nsWorld>>

\* NewPeer; an honest peer connects again after it was disconnected.
NewPeer(p) ==
    /\ conn[p] = "new" \/ (conn[p] = "down" /\ p \notin Faulty)
    /\ Queue([msg |-> "new", peer |-> p])
    /\ conn' = [conn EXCEPT ![p] = "up"] /\ lastBlock' = [lastBlock EXCEPT ![p] = Tip]
    /\ prevAsk' = [prevAsk EXCEPT ![p] = NoAsk] /\ asked' = [asked EXCEPT ![p] = <<>>]
    /\ UNCHANGED <<nsManager, announced>>

\* DonePeer, after a disconnection, or when a faulty peer hangs up
DonePeer(p) ==
    /\ conn[p] = "closing" \/ (conn[p] = "up" /\ p \in Faulty)
    /\ Queue([msg |-> "done", peer |-> p])
    /\ conn' = [conn EXCEPT ![p] = "down"] /\ asked' = [asked EXCEPT ![p] = <<>>]
    /\ UNCHANGED <<nsManager, lastBlock, prevAsk, announced>>

\* The first n heights after h, up to stop
HeightsAfter(h, stop, n) == [i \in 1..Min({n, stop - h}) |-> h + i]

Answer(a, p) ==
    CASE a.ask = "headers" -> {[msg |-> "headers", peer |-> p, items |-> HeightsAfter(a.from, a.stop, MaxHeaders)]}
      [] a.ask = "blocks" -> IF a.from >= Tip THEN {}
                             ELSE {[msg |-> "inv", new |-> FALSE, kind |-> "block", peer |-> p,
                                    items |-> HeightsAfter(a.from, Tip, MaxInv)]}
      [] a.ask = "data" -> {[msg |-> a.kind, peer |-> p, item |-> a.item, good |-> TRUE]}

WrongAnswer(a, p) ==
    CASE a.ask = "headers" -> {[msg |-> "headers", peer |-> p, items |-> <<Bogus>>]}
      [] a.ask = "blocks" -> {}
      [] a.ask = "data" ->
            {[msg |-> "notfound", kind |-> a.kind, peer |-> p, item |-> a.item],
             [msg |-> a.kind, peer |-> p, item |-> a.item, good |-> FALSE]}

PeerAnswers(p) ==
    /\ conn[p] = "up" /\ asked[p] # <<>>
    /\ LET a == Head(asked[p])
           as == Answer(a, p) \cup (IF p \in Faulty THEN WrongAnswer(a, p) ELSE {})
       IN  IF as = {} THEN UNCHANGED msgChan ELSE \E m \in as : Queue(m)
    /\ asked' = [asked EXCEPT ![p] = Tail(@)]
    /\ UNCHANGED <<nsManager, lastBlock, prevAsk, conn, announced>>

\* A peer announces its newest block or, as a bound of the model only once the
\* node has the chain, a transaction.
Announce(p, k, x) ==
    /\ conn[p] = "up" /\ <<p, x>> \notin announced
    /\ k = "tx" => ChainCurrent
    /\ Queue([msg |-> "inv", new |-> TRUE, kind |-> k, peer |-> p, items |-> <<x>>])
    /\ announced' = announced \cup {<<p, x>>}
    /\ UNCHANGED <<nsManager, lastBlock, asked, prevAsk, conn>>

NetSyncNext ==
    \/ BlockHandler \/ HandleStallSample
    \/ \E p \in Peer : \/ NewPeer(p) \/ DonePeer(p) \/ PeerAnswers(p)
                       \/ Announce(p, "block", Tip) \/ \E t \in Txn : Announce(p, "tx", t)

\* The goroutines of the node run, the ticker ticks, and honest peers connect
\* and answer, as long as the node is on.
NetSyncFairness ==
    /\ WF_nsVars(BlockHandler) /\ WF_nsVars(HandleStallSample)
    /\ \A p \in Peer : WF_nsVars(DonePeer(p) /\ conn[p] = "closing")
    /\ \A p \in Peer \ Faulty : WF_nsVars(NewPeer(p)) /\ WF_nsVars(PeerAnswers(p))

NetSyncSpec == NetSyncInit /\ [][NetSyncNext]_nsVars /\ NetSyncFairness

-----------------------------------------------------------------------------
(* Properties *)

\* The types of the sync manager's variables.
NetSyncTypeOK ==
    /\ DOMAIN peerStates \subseteq Peer /\ syncPeer \in Peer \cup {NoPeer}
    /\ \A p \in DOMAIN peerStates : peerStates[p].cand \in BOOLEAN
    /\ requested["block"] \subseteq 1..Tip /\ requested["tx"] \subseteq Txn
    /\ startHeader \in (-Tip)..Len(headerList) /\ nextCheckpoint \in Checkpoints \cup {0}
    /\ best \in 0..Tip /\ blockOrphans \subseteq 1..Tip
    /\ conn \in [Peer -> {"new", "up", "closing", "down"}]

\* The handlers may use what they use without looking: the state of the sync
\* peer is there, and headers are fetched only with a sync peer and a checkpoint
\* to reach.
SyncPeerKnown ==
    /\ syncPeer # NoPeer => syncPeer \in DOMAIN peerStates
    /\ headersFirst => syncPeer # NoPeer /\ nextCheckpoint # 0

\* What counts as requested is expected of some peer: a block or a transaction
\* whose peer has gone or said no can be asked of another.
RequestsHaveOwner ==
    \A k \in Kinds : requested[k] \subseteq UNION {peerStates[p].req[k] : p \in DOMAIN peerStates}

\* Once an honest peer has connected the node gets the whole chain, whatever the
\* other peers do and in whatever order messages, stalls and disconnections
\* come.
SyncEnds == (\E p \in Peer \ Faulty : conn[p] = "up") ~> (best = Tip)

\* The sync manager works with a sync peer it knows, and every request that is
\* marked as made is one that some peer still owes, whichever peers leave.
NetSyncInvariant ==
    /\ NetSyncTypeOK /\ SyncPeerKnown /\ RequestsHaveOwner
=============================================================================
