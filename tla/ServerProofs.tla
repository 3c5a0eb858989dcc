---------------------------- MODULE ServerProofs ----------------------------
(***************************************************************************)
(* Proofs about the peers of a node: the tables of peers (Server) and the  *)
(* connection manager they share requests with (ConnMgr), and the          *)
(* goroutines of one connection (Peer), which hand messages over in order  *)
(* and leave inHandler waiting only for what is coming (PeerDelivers).     *)
(***************************************************************************)
EXTENDS Server, FiniteSetTheorems, TLAPS, Peer, SetSums

\* A request, and a peer of the server.
ReqRec == [perm : BOOLEAN, addr : NetAddr \cup {NoNetAddr}, state : ConnStates]
PeerRec == [req : Nat, addr : NetAddr \cup NetInbound, persistent : BOOLEAN,
            connected : BOOLEAN, verack : BOOLEAN, done : BOOLEAN]

\* The points of a goroutine at which connHandler has its request among the
\* pending ones, and those that need an address.
AtPending == {"address", "connect", "dial", "replace"}
AtAddr == {"register", "connect", "dial", "established"}

\* The state of the connection manager has its types.
CmTypes ==
    /\ connReqs \in Seq(ReqRec) /\ cmAt \in Seq(CmPoints) /\ Len(cmAt) = Len(connReqs)
    /\ cmPending \subseteq CmIds /\ cmConns \subseteq CmIds /\ cmPending \cap cmConns = {}
    /\ cmNew \in Nat /\ svAdHoc \in Int

\* One request: the tables of connHandler say where its goroutine is.
ReqOK(id) ==
    /\ id \in cmPending <=> cmAt[id] \in AtPending
    /\ id \in cmConns => cmAt[id] \in {"established", "none"}
    /\ cmAt[id] = "established" => id \in cmConns
    /\ id \in cmPending => connReqs[id].state # "canceled"
    /\ cmAt[id] \in {"address", "replace"} => ~connReqs[id].perm
    /\ connReqs[id].perm \/ cmAt[id] \in AtAddr => connReqs[id].addr \in NetAddr

\* The peers and what travels to peerHandler have their types.
SvTypes ==
    /\ svPeers \in Seq(PeerRec)
    /\ \A p \in PeerIds : ~IsInbound(p) => svPeers[p].addr \in NetAddr
    /\ newPeers \in Seq(PeerIds) /\ donePeers \in Seq(PeerIds) /\ banPeers \in Seq(PeerIds)
    /\ svRun \in {"start", "run", "done"} /\ (cmStop <=> svRun = "done")

\* The tables of peerHandler: by kind of peer, never more than MaxPeers, and the
\* groups count them.
Tables ==
    /\ Listed \subseteq PeerIds
    /\ IsFiniteSet(inboundPeers) /\ IsFiniteSet(outboundPeers) /\ IsFiniteSet(persistentPeers)
    /\ PeerCount <= MaxPeers
    /\ outboundGroups \in [Groups -> Nat]
    /\ \A p \in inboundPeers : IsInbound(p)
    /\ \A p \in outboundPeers \cup persistentPeers : ~IsInbound(p)
    /\ GroupsMatch

Once(s) == \A i, j \in DOMAIN s : s[i] = s[j] => i = j
In(p, s) == \E i \in DOMAIN s : s[i] = p

\* The two reports of a peer: each is made once, that of its end after the
\* connection has ended, and peerHandler takes the peer into a table in between.
Reports ==
    /\ Once(newPeers) /\ Once(donePeers)
    /\ \A p \in PeerIds : svPeers[p].done => ~svPeers[p].connected
    /\ \A p \in PeerIds : In(p, newPeers) \/ p \in Listed => svPeers[p].verack
    /\ \A p \in PeerIds : In(p, newPeers) => p \notin Listed
    /\ \A p \in PeerIds : In(p, donePeers) => svPeers[p].done
    /\ \A p \in Listed : svPeers[p].done => In(p, donePeers)

\* A peer whose end peerHandler has not heard of.
Unreported(p) == ~svPeers[p].done \/ In(p, donePeers)

\* Peers and connections: an outbound peer owns the connection of its request
\* until its end is reported, alone.
Owns ==
    /\ \A p \in PeerIds : ~IsInbound(p) /\ Unreported(p) =>
           /\ svPeers[p].req \in cmConns /\ cmAt[svPeers[p].req] = "none"
           /\ svPeers[p].persistent = connReqs[svPeers[p].req].perm
    /\ \A p, q \in PeerIds : ~IsInbound(p) /\ Unreported(p) /\ Unreported(q) /\ svPeers[p].req = svPeers[q].req
           => p = q
    /\ \A id \in cmConns : cmAt[id] = "established" \/ \E p \in PeerIds : svPeers[p].req = id /\ Unreported(p)

\* The requests for any address that count for the target.
Active == {id \in CmIds : ~connReqs[id].perm /\ (id \in cmConns \/ cmAt[id] # "none")}

Kept ==
    /\ svRun = "start" => svPeers = <<>> /\ \A id \in CmIds : connReqs[id].perm /\ cmAt[id] = "register"
    /\ svRun = "run" => cmNew + Cardinality(Active) = TargetOutbound + svAdHoc

\* The inductive invariant.  The end of peerHandler leaves the tables as they are.
ServerIInv ==
    /\ CmTypes /\ SvTypes /\ Tables
    /\ svRun # "done" => (\A id \in CmIds : ReqOK(id)) /\ Reports /\ Owns /\ Kept

-----------------------------------------------------------------------------
(* Sequences, and what the invariant says *)

\* A sequence with one element replaced by another of its kind.
LEMMA ExceptInSeq ==
    ASSUME NEW S, NEW s \in Seq(S), NEW i \in 1..Len(s), NEW v \in S, NEW t, t = [s EXCEPT ![i] = v]
    PROVE  /\ t \in Seq(S) /\ Len(t) = Len(s) /\ t[i] = v
           /\ \A j \in 1..Len(s) \ {i} : t[j] = s[j]
  OBVIOUS

\* The requests under way that count against the target are finitely many.
LEMMA ActiveFinite == ASSUME CmTypes PROVE IsFiniteSet(Active) /\ Cardinality(Active) \in Nat
<1>1. Len(connReqs) \in Nat
  BY DEF CmTypes
<1>2. IsFiniteSet(CmIds)
  BY <1>1, FS_Interval DEF CmIds
<1>3. Active \subseteq CmIds
  BY DEF Active
<1> QED
  BY <1>2, <1>3, FS_Subset, FS_CardinalityType

\* The inductive invariant implies the one that the run checks.
LEMMA ServerIInvImplies == ServerIInv => ServerInvariant
<1> SUFFICES ASSUME ServerIInv PROVE ServerInvariant
  OBVIOUS
<1>1. CmTypes /\ SvTypes /\ Tables
  BY DEF ServerIInv
<1>2. ServerTypeOK
  <2>1. ASSUME NEW id \in CmIds PROVE connReqs[id].state \in ConnStates /\ cmAt[id] \in CmPoints
    <3>1. connReqs[id] \in ReqRec /\ cmAt[id] \in CmPoints
      BY <1>1 DEF CmTypes, CmIds
    <3> QED
      BY <3>1 DEF ReqRec
  <2> QED
    BY <1>1, <2>1 DEF ServerTypeOK, CmTypes, Tables
<1>3. ASSUME svRun = "run" PROVE Reports /\ Owns /\ Kept
  BY <1>3 DEF ServerIInv
<1>4. NoDeadPeers
  BY <1>3 DEF NoDeadPeers, Reports, In
<1>5. ConnsHavePeer
  BY <1>3 DEF ConnsHavePeer, Owns, Unreported, In
<1>6. OutboundKept
  BY <1>3 DEF OutboundKept, Kept, Active
<1> QED
  BY <1>1, <1>2, <1>4, <1>5, <1>6 DEF ServerInvariant, Tables

\* A server that has not started has no requests, no peers and its whole target to make.
LEMMA ServerInitIInv == ServerInit => ServerIInv
<1> SUFFICES ASSUME ServerInit PROVE ServerIInv
  OBVIOUS
<1> DEFINE n == Cardinality(NetPermanent)
<1>1. n \in Nat /\ ExistsBijection(1..n, NetPermanent)
  BY ServerAssumption, FS_CardinalityType
<1>2. SetToSeq(NetPermanent) \in [1..n -> NetPermanent]
  <2>1. PICK f \in Bijection(1..n, NetPermanent) : TRUE
    BY <1>1 DEF ExistsBijection
  <2>2. f \in [1..n -> NetPermanent] /\ IsInjective(f)
    BY <2>1 DEF Bijection, Injection
  <2> QED
    BY <2>2 DEF SetToSeq
<1> HIDE DEF n
<1>3. /\ connReqs = [i \in 1..n |-> [perm |-> TRUE, addr |-> SetToSeq(NetPermanent)[i], state |-> "none"]]
      /\ cmAt = [i \in 1..n |-> "register"]
  BY DEF ServerInit, n
<1>4. /\ cmPending = {} /\ cmConns = {} /\ cmNew = 0 /\ cmStop = FALSE
      /\ svPeers = <<>> /\ inboundPeers = {} /\ outboundPeers = {} /\ persistentPeers = {}
      /\ outboundGroups = [g \in Groups |-> 0]
      /\ newPeers = <<>> /\ donePeers = <<>> /\ banPeers = <<>> /\ svRun = "start" /\ svAdHoc = 0
  BY DEF ServerInit
<1>5. ASSUME NEW i \in 1..n
      PROVE  /\ connReqs[i] \in ReqRec /\ connReqs[i].perm = TRUE /\ connReqs[i].addr \in NetAddr
             /\ cmAt[i] = "register"
  BY <1>2, <1>3, ServerAssumption DEF ReqRec, ConnStates
<1>6. Len(connReqs) = n /\ Len(cmAt) = n /\ connReqs \in Seq(ReqRec) /\ cmAt \in Seq(CmPoints)
  <2>1. connReqs \in [1..n -> ReqRec] /\ cmAt \in [1..n -> CmPoints]
    BY <1>3, <1>5 DEF CmPoints
  <2> QED
    BY <1>1, <2>1
<1>7. CmTypes
  BY <1>4, <1>6 DEF CmTypes
<1>8. SvTypes
  BY <1>4 DEF SvTypes, PeerIds
<1>9. Tables
  <2>1. Cardinality({}) = 0 /\ IsFiniteSet({})
    BY FS_EmptySet
  <2>2. GroupsMatch
    <3> SUFFICES ASSUME NEW g \in Groups
                 PROVE  outboundGroups[g] = Cardinality({p \in outboundPeers \cup persistentPeers : GroupOf(p) = g})
      BY DEF GroupsMatch
    <3>1. {p \in outboundPeers \cup persistentPeers : GroupOf(p) = g} = {}
      BY <1>4
    <3> QED
      BY <1>4, <2>1, <3>1
  <2>3. PeerCount <= MaxPeers
    BY <1>4, <2>1, ServerAssumption DEF PeerCount
  <2> QED
    BY <1>4, <2>1, <2>2, <2>3 DEF Tables, Listed
<1>10. \A id \in CmIds : ReqOK(id)
  BY <1>4, <1>5, <1>6 DEF CmIds, ReqOK, AtPending, AtAddr
<1>11. Reports
  <2>1. PeerIds = {} /\ DOMAIN newPeers = {} /\ DOMAIN donePeers = {} /\ Listed = {}
    BY <1>4 DEF PeerIds, Listed
  <2> QED
    BY <2>1 DEF Reports, Once, In
<1>12. Owns
  <2>1. PeerIds = {}
    BY <1>4 DEF PeerIds
  <2> QED
    BY <1>4, <2>1 DEF Owns
<1>13. Kept
  BY <1>4, <1>5, <1>6 DEF Kept, CmIds
<1> QED
  BY <1>7, <1>8, <1>9, <1>10, <1>11, <1>12, <1>13 DEF ServerIInv

-----------------------------------------------------------------------------
(* Steps of the connection manager *)

\* A step that changes one request, its goroutine and its place in the tables.
ReqChange(id, r, pt) ==
    /\ connReqs' = [connReqs EXCEPT ![id] = r] /\ r.perm = connReqs[id].perm
    /\ cmAt' = [cmAt EXCEPT ![id] = pt]
    /\ cmPending' \ {id} = cmPending \ {id} /\ cmConns' \ {id} = cmConns \ {id}
    /\ ~(id \in cmPending' /\ id \in cmConns')

\* What a change of one request leaves alone: the other requests and where they are.
LEMMA ReqChangeFacts ==
    ASSUME CmTypes, NEW id \in CmIds, NEW r \in ReqRec, NEW pt \in CmPoints, ReqChange(id, r, pt)
    PROVE  /\ connReqs' \in Seq(ReqRec) /\ cmAt' \in Seq(CmPoints) /\ Len(cmAt') = Len(connReqs')
           /\ CmIds' = CmIds /\ connReqs'[id] = r /\ cmAt'[id] = pt
           /\ \A j \in CmIds \ {id} : connReqs'[j] = connReqs[j] /\ cmAt'[j] = cmAt[j]
           /\ \A j \in CmIds : connReqs'[j].perm = connReqs[j].perm
           /\ cmPending' \subseteq CmIds /\ cmConns' \subseteq CmIds /\ cmPending' \cap cmConns' = {}
           /\ \A j \in CmIds \ {id} : (j \in cmPending' <=> j \in cmPending) /\ (j \in cmConns' <=> j \in cmConns)
           /\ \A j \in CmIds \ {id} : ReqOK(j) => ReqOK(j)'
           /\ Active' \ {id} = Active \ {id}
           /\ id \in Active' <=> ~r.perm /\ (id \in cmConns' \/ pt # "none")
<1>1. /\ connReqs \in Seq(ReqRec) /\ cmAt \in Seq(CmPoints) /\ Len(cmAt) = Len(connReqs)
      /\ id \in 1..Len(connReqs) /\ id \in 1..Len(cmAt)
  BY DEF CmTypes, CmIds
<1>2. /\ connReqs' \in Seq(ReqRec) /\ Len(connReqs') = Len(connReqs) /\ connReqs'[id] = r
      /\ \A j \in 1..Len(connReqs) \ {id} : connReqs'[j] = connReqs[j]
  BY <1>1 DEF ReqChange
<1>3. /\ cmAt' \in Seq(CmPoints) /\ Len(cmAt') = Len(cmAt) /\ cmAt'[id] = pt
      /\ \A j \in 1..Len(connReqs) \ {id} : cmAt'[j] = cmAt[j]
  BY <1>1 DEF ReqChange
<1>4. CmIds' = CmIds
  BY <1>2 DEF CmIds
<1>5. \A j \in CmIds \ {id} : connReqs'[j] = connReqs[j] /\ cmAt'[j] = cmAt[j]
  BY <1>2, <1>3 DEF CmIds
<1>6. \A j \in CmIds : connReqs'[j].perm = connReqs[j].perm
  BY <1>2, <1>5 DEF ReqChange
<1>7. /\ cmPending' \subseteq CmIds /\ cmConns' \subseteq CmIds /\ cmPending' \cap cmConns' = {}
      /\ \A j \in CmIds \ {id} : (j \in cmPending' <=> j \in cmPending) /\ (j \in cmConns' <=> j \in cmConns)
  BY DEF ReqChange, CmTypes
<1>8. ASSUME NEW j \in CmIds \ {id}, ReqOK(j) PROVE ReqOK(j)'
  BY <1>5, <1>7, <1>8 DEF ReqOK
<1>9. Active' \ {id} = Active \ {id}
  <2>1. Active' = {j \in CmIds : ~connReqs'[j].perm /\ (j \in cmConns' \/ cmAt'[j] # "none")}
    BY <1>4 DEF Active
  <2> QED
    BY <1>5, <1>7, <2>1 DEF Active
<1>10. id \in Active' <=> ~r.perm /\ (id \in cmConns' \/ pt # "none")
  <2>1. Active' = {j \in CmIds : ~connReqs'[j].perm /\ (j \in cmConns' \/ cmAt'[j] # "none")}
    BY <1>4 DEF Active
  <2> QED
    BY <1>2, <1>3, <2>1
<1> QED
  BY <1>1, <1>2, <1>3, <1>4, <1>5, <1>6, <1>7, <1>8, <1>9, <1>10

\* The peers and their tables are left alone.
SvSame ==
    /\ svPeers' = svPeers /\ inboundPeers' = inboundPeers /\ outboundPeers' = outboundPeers
    /\ persistentPeers' = persistentPeers /\ outboundGroups' = outboundGroups
    /\ newPeers' = newPeers /\ donePeers' = donePeers /\ banPeers' = banPeers

\* A step of the connection manager alone keeps what is said of the peers' tables.
LEMMA SvSameFacts ==
    ASSUME SvTypes, Tables, SvSame, svRun' = svRun, cmStop' = cmStop
    PROVE  /\ SvTypes' /\ Tables' /\ PeerIds' = PeerIds
           /\ Reports => Reports'
           /\ \A p \in PeerIds : (Unreported(p)' <=> Unreported(p)) /\ (IsInbound(p)' <=> IsInbound(p))
<1>1. SvTypes'
  BY DEF SvTypes, SvSame, PeerIds, IsInbound
<1>2. Tables'
  BY DEF Tables, SvSame, PeerIds, IsInbound, Listed, PeerCount, GroupsMatch, GroupOf
<1>3. Reports => Reports'
  BY DEF Reports, SvSame, PeerIds, Listed
<1> QED
  BY <1>1, <1>2, <1>3 DEF SvSame, PeerIds, Unreported, IsInbound

\* What a request counts for the target moves between the request and cmNew.
LEMMA KeptStep ==
    ASSUME CmTypes, Kept, svRun = "run", svRun' = svRun, svAdHoc' = svAdHoc, NEW id,
           Active' \ {id} = Active \ {id},
           \/ cmNew' = cmNew /\ (id \in Active <=> id \in Active')
           \/ cmNew' = cmNew + 1 /\ id \in Active /\ id \notin Active'
    PROVE  Kept'
<1>1. IsFiniteSet(Active) /\ Cardinality(Active) \in Nat
  BY ActiveFinite
<1>2. cmNew \in Nat /\ svAdHoc \in Int /\ cmNew + Cardinality(Active) = TargetOutbound + svAdHoc
  BY DEF CmTypes, Kept
<1>3. CASE cmNew' = cmNew /\ (id \in Active <=> id \in Active')
  <2>1. \A j : j \in Active' <=> j \in Active
    BY <1>3
  <2>2. Active' = Active
    BY <2>1
  <2> QED
    BY <1>2, <1>3, <2>2 DEF Kept
<1>4. CASE cmNew' = cmNew + 1 /\ id \in Active /\ id \notin Active'
  <2>1. Active' = Active \ {id}
    BY <1>4
  <2>2. Cardinality(Active') = Cardinality(Active) - 1
    BY <1>1, <1>4, <2>1, FS_RemoveElement
  <2>3. cmNew' + Cardinality(Active') = TargetOutbound + svAdHoc
    BY <1>1, <1>2, <1>4, <2>2, ConnMgrAssumption
  <2> QED
    BY <2>3 DEF Kept
<1> QED
  BY <1>3, <1>4

\* A goroutine that works for a request no peer owns.
LEMMA CmStep ==
    ASSUME ServerIInv, svRun = "run", NEW id \in CmIds, NEW r \in ReqRec, NEW pt \in CmPoints,
           ReqChange(id, r, pt), ReqOK(id)', SvSame,
           svRun' = svRun, cmStop' = cmStop, svAdHoc' = svAdHoc, cmNew' \in Nat,
           cmAt[id] # "none" \/ id \notin cmConns, id \in cmConns' => pt = "established",
           \/ cmNew' = cmNew /\ (id \in Active <=> id \in Active')
           \/ cmNew' = cmNew + 1 /\ id \in Active /\ id \notin Active'
    PROVE  ServerIInv'
<1>1. CmTypes /\ SvTypes /\ Tables /\ (\A j \in CmIds : ReqOK(j)) /\ Reports /\ Owns /\ Kept
  BY DEF ServerIInv
<1>2. /\ connReqs' \in Seq(ReqRec) /\ cmAt' \in Seq(CmPoints) /\ Len(cmAt') = Len(connReqs')
      /\ CmIds' = CmIds /\ connReqs'[id] = r /\ cmAt'[id] = pt
      /\ \A j \in CmIds \ {id} : connReqs'[j] = connReqs[j] /\ cmAt'[j] = cmAt[j]
      /\ \A j \in CmIds : connReqs'[j].perm = connReqs[j].perm
      /\ cmPending' \subseteq CmIds /\ cmConns' \subseteq CmIds /\ cmPending' \cap cmConns' = {}
      /\ \A j \in CmIds \ {id} : (j \in cmPending' <=> j \in cmPending) /\ (j \in cmConns' <=> j \in cmConns)
      /\ \A j \in CmIds \ {id} : ReqOK(j) => ReqOK(j)'
      /\ Active' \ {id} = Active \ {id}
  BY <1>1, ReqChangeFacts
<1>3. /\ SvTypes' /\ Tables' /\ PeerIds' = PeerIds /\ Reports'
      /\ \A p \in PeerIds : (Unreported(p)' <=> Unreported(p)) /\ (IsInbound(p)' <=> IsInbound(p))
  BY <1>1, SvSameFacts
<1>4. CmTypes'
  BY <1>1, <1>2 DEF CmTypes
<1>5. \A j \in CmIds' : ReqOK(j)'
  BY <1>1, <1>2
<1>6. Owns'
  <2>1. ASSUME NEW p \in PeerIds, ~IsInbound(p), Unreported(p)
        PROVE  /\ svPeers[p].req \in cmConns' /\ cmAt'[svPeers[p].req] = "none"
               /\ svPeers[p].persistent = connReqs'[svPeers[p].req].perm
    <3>1. /\ svPeers[p].req \in cmConns /\ cmAt[svPeers[p].req] = "none"
          /\ svPeers[p].persistent = connReqs[svPeers[p].req].perm
      BY <1>1, <2>1 DEF Owns
    <3>2. svPeers[p].req \in CmIds \ {id}
      BY <1>1, <3>1 DEF CmTypes
    <3> QED
      BY <1>2, <3>1, <3>2
  <2>2. ASSUME NEW j \in cmConns', cmAt'[j] # "established"
        PROVE  \E p \in PeerIds : svPeers[p].req = j /\ Unreported(p)
    <3>1. j \in CmIds \ {id}
      BY <1>2, <2>2
    <3>2. j \in cmConns /\ cmAt[j] # "established"
      BY <1>2, <2>2, <3>1
    <3> QED
      BY <1>1, <3>2 DEF Owns
  <2>3. svPeers' = svPeers
    BY DEF SvSame
  <2>4. \A p, q \in PeerIds : ~IsInbound(p) /\ Unreported(p) /\ Unreported(q) /\ svPeers[p].req = svPeers[q].req
           => p = q
    BY <1>1 DEF Owns
  <2> QED
    BY <1>3, <2>1, <2>2, <2>3, <2>4 DEF Owns
<1>7. Kept'
  BY <1>1, <1>2, KeptStep
<1> QED
  BY <1>3, <1>4, <1>5, <1>6, <1>7 DEF ServerIInv

\* A request with another state or address.
LEMMA WithState ==
    ASSUME NEW r \in ReqRec, NEW st \in ConnStates
    PROVE  LET t == [r EXCEPT !.state = st]
           IN  t \in ReqRec /\ t.state = st /\ t.perm = r.perm /\ t.addr = r.addr
  BY DEF ReqRec

\* What the invariant says of one request while the server runs.
LEMMA ReqFacts ==
    ASSUME ServerIInv, svRun = "run", NEW id \in CmIds
    PROVE  /\ connReqs[id] \in ReqRec /\ connReqs[id].perm \in BOOLEAN /\ cmAt[id] \in CmPoints
           /\ connReqs = [connReqs EXCEPT ![id] = connReqs[id]] /\ cmAt = [cmAt EXCEPT ![id] = cmAt[id]]
           /\ ReqOK(id) /\ CmTypes /\ cmNew \in Nat /\ cmPending \cap cmConns = {} /\ ~cmStop
           /\ id \in Active <=> ~connReqs[id].perm /\ (id \in cmConns \/ cmAt[id] # "none")
<1>1. CmTypes /\ SvTypes /\ ReqOK(id)
  BY DEF ServerIInv
<1>2. connReqs[id] \in ReqRec /\ cmAt[id] \in CmPoints
  BY <1>1 DEF CmTypes, CmIds
<1>3. connReqs[id].perm \in BOOLEAN
  BY <1>2 DEF ReqRec
<1>4. connReqs = [connReqs EXCEPT ![id] = connReqs[id]] /\ cmAt = [cmAt EXCEPT ![id] = cmAt[id]]
  BY <1>1 DEF CmTypes, CmIds
<1>5. cmNew \in Nat /\ cmPending \cap cmConns = {} /\ ~cmStop
  BY <1>1 DEF CmTypes, SvTypes
<1>6. id \in Active <=> ~connReqs[id].perm /\ (id \in cmConns \/ cmAt[id] # "none")
  BY DEF Active
<1> QED
  BY <1>1, <1>2, <1>3, <1>4, <1>5, <1>6

\* UpdateState as a change of one request.
LEMMA UpdateStateFacts ==
    ASSUME CmTypes, NEW id \in CmIds, NEW st \in ConnStates, UpdateState(id, st)
    PROVE  LET r == [connReqs[id] EXCEPT !.state = st]
           IN  /\ connReqs' = [connReqs EXCEPT ![id] = r] /\ r \in ReqRec /\ r.state = st
               /\ r.perm = connReqs[id].perm /\ r.addr = connReqs[id].addr
<1>1. connReqs[id] \in ReqRec
  BY DEF CmTypes, CmIds
<1>2. connReqs' = [connReqs EXCEPT ![id] = [connReqs[id] EXCEPT !.state = st]]
  BY DEF UpdateState, CmTypes, CmIds
<1> QED
  BY <1>1, <1>2, WithState

\* connHandler takes a registration: the request is pending and is dialled next.
LEMMA HandleRegisterPendingStep ==
    ASSUME ServerIInv, svRun = "run", NEW id \in CmIds, HandleRegisterPending(id), SvSame,
           svRun' = svRun, svAdHoc' = svAdHoc
    PROVE  ServerIInv'
<1> DEFINE r == [connReqs[id] EXCEPT !.state = "pending"]
<1>1. /\ cmAt[id] = "register" /\ UpdateState(id, "pending") /\ cmPending' = cmPending \cup {id}
      /\ cmAt' = [cmAt EXCEPT ![id] = "dial"] /\ cmConns' = cmConns /\ cmNew' = cmNew /\ cmStop' = cmStop
  BY DEF HandleRegisterPending, CmGo
<1>2. /\ connReqs[id] \in ReqRec /\ connReqs[id].perm \in BOOLEAN /\ ReqOK(id) /\ CmTypes /\ cmNew \in Nat
      /\ id \in Active <=> ~connReqs[id].perm /\ (id \in cmConns \/ cmAt[id] # "none")
  BY ReqFacts
<1>3. /\ connReqs' = [connReqs EXCEPT ![id] = r] /\ r \in ReqRec /\ r.state = "pending"
      /\ r.perm = connReqs[id].perm /\ r.addr = connReqs[id].addr
  BY <1>1, <1>2, UpdateStateFacts DEF ConnStates
<1> HIDE DEF r
<1>4. id \notin cmConns /\ r.addr \in NetAddr
  BY <1>1, <1>2, <1>3 DEF ReqOK, AtAddr
<1>5. ReqChange(id, r, "dial") /\ "dial" \in CmPoints
  BY <1>1, <1>3, <1>4 DEF ReqChange, CmPoints
<1>6. /\ connReqs'[id] = r /\ cmAt'[id] = "dial"
      /\ id \in Active' <=> ~r.perm /\ (id \in cmConns' \/ "dial" # "none")
  BY <1>2, <1>3, <1>5, ReqChangeFacts
<1>7. ReqOK(id)'
  BY <1>1, <1>3, <1>4, <1>6 DEF ReqOK, AtPending, AtAddr
<1> QED
  BY <1>1, <1>2, <1>3, <1>4, <1>5, <1>6, <1>7, CmStep

\* connHandler takes a connection: a pending request is established, one that was cancelled is dropped.
LEMMA HandleConnectedStep ==
    ASSUME ServerIInv, svRun = "run", NEW id \in CmIds, HandleConnected(id), SvSame,
           svRun' = svRun, svAdHoc' = svAdHoc
    PROVE  ServerIInv'
<1> DEFINE r == [connReqs[id] EXCEPT !.state = "established"]
<1>2. /\ connReqs[id] \in ReqRec /\ connReqs[id].perm \in BOOLEAN /\ ReqOK(id) /\ CmTypes /\ cmNew \in Nat
      /\ cmPending \cap cmConns = {}
      /\ id \in Active <=> ~connReqs[id].perm /\ (id \in cmConns \/ cmAt[id] # "none")
  BY ReqFacts
<1>1. /\ cmAt[id] = "dial" /\ id \in cmPending /\ UpdateState(id, "established")
      /\ cmAt' = [cmAt EXCEPT ![id] = "established"] /\ cmConns' = cmConns \cup {id}
      /\ cmPending' = cmPending \ {id} /\ cmNew' = cmNew /\ cmStop' = cmStop
  <2>1. cmAt[id] = "dial" /\ cmNew' = cmNew /\ cmStop' = cmStop
    BY DEF HandleConnected
  <2>2. id \in cmPending
    BY <1>2, <2>1 DEF ReqOK, AtPending
  <2> QED
    BY <2>1, <2>2 DEF HandleConnected, CmGo
<1>3. /\ connReqs' = [connReqs EXCEPT ![id] = r] /\ r \in ReqRec /\ r.state = "established"
      /\ r.perm = connReqs[id].perm /\ r.addr = connReqs[id].addr
  BY <1>1, <1>2, UpdateStateFacts DEF ConnStates
<1> HIDE DEF r
<1>4. id \notin cmConns /\ r.addr \in NetAddr
  BY <1>1, <1>2, <1>3 DEF ReqOK, AtAddr
<1>5. ReqChange(id, r, "established") /\ "established" \in CmPoints
  BY <1>1, <1>3, <1>4 DEF ReqChange, CmPoints
<1>6. /\ connReqs'[id] = r /\ cmAt'[id] = "established"
      /\ id \in Active' <=> ~r.perm /\ (id \in cmConns' \/ "established" # "none")
  BY <1>2, <1>3, <1>5, ReqChangeFacts
<1>7. ReqOK(id)'
  BY <1>1, <1>3, <1>4, <1>6 DEF ReqOK, AtPending, AtAddr
<1> QED
  BY <1>1, <1>2, <1>3, <1>4, <1>5, <1>6, <1>7, CmStep

\* connHandler takes a failure: a pending request is tried again or replaced, a cancelled one is dropped.
LEMMA HandleFailedStep ==
    ASSUME ServerIInv, svRun = "run", NEW id \in CmIds, HandleFailed(id), SvSame,
           svRun' = svRun, svAdHoc' = svAdHoc
    PROVE  ServerIInv'
<1> DEFINE r == [connReqs[id] EXCEPT !.state = "failing"]
<1> DEFINE pt == IF connReqs[id].perm THEN "connect" ELSE "replace"
<1>2. /\ connReqs[id] \in ReqRec /\ connReqs[id].perm \in BOOLEAN /\ ReqOK(id) /\ CmTypes /\ cmNew \in Nat
      /\ cmPending \cap cmConns = {}
      /\ id \in Active <=> ~connReqs[id].perm /\ (id \in cmConns \/ cmAt[id] # "none")
  BY ReqFacts
<1>1. /\ cmAt[id] \in {"dial", "address"} /\ id \in cmPending /\ UpdateState(id, "failing")
      /\ cmAt' = [cmAt EXCEPT ![id] = pt] /\ cmConns' = cmConns
      /\ cmPending' = cmPending /\ cmNew' = cmNew /\ cmStop' = cmStop
  <2>1. cmAt[id] \in {"dial", "address"} /\ cmConns' = cmConns /\ cmPending' = cmPending /\ cmNew' = cmNew
        /\ cmStop' = cmStop
    BY DEF HandleFailed
  <2>2. id \in cmPending
    BY <1>2, <2>1 DEF ReqOK, AtPending
  <2> QED
    BY <2>1, <2>2 DEF HandleFailed, CmGo, HandleFailedConn
<1>3. /\ connReqs' = [connReqs EXCEPT ![id] = r] /\ r \in ReqRec /\ r.state = "failing"
      /\ r.perm = connReqs[id].perm /\ r.addr = connReqs[id].addr
  BY <1>1, <1>2, UpdateStateFacts DEF ConnStates
<1> HIDE DEF r
<1>4. /\ id \notin cmConns /\ (r.perm => r.addr \in NetAddr)
      /\ pt \in {"connect", "replace"} /\ (pt = "connect" <=> r.perm)
  BY <1>1, <1>2, <1>3 DEF ReqOK, AtAddr
<1> HIDE DEF pt
<1>5. ReqChange(id, r, pt) /\ pt \in CmPoints
  BY <1>1, <1>3, <1>4 DEF ReqChange, CmPoints
<1>6. /\ connReqs'[id] = r /\ cmAt'[id] = pt
      /\ id \in Active' <=> ~r.perm /\ (id \in cmConns' \/ pt # "none")
  BY <1>2, <1>3, <1>5, ReqChangeFacts
<1>7. ReqOK(id)'
  BY <1>1, <1>3, <1>4, <1>6 DEF ReqOK, AtPending, AtAddr
<1>8. pt # "none" /\ pt # "established" /\ cmAt[id] # "none" /\ id \notin cmConns'
  BY <1>1, <1>4
<1>9. id \in Active <=> id \in Active'
  BY <1>2, <1>3, <1>6, <1>8
<1> QED
  BY <1>1, <1>2, <1>3, <1>4, <1>5, <1>7, <1>8, <1>9, CmStep

\* Connect of a request: one that was cancelled is given up, any other is dialled.
LEMMA ConnectStep ==
    ASSUME ServerIInv, svRun = "run", NEW id \in CmIds, Connect(id), SvSame,
           svRun' = svRun, svAdHoc' = svAdHoc
    PROVE  ServerIInv'
<1> DEFINE r == connReqs[id]
<1>2. /\ r \in ReqRec /\ r.perm \in BOOLEAN /\ ReqOK(id) /\ CmTypes /\ cmNew \in Nat
      /\ cmPending \cap cmConns = {} /\ connReqs = [connReqs EXCEPT ![id] = r]
      /\ id \in Active <=> ~r.perm /\ (id \in cmConns \/ cmAt[id] # "none")
  BY ReqFacts
<1>1. /\ cmAt[id] = "connect" /\ id \in cmPending /\ connReqs' = connReqs
      /\ cmAt' = [cmAt EXCEPT ![id] = "dial"] /\ cmConns' = cmConns
      /\ cmPending' = cmPending /\ cmNew' = cmNew /\ cmStop' = cmStop
  <2>1. cmAt[id] = "connect"
    BY DEF Connect
  <2>2. id \in cmPending /\ connReqs[id].state # "canceled"
    BY <1>2, <2>1 DEF ReqOK, AtPending
  <2> QED
    BY <2>1, <2>2 DEF Connect, CmGo, cmTables
<1>4. id \notin cmConns /\ r.addr \in NetAddr /\ r.state # "canceled"
  BY <1>1, <1>2 DEF ReqOK, AtAddr
<1> HIDE DEF r
<1>5. ReqChange(id, r, "dial") /\ "dial" \in CmPoints
  BY <1>1, <1>2 DEF ReqChange, CmPoints, r
<1>6. /\ connReqs'[id] = r /\ cmAt'[id] = "dial"
      /\ id \in Active' <=> ~r.perm /\ (id \in cmConns' \/ "dial" # "none")
  BY <1>2, <1>5, ReqChangeFacts
<1>7. ReqOK(id)'
  BY <1>1, <1>4, <1>6 DEF ReqOK, AtPending, AtAddr
<1> QED
  BY <1>1, <1>2, <1>4, <1>5, <1>6, <1>7, CmStep

\* A request that failed is removed, and one more is to be made in its place.
LEMMA ReplaceStep ==
    ASSUME ServerIInv, svRun = "run", NEW id \in CmIds, Replace(id), SvSame,
           svRun' = svRun, svAdHoc' = svAdHoc
    PROVE  ServerIInv'
<1> DEFINE r == [connReqs[id] EXCEPT !.state = "canceled"]
<1>2. /\ connReqs[id] \in ReqRec /\ connReqs[id].perm \in BOOLEAN /\ ReqOK(id) /\ CmTypes /\ cmNew \in Nat
      /\ cmPending \cap cmConns = {}
      /\ id \in Active <=> ~connReqs[id].perm /\ (id \in cmConns \/ cmAt[id] # "none")
  BY ReqFacts
<1>1. /\ cmAt[id] = "replace" /\ id \in cmPending /\ id \notin cmConns /\ UpdateState(id, "canceled")
      /\ cmAt' = [cmAt EXCEPT ![id] = "none"] /\ cmConns' = cmConns
      /\ cmPending' = cmPending \ {id} /\ cmNew' = cmNew + 1 /\ cmStop' = cmStop
  <2>1. cmAt[id] = "replace" /\ HandleDisconnected(id, FALSE) /\ cmNew' = cmNew + 1 /\ cmStop' = cmStop
    BY DEF Replace
  <2>2. id \in cmPending /\ id \notin cmConns
    BY <1>2, <2>1 DEF ReqOK, AtPending
  <2> QED
    BY <2>1, <2>2 DEF HandleDisconnected, CmGo
<1>3. /\ connReqs' = [connReqs EXCEPT ![id] = r] /\ r \in ReqRec
      /\ r.perm = connReqs[id].perm /\ r.addr = connReqs[id].addr
  BY <1>1, <1>2, UpdateStateFacts DEF ConnStates
<1> HIDE DEF r
<1>4. ~r.perm
  BY <1>1, <1>2, <1>3 DEF ReqOK
<1>5. ReqChange(id, r, "none") /\ "none" \in CmPoints
  BY <1>1, <1>3 DEF ReqChange, CmPoints
<1>6. /\ connReqs'[id] = r /\ cmAt'[id] = "none"
      /\ id \in Active' <=> ~r.perm /\ (id \in cmConns' \/ "none" # "none")
  BY <1>2, <1>3, <1>5, ReqChangeFacts
<1>7. ReqOK(id)'
  BY <1>1, <1>3, <1>4, <1>6 DEF ReqOK, AtPending, AtAddr
<1>8. cmNew' \in Nat
  BY <1>1, <1>2
<1> QED
  BY <1>1, <1>2, <1>3, <1>4, <1>5, <1>6, <1>7, <1>8, CmStep

\* GetNewAddress answers a request that has none.
LEMMA TakeAddressStep ==
    ASSUME ServerIInv, svRun = "run", NEW id \in CmIds, NEW addr \in NetAddr, TakeAddress(id, addr), SvSame,
           svRun' = svRun, svAdHoc' = svAdHoc
    PROVE  ServerIInv'
<1> DEFINE r == [connReqs[id] EXCEPT !.addr = addr]
<1>2. /\ connReqs[id] \in ReqRec /\ connReqs[id].perm \in BOOLEAN /\ ReqOK(id) /\ CmTypes /\ cmNew \in Nat
      /\ cmPending \cap cmConns = {}
      /\ id \in Active <=> ~connReqs[id].perm /\ (id \in cmConns \/ cmAt[id] # "none")
  BY ReqFacts
<1>1. /\ cmAt[id] = "address" /\ connReqs' = [connReqs EXCEPT ![id] = r]
      /\ cmAt' = [cmAt EXCEPT ![id] = "connect"] /\ cmConns' = cmConns
      /\ cmPending' = cmPending /\ cmNew' = cmNew /\ cmStop' = cmStop
  BY <1>2 DEF TakeAddress, CmGo, CmTypes, CmIds
<1>3. r \in ReqRec /\ r.state = connReqs[id].state /\ r.perm = connReqs[id].perm /\ r.addr = addr
  BY <1>2 DEF ReqRec
<1> HIDE DEF r
<1>4. id \in cmPending /\ id \notin cmConns /\ r.state # "canceled" /\ ~r.perm
  BY <1>1, <1>2, <1>3 DEF ReqOK, AtPending
<1>5. ReqChange(id, r, "connect") /\ "connect" \in CmPoints
  BY <1>1, <1>3, <1>4 DEF ReqChange, CmPoints
<1>6. /\ connReqs'[id] = r /\ cmAt'[id] = "connect"
      /\ id \in Active' <=> ~r.perm /\ (id \in cmConns' \/ "connect" # "none")
  BY <1>2, <1>3, <1>5, ReqChangeFacts
<1>7. ReqOK(id)'
  BY <1>1, <1>3, <1>4, <1>6 DEF ReqOK, AtPending, AtAddr
<1> QED
  BY <1>1, <1>2, <1>3, <1>4, <1>5, <1>6, <1>7, CmStep

\* A connection is given up: the request of a persistent peer is dialled again,
\* another one is over and a new one will be made.
LEMMA GiveUpFacts ==
    ASSUME ServerIInv, svRun = "run", NEW id \in cmConns, GiveUpConn(id, connReqs[id].perm)
    PROVE  /\ \E r \in ReqRec : \E pt \in CmPoints :
                 ReqChange(id, r, pt) /\ r.perm = connReqs[id].perm /\ id \notin cmConns' /\ ReqOK(id)'
                 /\ (pt # "none" <=> r.perm)
           /\ cmNew' = IF connReqs[id].perm THEN cmNew ELSE cmNew + 1
           /\ cmNew' \in Nat /\ cmStop' = cmStop /\ id \in CmIds
<1>0. id \in CmIds
  BY DEF ServerIInv, CmTypes
<1>1. /\ connReqs[id] \in ReqRec /\ connReqs[id].perm \in BOOLEAN /\ ReqOK(id) /\ CmTypes /\ cmNew \in Nat
      /\ cmPending \cap cmConns = {} /\ ~cmStop
  BY <1>0, ReqFacts
<1>2. /\ HandleDisconnected(id, connReqs[id].perm) /\ cmStop' = cmStop
      /\ cmNew' = IF connReqs[id].perm THEN cmNew ELSE cmNew + 1
  BY <1>1 DEF GiveUpConn
<1>3. id \notin cmPending /\ cmConns' = cmConns \ {id}
  BY <1>1, <1>2 DEF HandleDisconnected
<1>4. CASE connReqs[id].perm
  <2> DEFINE r == [connReqs[id] EXCEPT !.state = "pending"]
  <2>1. /\ UpdateState(id, "pending") /\ cmPending' = cmPending \cup {id}
        /\ cmAt' = [cmAt EXCEPT ![id] = "connect"]
    BY <1>2, <1>4 DEF HandleDisconnected, HandleFailedConn, CmGo
  <2>2. /\ connReqs' = [connReqs EXCEPT ![id] = r] /\ r \in ReqRec /\ r.state = "pending"
        /\ r.perm = connReqs[id].perm /\ r.addr = connReqs[id].addr
    BY <1>0, <1>1, <2>1, UpdateStateFacts DEF ConnStates
  <2> HIDE DEF r
  <2>3. ReqChange(id, r, "connect") /\ "connect" \in CmPoints
    BY <1>3, <2>1, <2>2 DEF ReqChange, CmPoints
  <2>4. connReqs'[id] = r /\ cmAt'[id] = "connect"
    BY <1>0, <1>1, <2>2, <2>3, ReqChangeFacts
  <2>5. r.addr \in NetAddr
    BY <1>1, <1>4, <2>2 DEF ReqOK
  <2>6. ReqOK(id)'
    BY <1>3, <1>4, <2>1, <2>2, <2>4, <2>5 DEF ReqOK, AtPending, AtAddr
  <2> QED
    BY <1>0, <1>1, <1>2, <1>3, <1>4, <2>2, <2>3, <2>6
<1>5. CASE ~connReqs[id].perm
  <2> DEFINE r == [connReqs[id] EXCEPT !.state = "disconnected"]
  <2>1. /\ UpdateState(id, "disconnected") /\ cmPending' = cmPending
        /\ cmAt' = [cmAt EXCEPT ![id] = "none"]
    BY <1>2, <1>5 DEF HandleDisconnected, HandleFailedConn, CmGo
  <2>2. /\ connReqs' = [connReqs EXCEPT ![id] = r] /\ r \in ReqRec
        /\ r.perm = connReqs[id].perm /\ r.addr = connReqs[id].addr
    BY <1>0, <1>1, <2>1, UpdateStateFacts DEF ConnStates
  <2> HIDE DEF r
  <2>3. ReqChange(id, r, "none") /\ "none" \in CmPoints
    BY <1>3, <2>1, <2>2 DEF ReqChange, CmPoints
  <2>4. connReqs'[id] = r /\ cmAt'[id] = "none"
    BY <1>0, <1>1, <2>2, <2>3, ReqChangeFacts
  <2>6. ReqOK(id)'
    BY <1>3, <1>5, <2>1, <2>2, <2>4 DEF ReqOK, AtPending, AtAddr
  <2>7. cmNew' \in Nat
    BY <1>1, <1>2, <1>5
  <2> QED
    BY <1>0, <1>1, <1>2, <1>3, <1>5, <2>2, <2>3, <2>6, <2>7
<1> QED
  BY <1>1, <1>4, <1>5

\* A request is added.
LEMMA NewReqFacts ==
    ASSUME CmTypes, NEW n, n = Len(connReqs) + 1, NEW perm \in BOOLEAN, NEW addr \in NetAddr \cup {NoNetAddr},
           NEW pt \in {"address", "register"}, NewReq(perm, addr, pt), cmConns' = cmConns,
           cmPending' = cmPending \cup (IF pt = "address" THEN {n} ELSE {}),
           pt = "address" => ~perm, pt = "register" => addr \in NetAddr,
           cmNew' \in Nat, svAdHoc' \in Int
    PROVE  /\ CmTypes' /\ CmIds' = CmIds \cup {n} /\ n \notin CmIds
           /\ \A j \in CmIds : connReqs'[j] = connReqs[j] /\ cmAt'[j] = cmAt[j] /\ (ReqOK(j) => ReqOK(j)')
           /\ ReqOK(n)'
           /\ Active' = IF perm THEN Active ELSE Active \cup {n}
<1> DEFINE r == [perm |-> perm, addr |-> addr, state |-> IF pt = "address" THEN "pending" ELSE "none"]
<1>1. connReqs' = Append(connReqs, r) /\ cmAt' = Append(cmAt, pt)
  BY DEF NewReq
<1>2. r \in ReqRec /\ r.perm = perm /\ r.addr = addr /\ r.state # "canceled"
  BY DEF ReqRec, ConnStates
<1> HIDE DEF r
<1>3. /\ connReqs \in Seq(ReqRec) /\ cmAt \in Seq(CmPoints) /\ Len(cmAt) = Len(connReqs)
      /\ Len(connReqs) \in Nat /\ pt \in CmPoints
  BY DEF CmTypes, CmPoints
<1>4. /\ connReqs' \in Seq(ReqRec) /\ cmAt' \in Seq(CmPoints) /\ Len(connReqs') = n /\ Len(cmAt') = n
      /\ connReqs'[n] = r /\ cmAt'[n] = pt
      /\ \A j \in 1..Len(connReqs) : connReqs'[j] = connReqs[j] /\ cmAt'[j] = cmAt[j]
  BY <1>1, <1>2, <1>3
<1>5. CmIds' = CmIds \cup {n} /\ n \notin CmIds
  BY <1>3, <1>4 DEF CmIds
<1>6. \A j \in CmIds : connReqs'[j] = connReqs[j] /\ cmAt'[j] = cmAt[j]
  BY <1>4 DEF CmIds
<1>7. /\ cmPending' = cmPending \cup (IF pt = "address" THEN {n} ELSE {})
      /\ cmPending \subseteq CmIds /\ cmConns \subseteq CmIds /\ cmPending \cap cmConns = {}
  BY DEF CmTypes
<1>8. CmTypes'
  BY <1>4, <1>5, <1>7 DEF CmTypes
<1>9. ASSUME NEW j \in CmIds, ReqOK(j) PROVE ReqOK(j)'
  <2>1. j \in cmPending' <=> j \in cmPending
    BY <1>5, <1>7
  <2> QED
    BY <1>6, <1>9, <2>1 DEF ReqOK
<1>10. ReqOK(n)'
  BY <1>2, <1>4, <1>5, <1>7 DEF ReqOK, AtPending, AtAddr
<1>11. Active' = IF perm THEN Active ELSE Active \cup {n}
  <2>1. Active' = {j \in CmIds \cup {n} : ~connReqs'[j].perm /\ (j \in cmConns \/ cmAt'[j] # "none")}
    BY <1>5 DEF Active
  <2>2. \A j \in CmIds : j \in Active' <=> j \in Active
    BY <1>6, <2>1 DEF Active
  <2>3. n \in Active' <=> ~perm
    BY <1>2, <1>4, <2>1
  <2>4. Active \subseteq CmIds /\ Active' \subseteq CmIds \cup {n}
    BY <2>1 DEF Active
  <2>5. CASE perm
    <3>1. \A j : j \in Active' <=> j \in Active
      BY <1>5, <2>2, <2>3, <2>4, <2>5
    <3> QED
      BY <2>5, <3>1
  <2>6. CASE ~perm
    <3>1. \A j : j \in Active' <=> j \in Active \cup {n}
      BY <1>5, <2>2, <2>3, <2>4, <2>6
    <3> QED
      BY <2>6, <3>1
  <2> QED
    BY <2>5, <2>6
<1> QED
  BY <1>5, <1>6, <1>8, <1>9, <1>10, <1>11

\* The arithmetic of a new request: what is still to be made goes down as the requests under way go up.
LEMMA TargetMoves ==
    ASSUME NEW a \in Nat, NEW b \in Nat, NEW k \in Nat, NEW t \in Nat, NEW c \in Int, NEW d \in Int,
           a + k = t + c, b - d = a - c - 1
    PROVE  b + (k + 1) = t + d
  OBVIOUS

\* NewConnReq takes one of cmNew, connectNode adds to the target.
LEMMA NewReqStep ==
    ASSUME ServerIInv, svRun = "run", NEW n, n = Len(connReqs) + 1, NEW perm \in BOOLEAN, NEW addr \in NetAddr \cup {NoNetAddr},
           NEW pt \in {"address", "register"}, NewReq(perm, addr, pt), cmConns' = cmConns,
           cmPending' = cmPending \cup (IF pt = "address" THEN {n} ELSE {}),
           pt = "address" => ~perm, pt = "register" => addr \in NetAddr,
           cmNew' \in Nat, svAdHoc' \in Int, SvSame, svRun' = svRun, cmStop' = cmStop,
           perm => cmNew' = cmNew /\ svAdHoc' = svAdHoc,
           ~perm => cmNew' - svAdHoc' = cmNew - svAdHoc - 1
    PROVE  ServerIInv'
<1>1. CmTypes /\ SvTypes /\ Tables /\ (\A j \in CmIds : ReqOK(j)) /\ Reports /\ Owns /\ Kept
  BY DEF ServerIInv
<1>2. /\ CmTypes' /\ CmIds' = CmIds \cup {n} /\ n \notin CmIds
      /\ \A j \in CmIds : connReqs'[j] = connReqs[j] /\ cmAt'[j] = cmAt[j] /\ (ReqOK(j) => ReqOK(j)')
      /\ ReqOK(n)'
      /\ Active' = IF perm THEN Active ELSE Active \cup {n}
  BY <1>1, NewReqFacts
<1>3. /\ SvTypes' /\ Tables' /\ PeerIds' = PeerIds /\ Reports'
      /\ \A p \in PeerIds : (Unreported(p)' <=> Unreported(p)) /\ (IsInbound(p)' <=> IsInbound(p))
  BY <1>1, SvSameFacts
<1>4. ASSUME NEW j \in CmIds' PROVE ReqOK(j)'
  <2>1. CASE j = n
    BY <1>2, <2>1
  <2>2. CASE j \in CmIds
    BY <1>1, <1>2, <2>2
  <2> QED
    BY <1>2, <2>1, <2>2
<1>5. Owns'
  <2>1. cmConns \subseteq CmIds /\ svPeers' = svPeers
    BY <1>1 DEF CmTypes, SvSame
  <2>2. \A p \in PeerIds : ~IsInbound(p) /\ Unreported(p) =>
           /\ svPeers[p].req \in cmConns /\ cmAt'[svPeers[p].req] = "none"
           /\ svPeers[p].persistent = connReqs'[svPeers[p].req].perm
    BY <1>1, <1>2, <2>1 DEF Owns
  <2>3. \A j \in cmConns : cmAt'[j] = "established" \/ \E p \in PeerIds : svPeers[p].req = j /\ Unreported(p)
    BY <1>1, <1>2, <2>1 DEF Owns
  <2>4. \A p, q \in PeerIds : ~IsInbound(p) /\ Unreported(p) /\ Unreported(q) /\ svPeers[p].req = svPeers[q].req
           => p = q
    BY <1>1 DEF Owns
  <2> QED
    BY <1>3, <2>1, <2>2, <2>3, <2>4 DEF Owns
<1>6. Kept'
  <2>1. IsFiniteSet(Active) /\ Cardinality(Active) \in Nat /\ Active \subseteq CmIds
    BY <1>1, ActiveFinite DEF Active
  <2>2. cmNew \in Nat /\ svAdHoc \in Int /\ cmNew + Cardinality(Active) = TargetOutbound + svAdHoc
    BY <1>1 DEF CmTypes, Kept
  <2>3. CASE perm
    BY <1>2, <2>2, <2>3 DEF Kept
  <2>4. CASE ~perm
    <3>1. Cardinality(Active') = Cardinality(Active) + 1
      BY <1>2, <2>1, <2>4, FS_AddElement
    <3>a. cmNew' - svAdHoc' = cmNew - svAdHoc - 1
      BY <2>4
    <3>b. TargetOutbound \in Nat
      BY ConnMgrAssumption
    <3> DEFINE k == Cardinality(Active)
    <3>c. k \in Nat /\ cmNew + k = TargetOutbound + svAdHoc /\ cmNew \in Nat /\ svAdHoc \in Int
      BY <2>1, <2>2
    <3>d. Cardinality(Active') = k + 1
      BY <3>1
    <3>e. cmNew' \in Nat /\ svAdHoc' \in Int
      OBVIOUS
    <3> HIDE DEF k
    <3>2. cmNew' + Cardinality(Active') = TargetOutbound + svAdHoc'
      <4>1. cmNew' + (k + 1) = TargetOutbound + svAdHoc'
        <5>1. PICK a \in Nat, b \in Nat, m \in Nat, c \in Int, d \in Int :
                  a = cmNew /\ b = cmNew' /\ m = k /\ c = svAdHoc /\ d = svAdHoc'
          BY <3>c, <3>e
        <5>2. a + m = TargetOutbound + c /\ b - d = a - c - 1
          BY ONLY <3>a, <3>c, <5>1
        <5>3. b + (m + 1) = TargetOutbound + d
          BY ONLY <3>b, <5>2, TargetMoves
        <5> QED
          BY ONLY <5>1, <5>3
      <4> QED
        BY <3>d, <4>1
    <3> QED
      BY <3>2 DEF Kept
  <2> QED
    BY <2>3, <2>4
<1> QED
  BY <1>2, <1>3, <1>4, <1>5, <1>6 DEF ServerIInv

\* connManager.Start: the requests that are there are those of persistent peers.
LEMMA StartConnMgrStep == ServerIInv /\ StartConnMgr => ServerIInv'
<1> SUFFICES ASSUME ServerIInv, StartConnMgr PROVE ServerIInv'
  OBVIOUS
<1>1. /\ svRun = "start" /\ svRun' = "run" /\ cmNew' \in Nat /\ svAdHoc' = cmNew' - TargetOutbound
      /\ connReqs' = connReqs /\ cmPending' = cmPending /\ cmConns' = cmConns /\ cmAt' = cmAt
      /\ cmStop' = cmStop /\ SvSame
  <2>1. PICK n \in 0..Len(connReqs) : cmNew' = IF n < TargetOutbound THEN TargetOutbound - n ELSE 0
    BY DEF StartConnMgr
  <2>2. cmNew' \in Nat
    <3>1. Len(connReqs) \in Nat
      BY DEF ServerIInv, CmTypes
    <3> QED
      BY <2>1, <3>1, ConnMgrAssumption
  <2> QED
    BY <2>2 DEF StartConnMgr, SvSame, cmTables, svState, svChans
<1>2. CmTypes /\ SvTypes /\ Tables /\ (\A j \in CmIds : ReqOK(j)) /\ Reports /\ Owns /\ Kept
  BY <1>1 DEF ServerIInv
<1>3. CmTypes'
  BY <1>1, <1>2, ConnMgrAssumption DEF CmTypes, CmIds
<1>4. SvTypes'
  BY <1>1, <1>2 DEF SvTypes, SvSame, PeerIds, IsInbound
<1>5. Tables'
  BY <1>1, <1>2 DEF Tables, SvSame, PeerIds, IsInbound, Listed, PeerCount, GroupsMatch, GroupOf
<1>6. Reports'
  BY <1>1, <1>2 DEF Reports, SvSame, PeerIds, Listed
<1>7. \A j \in CmIds' : ReqOK(j)'
  BY <1>1, <1>2 DEF CmIds, ReqOK
<1>8. Owns'
  BY <1>1, <1>2 DEF Owns, SvSame, PeerIds, IsInbound, Unreported
<1>9. Kept'
  <2>1. Active' = {}
    BY <1>1, <1>2 DEF Kept, Active, CmIds
  <2>2. cmNew' + 0 = TargetOutbound + svAdHoc'
    BY <1>1, ConnMgrAssumption
  <2> QED
    BY <1>1, <2>1, <2>2, FS_EmptySet DEF Kept
<1> QED
  BY <1>3, <1>4, <1>5, <1>6, <1>7, <1>8, <1>9 DEF ServerIInv

-----------------------------------------------------------------------------
(* Steps of the peers *)

TablesSame ==
    /\ inboundPeers' = inboundPeers /\ outboundPeers' = outboundPeers
    /\ persistentPeers' = persistentPeers /\ outboundGroups' = outboundGroups
ChansSame == newPeers' = newPeers /\ donePeers' = donePeers /\ banPeers' = banPeers
CmSame ==
    /\ connReqs' = connReqs /\ cmPending' = cmPending /\ cmConns' = cmConns /\ cmAt' = cmAt
    /\ cmNew' = cmNew /\ cmStop' = cmStop /\ svAdHoc' = svAdHoc

\* A peer is created.
LEMMA NewPeerFacts ==
    ASSUME SvTypes, Tables, Reports, TablesSame, ChansSame, svRun' = svRun, cmStop' = cmStop,
           NEW r \in PeerRec, svPeers' = Append(svPeers, r), ~r.done, ~r.verack, r.req # 0 => r.addr \in NetAddr,
           NEW n, n = Len(svPeers) + 1
    PROVE  /\ SvTypes' /\ Tables' /\ Reports' /\ PeerIds' = PeerIds \cup {n} /\ n \notin PeerIds
           /\ svPeers'[n] = r /\ \A p \in PeerIds : svPeers'[p] = svPeers[p]
           /\ \A p \in PeerIds : (Unreported(p)' <=> Unreported(p)) /\ (IsInbound(p)' <=> IsInbound(p))
           /\ Unreported(n)' /\ (IsInbound(n)' <=> r.req = 0)
<1>1. svPeers \in Seq(PeerRec) /\ Len(svPeers) \in Nat
  BY DEF SvTypes
<1>2. /\ svPeers' \in Seq(PeerRec) /\ Len(svPeers') = n /\ svPeers'[n] = r
      /\ \A p \in 1..Len(svPeers) : svPeers'[p] = svPeers[p]
  BY <1>1
<1>3. PeerIds' = PeerIds \cup {n} /\ n \notin PeerIds /\ \A p \in PeerIds : svPeers'[p] = svPeers[p]
  BY <1>1, <1>2 DEF PeerIds
<1>4. \A p \in PeerIds : (Unreported(p)' <=> Unreported(p)) /\ (IsInbound(p)' <=> IsInbound(p))
                         /\ GroupOf(p)' = GroupOf(p)
  BY <1>3 DEF Unreported, IsInbound, GroupOf, ChansSame
<1>5. Unreported(n)' /\ (IsInbound(n)' <=> r.req = 0)
  BY <1>2 DEF Unreported, IsInbound
<1>6. SvTypes'
  <2>1. newPeers \in Seq(PeerIds') /\ donePeers \in Seq(PeerIds') /\ banPeers \in Seq(PeerIds')
    BY <1>3 DEF SvTypes
  <2>2. \A p \in PeerIds' : ~IsInbound(p)' => svPeers'[p].addr \in NetAddr
    BY <1>2, <1>3, <1>4, <1>5 DEF SvTypes
  <2> QED
    BY <1>2, <2>1, <2>2 DEF SvTypes, ChansSame
<1>7. Tables'
  <2>1. Listed' = Listed /\ PeerCount' = PeerCount /\ Listed \subseteq PeerIds
    BY DEF Listed, PeerCount, TablesSame, Tables
  <2>2. GroupsMatch'
    <3> SUFFICES ASSUME NEW g \in Groups
                 PROVE  outboundGroups[g] = Cardinality({p \in outboundPeers \cup persistentPeers : GroupOf(p)' = g})
      BY DEF GroupsMatch, TablesSame
    <3>1. {p \in outboundPeers \cup persistentPeers : GroupOf(p)' = g}
            = {p \in outboundPeers \cup persistentPeers : GroupOf(p) = g}
      BY <1>4, <2>1 DEF Listed
    <3> QED
      BY <3>1 DEF Tables, GroupsMatch
  <2>3. /\ \A p \in inboundPeers : IsInbound(p)'
        /\ \A p \in outboundPeers \cup persistentPeers : ~IsInbound(p)'
    BY <1>4, <2>1 DEF Tables, Listed
  <2> QED
    BY <1>3, <2>1, <2>2, <2>3 DEF Tables, TablesSame
<1>8. Reports'
  <2>1. ~In(n, newPeers) /\ ~In(n, donePeers)
    BY <1>3 DEF SvTypes, In
  <2>2. n \notin Listed /\ Listed' = Listed /\ Listed \subseteq PeerIds
    BY <1>3 DEF Tables, Listed, TablesSame
  <2> QED
    BY <1>2, <1>3, <2>1, <2>2 DEF Reports, ChansSame
<1> QED
  BY <1>2, <1>3, <1>4, <1>5, <1>6, <1>7, <1>8

\* The peers are the same but for what their connections have come to.
SamePeers ==
    /\ svPeers' \in Seq(PeerRec) /\ Len(svPeers') = Len(svPeers)
    /\ \A p \in PeerIds : /\ svPeers'[p].req = svPeers[p].req /\ svPeers'[p].addr = svPeers[p].addr
                          /\ svPeers'[p].persistent = svPeers[p].persistent

\* A step of a peer or of peerHandler that does not concern the connection manager.
LEMMA SamePeersFacts ==
    ASSUME ServerIInv, svRun = "run", SamePeers, CmSame, svRun' = svRun,
           \A p \in PeerIds : Unreported(p)' <=> Unreported(p)
    PROVE  CmTypes' /\ (\A id \in CmIds' : ReqOK(id)') /\ Owns' /\ Kept'
<1>1. CmTypes /\ (\A j \in CmIds : ReqOK(j)) /\ Owns /\ Kept
  BY DEF ServerIInv
<1>2. PeerIds' = PeerIds /\ CmIds' = CmIds
  BY DEF SamePeers, PeerIds, CmSame, CmIds
<1>3. \A p \in PeerIds : IsInbound(p)' <=> IsInbound(p)
  BY DEF SamePeers, IsInbound
<1>4. CmTypes'
  BY <1>1, <1>2 DEF CmTypes, CmSame
<1>5. \A id \in CmIds' : ReqOK(id)'
  BY <1>1, <1>2 DEF ReqOK, CmSame
<1>6. Owns'
  <2>1. \A p \in PeerIds : ~IsInbound(p)' /\ Unreported(p)' =>
           /\ svPeers'[p].req \in cmConns' /\ cmAt'[svPeers'[p].req] = "none"
           /\ svPeers'[p].persistent = connReqs'[svPeers'[p].req].perm
    BY <1>1, <1>3 DEF Owns, SamePeers, CmSame
  <2>2. \A p, q \in PeerIds : ~IsInbound(p)' /\ Unreported(p)' /\ Unreported(q)' /\ svPeers'[p].req = svPeers'[q].req
           => p = q
    BY <1>1, <1>3 DEF Owns, SamePeers
  <2>3. \A id \in cmConns' : cmAt'[id] = "established" \/ \E p \in PeerIds : svPeers'[p].req = id /\ Unreported(p)'
    BY <1>1 DEF Owns, SamePeers, CmSame
  <2> QED
    BY <1>2, <2>1, <2>2, <2>3 DEF Owns
<1>7. Kept'
  <2>1. Active' = Active
    BY <1>2 DEF Active, CmSame
  <2> QED
    BY <1>1, <2>1 DEF Kept, CmSame
<1> QED
  BY <1>4, <1>5, <1>6, <1>7

\* Queues change, the peers stay what they are: the types hold.
LEMMA SvTypesKept ==
    ASSUME SvTypes, SamePeers, svRun' = svRun, cmStop' = cmStop,
           newPeers' \in Seq(PeerIds), donePeers' \in Seq(PeerIds), banPeers' \in Seq(PeerIds)
    PROVE  SvTypes'
<1>1. PeerIds' = PeerIds
  BY DEF SamePeers, PeerIds
<1>2. \A p \in PeerIds : ~IsInbound(p)' => svPeers'[p].addr \in NetAddr
  BY DEF SvTypes, SamePeers, IsInbound
<1> QED
  BY <1>1, <1>2 DEF SvTypes, SamePeers

\* Neither peers nor tables change: the groups still match.
LEMMA TablesKept ==
    ASSUME Tables, SamePeers, TablesSame
    PROVE  Tables' /\ Listed' = Listed
<1>1. PeerIds' = PeerIds
  BY DEF SamePeers, PeerIds
<1>2. \A p \in PeerIds : (IsInbound(p)' <=> IsInbound(p)) /\ GroupOf(p)' = GroupOf(p)
  BY DEF SamePeers, IsInbound, GroupOf
<1>3. Listed' = Listed /\ PeerCount' = PeerCount /\ Listed \subseteq PeerIds
  BY DEF Listed, PeerCount, TablesSame, Tables
<1>4. GroupsMatch'
  <2> SUFFICES ASSUME NEW g \in Groups
               PROVE  outboundGroups[g] = Cardinality({p \in outboundPeers \cup persistentPeers : GroupOf(p)' = g})
    BY DEF GroupsMatch, TablesSame
  <2>1. {p \in outboundPeers \cup persistentPeers : GroupOf(p)' = g}
          = {p \in outboundPeers \cup persistentPeers : GroupOf(p) = g}
    BY <1>2, <1>3 DEF Listed
  <2> QED
    BY <2>1 DEF Tables, GroupsMatch
<1>5. /\ \A p \in inboundPeers : IsInbound(p)'
      /\ \A p \in outboundPeers \cup persistentPeers : ~IsInbound(p)'
  BY <1>2, <1>3 DEF Tables, Listed
<1> QED
  BY <1>1, <1>3, <1>4, <1>5 DEF Tables, TablesSame

\* Putting a peer that is not there at the end of a queue leaves every peer in it once.
LEMMA AppendOnce ==
    ASSUME NEW S, NEW s \in Seq(S), NEW x \in S, NEW t, t = Append(s, x)
    PROVE  /\ t \in Seq(S) /\ (\A y : In(y, t) <=> In(y, s) \/ y = x)
           /\ Once(s) /\ ~In(x, s) => Once(t)
<1>1. /\ t \in Seq(S) /\ DOMAIN s = 1..Len(s) /\ DOMAIN t = 1..(Len(s) + 1) /\ t[Len(s) + 1] = x
      /\ \A i \in 1..Len(s) : t[i] = s[i]
      /\ Len(s) \in Nat
  OBVIOUS
<1>2. DOMAIN t = DOMAIN s \cup {Len(s) + 1}
  BY <1>1
<1>3. \A y : In(y, t) <=> In(y, s) \/ y = x
  BY <1>1, <1>2 DEF In
<1>4. ASSUME Once(s), ~In(x, s) PROVE Once(t)
  BY <1>1, <1>2, <1>4 DEF Once, In
<1> QED
  BY <1>1, <1>3, <1>4

\* Taking the first peer off a queue in which every peer is once takes it off altogether.
LEMMA TailOnce ==
    ASSUME NEW S, NEW s \in Seq(S), s # <<>>, NEW t, t = Tail(s)
    PROVE  /\ t \in Seq(S) /\ Head(s) \in S /\ In(Head(s), s)
           /\ Once(s) => Once(t) /\ \A y : In(y, t) <=> In(y, s) /\ y # Head(s)
<1>1. /\ t \in Seq(S) /\ Head(s) = s[1] /\ DOMAIN s = 1..Len(s) /\ DOMAIN t = 1..(Len(s) - 1)
      /\ \A i \in 1..(Len(s) - 1) : t[i] = s[i + 1]
      /\ Len(s) \in Nat /\ Len(s) >= 1 /\ s[1] \in S
  OBVIOUS
<1>2. In(Head(s), s)
  BY <1>1 DEF In
<1>3. ASSUME Once(s) PROVE Once(t)
  BY <1>1, <1>3 DEF Once
<1>4. ASSUME Once(s), NEW y, In(y, t) PROVE In(y, s) /\ y # Head(s)
  <2>1. PICK i \in 1..(Len(s) - 1) : t[i] = y
    BY <1>1, <1>4 DEF In
  <2>2. i + 1 \in 1..Len(s) /\ s[i + 1] = y /\ i + 1 # 1
    BY <1>1, <2>1
  <2> QED
    BY <1>1, <1>4, <2>2 DEF In, Once
<1>5. ASSUME NEW y, In(y, s), y # Head(s) PROVE In(y, t)
  <2>1. PICK i \in 1..Len(s) : s[i] = y
    BY <1>1, <1>5 DEF In
  <2>2. i - 1 \in 1..(Len(s) - 1) /\ t[i - 1] = y
    BY <1>1, <1>5, <2>1
  <2> QED
    BY <1>1, <2>2 DEF In
<1> QED
  BY <1>1, <1>2, <1>3, <1>4, <1>5

-----------------------------------------------------------------------------
(* Peers join and leave the tables *)

\* The outbound peers of a group.
GroupSet(g) == {p \in outboundPeers \cup persistentPeers : GroupOf(p) = g}

\* The outbound peers of a group are finitely many.
LEMMA GroupFacts ==
    ASSUME Tables, NEW g
    PROVE  IsFiniteSet(GroupSet(g)) /\ Cardinality(GroupSet(g)) \in Nat
<1>1. IsFiniteSet(outboundPeers \cup persistentPeers)
  BY FS_Union DEF Tables
<1>2. GroupSet(g) \subseteq outboundPeers \cup persistentPeers
  BY DEF GroupSet
<1> QED
  BY <1>1, <1>2, FS_Subset, FS_CardinalityType

\* The tables have a number of peers.
LEMMA CountFacts ==
    ASSUME Tables
    PROVE  /\ Cardinality(inboundPeers) \in Nat /\ Cardinality(outboundPeers) \in Nat
           /\ Cardinality(persistentPeers) \in Nat /\ MaxPeers \in Nat
  BY FS_CardinalityType, ServerAssumption DEF Tables

\* However a peer leaves, the count of its group follows, and only then.
LEMMA LeaveFacts ==
    ASSUME SvTypes, Tables, SamePeers, NEW p \in PeerIds, LeaveList(p)
    PROVE  Tables' /\ Listed' = Listed \ {p}
<1>1. PeerIds' = PeerIds
  BY DEF SamePeers, PeerIds
<1>2. \A q \in PeerIds : (IsInbound(q)' <=> IsInbound(q)) /\ GroupOf(q)' = GroupOf(q)
  BY DEF SamePeers, IsInbound, GroupOf
<1>3. /\ inboundPeers' = inboundPeers \ {p} /\ outboundPeers' = outboundPeers \ {p}
      /\ persistentPeers' = persistentPeers \ {p}
  BY DEF LeaveList
<1>4. Listed' = Listed \ {p} /\ Listed \subseteq PeerIds
  BY <1>3 DEF Listed, Tables
<1>5. /\ IsFiniteSet(inboundPeers') /\ IsFiniteSet(outboundPeers') /\ IsFiniteSet(persistentPeers')
      /\ Cardinality(inboundPeers') <= Cardinality(inboundPeers)
      /\ Cardinality(outboundPeers') <= Cardinality(outboundPeers)
      /\ Cardinality(persistentPeers') <= Cardinality(persistentPeers)
      /\ Cardinality(inboundPeers') \in Nat /\ Cardinality(outboundPeers') \in Nat
      /\ Cardinality(persistentPeers') \in Nat
  <2>1. /\ inboundPeers' \subseteq inboundPeers /\ outboundPeers' \subseteq outboundPeers
        /\ persistentPeers' \subseteq persistentPeers
    BY <1>3
  <2> QED
    BY <2>1, FS_Subset, FS_CardinalityType DEF Tables
<1>6. PeerCount' <= MaxPeers
  <2>1. Cardinality(inboundPeers) + Cardinality(outboundPeers) + Cardinality(persistentPeers) <= MaxPeers
    BY DEF Tables, PeerCount
  <2>2. Cardinality(inboundPeers') + Cardinality(outboundPeers') + Cardinality(persistentPeers') <= MaxPeers
    BY <1>5, <2>1, CountFacts
  <2> QED
    BY <2>2 DEF PeerCount
<1>7. /\ \A q \in inboundPeers' : IsInbound(q)'
      /\ \A q \in outboundPeers' \cup persistentPeers' : ~IsInbound(q)'
  BY <1>2, <1>3, <1>4 DEF Tables, Listed
<1>8. \A g : GroupSet(g)' = GroupSet(g) \ {p}
  <2> SUFFICES ASSUME NEW g PROVE GroupSet(g)' = GroupSet(g) \ {p}
    OBVIOUS
  <2>1. \A q \in outboundPeers \cup persistentPeers : GroupOf(q)' = GroupOf(q)
    BY <1>2, <1>4 DEF Listed
  <2>2. GroupSet(g)' = {q \in outboundPeers' \cup persistentPeers' : GroupOf(q)' = g}
    BY DEF GroupSet
  <2> QED
    BY <1>3, <2>1, <2>2 DEF GroupSet
<1>9. outboundGroups \in [Groups -> Nat] /\ \A g \in Groups : outboundGroups[g] = Cardinality(GroupSet(g))
  BY DEF Tables, GroupsMatch, GroupSet
<1>10. outboundGroups' \in [Groups -> Nat] /\ \A g \in Groups : outboundGroups'[g] = Cardinality(GroupSet(g)')
  <2>1. CASE p \notin outboundPeers \cup persistentPeers
    <3>1. \A g : p \notin GroupSet(g)
      BY <2>1 DEF GroupSet
    <3>2. IsInbound(p) \/ p \notin Listed
      BY <2>1 DEF Listed, Tables
    <3>3. outboundGroups' = outboundGroups
      BY <3>2 DEF LeaveList
    <3>4. \A g : GroupSet(g)' = GroupSet(g)
      BY <1>8, <3>1
    <3> QED
      BY <1>9, <3>3, <3>4
  <2>2. CASE p \in outboundPeers \cup persistentPeers
    <3>1. ~IsInbound(p) /\ p \in Listed
      BY <2>2 DEF Tables, Listed
    <3>2. PICK h : h = GroupOf(p)
      OBVIOUS
    <3>3. h \in Groups
      BY <3>1, <3>2 DEF SvTypes, GroupOf, Groups
    <3>4. outboundGroups' = [outboundGroups EXCEPT ![h] = outboundGroups[h] - 1]
      BY <3>1, <3>2 DEF LeaveList
    <3>5. p \in GroupSet(h) /\ \A g : g # h => p \notin GroupSet(g)
      BY <2>2, <3>2 DEF GroupSet
    <3>6. /\ Cardinality(GroupSet(h) \ {p}) = Cardinality(GroupSet(h)) - 1
          /\ Cardinality(GroupSet(h) \ {p}) \in Nat
      <4>1. IsFiniteSet(GroupSet(h))
        BY GroupFacts
      <4> QED
        BY <3>5, <4>1, FS_RemoveElement, FS_CardinalityType
    <3>7. outboundGroups[h] - 1 = Cardinality(GroupSet(h)') /\ outboundGroups[h] - 1 \in Nat
      BY <1>8, <1>9, <3>3, <3>6
    <3>8. \A g : g # h => GroupSet(g)' = GroupSet(g)
      BY <1>8, <3>5
    <3>9. outboundGroups' \in [Groups -> Nat]
      BY <1>9, <3>4, <3>7
    <3>10. ASSUME NEW g \in Groups PROVE outboundGroups'[g] = Cardinality(GroupSet(g)')
      <4>1. CASE g = h
        BY <1>9, <3>4, <3>7, <4>1
      <4>2. CASE g # h
        BY <1>9, <3>4, <3>8, <4>2
      <4> QED
        BY <4>1, <4>2
    <3> QED
      BY <3>9, <3>10
  <2> QED
    BY <2>1, <2>2
<1>11. GroupsMatch'
  BY <1>10 DEF GroupsMatch, GroupSet
<1> QED
  BY <1>1, <1>4, <1>5, <1>6, <1>7, <1>10, <1>11 DEF Tables

\* A peer joins the table of its kind.
Joins(p) ==
    \/ /\ IsInbound(p) /\ inboundPeers' = inboundPeers \cup {p} /\ outboundPeers' = outboundPeers
       /\ persistentPeers' = persistentPeers /\ outboundGroups' = outboundGroups
    \/ /\ ~IsInbound(p) /\ inboundPeers' = inboundPeers
       /\ outboundGroups' = [outboundGroups EXCEPT ![GroupOf(p)] = @ + 1]
       /\ \/ outboundPeers' = outboundPeers \cup {p} /\ persistentPeers' = persistentPeers
          \/ outboundPeers' = outboundPeers /\ persistentPeers' = persistentPeers \cup {p}

\* A peer that joins a table is counted in its group, and only there.
LEMMA JoinFacts ==
    ASSUME SvTypes, Tables, svPeers' = svPeers, NEW p \in PeerIds, p \notin Listed,
           PeerCount < MaxPeers, Joins(p)
    PROVE  Tables' /\ Listed' = Listed \cup {p}
<1>1. PeerIds' = PeerIds /\ \A q : (IsInbound(q)' <=> IsInbound(q)) /\ GroupOf(q)' = GroupOf(q)
  BY DEF PeerIds, IsInbound, GroupOf
<1>2. Listed' = Listed \cup {p} /\ Listed \subseteq PeerIds
  BY DEF Listed, Tables, Joins
<1>3. /\ p \notin inboundPeers /\ p \notin outboundPeers /\ p \notin persistentPeers
      /\ IsFiniteSet(inboundPeers) /\ IsFiniteSet(outboundPeers) /\ IsFiniteSet(persistentPeers)
  BY DEF Listed, Tables
<1>4. /\ IsFiniteSet(inboundPeers \cup {p}) /\ Cardinality(inboundPeers \cup {p}) = Cardinality(inboundPeers) + 1
      /\ IsFiniteSet(outboundPeers \cup {p}) /\ Cardinality(outboundPeers \cup {p}) = Cardinality(outboundPeers) + 1
      /\ IsFiniteSet(persistentPeers \cup {p})
      /\ Cardinality(persistentPeers \cup {p}) = Cardinality(persistentPeers) + 1
  BY <1>3, FS_AddElement
<1>5. /\ IsFiniteSet(inboundPeers') /\ IsFiniteSet(outboundPeers') /\ IsFiniteSet(persistentPeers')
      /\ PeerCount' = PeerCount + 1
  <2>1. CASE inboundPeers' = inboundPeers \cup {p} /\ outboundPeers' = outboundPeers /\ persistentPeers' = persistentPeers
    BY <1>3, <1>4, <2>1, CountFacts DEF PeerCount
  <2>2. CASE inboundPeers' = inboundPeers /\ outboundPeers' = outboundPeers \cup {p} /\ persistentPeers' = persistentPeers
    BY <1>3, <1>4, <2>2, CountFacts DEF PeerCount
  <2>3. CASE inboundPeers' = inboundPeers /\ outboundPeers' = outboundPeers /\ persistentPeers' = persistentPeers \cup {p}
    BY <1>3, <1>4, <2>3, CountFacts DEF PeerCount
  <2> QED
    BY <2>1, <2>2, <2>3 DEF Joins
<1>6. PeerCount' <= MaxPeers
  <2>1. PeerCount \in Nat /\ MaxPeers \in Nat
    BY CountFacts DEF PeerCount
  <2> QED
    BY <1>5, <2>1
<1>7. /\ \A q \in inboundPeers' : IsInbound(q)'
      /\ \A q \in outboundPeers' \cup persistentPeers' : ~IsInbound(q)'
  BY <1>1 DEF Tables, Joins
<1>8. outboundGroups \in [Groups -> Nat] /\ \A g \in Groups : outboundGroups[g] = Cardinality(GroupSet(g))
  BY DEF Tables, GroupsMatch, GroupSet
<1>9. outboundGroups' \in [Groups -> Nat] /\ \A g \in Groups : outboundGroups'[g] = Cardinality(GroupSet(g)')
  <2>0. \A g : GroupSet(g)' = {q \in outboundPeers' \cup persistentPeers' : GroupOf(q) = g}
    BY <1>1 DEF GroupSet
  <2>1. CASE IsInbound(p)
    <3>1. outboundGroups' = outboundGroups /\ outboundPeers' = outboundPeers /\ persistentPeers' = persistentPeers
      BY <2>1 DEF Joins
    <3>2. \A g : GroupSet(g)' = GroupSet(g)
      BY <2>0, <3>1 DEF GroupSet
    <3> QED
      BY <1>8, <3>1, <3>2
  <2>2. CASE ~IsInbound(p)
    <3>2. PICK h : h = GroupOf(p)
      OBVIOUS
    <3>3. h \in Groups
      BY <2>2, <3>2 DEF SvTypes, GroupOf, Groups
    <3>4. /\ outboundGroups' = [outboundGroups EXCEPT ![h] = outboundGroups[h] + 1]
          /\ outboundPeers' \cup persistentPeers' = (outboundPeers \cup persistentPeers) \cup {p}
      BY <2>2, <3>2 DEF Joins
    <3>5. p \notin GroupSet(h) /\ GroupSet(h)' = GroupSet(h) \cup {p}
      BY <1>3, <2>0, <3>2, <3>4 DEF GroupSet
    <3>6. Cardinality(GroupSet(h) \cup {p}) = Cardinality(GroupSet(h)) + 1
      <4>1. IsFiniteSet(GroupSet(h))
        BY GroupFacts
      <4> QED
        BY <3>5, <4>1, FS_AddElement
    <3>7. outboundGroups[h] + 1 = Cardinality(GroupSet(h)') /\ outboundGroups[h] + 1 \in Nat
      BY <1>8, <3>3, <3>5, <3>6
    <3>8. \A g : g # h => GroupSet(g)' = GroupSet(g)
      BY <2>0, <3>2, <3>4 DEF GroupSet
    <3>9. outboundGroups' \in [Groups -> Nat]
      BY <1>8, <3>4, <3>7
    <3>10. ASSUME NEW g \in Groups PROVE outboundGroups'[g] = Cardinality(GroupSet(g)')
      <4>1. CASE g = h
        BY <1>8, <3>4, <3>7, <4>1
      <4>2. CASE g # h
        BY <1>8, <3>4, <3>8, <4>2
      <4> QED
        BY <4>1, <4>2
    <3> QED
      BY <3>9, <3>10
  <2> QED
    BY <2>1, <2>2
<1>10. GroupsMatch'
  BY <1>9 DEF GroupsMatch, GroupSet
<1> QED
  BY <1>1, <1>2, <1>5, <1>6, <1>7, <1>9, <1>10 DEF Tables

-----------------------------------------------------------------------------
(* The steps of the peers and of peerHandler *)

\* The fields of a peer have their types.
LEMMA PeerFields ==
    ASSUME SvTypes, NEW p \in PeerIds
    PROVE  /\ svPeers[p] \in PeerRec /\ svPeers[p].connected \in BOOLEAN /\ svPeers[p].verack \in BOOLEAN
           /\ svPeers[p].done \in BOOLEAN /\ svPeers[p].persistent \in BOOLEAN
<1>1. svPeers[p] \in PeerRec
  BY DEF SvTypes, PeerIds
<1> QED
  BY <1>1 DEF PeerRec

\* Disconnecting peers changes nothing but whether they are connected.
LEMMA HangupFacts ==
    ASSUME SvTypes, NEW ps, Hangup(ps)
    PROVE  /\ SamePeers
           /\ \A p \in PeerIds : /\ svPeers'[p].verack = svPeers[p].verack /\ svPeers'[p].done = svPeers[p].done
                                 /\ svPeers'[p].connected => svPeers[p].connected
<1>1. svPeers \in Seq(PeerRec) /\ Len(svPeers) \in Nat
  BY DEF SvTypes
<1>2. ASSUME NEW p \in PeerIds
      PROVE  /\ svPeers'[p] \in PeerRec
             /\ svPeers'[p].req = svPeers[p].req /\ svPeers'[p].addr = svPeers[p].addr
             /\ svPeers'[p].persistent = svPeers[p].persistent
             /\ svPeers'[p].verack = svPeers[p].verack /\ svPeers'[p].done = svPeers[p].done
             /\ svPeers'[p].connected => svPeers[p].connected
  <2>1. svPeers[p] \in PeerRec
    BY PeerFields
  <2>2. svPeers'[p] = IF p \in ps THEN [svPeers[p] EXCEPT !.connected = FALSE] ELSE svPeers[p]
    BY DEF Hangup
  <2> QED
    BY <2>1, <2>2 DEF PeerRec
<1>3. svPeers' \in [1..Len(svPeers) -> PeerRec]
  BY <1>2 DEF Hangup, PeerIds
<1>4. svPeers' \in Seq(PeerRec) /\ Len(svPeers') = Len(svPeers)
  BY <1>1, <1>3
<1> QED
  BY <1>2, <1>4 DEF SamePeers

\* One flag of one peer is set.
LEMMA FlagFacts ==
    ASSUME SvTypes, NEW p \in PeerIds, NEW r \in PeerRec, svPeers' = [svPeers EXCEPT ![p] = r],
           r.req = svPeers[p].req, r.addr = svPeers[p].addr, r.persistent = svPeers[p].persistent
    PROVE  SamePeers /\ svPeers'[p] = r /\ \A q \in PeerIds \ {p} : svPeers'[q] = svPeers[q]
<1>1. svPeers \in Seq(PeerRec) /\ p \in 1..Len(svPeers)
  BY DEF SvTypes, PeerIds
<1>2. /\ svPeers' \in Seq(PeerRec) /\ Len(svPeers') = Len(svPeers) /\ svPeers'[p] = r
      /\ \A q \in 1..Len(svPeers) \ {p} : svPeers'[q] = svPeers[q]
  BY <1>1, ExceptInSeq
<1> QED
  BY <1>2 DEF SamePeers, PeerIds

\* There are peers only once the server runs.
LEMMA RunsWithPeers ==
    ASSUME ServerIInv, svRun # "done", NEW p \in PeerIds
    PROVE  svRun = "run"
<1>1. Kept /\ SvTypes
  BY DEF ServerIInv
<1>2. svRun # "start"
  BY <1>1 DEF Kept, PeerIds
<1> QED
  BY <1>1, <1>2 DEF SvTypes

\* A peer that has its verack is sent to peerHandler as new.
LEMMA OnVerAckStep ==
    ASSUME ServerIInv, svRun = "run", NEW p \in PeerIds, OnVerAck(p)
    PROVE  ServerIInv'
<1> DEFINE r == [svPeers[p] EXCEPT !.verack = TRUE]
<1>1. CmTypes /\ SvTypes /\ Tables /\ Reports
  BY DEF ServerIInv
<1>2. svPeers[p] \in PeerRec
  BY <1>1, PeerFields
<1>3. svPeers' = [svPeers EXCEPT ![p] = r]
  BY DEF OnVerAck
<1>4. /\ r \in PeerRec /\ r.req = svPeers[p].req /\ r.addr = svPeers[p].addr
      /\ r.persistent = svPeers[p].persistent /\ r.done = svPeers[p].done
      /\ r.connected = svPeers[p].connected /\ r.verack = TRUE
  BY <1>2 DEF PeerRec
<1> HIDE DEF r
<1>5. SamePeers /\ svPeers'[p] = r /\ \A q \in PeerIds \ {p} : svPeers'[q] = svPeers[q]
  BY <1>1, <1>3, <1>4, FlagFacts
<1>6. /\ ~svPeers[p].verack /\ newPeers' = Append(newPeers, p) /\ donePeers' = donePeers /\ banPeers' = banPeers
      /\ TablesSame /\ CmSame /\ svRun' = svRun
  BY DEF OnVerAck, TablesSame, CmSame, svRest, svState, cmVars, cmTables
<1>7. \A q \in PeerIds : svPeers'[q].done = svPeers[q].done /\ svPeers'[q].connected = svPeers[q].connected
                         /\ (svPeers[q].verack => svPeers'[q].verack)
  BY <1>4, <1>5
<1>8. \A q \in PeerIds : Unreported(q)' <=> Unreported(q)
  BY <1>6, <1>7 DEF Unreported
<1>9. CmTypes' /\ (\A id \in CmIds' : ReqOK(id)') /\ Owns' /\ Kept'
  BY <1>5, <1>6, <1>8, SamePeersFacts
<1>10. ~In(p, newPeers) /\ p \notin Listed
  BY <1>1, <1>6 DEF Reports
<1>11. newPeers' \in Seq(PeerIds) /\ Once(newPeers') /\ \A q : In(q, newPeers') <=> In(q, newPeers) \/ q = p
  <2>1. newPeers \in Seq(PeerIds) /\ Once(newPeers)
    BY <1>1 DEF SvTypes, Reports
  <2> QED
    BY <1>6, <1>10, <2>1, AppendOnce
<1>12. SvTypes'
  <2>1. donePeers' \in Seq(PeerIds) /\ banPeers' \in Seq(PeerIds) /\ cmStop' = cmStop
    BY <1>1, <1>6 DEF SvTypes, CmSame
  <2> QED
    BY <1>1, <1>5, <1>6, <1>11, <2>1, SvTypesKept
<1>13. Tables' /\ Listed' = Listed /\ PeerIds' = PeerIds
  BY <1>1, <1>5, <1>6, TablesKept DEF PeerIds, SamePeers
<1>14. Reports'
  <2>1. \A q \in PeerIds : In(q, newPeers') \/ q \in Listed => svPeers'[q].verack
    BY <1>1, <1>4, <1>5, <1>7, <1>11 DEF Reports
  <2>2. \A q \in PeerIds : In(q, newPeers') => q \notin Listed
    BY <1>1, <1>10, <1>11 DEF Reports
  <2>3. Listed \subseteq PeerIds
    BY <1>1 DEF Tables
  <2> QED
    BY <1>1, <1>6, <1>7, <1>11, <1>13, <2>1, <2>2, <2>3 DEF Reports
<1> QED
  BY <1>9, <1>12, <1>13, <1>14 DEF ServerIInv

\* A connection ends, is refused or is taken down by disconnectNode: nothing
\* but connected changes, newPeers may lose its first report and the tables
\* the peer.
LEMMA HangupStep ==
    ASSUME ServerIInv, svRun = "run", NEW ps, Hangup(ps), CmSame, svRun' = svRun,
           donePeers' = donePeers, banPeers' \in Seq(PeerIds),
           newPeers' \in Seq(PeerIds), Once(newPeers'), \A q : In(q, newPeers') => In(q, newPeers),
           Tables', Listed' \subseteq Listed
    PROVE  ServerIInv'
<1>1. CmTypes /\ SvTypes /\ Tables /\ Reports
  BY DEF ServerIInv
<1>2. /\ SamePeers
      /\ \A p \in PeerIds : /\ svPeers'[p].verack = svPeers[p].verack /\ svPeers'[p].done = svPeers[p].done
                            /\ svPeers'[p].connected => svPeers[p].connected
  BY <1>1, HangupFacts
<1>3. \A q \in PeerIds : Unreported(q)' <=> Unreported(q)
  BY <1>2 DEF Unreported
<1>4. CmTypes' /\ (\A id \in CmIds' : ReqOK(id)') /\ Owns' /\ Kept'
  BY <1>2, <1>3, SamePeersFacts
<1>5. SvTypes'
  <2>1. donePeers' \in Seq(PeerIds) /\ cmStop' = cmStop
    BY <1>1 DEF SvTypes, CmSame
  <2> QED
    BY <1>1, <1>2, <2>1, SvTypesKept
<1>6. PeerIds' = PeerIds /\ Listed \subseteq PeerIds
  BY <1>1, <1>2 DEF PeerIds, SamePeers, Tables
<1>7. Reports'
  <2>1. \A q \in PeerIds : In(q, newPeers') \/ q \in Listed' => svPeers'[q].verack
    BY <1>1, <1>2 DEF Reports
  <2>2. \A q \in PeerIds : In(q, newPeers') => q \notin Listed'
    BY <1>1 DEF Reports
  <2>3. \A q \in Listed' : svPeers'[q].done => In(q, donePeers')
    BY <1>1, <1>2, <1>6 DEF Reports
  <2>4. \A q \in PeerIds : /\ svPeers'[q].done => ~svPeers'[q].connected
                           /\ In(q, donePeers') => svPeers'[q].done
    BY <1>1, <1>2 DEF Reports
  <2>5. Once(donePeers')
    BY <1>1 DEF Reports
  <2> QED
    BY <1>6, <2>1, <2>2, <2>3, <2>4, <2>5 DEF Reports
<1> QED
  BY <1>4, <1>5, <1>7 DEF ServerIInv

\* A peer hangs up, or is banned and hangs up.
LEMMA PeerDisconnectsStep ==
    ASSUME ServerIInv, svRun = "run", NEW p \in PeerIds, PeerDisconnects(p)
    PROVE  ServerIInv'
<1>1. SvTypes /\ Tables /\ Reports
  BY DEF ServerIInv
<1>2. /\ Hangup({p}) /\ CmSame /\ svRun' = svRun /\ TablesSame /\ donePeers' = donePeers /\ newPeers' = newPeers
      /\ banPeers' = banPeers \/ banPeers' = Append(banPeers, p)
  BY DEF PeerDisconnects, TablesSame, CmSame, svRest, svState, cmVars, cmTables
<1>3. SamePeers
  BY <1>1, <1>2, HangupFacts
<1>4. Tables' /\ Listed' = Listed
  BY <1>1, <1>2, <1>3, TablesKept
<1>5. banPeers' \in Seq(PeerIds)
  <2>1. banPeers \in Seq(PeerIds)
    BY <1>1 DEF SvTypes
  <2> QED
    BY <1>2, <2>1
<1>6. newPeers \in Seq(PeerIds) /\ Once(newPeers)
  BY <1>1 DEF SvTypes, Reports
<1> QED
  BY <1>2, <1>4, <1>5, <1>6, HangupStep

\* The user disconnects peers: they hang up and leave the tables.
LEMMA DisconnectNodeStep ==
    ASSUME ServerIInv, svRun = "run", NEW p \in PeerIds, DisconnectNode(p)
    PROVE  ServerIInv'
<1>1. SvTypes /\ Tables /\ Reports
  BY DEF ServerIInv
<1>2. /\ Hangup({p}) /\ LeaveList(p) /\ CmSame /\ svRun' = svRun
      /\ donePeers' = donePeers /\ newPeers' = newPeers /\ banPeers' = banPeers
  BY DEF DisconnectNode, CmSame, svChans, cmVars, cmTables
<1>3. SamePeers
  BY <1>1, <1>2, HangupFacts
<1>4. Tables' /\ Listed' = Listed \ {p}
  BY <1>1, <1>2, <1>3, LeaveFacts
<1>5. banPeers \in Seq(PeerIds) /\ newPeers \in Seq(PeerIds) /\ Once(newPeers)
  BY <1>1 DEF SvTypes, Reports
<1> QED
  BY <1>2, <1>4, <1>5, HangupStep

\* The goroutine that waits for a peer to end reports it, and its request.
LEMMA PeerDoneHandlerStep ==
    ASSUME ServerIInv, svRun = "run", NEW p \in PeerIds, PeerDoneHandler(p)
    PROVE  ServerIInv'
<1> DEFINE r == [svPeers[p] EXCEPT !.done = TRUE]
<1>1. CmTypes /\ SvTypes /\ Tables /\ Reports
  BY DEF ServerIInv
<1>2. svPeers[p] \in PeerRec
  BY <1>1, PeerFields
<1>3. svPeers' = [svPeers EXCEPT ![p] = r]
  BY DEF PeerDoneHandler
<1>4. /\ r \in PeerRec /\ r.req = svPeers[p].req /\ r.addr = svPeers[p].addr
      /\ r.persistent = svPeers[p].persistent /\ r.verack = svPeers[p].verack
      /\ r.connected = svPeers[p].connected /\ r.done = TRUE
  BY <1>2 DEF PeerRec
<1> HIDE DEF r
<1>5. SamePeers /\ svPeers'[p] = r /\ \A q \in PeerIds \ {p} : svPeers'[q] = svPeers[q]
  BY <1>1, <1>3, <1>4, FlagFacts
<1>6. /\ ~svPeers[p].connected /\ ~svPeers[p].done
      /\ donePeers' = Append(donePeers, p) /\ newPeers' = newPeers /\ banPeers' = banPeers
      /\ TablesSame /\ CmSame /\ svRun' = svRun
  BY DEF PeerDoneHandler, TablesSame, CmSame, svRest, svState, cmVars, cmTables
<1>7. ~In(p, donePeers)
  BY <1>1, <1>6 DEF Reports
<1>8. donePeers' \in Seq(PeerIds) /\ Once(donePeers') /\ \A q : In(q, donePeers') <=> In(q, donePeers) \/ q = p
  <2>1. donePeers \in Seq(PeerIds) /\ Once(donePeers)
    BY <1>1 DEF SvTypes, Reports
  <2> QED
    BY <1>6, <1>7, <2>1, AppendOnce
<1>9. ASSUME NEW q \in PeerIds PROVE Unreported(q)' <=> Unreported(q)
  <2>1. CASE q = p
    BY <1>6, <1>8, <2>1 DEF Unreported
  <2>2. CASE q # p
    BY <1>5, <1>8, <2>2 DEF Unreported
  <2> QED
    BY <2>1, <2>2
<1>10. CmTypes' /\ (\A id \in CmIds' : ReqOK(id)') /\ Owns' /\ Kept'
  BY <1>5, <1>6, <1>9, SamePeersFacts
<1>12. SvTypes'
  <2>1. newPeers' \in Seq(PeerIds) /\ banPeers' \in Seq(PeerIds) /\ cmStop' = cmStop
    BY <1>1, <1>6 DEF SvTypes, CmSame
  <2> QED
    BY <1>1, <1>5, <1>6, <1>8, <2>1, SvTypesKept
<1>13. Tables' /\ Listed' = Listed /\ PeerIds' = PeerIds
  BY <1>1, <1>5, <1>6, TablesKept DEF PeerIds, SamePeers
<1>14. Reports'
  <2>1. \A q \in PeerIds : svPeers'[q].connected = svPeers[q].connected /\ svPeers'[q].verack = svPeers[q].verack
    BY <1>4, <1>5
  <2>2. \A q \in PeerIds : svPeers'[q].done => ~svPeers'[q].connected
    BY <1>1, <1>4, <1>5, <1>6 DEF Reports
  <2>3. \A q \in PeerIds : In(q, donePeers') => svPeers'[q].done
    BY <1>1, <1>4, <1>5, <1>8 DEF Reports
  <2>4. \A q \in Listed : svPeers'[q].done => In(q, donePeers')
    BY <1>1, <1>5, <1>8 DEF Reports, Tables
  <2> QED
    BY <1>1, <1>6, <1>8, <1>13, <2>1, <2>2, <2>3, <2>4 DEF Reports
<1> QED
  BY <1>10, <1>12, <1>13, <1>14 DEF ServerIInv

\* peerHandler takes a new peer: it joins a table, or is refused.
LEMMA HandleAddPeerMsgStep ==
    ASSUME ServerIInv, HandleAddPeerMsg
    PROVE  ServerIInv'
<1>0. svRun = "run" /\ newPeers # <<>> /\ newPeers' = Tail(newPeers)
  BY DEF HandleAddPeerMsg
<1>1. CmTypes /\ SvTypes /\ Tables /\ Reports
  BY <1>0 DEF ServerIInv
<1>2. PICK p : p = Head(newPeers)
  OBVIOUS
<1>3. newPeers \in Seq(PeerIds) /\ Once(newPeers)
  BY <1>1 DEF SvTypes, Reports
<1>4. /\ newPeers' \in Seq(PeerIds) /\ p \in PeerIds /\ In(p, newPeers) /\ Once(newPeers')
      /\ \A y : In(y, newPeers') <=> In(y, newPeers) /\ y # p
  BY <1>0, <1>2, <1>3, TailOnce
<1>5. /\ CmSame /\ svRun' = svRun /\ donePeers' = donePeers /\ banPeers' = banPeers
  BY DEF HandleAddPeerMsg, CmSame, cmVars, cmTables
<1>6. banPeers' \in Seq(PeerIds)
  BY <1>1, <1>5 DEF SvTypes
<1>7. CASE Hangup({p}) /\ TablesSame
  <2>1. SamePeers
    BY <1>1, <1>7, HangupFacts
  <2>2. Tables' /\ Listed' = Listed
    BY <1>1, <1>7, <2>1, TablesKept
  <2> QED
    BY <1>0, <1>4, <1>5, <1>6, <1>7, <2>2, HangupStep
<1>8. CASE Addable(p) /\ svPeers' = svPeers /\ Joins(p)
  <2>1. p \notin Listed /\ svPeers[p].verack /\ svPeers[p].connected /\ PeerCount < MaxPeers
    BY <1>1, <1>4, <1>8 DEF Reports, Addable
  <2>2. Tables' /\ Listed' = Listed \cup {p}
    BY <1>1, <1>4, <1>8, <2>1, JoinFacts
  <2>3. SamePeers
    BY <1>1, <1>8 DEF SamePeers, SvTypes
  <2>4. \A q \in PeerIds : Unreported(q)' <=> Unreported(q)
    BY <1>5, <1>8 DEF Unreported
  <2>5. CmTypes' /\ (\A id \in CmIds' : ReqOK(id)') /\ Owns' /\ Kept'
    BY <1>0, <1>5, <2>3, <2>4, SamePeersFacts
  <2>6. SvTypes'
    <3>1. donePeers' \in Seq(PeerIds) /\ cmStop' = cmStop
      BY <1>1, <1>5 DEF SvTypes, CmSame
    <3> QED
      BY <1>1, <1>4, <1>5, <1>6, <2>3, <3>1, SvTypesKept
  <2>7. Reports'
    <3>1. ~svPeers[p].done
      BY <1>1, <1>4, <2>1 DEF Reports
    <3>2. PeerIds' = PeerIds
      BY <1>8 DEF PeerIds
    <3>3. \A q \in PeerIds : In(q, newPeers') \/ q \in Listed' => svPeers[q].verack
      BY <1>1, <1>4, <2>1, <2>2 DEF Reports
    <3>4. \A q \in PeerIds : In(q, newPeers') => q \notin Listed'
      BY <1>1, <1>4, <2>2 DEF Reports
    <3>5. \A q \in Listed' : svPeers[q].done => In(q, donePeers)
      BY <1>1, <2>2, <3>1 DEF Reports
    <3> QED
      BY <1>1, <1>4, <1>5, <1>8, <3>2, <3>3, <3>4, <3>5 DEF Reports
  <2> QED
    BY <2>2, <2>5, <2>6, <2>7 DEF ServerIInv
<1>9. \/ Hangup({p}) /\ TablesSame
      \/ Addable(p) /\ svPeers' = svPeers /\ Joins(p)
  BY <1>2 DEF HandleAddPeerMsg, Joins, TablesSame
<1> QED
  BY <1>7, <1>8, <1>9

\* peerHandler takes a ban: the host is banned, the tables stay.
LEMMA HandleBanPeerMsgStep ==
    ASSUME ServerIInv, HandleBanPeerMsg
    PROVE  ServerIInv'
<1>0. /\ svRun = "run" /\ banPeers # <<>> /\ banPeers' = Tail(banPeers) /\ svPeers' = svPeers
      /\ TablesSame /\ CmSame /\ svRun' = svRun /\ newPeers' = newPeers /\ donePeers' = donePeers
  BY DEF HandleBanPeerMsg, TablesSame, CmSame, cmVars, cmTables
<1>1. CmTypes /\ SvTypes /\ Tables /\ Reports
  BY <1>0 DEF ServerIInv
<1>2. SamePeers /\ \A q \in PeerIds : Unreported(q)' <=> Unreported(q)
  BY <1>0, <1>1 DEF SamePeers, SvTypes, Unreported
<1>3. CmTypes' /\ (\A id \in CmIds' : ReqOK(id)') /\ Owns' /\ Kept'
  BY <1>0, <1>2, SamePeersFacts
<1>4. newPeers' \in Seq(PeerIds) /\ donePeers' \in Seq(PeerIds) /\ banPeers' \in Seq(PeerIds) /\ cmStop' = cmStop
  <2>1. banPeers \in Seq(PeerIds)
    BY <1>1 DEF SvTypes
  <2> QED
    BY <1>0, <1>1, <2>1 DEF SvTypes, CmSame
<1>5. SvTypes'
  BY <1>0, <1>1, <1>2, <1>4, SvTypesKept
<1>6. Tables' /\ Listed' = Listed /\ PeerIds' = PeerIds
  BY <1>0, <1>1, <1>2, TablesKept DEF PeerIds
<1>7. Reports'
  BY <1>0, <1>1, <1>6 DEF Reports
<1> QED
  BY <1>3, <1>5, <1>6, <1>7 DEF ServerIInv

\* peerHandler hears of the end of a peer: an outbound one gives its connection
\* up, and no other peer owns it.
LEMMA HandleDonePeerMsgStep ==
    ASSUME ServerIInv, HandleDonePeerMsg
    PROVE  ServerIInv'
<1>0. /\ svRun = "run" /\ donePeers # <<>> /\ donePeers' = Tail(donePeers) /\ svPeers' = svPeers
      /\ newPeers' = newPeers /\ banPeers' = banPeers /\ svRun' = svRun /\ svAdHoc' = svAdHoc
  BY DEF HandleDonePeerMsg
<1>1. CmTypes /\ SvTypes /\ Tables /\ Reports /\ Owns /\ Kept /\ \A j \in CmIds : ReqOK(j)
  BY <1>0 DEF ServerIInv
<1>2. PICK p : p = Head(donePeers)
  OBVIOUS
<1>3. donePeers \in Seq(PeerIds) /\ Once(donePeers)
  BY <1>1 DEF SvTypes, Reports
<1>4. /\ donePeers' \in Seq(PeerIds) /\ p \in PeerIds /\ In(p, donePeers) /\ Once(donePeers')
      /\ \A y : In(y, donePeers') <=> In(y, donePeers) /\ y # p
  BY <1>0, <1>2, <1>3, TailOnce
<1>5. TellConnMgr(p) /\ LeaveList(p)
  BY <1>2 DEF HandleDonePeerMsg
<1>6. SamePeers /\ PeerIds' = PeerIds
  BY <1>0, <1>1 DEF SamePeers, SvTypes, PeerIds
<1>7. Tables' /\ Listed' = Listed \ {p}
  BY <1>1, <1>4, <1>5, <1>6, LeaveFacts
<1>8. svPeers[p].done /\ Unreported(p)
  BY <1>1, <1>4 DEF Reports, Unreported
<1>9. /\ ~Unreported(p)'
      /\ \A q \in PeerIds \ {p} : Unreported(q)' <=> Unreported(q)
      /\ \A q \in PeerIds : IsInbound(q)' <=> IsInbound(q)
  BY <1>0, <1>4, <1>8 DEF Unreported, IsInbound
<1>10. Reports'
  <2>1. Listed \subseteq PeerIds
    BY <1>1 DEF Tables
  <2>2. \A q \in PeerIds : In(q, newPeers) \/ q \in Listed' => svPeers[q].verack
    BY <1>1, <1>7 DEF Reports
  <2>3. \A q \in PeerIds : /\ In(q, newPeers) => q \notin Listed'
                           /\ In(q, donePeers') => svPeers[q].done
                           /\ svPeers[q].done => ~svPeers[q].connected
    BY <1>1, <1>4, <1>7 DEF Reports
  <2>4. \A q \in Listed' : svPeers[q].done => In(q, donePeers')
    BY <1>1, <1>4, <1>7 DEF Reports
  <2>5. Once(newPeers)
    BY <1>1 DEF Reports
  <2> QED
    BY <1>0, <1>4, <1>6, <2>2, <2>3, <2>4, <2>5 DEF Reports
<1>11. ASSUME cmStop' = cmStop PROVE SvTypes'
  <2>1. newPeers' \in Seq(PeerIds) /\ banPeers' \in Seq(PeerIds)
    BY <1>0, <1>1 DEF SvTypes
  <2> QED
    BY <1>0, <1>1, <1>4, <1>6, <1>11, <2>1, SvTypesKept
<1>12. CASE IsInbound(p)
  <2>1. CmSame
    BY <1>0, <1>5, <1>12 DEF TellConnMgr, CmSame, cmVars, cmTables
  <2>2. CmIds' = CmIds
    BY <2>1 DEF CmSame, CmIds
  <2>3. CmTypes'
    BY <1>1, <2>1, <2>2 DEF CmTypes, CmSame
  <2>4. \A id \in CmIds' : ReqOK(id)'
    BY <1>1, <2>1, <2>2 DEF ReqOK, CmSame
  <2>5. Kept'
    <3>1. Active' = Active
      BY <2>1, <2>2 DEF Active, CmSame
    <3> QED
      BY <1>0, <1>1, <2>1, <3>1 DEF Kept, CmSame
  <2>6. Owns'
    <3>1. \A q \in PeerIds : Unreported(q)' => Unreported(q)
      BY <1>9
    <3>2. ASSUME NEW id \in cmConns, cmAt[id] # "established"
          PROVE  \E q \in PeerIds : svPeers[q].req = id /\ Unreported(q)'
      <4>1. PICK q \in PeerIds : svPeers[q].req = id /\ Unreported(q)
        BY <1>1, <3>2 DEF Owns
      <4>2. q # p
        BY <1>1, <1>12, <4>1 DEF IsInbound, CmTypes, CmIds
      <4> QED
        BY <1>9, <4>1, <4>2
    <3>3. \A q \in PeerIds : ~IsInbound(q) /\ Unreported(q) =>
             /\ svPeers[q].req \in cmConns /\ cmAt[svPeers[q].req] = "none"
             /\ svPeers[q].persistent = connReqs[svPeers[q].req].perm
      BY <1>1 DEF Owns
    <3>4. \A q, u \in PeerIds : ~IsInbound(q) /\ Unreported(q) /\ Unreported(u) /\ svPeers[q].req = svPeers[u].req
             => q = u
      BY <1>1 DEF Owns
    <3> QED
      BY <1>0, <1>6, <1>9, <2>1, <3>1, <3>2, <3>3, <3>4 DEF Owns, CmSame
  <2>7. SvTypes'
    BY <1>11, <2>1 DEF CmSame
  <2> QED
    BY <1>7, <1>10, <2>3, <2>4, <2>5, <2>6, <2>7 DEF ServerIInv
<1>13. CASE ~IsInbound(p)
  <2>1. PICK id : id = svPeers[p].req
    OBVIOUS
  <2>2. id \in cmConns /\ cmAt[id] = "none" /\ svPeers[p].persistent = connReqs[id].perm
    BY <1>1, <1>4, <1>8, <1>13, <2>1 DEF Owns
  <2>3. GiveUpConn(id, connReqs[id].perm)
    BY <1>5, <1>13, <2>1, <2>2 DEF TellConnMgr
  <2>4. /\ \E r \in ReqRec : \E pt \in CmPoints :
               ReqChange(id, r, pt) /\ r.perm = connReqs[id].perm /\ id \notin cmConns' /\ ReqOK(id)'
               /\ (pt # "none" <=> r.perm)
        /\ cmNew' = IF connReqs[id].perm THEN cmNew ELSE cmNew + 1
        /\ cmNew' \in Nat /\ cmStop' = cmStop /\ id \in CmIds
    BY <1>0, <2>2, <2>3, GiveUpFacts
  <2>5. PICK r \in ReqRec : \E pt \in CmPoints :
               ReqChange(id, r, pt) /\ r.perm = connReqs[id].perm /\ id \notin cmConns' /\ ReqOK(id)'
               /\ (pt # "none" <=> r.perm)
    BY <2>4
  <2>6. PICK pt \in CmPoints :
               ReqChange(id, r, pt) /\ r.perm = connReqs[id].perm /\ id \notin cmConns' /\ ReqOK(id)'
               /\ (pt # "none" <=> r.perm)
    BY <2>5
  <2>7. /\ connReqs' \in Seq(ReqRec) /\ cmAt' \in Seq(CmPoints) /\ Len(cmAt') = Len(connReqs')
        /\ CmIds' = CmIds
        /\ \A j \in CmIds \ {id} : connReqs'[j] = connReqs[j] /\ cmAt'[j] = cmAt[j]
        /\ cmPending' \subseteq CmIds /\ cmConns' \subseteq CmIds /\ cmPending' \cap cmConns' = {}
        /\ \A j \in CmIds \ {id} : (j \in cmPending' <=> j \in cmPending) /\ (j \in cmConns' <=> j \in cmConns)
        /\ \A j \in CmIds \ {id} : ReqOK(j) => ReqOK(j)'
        /\ Active' \ {id} = Active \ {id}
        /\ id \in Active' <=> ~r.perm /\ (id \in cmConns' \/ pt # "none")
    BY <1>1, <2>4, <2>6, ReqChangeFacts
  <2>8. CmTypes'
    BY <1>0, <1>1, <2>4, <2>7 DEF CmTypes
  <2>9. \A j \in CmIds' : ReqOK(j)'
    BY <1>1, <2>6, <2>7
  <2>10. Kept'
    <3>1. id \in Active <=> ~connReqs[id].perm
      BY <2>2, <2>4 DEF Active
    <3>2. id \notin Active'
      BY <2>6, <2>7
    <3>3. \/ cmNew' = cmNew /\ (id \in Active <=> id \in Active')
          \/ cmNew' = cmNew + 1 /\ id \in Active /\ id \notin Active'
      BY <2>4, <3>1, <3>2
    <3> QED
      BY <1>0, <1>1, <2>7, <3>3, KeptStep
  <2>11. Owns'
    <3>1. ASSUME NEW q \in PeerIds, ~IsInbound(q), Unreported(q)'
          PROVE  /\ svPeers[q].req \in cmConns' /\ cmAt'[svPeers[q].req] = "none"
                 /\ svPeers[q].persistent = connReqs'[svPeers[q].req].perm
      <4>1. q # p /\ Unreported(q)
        BY <1>9, <3>1
      <4>2. /\ svPeers[q].req \in cmConns /\ cmAt[svPeers[q].req] = "none"
            /\ svPeers[q].persistent = connReqs[svPeers[q].req].perm
        BY <1>1, <3>1, <4>1 DEF Owns
      <4>3. svPeers[q].req # id
        BY <1>1, <1>4, <1>8, <2>1, <3>1, <4>1 DEF Owns
      <4>4. svPeers[q].req \in CmIds \ {id}
        BY <1>1, <4>2, <4>3 DEF CmTypes
      <4> QED
        BY <2>7, <4>2, <4>4
    <3>2. ASSUME NEW j \in cmConns', cmAt'[j] # "established"
          PROVE  \E q \in PeerIds : svPeers[q].req = j /\ Unreported(q)'
      <4>1. j \in CmIds \ {id}
        BY <2>6, <2>7
      <4>2. j \in cmConns /\ cmAt[j] # "established"
        BY <2>7, <3>2, <4>1
      <4>3. PICK q \in PeerIds : svPeers[q].req = j /\ Unreported(q)
        BY <1>1, <4>2 DEF Owns
      <4>4. q # p
        BY <2>1, <4>1, <4>3
      <4> QED
        BY <1>9, <4>3, <4>4
    <3>3. \A q, u \in PeerIds : ~IsInbound(q) /\ Unreported(q)' /\ Unreported(u)' /\ svPeers[q].req = svPeers[u].req
             => q = u
      <4>1. \A q \in PeerIds : Unreported(q)' => Unreported(q)
        BY <1>9
      <4> QED
        BY <1>1, <4>1 DEF Owns
    <3> QED
      BY <1>0, <1>6, <1>9, <3>1, <3>2, <3>3 DEF Owns
  <2>12. SvTypes'
    BY <1>11, <2>4
  <2> QED
    BY <1>7, <1>10, <2>8, <2>9, <2>10, <2>11, <2>12 DEF ServerIInv
<1> QED
  BY <1>12, <1>13

\* An accepted connection becomes a peer without a request.
LEMMA InboundPeerConnectedStep ==
    ASSUME ServerIInv, NEW host \in NetInbound, InboundPeerConnected(host)
    PROVE  ServerIInv'
<1> DEFINE r == [req |-> 0, addr |-> host, persistent |-> FALSE, connected |-> TRUE, verack |-> FALSE, done |-> FALSE]
<1>0. /\ svRun = "run" /\ svRun' = svRun /\ svPeers' = Append(svPeers, r) /\ TablesSame /\ ChansSame /\ CmSame
  BY DEF InboundPeerConnected, NewServerPeer, svRest, svState, svChans, TablesSame, ChansSame, CmSame, cmVars, cmTables
<1>1. CmTypes /\ SvTypes /\ Tables /\ Reports /\ Owns /\ Kept /\ \A j \in CmIds : ReqOK(j)
  BY <1>0 DEF ServerIInv
<1>2. r \in PeerRec /\ ~r.done /\ ~r.verack /\ r.req = 0
  BY DEF PeerRec
<1> HIDE DEF r
<1>3. PICK n : n = Len(svPeers) + 1
  OBVIOUS
<1>4. cmStop' = cmStop
  BY <1>0 DEF CmSame
<1>5. /\ SvTypes' /\ Tables' /\ Reports' /\ PeerIds' = PeerIds \cup {n} /\ n \notin PeerIds
      /\ svPeers'[n] = r /\ (\A p \in PeerIds : svPeers'[p] = svPeers[p])
      /\ \A p \in PeerIds : (Unreported(p)' <=> Unreported(p)) /\ (IsInbound(p)' <=> IsInbound(p))
      /\ Unreported(n)' /\ (IsInbound(n)' <=> r.req = 0)
  BY <1>0, <1>1, <1>2, <1>3, <1>4, NewPeerFacts
<1>6. CmIds' = CmIds
  BY <1>0 DEF CmIds, CmSame
<1>7. CmTypes'
  BY <1>0, <1>1, <1>6 DEF CmTypes, CmSame
<1>8. \A id \in CmIds' : ReqOK(id)'
  BY <1>0, <1>1, <1>6 DEF ReqOK, CmSame
<1>9. Kept'
  <2>1. Active' = Active
    BY <1>0, <1>6 DEF Active, CmSame
  <2> QED
    BY <1>0, <1>1, <2>1 DEF Kept, CmSame
<1>10. Owns'
  <2>1. ASSUME NEW p \in PeerIds', ~IsInbound(p)' PROVE p \in PeerIds /\ ~IsInbound(p)
    BY <1>2, <1>5, <2>1
  <2>2. ASSUME NEW p \in PeerIds', ~IsInbound(p)', Unreported(p)'
        PROVE  /\ svPeers'[p].req \in cmConns /\ cmAt[svPeers'[p].req] = "none"
               /\ svPeers'[p].persistent = connReqs[svPeers'[p].req].perm
    BY <1>1, <1>5, <2>1, <2>2 DEF Owns
  <2>3. ASSUME NEW p \in PeerIds', NEW q \in PeerIds', ~IsInbound(p)', Unreported(p)', Unreported(q)',
               svPeers'[p].req = svPeers'[q].req
        PROVE  p = q
    <3>1. p \in PeerIds /\ ~IsInbound(p)
      BY <2>1, <2>3
    <3>2. ~IsInbound(q)'
      BY <2>3 DEF IsInbound
    <3>3. q \in PeerIds
      BY <2>1, <3>2
    <3> QED
      BY <1>1, <1>5, <2>3, <3>1, <3>3 DEF Owns
  <2>4. \A id \in cmConns : cmAt[id] = "established" \/ \E p \in PeerIds' : svPeers'[p].req = id /\ Unreported(p)'
    BY <1>1, <1>5 DEF Owns
  <2>5. cmConns' = cmConns /\ cmAt' = cmAt /\ connReqs' = connReqs
    BY <1>0 DEF CmSame
  <2> QED
    BY <2>2, <2>3, <2>4, <2>5 DEF Owns
<1> QED
  BY <1>5, <1>7, <1>8, <1>9, <1>10 DEF ServerIInv

\* OnConnection hands the connection to the new peer, or gives it up.
LEMMA OutboundPeerConnectedStep ==
    ASSUME ServerIInv, svRun # "done", NEW id \in CmIds, OutboundPeerConnected(id)
    PROVE  ServerIInv'
<1>1. CmTypes /\ SvTypes /\ Tables /\ Reports /\ Owns /\ Kept /\ \A j \in CmIds : ReqOK(j)
  BY DEF ServerIInv
<1>2. /\ cmAt[id] = "established" /\ svRun' = svRun /\ svAdHoc' = svAdHoc /\ TablesSame /\ ChansSame
  BY DEF OutboundPeerConnected, svRest, svState, svChans, TablesSame, ChansSame
<1>3. svRun = "run"
  BY <1>1, <1>2 DEF Kept, SvTypes
<1>4. /\ connReqs[id] \in ReqRec /\ connReqs[id].perm \in BOOLEAN
      /\ connReqs = [connReqs EXCEPT ![id] = connReqs[id]]
      /\ ReqOK(id) /\ cmNew \in Nat /\ cmPending \cap cmConns = {}
      /\ id \in Active <=> ~connReqs[id].perm /\ (id \in cmConns \/ cmAt[id] # "none")
  BY <1>3, ReqFacts
<1>5. id \in cmConns /\ connReqs[id].addr \in NetAddr /\ id \in Nat \ {0} /\ id \notin cmPending
  BY <1>1, <1>2, <1>4 DEF ReqOK, AtAddr, CmIds
<1>6. CASE GiveUpConn(id, connReqs[id].perm) /\ svPeers' = svPeers
  <2>1. /\ \E r \in ReqRec : \E pt \in CmPoints :
               ReqChange(id, r, pt) /\ r.perm = connReqs[id].perm /\ id \notin cmConns' /\ ReqOK(id)'
               /\ (pt # "none" <=> r.perm)
        /\ cmNew' = IF connReqs[id].perm THEN cmNew ELSE cmNew + 1
        /\ cmNew' \in Nat /\ cmStop' = cmStop
    BY <1>3, <1>5, <1>6, GiveUpFacts
  <2>2. PICK r \in ReqRec : \E pt \in CmPoints :
               ReqChange(id, r, pt) /\ r.perm = connReqs[id].perm /\ id \notin cmConns' /\ ReqOK(id)'
               /\ (pt # "none" <=> r.perm)
    BY <2>1
  <2>3. PICK pt \in CmPoints :
               ReqChange(id, r, pt) /\ r.perm = connReqs[id].perm /\ id \notin cmConns' /\ ReqOK(id)'
               /\ (pt # "none" <=> r.perm)
    BY <2>2
  <2>4. id \in Active' <=> ~r.perm /\ (id \in cmConns' \/ pt # "none")
    BY <1>1, <2>3, ReqChangeFacts
  <2>5. \/ cmNew' = cmNew /\ (id \in Active <=> id \in Active')
        \/ cmNew' = cmNew + 1 /\ id \in Active /\ id \notin Active'
    BY <1>4, <1>5, <2>1, <2>3, <2>4
  <2>6. SvSame
    BY <1>2, <1>6 DEF SvSame, TablesSame, ChansSame
  <2> QED
    BY <1>2, <1>3, <2>1, <2>3, <2>5, <2>6, CmStep
<1>7. CASE NewServerPeer(id, connReqs[id].addr, connReqs[id].perm) /\ CmGo(id, "none") /\ UNCHANGED <<cmTables, cmNew, cmStop>>
  <2> DEFINE r == [req |-> id, addr |-> connReqs[id].addr, persistent |-> connReqs[id].perm,
                   connected |-> TRUE, verack |-> FALSE, done |-> FALSE]
  <2>1. /\ svPeers' = Append(svPeers, r) /\ cmAt' = [cmAt EXCEPT ![id] = "none"] /\ connReqs' = connReqs
        /\ cmPending' = cmPending /\ cmConns' = cmConns /\ cmNew' = cmNew /\ cmStop' = cmStop
    BY <1>7 DEF NewServerPeer, CmGo, cmTables
  <2>2. /\ r \in PeerRec /\ ~r.done /\ ~r.verack /\ r.req = id /\ r.addr \in NetAddr
        /\ r.persistent = connReqs[id].perm
    BY <1>4, <1>5 DEF PeerRec
  <2> HIDE DEF r
  <2>3. PICK n : n = Len(svPeers) + 1
    OBVIOUS
  <2>4. /\ SvTypes' /\ Tables' /\ Reports' /\ PeerIds' = PeerIds \cup {n} /\ n \notin PeerIds
        /\ svPeers'[n] = r /\ (\A p \in PeerIds : svPeers'[p] = svPeers[p])
        /\ \A p \in PeerIds : (Unreported(p)' <=> Unreported(p)) /\ (IsInbound(p)' <=> IsInbound(p))
        /\ Unreported(n)' /\ (IsInbound(n)' <=> r.req = 0)
    BY <1>1, <1>2, <2>1, <2>2, <2>3, NewPeerFacts
  <2>5. ReqChange(id, connReqs[id], "none") /\ "none" \in CmPoints
    BY <1>4, <1>5, <2>1 DEF ReqChange, CmPoints
  <2>6. /\ connReqs' \in Seq(ReqRec) /\ cmAt' \in Seq(CmPoints) /\ Len(cmAt') = Len(connReqs')
        /\ CmIds' = CmIds /\ cmAt'[id] = "none"
        /\ \A j \in CmIds \ {id} : cmAt'[j] = cmAt[j]
        /\ \A j \in CmIds \ {id} : ReqOK(j) => ReqOK(j)'
        /\ Active' \ {id} = Active \ {id}
        /\ id \in Active' <=> ~connReqs[id].perm /\ (id \in cmConns' \/ "none" # "none")
    <3>1. PICK t \in ReqRec : t = connReqs[id]
      BY <1>4
    <3>2. ReqChange(id, t, "none")
      BY <2>5, <3>1
    <3> QED
      BY <1>1, <2>5, <3>1, <3>2, ReqChangeFacts
  <2>7. CmTypes'
    BY <1>1, <1>2, <2>1, <2>6 DEF CmTypes
  <2>8. ReqOK(id)'
    BY <1>4, <1>5, <2>1, <2>6 DEF ReqOK, AtPending, AtAddr
  <2>9. \A j \in CmIds' : ReqOK(j)'
    BY <1>1, <2>6, <2>8
  <2>10. Kept'
    <3>1. cmNew' = cmNew /\ (id \in Active <=> id \in Active')
      BY <1>4, <1>5, <2>1, <2>6
    <3> QED
      BY <1>1, <1>2, <1>3, <2>6, <3>1, KeptStep
  <2>11. ASSUME NEW p \in PeerIds, Unreported(p) PROVE svPeers[p].req # id
    <3> SUFFICES ASSUME svPeers[p].req = id PROVE FALSE
      OBVIOUS
    <3>1. ~IsInbound(p)
      BY <1>5 DEF IsInbound
    <3> QED
      BY <1>1, <1>2, <2>11, <3>1 DEF Owns
  <2>12. Owns'
    <3>1. ASSUME NEW p \in PeerIds', ~IsInbound(p)', Unreported(p)'
          PROVE  /\ svPeers'[p].req \in cmConns /\ cmAt'[svPeers'[p].req] = "none"
                 /\ svPeers'[p].persistent = connReqs[svPeers'[p].req].perm
      <4>1. CASE p = n
        BY <1>5, <2>2, <2>4, <2>6, <4>1
      <4>2. CASE p \in PeerIds
        <5>1. ~IsInbound(p) /\ Unreported(p) /\ svPeers'[p] = svPeers[p]
          BY <2>4, <3>1, <4>2
        <5>2. /\ svPeers[p].req \in cmConns /\ cmAt[svPeers[p].req] = "none"
              /\ svPeers[p].persistent = connReqs[svPeers[p].req].perm
          BY <1>1, <4>2, <5>1 DEF Owns
        <5>3. svPeers[p].req \in CmIds \ {id}
          BY <1>1, <2>11, <4>2, <5>1, <5>2 DEF CmTypes
        <5> QED
          BY <2>6, <5>1, <5>2, <5>3
      <4> QED
        BY <2>4, <4>1, <4>2
    <3>2. ASSUME NEW p \in PeerIds', NEW q \in PeerIds', ~IsInbound(p)', Unreported(p)', Unreported(q)',
                 svPeers'[p].req = svPeers'[q].req
          PROVE  p = q
      <4>1. CASE p \in PeerIds /\ q \in PeerIds
        BY <1>1, <2>4, <3>2, <4>1 DEF Owns
      <4>2. CASE p = n /\ q \in PeerIds
        <5>1. Unreported(q) /\ svPeers[q].req = id
          BY <2>2, <2>4, <3>2, <4>2
        <5> QED
          BY <2>11, <4>2, <5>1
      <4>3. CASE p \in PeerIds /\ q = n
        <5>1. Unreported(p) /\ svPeers[p].req = id
          BY <2>2, <2>4, <3>2, <4>3
        <5> QED
          BY <2>11, <4>3, <5>1
      <4> QED
        BY <2>4, <4>1, <4>2, <4>3
    <3>3. ASSUME NEW j \in cmConns, cmAt'[j] # "established"
          PROVE  \E p \in PeerIds' : svPeers'[p].req = j /\ Unreported(p)'
      <4>1. CASE j = id
        BY <2>2, <2>4, <4>1
      <4>2. CASE j # id
        <5>1. j \in CmIds /\ cmAt[j] # "established"
          BY <1>1, <2>6, <3>3, <4>2 DEF CmTypes
        <5>2. PICK p \in PeerIds : svPeers[p].req = j /\ Unreported(p)
          BY <1>1, <5>1 DEF Owns
        <5> QED
          BY <2>4, <5>2
      <4> QED
        BY <4>1, <4>2
    <3> QED
      BY <2>1, <3>1, <3>2, <3>3 DEF Owns
  <2> QED
    BY <2>4, <2>7, <2>9, <2>10, <2>12 DEF ServerIInv
<1> QED
  BY <1>6, <1>7 DEF OutboundPeerConnected

\* The end of peerHandler: what is left are the tables.
LEMMA QuitPeerHandlerStep ==
    ASSUME ServerIInv, QuitPeerHandler
    PROVE  ServerIInv'
<1>1. CmTypes /\ SvTypes /\ Tables
  BY DEF ServerIInv
<1>2. /\ svRun' = "done" /\ cmStop' = TRUE /\ Hangup(Listed) /\ TablesSame /\ cmNew' = 0 /\ svAdHoc' = svAdHoc
      /\ connReqs' = connReqs /\ cmPending' = cmPending /\ cmConns' = cmConns
      /\ cmAt' = [id \in DOMAIN cmAt |-> IF cmAt[id] = "established" THEN cmAt[id] ELSE "none"]
      /\ newPeers' = <<>> /\ donePeers' = <<>> /\ banPeers' = banPeers
  BY DEF QuitPeerHandler, StopConnMgr, TablesSame, svState, cmTables
<1>3. SamePeers
  BY <1>1, <1>2, HangupFacts
<1>4. Tables'
  BY <1>1, <1>2, <1>3, TablesKept
<1>5. PeerIds' = PeerIds /\ \A p \in PeerIds : IsInbound(p)' <=> IsInbound(p)
  BY <1>3 DEF SamePeers, PeerIds, IsInbound
<1>6. SvTypes'
  <2>1. newPeers' \in Seq(PeerIds) /\ donePeers' \in Seq(PeerIds) /\ banPeers' \in Seq(PeerIds)
    BY <1>1, <1>2 DEF SvTypes
  <2>2. \A p \in PeerIds : ~IsInbound(p)' => svPeers'[p].addr \in NetAddr
    BY <1>1, <1>3, <1>5 DEF SvTypes, SamePeers
  <2> QED
    BY <1>2, <1>3, <1>5, <2>1, <2>2 DEF SvTypes, SamePeers
<1>7. CmTypes'
  <2>1. cmAt \in Seq(CmPoints) /\ Len(cmAt) = Len(connReqs) /\ DOMAIN cmAt = 1..Len(cmAt)
    BY <1>1 DEF CmTypes
  <2>2. cmAt' \in [1..Len(cmAt) -> CmPoints]
    BY <1>2, <2>1 DEF CmPoints
  <2>3. cmAt' \in Seq(CmPoints) /\ Len(cmAt') = Len(cmAt)
    BY <2>1, <2>2
  <2> QED
    BY <1>1, <1>2, <2>1, <2>3 DEF CmTypes, CmIds
<1> QED
  BY <1>2, <1>4, <1>6, <1>7 DEF ServerIInv

-----------------------------------------------------------------------------
(* The theorem *)

\* A step that changes none of the state keeps the invariant.
LEMMA StandStill ==
    ASSUME ServerIInv, SvSame, CmSame, svRun' = svRun, cmStop' = cmStop
    PROVE  ServerIInv'
<1>1. CmTypes /\ SvTypes /\ Tables
  BY DEF ServerIInv
<1>2. SvTypes' /\ Tables' /\ (Reports => Reports')
  BY <1>1, SvSameFacts
<1>3. CmIds' = CmIds /\ Active' = Active
  BY DEF CmSame, CmIds, Active
<1>4. CmTypes'
  BY <1>1, <1>3 DEF CmTypes, CmSame
<1>5. (\A j \in CmIds : ReqOK(j)) => \A j \in CmIds' : ReqOK(j)'
  BY <1>3 DEF ReqOK, CmSame
<1>6. Owns => Owns'
  BY DEF Owns, SvSame, CmSame, PeerIds, IsInbound, Unreported
<1>7. Kept => Kept'
  BY <1>3 DEF Kept, SvSame, CmSame
<1> QED
  BY <1>2, <1>4, <1>5, <1>6, <1>7 DEF ServerIInv

\* Every step of the connection manager by itself keeps the invariant.
LEMMA ConnMgrNextStep ==
    ASSUME ServerIInv, svRun = "run", ConnMgrNext, SvSame, svRun' = svRun, svAdHoc' = svAdHoc
    PROVE  ServerIInv'
<1>1. CASE NewConnReq
  <2>1. PICK n : n = Len(connReqs) + 1
    OBVIOUS
  <2>2. CmTypes
    BY DEF ServerIInv
  <2>3. /\ NewReq(FALSE, NoNetAddr, "address") /\ cmPending' = cmPending \cup {Len(connReqs')} /\ cmConns' = cmConns
        /\ cmNew > 0 /\ cmNew' = cmNew - 1 /\ cmStop' = cmStop
    BY <1>1 DEF NewConnReq
  <2>4. Len(connReqs') = n
    BY <2>1, <2>2, <2>3 DEF NewReq, CmTypes
  <2>5. cmNew \in Nat /\ svAdHoc \in Int
    BY <2>2 DEF CmTypes
  <2>6. cmNew' \in Nat /\ svAdHoc' \in Int /\ cmNew' - svAdHoc' = cmNew - svAdHoc - 1
    BY <2>3, <2>5
  <2>7. cmPending' = cmPending \cup (IF "address" = "address" THEN {n} ELSE {})
    BY <2>3, <2>4
  <2> QED
    BY <2>1, <2>3, <2>6, <2>7, NewReqStep
<1>2. ASSUME NEW id \in CmIds, \/ HandleRegisterPending(id) \/ HandleConnected(id) \/ HandleFailed(id)
                               \/ Connect(id) \/ Replace(id)
      PROVE  ServerIInv'
  BY <1>2, HandleRegisterPendingStep, HandleConnectedStep, HandleFailedStep, ConnectStep, ReplaceStep
<1> QED
  BY <1>1, <1>2 DEF ConnMgrNext

\* Every step of the server and its connection manager keeps the invariant.
LEMMA ServerStep == ServerIInv /\ [ServerNext]_svVars => ServerIInv'
<1> SUFFICES ASSUME ServerIInv, [ServerNext]_svVars PROVE ServerIInv'
  OBVIOUS
<1>1. CASE StartConnMgr
  BY <1>1, StartConnMgrStep
<1>2. CASE HandleAddPeerMsg
  BY <1>2, HandleAddPeerMsgStep
<1>3. CASE HandleDonePeerMsg
  BY <1>3, HandleDonePeerMsgStep
<1>4. CASE HandleBanPeerMsg
  BY <1>4, HandleBanPeerMsgStep
<1>5. ASSUME NEW p \in PeerIds, DisconnectNode(p) PROVE ServerIInv'
  BY <1>5, DisconnectNodeStep DEF DisconnectNode
<1>6. ASSUME NEW a \in NetAddr, NEW perm \in BOOLEAN, ConnectNode(a, perm) PROVE ServerIInv'
  <2>1. PICK n : n = Len(connReqs) + 1
    OBVIOUS
  <2>2. /\ svRun = "run" /\ NewReq(perm, a, "register") /\ cmConns' = cmConns /\ cmPending' = cmPending
        /\ cmNew' = cmNew /\ cmStop' = cmStop /\ svRun' = svRun /\ SvSame
        /\ svAdHoc' = IF perm THEN svAdHoc ELSE svAdHoc + 1
    BY <1>6 DEF ConnectNode, SvSame, svState, svChans
  <2>3. cmNew \in Nat /\ svAdHoc \in Int
    BY DEF ServerIInv, CmTypes
  <2>4. cmPending' = cmPending \cup (IF "register" = "address" THEN {n} ELSE {})
    BY <2>2
  <2>5. CASE perm
    <3>1. svAdHoc' = svAdHoc
      BY <2>2, <2>5
    <3> QED
      BY <2>1, <2>2, <2>3, <2>4, <2>5, <3>1, NewReqStep
  <2>6. CASE ~perm
    <3>1. svAdHoc' = svAdHoc + 1
      BY <2>2, <2>6
    <3>2. cmNew' - svAdHoc' = cmNew - svAdHoc - 1 /\ svAdHoc' \in Int
      BY <2>2, <2>3, <3>1
    <3> QED
      BY <2>1, <2>2, <2>3, <2>4, <2>6, <3>2, NewReqStep
  <2> QED
    BY <2>5, <2>6
<1>7. CASE StopServer
  <2>1. svRun = "run" /\ SvSame /\ CmSame /\ svRun' = svRun /\ cmStop' = cmStop
    BY <1>7 DEF StopServer, SvSame, CmSame, svState, svChans, cmVars, cmTables
  <2> QED
    BY <2>1, StandStill
<1>8. CASE QuitPeerHandler
  BY <1>8, QuitPeerHandlerStep
<1>9. CASE svRun = "run" /\ ConnMgrNext /\ UNCHANGED <<svPeers, svChans, svRest>>
  BY <1>9, ConnMgrNextStep DEF SvSame, svChans, svRest, svState
<1>10. ASSUME svRun # "done", NEW id \in CmIds, OutboundPeerConnected(id) PROVE ServerIInv'
  BY <1>10, OutboundPeerConnectedStep
<1>11. ASSUME NEW id \in CmIds, NEW a \in NetAddr, NewAddress(id, a) PROVE ServerIInv'
  BY <1>11, TakeAddressStep DEF NewAddress, SvSame, svChans, svRest, svState
<1>12. ASSUME NEW h \in NetInbound, InboundPeerConnected(h) PROVE ServerIInv'
  BY <1>12, InboundPeerConnectedStep
<1>13. ASSUME svRun # "done", NEW p \in PeerIds, OnVerAck(p) \/ PeerDisconnects(p) \/ PeerDoneHandler(p)
       PROVE  ServerIInv'
  BY <1>13, RunsWithPeers, OnVerAckStep, PeerDisconnectsStep, PeerDoneHandlerStep
<1>14. CASE UNCHANGED svVars
  <2>1. SvSame /\ CmSame /\ svRun' = svRun /\ cmStop' = cmStop
    BY <1>14 DEF svVars, SvSame, CmSame, svState, svChans, cmVars, cmTables
  <2> QED
    BY <2>1, StandStill
<1> QED
  BY <1>1, <1>2, <1>3, <1>4, <1>5, <1>6, <1>7, <1>8, <1>9, <1>10, <1>11, <1>12, <1>13, <1>14 DEF ServerNext, PeerHandler

\* Whatever order the two reports of a peer, bans, disconnectNode and the
\* goroutines of the connection manager come in: outboundGroups counts the
\* outbound peers of every group, no peer that has ended stays in a table, every
\* established connection belongs to a peer that will give it up, and the
\* number of outgoing connections being kept up is the one Start has set, for
\* any number of addresses, peers and requests.
THEOREM TargetKept == ServerSpec => []ServerInvariant
<1>1. ServerIInv /\ [ServerNext]_svVars => ServerIInv'
  BY ServerStep
<1>2. ServerSpec => []ServerIInv
  BY <1>1, ServerInitIInv, PTL DEF ServerSpec
<1> QED
  BY <1>2, ServerIInvImplies, PTL

-----------------------------------------------------------------------------
(* One connection *)

\* What the records of the handlers hold.
QueueRec == [at : {"select", "drain", "ended"}, waiting : BOOLEAN, pending : Seq(OutMsg), invs : Seq(PeInv)]
OutRec == [at : {"select", "stall", "write", "done", "drain", "ended"}, msg : OutMsg]
StallRec == [at : {"select", "drain", "ended"}, ioStopped : BOOLEAN, awaits : BOOLEAN]
InRec == [at : {"read", "recv", "start", "handled", "pong", "reject", "getdata", "check", "put", "items",
                "wait", "waitdata", "end", "ended"},
          next : {"read", "handled", "pong", "reject", "getdata", "items", "wait", "waitdata"},
          msg : OutMsg, list : Seq({"found", "missing", "nofilter", "unknown"}), i : Nat, wait : Nat,
          nf : BOOLEAN, added : BOOLEAN, dc : Nat]
PeTypes ==
    /\ peNeg \in {"version", "verack", "up", "failed"} /\ disconnect \in BOOLEAN
    /\ outputQueue \in Seq(OutMsg) /\ sendQueue \in Seq(OutMsg) /\ sendDoneQueue \in 0..1
    /\ Len(outputQueue) <= PeOutputBuffer /\ Len(outputInvChan) <= PeOutputBuffer
    /\ Len(sendQueue) <= 1 /\ Len(stallControl) <= 1
    /\ outputInvChan \in Seq(PeInv) /\ peCall \in [PeCallers -> {"idle", "message"} \cup PeInv]
    /\ peQueue \in QueueRec /\ peOut \in OutRec /\ peStall \in StallRec /\ peIn \in InRec
    /\ peDone \in Seq(Nat) /\ knownInventory \subseteq PeInv
    /\ peSent \in [no : Nat, inv : SUBSET PeInv] /\ peCount \in Nat

\* inHandler is in QueueMessage, or at an entry of a getdata message.
Handing == peIn.at \in {"check", "put"}
Serving == peIn.at = "items" \/ (Handing /\ peIn.next = "items")

\* Where the handlers are: a peer that is refused is disconnected, outHandler has a message only
\* while it writes, and pendingMsgs is used only while waiting.
PePlaces ==
    /\ peNeg = "failed" => disconnect
    /\ peOut.at \in {"drain", "ended"} => disconnect
    /\ peOut.at \notin {"stall", "write"} => peOut.msg = NoMsg
    /\ ~peQueue.waiting => peQueue.pending = <<>>
    /\ peQueue.at # "select" => disconnect /\ peQueue.pending = <<>>

\* What inHandler is going to do, and the channels it knows.
PeInPlaces ==
    /\ peIn.at \in {"recv", "start"} => peIn.next \in {"handled", "pong", "reject", "getdata"}
    /\ (peIn.at \in {"recv", "start"} /\ peIn.next = "getdata") \/ peIn.at = "getdata" =>
          peIn.wait = 0 /\ peIn.i = 1 /\ ~peIn.added
    /\ Handing => /\ peIn.next \in {"handled", "wait", "waitdata", "items"}
                  /\ peIn.next = "handled" => peIn.msg.done = 0
                  /\ peIn.next \in {"wait", "waitdata"} => peIn.msg.done = peIn.dc
                  /\ peIn.next = "items" => peIn.msg.done = peIn.wait
                  /\ peIn.msg.inv = {}
    /\ Handing /\ peIn.next # "handled" => peIn.dc \in 1..Len(peDone)
    /\ peIn.at \in {"items", "wait", "waitdata"} => peIn.dc \in 1..Len(peDone)
    /\ peIn.wait <= Len(peDone)

\* a leaves before b: with the smaller number, another done channel and other inventory.
Precedes(a, b) ==
    /\ a.no # 0 /\ b.no # 0 => a.no < b.no
    /\ a.done # 0 => a.done # b.done
    /\ a.inv \cap b.inv = {}
InLine(s) == \A i, j \in 1..Len(s) : i < j => Precedes(s[i], s[j])
Ahead(A, B) == \A a \in A, b \in B : Precedes(a, b)

\* The messages on their way in the order in which they leave: om, sq, pq, oq.
LineOK(oq, pq, sq, om) ==
    /\ InLine(pq) /\ InLine(oq)
    /\ Ahead({om}, Range(sq)) /\ Ahead({om}, Range(pq)) /\ Ahead({om}, Range(oq))
    /\ Ahead(Range(sq), Range(pq)) /\ Ahead(Range(sq), Range(oq)) /\ Ahead(Range(pq), Range(oq))
Line == LineOK(outputQueue, peQueue.pending, sendQueue, peOut.msg)

\* A message on its way was not sent yet, its inventory is known and its channel not signalled.
MsgOK(m, dones, known, sent, count) ==
    /\ m.no <= count /\ m.inv \subseteq known /\ m.done <= Len(dones)
    /\ m.done # 0 => dones[m.done] = 0
    /\ m.no # 0 => sent.no < m.no
    /\ m.inv \cap sent.inv = {}
Queued == Range(outputQueue) \cup Range(peQueue.pending) \cup Range(sendQueue) \cup {peOut.msg}
Unsent ==
    /\ \A m \in Queued : MsgOK(m, peDone, knownInventory, peSent, peCount)
    /\ peSent.no <= peCount /\ peSent.inv \subseteq knownInventory

\* Nobody has signalled ch, and no message on its way will.
Uncarried(dones, Q, ch) == dones[ch] = 0 /\ \A m \in Q : m.done # ch
PeFresh ==
    /\ Handing /\ peIn.msg.done # 0 => peIn.msg.done <= Len(peDone) /\ Uncarried(peDone, Queued, peIn.msg.done)
    /\ Serving /\ (peIn.i <= Len(peIn.list) \/ peIn.nf) => Uncarried(peDone, Queued, peIn.dc) /\ (Handing => peIn.msg.done # peIn.dc)

\* ch has been signalled, or a message on its way will do it.
Coming(dones, Q, ch) == dones[ch] > 0 \/ \E m \in Q : m.done = ch
PeComing ==
    ~disconnect =>
      /\ peIn.at \in {"wait", "waitdata"} =>
            Coming(peDone, Queued, peIn.dc) \/ (peIn.at = "waitdata" /\ peIn.list[Len(peIn.list)] = "unknown")
      /\ peIn.at = "items" /\ peIn.i <= Len(peIn.list) /\ peIn.wait # 0 => Coming(peDone, Queued, peIn.wait)
      /\ peIn.at = "items" /\ peIn.i > Len(peIn.list) /\ ~peIn.nf /\ peIn.added =>
            Coming(peDone, Queued, peIn.dc) \/ peIn.list[Len(peIn.list)] = "unknown"
      /\ Handing /\ peIn.next = "items" /\ peIn.i > Len(peIn.list) /\ ~peIn.nf => peIn.msg.done = peIn.dc

\* The inductive invariant.
PeIInv == PeTypes /\ PePlaces /\ PeInPlaces /\ OneUnderWay /\ Line /\ Unsent /\ SignalledOnce /\ PeFresh /\ PeComing

-----------------------------------------------------------------------------

\* A list without its head.
LEMMA PeLineTail ==
    ASSUME NEW s \in Seq(OutMsg), s # <<>>, InLine(s)
    PROVE  /\ Head(s) \in OutMsg /\ Tail(s) \in Seq(OutMsg) /\ Range(s) = {Head(s)} \cup Range(Tail(s))
           /\ InLine(Tail(s)) /\ Ahead({Head(s)}, Range(Tail(s))) /\ Len(Tail(s)) = Len(s) - 1
<1>1. Len(s) \in Nat \ {0} /\ Head(s) = s[1] /\ Tail(s) \in Seq(OutMsg) /\ Len(Tail(s)) = Len(s) - 1
      /\ DOMAIN Tail(s) = 1..(Len(s) - 1)
  OBVIOUS
<1>2. \A i \in 1..(Len(s) - 1) : i + 1 \in 1..Len(s) /\ Tail(s)[i] = s[i + 1] /\ 1 < i + 1
  BY <1>1
<1>3. InLine(Tail(s))
  BY <1>1, <1>2 DEF InLine
<1>4. \A i \in 1..(Len(s) - 1) : Precedes(s[1], Tail(s)[i])
  BY <1>1, <1>2 DEF InLine
<1>5. Ahead({Head(s)}, Range(Tail(s)))
  BY <1>1, <1>4 DEF Ahead, Range
<1> QED
  BY <1>1, <1>3, <1>5, RangeTail

\* A list with one more.
LEMMA PeLineAppend ==
    ASSUME NEW s \in Seq(OutMsg), NEW m \in OutMsg, InLine(s), Ahead(Range(s), {m})
    PROVE  /\ Append(s, m) \in Seq(OutMsg) /\ Range(Append(s, m)) = Range(s) \cup {m}
           /\ InLine(Append(s, m)) /\ Len(Append(s, m)) = Len(s) + 1
<1>1. Len(s) \in Nat /\ Append(s, m) \in Seq(OutMsg) /\ Len(Append(s, m)) = Len(s) + 1 /\ DOMAIN s = 1..Len(s)
  OBVIOUS
<1>2. \A i \in 1..Len(s) : Append(s, m)[i] = s[i] /\ s[i] \in Range(s)
  BY <1>1 DEF Range
<1>3. Append(s, m)[Len(s) + 1] = m
  OBVIOUS
<1>4. \A i, j \in 1..(Len(s) + 1) : i < j => i \in 1..Len(s) /\ (j \in 1..Len(s) \/ j = Len(s) + 1)
  BY <1>1
<1>5. ASSUME NEW i \in 1..(Len(s) + 1), NEW j \in 1..(Len(s) + 1), i < j
      PROVE  Precedes(Append(s, m)[i], Append(s, m)[j])
  BY <1>2, <1>3, <1>4, <1>5 DEF InLine, Ahead
<1>6. InLine(Append(s, m))
  BY <1>1, <1>5 DEF InLine
<1> QED
  BY <1>1, <1>6, RangeAppend

\* Two lists one after the other.
LEMMA PeLineConcat ==
    ASSUME NEW s \in Seq(OutMsg), NEW t \in Seq(OutMsg), InLine(s), InLine(t), Ahead(Range(s), Range(t))
    PROVE  /\ s \o t \in Seq(OutMsg) /\ Range(s \o t) = Range(s) \cup Range(t) /\ InLine(s \o t)
<1>1. Len(s) \in Nat /\ Len(t) \in Nat /\ s \o t \in Seq(OutMsg) /\ Len(s \o t) = Len(s) + Len(t)
      /\ DOMAIN s = 1..Len(s) /\ DOMAIN t = 1..Len(t) /\ DOMAIN (s \o t) = 1..(Len(s) + Len(t))
  OBVIOUS
<1>2. \A i \in 1..Len(s) : (s \o t)[i] = s[i] /\ s[i] \in Range(s) /\ i \in 1..(Len(s) + Len(t))
  BY <1>1 DEF Range
<1>3. \A i \in 1..Len(t) : /\ (s \o t)[i + Len(s)] = t[i] /\ t[i] \in Range(t)
                           /\ i + Len(s) \in 1..(Len(s) + Len(t))
  <2> TAKE i \in 1..Len(t)
  <2>1. i + Len(s) \in 1..(Len(s) + Len(t)) /\ i + Len(s) > Len(s) /\ (i + Len(s)) - Len(s) = i
    BY <1>1
  <2>2. (s \o t)[i + Len(s)] = t[(i + Len(s)) - Len(s)]
    BY <1>1, <2>1
  <2> QED
    BY <1>1, <2>1, <2>2 DEF Range
<1>4. \A i \in 1..(Len(s) + Len(t)) : i \in 1..Len(s) \/ (i - Len(s) \in 1..Len(t) /\ i = (i - Len(s)) + Len(s))
  BY <1>1
<1>5. ASSUME NEW i \in 1..(Len(s) + Len(t)), NEW j \in 1..(Len(s) + Len(t)), i < j
      PROVE  Precedes((s \o t)[i], (s \o t)[j])
  <2>1. CASE i \in 1..Len(s) /\ j \in 1..Len(s)
    BY <1>2, <1>5, <2>1 DEF InLine
  <2>2. CASE i \in 1..Len(s) /\ j \notin 1..Len(s)
    <3>1. j - Len(s) \in 1..Len(t) /\ (s \o t)[j] = t[j - Len(s)]
      BY <1>3, <1>4, <2>2
    <3> QED
      BY <1>2, <1>3, <2>2, <3>1 DEF Ahead
  <2>3. CASE i \notin 1..Len(s)
    <3>1. i - Len(s) \in 1..Len(t) /\ j - Len(s) \in 1..Len(t) /\ i - Len(s) < j - Len(s)
      BY <1>1, <1>4, <1>5, <2>3
    <3>2. (s \o t)[i] = t[i - Len(s)] /\ (s \o t)[j] = t[j - Len(s)]
      <4>1. i = (i - Len(s)) + Len(s) /\ j = (j - Len(s)) + Len(s)
        BY <1>1
      <4> QED
        BY <1>3, <3>1, <4>1
    <3> QED
      BY <3>1, <3>2 DEF InLine
  <2> QED
    BY <2>1, <2>2, <2>3
<1>6. InLine(s \o t)
  BY <1>1, <1>5 DEF InLine
<1>7. Range(s \o t) \subseteq Range(s) \cup Range(t)
  <2> SUFFICES ASSUME NEW i \in 1..(Len(s) + Len(t)) PROVE (s \o t)[i] \in Range(s) \cup Range(t)
    BY <1>1 DEF Range
  <2>1. CASE i \in 1..Len(s)
    BY <1>2, <2>1
  <2>2. CASE i \notin 1..Len(s)
    <3>1. i - Len(s) \in 1..Len(t) /\ i = (i - Len(s)) + Len(s)
      BY <1>4, <2>2
    <3>2. (s \o t)[i] = t[i - Len(s)]
      BY <1>3, <3>1
    <3> QED
      BY <1>3, <3>1, <3>2
  <2> QED
    BY <2>1, <2>2
<1>8. Range(s) \subseteq Range(s \o t)
  BY <1>1, <1>2 DEF Range
<1>9. Range(t) \subseteq Range(s \o t)
  BY <1>1, <1>3 DEF Range
<1> QED
  BY <1>1, <1>6, <1>7, <1>8, <1>9

\* Lists of one and of none.
LEMMA PeLineShort ==
    ASSUME NEW m \in OutMsg
    PROVE  /\ <<m>> \in Seq(OutMsg) /\ Len(<<m>>) = 1 /\ Range(<<m>>) = {m} /\ InLine(<<m>>)
           /\ <<>> \in Seq(OutMsg) /\ Len(<<>>) = 0 /\ Range(<<>>) = {} /\ InLine(<<>>)
           /\ <<m>> # <<>>
<1>1. <<m>> \in Seq(OutMsg) /\ Len(<<m>>) = 1 /\ <<m>>[1] = m /\ DOMAIN <<m>> = 1..1
  OBVIOUS
<1>2. \A i \in 1..1 : i = 1
  OBVIOUS
<1>3. Range(<<m>>) = {m}
  BY <1>1, <1>2 DEF Range
<1>4. InLine(<<m>>)
  BY <1>1, <1>2 DEF InLine
<1>5. <<>> \in Seq(OutMsg) /\ Len(<<>>) = 0 /\ DOMAIN <<>> = {} /\ 1..0 = {}
  OBVIOUS
<1>6. Range(<<>>) = {}
  BY <1>5 DEF Range
<1>7. InLine(<<>>)
  BY <1>5 DEF InLine
<1>8. <<m>> # <<>>
  OBVIOUS
<1> QED
  BY <1>1, <1>3, <1>4, <1>5, <1>6, <1>7, <1>8

\* No message: nothing is before or after it.
LEMMA PeNoMsg ==
    /\ NoMsg \in OutMsg /\ NoMsg.no = 0 /\ NoMsg.done = 0 /\ NoMsg.inv = {} /\ NoMsg.asks = FALSE
    /\ \A m : Precedes(NoMsg, m) /\ Precedes(m, NoMsg)
<1>1. NoMsg \in OutMsg /\ NoMsg.no = 0 /\ NoMsg.done = 0 /\ NoMsg.inv = {} /\ NoMsg.asks = FALSE
  BY DEF NoMsg, OutMsg
<1>2. \A m : Precedes(NoMsg, m)
  BY <1>1 DEF Precedes
<1>3. \A m : Precedes(m, NoMsg)
  BY <1>1 DEF Precedes
<1> QED
  BY <1>1, <1>2, <1>3

\* The channels C get a signal.
Signals(dones, new, C) ==
    /\ new \in Seq(Nat) /\ Len(new) = Len(dones)
    /\ \A k \in 1..Len(dones) : new[k] = IF k \in C THEN dones[k] + 1 ELSE dones[k]

\* One channel, or none.
LEMMA PeSignalOne ==
    ASSUME NEW dones \in Seq(Nat), NEW ch \in Nat, ch <= Len(dones)
    PROVE  Signals(dones, Signal(dones, ch), {ch} \ {0})
<1>1. Len(dones) \in Nat /\ DOMAIN dones = 1..Len(dones) /\ \A k \in 1..Len(dones) : dones[k] \in Nat
  OBVIOUS
<1>2. CASE ch = 0
  <2>1. Signal(dones, ch) = dones
    BY <1>2 DEF Signal
  <2> QED
    BY <1>2, <2>1 DEF Signals
<1>3. CASE ch # 0
  <2>1. Signal(dones, ch) = [dones EXCEPT ![ch] = @ + 1] /\ ch \in 1..Len(dones)
    BY <1>1, <1>3 DEF Signal
  <2>2. [dones EXCEPT ![ch] = @ + 1] \in Seq(Nat) /\ Len([dones EXCEPT ![ch] = @ + 1]) = Len(dones)
    BY <1>1, <2>1
  <2>3. \A k \in 1..Len(dones) : [dones EXCEPT ![ch] = @ + 1][k] = IF k = ch THEN dones[k] + 1 ELSE dones[k]
    BY <1>1, <2>1
  <2> QED
    BY <1>3, <2>1, <2>2, <2>3 DEF Signals
<1> QED
  BY <1>2, <1>3

\* The channels of a list, in which no channel comes twice.
LEMMA PeSignalAll ==
    ASSUME NEW dones \in Seq(Nat), NEW s \in Seq(OutMsg), InLine(s)
    PROVE  Signals(dones, SignalAll(dones, s), {m.done : m \in Range(s)} \ {0})
<1>1. /\ Len(dones) \in Nat /\ DOMAIN dones = 1..Len(dones) /\ \A k \in 1..Len(dones) : dones[k] \in Nat
      /\ Len(s) \in Nat /\ DOMAIN s = 1..Len(s)
  OBVIOUS
<1> DEFINE I(k) == {j \in DOMAIN s : s[j].done = k}
<1>2. ASSUME NEW k \in 1..Len(dones), k \notin {m.done : m \in Range(s)}
      PROVE  Cardinality(I(k)) = 0
  <2>1. I(k) = {}
    BY <1>2 DEF Range
  <2> QED
    BY <2>1, FS_EmptySet
<1>3. ASSUME NEW k \in 1..Len(dones), k \in {m.done : m \in Range(s)}
      PROVE  Cardinality(I(k)) = 1
  <2>1. PICK i \in 1..Len(s) : s[i].done = k
    BY <1>1, <1>3 DEF Range
  <2>2. \A j \in 1..Len(s) : s[j].done = k => j = i
    <3> SUFFICES ASSUME NEW j \in 1..Len(s), s[j].done = k, j # i PROVE FALSE
      OBVIOUS
    <3>1. i < j \/ j < i
      BY <1>1
    <3>2. k # 0
      BY <1>1
    <3>3. Precedes(s[i], s[j]) \/ Precedes(s[j], s[i])
      BY <3>1 DEF InLine
    <3> QED
      BY <2>1, <3>2, <3>3 DEF Precedes
  <2>3. I(k) = {i}
    BY <1>1, <2>1, <2>2
  <2> QED
    BY <2>3, FS_Singleton
<1>4. SignalAll(dones, s) = [k \in 1..Len(dones) |-> dones[k] + Cardinality(I(k))]
  BY <1>1 DEF SignalAll
<1> HIDE DEF I
<1>5. \A k \in 1..Len(dones) : SignalAll(dones, s)[k] = IF k \in {m.done : m \in Range(s)} THEN dones[k] + 1 ELSE dones[k]
  BY <1>1, <1>2, <1>3, <1>4
<1>6. SignalAll(dones, s) \in Seq(Nat) /\ Len(SignalAll(dones, s)) = Len(dones)
  <2>1. \A k \in 1..Len(dones) : dones[k] + Cardinality(I(k)) \in Nat
    BY <1>1, <1>2, <1>3
  <2> QED
    BY <1>1, <1>4, <2>1
<1>7. \A k \in 1..Len(dones) : k \in {m.done : m \in Range(s)} <=> k \in {m.done : m \in Range(s)} \ {0}
  BY <1>1
<1> QED
  BY <1>5, <1>6, <1>7 DEF Signals

-----------------------------------------------------------------------------
(* Steps of the other goroutines, seen from inHandler *)

\* Messages move on, are joined by some without a channel, or are given up, and then their
\* channels C are signalled; before a disconnect none is lost.
Flows(C) ==
    /\ peIn' = peIn /\ (disconnect => disconnect')
    /\ Signals(peDone, peDone', C)
    /\ \A ch \in C : ch # 0 /\ \E m \in Queued : m.done = ch
    /\ \A m \in Queued' : m.done \notin C /\ (m.done = 0 \/ \E n \in Queued : n.done = m.done)
    /\ ~disconnect' => \A m \in Queued : m.done = 0 \/ m.done \in C \/ \E n \in Queued' : n.done = m.done

\* What inHandler relies on stays.
LEMMA PeFlowKeeps ==
    ASSUME PeTypes, PeInPlaces, Unsent, SignalledOnce, PeFresh, PeComing, NEW C, Flows(C)
    PROVE  PeInPlaces' /\ SignalledOnce' /\ PeFresh' /\ PeComing'
<1>1. peIn' = peIn /\ peDone \in Seq(Nat) /\ peDone' \in Seq(Nat) /\ Len(peDone') = Len(peDone) /\ Len(peDone) \in Nat
  BY DEF Flows, Signals, PeTypes
<1>2. \A k \in 1..Len(peDone) : peDone[k] \in Nat /\ peDone'[k] = IF k \in C THEN peDone[k] + 1 ELSE peDone[k]
  BY <1>1 DEF Flows, Signals
<1>3. PeInPlaces'
  BY <1>1 DEF PeInPlaces, Handing
<1>4. SignalledOnce'
  <2> SUFFICES ASSUME NEW k \in 1..Len(peDone) PROVE peDone'[k] <= 1
    BY <1>1 DEF SignalledOnce
  <2>1. CASE k \in C
    <3>1. peDone[k] = 0
      BY <2>1 DEF Flows, Unsent, MsgOK
    <3> QED
      BY <1>2, <2>1, <3>1
  <2>2. CASE k \notin C
    BY <1>2, <2>2 DEF SignalledOnce
  <2> QED
    BY <2>1, <2>2
<1>5. ASSUME NEW k \in 1..Len(peDone), Uncarried(peDone, Queued, k) PROVE Uncarried(peDone', Queued', k)
  <2>1. k \notin C
    BY <1>5 DEF Flows, Uncarried
  <2>2. peDone'[k] = 0
    BY <1>2, <1>5, <2>1 DEF Uncarried
  <2>3. k # 0
    BY <1>1
  <2>4. \A m \in Queued' : m.done # k
    BY <1>5, <2>3 DEF Flows, Uncarried
  <2> QED
    BY <2>2, <2>4 DEF Uncarried
<1>6. ASSUME NEW k \in 1..Len(peDone), Coming(peDone, Queued, k), ~disconnect' PROVE Coming(peDone', Queued', k)
  <2>1. CASE peDone[k] > 0
    <3>1. peDone'[k] > 0
      BY <1>2, <2>1
    <3> QED
      BY <3>1 DEF Coming
  <2>2. CASE \E m \in Queued : m.done = k
    <3>1. k # 0
      BY <1>1
    <3>2. CASE k \in C
      <4>1. peDone'[k] > 0
        BY <1>2, <3>2
      <4> QED
        BY <4>1 DEF Coming
    <3>3. CASE k \notin C
      BY <1>6, <2>2, <3>1, <3>3 DEF Flows, Coming
    <3> QED
      BY <3>2, <3>3
  <2> QED
    BY <1>6, <2>1, <2>2 DEF Coming
<1>7. peIn \in InRec
  BY DEF PeTypes
<1>8. peIn.dc \in Nat /\ peIn.wait \in Nat /\ peIn.msg.done \in Nat
  BY <1>7 DEF InRec, OutMsg
<1>9. PeFresh'
  <2>1. Handing' = Handing /\ Serving' = Serving
    BY <1>1 DEF Handing, Serving
  <2>2. ASSUME Handing, peIn.msg.done # 0
        PROVE  peIn.msg.done <= Len(peDone) /\ Uncarried(peDone', Queued', peIn.msg.done)
    BY <1>1, <1>5, <1>8, <2>2 DEF PeFresh
  <2>3. ASSUME Serving, peIn.i <= Len(peIn.list) \/ peIn.nf
        PROVE  Uncarried(peDone', Queued', peIn.dc) /\ (Handing => peIn.msg.done # peIn.dc)
    <3>1. peIn.dc \in 1..Len(peDone)
      BY <2>3 DEF PeInPlaces, Serving
    <3> QED
      BY <1>5, <2>3, <3>1 DEF PeFresh
  <2> QED
    BY <1>1, <2>1, <2>2, <2>3 DEF PeFresh
<1>10. PeComing'
  <2> SUFFICES ASSUME ~disconnect' PROVE PeComing'
    BY DEF PeComing
  <2>1. ~disconnect
    BY DEF Flows
  <2>2. Handing' = Handing
    BY <1>1 DEF Handing
  <2>3. peIn.at \in {"wait", "waitdata"} => peIn.dc \in 1..Len(peDone)
    BY DEF PeInPlaces
  <2>4. peIn.at = "items" => peIn.dc \in 1..Len(peDone)
    BY DEF PeInPlaces
  <2>5. peIn.wait # 0 => peIn.wait \in 1..Len(peDone)
    BY <1>1, <1>8 DEF PeInPlaces
  <2>6. peIn.at \in {"wait", "waitdata"} => Coming(peDone', Queued', peIn.dc) \/ (peIn.at = "waitdata" /\ peIn.list[Len(peIn.list)] = "unknown")
    BY <1>6, <2>1, <2>3 DEF PeComing
  <2>7. peIn.at = "items" /\ peIn.i <= Len(peIn.list) /\ peIn.wait # 0 => Coming(peDone', Queued', peIn.wait)
    BY <1>6, <2>1, <2>5 DEF PeComing
  <2>8. peIn.at = "items" /\ peIn.i > Len(peIn.list) /\ ~peIn.nf /\ peIn.added =>
            Coming(peDone', Queued', peIn.dc) \/ peIn.list[Len(peIn.list)] = "unknown"
    BY <1>6, <2>1, <2>4 DEF PeComing
  <2>9. Handing /\ peIn.next = "items" /\ peIn.i > Len(peIn.list) /\ ~peIn.nf => peIn.msg.done = peIn.dc
    BY <2>1 DEF PeComing
  <2> QED
    BY <1>1, <2>2, <2>6, <2>7, <2>8, <2>9 DEF PeComing
<1> QED
  BY <1>3, <1>4, <1>9, <1>10

-----------------------------------------------------------------------------
(* The line of messages *)

\* The head of outputQueue goes to the end of pendingMsgs.
LEMMA PeLineToPending ==
    ASSUME NEW oq \in Seq(OutMsg), NEW pq \in Seq(OutMsg), NEW sq \in Seq(OutMsg), NEW om,
           LineOK(oq, pq, sq, om), oq # <<>>
    PROVE  /\ LineOK(Tail(oq), pq \o <<Head(oq)>>, sq, om)
           /\ pq \o <<Head(oq)>> \in Seq(OutMsg)
           /\ Range(pq \o <<Head(oq)>>) = Range(pq) \cup {Head(oq)}
           /\ Range(oq) = {Head(oq)} \cup Range(Tail(oq))
<1>1. /\ Head(oq) \in OutMsg /\ Tail(oq) \in Seq(OutMsg) /\ Range(oq) = {Head(oq)} \cup Range(Tail(oq))
      /\ InLine(Tail(oq)) /\ Ahead({Head(oq)}, Range(Tail(oq)))
  BY PeLineTail DEF LineOK
<1>2. <<Head(oq)>> \in Seq(OutMsg) /\ Range(<<Head(oq)>>) = {Head(oq)} /\ InLine(<<Head(oq)>>)
  BY <1>1, PeLineShort
<1>3. Ahead(Range(pq), Range(<<Head(oq)>>))
  BY <1>1, <1>2 DEF LineOK, Ahead
<1>4. pq \o <<Head(oq)>> \in Seq(OutMsg) /\ Range(pq \o <<Head(oq)>>) = Range(pq) \cup {Head(oq)} /\ InLine(pq \o <<Head(oq)>>)
  BY <1>2, <1>3, PeLineConcat DEF LineOK
<1>5. LineOK(Tail(oq), pq \o <<Head(oq)>>, sq, om)
  BY <1>1, <1>4 DEF LineOK, Ahead
<1> QED
  BY <1>1, <1>4, <1>5

\* The head of a list goes to sendQueue when nothing is before it.
LEMMA PeLineToSend ==
    ASSUME NEW oq \in Seq(OutMsg), NEW pq \in Seq(OutMsg), LineOK(oq, pq, <<>>, NoMsg)
    PROVE  /\ oq # <<>> /\ pq = <<>> => LineOK(Tail(oq), <<>>, <<Head(oq)>>, NoMsg)
           /\ pq # <<>> => LineOK(oq, Tail(pq), <<Head(pq)>>, NoMsg)
<1>1. \A m : Precedes(NoMsg, m)
  BY PeNoMsg
<1>2. ASSUME oq # <<>>, pq = <<>> PROVE LineOK(Tail(oq), <<>>, <<Head(oq)>>, NoMsg)
  <2>1. /\ Head(oq) \in OutMsg /\ Range(oq) = {Head(oq)} \cup Range(Tail(oq))
        /\ InLine(Tail(oq)) /\ Ahead({Head(oq)}, Range(Tail(oq)))
    BY <1>2, PeLineTail DEF LineOK
  <2>2. Range(<<Head(oq)>>) = {Head(oq)} /\ Range(<<>>) = {} /\ InLine(<<>>)
    BY <2>1, PeLineShort
  <2> QED
    BY <1>1, <2>1, <2>2 DEF LineOK, Ahead
<1>3. ASSUME pq # <<>> PROVE LineOK(oq, Tail(pq), <<Head(pq)>>, NoMsg)
  <2>1. /\ Head(pq) \in OutMsg /\ Range(pq) = {Head(pq)} \cup Range(Tail(pq))
        /\ InLine(Tail(pq)) /\ Ahead({Head(pq)}, Range(Tail(pq)))
    BY <1>3, PeLineTail DEF LineOK
  <2>2. Range(<<Head(pq)>>) = {Head(pq)}
    BY <2>1, PeLineShort
  <2>3. Ahead({Head(pq)}, Range(oq)) /\ Ahead(Range(Tail(pq)), Range(oq))
    BY <2>1 DEF LineOK, Ahead
  <2> QED
    BY <1>1, <2>1, <2>2, <2>3 DEF LineOK, Ahead
<1> QED
  BY <1>2, <1>3

\* outHandler takes the message of sendQueue.
LEMMA PeLineTaken ==
    ASSUME NEW oq, NEW pq, NEW sq \in Seq(OutMsg), LineOK(oq, pq, sq, NoMsg), sq # <<>>, Len(sq) <= 1
    PROVE  /\ LineOK(oq, pq, <<>>, Head(sq)) /\ Head(sq) \in OutMsg
           /\ Range(sq) = {Head(sq)} /\ Range(<<>>) = {}
<1>1. Head(sq) \in OutMsg /\ Range(sq) = {Head(sq)} \cup Range(Tail(sq)) /\ Tail(sq) \in Seq(OutMsg) /\ Len(Tail(sq)) = Len(sq) - 1
  BY RangeTail
<1>2. Tail(sq) = <<>>
  <2>1. Len(Tail(sq)) = 0
    <3>1. Len(sq) \in Nat /\ Len(Tail(sq)) \in Nat
      BY <1>1
    <3> QED
      BY <1>1, <3>1
  <2> QED
    BY <1>1, <2>1
<1>3. Range(<<>>) = {}
  BY <1>1, PeLineShort
<1>4. Range(sq) = {Head(sq)}
  BY <1>1, <1>2, <1>3
<1> QED
  BY <1>1, <1>3, <1>4 DEF LineOK, Ahead

\* Messages leave the line.
LEMMA PeLineLess ==
    ASSUME NEW oq, NEW pq, NEW sq, NEW om, NEW oq2, NEW pq2, NEW sq2, NEW om2, LineOK(oq, pq, sq, om),
           Range(oq2) \subseteq Range(oq), InLine(oq2), Range(pq2) \subseteq Range(pq), InLine(pq2),
           Range(sq2) \subseteq Range(sq), om2 = om \/ om2 = NoMsg
    PROVE  LineOK(oq2, pq2, sq2, om2)
<1>1. \A m : Precedes(NoMsg, m)
  BY PeNoMsg
<1>2. \A m : Precedes(om, m) => Precedes(om2, m)
  BY <1>1
<1>3. \A S, T : Ahead({om}, S) /\ T \subseteq S => Ahead({om2}, T)
  BY <1>2 DEF Ahead
<1>4. \A A, B, S, T : Ahead(A, B) /\ S \subseteq A /\ T \subseteq B => Ahead(S, T)
  BY DEF Ahead
<1> QED
  BY <1>3, <1>4 DEF LineOK

\* m is numbered after n and has another channel.
Follows(n, m) == n.no < m.no /\ (n.done # 0 => n.done # m.done)

\* A new message: it has the next number, no inventory, and a channel that no other one has.
LEMMA PeLineNew ==
    ASSUME NEW oq \in Seq(OutMsg), NEW pq \in Seq(OutMsg), NEW sq \in Seq(OutMsg), NEW om \in OutMsg, NEW m \in OutMsg,
           LineOK(oq, pq, sq, om), m.inv = {},
           \A n \in Range(oq) \cup Range(pq) \cup Range(sq) \cup {om} : Follows(n, m)
    PROVE  /\ LineOK(Append(oq, m), pq, sq, om) /\ Append(oq, m) \in Seq(OutMsg)
           /\ Range(Append(oq, m)) = Range(oq) \cup {m} /\ Len(Append(oq, m)) = Len(oq) + 1
<1>1. \A n \in Range(oq) \cup Range(pq) \cup Range(sq) \cup {om} : Precedes(n, m)
  BY DEF Precedes, Follows
<1>2. Ahead(Range(oq), {m})
  BY <1>1 DEF Ahead
<1>3. /\ Append(oq, m) \in Seq(OutMsg) /\ Range(Append(oq, m)) = Range(oq) \cup {m}
      /\ InLine(Append(oq, m)) /\ Len(Append(oq, m)) = Len(oq) + 1
  BY <1>2, PeLineAppend DEF LineOK
<1> QED
  BY <1>1, <1>3 DEF LineOK, Ahead

\* What a message on its way keeps when others are signalled and numbered.
LEMMA PeMsgKept ==
    ASSUME NEW m \in OutMsg, NEW dones \in Seq(Nat), NEW d2, NEW C, NEW known, NEW k2, NEW sent, NEW c1 \in Nat, NEW c2 \in Nat,
           MsgOK(m, dones, known, sent, c1), Signals(dones, d2, C), m.done \notin C, known \subseteq k2, c1 <= c2
    PROVE  MsgOK(m, d2, k2, sent, c2)
<1>1. m.no \in Nat /\ m.done \in Nat /\ Len(dones) \in Nat
  BY DEF OutMsg
<1>2. m.no <= c2 /\ m.inv \subseteq k2
  BY <1>1 DEF MsgOK
<1>3. m.done <= Len(d2)
  BY DEF MsgOK, Signals
<1>4. ASSUME m.done # 0 PROVE d2[m.done] = 0
  <2>1. m.done \in 1..Len(dones)
    BY <1>1, <1>4 DEF MsgOK
  <2> QED
    BY <1>4, <2>1 DEF MsgOK, Signals
<1> QED
  BY <1>2, <1>3, <1>4 DEF MsgOK

-----------------------------------------------------------------------------
(* Steps that move no message *)

\* The parts of the records.
LEMMA PeFacts ==
    ASSUME PeTypes
    PROVE  /\ outputQueue \in Seq(OutMsg) /\ peQueue.pending \in Seq(OutMsg) /\ sendQueue \in Seq(OutMsg)
           /\ peOut.msg \in OutMsg /\ peQueue.invs \in Seq(PeInv) /\ peQueue.waiting \in BOOLEAN
           /\ peIn.msg \in OutMsg /\ peSent.no \in Nat /\ peSent.inv \subseteq PeInv
           /\ Queued \subseteq OutMsg
<1>1. peQueue.pending \in Seq(OutMsg) /\ peQueue.invs \in Seq(PeInv) /\ peQueue.waiting \in BOOLEAN
  BY DEF PeTypes, QueueRec
<1>2. peOut.msg \in OutMsg
  BY DEF PeTypes, OutRec
<1>3. peIn.msg \in OutMsg
  BY DEF PeTypes, InRec
<1>4. peSent.no \in Nat /\ peSent.inv \subseteq PeInv
  BY DEF PeTypes
<1>5. outputQueue \in Seq(OutMsg) /\ sendQueue \in Seq(OutMsg)
  BY DEF PeTypes
<1>6. Range(outputQueue) \subseteq OutMsg /\ Range(peQueue.pending) \subseteq OutMsg /\ Range(sendQueue) \subseteq OutMsg
  BY <1>1, <1>5, RangeIn
<1>7. Queued \subseteq OutMsg
  BY <1>2, <1>6 DEF Queued
<1> QED
  BY <1>1, <1>2, <1>3, <1>4, <1>5, <1>7

\* The messages and channels stay as they are; numbers may be given out.
PeStill ==
    /\ outputQueue' = outputQueue /\ peQueue'.pending = peQueue.pending /\ sendQueue' = sendQueue
    /\ peOut'.msg = peOut.msg /\ peDone' = peDone /\ knownInventory' = knownInventory /\ peSent' = peSent
    /\ peIn' = peIn /\ peCount' \in Nat /\ peCount <= peCount' /\ (disconnect => disconnect')

\* Then everything about messages stays.
LEMMA PeStillKeeps ==
    ASSUME PeIInv, PeStill
    PROVE  Line' /\ Unsent' /\ PeInPlaces' /\ SignalledOnce' /\ PeFresh' /\ PeComing'
<1>1. PeTypes /\ Line /\ Unsent /\ PeInPlaces /\ SignalledOnce /\ PeFresh /\ PeComing
  BY DEF PeIInv
<1>2. Queued' = Queued
  BY DEF PeStill, Queued
<1>3. Line'
  BY <1>1 DEF Line, PeStill
<1>4. peDone \in Seq(Nat) /\ peCount \in Nat /\ peSent.no \in Nat
  BY <1>1, PeFacts DEF PeTypes
<1>5. Signals(peDone, peDone', {})
  BY <1>4 DEF PeStill, Signals
<1>6. Flows({})
  BY <1>2, <1>5 DEF Flows, PeStill
<1>7. \A m \in Queued : MsgOK(m, peDone', knownInventory', peSent', peCount')
  <2> TAKE m \in Queued
  <2>1. m \in OutMsg
    BY <1>1, PeFacts
  <2>2. MsgOK(m, peDone, knownInventory, peSent, peCount)
    BY <1>1 DEF Unsent
  <2> QED
    BY <1>4, <1>5, <2>1, <2>2, PeMsgKept DEF PeStill
<1>8. peSent'.no <= peCount' /\ peSent'.inv \subseteq knownInventory'
  BY <1>1, <1>4 DEF Unsent, PeStill
<1>9. Unsent'
  BY <1>2, <1>7, <1>8 DEF Unsent
<1> QED
  BY <1>1, <1>3, <1>6, <1>9, PeFlowKeeps

\* All goroutines but inHandler: what remains to be shown when messages stay.
LEMMA PeStillStep ==
    ASSUME PeIInv, PeStill, PeTypes', PePlaces', OneUnderWay' PROVE PeIInv'
BY PeStillKeeps DEF PeIInv

\* The handshake and Disconnect.
LEMMA PeHandshake ==
    ASSUME PeIInv, Negotiate \/ NegotiateFails \/ PeerDisconnect PROVE PeIInv'
<1>1. PeTypes /\ PePlaces /\ OneUnderWay
  BY DEF PeIInv
<1>2. /\ outputQueue' = outputQueue /\ peQueue' = peQueue /\ sendQueue' = sendQueue /\ peOut' = peOut /\ peDone' = peDone
      /\ knownInventory' = knownInventory /\ peSent' = peSent /\ peIn' = peIn /\ peCount' = peCount
      /\ outputInvChan' = outputInvChan /\ sendDoneQueue' = sendDoneQueue /\ stallControl' = stallControl
      /\ peStall' = peStall /\ peCall' = peCall
  BY DEF Negotiate, NegotiateFails, PeerDisconnect, peQuiet
<1>3. /\ (disconnect => disconnect') /\ disconnect' \in BOOLEAN /\ peNeg' \in {"version", "verack", "up", "failed"}
      /\ (peNeg' = "failed" => disconnect')
  BY <1>1 DEF Negotiate, NegotiateFails, PeerDisconnect, PeTypes, PePlaces, Started
<1>4. PeTypes'
  BY <1>1, <1>2, <1>3 DEF PeTypes
<1>5. PePlaces'
  BY <1>1, <1>2, <1>3 DEF PePlaces
<1>6. OneUnderWay'
  BY <1>1, <1>2, <1>3 DEF OneUnderWay
<1>7. PeStill
  BY <1>1, <1>2, <1>3 DEF PeStill, PeTypes
<1> QED
  BY <1>4, <1>5, <1>6, <1>7, PeStillStep

\* stallHandler.
LEMMA PeStallSteps ==
    ASSUME PeIInv, StallHears \/ StallTick \/ StallQuits PROVE PeIInv'
<1>1. PeTypes /\ PePlaces /\ OneUnderWay
  BY DEF PeIInv
<1>2. /\ outputQueue' = outputQueue /\ peQueue' = peQueue /\ sendQueue' = sendQueue /\ peOut' = peOut /\ peDone' = peDone
      /\ knownInventory' = knownInventory /\ peSent' = peSent /\ peIn' = peIn /\ peCount' = peCount
      /\ outputInvChan' = outputInvChan /\ sendDoneQueue' = sendDoneQueue
      /\ peNeg' = peNeg /\ peCall' = peCall
  BY DEF StallHears, StallTick, StallQuits, StallRest, peQuiet
<1>3. (disconnect => disconnect') /\ disconnect' \in BOOLEAN
  BY <1>1 DEF StallHears, StallTick, StallQuits, PeTypes
<1>4. peStall' \in StallRec
  <2>1. peStall \in StallRec
    BY <1>1 DEF PeTypes
  <2>2. CASE StallHears
    <3>1. PICK b \in BOOLEAN : peStall' = [peStall EXCEPT !.awaits = b]
      <4>1. peStall.awaits \in BOOLEAN
        BY <2>1 DEF StallRec
      <4> QED
        BY <2>2, <4>1 DEF StallHears
    <3> QED
      BY <2>1, <3>1 DEF StallRec
  <2>3. CASE StallTick
    BY <2>1, <2>3 DEF StallTick
  <2>4. CASE StallQuits
    BY <2>1, <2>4 DEF StallQuits, StallRec
  <2> QED
    BY <2>2, <2>3, <2>4
<1>5. stallControl' = stallControl \/ stallControl' = <<>>
  BY DEF StallHears, StallTick, StallQuits
<1>6. Len(stallControl') <= 1
  <2>1. Len(<<>>) = 0
    OBVIOUS
  <2> QED
    BY <1>1, <1>5, <2>1 DEF PeTypes
<1>7. PeTypes'
  BY <1>1, <1>2, <1>3, <1>4, <1>6 DEF PeTypes
<1>8. PePlaces'
  BY <1>1, <1>2, <1>3 DEF PePlaces
<1>9. OneUnderWay'
  BY <1>1, <1>2, <1>3 DEF OneUnderWay
<1>10. PeStill
  BY <1>1, <1>2, <1>3 DEF PeStill, PeTypes
<1> QED
  BY <1>7, <1>8, <1>9, <1>10, PeStillStep

\* The check of a caller, and inventory on its way to the trickle.
LEMMA PeAnnouncing ==
    ASSUME PeIInv, (\E c \in PeCallers : CallerChecks(c) \/ CallerAnnounces(c)) \/ QueueInv PROVE PeIInv'
<1>1. PeTypes /\ PePlaces /\ OneUnderWay
  BY DEF PeIInv
<1>2. /\ outputQueue' = outputQueue /\ sendQueue' = sendQueue /\ peOut' = peOut /\ peDone' = peDone
      /\ knownInventory' = knownInventory /\ peSent' = peSent /\ peIn' = peIn /\ disconnect' = disconnect
      /\ sendDoneQueue' = sendDoneQueue /\ stallControl' = stallControl /\ peStall' = peStall /\ peNeg' = peNeg
  BY DEF CallerChecks, CallerAnnounces, QueueInv, CallRest, QueueRest
<1>3. peQueue \in QueueRec /\ outputInvChan \in Seq(PeInv) /\ peCount \in Nat /\ peQueue.invs \in Seq(PeInv)
  BY <1>1, PeFacts DEF PeTypes
<1>4. CASE QueueInv
  <2>1. outputInvChan # <<>> /\ outputInvChan' = Tail(outputInvChan) /\ peCount' = peCount /\ peCall' = peCall
        /\ peQueue' = [peQueue EXCEPT !.invs = Append(@, Head(outputInvChan))]
    BY <1>4 DEF QueueInv, QueueRest, peQuiet
  <2>2. Tail(outputInvChan) \in Seq(PeInv) /\ Len(Tail(outputInvChan)) = Len(outputInvChan) - 1 /\ Head(outputInvChan) \in PeInv
    BY <1>3, <2>1, RangeTail
  <2>3. Append(peQueue.invs, Head(outputInvChan)) \in Seq(PeInv)
    BY <1>3, <2>2
  <2>4. peQueue' \in QueueRec /\ peQueue'.pending = peQueue.pending /\ peQueue'.at = peQueue.at /\ peQueue'.waiting = peQueue.waiting
    BY <1>3, <2>1, <2>3 DEF QueueRec
  <2>5. Len(outputInvChan') <= PeOutputBuffer
    <3>1. Len(outputInvChan) \in Nat /\ PeOutputBuffer \in Nat
      BY <1>3, PeerAssumption
    <3> QED
      BY <1>1, <2>1, <2>2, <3>1 DEF PeTypes
  <2>6. PeTypes'
    BY <1>1, <1>2, <2>1, <2>2, <2>4, <2>5 DEF PeTypes
  <2>7. PePlaces'
    BY <1>1, <1>2, <2>4 DEF PePlaces
  <2>8. OneUnderWay'
    BY <1>1, <1>2, <2>4 DEF OneUnderWay
  <2>9. PeStill
    BY <1>2, <1>3, <2>1, <2>4 DEF PeStill
  <2> QED
    BY <2>6, <2>7, <2>8, <2>9, PeStillStep
<1>5. ASSUME NEW c \in PeCallers, CallerChecks(c) \/ CallerAnnounces(c) PROVE PeIInv'
  <2>1. peQueue' = peQueue
    BY <1>5 DEF CallerChecks, CallerAnnounces, CallRest
  <2>2. peCall' \in [PeCallers -> {"idle", "message"} \cup PeInv]
    BY <1>1, <1>5 DEF PeTypes, CallerChecks, CallerAnnounces
  <2>3. outputInvChan' \in Seq(PeInv) /\ Len(outputInvChan') <= PeOutputBuffer
    <3>1. CASE CallerChecks(c)
      BY <1>1, <3>1 DEF CallerChecks, PeTypes
    <3>2. CASE CallerAnnounces(c)
      <4>1. peCall[c] \in PeInv /\ Len(outputInvChan) < PeOutputBuffer /\ outputInvChan' = Append(outputInvChan, peCall[c])
        BY <3>2 DEF CallerAnnounces
      <4>2. outputInvChan' \in Seq(PeInv) /\ Len(outputInvChan') = Len(outputInvChan) + 1 /\ Len(outputInvChan) \in Nat
        BY <1>3, <4>1
      <4> QED
        BY <4>1, <4>2, PeerAssumption
    <3> QED
      BY <1>5, <3>1, <3>2
  <2>4. peCount' \in Nat /\ peCount <= peCount'
    BY <1>3, <1>5 DEF CallerChecks, CallerAnnounces
  <2>6. PeTypes'
    BY <1>1, <1>2, <2>1, <2>2, <2>3, <2>4 DEF PeTypes
  <2>7. PePlaces'
    BY <1>1, <1>2, <2>1 DEF PePlaces
  <2>8. OneUnderWay'
    BY <1>1, <1>2, <2>1 DEF OneUnderWay
  <2>9. PeStill
    BY <1>2, <2>1, <2>4 DEF PeStill
  <2> QED
    BY <2>6, <2>7, <2>8, <2>9, PeStillStep
<1> QED
  BY <1>4, <1>5

-----------------------------------------------------------------------------
(* Steps that move messages *)

\* OneUnderWay by cases: sendQueue, outHandler or sendDoneQueue has the one message under way.
Busy(out) == out.at \in {"stall", "write", "done"}
UnderWayCases(sq, out, sd, q, disc) ==
    /\ sq # <<>> => q.waiting /\ sd = 0 /\ ~Busy(out)
    /\ Busy(out) => q.waiting /\ sd = 0 /\ sq = <<>>
    /\ sd = 1 => q.waiting /\ sq = <<>> /\ ~Busy(out)
    /\ sq = <<>> /\ sd = 0 /\ ~Busy(out) => disc \/ (~q.waiting /\ q.pending = <<>>)

\* The sum of OneUnderWay and the cases say the same.
LEMMA PeUnderCases ==
    ASSUME NEW sq \in Seq(OutMsg), Len(sq) <= 1, NEW out, NEW sd \in 0..1, NEW q, NEW disc
    PROVE  UnderWayCases(sq, out, sd, q, disc) <=>
             LET under == Len(sq) + (IF out.at \in {"stall", "write", "done"} THEN 1 ELSE 0) + sd
             IN  /\ under <= 1
                 /\ under = 1 => q.waiting
                 /\ under = 0 => \/ disc
                                 \/ ~q.waiting /\ q.pending = <<>>
<1>1. Len(sq) \in {0, 1} /\ (Len(sq) = 0 <=> sq = <<>>)
  <2>1. Len(sq) \in Nat
    OBVIOUS
  <2>2. Len(sq) = 0 <=> sq = <<>>
    OBVIOUS
  <2>3. Len(sq) \in {0, 1}
    <3>1. \A n \in Nat : n <= 1 => n = 0 \/ n = 1
      OBVIOUS
    <3> QED
      BY <2>1, <3>1
  <2> QED
    BY <2>2, <2>3
<1>2. sd \in {0, 1}
  OBVIOUS
<1>3. CASE Busy(out)
  BY <1>1, <1>2, <1>3 DEF UnderWayCases, Busy
<1>4. CASE ~Busy(out)
  BY <1>1, <1>2, <1>4 DEF UnderWayCases, Busy
<1> QED
  BY <1>3, <1>4

\* The same of the state ...
LEMMA PeUnderNow ==
    ASSUME PeTypes, OneUnderWay PROVE UnderWayCases(sendQueue, peOut, sendDoneQueue, peQueue, disconnect)
<1>1. sendQueue \in Seq(OutMsg) /\ Len(sendQueue) <= 1 /\ sendDoneQueue \in 0..1
  BY DEF PeTypes
<1> QED
  BY <1>1, PeUnderCases DEF OneUnderWay

\* ... and of the next one.
LEMMA PeUnderNext ==
    ASSUME PeTypes', UnderWayCases(sendQueue', peOut', sendDoneQueue', peQueue', disconnect') PROVE OneUnderWay'
<1>1. sendQueue' \in Seq(OutMsg) /\ Len(sendQueue') <= 1 /\ sendDoneQueue' \in 0..1
  BY DEF PeTypes
<1>2. Len(sendQueue') \in Nat
  BY <1>1
<1>3. Len(sendQueue') = 0 <=> sendQueue' = <<>>
  BY <1>1
<1>4. (Len(sendQueue') = 0 \/ Len(sendQueue') = 1) /\ (sendDoneQueue' = 0 \/ sendDoneQueue' = 1)
  <2>1. \A n \in Nat : n <= 1 => n = 0 \/ n = 1
    OBVIOUS
  <2>2. \A n \in 0..1 : n = 0 \/ n = 1
    OBVIOUS
  <2>3. Len(sendQueue') = 0 \/ Len(sendQueue') = 1
    BY <1>1, <1>2, <2>1
  <2>4. sendDoneQueue' = 0 \/ sendDoneQueue' = 1
    BY <1>1, <2>2
  <2> QED
    BY <2>3, <2>4
<1>5. CASE Busy(peOut')
  BY <1>3, <1>4, <1>5 DEF UnderWayCases, Busy, OneUnderWay
<1>6. CASE ~Busy(peOut')
  <2>1. CASE Len(sendQueue') = 1
    BY <1>3, <1>4, <1>6, <2>1 DEF UnderWayCases, Busy, OneUnderWay
  <2>2. CASE Len(sendQueue') = 0 /\ sendDoneQueue' = 1
    BY <1>3, <1>6, <2>2 DEF UnderWayCases, Busy, OneUnderWay
  <2>3. CASE Len(sendQueue') = 0 /\ sendDoneQueue' = 0
    <3>1. disconnect' \/ (~peQueue'.waiting /\ peQueue'.pending = <<>>)
      BY <1>3, <1>6, <2>3 DEF UnderWayCases
    <3> QED
      BY <1>6, <2>3, <3>1 DEF Busy, OneUnderWay
  <2> QED
    BY <1>4, <2>1, <2>2, <2>3
<1> QED
  BY <1>5, <1>6

\* What remains to be shown when messages move.
LEMMA PeMoveStep ==
    ASSUME PeIInv, NEW C, Flows(C), PeTypes', PePlaces', Line', Unsent',
           UnderWayCases(sendQueue', peOut', sendDoneQueue', peQueue', disconnect')
    PROVE  PeIInv'
<1>1. PeTypes /\ PeInPlaces /\ Unsent /\ SignalledOnce /\ PeFresh /\ PeComing
  BY DEF PeIInv
<1>2. PeInPlaces' /\ SignalledOnce' /\ PeFresh' /\ PeComing'
  BY <1>1, PeFlowKeeps
<1>3. OneUnderWay'
  BY PeUnderNext
<1> QED
  BY <1>2, <1>3 DEF PeIInv

\* Messages that stay on their way while others are signalled.
LEMMA PeUnsentKept ==
    ASSUME PeTypes, Unsent, NEW C, Signals(peDone, peDone', C), \A m \in Queued' : m \in Queued /\ m.done \notin C,
           knownInventory \subseteq knownInventory', peSent' = peSent, peCount' = peCount
    PROVE  Unsent'
<1>1. peDone \in Seq(Nat) /\ peCount \in Nat /\ peSent.no \in Nat
  BY PeFacts DEF PeTypes
<1>2. \A m \in Queued' : MsgOK(m, peDone', knownInventory', peSent', peCount')
  <2> TAKE m \in Queued'
  <2>1. m \in OutMsg /\ m \in Queued /\ m.done \notin C
    BY PeFacts
  <2>2. MsgOK(m, peDone, knownInventory, peSent, peCount)
    BY <2>1 DEF Unsent
  <2>3. peCount <= peCount
    BY <1>1
  <2> QED
    BY <1>1, <2>1, <2>2, <2>3, PeMsgKept
<1>3. peSent'.no <= peCount' /\ peSent'.inv \subseteq knownInventory'
  BY DEF Unsent
<1> QED
  BY <1>2, <1>3 DEF Unsent

\* A message moves and none is given up.
LEMMA PeShift ==
    ASSUME PeIInv, Queued' = Queued, peDone' = peDone, knownInventory' = knownInventory, peSent' = peSent,
           peCount' = peCount, peIn' = peIn, disconnect' = disconnect, PeTypes', PePlaces', Line',
           UnderWayCases(sendQueue', peOut', sendDoneQueue', peQueue', disconnect')
    PROVE  PeIInv'
<1>1. PeTypes /\ Unsent
  BY DEF PeIInv
<1>2. peDone \in Seq(Nat)
  BY <1>1 DEF PeTypes
<1>3. Signals(peDone, peDone', {})
  BY <1>2 DEF Signals
<1>4. Flows({})
  BY <1>3 DEF Flows
<1>5. Unsent'
  BY <1>1, <1>3, PeUnsentKept
<1> QED
  BY <1>4, <1>5, PeMoveStep

\* QueueMessage of a caller.
LEMMA PeCallerQueues ==
    ASSUME PeIInv, NEW c \in PeCallers, CallerQueues(c) PROVE PeIInv'
<1>1. PeTypes /\ PePlaces /\ OneUnderWay /\ Line /\ Unsent
  BY DEF PeIInv
<1> DEFINE m == [NoMsg EXCEPT !.no = peCount + 1, !.asks = TRUE]
<1>2. /\ Len(outputQueue) < PeOutputBuffer /\ outputQueue' = Append(outputQueue, m) /\ peCount' = peCount + 1
      /\ peCall' = [peCall EXCEPT ![c] = "idle"]
      /\ peNeg' = peNeg /\ disconnect' = disconnect /\ sendQueue' = sendQueue /\ sendDoneQueue' = sendDoneQueue
      /\ stallControl' = stallControl /\ peQueue' = peQueue /\ peOut' = peOut /\ peStall' = peStall /\ peIn' = peIn
      /\ peDone' = peDone /\ knownInventory' = knownInventory /\ peSent' = peSent /\ outputInvChan' = outputInvChan
  BY DEF CallerQueues, CallRest
<1>3. peCount \in Nat /\ peDone \in Seq(Nat) /\ Len(outputQueue) \in Nat
  BY <1>1 DEF PeTypes
<1>4. m \in OutMsg /\ m.no = peCount + 1 /\ m.inv = {} /\ m.done = 0
  <2>1. peCount + 1 \in Nat
    BY <1>3
  <2>2. m \in OutMsg /\ m.no = peCount + 1 /\ m.inv = NoMsg.inv /\ m.done = NoMsg.done
    BY <2>1, PeNoMsg DEF OutMsg
  <2> QED
    BY <2>2, PeNoMsg
<1> HIDE DEF m
<1>5. \A n \in Queued : Follows(n, m)
  <2> TAKE n \in Queued
  <2>1. n.no \in Nat /\ n.no <= peCount
    BY <1>1, PeFacts DEF Unsent, MsgOK, OutMsg
  <2> QED
    BY <1>3, <1>4, <2>1 DEF Follows
<1>6. /\ LineOK(Append(outputQueue, m), peQueue.pending, sendQueue, peOut.msg)
      /\ Append(outputQueue, m) \in Seq(OutMsg)
      /\ Range(Append(outputQueue, m)) = Range(outputQueue) \cup {m}
      /\ Len(Append(outputQueue, m)) = Len(outputQueue) + 1
  <2>1. /\ outputQueue \in Seq(OutMsg) /\ peQueue.pending \in Seq(OutMsg) /\ sendQueue \in Seq(OutMsg)
        /\ peOut.msg \in OutMsg
    BY <1>1, PeFacts
  <2>2. \A n \in Range(outputQueue) \cup Range(peQueue.pending) \cup Range(sendQueue) \cup {peOut.msg} : Follows(n, m)
    BY <1>5 DEF Queued
  <2>3. LineOK(outputQueue, peQueue.pending, sendQueue, peOut.msg)
    BY <1>1 DEF Line
  <2> QED
    BY <1>4, <2>1, <2>2, <2>3, PeLineNew
<1>7. Line'
  BY <1>2, <1>6 DEF Line
<1>8. Queued' = Queued \cup {m}
  BY <1>2, <1>6 DEF Queued
<1>9. Signals(peDone, peDone', {})
  BY <1>2, <1>3 DEF Signals
<1>10. Flows({})
  BY <1>2, <1>4, <1>8, <1>9 DEF Flows
<1>11. Unsent'
  <2>1. ASSUME NEW n \in Queued' PROVE MsgOK(n, peDone', knownInventory', peSent', peCount')
    <3>1. CASE n \in Queued
      <4>1. n \in OutMsg /\ MsgOK(n, peDone, knownInventory, peSent, peCount) /\ peCount <= peCount + 1
        BY <1>1, <1>3, <3>1, PeFacts DEF Unsent
      <4> QED
        BY <1>2, <1>3, <1>9, <4>1, PeMsgKept
    <3>2. CASE n = m
      <4>1. peSent.no < m.no
        BY <1>1, <1>3, <1>4, PeFacts DEF Unsent
      <4>2. m.no <= peCount' /\ m.done <= Len(peDone')
        BY <1>2, <1>3, <1>4
      <4> QED
        BY <1>2, <1>4, <3>2, <4>1, <4>2 DEF MsgOK
    <3> QED
      BY <1>8, <3>1, <3>2
  <2>2. peSent'.no <= peCount' /\ peSent'.inv \subseteq knownInventory'
    BY <1>1, <1>2, <1>3, PeFacts DEF Unsent
  <2> QED
    BY <2>1, <2>2 DEF Unsent
<1>12. Len(outputQueue') <= PeOutputBuffer
  BY <1>2, <1>3, <1>6, PeerAssumption
<1>13. peCall' \in [PeCallers -> {"idle", "message"} \cup PeInv] /\ peCount' \in Nat
  BY <1>1, <1>2, <1>3 DEF PeTypes
<1>14. PeTypes'
  BY <1>1, <1>2, <1>6, <1>12, <1>13 DEF PeTypes
<1>15. PePlaces'
  BY <1>1, <1>2 DEF PePlaces
<1>16. UnderWayCases(sendQueue', peOut', sendDoneQueue', peQueue', disconnect')
  BY <1>1, <1>2, PeUnderNow
<1> QED
  BY <1>7, <1>10, <1>11, <1>14, <1>15, <1>16, PeMoveStep

\* queueHandler takes a message from outputQueue.
LEMMA PeQueueOutput ==
    ASSUME PeIInv, QueueOutput PROVE PeIInv'
<1>1. PeTypes /\ PePlaces /\ OneUnderWay /\ Line /\ Unsent
  BY DEF PeIInv
<1> DEFINE h == Head(outputQueue)
<1>2. /\ peQueue.at = "select" /\ outputQueue # <<>> /\ outputQueue' = Tail(outputQueue) /\ QueuePacket(peQueue, <<h>>)
      /\ peNeg' = peNeg /\ disconnect' = disconnect /\ sendDoneQueue' = sendDoneQueue
      /\ stallControl' = stallControl /\ peOut' = peOut /\ peStall' = peStall /\ peIn' = peIn /\ peCall' = peCall
      /\ peDone' = peDone /\ knownInventory' = knownInventory /\ peSent' = peSent /\ outputInvChan' = outputInvChan
      /\ peCount' = peCount
  BY DEF QueueOutput, QueueRest, peQuiet
<1>3. outputQueue \in Seq(OutMsg) /\ peQueue.pending \in Seq(OutMsg) /\ sendQueue \in Seq(OutMsg) /\ peQueue \in QueueRec
  BY <1>1, PeFacts DEF PeTypes
<1>4. /\ h \in OutMsg /\ Tail(outputQueue) \in Seq(OutMsg) /\ Len(Tail(outputQueue)) = Len(outputQueue) - 1
      /\ Range(outputQueue) = {h} \cup Range(Tail(outputQueue))
  BY <1>2, <1>3, RangeTail
<1> HIDE DEF h
<1>5. Len(outputQueue') <= PeOutputBuffer
  <2>1. Len(outputQueue) \in Nat /\ Len(outputQueue) <= PeOutputBuffer
    BY <1>1, <1>3 DEF PeTypes
  <2> QED
    BY <1>2, <1>4, <2>1, PeerAssumption
<1>6. <<h>> # <<>> /\ Head(<<h>>) = h /\ Tail(<<h>>) = <<>>
  OBVIOUS
<1>7. UnderWayCases(sendQueue, peOut, sendDoneQueue, peQueue, disconnect)
  BY <1>1, PeUnderNow
<1>8. CASE peQueue.waiting
  <2>1. sendQueue' = sendQueue /\ peQueue' = [peQueue EXCEPT !.pending = @ \o <<h>>]
    BY <1>2, <1>6, <1>8 DEF QueuePacket
  <2>2. /\ LineOK(Tail(outputQueue), peQueue.pending \o <<h>>, sendQueue, peOut.msg)
        /\ peQueue.pending \o <<h>> \in Seq(OutMsg)
        /\ Range(peQueue.pending \o <<h>>) = Range(peQueue.pending) \cup {h}
    <3>1. LineOK(outputQueue, peQueue.pending, sendQueue, peOut.msg)
      BY <1>1 DEF Line
    <3> QED
      BY <1>2, <1>3, <3>1, PeLineToPending DEF h
  <2>3. /\ peQueue' \in QueueRec /\ peQueue'.at = "select" /\ peQueue'.waiting = peQueue.waiting
        /\ peQueue'.pending = peQueue.pending \o <<h>>
    BY <1>2, <1>3, <2>1, <2>2 DEF QueueRec
  <2>4. Line'
    BY <1>2, <2>1, <2>2, <2>3 DEF Line
  <2>5. Queued' = Queued
    BY <1>2, <1>4, <2>1, <2>2, <2>3 DEF Queued
  <2>6. PeTypes'
    BY <1>1, <1>2, <1>4, <1>5, <2>1, <2>3 DEF PeTypes
  <2>7. PePlaces'
    BY <1>1, <1>2, <1>8, <2>3 DEF PePlaces
  <2>8. UnderWayCases(sendQueue', peOut', sendDoneQueue', peQueue', disconnect')
    <3>1. sendQueue = <<>> /\ sendDoneQueue = 0 /\ ~Busy(peOut) => disconnect
      BY <1>7, <1>8 DEF UnderWayCases
    <3> QED
      BY <1>2, <1>7, <1>8, <2>1, <2>3, <3>1 DEF UnderWayCases
  <2> QED
    BY <1>2, <2>4, <2>5, <2>6, <2>7, <2>8, PeShift
<1>9. CASE ~peQueue.waiting
  <2>1. sendQueue = <<>> /\ sendDoneQueue # 1 /\ ~Busy(peOut) /\ peQueue.pending = <<>>
    BY <1>1, <1>7, <1>9 DEF UnderWayCases, PePlaces
  <2>2. peOut.msg = NoMsg /\ sendDoneQueue = 0
    <3>1. \A n \in 0..1 : n # 1 => n = 0
      OBVIOUS
    <3>2. sendDoneQueue \in 0..1
      BY <1>1 DEF PeTypes
    <3> QED
      BY <1>1, <2>1, <3>1, <3>2 DEF PePlaces, Busy
  <2>3. sendQueue' = <<h>> /\ peQueue' = [peQueue EXCEPT !.waiting = TRUE, !.pending = @ \o <<>>]
    BY <1>2, <1>6, <1>9 DEF QueuePacket
  <2>4. <<>> \o <<>> = <<>> /\ <<>> \in Seq(OutMsg)
    OBVIOUS
  <2>5. peQueue' \in QueueRec /\ peQueue'.at = "select" /\ peQueue'.waiting = TRUE /\ peQueue'.pending = <<>>
    <3>1. peQueue' = [peQueue EXCEPT !.waiting = TRUE, !.pending = <<>>]
      BY <2>1, <2>3, <2>4
    <3> QED
      BY <1>2, <1>3, <2>4, <3>1 DEF QueueRec
  <2>6. <<h>> \in Seq(OutMsg) /\ Len(<<h>>) = 1 /\ Range(<<h>>) = {h} /\ Range(<<>>) = {} /\ <<h>> # <<>>
    BY <1>4, PeLineShort
  <2>7. Line'
    <3>1. LineOK(outputQueue, <<>>, <<>>, NoMsg)
      BY <1>1, <2>1, <2>2 DEF Line
    <3>2. LineOK(Tail(outputQueue), <<>>, <<h>>, NoMsg)
      BY <1>2, <1>3, <2>4, <3>1, PeLineToSend DEF h
    <3> QED
      BY <1>2, <2>2, <2>3, <2>5, <3>2 DEF Line
  <2>8. Queued' = Queued
    BY <1>2, <1>4, <2>1, <2>3, <2>5, <2>6 DEF Queued
  <2>9. PeTypes'
    BY <1>1, <1>2, <1>4, <1>5, <2>3, <2>5, <2>6 DEF PeTypes
  <2>10. PePlaces'
    BY <1>1, <1>2, <2>5 DEF PePlaces
  <2>11. UnderWayCases(sendQueue', peOut', sendDoneQueue', peQueue', disconnect')
    BY <1>2, <2>1, <2>2, <2>3, <2>5, <2>6 DEF UnderWayCases
  <2> QED
    BY <1>2, <2>7, <2>8, <2>9, <2>10, <2>11, PeShift
<1> QED
  BY <1>8, <1>9

\* A message was written, and queueHandler sends the next.
LEMMA PeQueueSendDone ==
    ASSUME PeIInv, QueueSendDone PROVE PeIInv'
<1>1. PeTypes /\ PePlaces /\ OneUnderWay /\ Line /\ Unsent
  BY DEF PeIInv
<1>2. /\ peQueue.at = "select" /\ sendDoneQueue > 0 /\ sendDoneQueue' = sendDoneQueue - 1
      /\ outputQueue' = outputQueue
      /\ peNeg' = peNeg /\ disconnect' = disconnect
      /\ stallControl' = stallControl /\ peOut' = peOut /\ peStall' = peStall /\ peIn' = peIn /\ peCall' = peCall
      /\ peDone' = peDone /\ knownInventory' = knownInventory /\ peSent' = peSent /\ outputInvChan' = outputInvChan
      /\ peCount' = peCount
  BY DEF QueueSendDone, QueueRest, peQuiet
<1>3. outputQueue \in Seq(OutMsg) /\ peQueue.pending \in Seq(OutMsg) /\ peQueue \in QueueRec
  BY <1>1, PeFacts DEF PeTypes
<1>4. sendDoneQueue = 1 /\ sendDoneQueue' = 0
  <2>1. \A n \in 0..1 : n > 0 => n = 1 /\ n - 1 = 0
    OBVIOUS
  <2> QED
    BY <1>1, <1>2, <2>1 DEF PeTypes
<1>5. peQueue.waiting /\ sendQueue = <<>> /\ ~Busy(peOut)
  BY <1>1, <1>4, PeUnderNow DEF UnderWayCases
<1>6. peOut.msg = NoMsg
  BY <1>1, <1>5 DEF PePlaces, Busy
<1>7. CASE peQueue.pending = <<>>
  <2>1. peQueue' = [peQueue EXCEPT !.waiting = FALSE] /\ sendQueue' = sendQueue
    BY <1>7 DEF QueueSendDone
  <2>2. peQueue' \in QueueRec /\ peQueue'.at = "select" /\ peQueue'.waiting = FALSE /\ peQueue'.pending = <<>>
    BY <1>2, <1>3, <1>7, <2>1 DEF QueueRec
  <2>3. Line' /\ Queued' = Queued
    BY <1>1, <1>2, <1>7, <2>1, <2>2 DEF Line, Queued
  <2>4. PeTypes'
    BY <1>1, <1>2, <1>4, <2>1, <2>2 DEF PeTypes
  <2>5. PePlaces'
    BY <1>1, <1>2, <2>2 DEF PePlaces
  <2>6. UnderWayCases(sendQueue', peOut', sendDoneQueue', peQueue', disconnect')
    BY <1>2, <1>4, <1>5, <2>1, <2>2 DEF UnderWayCases
  <2> QED
    BY <1>2, <2>3, <2>4, <2>5, <2>6, PeShift
<1>8. CASE peQueue.pending # <<>>
  <2> DEFINE h == Head(peQueue.pending)
  <2>1. sendQueue' = <<h>> /\ peQueue' = [peQueue EXCEPT !.pending = Tail(@)]
    BY <1>8 DEF QueueSendDone
  <2>2. /\ h \in OutMsg /\ Tail(peQueue.pending) \in Seq(OutMsg)
        /\ Range(peQueue.pending) = {h} \cup Range(Tail(peQueue.pending))
    BY <1>3, <1>8, RangeTail
  <2> HIDE DEF h
  <2>3. /\ peQueue' \in QueueRec /\ peQueue'.at = "select" /\ peQueue'.waiting = peQueue.waiting
        /\ peQueue'.pending = Tail(peQueue.pending)
    BY <1>2, <1>3, <2>1, <2>2 DEF QueueRec
  <2>4. <<h>> \in Seq(OutMsg) /\ Len(<<h>>) = 1 /\ Range(<<h>>) = {h} /\ Range(<<>>) = {} /\ <<h>> # <<>>
    BY <2>2, PeLineShort
  <2>5. Line'
    <3>1. LineOK(outputQueue, peQueue.pending, <<>>, NoMsg)
      BY <1>1, <1>5, <1>6 DEF Line
    <3>2. LineOK(outputQueue, Tail(peQueue.pending), <<h>>, NoMsg)
      BY <1>3, <1>8, <3>1, PeLineToSend DEF h
    <3> QED
      BY <1>2, <1>6, <2>1, <2>3, <3>2 DEF Line
  <2>6. Queued' = Queued
    BY <1>2, <1>5, <2>1, <2>2, <2>3, <2>4 DEF Queued
  <2>7. PeTypes'
    BY <1>1, <1>2, <1>4, <2>1, <2>3, <2>4 DEF PeTypes
  <2>8. PePlaces'
    BY <1>1, <1>2, <1>5, <2>3 DEF PePlaces
  <2>9. UnderWayCases(sendQueue', peOut', sendDoneQueue', peQueue', disconnect')
    BY <1>2, <1>4, <1>5, <2>1, <2>3, <2>4 DEF UnderWayCases
  <2> QED
    BY <1>2, <2>5, <2>6, <2>7, <2>8, <2>9, PeShift
<1> QED
  BY <1>7, <1>8

\* outHandler takes the message of sendQueue.
LEMMA PeOutTakes ==
    ASSUME PeIInv, OutTakes PROVE PeIInv'
<1>1. PeTypes /\ PePlaces /\ OneUnderWay /\ Line /\ Unsent
  BY DEF PeIInv
<1>2. /\ peOut.at = "select" /\ sendQueue # <<>> /\ peOut' = [at |-> "stall", msg |-> Head(sendQueue)] /\ sendQueue' = <<>>
      /\ outputQueue' = outputQueue /\ peQueue' = peQueue /\ sendDoneQueue' = sendDoneQueue
      /\ peNeg' = peNeg /\ disconnect' = disconnect
      /\ stallControl' = stallControl /\ peStall' = peStall /\ peIn' = peIn /\ peCall' = peCall
      /\ peDone' = peDone /\ knownInventory' = knownInventory /\ peSent' = peSent /\ outputInvChan' = outputInvChan
      /\ peCount' = peCount
  BY DEF OutTakes, OutRest, peQuiet
<1>3. sendQueue \in Seq(OutMsg) /\ Len(sendQueue) <= 1 /\ peOut.msg = NoMsg
  BY <1>1, <1>2 DEF PeTypes, PePlaces
<1>4. LineOK(outputQueue, peQueue.pending, sendQueue, NoMsg)
  BY <1>1, <1>3 DEF Line
<1>5. /\ LineOK(outputQueue, peQueue.pending, <<>>, Head(sendQueue)) /\ Head(sendQueue) \in OutMsg
      /\ Range(sendQueue) = {Head(sendQueue)} /\ Range(<<>>) = {}
  BY <1>2, <1>3, <1>4, PeLineTaken
<1>6. peOut' \in OutRec /\ peOut'.at = "stall" /\ peOut'.msg = Head(sendQueue)
  BY <1>2, <1>5 DEF OutRec
<1>7. Line'
  BY <1>2, <1>5, <1>6 DEF Line
<1>8. <<>> \in Seq(OutMsg) /\ Len(<<>>) = 0
  OBVIOUS
<1>9. PeTypes'
  BY <1>1, <1>2, <1>6, <1>8 DEF PeTypes
<1>10. PePlaces'
  BY <1>1, <1>2, <1>6 DEF PePlaces
<1>11. UnderWayCases(sendQueue', peOut', sendDoneQueue', peQueue', disconnect')
  <2>1. peQueue.waiting /\ sendDoneQueue = 0
    BY <1>1, <1>2, PeUnderNow DEF UnderWayCases
  <2> QED
    BY <1>2, <1>6, <2>1 DEF UnderWayCases, Busy
<1>13. Queued' \subseteq Queued /\ \A m \in Queued : m \in Queued' \/ m = NoMsg
  BY <1>2, <1>3, <1>5, <1>6 DEF Queued
<1>14. peDone \in Seq(Nat)
  BY <1>1 DEF PeTypes
<1>15. Signals(peDone, peDone', {})
  BY <1>2, <1>14 DEF Signals
<1>16. Flows({})
  BY <1>2, <1>13, <1>15, PeNoMsg DEF Flows
<1>17. Unsent'
  BY <1>1, <1>2, <1>13, <1>15, PeUnsentKept
<1> QED
  BY <1>7, <1>9, <1>10, <1>11, <1>16, <1>17, PeMoveStep

\* outHandler tells stallHandler of a message, and queueHandler that it was written.
LEMMA PeOutTells ==
    ASSUME PeIInv, OutTellsStall \/ OutTellsQueue PROVE PeIInv'
<1>1. PeTypes /\ PePlaces /\ OneUnderWay /\ Line /\ Unsent
  BY DEF PeIInv
<1>2. /\ outputQueue' = outputQueue /\ peQueue' = peQueue /\ sendQueue' = sendQueue
      /\ peNeg' = peNeg /\ disconnect' = disconnect
      /\ peStall' = peStall /\ peIn' = peIn /\ peCall' = peCall
      /\ peDone' = peDone /\ knownInventory' = knownInventory /\ peSent' = peSent /\ outputInvChan' = outputInvChan
      /\ peCount' = peCount
  BY DEF OutTellsStall, OutTellsQueue, OutRest, peQuiet
<1>3. peOut \in OutRec /\ UnderWayCases(sendQueue, peOut, sendDoneQueue, peQueue, disconnect)
  BY <1>1, PeUnderNow DEF PeTypes
<1>4. CASE OutTellsStall
  <2>1. /\ peOut.at = "stall" /\ peOut' = [peOut EXCEPT !.at = "write"] /\ sendDoneQueue' = sendDoneQueue
        /\ stallControl' = <<IF peOut.msg.asks THEN "asks" ELSE "other">>
    BY <1>4 DEF OutTellsStall
  <2>2. peOut' \in OutRec /\ peOut'.at = "write" /\ peOut'.msg = peOut.msg
    BY <1>3, <2>1 DEF OutRec
  <2>3. Len(stallControl') = 1
    BY <2>1
  <2>4. PeTypes'
    BY <1>1, <1>2, <2>1, <2>2, <2>3 DEF PeTypes
  <2>5. PePlaces'
    BY <1>1, <1>2, <2>2 DEF PePlaces
  <2>6. Line' /\ Queued' = Queued
    BY <1>1, <1>2, <2>2 DEF Line, Queued
  <2>7. UnderWayCases(sendQueue', peOut', sendDoneQueue', peQueue', disconnect')
    BY <1>2, <1>3, <2>1, <2>2 DEF UnderWayCases, Busy
  <2> QED
    BY <1>2, <2>4, <2>5, <2>6, <2>7, PeShift
<1>5. CASE OutTellsQueue
  <2>1. /\ peOut.at = "done" /\ peOut' = [peOut EXCEPT !.at = "select"] /\ sendDoneQueue' = 1
        /\ stallControl' = stallControl
    BY <1>5 DEF OutTellsQueue
  <2>2. peOut' \in OutRec /\ peOut'.at = "select" /\ peOut'.msg = peOut.msg
    BY <1>3, <2>1 DEF OutRec
  <2>3. sendDoneQueue' \in 0..1
    BY <2>1
  <2>4. PeTypes'
    BY <1>1, <1>2, <2>1, <2>2, <2>3 DEF PeTypes
  <2>5. PePlaces'
    BY <1>1, <1>2, <2>1, <2>2 DEF PePlaces
  <2>6. Line' /\ Queued' = Queued
    BY <1>1, <1>2, <2>2 DEF Line, Queued
  <2>7. UnderWayCases(sendQueue', peOut', sendDoneQueue', peQueue', disconnect')
    <3>1. peQueue.waiting /\ sendQueue = <<>>
      BY <1>3, <2>1 DEF UnderWayCases, Busy
    <3> QED
      BY <1>2, <2>1, <2>2, <3>1 DEF UnderWayCases, Busy
  <2> QED
    BY <1>2, <2>4, <2>5, <2>6, <2>7, PeShift
<1> QED
  BY <1>4, <1>5

\* Messages are given up: they leave the queues and their channels C are signalled.
LEMMA PeGivenUp ==
    ASSUME PeIInv, NEW C, Signals(peDone, peDone', C),
           \A ch \in C : ch # 0 /\ \E m \in Queued : m.done = ch,
           \A m \in Queued' : (m \in Queued \/ m = NoMsg) /\ m.done \notin C,
           \A m \in Queued : m \in Queued' \/ m.done = 0 \/ m.done \in C \/ disconnect',
           knownInventory' = knownInventory, peSent' = peSent, peCount' = peCount, peIn' = peIn,
           disconnect => disconnect', PeTypes', PePlaces', Line',
           UnderWayCases(sendQueue', peOut', sendDoneQueue', peQueue', disconnect')
    PROVE  PeIInv'
<1>1. PeTypes /\ Unsent
  BY DEF PeIInv
<1>2. Flows(C)
  BY PeNoMsg DEF Flows
<1>3. peDone \in Seq(Nat) /\ peCount \in Nat /\ peSent.no \in Nat /\ Len(peDone) \in Nat
  BY <1>1, PeFacts DEF PeTypes
<1>4. \A m \in Queued' : MsgOK(m, peDone', knownInventory', peSent', peCount')
  <2> TAKE m \in Queued'
  <2>1. CASE m \in Queued
    <3>1. m \in OutMsg /\ m.done \notin C /\ MsgOK(m, peDone, knownInventory, peSent, peCount) /\ peCount <= peCount
      BY <1>1, <1>3, <2>1, PeFacts DEF Unsent
    <3> QED
      BY <1>3, <3>1, PeMsgKept
  <2>2. CASE m = NoMsg
    <3>1. 0 <= peCount' /\ 0 <= Len(peDone')
      BY <1>3 DEF Signals
    <3> QED
      BY <2>2, <3>1, PeNoMsg DEF MsgOK
  <2> QED
    BY <2>1, <2>2
<1>5. peSent'.no <= peCount' /\ peSent'.inv \subseteq knownInventory'
  BY <1>1 DEF Unsent
<1>6. Unsent'
  BY <1>4, <1>5 DEF Unsent
<1> QED
  BY <1>2, <1>6, PeMoveStep

\* The write fails: the peer is disconnected and the message given up.
LEMMA PeOutWriteFails ==
    ASSUME PeIInv, OutWriteFails PROVE PeIInv'
<1>1. PeTypes /\ PePlaces /\ OneUnderWay /\ Line /\ Unsent
  BY DEF PeIInv
<1>2. /\ peOut.at = "write" /\ peOut' = [at |-> "select", msg |-> NoMsg] /\ sendQueue' = sendQueue /\ disconnect'
      /\ outputQueue' = outputQueue /\ peQueue' = peQueue /\ sendDoneQueue' = sendDoneQueue /\ disconnect' \in BOOLEAN
      /\ peNeg' = peNeg /\ stallControl' = stallControl /\ peStall' = peStall /\ peIn' = peIn /\ peCall' = peCall
      /\ knownInventory' = knownInventory /\ peSent' = peSent /\ outputInvChan' = outputInvChan
      /\ peCount' = peCount /\ peDone' = Signal(peDone, peOut.msg.done)
  BY DEF OutWriteFails, OutRest, peQuiet
<1>3. peDone \in Seq(Nat) /\ peOut.msg \in OutMsg /\ peOut.msg.done \in Nat /\ peOut.msg.done <= Len(peDone) /\ peOut.msg \in Queued
  <2>1. peOut.msg \in Queued
    BY DEF Queued
  <2> QED
    BY <1>1, <2>1, PeFacts DEF PeTypes, OutMsg, Unsent, MsgOK
<1> DEFINE C == {peOut.msg.done} \ {0}
<1>4. Signals(peDone, peDone', C)
  BY <1>2, <1>3, PeSignalOne
<1>5. peOut' \in OutRec /\ peOut'.at = "select" /\ peOut'.msg = NoMsg
  BY <1>2, PeNoMsg DEF OutRec
<1>6. \A m \in Range(outputQueue) \cup Range(peQueue.pending) \cup Range(sendQueue) : m.done \notin C
  BY <1>1 DEF Line, LineOK, Ahead, Precedes
<1>7. \A m \in Queued' : (m \in Queued \/ m = NoMsg) /\ m.done \notin C
  BY <1>2, <1>5, <1>6, PeNoMsg DEF Queued
<1>8. Line'
  <2>1. LineOK(outputQueue, peQueue.pending, sendQueue, NoMsg)
    <3>1. LineOK(outputQueue, peQueue.pending, sendQueue, peOut.msg) /\ InLine(outputQueue) /\ InLine(peQueue.pending)
      BY <1>1 DEF Line, LineOK
    <3> QED
      BY <3>1, PeLineLess
  <2> QED
    BY <1>2, <1>5, <2>1 DEF Line
<1>9. PeTypes'
  BY <1>1, <1>2, <1>4, <1>5 DEF PeTypes, Signals
<1>10. PePlaces'
  BY <1>1, <1>2, <1>5 DEF PePlaces
<1>11. UnderWayCases(sendQueue', peOut', sendDoneQueue', peQueue', disconnect')
  <2>1. peQueue.waiting /\ sendQueue = <<>> /\ sendDoneQueue = 0
    BY <1>1, <1>2, PeUnderNow DEF UnderWayCases, Busy
  <2> QED
    BY <1>2, <1>5, <2>1 DEF UnderWayCases, Busy
<1>12. \A ch \in C : ch # 0 /\ \E m \in Queued : m.done = ch
  BY <1>3
<1> HIDE DEF C
<1> QED
  BY <1>2, <1>4, <1>7, <1>8, <1>9, <1>10, <1>11, <1>12, PeGivenUp

\* The message is written, and noted as sent unless the peer is disconnected.
LEMMA PeOutWrites ==
    ASSUME PeIInv, OutWrites PROVE PeIInv'
<1>1. PeTypes /\ PePlaces /\ OneUnderWay /\ Line /\ Unsent
  BY DEF PeIInv
<1>2. /\ peOut.at = "write" /\ peOut' = [at |-> "done", msg |-> NoMsg] /\ sendQueue' = sendQueue /\ disconnect' = disconnect
      /\ outputQueue' = outputQueue /\ peQueue' = peQueue /\ sendDoneQueue' = sendDoneQueue
      /\ peNeg' = peNeg /\ stallControl' = stallControl /\ peStall' = peStall /\ peIn' = peIn /\ peCall' = peCall
      /\ knownInventory' = knownInventory /\ outputInvChan' = outputInvChan
      /\ peCount' = peCount /\ peDone' = Signal(peDone, peOut.msg.done)
  BY DEF OutWrites, OutRest, peQuiet
<1> DEFINE om == peOut.msg
<1>3. peDone \in Seq(Nat) /\ om \in OutMsg /\ om.done \in Nat /\ om.done <= Len(peDone) /\ om \in Queued /\ om.no \in Nat
      /\ om.no <= peCount /\ om.inv \subseteq knownInventory /\ om.inv \subseteq PeInv
  <2>1. om \in Queued
    BY DEF Queued
  <2> QED
    BY <1>1, <2>1, PeFacts DEF PeTypes, OutMsg, Unsent, MsgOK
<1> DEFINE C == {om.done} \ {0}
<1>4. Signals(peDone, peDone', C)
  BY <1>2, <1>3, PeSignalOne
<1>5. peOut' \in OutRec /\ peOut'.at = "done" /\ peOut'.msg = NoMsg
  BY <1>2, PeNoMsg DEF OutRec
<1>6. \A m \in Range(outputQueue) \cup Range(peQueue.pending) \cup Range(sendQueue) : Precedes(om, m)
  BY <1>1 DEF Line, LineOK, Ahead
<1>7. \A m \in Queued' : m = NoMsg \/ (m \in Queued /\ Precedes(om, m))
  BY <1>2, <1>5, <1>6 DEF Queued
<1>8. \A m \in Queued' : m.done \notin C /\ (m.done = 0 \/ m \in Queued)
  BY <1>7, PeNoMsg DEF Precedes
<1>9. Line'
  <2>1. LineOK(outputQueue, peQueue.pending, sendQueue, NoMsg)
    <3>1. LineOK(outputQueue, peQueue.pending, sendQueue, peOut.msg) /\ InLine(outputQueue) /\ InLine(peQueue.pending)
      BY <1>1 DEF Line, LineOK
    <3> QED
      BY <3>1, PeLineLess
  <2> QED
    BY <1>2, <1>5, <2>1 DEF Line
<1>10. /\ peSent'.no \in Nat /\ peSent'.no <= peCount /\ peSent'.inv \subseteq knownInventory /\ peSent'.inv \subseteq PeInv
       /\ peSent' \in [no : Nat, inv : SUBSET PeInv]
       /\ peSent'.no = peSent.no \/ (peSent'.no = om.no /\ om.no # 0)
       /\ peSent'.inv \subseteq peSent.inv \cup om.inv
  <2>1. peSent \in [no : Nat, inv : SUBSET PeInv] /\ peSent.no <= peCount /\ peSent.inv \subseteq knownInventory
    BY <1>1 DEF PeTypes, Unsent
  <2>2. CASE disconnect
    BY <2>1, <2>2 DEF OutWrites
  <2>3. CASE ~disconnect
    <3>1. peSent' = [no |-> IF om.no = 0 THEN peSent.no ELSE om.no, inv |-> peSent.inv \cup om.inv]
      BY <2>3 DEF OutWrites
    <3>2. peSent'.no = (IF om.no = 0 THEN peSent.no ELSE om.no) /\ peSent'.inv = peSent.inv \cup om.inv
      BY <3>1
    <3>3. peSent'.no \in Nat /\ peSent'.no <= peCount
      BY <1>3, <2>1, <3>2
    <3>4. peSent' \in [no : Nat, inv : SUBSET PeInv]
      BY <1>3, <2>1, <3>1
    <3> QED
      BY <1>3, <2>1, <3>2, <3>3, <3>4
  <2> QED
    BY <2>2, <2>3
<1>11. PeTypes'
  BY <1>1, <1>2, <1>4, <1>5, <1>10 DEF PeTypes, Signals
<1>12. PePlaces'
  BY <1>1, <1>2, <1>5 DEF PePlaces
<1>13. UnderWayCases(sendQueue', peOut', sendDoneQueue', peQueue', disconnect')
  <2>1. peQueue.waiting /\ sendQueue = <<>> /\ sendDoneQueue = 0
    BY <1>1, <1>2, PeUnderNow DEF UnderWayCases, Busy
  <2> QED
    BY <1>2, <1>5, <2>1 DEF UnderWayCases, Busy
<1>14. Flows(C)
  <2>1. \A ch \in C : ch # 0 /\ \E m \in Queued : m.done = ch
    BY <1>3
  <2>2. \A m \in Queued : m.done = 0 \/ m.done \in C \/ m \in Queued'
    BY <1>2 DEF Queued
  <2> HIDE DEF C
  <2> QED
    BY <1>2, <1>4, <1>8, <2>1, <2>2 DEF Flows
<1>15. Unsent'
  <2>1. ASSUME NEW m \in Queued' PROVE MsgOK(m, peDone', knownInventory', peSent', peCount')
    <3>1. peCount \in Nat /\ Len(peDone) \in Nat
      BY <1>1, <1>3 DEF PeTypes
    <3>2. CASE m = NoMsg
      <4>1. 0 <= peCount' /\ 0 <= Len(peDone')
        BY <1>2, <1>4, <3>1 DEF Signals
      <4> QED
        BY <3>2, <4>1, PeNoMsg DEF MsgOK
    <3>3. CASE m # NoMsg
      <4>1. m \in Queued /\ Precedes(om, m) /\ m \in OutMsg /\ m.done \notin C /\ peCount <= peCount
        BY <1>1, <1>7, <1>8, <3>1, <3>3, PeFacts
      <4>2. MsgOK(m, peDone, knownInventory, peSent, peCount)
        BY <1>1, <4>1 DEF Unsent
      <4>3. MsgOK(m, peDone', knownInventory', peSent, peCount')
        BY <1>2, <1>3, <1>4, <3>1, <4>1, <4>2, PeMsgKept
      <4>4. m.no # 0 => peSent'.no < m.no
        BY <1>10, <4>1, <4>2 DEF MsgOK, Precedes
      <4>5. m.inv \cap peSent'.inv = {}
        BY <1>10, <4>1, <4>2 DEF MsgOK, Precedes
      <4> QED
        BY <4>3, <4>4, <4>5 DEF MsgOK
    <3> QED
      BY <3>2, <3>3
  <2> QED
    BY <1>2, <1>10, <2>1 DEF Unsent
<1> HIDE DEF C
<1> QED
  BY <1>9, <1>11, <1>12, <1>13, <1>14, <1>15, PeMoveStep

\* After quit queueHandler gives up pendingMsgs and what is in its channels.
LEMMA PeQueueQuits ==
    ASSUME PeIInv, QueueQuits PROVE PeIInv'
<1>1. PeTypes /\ PePlaces /\ OneUnderWay /\ Line /\ Unsent
  BY DEF PeIInv
<1>2. /\ disconnect /\ disconnect' = disconnect /\ peNeg' = peNeg /\ stallControl' = stallControl /\ peOut' = peOut
      /\ peStall' = peStall /\ peIn' = peIn /\ peCall' = peCall /\ knownInventory' = knownInventory
      /\ peSent' = peSent /\ peCount' = peCount /\ sendQueue' = sendQueue /\ sendDoneQueue' = sendDoneQueue
  BY DEF QueueQuits, QueueRest, peQuiet
<1>3. /\ outputQueue \in Seq(OutMsg) /\ peQueue.pending \in Seq(OutMsg) /\ peQueue \in QueueRec /\ peDone \in Seq(Nat)
      /\ outputInvChan \in Seq(PeInv)
  BY <1>1, PeFacts DEF PeTypes
<1>4. UnderWayCases(sendQueue, peOut, sendDoneQueue, peQueue, disconnect)
  BY <1>1, PeUnderNow
<1>5. LineOK(outputQueue, peQueue.pending, sendQueue, peOut.msg) /\ InLine(outputQueue) /\ InLine(peQueue.pending)
  BY <1>1 DEF Line, LineOK
<1>6. Range(<<>>) = {} /\ InLine(<<>>) /\ <<>> \in Seq(OutMsg)
  BY PeLineShort, PeNoMsg
<1>7. CASE /\ peQueue.at = "select" /\ peQueue' = [peQueue EXCEPT !.at = "drain", !.pending = <<>>]
           /\ peDone' = SignalAll(peDone, peQueue.pending) /\ outputQueue' = outputQueue /\ outputInvChan' = outputInvChan
  <2> DEFINE C == {m.done : m \in Range(peQueue.pending)} \ {0}
  <2>1. Signals(peDone, peDone', C)
    BY <1>3, <1>5, <1>7, PeSignalAll
  <2>2. peQueue' \in QueueRec /\ peQueue'.at = "drain" /\ peQueue'.pending = <<>> /\ peQueue'.waiting = peQueue.waiting
    BY <1>3, <1>6, <1>7 DEF QueueRec
  <2>3. \A m \in Range(outputQueue) \cup Range(sendQueue) \cup {peOut.msg} : m.done \notin C
    <3>1. \A m \in Range(outputQueue), n \in Range(peQueue.pending) : Precedes(n, m)
      BY <1>5 DEF LineOK, Ahead
    <3>2. \A m \in Range(sendQueue) \cup {peOut.msg}, n \in Range(peQueue.pending) : Precedes(m, n)
      BY <1>5 DEF LineOK, Ahead
    <3> QED
      BY <3>1, <3>2 DEF Precedes
  <2>4. Queued' = Range(outputQueue) \cup Range(sendQueue) \cup {peOut.msg}
    BY <1>2, <1>6, <1>7, <2>2 DEF Queued
  <2>5. \A m \in Queued' : (m \in Queued \/ m = NoMsg) /\ m.done \notin C
    BY <2>3, <2>4 DEF Queued
  <2>6. \A ch \in C : ch # 0 /\ \E m \in Queued : m.done = ch
    BY DEF Queued
  <2>7. Line'
    <3>1. LineOK(outputQueue, <<>>, sendQueue, peOut.msg)
      BY <1>5, <1>6, PeLineLess
    <3> QED
      BY <1>2, <1>7, <2>2, <3>1 DEF Line
  <2>8. PeTypes'
    BY <1>1, <1>2, <1>7, <2>1, <2>2 DEF PeTypes, Signals
  <2>9. PePlaces'
    BY <1>1, <1>2, <2>2 DEF PePlaces
  <2>10. UnderWayCases(sendQueue', peOut', sendDoneQueue', peQueue', disconnect')
    BY <1>2, <1>4, <2>2 DEF UnderWayCases
  <2> HIDE DEF C
  <2> QED
    BY <1>2, <2>1, <2>5, <2>6, <2>7, <2>8, <2>9, <2>10, PeGivenUp
<1>8. CASE /\ peQueue.at = "drain" /\ outputQueue # <<>> /\ peDone' = Signal(peDone, Head(outputQueue).done)
           /\ outputQueue' = Tail(outputQueue) /\ peQueue' = peQueue /\ outputInvChan' = outputInvChan
  <2> DEFINE h == Head(outputQueue)
           C == {h.done} \ {0}
  <2>1. /\ h \in OutMsg /\ Tail(outputQueue) \in Seq(OutMsg) /\ Range(outputQueue) = {h} \cup Range(Tail(outputQueue))
        /\ InLine(Tail(outputQueue)) /\ Ahead({h}, Range(Tail(outputQueue))) /\ Len(Tail(outputQueue)) = Len(outputQueue) - 1
    BY <1>3, <1>5, <1>8, PeLineTail
  <2>2. h \in Queued /\ h.done \in Nat /\ h.done <= Len(peDone)
    BY <1>1, <2>1 DEF Queued, OutMsg, Unsent, MsgOK
  <2>3. Signals(peDone, peDone', C)
    BY <1>3, <1>8, <2>2, PeSignalOne
  <2>4. \A m \in Range(Tail(outputQueue)) \cup Range(peQueue.pending) \cup Range(sendQueue) \cup {peOut.msg} : m.done \notin C
    <3>1. \A m \in Range(Tail(outputQueue)) : Precedes(h, m)
      BY <2>1 DEF Ahead
    <3>2. \A m \in Range(peQueue.pending) \cup Range(sendQueue) \cup {peOut.msg} : Precedes(m, h)
      BY <1>5, <2>1 DEF LineOK, Ahead
    <3> QED
      BY <3>1, <3>2 DEF Precedes
  <2>5. Queued' = Range(Tail(outputQueue)) \cup Range(peQueue.pending) \cup Range(sendQueue) \cup {peOut.msg}
    BY <1>2, <1>8 DEF Queued
  <2>6. \A m \in Queued' : (m \in Queued \/ m = NoMsg) /\ m.done \notin C
    BY <2>1, <2>4, <2>5 DEF Queued
  <2>7. \A ch \in C : ch # 0 /\ \E m \in Queued : m.done = ch
    BY <2>2
  <2>8. Line'
    <3>1. LineOK(Tail(outputQueue), peQueue.pending, sendQueue, peOut.msg)
      BY <1>5, <2>1, PeLineLess
    <3> QED
      BY <1>2, <1>8, <3>1 DEF Line
  <2>9. Len(outputQueue') <= PeOutputBuffer
    <3>1. Len(outputQueue) \in Nat /\ Len(outputQueue) <= PeOutputBuffer
      BY <1>1, <1>3 DEF PeTypes
    <3> QED
      BY <1>8, <2>1, <3>1, PeerAssumption
  <2>10. PeTypes'
    BY <1>1, <1>2, <1>8, <2>1, <2>3, <2>9 DEF PeTypes, Signals
  <2>11. PePlaces'
    BY <1>1, <1>2, <1>8 DEF PePlaces
  <2>12. UnderWayCases(sendQueue', peOut', sendDoneQueue', peQueue', disconnect')
    BY <1>2, <1>4, <1>8
  <2> HIDE DEF C
  <2> QED
    BY <1>2, <2>3, <2>6, <2>7, <2>8, <2>10, <2>11, <2>12, PeGivenUp
<1>9. CASE /\ peQueue.at = "drain" /\ outputInvChan # <<>> /\ outputInvChan' = Tail(outputInvChan)
           /\ peQueue' = peQueue /\ peDone' = peDone /\ outputQueue' = outputQueue
  <2>1. Tail(outputInvChan) \in Seq(PeInv) /\ Len(Tail(outputInvChan)) = Len(outputInvChan) - 1
    BY <1>3, <1>9, RangeTail
  <2>2. Len(outputInvChan') <= PeOutputBuffer
    <3>1. Len(outputInvChan) \in Nat /\ Len(outputInvChan) <= PeOutputBuffer
      BY <1>1, <1>3 DEF PeTypes
    <3> QED
      BY <1>9, <2>1, <3>1, PeerAssumption
  <2>3. PeTypes'
    BY <1>1, <1>2, <1>9, <2>1, <2>2 DEF PeTypes
  <2>4. PePlaces'
    BY <1>1, <1>2, <1>9 DEF PePlaces
  <2>5. UnderWayCases(sendQueue', peOut', sendDoneQueue', peQueue', disconnect')
    BY <1>2, <1>4, <1>9
  <2>6. Line' /\ Queued' = Queued
    BY <1>1, <1>2, <1>9 DEF Line, Queued
  <2> QED
    BY <1>2, <1>9, <2>3, <2>4, <2>5, <2>6, PeShift
<1>10. CASE /\ peQueue.at = "drain" /\ peQueue' = [peQueue EXCEPT !.at = "ended"]
            /\ peDone' = peDone /\ outputQueue' = outputQueue /\ outputInvChan' = outputInvChan
  <2>1. peQueue' \in QueueRec /\ peQueue'.at = "ended" /\ peQueue'.pending = peQueue.pending /\ peQueue'.waiting = peQueue.waiting
    BY <1>3, <1>10 DEF QueueRec
  <2>2. PeTypes'
    BY <1>1, <1>2, <1>10, <2>1 DEF PeTypes
  <2>3. PePlaces'
    BY <1>1, <1>2, <1>10, <2>1 DEF PePlaces
  <2>4. UnderWayCases(sendQueue', peOut', sendDoneQueue', peQueue', disconnect')
    BY <1>2, <1>4, <2>1 DEF UnderWayCases
  <2>5. Line' /\ Queued' = Queued
    BY <1>1, <1>2, <1>10, <2>1 DEF Line, Queued
  <2> QED
    BY <1>2, <1>10, <2>2, <2>3, <2>4, <2>5, PeShift
<1> QED
  BY <1>7, <1>8, <1>9, <1>10 DEF QueueQuits

\* After quit outHandler waits for queueHandler and gives up what is in sendQueue.
LEMMA PeOutQuits ==
    ASSUME PeIInv, OutQuits PROVE PeIInv'
<1>1. PeTypes /\ PePlaces /\ OneUnderWay /\ Line /\ Unsent
  BY DEF PeIInv
<1>2. /\ disconnect /\ disconnect' = disconnect /\ peNeg' = peNeg /\ stallControl' = stallControl
      /\ peStall' = peStall /\ peIn' = peIn /\ peCall' = peCall /\ knownInventory' = knownInventory
      /\ peSent' = peSent /\ peCount' = peCount /\ sendDoneQueue' = sendDoneQueue
      /\ outputQueue' = outputQueue /\ peQueue' = peQueue /\ outputInvChan' = outputInvChan
  BY DEF OutQuits, OutRest, peQuiet
<1>3. sendQueue \in Seq(OutMsg) /\ Len(sendQueue) <= 1 /\ peOut \in OutRec /\ peDone \in Seq(Nat)
  BY <1>1 DEF PeTypes
<1>4. UnderWayCases(sendQueue, peOut, sendDoneQueue, peQueue, disconnect)
  BY <1>1, PeUnderNow
<1>5. CASE peOut.at = "select" /\ peOut' = [peOut EXCEPT !.at = "drain"] /\ sendQueue' = sendQueue /\ peDone' = peDone
  <2>1. peOut' \in OutRec /\ peOut'.at = "drain" /\ peOut'.msg = peOut.msg
    BY <1>3, <1>5 DEF OutRec
  <2>2. PeTypes'
    BY <1>1, <1>2, <1>5, <2>1 DEF PeTypes
  <2>3. PePlaces'
    BY <1>1, <1>2, <1>5, <2>1 DEF PePlaces
  <2>4. UnderWayCases(sendQueue', peOut', sendDoneQueue', peQueue', disconnect')
    BY <1>2, <1>4, <1>5, <2>1 DEF UnderWayCases, Busy
  <2>5. Line' /\ Queued' = Queued
    BY <1>1, <1>2, <1>5, <2>1 DEF Line, Queued
  <2> QED
    BY <1>2, <1>5, <2>2, <2>3, <2>4, <2>5, PeShift
<1>6. CASE /\ peOut.at = "drain" /\ peOut' = [peOut EXCEPT !.at = "ended"] /\ sendQueue' = <<>>
           /\ peDone' = SignalAll(peDone, sendQueue)
  <2> DEFINE C == {m.done : m \in Range(sendQueue)} \ {0}
  <2>1. InLine(sendQueue)
    <3>1. \A i, j \in 1..Len(sendQueue) : ~(i < j)
      <4>1. Len(sendQueue) \in Nat
        BY <1>3
      <4> QED
        BY <1>3, <4>1
    <3> QED
      BY <3>1 DEF InLine
  <2>2. Signals(peDone, peDone', C)
    BY <1>3, <1>6, <2>1, PeSignalAll
  <2>3. peOut' \in OutRec /\ peOut'.at = "ended" /\ peOut'.msg = peOut.msg
    BY <1>3, <1>6 DEF OutRec
  <2>4. LineOK(outputQueue, peQueue.pending, sendQueue, peOut.msg) /\ InLine(outputQueue) /\ InLine(peQueue.pending)
    BY <1>1 DEF Line, LineOK
  <2>5. Range(<<>>) = {} /\ <<>> \in Seq(OutMsg) /\ Len(<<>>) = 0
    BY PeLineShort, PeNoMsg
  <2>6. \A m \in Range(outputQueue) \cup Range(peQueue.pending) \cup {peOut.msg} : m.done \notin C
    <3>1. \A n \in Range(sendQueue), m \in Range(outputQueue) \cup Range(peQueue.pending) : Precedes(n, m)
      BY <2>4 DEF LineOK, Ahead
    <3>2. \A n \in Range(sendQueue) : Precedes(peOut.msg, n)
      BY <2>4 DEF LineOK, Ahead
    <3> QED
      BY <3>1, <3>2 DEF Precedes
  <2>7. Queued' = Range(outputQueue) \cup Range(peQueue.pending) \cup {peOut.msg}
    BY <1>2, <1>6, <2>3, <2>5 DEF Queued
  <2>8. \A m \in Queued' : (m \in Queued \/ m = NoMsg) /\ m.done \notin C
    BY <2>6, <2>7 DEF Queued
  <2>9. \A ch \in C : ch # 0 /\ \E m \in Queued : m.done = ch
    BY DEF Queued
  <2>10. Line'
    <3>1. LineOK(outputQueue, peQueue.pending, <<>>, peOut.msg)
      BY <2>4, <2>5, PeLineLess
    <3> QED
      BY <1>2, <1>6, <2>3, <3>1 DEF Line
  <2>11. PeTypes'
    BY <1>1, <1>2, <1>6, <2>2, <2>3, <2>5 DEF PeTypes, Signals
  <2>12. PePlaces'
    BY <1>1, <1>2, <1>6, <2>3 DEF PePlaces
  <2>13. UnderWayCases(sendQueue', peOut', sendDoneQueue', peQueue', disconnect')
    BY <1>2, <1>4, <1>6, <2>3 DEF UnderWayCases, Busy
  <2> HIDE DEF C
  <2> QED
    BY <1>2, <2>2, <2>8, <2>9, <2>10, <2>11, <2>12, <2>13, PeGivenUp
<1> QED
  BY <1>5, <1>6 DEF OutQuits

\* The messages of a trickle announce different inventory that the peer does not know.
LEMMA PeTrickled ==
    ASSUME PeTypes
    PROVE  /\ Trickled \in Seq(OutMsg) /\ InLine(Trickled)
           /\ \A m \in Range(Trickled) : m.no = 0 /\ m.done = 0 /\ m.inv \subseteq Range(peQueue.invs) \ knownInventory
<1> DEFINE invs == peQueue.invs
           fresh == {i \in 1..Len(invs) : /\ invs[i] \notin knownInventory
                                          /\ \A j \in 1..(i - 1) : invs[j] # invs[i]}
           batch(n) == (n + PeTrickle - 1) \div PeTrickle
           in(k) == {i \in fresh : batch(Cardinality({j \in fresh : j <= i})) = k}
           N == batch(Cardinality(fresh))
           msg(k) == [NoMsg EXCEPT !.inv = {invs[i] : i \in in(k)}]
<1>1. Trickled = [k \in 1..N |-> msg(k)]
  BY DEF Trickled
<1>2. invs \in Seq(PeInv) /\ Len(invs) \in Nat /\ DOMAIN invs = 1..Len(invs) /\ \A i \in 1..Len(invs) : invs[i] \in PeInv
  BY PeFacts
<1>3. N \in Nat
  <2>1. Cardinality(fresh) \in Nat
    <3>1. IsFiniteSet(1..Len(invs))
      BY <1>2, FS_Interval
    <3>2. IsFiniteSet(fresh)
      BY <3>1, FS_Subset
    <3> QED
      BY <3>2, FS_CardinalityType
  <2>2. \A n \in Nat, t \in Nat \ {0} : n \div t \in Nat
    OBVIOUS
  <2>3. \A n \in Nat, t \in Nat \ {0} : n + t - 1 \in Nat
    OBVIOUS
  <2> HIDE DEF fresh
  <2> QED
    BY <2>1, <2>2, <2>3, PeerAssumption
<1>4. \A k : in(k) \subseteq fresh /\ fresh \subseteq 1..Len(invs)
  OBVIOUS
<1>5. \A i, j \in fresh : invs[i] = invs[j] => i = j
  <2> SUFFICES ASSUME NEW i \in fresh, NEW j \in fresh, invs[i] = invs[j], i < j PROVE FALSE
    <3>1. \A i, j \in fresh : i < j \/ i = j \/ j < i
      BY <1>2
    <3> QED
      BY <3>1
  <2>1. i \in 1..(j - 1)
    BY <1>2
  <2> QED
    BY <2>1
<1>6. \A k, l : k # l => {invs[i] : i \in in(k)} \cap {invs[i] : i \in in(l)} = {}
  <2> SUFFICES ASSUME NEW k, NEW l, k # l, NEW i \in in(k), NEW j \in in(l), invs[i] = invs[j] PROVE FALSE
    OBVIOUS
  <2>1. i = j
    BY <1>4, <1>5
  <2> QED
    BY <2>1
<1>7. \A k : {invs[i] : i \in in(k)} \subseteq Range(invs) \ knownInventory /\ {invs[i] : i \in in(k)} \subseteq PeInv
  BY <1>2 DEF Range
<1> HIDE DEF in, N, invs
<1>8. \A k : /\ msg(k) \in OutMsg /\ msg(k).no = 0 /\ msg(k).done = 0
             /\ msg(k).inv = {invs[i] : i \in in(k)}
  <2> SUFFICES ASSUME NEW S, S \subseteq PeInv
               PROVE  LET m == [NoMsg EXCEPT !.inv = S] IN m \in OutMsg /\ m.no = 0 /\ m.done = 0 /\ m.inv = S
    BY <1>7
  <2> QED
    BY PeNoMsg DEF OutMsg
<1> HIDE DEF msg
<1>9. Trickled \in Seq(OutMsg) /\ Len(Trickled) = N /\ DOMAIN Trickled = 1..N /\ \A k \in 1..N : Trickled[k] = msg(k)
  BY <1>1, <1>3, <1>8
<1>10. InLine(Trickled)
  <2> SUFFICES ASSUME NEW k \in 1..N, NEW l \in 1..N, k < l PROVE Precedes(msg(k), msg(l))
    BY <1>9 DEF InLine
  <2>1. k # l
    BY <1>3
  <2> QED
    BY <1>6, <1>8, <2>1 DEF Precedes
<1>11. \A k : msg(k).no = 0 /\ msg(k).done = 0 /\ msg(k).inv \subseteq Range(peQueue.invs) \ knownInventory
  BY <1>7, <1>8 DEF invs
<1> QED
  BY <1>9, <1>10, <1>11 DEF Range

\* The trickle: inventory becomes known and its messages are queued.
LEMMA PeTrickleStep ==
    ASSUME PeIInv, Trickle PROVE PeIInv'
<1>1. PeTypes /\ PePlaces /\ OneUnderWay /\ Line /\ Unsent
  BY DEF PeIInv
<1> DEFINE new == Trickled
           q == [peQueue EXCEPT !.invs = <<>>]
<1>2. /\ peQueue.at = "select" /\ ~disconnect /\ QueuePacket(q, new)
      /\ peNeg' = peNeg /\ disconnect' = disconnect /\ sendDoneQueue' = sendDoneQueue
      /\ stallControl' = stallControl /\ peOut' = peOut /\ peStall' = peStall /\ peIn' = peIn /\ peCall' = peCall
      /\ peDone' = peDone /\ knownInventory' = knownInventory \cup Range(peQueue.invs) /\ peSent' = peSent
      /\ outputQueue' = outputQueue /\ outputInvChan' = outputInvChan /\ peCount' = peCount
  BY DEF Trickle, peQuiet
<1>3. /\ new \in Seq(OutMsg) /\ InLine(new)
      /\ \A m \in Range(new) : m.no = 0 /\ m.done = 0 /\ m.inv \subseteq Range(peQueue.invs) \ knownInventory
  BY <1>1, PeTrickled
<1>4. /\ outputQueue \in Seq(OutMsg) /\ peQueue.pending \in Seq(OutMsg) /\ sendQueue \in Seq(OutMsg) /\ peQueue \in QueueRec
      /\ peQueue.invs \in Seq(PeInv) /\ peQueue.waiting \in BOOLEAN /\ peDone \in Seq(Nat) /\ peCount \in Nat
      /\ Range(peQueue.invs) \subseteq PeInv /\ knownInventory \subseteq PeInv /\ Len(peDone) \in Nat
  <2>1. peQueue.invs \in Seq(PeInv)
    BY <1>1, PeFacts
  <2>2. Range(peQueue.invs) \subseteq PeInv
    BY <2>1, RangeIn
  <2> QED
    BY <1>1, <2>1, <2>2, PeFacts DEF PeTypes
<1>5. q \in QueueRec /\ q.at = "select" /\ q.waiting = peQueue.waiting /\ q.pending = peQueue.pending
  <2>1. <<>> \in Seq(PeInv)
    OBVIOUS
  <2> QED
    BY <1>2, <1>4, <2>1 DEF QueueRec
<1> HIDE DEF q, new
<1>6. \A n \in Queued, m \in Range(new) : Precedes(n, m) /\ Precedes(m, n)
  <2> TAKE n \in Queued, m \in Range(new)
  <2>1. n.inv \cap m.inv = {} /\ m.inv \cap n.inv = {}
    BY <1>1, <1>3 DEF Unsent, MsgOK
  <2> QED
    BY <1>3, <2>1 DEF Precedes
<1>7. UnderWayCases(sendQueue, peOut, sendDoneQueue, peQueue, disconnect)
  BY <1>1, PeUnderNow
<1>8. ASSUME peQueue' \in QueueRec, peQueue'.at = "select", peQueue'.pending # <<>> => peQueue'.waiting,
             sendQueue' \in Seq(OutMsg), Len(sendQueue') <= 1, Line', Queued' = Queued \cup Range(new),
             UnderWayCases(sendQueue', peOut', sendDoneQueue', peQueue', disconnect')
      PROVE  PeIInv'
  <2>1. PeTypes'
    BY <1>1, <1>2, <1>4, <1>8 DEF PeTypes
  <2>2. PePlaces'
    BY <1>1, <1>2, <1>8 DEF PePlaces
  <2>3. Signals(peDone, peDone', {})
    BY <1>2, <1>4 DEF Signals
  <2>4. Flows({})
    BY <1>2, <1>3, <1>8, <2>3 DEF Flows
  <2>5. ASSUME NEW m \in Queued' PROVE MsgOK(m, peDone', knownInventory', peSent', peCount')
    <3>1. CASE m \in Queued
      <4>1. m \in OutMsg /\ MsgOK(m, peDone, knownInventory, peSent, peCount) /\ peCount <= peCount
        BY <1>1, <1>4, <3>1, PeFacts DEF Unsent
      <4> QED
        BY <1>2, <1>4, <2>3, <4>1, PeMsgKept
    <3>2. CASE m \in Range(new)
      <4>1. m.no = 0 /\ m.done = 0 /\ m.inv \subseteq knownInventory' /\ m.inv \cap peSent'.inv = {}
        BY <1>1, <1>2, <1>3, <3>2 DEF Unsent
      <4>2. 0 <= peCount' /\ 0 <= Len(peDone')
        BY <1>2, <1>4
      <4> QED
        BY <4>1, <4>2 DEF MsgOK
    <3> QED
      BY <1>8, <3>1, <3>2
  <2>6. Unsent'
    BY <1>1, <1>2, <2>5 DEF Unsent
  <2> QED
    BY <1>8, <2>1, <2>2, <2>4, <2>6, PeMoveStep
<1>9. Range(<<>>) = {} /\ <<>> \in Seq(OutMsg) /\ InLine(<<>>) /\ Len(<<>>) = 0
  BY PeLineShort, PeNoMsg
<1>10. LineOK(outputQueue, peQueue.pending, sendQueue, peOut.msg)
  BY <1>1 DEF Line
<1>11. CASE new = <<>>
  <2>1. sendQueue' = sendQueue /\ peQueue' = q
    BY <1>2, <1>11 DEF QueuePacket
  <2>2. Line' /\ Queued' = Queued \cup Range(new)
    BY <1>1, <1>2, <1>5, <1>9, <1>11, <2>1 DEF Line, Queued
  <2>3. UnderWayCases(sendQueue', peOut', sendDoneQueue', peQueue', disconnect')
    BY <1>2, <1>5, <1>7, <2>1 DEF UnderWayCases
  <2>4. peQueue'.pending # <<>> => peQueue'.waiting
    BY <1>1, <1>5, <2>1 DEF PePlaces
  <2>5. sendQueue' \in Seq(OutMsg) /\ Len(sendQueue') <= 1
    BY <1>1, <2>1 DEF PeTypes
  <2> QED
    BY <1>5, <1>8, <2>1, <2>2, <2>3, <2>4, <2>5
<1>12. CASE new # <<>> /\ peQueue.waiting
  <2>1. sendQueue' = sendQueue /\ peQueue' = [q EXCEPT !.pending = @ \o new]
    BY <1>2, <1>5, <1>12 DEF QueuePacket
  <2>2. /\ peQueue.pending \o new \in Seq(OutMsg) /\ Range(peQueue.pending \o new) = Range(peQueue.pending) \cup Range(new)
        /\ InLine(peQueue.pending \o new)
    <3>1. Ahead(Range(peQueue.pending), Range(new)) /\ InLine(peQueue.pending)
      BY <1>6, <1>10 DEF Ahead, Queued, LineOK
    <3> QED
      BY <1>3, <1>4, <3>1, PeLineConcat
  <2>3. LineOK(outputQueue, peQueue.pending \o new, sendQueue, peOut.msg)
    <3>1. Ahead(Range(new), Range(outputQueue)) /\ Ahead(Range(sendQueue), Range(new)) /\ Ahead({peOut.msg}, Range(new))
      BY <1>6 DEF Ahead, Queued
    <3>2. \A A, B, D : (Ahead(A, B) /\ Ahead(A, D) => Ahead(A, B \cup D)) /\ (Ahead(A, D) /\ Ahead(B, D) => Ahead(A \cup B, D))
      BY DEF Ahead
    <3>3. /\ Ahead({peOut.msg}, Range(peQueue.pending) \cup Range(new)) /\ Ahead(Range(sendQueue), Range(peQueue.pending) \cup Range(new))
          /\ Ahead(Range(peQueue.pending) \cup Range(new), Range(outputQueue))
      BY <1>10, <3>1, <3>2 DEF LineOK
    <3> QED
      BY <1>10, <2>2, <3>3 DEF LineOK
  <2>4. /\ peQueue' \in QueueRec /\ peQueue'.at = "select" /\ peQueue'.waiting = TRUE
        /\ peQueue'.pending = peQueue.pending \o new
    BY <1>4, <1>5, <1>12, <2>1, <2>2 DEF QueueRec
  <2>5. Line' /\ Queued' = Queued \cup Range(new)
    BY <1>2, <2>1, <2>2, <2>3, <2>4 DEF Line, Queued
  <2>6. sendQueue' \in Seq(OutMsg) /\ Len(sendQueue') <= 1
    BY <1>1, <2>1 DEF PeTypes
  <2>7. UnderWayCases(sendQueue', peOut', sendDoneQueue', peQueue', disconnect')
    BY <1>2, <1>7, <1>12, <2>1, <2>4 DEF UnderWayCases
  <2> QED
    BY <1>8, <2>4, <2>5, <2>6, <2>7
<1>13. CASE new # <<>> /\ ~peQueue.waiting
  <2>1. sendQueue = <<>> /\ sendDoneQueue # 1 /\ ~Busy(peOut) /\ peQueue.pending = <<>>
    BY <1>1, <1>7, <1>13 DEF UnderWayCases, PePlaces
  <2>2. peOut.msg = NoMsg /\ sendDoneQueue = 0
    <3>1. \A n \in 0..1 : n # 1 => n = 0
      OBVIOUS
    <3>2. sendDoneQueue \in 0..1
      BY <1>1 DEF PeTypes
    <3> QED
      BY <1>1, <2>1, <3>1, <3>2 DEF PePlaces, Busy
  <2>3. sendQueue' = <<Head(new)>> /\ peQueue' = [q EXCEPT !.waiting = TRUE, !.pending = @ \o Tail(new)]
    BY <1>2, <1>5, <1>13 DEF QueuePacket
  <2>4. Head(new) \in OutMsg /\ Tail(new) \in Seq(OutMsg) /\ Range(new) = {Head(new)} \cup Range(Tail(new))
    BY <1>3, <1>13, PeLineTail
  <2>5. <<>> \o Tail(new) = Tail(new)
    BY <2>4
  <2>6. peQueue' \in QueueRec /\ peQueue'.at = "select" /\ peQueue'.waiting = TRUE /\ peQueue'.pending = Tail(new)
    <3>1. peQueue' = [q EXCEPT !.waiting = TRUE, !.pending = Tail(new)]
      BY <1>5, <2>1, <2>3, <2>5
    <3> QED
      BY <1>5, <2>4, <3>1 DEF QueueRec
  <2>7. /\ <<Head(new)>> \in Seq(OutMsg) /\ Len(<<Head(new)>>) = 1 /\ Range(<<Head(new)>>) = {Head(new)}
        /\ <<Head(new)>> # <<>>
    BY <2>4, PeLineShort
  <2>8. Line'
    <3>1. Ahead(Range(new), Range(outputQueue)) /\ \A S : Ahead({NoMsg}, S) /\ Ahead({}, S)
      BY <1>6, PeNoMsg DEF Ahead, Queued
    <3>2. LineOK(outputQueue, new, <<>>, NoMsg)
      BY <1>3, <1>9, <1>10, <3>1 DEF LineOK
    <3>3. LineOK(outputQueue, Tail(new), <<Head(new)>>, NoMsg)
      BY <1>3, <1>4, <1>13, <3>2, PeLineToSend
    <3> QED
      BY <1>2, <2>2, <2>3, <2>6, <3>3 DEF Line
  <2>9. Queued' = Queued \cup Range(new)
    BY <1>2, <1>9, <2>1, <2>3, <2>4, <2>6, <2>7 DEF Queued
  <2>10. UnderWayCases(sendQueue', peOut', sendDoneQueue', peQueue', disconnect')
    BY <1>2, <2>1, <2>2, <2>3, <2>6, <2>7 DEF UnderWayCases
  <2>11. sendQueue' \in Seq(OutMsg) /\ Len(sendQueue') <= 1
    BY <2>3, <2>7
  <2> QED
    BY <1>8, <2>6, <2>8, <2>9, <2>10, <2>11
<1> QED
  BY <1>4, <1>11, <1>12, <1>13

-----------------------------------------------------------------------------
(* Steps of inHandler *)

\* The other goroutines and their queues stay, and so do the channels of the messages on their way.
InAlone ==
    /\ outputQueue' = outputQueue /\ peQueue' = peQueue /\ sendQueue' = sendQueue /\ sendDoneQueue' = sendDoneQueue
    /\ peOut' = peOut /\ peStall' = peStall /\ peNeg' = peNeg /\ peCall' = peCall /\ outputInvChan' = outputInvChan
    /\ knownInventory' = knownInventory /\ peSent' = peSent /\ peCount' = peCount
    /\ disconnect' \in BOOLEAN /\ (disconnect => disconnect') /\ Len(stallControl') <= 1
    /\ peDone' \in Seq(Nat) /\ Len(peDone) <= Len(peDone') /\ \A m \in Queued : m.done # 0 => peDone'[m.done] = 0

\* What remains to be shown of a step of inHandler.
LEMMA PeInStep ==
    ASSUME PeIInv, InAlone, peIn' \in InRec, SignalledOnce', PeInPlaces', PeFresh', PeComing'
    PROVE  PeIInv'
<1>1. PeTypes /\ PePlaces /\ OneUnderWay /\ Line /\ Unsent
  BY DEF PeIInv
<1>2. PeTypes'
  BY <1>1 DEF PeTypes, InAlone
<1>3. PePlaces'
  BY <1>1 DEF PePlaces, InAlone
<1>4. OneUnderWay'
  BY <1>1 DEF OneUnderWay, InAlone
<1>5. Line' /\ Queued' = Queued
  BY <1>1 DEF Line, Queued, InAlone
<1>6. Unsent'
  <2>1. ASSUME NEW m \in Queued PROVE MsgOK(m, peDone', knownInventory, peSent, peCount)
    <3>1. MsgOK(m, peDone, knownInventory, peSent, peCount) /\ m.done \in Nat
      BY <1>1, PeFacts DEF Unsent, OutMsg
    <3>2. m.done <= Len(peDone')
      <4>1. Len(peDone) \in Nat /\ Len(peDone') \in Nat /\ Len(peDone) <= Len(peDone')
        BY <1>1 DEF PeTypes, InAlone
      <4> QED
        BY <3>1, <4>1 DEF MsgOK
    <3> QED
      BY <3>1, <3>2 DEF MsgOK, InAlone
  <2> QED
    BY <1>1, <1>5, <2>1 DEF Unsent, InAlone
<1> QED
  BY <1>2, <1>3, <1>4, <1>5, <1>6 DEF PeIInv

\* The step leaves inHandler where it waits for nothing and has nothing to queue.
LEMMA PeInIdles ==
    ASSUME PeIInv, InAlone, peIn' \in InRec, SignalledOnce', PeInPlaces',
           peIn'.at \notin {"check", "put", "items", "wait", "waitdata"}
    PROVE  PeIInv'
<1>1. PeFresh'
  BY DEF PeFresh, Handing, Serving
<1>2. PeComing'
  BY DEF PeComing, Handing
<1> QED
  BY <1>1, <1>2, PeInStep

\* Steps that touch no channel.
LEMMA PeInAlone ==
    ASSUME PeIInv, peDone' = peDone, UNCHANGED InRest, outputQueue' = outputQueue, peCount' = peCount, Len(stallControl') <= 1
    PROVE  InAlone /\ SignalledOnce' /\ Queued' = Queued
<1>1. PeTypes /\ Unsent /\ SignalledOnce
  BY DEF PeIInv
<1>2. peDone \in Seq(Nat) /\ Len(peDone) \in Nat /\ Len(peDone) <= Len(peDone) /\ disconnect \in BOOLEAN
  BY <1>1 DEF PeTypes
<1>3. \A m \in Queued : m.done # 0 => peDone'[m.done] = 0
  BY <1>1 DEF Unsent, MsgOK
<1>4. InAlone
  BY <1>2, <1>3 DEF InAlone, InRest
<1> QED
  BY <1>1, <1>4 DEF SignalledOnce, InAlone, Queued

\* A message is read, and stallHandler is told of it.
LEMMA PeInReads ==
    ASSUME PeIInv, InRead \/ InReadFails \/ InTellsStall PROVE PeIInv'
<1>1. PeTypes /\ PeInPlaces /\ SignalledOnce
  BY DEF PeIInv
<1>2. peDone' = peDone /\ (UNCHANGED InRest) /\ outputQueue' = outputQueue /\ peCount' = peCount
  BY Zenon DEF InRead, InReadFails, InTellsStall, peQuiet
<1>3. Len(stallControl') <= 1
  <2>1. CASE InTellsStall
    <3>1. PICK x : stallControl' = <<x>>
      BY <2>1 DEF InTellsStall
    <3>2. Len(<<x>>) = 1
      OBVIOUS
    <3> QED
      BY <3>1, <3>2
  <2>2. CASE InRead \/ InReadFails
    <3>1. stallControl' = stallControl
      BY <2>2, Zenon DEF InRead, InReadFails
    <3> QED
      BY <1>1, <3>1 DEF PeTypes
  <2> QED
    BY <2>1, <2>2
<1>4. InAlone /\ SignalledOnce'
  BY <1>2, <1>3, PeInAlone
<1>5. peIn \in InRec /\ Len(peDone) \in Nat
  BY <1>1 DEF PeTypes
<1>6. CASE InRead
  <2>1. CASE \E next \in {"handled", "pong", "reject"} : peIn' = [peIn EXCEPT !.at = "recv", !.next = next]
    <3>1. PICK next \in {"handled", "pong", "reject"} : peIn' = [peIn EXCEPT !.at = "recv", !.next = next]
      BY <2>1, Zenon
    <3>2. peIn' \in InRec /\ peIn'.at = "recv" /\ peIn'.next = next /\ peIn'.wait = peIn.wait
      BY <1>5, <3>1 DEF InRec
    <3>3. PeInPlaces'
      BY <1>1, <1>2, <3>2 DEF PeInPlaces, Handing
    <3> QED
      BY <1>4, <3>2, <3>3, PeInIdles
  <2>2. CASE \E list \in PeInventories :
               peIn' = [peIn EXCEPT !.at = "recv", !.next = "getdata", !.list = list, !.i = 1,
                                    !.wait = 0, !.nf = FALSE, !.added = FALSE]
    <3>1. PICK list \in PeInventories :
               peIn' = [peIn EXCEPT !.at = "recv", !.next = "getdata", !.list = list, !.i = 1,
                                    !.wait = 0, !.nf = FALSE, !.added = FALSE]
      BY <2>2, Zenon
    <3>2. list \in Seq({"found", "missing", "nofilter", "unknown"})
      BY PeerAssumption
    <3>3. peIn' \in InRec /\ peIn'.at = "recv" /\ peIn'.next = "getdata" /\ peIn'.wait = 0 /\ peIn'.i = 1 /\ peIn'.added = FALSE
      BY <1>5, <3>1, <3>2 DEF InRec
    <3>4. 0 <= Len(peDone')
      BY <1>2, <1>5
    <3>5. PeInPlaces'
      BY <3>3, <3>4 DEF PeInPlaces, Handing
    <3> QED
      BY <1>4, <3>3, <3>5, PeInIdles
  <2> QED
    BY <1>6, <2>1, <2>2, Zenon DEF InRead
<1>7. CASE InReadFails
  <2>1. PICK at \in {"end", "reject"} : peIn' = [peIn EXCEPT !.at = at]
    BY <1>7 DEF InReadFails
  <2>2. peIn' \in InRec /\ peIn'.at = at /\ peIn'.wait = peIn.wait
    BY <1>5, <2>1 DEF InRec
  <2>3. PeInPlaces'
    BY <1>1, <1>2, <2>2 DEF PeInPlaces, Handing
  <2> QED
    BY <1>4, <2>2, <2>3, PeInIdles
<1>8. CASE InTellsStall
  <2>1. PICK at : /\ peIn' = [peIn EXCEPT !.at = at]
                  /\ \/ peIn.at = "recv" /\ at = "start"
                     \/ peIn.at = "start" /\ at = peIn.next
                     \/ at \in {"end", "read"}
    BY <1>8 DEF InTellsStall
  <2>2. peIn.at = "start" => peIn.next \in {"handled", "pong", "reject", "getdata"}
    BY <1>1 DEF PeInPlaces
  <2>3. at \in {"start", "handled", "pong", "reject", "getdata", "end", "read"}
    BY <2>1, <2>2
  <2>4. peIn' \in InRec /\ peIn'.at = at /\ peIn'.wait = peIn.wait /\ peIn'.i = peIn.i /\ peIn'.added = peIn.added /\ peIn'.next = peIn.next
    BY <1>5, <2>1, <2>3 DEF InRec
  <2>5. PeInPlaces'
    BY <1>1, <1>2, <2>1, <2>3, <2>4 DEF PeInPlaces, Handing
  <2> QED
    BY <1>4, <2>3, <2>4, <2>5, PeInIdles
<1> QED
  BY <1>6, <1>7, <1>8

\* A channel that is made is empty, and no message on its way has it.
LEMMA PeNewChannel ==
    ASSUME PeTypes, Unsent, SignalledOnce, NEW D, D = Append(peDone, 0)
    PROVE  /\ D \in Seq(Nat) /\ Len(D) = Len(peDone) + 1 /\ Len(peDone) \in Nat
           /\ \A k \in 1..Len(peDone) : D[k] = peDone[k]
           /\ \A m \in Queued : m.done # 0 => D[m.done] = 0
           /\ \A k \in 1..Len(D) : D[k] <= 1
           /\ Uncarried(D, Queued, Len(peDone) + 1)
<1>1. peDone \in Seq(Nat) /\ Len(peDone) \in Nat
  BY DEF PeTypes
<1>2. D \in Seq(Nat) /\ Len(D) = Len(peDone) + 1 /\ (\A k \in 1..Len(peDone) : D[k] = peDone[k]) /\ D[Len(peDone) + 1] = 0
  BY <1>1
<1>3. \A m \in Queued : m.done \in Nat /\ m.done <= Len(peDone) /\ (m.done # 0 => peDone[m.done] = 0)
  BY PeFacts DEF Unsent, MsgOK, OutMsg
<1>4. \A m \in Queued : m.done # 0 => D[m.done] = 0
  <2> SUFFICES ASSUME NEW m \in Queued, m.done # 0 PROVE D[m.done] = 0
    OBVIOUS
  <2>1. m.done \in 1..Len(peDone) /\ peDone[m.done] = 0
    BY <1>1, <1>3
  <2> QED
    BY <1>2, <2>1
<1>5. \A k \in 1..Len(D) : D[k] <= 1
  <2> TAKE k \in 1..Len(D)
  <2>1. k \in 1..Len(peDone) \/ k = Len(peDone) + 1
    BY <1>1, <1>2
  <2> QED
    BY <1>2, <2>1 DEF SignalledOnce
<1>6. \A m \in Queued : m.done # Len(peDone) + 1
  BY <1>1, <1>3
<1> QED
  BY <1>1, <1>2, <1>4, <1>5, <1>6 DEF Uncarried

\* The handlers of a ping, of a message that cannot be read and of getdata begin.
LEMMA PeInHandles ==
    ASSUME PeIInv, InHandles PROVE PeIInv'
<1>1. PeTypes /\ PeInPlaces /\ SignalledOnce /\ Unsent
  BY DEF PeIInv
<1>2. (UNCHANGED InRest) /\ outputQueue' = outputQueue /\ stallControl' = stallControl /\ peCount' = peCount
  BY Zenon DEF InHandles, peQuiet
<1>3. peIn \in InRec /\ Len(peDone) \in Nat /\ Len(stallControl') <= 1 /\ disconnect \in BOOLEAN
  BY <1>1, <1>2 DEF PeTypes
<1>4. CASE /\ peIn.at = "pong" /\ peDone' = peDone
           /\ peIn' = [peIn EXCEPT !.at = "check", !.next = "handled", !.msg = NoMsg]
  <2>1. InAlone /\ SignalledOnce' /\ Queued' = Queued
    BY <1>2, <1>3, <1>4, PeInAlone
  <2>2. peIn' \in InRec /\ peIn'.at = "check" /\ peIn'.next = "handled" /\ peIn'.msg = NoMsg /\ peIn'.wait = peIn.wait
    BY <1>3, <1>4, PeNoMsg DEF InRec
  <2>3. PeInPlaces'
    BY <1>1, <1>4, <2>2, PeNoMsg DEF PeInPlaces, Handing
  <2>4. PeFresh'
    BY <2>2, PeNoMsg DEF PeFresh, Handing, Serving
  <2>5. PeComing'
    BY <2>2 DEF PeComing, Handing
  <2> QED
    BY <2>1, <2>2, <2>3, <2>4, <2>5, PeInStep
<1>5. ASSUME peDone' = Append(peDone, 0)
      PROVE  /\ InAlone /\ SignalledOnce' /\ Queued' = Queued /\ Len(peDone') = Len(peDone) + 1
             /\ Uncarried(peDone', Queued', Len(peDone) + 1)
  <2>1. /\ peDone' \in Seq(Nat) /\ Len(peDone') = Len(peDone) + 1
        /\ \A m \in Queued : m.done # 0 => peDone'[m.done] = 0
        /\ \A k \in 1..Len(peDone') : peDone'[k] <= 1
        /\ Uncarried(peDone', Queued, Len(peDone) + 1)
    BY <1>1, <1>5, PeNewChannel
  <2>2. Len(peDone) <= Len(peDone')
    BY <1>3, <2>1
  <2>3. InAlone
    BY <1>2, <1>3, <2>1, <2>2 DEF InAlone, InRest
  <2>4. Queued' = Queued
    BY <2>3 DEF Queued, InAlone
  <2> QED
    BY <2>1, <2>3, <2>4 DEF SignalledOnce
<1>6. ASSUME peDone' = Append(peDone, 0)
      PROVE  Len(peDone) + 1 \in 1..Len(peDone') /\ Len(peDone) + 1 <= Len(peDone') /\ peIn.wait <= Len(peDone') /\ Len(peDone) + 1 \in Nat
  <2>1. peIn.wait \in Nat /\ peIn.wait <= Len(peDone)
    BY <1>1, <1>3 DEF InRec, PeInPlaces
  <2> QED
    BY <1>3, <1>5, <1>6, <2>1
<1>7. CASE /\ peIn.at = "reject" /\ peDone' = Append(peDone, 0)
           /\ peIn' = [peIn EXCEPT !.at = "check", !.next = "wait", !.dc = Len(peDone) + 1,
                                   !.nf = TRUE, !.msg = [NoMsg EXCEPT !.done = Len(peDone) + 1]]
  <2>1. PICK n : n = Len(peDone) + 1
    OBVIOUS
  <2>2. PICK m : m = [NoMsg EXCEPT !.done = n]
    OBVIOUS
  <2>3. n \in Nat
    BY <1>6, <1>7, <2>1
  <2>4. m \in OutMsg /\ m.done = n /\ m.inv = {}
    BY <2>2, <2>3, PeNoMsg DEF OutMsg
  <2>5. peIn' = [peIn EXCEPT !.at = "check", !.next = "wait", !.dc = n, !.nf = TRUE, !.msg = m]
    BY <1>7, <2>1, <2>2, Zenon
  <2>6. peIn' \in InRec /\ peIn'.at = "check" /\ peIn'.next = "wait" /\ peIn'.msg = m /\ peIn'.wait = peIn.wait /\ peIn'.dc = n
    BY <1>3, <2>3, <2>4, <2>5 DEF InRec
  <2>7. n \in 1..Len(peDone') /\ n <= Len(peDone') /\ peIn.wait <= Len(peDone') /\ Uncarried(peDone', Queued', n)
        /\ InAlone /\ SignalledOnce'
    BY <1>5, <1>6, <1>7, <2>1, Zenon
  <2>8. PeInPlaces'
    BY <2>4, <2>6, <2>7 DEF PeInPlaces, Handing
  <2>9. PeFresh'
    BY <2>4, <2>6, <2>7 DEF PeFresh, Handing, Serving
  <2>10. PeComing'
    BY <2>6 DEF PeComing, Handing
  <2> QED
    BY <2>6, <2>7, <2>8, <2>9, <2>10, PeInStep
<1>8. CASE /\ peIn.at = "getdata" /\ peDone' = Append(peDone, 0)
           /\ peIn' = [peIn EXCEPT !.at = "items", !.dc = Len(peDone) + 1]
  <2>1. PICK n : n = Len(peDone) + 1
    OBVIOUS
  <2>2. n \in 1..Len(peDone') /\ n \in Nat /\ peIn.wait <= Len(peDone') /\ Uncarried(peDone', Queued', n)
        /\ InAlone /\ SignalledOnce'
    BY <1>5, <1>6, <1>8, <2>1
  <2>3. /\ peIn' \in InRec /\ peIn'.at = "items" /\ peIn'.wait = peIn.wait /\ peIn'.dc = n
        /\ peIn'.added = peIn.added
    BY <1>3, <1>8, <2>1, <2>2 DEF InRec
  <2>4. peIn.wait = 0 /\ ~peIn.added
    BY <1>1, <1>8 DEF PeInPlaces
  <2>5. PeInPlaces'
    BY <2>2, <2>3 DEF PeInPlaces, Handing
  <2>6. PeFresh'
    BY <2>2, <2>3 DEF PeFresh, Handing
  <2>7. PeComing'
    BY <2>3, <2>4 DEF PeComing, Handing
  <2> QED
    BY <2>2, <2>3, <2>5, <2>6, <2>7, PeInStep
<1> QED
  BY <1>4, <1>7, <1>8, Zenon DEF InHandles

\* QueueMessage of inHandler looks at Connected, and signals the channel itself when the peer is gone.
LEMMA PeInChecks ==
    ASSUME PeIInv, InChecks PROVE PeIInv'
<1>1. PeTypes /\ PePlaces /\ PeInPlaces /\ SignalledOnce /\ Unsent /\ PeFresh /\ PeComing
  BY DEF PeIInv
<1>2. (UNCHANGED InRest) /\ outputQueue' = outputQueue /\ stallControl' = stallControl /\ peCount' = peCount /\ peIn.at = "check"
  BY DEF InChecks, peQuiet
<1>3. peIn \in InRec /\ peDone \in Seq(Nat) /\ Len(peDone) \in Nat /\ Len(stallControl') <= 1 /\ disconnect \in BOOLEAN
      /\ disconnect' = disconnect
  BY <1>1, <1>2 DEF PeTypes, InRest
<1>4. CASE PeConnected
  <2>1. peIn' = [peIn EXCEPT !.at = "put"] /\ peDone' = peDone
    BY <1>4 DEF InChecks
  <2>2. InAlone /\ SignalledOnce' /\ Queued' = Queued
    BY <1>2, <1>3, <2>1, PeInAlone
  <2>3. /\ peIn' \in InRec /\ peIn'.at = "put" /\ peIn'.next = peIn.next /\ peIn'.msg = peIn.msg /\ peIn'.list = peIn.list
        /\ peIn'.i = peIn.i /\ peIn'.wait = peIn.wait /\ peIn'.nf = peIn.nf /\ peIn'.added = peIn.added /\ peIn'.dc = peIn.dc
    BY <1>3, <2>1 DEF InRec
  <2>4. PeInPlaces'
    BY <1>1, <1>2, <2>1, <2>3 DEF PeInPlaces, Handing
  <2>5. PeFresh'
    BY <1>1, <1>2, <2>1, <2>2, <2>3 DEF PeFresh, Handing, Serving
  <2>6. PeComing'
    BY <1>1, <1>2, <1>3, <2>3 DEF PeComing, Handing
  <2> QED
    BY <2>2, <2>3, <2>4, <2>5, <2>6, PeInStep
<1>5. CASE ~PeConnected
  <2>1. peIn' = [peIn EXCEPT !.at = peIn.next] /\ peDone' = Signal(peDone, peIn.msg.done)
    BY <1>5 DEF InChecks
  <2>2. disconnect
    BY <1>1, <1>5 DEF PeConnected, PePlaces
  <2>3. peIn.next \in {"handled", "wait", "waitdata", "items"}
    BY <1>1, <1>2 DEF PeInPlaces, Handing
  <2>4. /\ peIn' \in InRec /\ peIn'.at = peIn.next /\ peIn'.next = peIn.next /\ peIn'.list = peIn.list
        /\ peIn'.i = peIn.i /\ peIn'.wait = peIn.wait /\ peIn'.nf = peIn.nf /\ peIn'.dc = peIn.dc
    BY <1>3, <2>1, <2>3 DEF InRec
  <2>5. PICK ch : ch = peIn.msg.done
    OBVIOUS
  <2>6. ch \in Nat /\ ch <= Len(peDone) /\ (ch # 0 => Uncarried(peDone, Queued, ch))
    <3>1. ch \in Nat
      BY <1>1, <2>5, PeFacts DEF OutMsg
    <3> QED
      BY <1>1, <1>2, <1>3, <2>5, <3>1 DEF PeFresh, Handing
  <2>7. Signals(peDone, peDone', {ch} \ {0})
    BY <1>3, <2>1, <2>5, <2>6, PeSignalOne
  <2>8. /\ peDone' \in Seq(Nat) /\ Len(peDone') = Len(peDone)
        /\ \A k \in 1..Len(peDone) : k # ch => peDone'[k] = peDone[k]
        /\ ch # 0 => peDone'[ch] = 1
    <3>1. ch # 0 => ch \in 1..Len(peDone) /\ peDone[ch] = 0
      BY <1>3, <2>6 DEF Uncarried
    <3> QED
      BY <2>7, <3>1 DEF Signals
  <2>9. \A m \in Queued : m.done # 0 => peDone'[m.done] = 0
    <3> SUFFICES ASSUME NEW m \in Queued, m.done # 0 PROVE peDone'[m.done] = 0
      OBVIOUS
    <3>1. m.done \in 1..Len(peDone) /\ peDone[m.done] = 0
      BY <1>1, <1>3, PeFacts DEF Unsent, MsgOK, OutMsg
    <3>2. m.done # ch
      BY <2>6 DEF Uncarried
    <3> QED
      BY <2>8, <3>1, <3>2
  <2>10. InAlone
    <3>1. Len(peDone) <= Len(peDone')
      BY <1>3, <2>8
    <3> QED
      BY <1>2, <1>3, <2>8, <2>9, <3>1 DEF InAlone, InRest
  <2>11. SignalledOnce'
    <3> SUFFICES ASSUME NEW k \in 1..Len(peDone) PROVE peDone'[k] <= 1
      BY <2>8 DEF SignalledOnce
    <3>1. CASE k = ch
      BY <1>3, <2>8, <3>1
    <3>2. CASE k # ch
      BY <1>1, <2>8, <3>2 DEF SignalledOnce
    <3> QED
      BY <3>1, <3>2
  <2>12. Queued' = Queued
    BY <2>10 DEF InAlone, Queued
  <2>13. PeInPlaces'
    BY <1>1, <1>2, <2>3, <2>4, <2>8 DEF PeInPlaces, Handing
  <2>14. PeFresh'
    <3>1. ASSUME peIn.next = "items", peIn.i <= Len(peIn.list) \/ peIn.nf PROVE Uncarried(peDone', Queued', peIn.dc)
      <4>1. Uncarried(peDone, Queued, peIn.dc) /\ ch # peIn.dc
        BY <1>1, <1>2, <2>5, <3>1 DEF PeFresh, Handing, Serving
      <4>2. peIn.dc \in 1..Len(peDone)
        BY <1>1, <1>2, <3>1 DEF PeInPlaces, Handing
      <4> QED
        BY <2>8, <2>12, <4>1, <4>2 DEF Uncarried
    <3> QED
      BY <2>3, <2>4, <3>1 DEF PeFresh, Handing, Serving
  <2>15. PeComing'
    BY <1>3, <2>2 DEF PeComing
  <2> QED
    BY <2>4, <2>10, <2>11, <2>13, <2>14, <2>15, PeInStep
<1> QED
  BY <1>4, <1>5

\* <-doneChan: the signal is taken.
LEMMA PeInWaits ==
    ASSUME PeIInv, InWaits PROVE PeIInv'
<1>1. PeTypes /\ PeInPlaces /\ SignalledOnce /\ Unsent
  BY DEF PeIInv
<1>2. /\ UNCHANGED InRest /\ outputQueue' = outputQueue /\ stallControl' = stallControl /\ peCount' = peCount
      /\ peIn.at \in {"wait", "waitdata"} /\ peDone[peIn.dc] > 0
      /\ peDone' = [peDone EXCEPT ![peIn.dc] = @ - 1]
      /\ peIn' = [peIn EXCEPT !.at = IF peIn.at = "wait" THEN "end" ELSE "handled"]
  BY DEF InWaits, peQuiet
<1>3. /\ peIn \in InRec /\ peDone \in Seq(Nat) /\ Len(peDone) \in Nat /\ Len(stallControl') <= 1 /\ disconnect \in BOOLEAN
      /\ peIn.dc \in 1..Len(peDone)
  BY <1>1, <1>2 DEF PeTypes, PeInPlaces
<1>4. PICK ch \in 1..Len(peDone) : ch = peIn.dc
  BY <1>3
<1>5. peDone[ch] \in Nat /\ peDone[ch] <= 1 /\ peDone[ch] > 0
  BY <1>1, <1>2, <1>3, <1>4 DEF SignalledOnce
<1>6. /\ peDone' \in Seq(Nat) /\ Len(peDone') = Len(peDone) /\ peDone'[ch] = 0
      /\ \A k \in 1..Len(peDone) : k # ch => peDone'[k] = peDone[k]
  <2>1. peDone[ch] - 1 = 0
    BY <1>5
  <2>2. peDone' = [peDone EXCEPT ![ch] = 0]
    BY <1>2, <1>4, <2>1
  <2> QED
    BY <1>3, <2>2
<1>7. \A m \in Queued : m.done # 0 => peDone'[m.done] = 0
  <2> SUFFICES ASSUME NEW m \in Queued, m.done # 0 PROVE peDone'[m.done] = 0
    OBVIOUS
  <2>1. m.done \in 1..Len(peDone) /\ peDone[m.done] = 0
    BY <1>1, <1>3, PeFacts DEF Unsent, MsgOK, OutMsg
  <2> QED
    BY <1>6, <2>1
<1>8. InAlone
  <2>1. Len(peDone) <= Len(peDone')
    BY <1>3, <1>6
  <2> QED
    BY <1>2, <1>3, <1>6, <1>7, <2>1 DEF InAlone, InRest
<1>9. SignalledOnce'
  <2> SUFFICES ASSUME NEW k \in 1..Len(peDone) PROVE peDone'[k] <= 1
    BY <1>6 DEF SignalledOnce
  <2>1. CASE k = ch
    BY <1>6, <2>1
  <2>2. CASE k # ch
    BY <1>1, <1>6, <2>2 DEF SignalledOnce
  <2> QED
    BY <2>1, <2>2
<1>10. PICK at \in {"end", "handled"} : peIn' = [peIn EXCEPT !.at = at]
  BY <1>2
<1>11. peIn' \in InRec /\ peIn'.at = at /\ peIn'.wait = peIn.wait
  BY <1>3, <1>10 DEF InRec
<1>12. PeInPlaces'
  BY <1>1, <1>6, <1>11 DEF PeInPlaces, Handing
<1> QED
  BY <1>8, <1>9, <1>11, <1>12, PeInIdles

\* inHandler ends and disconnects the peer.
LEMMA PeInEnds ==
    ASSUME PeIInv, InEnds PROVE PeIInv'
<1>1. PeTypes /\ SignalledOnce /\ Unsent
  BY DEF PeIInv
<1>2. /\ peNeg' = peNeg /\ outputInvChan' = outputInvChan /\ sendQueue' = sendQueue /\ sendDoneQueue' = sendDoneQueue
      /\ peQueue' = peQueue /\ peOut' = peOut /\ peStall' = peStall /\ peCall' = peCall /\ knownInventory' = knownInventory
      /\ peSent' = peSent /\ outputQueue' = outputQueue /\ stallControl' = stallControl /\ peDone' = peDone
      /\ peCount' = peCount /\ disconnect' = TRUE /\ peIn' = [InIdle EXCEPT !.at = "ended"]
  BY Zenon DEF InEnds, peQuiet
<1>3. InIdle \in InRec /\ InIdle.wait = 0
  <2>1. 0 \in Nat /\ 1 \in Nat /\ <<>> \in Seq({"found", "missing", "nofilter", "unknown"})
    OBVIOUS
  <2> QED
    BY <2>1, PeNoMsg DEF InIdle, InRec
<1>4. peIn' \in InRec /\ peIn'.at = "ended" /\ peIn'.wait = 0
  BY <1>2, <1>3 DEF InRec
<1>5. peDone \in Seq(Nat) /\ 0 <= Len(peDone) /\ Len(peDone) <= Len(peDone) /\ Len(stallControl) <= 1
  BY <1>1 DEF PeTypes
<1>6. InAlone
  <2>1. \A m \in Queued : m.done # 0 => peDone'[m.done] = 0
    BY <1>1, <1>2 DEF Unsent, MsgOK
  <2> QED
    BY <1>2, <1>5, <2>1 DEF InAlone
<1>7. SignalledOnce'
  BY <1>1, <1>2 DEF SignalledOnce
<1>8. PeInPlaces'
  BY <1>2, <1>4, <1>5 DEF PeInPlaces, Handing
<1> QED
  BY <1>4, <1>6, <1>7, <1>8, PeInIdles

\* The end of OnGetData: notfound carries the common channel, or a message on its way does.
LEMMA PeGetDataEnds ==
    ASSUME PeIInv, GetDataEnds PROVE PeIInv'
<1>1. PeTypes /\ PeInPlaces /\ SignalledOnce /\ Unsent /\ PeFresh /\ PeComing
  BY DEF PeIInv
<1>2. /\ UNCHANGED InRest /\ outputQueue' = outputQueue /\ stallControl' = stallControl /\ peCount' = peCount /\ peDone' = peDone
      /\ peIn.at = "items" /\ peIn.i > Len(peIn.list)
  BY Zenon DEF GetDataEnds, peQuiet
<1>3. /\ peIn \in InRec /\ Len(peDone) \in Nat /\ Len(stallControl') <= 1 /\ disconnect' = disconnect
      /\ peIn.dc \in 1..Len(peDone) /\ peIn.dc \in Nat /\ peIn.dc <= Len(peDone) /\ peIn.dc # 0
  <2>1. peIn \in InRec /\ Len(peDone) \in Nat /\ Len(stallControl') <= 1 /\ disconnect' = disconnect
    BY <1>1, <1>2 DEF PeTypes, InRest
  <2>2. peIn.dc \in 1..Len(peDone)
    BY <1>1, <1>2 DEF PeInPlaces
  <2> QED
    BY <2>1, <2>2
<1>4. InAlone /\ SignalledOnce' /\ Queued' = Queued
  BY <1>2, <1>3, PeInAlone
<1>5. CASE peIn.nf
  <2>1. PICK m : m = [NoMsg EXCEPT !.done = peIn.dc]
    OBVIOUS
  <2>2. m \in OutMsg /\ m.done = peIn.dc /\ m.inv = {}
    BY <1>3, <2>1, PeNoMsg DEF OutMsg
  <2>3. peIn' = [peIn EXCEPT !.at = "check", !.next = "waitdata", !.msg = m]
    BY <1>5, <2>1, Zenon DEF GetDataEnds
  <2>4. peIn' \in InRec /\ peIn'.at = "check" /\ peIn'.next = "waitdata" /\ peIn'.msg = m /\ peIn'.dc = peIn.dc /\ peIn'.wait = peIn.wait
    BY <1>3, <2>2, <2>3 DEF InRec
  <2>5. PeInPlaces'
    BY <1>1, <1>2, <1>3, <2>2, <2>4 DEF PeInPlaces, Handing
  <2>6. Uncarried(peDone', Queued', peIn.dc)
    BY <1>1, <1>2, <1>4, <1>5 DEF PeFresh, Serving
  <2>7. PeFresh'
    BY <1>2, <1>3, <2>2, <2>4, <2>6 DEF PeFresh, Handing, Serving
  <2>8. PeComing'
    BY <2>4 DEF PeComing, Handing
  <2> QED
    BY <1>4, <2>4, <2>5, <2>7, <2>8, PeInStep
<1>6. CASE ~peIn.nf
  <2>1. PICK at : at = (IF peIn.added THEN "waitdata" ELSE "handled") /\ peIn' = [peIn EXCEPT !.at = at]
    BY <1>6, Zenon DEF GetDataEnds
  <2>2. /\ peIn' \in InRec /\ peIn'.at = at /\ peIn'.dc = peIn.dc /\ peIn'.wait = peIn.wait /\ peIn'.list = peIn.list
        /\ at \in {"waitdata", "handled"}
    BY <1>3, <2>1 DEF InRec
  <2>3. PeInPlaces'
    BY <1>1, <1>2, <1>3, <2>2 DEF PeInPlaces, Handing
  <2>4. PeFresh'
    BY <2>2 DEF PeFresh, Handing, Serving
  <2>5. at = "waitdata" /\ ~disconnect => Coming(peDone', Queued', peIn.dc) \/ peIn.list[Len(peIn.list)] = "unknown"
    BY <1>1, <1>2, <1>4, <1>6, <2>1 DEF PeComing
  <2>6. PeComing'
    BY <1>3, <2>2, <2>5 DEF PeComing, Handing
  <2> QED
    BY <1>4, <2>2, <2>3, <2>4, <2>6, PeInStep
<1> QED
  BY <1>3, <1>5, <1>6

\* QueueMessage of inHandler sends the message, and what it waits for is on its way.
LEMMA PeInPuts ==
    ASSUME PeIInv, InPuts PROVE PeIInv'
<1>1. PeTypes /\ PePlaces /\ PeInPlaces /\ OneUnderWay /\ Line /\ Unsent /\ SignalledOnce /\ PeFresh /\ PeComing
  BY DEF PeIInv
<1> DEFINE m == [peIn.msg EXCEPT !.no = peCount + 1]
<1>2. /\ peIn.at = "put" /\ Len(outputQueue) < PeOutputBuffer /\ outputQueue' = Append(outputQueue, m)
      /\ peCount' = peCount + 1 /\ peIn' = [peIn EXCEPT !.at = peIn.next]
      /\ peNeg' = peNeg /\ disconnect' = disconnect /\ sendQueue' = sendQueue /\ sendDoneQueue' = sendDoneQueue
      /\ stallControl' = stallControl /\ peQueue' = peQueue /\ peOut' = peOut /\ peStall' = peStall /\ peCall' = peCall
      /\ peDone' = peDone /\ knownInventory' = knownInventory /\ peSent' = peSent /\ outputInvChan' = outputInvChan
  BY DEF InPuts, InRest
<1>3. peCount \in Nat /\ peDone \in Seq(Nat) /\ Len(outputQueue) \in Nat /\ Len(peDone) \in Nat /\ peIn \in InRec
  BY <1>1 DEF PeTypes
<1>4. PICK ch : ch = peIn.msg.done
  OBVIOUS
<1>5. m \in OutMsg /\ m.no = peCount + 1 /\ m.inv = {} /\ m.done = ch /\ ch \in Nat
  <2>1. peIn.msg \in OutMsg /\ peCount + 1 \in Nat
    BY <1>1, <1>3, PeFacts
  <2>2. m \in OutMsg /\ m.no = peCount + 1 /\ m.inv = peIn.msg.inv /\ m.done = peIn.msg.done
    BY <2>1 DEF OutMsg
  <2>3. peIn.msg.inv = {}
    BY <1>1, <1>2 DEF PeInPlaces, Handing
  <2> QED
    BY <1>4, <2>2, <2>3 DEF OutMsg
<1> HIDE DEF m
<1>6. ch # 0 => ch <= Len(peDone) /\ Uncarried(peDone, Queued, ch)
  BY <1>1, <1>2, <1>4 DEF PeFresh, Handing
<1>7. \A n \in Queued : Follows(n, m)
  <2> TAKE n \in Queued
  <2>1. n.no \in Nat /\ n.no <= peCount
    BY <1>1, PeFacts DEF Unsent, MsgOK, OutMsg
  <2>2. n.no < m.no
    BY <1>3, <1>5, <2>1
  <2>3. n.done # 0 => n.done # m.done
    BY <1>5, <1>6 DEF Uncarried
  <2> QED
    BY <2>2, <2>3 DEF Follows
<1>8. /\ LineOK(Append(outputQueue, m), peQueue.pending, sendQueue, peOut.msg)
      /\ Append(outputQueue, m) \in Seq(OutMsg)
      /\ Range(Append(outputQueue, m)) = Range(outputQueue) \cup {m}
      /\ Len(Append(outputQueue, m)) = Len(outputQueue) + 1
  <2>1. /\ outputQueue \in Seq(OutMsg) /\ peQueue.pending \in Seq(OutMsg) /\ sendQueue \in Seq(OutMsg)
        /\ peOut.msg \in OutMsg
    BY <1>1, PeFacts
  <2>2. \A n \in Range(outputQueue) \cup Range(peQueue.pending) \cup Range(sendQueue) \cup {peOut.msg} : Follows(n, m)
    BY <1>7 DEF Queued
  <2>3. LineOK(outputQueue, peQueue.pending, sendQueue, peOut.msg)
    BY <1>1 DEF Line
  <2> QED
    BY <1>5, <2>1, <2>2, <2>3, PeLineNew
<1>9. Line'
  BY <1>2, <1>8 DEF Line
<1>10. Queued' = Queued \cup {m}
  BY <1>2, <1>8 DEF Queued
<1>11. Signals(peDone, peDone', {})
  BY <1>2, <1>3 DEF Signals
<1>12. Unsent'
  <2>1. ASSUME NEW n \in Queued' PROVE MsgOK(n, peDone', knownInventory', peSent', peCount')
    <3>1. CASE n \in Queued
      <4>1. n \in OutMsg /\ MsgOK(n, peDone, knownInventory, peSent, peCount) /\ peCount <= peCount + 1
        BY <1>1, <1>3, <3>1, PeFacts DEF Unsent
      <4> QED
        BY <1>2, <1>3, <1>11, <4>1, PeMsgKept
    <3>2. CASE n = m
      <4>1. peSent.no < m.no
        BY <1>1, <1>3, <1>5, PeFacts DEF Unsent
      <4>2. m.no <= peCount' /\ m.done <= Len(peDone')
        BY <1>2, <1>3, <1>5, <1>6
      <4>3. m.done # 0 => peDone'[m.done] = 0
        BY <1>2, <1>5, <1>6 DEF Uncarried
      <4> QED
        BY <1>2, <1>5, <3>2, <4>1, <4>2, <4>3 DEF MsgOK
    <3> QED
      BY <1>10, <3>1, <3>2
  <2>2. peSent'.no <= peCount' /\ peSent'.inv \subseteq knownInventory'
    BY <1>1, <1>2, <1>3, PeFacts DEF Unsent
  <2> QED
    BY <2>1, <2>2 DEF Unsent
<1>13. Len(outputQueue') <= PeOutputBuffer /\ peCount' \in Nat
  BY <1>2, <1>3, <1>8, PeerAssumption
<1>14. peIn.next \in {"handled", "wait", "waitdata", "items"}
  BY <1>1, <1>2 DEF PeInPlaces, Handing
<1>15. /\ peIn' \in InRec /\ peIn'.at = peIn.next /\ peIn'.next = peIn.next /\ peIn'.list = peIn.list
       /\ peIn'.i = peIn.i /\ peIn'.wait = peIn.wait /\ peIn'.nf = peIn.nf /\ peIn'.dc = peIn.dc /\ peIn'.added = peIn.added
  BY <1>2, <1>3, <1>14 DEF InRec
<1>16. PeTypes'
  BY <1>1, <1>2, <1>8, <1>13, <1>15 DEF PeTypes
<1>17. PePlaces'
  BY <1>1, <1>2 DEF PePlaces
<1>18. OneUnderWay'
  BY <1>1, <1>2 DEF OneUnderWay
<1>19. PeInPlaces'
  BY <1>1, <1>2, <1>14, <1>15 DEF PeInPlaces, Handing
<1>20. SignalledOnce'
  BY <1>1, <1>2 DEF SignalledOnce
<1>21. PeFresh'
  <2>1. ASSUME peIn.next = "items", peIn.i <= Len(peIn.list) \/ peIn.nf PROVE Uncarried(peDone', Queued', peIn.dc)
    <3>1. Uncarried(peDone, Queued, peIn.dc) /\ ch # peIn.dc
      BY <1>1, <1>2, <1>4, <2>1 DEF PeFresh, Handing, Serving
    <3> QED
      BY <1>2, <1>5, <1>10, <3>1 DEF Uncarried
  <2> QED
    BY <1>14, <1>15, <2>1 DEF PeFresh, Handing, Serving
<1>22. PeComing'
  <2>1. Coming(peDone', Queued', ch)
    BY <1>5, <1>10 DEF Coming
  <2>2. peIn.next \in {"wait", "waitdata"} => ch = peIn.dc
    BY <1>1, <1>2, <1>4 DEF PeInPlaces, Handing
  <2>3. peIn.next = "items" => ch = peIn.wait
    BY <1>1, <1>2, <1>4 DEF PeInPlaces, Handing
  <2>4. peIn.next = "items" /\ peIn.i > Len(peIn.list) /\ ~peIn.nf /\ ~disconnect => ch = peIn.dc
    BY <1>1, <1>2, <1>4 DEF PeComing, Handing
  <2> QED
    BY <1>2, <1>14, <1>15, <2>1, <2>2, <2>3, <2>4 DEF PeComing, Handing
<1> QED
  BY <1>9, <1>12, <1>16, <1>17, <1>18, <1>19, <1>20, <1>21, <1>22 DEF PeIInv

\* One entry of getdata: the channel it carries is not carried yet, and the one it waits for was signalled.
LEMMA PeGetDataItem ==
    ASSUME PeIInv, GetDataItem PROVE PeIInv'
<1>1. PeTypes /\ PeInPlaces /\ SignalledOnce /\ Unsent /\ PeFresh /\ PeComing
  BY DEF PeIInv
<1> DEFINE item == peIn.list[peIn.i]
           last == peIn.i = Len(peIn.list)
           own == ~(last /\ ~peIn.nf) /\ peIn.i % 3 = 0
           c == IF last /\ ~peIn.nf THEN peIn.dc ELSE IF own THEN Len(peDone) + 1 ELSE 0
           D == IF own THEN Append(peDone, 0) ELSE peDone
<1>2. /\ UNCHANGED InRest /\ outputQueue' = outputQueue /\ stallControl' = stallControl /\ peCount' = peCount
      /\ peIn.at = "items" /\ peIn.i <= Len(peIn.list)
  BY Zenon DEF GetDataItem, peQuiet
<1>3. \/ item = "unknown" /\ peDone' = D /\ peIn' = [peIn EXCEPT !.i = @ + 1]
      \/ /\ item = "missing" /\ peDone' = IF last THEN D ELSE Signal(D, c)
         /\ peIn' = [peIn EXCEPT !.i = @ + 1, !.wait = c, !.nf = TRUE, !.added = TRUE]
      \/ /\ item = "nofilter" /\ peDone' = Signal(D, c)
         /\ peIn' = [peIn EXCEPT !.i = @ + 1, !.wait = c, !.added = TRUE]
      \/ /\ item = "found" /\ (peIn.wait # 0 => peDone[peIn.wait] > 0)
         /\ peDone' = IF peIn.wait = 0 THEN D ELSE [D EXCEPT ![peIn.wait] = @ - 1]
         /\ peIn' = [peIn EXCEPT !.at = "check", !.next = "items", !.i = @ + 1,
                                 !.wait = c, !.added = TRUE, !.msg = [NoMsg EXCEPT !.done = c]]
  BY Zenon DEF GetDataItem
<1>4. /\ peIn \in InRec /\ peDone \in Seq(Nat) /\ Len(peDone) \in Nat /\ Len(stallControl') <= 1 /\ disconnect \in BOOLEAN
      /\ disconnect' = disconnect
  BY <1>1, <1>2 DEF PeTypes, InRest
<1>5. PICK n \in Nat : n = peIn.i + 1
  BY <1>4 DEF InRec
<1>6. PICK len \in Nat : len = Len(peIn.list)
  BY <1>4 DEF InRec
<1>7. peIn.i \in Nat /\ peIn.wait \in Nat /\ peIn.wait <= Len(peDone) /\ peIn.dc \in 1..Len(peDone) /\ peIn.nf \in BOOLEAN
  BY <1>1, <1>2, <1>4 DEF InRec, PeInPlaces
<1>8. (n <= len => ~last) /\ (n > len => last)
  BY <1>2, <1>5, <1>6, <1>7
<1>9. Uncarried(peDone, Queued, peIn.dc)
  BY <1>1, <1>2 DEF PeFresh, Serving
<1>10. /\ D \in Seq(Nat) /\ Len(D) \in Nat /\ Len(peDone) <= Len(D) /\ \A k \in 1..Len(peDone) : k \in 1..Len(D) /\ D[k] = peDone[k]
       /\ \A m \in Queued : m.done # 0 => D[m.done] = 0
       /\ \A k \in 1..Len(D) : D[k] <= 1
       /\ own => Len(D) = Len(peDone) + 1 /\ Uncarried(D, Queued, Len(peDone) + 1)
  <2>1. CASE own
    <3>1. D = Append(peDone, 0)
      BY <2>1
    <3> HIDE DEF D
    <3>2. /\ D \in Seq(Nat) /\ Len(D) = Len(peDone) + 1
          /\ \A k \in 1..Len(peDone) : D[k] = peDone[k]
          /\ \A m \in Queued : m.done # 0 => D[m.done] = 0
          /\ \A k \in 1..Len(D) : D[k] <= 1
          /\ Uncarried(D, Queued, Len(peDone) + 1)
      BY <1>1, <3>1, PeNewChannel
    <3>3. Len(D) \in Nat /\ Len(peDone) <= Len(D) /\ \A k \in 1..Len(peDone) : k \in 1..Len(D)
      BY <1>4, <3>2
    <3> QED
      BY <3>2, <3>3
  <2>2. CASE ~own
    <3>1. D = peDone
      BY <2>2
    <3>2. \A m \in Queued : m.done # 0 => peDone[m.done] = 0
      BY <1>1 DEF Unsent, MsgOK
    <3>3. \A k \in 1..Len(peDone) : peDone[k] <= 1
      BY <1>1 DEF SignalledOnce
    <3>4. Len(peDone) <= Len(peDone)
      BY <1>4
    <3> HIDE DEF D, own
    <3> QED
      BY <1>4, <2>2, <3>1, <3>2, <3>3, <3>4
  <2> QED
    BY <2>1, <2>2
<1>11. /\ c \in Nat /\ c <= Len(D) /\ (c # 0 => c \in 1..Len(D) /\ D[c] = 0 /\ Uncarried(D, Queued, c))
       /\ (last /\ ~peIn.nf => c = peIn.dc) /\ (~last \/ peIn.nf => c # peIn.dc)
  <2> HIDE DEF D
  <2>1. CASE last /\ ~peIn.nf
    <3>1. c = peIn.dc
      BY <2>1
    <3>2. Uncarried(D, Queued, peIn.dc) /\ D[peIn.dc] = 0
      BY <1>7, <1>9, <1>10 DEF Uncarried
    <3>3. peIn.dc \in Nat /\ peIn.dc <= Len(D) /\ peIn.dc \in 1..Len(D)
      BY <1>4, <1>7, <1>10
    <3> HIDE DEF c, last
    <3> QED
      BY <2>1, <3>1, <3>2, <3>3
  <2>2. CASE ~(last /\ ~peIn.nf) /\ own
    <3>0. c = Len(peDone) + 1
      BY <2>2
    <3> HIDE DEF c, last, own
    <3>1. c = Len(peDone) + 1 /\ Len(D) = Len(peDone) + 1 /\ Uncarried(D, Queued, Len(peDone) + 1)
      BY <1>10, <2>2, <3>0
    <3>2. c \in Nat /\ c <= Len(D) /\ c \in 1..Len(D) /\ c # peIn.dc
      BY <1>4, <1>7, <3>1
    <3> QED
      BY <2>2, <3>1, <3>2 DEF Uncarried
  <2>3. CASE ~(last /\ ~peIn.nf) /\ ~own
    <3>1. c = 0
      BY <2>3
    <3> HIDE DEF c, last
    <3>2. 0 <= Len(D) /\ peIn.dc # 0
      BY <1>7, <1>10
    <3> QED
      BY <2>3, <3>1, <3>2
  <2> QED
    BY <2>1, <2>2, <2>3
<1> HIDE DEF D, c, own
<1>12. D[peIn.dc] = 0
  BY <1>7, <1>9, <1>10 DEF Uncarried
<1>13. /\ Signal(D, c) \in Seq(Nat) /\ Len(Signal(D, c)) = Len(D) /\ (c # 0 => Signal(D, c)[c] = 1)
       /\ \A k \in 1..Len(D) : k # c => Signal(D, c)[k] = D[k]
  <2>1. Signals(D, Signal(D, c), {c} \ {0})
    BY <1>10, <1>11, PeSignalOne
  <2> QED
    BY <1>11, <2>1 DEF Signals
<1>14. ASSUME peDone' \in Seq(Nat), Len(peDone') = Len(D), \A m \in Queued : m.done # 0 => peDone'[m.done] = 0,
              \A k \in 1..Len(D) : peDone'[k] <= 1
       PROVE  InAlone /\ SignalledOnce' /\ Queued' = Queued
  <2>1. InAlone
    BY <1>2, <1>4, <1>10, <1>14 DEF InAlone, InRest
  <2> QED
    BY <1>14, <2>1 DEF InAlone, SignalledOnce, Queued
<1>15. \A m \in Queued : m.done # 0 => m.done \in 1..Len(D)
  <2> SUFFICES ASSUME NEW m \in Queued, m.done # 0 PROVE m.done \in 1..Len(D)
    OBVIOUS
  <2>1. m.done \in 1..Len(peDone)
    BY <1>1, <1>4, PeFacts DEF Unsent, MsgOK, OutMsg
  <2> QED
    BY <1>10, <2>1
<1>16. /\ \A m \in Queued : m.done # 0 => Signal(D, c)[m.done] = 0
       /\ \A k \in 1..Len(D) : Signal(D, c)[k] <= 1
  <2>1. ASSUME NEW m \in Queued, m.done # 0 PROVE Signal(D, c)[m.done] = 0
    <3>1. m.done # c
      BY <1>11, <2>1 DEF Uncarried
    <3> QED
      BY <1>10, <1>13, <1>15, <2>1, <3>1
  <2>2. ASSUME NEW k \in 1..Len(D) PROVE Signal(D, c)[k] <= 1
    <3>1. CASE k = c
      <4>1. c # 0
        BY <1>10, <3>1
      <4> QED
        BY <1>13, <3>1, <4>1
    <3>2. CASE k # c
      BY <1>10, <1>13, <3>2
    <3> QED
      BY <3>1, <3>2
  <2> QED
    BY <2>1, <2>2
<1>17. CASE item = "unknown" /\ peDone' = D /\ peIn' = [peIn EXCEPT !.i = @ + 1]
  <2>1. InAlone /\ SignalledOnce' /\ Queued' = Queued
    BY <1>10, <1>14, <1>17
  <2>2. /\ peIn' \in InRec /\ peIn'.at = "items" /\ peIn'.list = peIn.list /\ peIn'.i = n /\ peIn'.wait = peIn.wait
        /\ peIn'.nf = peIn.nf /\ peIn'.added = peIn.added /\ peIn'.dc = peIn.dc
    BY <1>2, <1>4, <1>5, <1>17 DEF InRec
  <2>3. peIn.wait <= Len(peDone') /\ peIn.dc \in 1..Len(peDone')
    <3>1. peIn.wait <= Len(D)
      BY <1>4, <1>7, <1>10
    <3> QED
      BY <1>7, <1>10, <1>17, <3>1
  <2>4. PeInPlaces'
    BY <2>2, <2>3 DEF PeInPlaces, Handing
  <2>5. Uncarried(peDone', Queued', peIn.dc)
    BY <1>9, <1>12, <1>17, <2>1 DEF Uncarried
  <2>6. PeFresh'
    BY <2>2, <2>5 DEF PeFresh, Handing
  <2>7. ~disconnect /\ peIn.wait # 0 => Coming(peDone', Queued', peIn.wait)
    <3>1. ~disconnect /\ peIn.wait # 0 => Coming(peDone, Queued, peIn.wait)
      BY <1>1, <1>2 DEF PeComing
    <3>2. peIn.wait # 0 => peIn.wait \in 1..Len(peDone)
      BY <1>4, <1>7
    <3> QED
      BY <1>10, <1>17, <2>1, <3>1, <3>2 DEF Coming
  <2>8. n > len => peIn.list[Len(peIn.list)] = "unknown"
    BY <1>8, <1>17
  <2>9. PeComing'
    BY <1>4, <1>6, <2>2, <2>7, <2>8 DEF PeComing, Handing
  <2> QED
    BY <2>1, <2>2, <2>4, <2>6, <2>9, PeInStep
<1>18. CASE /\ item = "missing" /\ peDone' = IF last THEN D ELSE Signal(D, c)
            /\ peIn' = [peIn EXCEPT !.i = @ + 1, !.wait = c, !.nf = TRUE, !.added = TRUE]
  <2>1. InAlone /\ SignalledOnce' /\ Queued' = Queued /\ Len(peDone') = Len(D)
    <3>1. CASE last
      BY <1>10, <1>14, <1>18, <3>1
    <3>2. CASE ~last
      BY <1>13, <1>14, <1>16, <1>18, <3>2
    <3> QED
      BY <3>1, <3>2
  <2>2. peIn' = [peIn EXCEPT !.i = n, !.wait = c, !.nf = TRUE, !.added = TRUE]
    BY <1>5, <1>18
  <2>3. /\ peIn' \in InRec /\ peIn'.at = "items" /\ peIn'.list = peIn.list /\ peIn'.i = n /\ peIn'.wait = c
        /\ peIn'.nf = TRUE /\ peIn'.dc = peIn.dc
    BY <1>2, <1>4, <1>11, <2>2 DEF InRec
  <2>4. peIn.dc \in 1..Len(peDone')
    BY <1>7, <1>10, <2>1
  <2>5. PeInPlaces'
    BY <1>11, <2>1, <2>3, <2>4 DEF PeInPlaces, Handing
  <2>6. peDone'[peIn.dc] = 0
    <3>1. CASE last
      BY <1>12, <1>18, <3>1
    <3>2. CASE ~last
      BY <1>7, <1>10, <1>11, <1>12, <1>13, <1>18, <3>2
    <3> QED
      BY <3>1, <3>2
  <2>7. Uncarried(peDone', Queued', peIn.dc)
    BY <1>9, <2>1, <2>6 DEF Uncarried
  <2>8. PeFresh'
    BY <2>3, <2>7 DEF PeFresh, Handing
  <2>9. n <= len /\ c # 0 => Coming(peDone', Queued', c)
    <3>1. n <= len /\ c # 0 => peDone'[c] = 1
      BY <1>8, <1>13, <1>18
    <3>2. 1 > 0
      OBVIOUS
    <3> QED
      BY <3>1, <3>2 DEF Coming
  <2>10. PeComing'
    BY <1>6, <2>3, <2>9 DEF PeComing, Handing
  <2> QED
    BY <2>1, <2>3, <2>5, <2>8, <2>10, PeInStep
<1>19. CASE /\ item = "nofilter" /\ peDone' = Signal(D, c)
            /\ peIn' = [peIn EXCEPT !.i = @ + 1, !.wait = c, !.added = TRUE]
  <2>1. InAlone /\ SignalledOnce' /\ Queued' = Queued /\ Len(peDone') = Len(D)
    BY <1>13, <1>14, <1>16, <1>19
  <2>2. peIn' = [peIn EXCEPT !.i = n, !.wait = c, !.added = TRUE]
    BY <1>5, <1>19
  <2>3. /\ peIn' \in InRec /\ peIn'.at = "items" /\ peIn'.list = peIn.list /\ peIn'.i = n /\ peIn'.wait = c
        /\ peIn'.nf = peIn.nf /\ peIn'.dc = peIn.dc
    BY <1>2, <1>4, <1>11, <2>2 DEF InRec
  <2>4. peIn.dc \in 1..Len(peDone')
    BY <1>7, <1>10, <2>1
  <2>5. PeInPlaces'
    BY <1>11, <2>1, <2>3, <2>4 DEF PeInPlaces, Handing
  <2>6. n <= len \/ peIn.nf => Uncarried(peDone', Queued', peIn.dc)
    <3>1. n <= len \/ peIn.nf => c # peIn.dc
      BY <1>8, <1>11
    <3>2. n <= len \/ peIn.nf => peDone'[peIn.dc] = 0
      BY <1>7, <1>10, <1>12, <1>13, <1>19, <3>1
    <3> QED
      BY <1>9, <2>1, <3>2 DEF Uncarried
  <2>7. PeFresh'
    BY <1>6, <2>3, <2>6 DEF PeFresh, Handing
  <2>8. c # 0 => Coming(peDone', Queued', c)
    <3>1. c # 0 => peDone'[c] = 1
      BY <1>13, <1>19
    <3>2. 1 > 0
      OBVIOUS
    <3> QED
      BY <3>1, <3>2 DEF Coming
  <2>9. n > len /\ ~peIn.nf => c = peIn.dc /\ c # 0
    BY <1>7, <1>8, <1>11
  <2>10. PeComing'
    BY <1>6, <2>3, <2>8, <2>9 DEF PeComing, Handing
  <2> QED
    BY <2>1, <2>3, <2>5, <2>7, <2>10, PeInStep
<1>20. CASE /\ item = "found" /\ (peIn.wait # 0 => peDone[peIn.wait] > 0)
            /\ peDone' = IF peIn.wait = 0 THEN D ELSE [D EXCEPT ![peIn.wait] = @ - 1]
            /\ peIn' = [peIn EXCEPT !.at = "check", !.next = "items", !.i = @ + 1,
                                    !.wait = c, !.added = TRUE, !.msg = [NoMsg EXCEPT !.done = c]]
  <2>1. PICK m : m = [NoMsg EXCEPT !.done = c]
    OBVIOUS
  <2>2. m \in OutMsg /\ m.done = c /\ m.inv = {}
    BY <1>11, <2>1, PeNoMsg DEF OutMsg
  <2>3. /\ peIn.wait # 0 => peDone[peIn.wait] > 0
        /\ peDone' = IF peIn.wait = 0 THEN D ELSE [D EXCEPT ![peIn.wait] = @ - 1]
        /\ peIn' = [peIn EXCEPT !.at = "check", !.next = "items", !.i = n,
                                !.wait = c, !.added = TRUE, !.msg = m]
    BY <1>5, <1>20, <2>1, Zenon
  <2>4. /\ peIn' \in InRec /\ peIn'.at = "check" /\ peIn'.next = "items" /\ peIn'.list = peIn.list /\ peIn'.i = n /\ peIn'.wait = c
        /\ peIn'.nf = peIn.nf /\ peIn'.dc = peIn.dc /\ peIn'.msg = m
    BY <1>4, <1>11, <2>2, <2>3 DEF InRec
  <2>5. /\ peDone' \in Seq(Nat) /\ Len(peDone') = Len(D)
        /\ \A k \in 1..Len(D) : D[k] = 0 => peDone'[k] = 0
        /\ \A k \in 1..Len(D) : peDone'[k] <= 1
    <3>1. CASE peIn.wait = 0
      BY <1>10, <2>3, <3>1
    <3>2. CASE peIn.wait # 0
      <4>1. PICK w \in 1..Len(D) : w = peIn.wait /\ D[w] > 0 /\ D[w] \in Nat /\ D[w] <= 1
        <5>1. peIn.wait \in 1..Len(peDone)
          BY <1>4, <1>7, <3>2
        <5> QED
          BY <1>10, <2>3, <3>2, <5>1
      <4>2. D[w] - 1 = 0 /\ D[w] # 0
        BY <4>1
      <4>3. peDone' = [D EXCEPT ![w] = 0]
        BY <2>3, <3>2, <4>1, <4>2
      <4>4. peDone' \in Seq(Nat) /\ Len(peDone') = Len(D) /\ peDone'[w] = 0 /\ \A k \in 1..Len(D) : k # w => peDone'[k] = D[k]
        BY <1>10, <4>3
      <4>5. 0 <= 1
        OBVIOUS
      <4> QED
        BY <1>10, <4>2, <4>4, <4>5
    <3> QED
      BY <3>1, <3>2
  <2>6. \A x \in Queued : x.done # 0 => peDone'[x.done] = 0
    BY <1>10, <1>15, <2>5
  <2>7. InAlone /\ SignalledOnce' /\ Queued' = Queued
    BY <1>14, <2>5, <2>6
  <2>8. peIn.dc \in 1..Len(peDone') /\ c <= Len(peDone')
    BY <1>7, <1>10, <1>11, <2>5
  <2>9. PeInPlaces'
    BY <2>2, <2>4, <2>8 DEF PeInPlaces, Handing
  <2>10. Uncarried(peDone', Queued', peIn.dc)
    <3>1. peDone'[peIn.dc] = 0
      BY <1>7, <1>10, <1>12, <2>5
    <3> QED
      BY <1>9, <2>7, <3>1 DEF Uncarried
  <2>11. c # 0 => Uncarried(peDone', Queued', c)
    BY <1>11, <2>5, <2>7 DEF Uncarried
  <2>12. n <= len \/ peIn.nf => c # peIn.dc
    BY <1>8, <1>11
  <2>13. PeFresh'
    BY <1>6, <2>2, <2>4, <2>8, <2>10, <2>11, <2>12 DEF PeFresh, Handing, Serving
  <2>14. n > len /\ ~peIn.nf => c = peIn.dc
    BY <1>8, <1>11
  <2>15. PeComing'
    BY <1>6, <2>2, <2>4, <2>14 DEF PeComing, Handing
  <2> QED
    BY <2>4, <2>7, <2>9, <2>13, <2>15, PeInStep
<1> QED
  BY <1>3, <1>17, <1>18, <1>19, <1>20, Zenon

-----------------------------------------------------------------------------

\* A new connection.
LEMMA PeInitially == PeerInit => PeIInv
<1> SUFFICES ASSUME PeerInit PROVE PeIInv
  OBVIOUS
<1>1. /\ peNeg = "version" /\ disconnect = FALSE /\ outputQueue = <<>> /\ outputInvChan = <<>> /\ sendQueue = <<>>
      /\ sendDoneQueue = 0 /\ stallControl = <<>> /\ peIn = InIdle /\ peCall = [c \in PeCallers |-> "idle"] /\ peDone = <<>>
      /\ knownInventory = {} /\ peCount = 0
  BY DEF PeerInit
<1>2. <<>> \in Seq(OutMsg) /\ Range(<<>>) = {} /\ InLine(<<>>) /\ Len(<<>>) = 0 /\ <<>> \in Seq(PeInv) /\ <<>> \in Seq(Nat)
  <2>1. <<>> \in Seq(PeInv) /\ <<>> \in Seq(Nat)
    OBVIOUS
  <2> QED
    BY <2>1, PeLineShort, PeNoMsg
<1>3. peQueue \in QueueRec /\ peQueue.at = "select" /\ peQueue.waiting = FALSE /\ peQueue.pending = <<>>
  BY <1>2 DEF PeerInit, QueueRec
<1>4. peOut \in OutRec /\ peOut.at = "select" /\ peOut.msg = NoMsg
  BY PeNoMsg DEF PeerInit, OutRec
<1>5. peStall \in StallRec
  BY DEF PeerInit, StallRec
<1>6. peSent \in [no : Nat, inv : SUBSET PeInv] /\ peSent.no = 0 /\ peSent.inv = {}
  BY DEF PeerInit
<1>7. peIn \in InRec /\ peIn.at = "read" /\ peIn.wait = 0
  <2>1. 0 \in Nat /\ 1 \in Nat /\ <<>> \in Seq({"found", "missing", "nofilter", "unknown"})
    OBVIOUS
  <2> QED
    BY <1>1, <2>1, PeNoMsg DEF InIdle, InRec
<1>8. 0 \in 0..1 /\ 0 <= PeOutputBuffer /\ 0 <= 1 /\ 0 \in Nat /\ 0 <= 0
  BY PeerAssumption
<1>9. PeTypes
  <2>1. peCall \in [PeCallers -> {"idle", "message"} \cup PeInv]
    BY <1>1
  <2> QED
    BY <1>1, <1>2, <1>3, <1>4, <1>5, <1>6, <1>7, <1>8, <2>1 DEF PeTypes
<1>10. PePlaces
  BY <1>1, <1>3, <1>4 DEF PePlaces
<1>11. PeInPlaces
  BY <1>1, <1>2, <1>7, <1>8 DEF PeInPlaces, Handing
<1>12. OneUnderWay
  BY <1>1, <1>2, <1>3, <1>4 DEF OneUnderWay
<1>13. Line
  <2>1. \A S : Ahead({NoMsg}, S) /\ Ahead({}, S)
    BY PeNoMsg DEF Ahead
  <2> QED
    BY <1>1, <1>2, <1>3, <1>4, <2>1 DEF Line, LineOK
<1>14. Unsent
  <2>1. Queued = {NoMsg}
    BY <1>1, <1>2, <1>3, <1>4 DEF Queued
  <2>2. MsgOK(NoMsg, peDone, knownInventory, peSent, peCount)
    BY <1>1, <1>2, <1>6, <1>8, PeNoMsg DEF MsgOK
  <2> QED
    BY <1>1, <1>6, <1>8, <2>1, <2>2 DEF Unsent
<1>15. SignalledOnce
  <2>1. 1..0 = {}
    OBVIOUS
  <2> QED
    BY <1>1, <1>2, <2>1 DEF SignalledOnce
<1>16. PeFresh /\ PeComing
  BY <1>7 DEF PeFresh, PeComing, Handing, Serving
<1> QED
  BY <1>9, <1>10, <1>11, <1>12, <1>13, <1>14, <1>15, <1>16 DEF PeIInv

\* Every step keeps the inductive invariant.
LEMMA PeInductive == PeIInv /\ [PeerNext]_peVars => PeIInv'
<1> SUFFICES ASSUME PeIInv, [PeerNext]_peVars PROVE PeIInv'
  OBVIOUS
<1>1. CASE Negotiate \/ NegotiateFails \/ PeerDisconnect
  BY <1>1, PeHandshake
<1>2. ASSUME NEW c \in PeCallers, CallerChecks(c) \/ CallerQueues(c) \/ CallerAnnounces(c) PROVE PeIInv'
  BY <1>2, PeAnnouncing, PeCallerQueues
<1>3. CASE QueueStep
  BY <1>3, PeQueueOutput, PeQueueSendDone, PeAnnouncing, PeQueueQuits DEF QueueStep
<1>4. CASE Trickle
  BY <1>4, PeTrickleStep
<1>5. CASE OutStep \/ OutWrites \/ OutWriteFails
  BY <1>5, PeOutTakes, PeOutTells, PeOutQuits, PeOutWrites, PeOutWriteFails DEF OutStep
<1>6. CASE StallHears \/ StallTick \/ StallQuits
  BY <1>6, PeStallSteps
<1>7. CASE InStep \/ InRead \/ InReadFails
  BY <1>7, PeInReads, PeInHandles, PeInChecks, PeInPuts, PeGetDataItem, PeGetDataEnds, PeInWaits, PeInEnds DEF InStep
<1>8. CASE UNCHANGED peVars
  <2>1. /\ peNeg' = peNeg /\ disconnect' = disconnect /\ outputQueue' = outputQueue /\ outputInvChan' = outputInvChan
        /\ sendQueue' = sendQueue /\ sendDoneQueue' = sendDoneQueue /\ stallControl' = stallControl /\ peQueue' = peQueue
        /\ peOut' = peOut /\ peStall' = peStall /\ peIn' = peIn /\ peCall' = peCall /\ peDone' = peDone
        /\ knownInventory' = knownInventory /\ peSent' = peSent /\ peCount' = peCount
    BY <1>8 DEF peVars, peQuiet
  <2>2. PeTypes /\ PePlaces /\ OneUnderWay
    BY DEF PeIInv
  <2>3. PeStill
    BY <2>1, <2>2 DEF PeStill, PeTypes
  <2>4. PeTypes' /\ PePlaces'
    BY <2>1, <2>2 DEF PeTypes, PePlaces
  <2>5. OneUnderWay'
    BY <2>1, <2>2 DEF OneUnderWay
  <2> QED
    BY <2>3, <2>4, <2>5, PeStillStep
<1> QED
  BY <1>1, <1>2, <1>3, <1>4, <1>5, <1>6, <1>7, <1>8 DEF PeerNext

\* The inductive invariant implies the one of the run.
LEMMA PeSafe == PeIInv => PeerInvariant
<1> SUFFICES ASSUME PeIInv PROVE PeerInvariant
  OBVIOUS
<1>1. PeTypes /\ SignalledOnce /\ OneUnderWay /\ Unsent /\ PeComing
  BY DEF PeIInv
<1>2. PeerTypeOK
  <2>1. peQueue.at \in {"select", "drain", "ended"}
    BY <1>1 DEF PeTypes, QueueRec
  <2>2. peOut.at \in {"select", "stall", "write", "done", "drain", "ended"}
    BY <1>1 DEF PeTypes, OutRec
  <2>3. peStall.at \in {"select", "drain", "ended"}
    BY <1>1 DEF PeTypes, StallRec
  <2> QED
    BY <1>1, <2>1, <2>2, <2>3, PeFacts DEF PeTypes, PeerTypeOK
<1>3. SentInOrder
  <2>1. peOut.msg \in Queued /\ peOut.msg.no \in Nat /\ peSent.no \in Nat
    BY <1>1, PeFacts DEF Queued, OutMsg
  <2>2. MsgOK(peOut.msg, peDone, knownInventory, peSent, peCount)
    BY <1>1, <2>1 DEF Unsent
  <2> QED
    BY <2>1, <2>2 DEF MsgOK, SentInOrder
<1>4. AwaitedIsComing
  BY <1>1 DEF PeComing, Coming, Queued, AwaitedIsComing
<1> QED
  BY <1>1, <1>2, <1>3, <1>4 DEF PeerInvariant

\* The goroutines of a connection hand messages over in order and without loss or repetition, a done
\* channel is signalled once, and what inHandler waits for is coming, whatever their schedule,
\* the inventories of the getdata messages and the sizes of the channels (peer.go, OnGetData of server.go).
THEOREM PeerDelivers == PeerSpec => []PeerInvariant
<1>1. PeerInit => PeIInv
  BY PeInitially
<1>2. PeIInv /\ [PeerNext]_peVars => PeIInv'
  BY PeInductive
<1>3. PeIInv => PeerInvariant
  BY PeSafe
<1> QED
  BY <1>1, <1>2, <1>3, PTL DEF PeerSpec
=============================================================================
