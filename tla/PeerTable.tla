------------------------------ MODULE PeerTable ------------------------------
(***************************************************************************)
(* The table of peers of peer/internal/server: ListAllDHTPeers adds peers  *)
(* every three seconds and starts a goroutine for each look-up of a        *)
(* location (getLocationFromIP) or a latency (getLatency), the route       *)
(* /remove-peer marks a peer (DisconnectPeer), and /find-peer looks        *)
(* locations up.  They share peerTable, a plain map, and peerTableMUT.     *)
(*                                                                         *)
(* A look-up copies the row, works on the copy with the mutex held, up to  *)
(* two seconds for three pings, and puts it back.  Several error returns   *)
(* do not unlock: the mutex is then Leaked.  ListAllDHTPeers, the routes   *)
(* that read and UpdateAllPeerLatency use the map without the mutex; the   *)
(* Go runtime ends the process when it notices that another goroutine is   *)
(* writing the map meanwhile.                                              *)
(***************************************************************************)
EXTENDS Integers

CONSTANTS
    Peers,      \* peers the DHT may know
    Address,    \* Address[p]: what FindPeer says of p's first address
    MaxCalls    \* how many look-ups and requests are begun (a bound)

\* An address that is missing or malformed, one that is not IPv4, the
\* loopback address, and any other IPv4 address.
ASSUME PeerTableAssumption ==
    /\ Peers # {}
    /\ Address \in [Peers -> {"none", "noip4", "loopback", "public"}]
    /\ MaxCalls \in Nat

Calls == 1..MaxCalls
Free == 0
Leaked == MaxCalls + 1

PeerRow == [located : BOOLEAN, timed : BOOLEAN, open : BOOLEAN]
NewRow == [located |-> FALSE, timed |-> FALSE, open |-> TRUE]

VARIABLES
    known,      \* the keys of peerTable
    row,        \* its rows (NewRow for a peer that is not known)
    mutex,      \* Free, the call that holds peerTableMUT, or Leaked
    call,       \* each call: what it is, for whom, where, its copy of the row
    begun,      \* how many calls were begun
    crashed     \* the process has ended

peerTableVars == <<known, row, mutex, call, begun, crashed>>

Call == [op : {"none", "location", "latency", "remove", "find"},
         peer : Peers, at : {"none", "lock", "work", "done"}, val : PeerRow]

\* The types of peerTable, of its mutex and of the calls.
PeerTableTypeOK ==
    /\ known \subseteq Peers
    /\ row \in [Peers -> PeerRow] /\ \A p \in Peers \ known : row[p] = NewRow
    /\ mutex \in 0..Leaked
    /\ call \in [Calls -> Call]
    /\ begun \in 0..MaxCalls
    /\ crashed \in BOOLEAN

PeerTableInit ==
    /\ known = {}
    /\ row = [p \in Peers |-> NewRow]
    /\ mutex = Free
    /\ call \in [Calls -> [op : {"none"}, peer : {CHOOSE p \in Peers : TRUE},
                           at : {"none"}, val : {NewRow}]]
    /\ begun = 0
    /\ crashed = FALSE

-----------------------------------------------------------------------------
(* Calls begin. *)

Begin(op, p) ==
    /\ ~crashed
    /\ begun < MaxCalls
    /\ begun' = begun + 1
    /\ call' = [call EXCEPT ![begun + 1] = [op |-> op, peer |-> p, at |-> "lock", val |-> NewRow]]

\* ListAllDHTPeers meets a peer that is not in the table.
ListPeer(p) ==
    /\ p \notin known
    /\ Begin("location", p)
    /\ known' = known \cup {p}
    /\ row' = [row EXCEPT ![p] = NewRow]
    /\ UNCHANGED <<mutex, crashed>>

\* UpdateAllPeerLatency, for one of its peers.
UpdateLatency(p) == p \in known /\ Begin("latency", p) /\ UNCHANGED <<known, row, mutex, crashed>>

\* The routes /remove-peer, for any id, and /find-peer, for one holder.
RemovePeer(p) == Begin("remove", p) /\ UNCHANGED <<known, row, mutex, crashed>>
FindPeers(p) == Begin("find", p) /\ UNCHANGED <<known, row, mutex, crashed>>

-----------------------------------------------------------------------------
(* Calls under the mutex. *)

\* Mutation: a key that does not exist is entered.
FoundAlways(c) == call[c].op # "find"

\* findPeersForHash looks for the bytes of the holder's public key, and the
\* keys of the table are peer ids: it never finds the row.
Found(c) == call[c].peer \in known /\ call[c].op # "find"

\* Mutation: the row is copied before the mutex is taken.
LockEarlyCopy(c) ==
    /\ ~crashed
    /\ call[c].at = "lock"
    /\ Found(c)
    /\ call' = [call EXCEPT ![c].at = "work", ![c].val = row[call[c].peer]]
    /\ UNCHANGED <<known, row, mutex, begun, crashed>>

\* The mutex, the row, and its copy.
Lock(c) ==
    /\ ~crashed
    /\ call[c].at = "lock"
    /\ mutex = Free
    /\ Found(c)
    /\ mutex' = c
    /\ call' = [call EXCEPT ![c].at = "work", ![c].val = row[call[c].peer]]
    /\ UNCHANGED <<known, row, begun, crashed>>

\* Mutation: the mutex is not given back when the key does not exist.
NotFoundLeaks(c) ==
    /\ ~crashed
    /\ call[c].at = "lock"
    /\ mutex = Free
    /\ ~Found(c)
    /\ mutex' = Leaked
    /\ call' = [call EXCEPT ![c].at = "done"]
    /\ UNCHANGED <<known, row, begun, crashed>>

\* "key does not exist": the mutex is taken and given back.
NotFound(c) ==
    /\ ~crashed
    /\ call[c].at = "lock"
    /\ mutex = Free
    /\ ~Found(c)
    /\ call' = [call EXCEPT ![c].at = "done"]
    /\ UNCHANGED <<known, row, mutex, begun, crashed>>

\* The addresses for which a look-up returns early, without unlocking.  (An
\* IPv4 address in digits always makes a pinger.)
Refuses(c) ==
    CASE call[c].op = "location" -> Address[call[c].peer] # "public"
      [] call[c].op = "latency" -> Address[call[c].peer] \in {"none", "noip4"}
      [] OTHER -> FALSE

ReturnLocked(c) ==
    /\ ~crashed
    /\ call[c].at = "work"
    /\ Refuses(c)
    /\ call' = [call EXCEPT ![c].at = "done"]
    /\ mutex' = Leaked
    /\ UNCHANGED <<known, row, begun, crashed>>

\* The row as the call leaves it.
Updated(c) ==
    CASE call[c].op = "location" -> [call[c].val EXCEPT !.located = TRUE]
      [] call[c].op = "latency" -> [call[c].val EXCEPT !.timed = TRUE]
      [] OTHER -> [call[c].val EXCEPT !.open = FALSE]

\* Mutation: the mutex is not given back.
StoreKeepsLock(c) ==
    /\ ~crashed
    /\ call[c].at = "work"
    /\ ~Refuses(c)
    /\ row' = [row EXCEPT ![call[c].peer] = Updated(c)]
    /\ call' = [call EXCEPT ![c].at = "done"]
    /\ UNCHANGED <<known, mutex, begun, crashed>>

\* The row is put back and the mutex released.
Store(c) ==
    /\ ~crashed
    /\ call[c].at = "work"
    /\ ~Refuses(c)
    /\ row' = [row EXCEPT ![call[c].peer] = Updated(c)]
    /\ call' = [call EXCEPT ![c].at = "done"]
    /\ mutex' = Free
    /\ UNCHANGED <<known, begun, crashed>>

\* The country data base is missing (log.Fatal), or an unlocked use of the
\* map coincides with a write, of the call that holds the mutex or, without
\* the mutex, of ListAllDHTPeers.
Crash ==
    /\ ~crashed
    /\ mutex \in Calls \/ known # Peers
    /\ crashed' = TRUE
    /\ UNCHANGED <<known, row, mutex, call, begun>>

PeerTableNext ==
    \/ \E p \in Peers : ListPeer(p) \/ UpdateLatency(p) \/ RemovePeer(p) \/ FindPeers(p)
    \/ \E c \in Calls : Lock(c) \/ NotFound(c) \/ ReturnLocked(c) \/ Store(c)
    \/ Crash

\* Goroutines keep running, and the mutex lets every waiting one in in turn.
PeerTableFairness ==
    \A c \in Calls : /\ WF_peerTableVars(Lock(c) \/ NotFound(c))
                     /\ WF_peerTableVars(ReturnLocked(c) \/ Store(c))

PeerTableSpec == PeerTableInit /\ [][PeerTableNext]_peerTableVars /\ PeerTableFairness

-----------------------------------------------------------------------------
(* Properties *)

\* No call undoes what another one has stored: a peer that was removed stays
\* so, and a location or a latency that was found stays, although every call
\* writes a whole row that it copied earlier.
UpdatesKept ==
    [][\A p \in Peers :
         /\ row[p].located => row'[p].located
         /\ row[p].timed => row'[p].timed
         /\ ~row[p].open => ~row'[p].open]_peerTableVars

\* The mutex belongs to a call that is at work, or it was lost to an address
\* in the table that is not a public IPv4 address, never to an unknown peer.
LeakHasCause ==
    /\ mutex \in Calls => call[mutex].at = "work"
    /\ mutex = Leaked => \E p \in known : Address[p] # "public"

\* A request of /remove-peer or /find-peer is answered, and every look-up
\* ends, unless the process ends or the mutex was lost.
CallsEnd ==
    \A c \in Calls : call[c].at = "lock" ~> (call[c].at = "done" \/ crashed \/ mutex = Leaked)

\* "Most routes should return 400 [...] and 200 if everything is successful"
\* (peer/README.md:144): /remove-peer returns, unless the process ends.
RemoveAnswered ==
    \A c \in Calls : (call[c].op = "remove") ~> (call[c].at = "done" \/ crashed)

\* The rows are well formed, and the mutex is only ever lost to an address that
\* getLocationFromIP or getLatency cannot use.
PeerTableInvariant ==
    /\ PeerTableTypeOK /\ LeakHasCause
=============================================================================
