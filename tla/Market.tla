------------------------------- MODULE Market -------------------------------
(***************************************************************************)
(* The file market of a peer node, for one file hash: RegisterFile and     *)
(* CheckHolders of peer/internal/server over a Kademlia DHT whose nodes    *)
(* accept and choose values with OrcaValidator (Validate, Select).         *)
(*                                                                         *)
(* A value is a chain: one signed record per producer, and the time it was *)
(* put together.  Peers run the DHT in client mode: each keeps a local     *)
(* copy of what it put, and asks and updates the DHT's servers.  The DHT   *)
(* itself is a library; GetValue and PutValue are modelled from how the    *)
(* code uses them: a read asks the local store and the servers it reaches, *)
(* keeps the value Select prefers and sends it to servers that had another *)
(* one; a write is checked against the local store and then sent to the    *)
(* servers, each of which checks it again when it arrives, if it does.     *)
(*                                                                         *)
(* The order of the records in a chain is left out, and so are the         *)
(* signatures: every record here was made by the producer it names.        *)
(***************************************************************************)
EXTENDS Integers, FiniteSets, FiniteSetsExt, Sequences

CONSTANTS
    Producers,  \* the peers that register and look up the file
    Servers,    \* the DHT's servers
    Prices,     \* what a producer may ask
    RecordBytes,      \* RecordBytes[p]: length of a record with price p
    Skew,       \* Skew[n]: how far n's clock is ahead
    MaxTime,    \* bound on the clock
    MaxRegs     \* bound on the calls of RegisterFile

Nodes == Producers \cup Servers

ASSUME MarketAssumption ==
    /\ Prices # {}
    /\ RecordBytes \in [Prices -> Nat \ {0}]
    /\ Skew \in [Nodes -> Nat]
    /\ MaxTime \in Nat
    /\ MaxRegs \in Nat
    /\ Producers \cap Servers = {}

Record == [id : Producers, price : Prices]
Chain == [recs : SUBSET Record, ts : Nat]

\* What GetValue returns when nothing is found.
Empty == [recs |-> {}, ts |-> 0]

VARIABLES
    now,        \* true time, in seconds
    store,      \* the chain each node keeps (Empty: none)
    reg,        \* each producer's RegisterFile: where it is, and its locals
    wire,       \* values on their way to servers
    regs,       \* how many registrations were begun
    offer,      \* history variable: offer[n], the last price n registered
                \* with success, in a set ({}: none)
    missed      \* history variable: a value was lost on its way, or a server
                \* was not reached by a read or a write

marketVars == <<now, store, reg, wire, regs, offer, missed>>

Message == [to : Servers, from : Producers, put : BOOLEAN, val : Chain]

\* The types of the clocks, stores, registrations and messages.
MarketTypeOK ==
    /\ now \in 0..MaxTime
    /\ store \in [Nodes -> Chain]
    /\ reg \in [Producers -> [at : {"idle", "got", "sending"}, base : Chain, price : Prices]]
    /\ wire \subseteq Message
    /\ regs \in 0..MaxRegs
    /\ offer \in [Producers -> SUBSET Prices]
    /\ missed \in BOOLEAN

MarketInit ==
    /\ now = 0
    /\ store = [n \in Nodes |-> Empty]
    /\ reg \in [Producers -> [at : {"idle"}, base : {Empty}, price : {CHOOSE p \in Prices : TRUE}]]
    /\ wire = {}
    /\ regs = 0
    /\ offer = [n \in Producers |-> {}]
    /\ missed = FALSE

Clock(n) == now + Skew[n]

-----------------------------------------------------------------------------
(* OrcaValidator *)

Length(v) == MapThenSumSet(LAMBDA r : RecordBytes[r.price], v.recs)

\* Mutation: the time of a value is not looked at.
ValidAtAnyTime(v, n) ==
    \A r, s \in v.recs : r.id = s.id => r = s

\* Validate: at most one record for each public key, and no time to come.
Valid(v, n) ==
    /\ \A r, s \in v.recs : r.id = s.id => r = s
    /\ v.ts <= Clock(n)

\* Mutation: the longest value wins whatever its time.
SelectLongest(values) ==
    LET best[i \in 1..Len(values)] ==
          IF i = 1 THEN 1
          ELSE IF Length(values[i]) >= Length(values[best[i - 1]]) THEN i ELSE best[i - 1]
    IN  best[Len(values)]

\* Mutation: the first value stays unless a later one is longer and later.
SelectFirst(values) ==
    LET best[i \in 1..Len(values)] ==
          IF i = 1 THEN 1
          ELSE IF /\ Length(values[i]) > Length(values[best[i - 1]])
                  /\ values[i].ts > values[best[i - 1]].ts
                 THEN i ELSE best[i - 1]
    IN  best[Len(values)]

\* Select: the first value, unless a later one is at least as long and at
\* least as late, and so on.
Select(values) ==
    LET best[i \in 1..Len(values)] ==
          IF i = 1 THEN 1
          ELSE IF /\ Length(values[i]) >= Length(values[best[i - 1]])
                  /\ values[i].ts >= values[best[i - 1]].ts
                 THEN i ELSE best[i - 1]
    IN  best[Len(values)]

-----------------------------------------------------------------------------
(* The DHT (external) *)

\* A node keeps its value if it has one and Select([new, old]) is the old.
Accepts(n, v) ==
    /\ Valid(v, n)
    /\ store[n] \in {Empty, v} \/ Select(<<v, store[n]>>) = 1

\* A chain that a read by n over the nodes S may return: the values that n
\* finds valid are compared one by one in the order in which they arrive.
Found(n, S) ==
    LET values == {v \in {store[m] : m \in S} \ {Empty} : Valid(v, n)}
    IN  IF values = {} THEN {Empty}
        ELSE {v \in values : \A u \in values \ {v} :
                \/ Select(<<v, u>>) = 1
                \/ Select(<<u, v>>) = 2}

\* The servers of S that answered something else are sent the result.
Corrections(n, S, v) ==
    IF v = Empty THEN {}
    ELSE {[to |-> s, from |-> n, put |-> FALSE, val |-> v] :
            s \in {m \in S \cap Servers : store[m] # v}}

Arrive(m) ==
    /\ m \in wire
    /\ wire' = wire \ {m}
    /\ store' = IF Accepts(m.to, m.val) THEN [store EXCEPT ![m.to] = m.val] ELSE store
    /\ UNCHANGED <<now, reg, regs, offer, missed>>

Lose(m) ==
    /\ m \in wire
    /\ wire' = wire \ {m}
    /\ missed' = TRUE
    /\ UNCHANGED <<now, store, reg, regs, offer>>

-----------------------------------------------------------------------------
(* RegisterFile and CheckHolders *)

RegisterGet(n, price) ==
    /\ reg[n].at = "idle"
    /\ regs < MaxRegs
    /\ regs' = regs + 1
    /\ \E S \in SUBSET Servers : \E v \in Found(n, S \cup {n}) :
         /\ reg' = [reg EXCEPT ![n] = [at |-> "got", base |-> v, price |-> price]]
         /\ wire' = wire \cup Corrections(n, S, v)
         /\ missed' = (missed \/ S # Servers)
    /\ UNCHANGED <<now, store, offer>>

\* Mutation: the record that n registered before stays.
NewChainKeepsOld(n) ==
    [recs |-> reg[n].base.recs \cup {[id |-> n, price |-> reg[n].price]},
     ts |-> Clock(n)]

\* Mutation: the record is left without a price.
NewChainUnpriced(n) ==
    [recs |-> {r \in reg[n].base.recs : r.id # n} \cup {[id |-> n, price |-> 0]},
     ts |-> Clock(n)]

\* The chain that was read without n's record, with a new one, stamped now.
NewChain(n) ==
    [recs |-> {r \in reg[n].base.recs : r.id # n} \cup {[id |-> n, price |-> reg[n].price]},
     ts |-> Clock(n)]

\* PutValue stores the chain locally and sends it to the servers; when the
\* node's own check refuses it, RegisterFile returns the error.
RegisterPut(n) ==
    /\ reg[n].at = "got"
    /\ IF Accepts(n, NewChain(n))
         THEN /\ store' = [store EXCEPT ![n] = NewChain(n)]
              /\ wire' = wire \cup {[to |-> s, from |-> n, put |-> TRUE, val |-> NewChain(n)] :
                                      s \in Servers}
              /\ reg' = [reg EXCEPT ![n].at = "sending"]
         ELSE /\ reg' = [reg EXCEPT ![n].at = "idle"]
              /\ UNCHANGED <<store, wire>>
    /\ UNCHANGED <<now, regs, offer, missed>>

\* PutValue stores the chain, finds no server to send it to, and fails.
RegisterPutUnsent(n) ==
    /\ reg[n].at = "got"
    /\ Accepts(n, NewChain(n))
    /\ store' = [store EXCEPT ![n] = NewChain(n)]
    /\ reg' = [reg EXCEPT ![n].at = "idle"]
    /\ missed' = TRUE
    /\ UNCHANGED <<now, wire, regs, offer>>

\* PutValue waits for its messages, and reports success whatever became of
\* them.
RegisterReturn(n) ==
    /\ reg[n].at = "sending"
    /\ \A m \in wire : m.from # n \/ ~m.put
    /\ reg' = [reg EXCEPT ![n].at = "idle"]
    /\ offer' = [offer EXCEPT ![n] = {reg[n].price}]
    /\ UNCHANGED <<now, store, wire, regs, missed>>

\* A look-up changes nothing here but may correct servers.
CheckHolders(n) ==
    /\ \E S \in SUBSET Servers : \E v \in Found(n, S \cup {n}) :
         /\ wire' = wire \cup Corrections(n, S, v)
         /\ missed' = (missed \/ S # Servers)
    /\ UNCHANGED <<now, store, reg, regs, offer>>

Tick ==
    /\ now < MaxTime
    /\ now' = now + 1
    /\ UNCHANGED <<store, reg, wire, regs, offer, missed>>

MarketNext ==
    \/ \E n \in Producers :
         \/ \E p \in Prices : RegisterGet(n, p)
         \/ RegisterPut(n) \/ RegisterPutUnsent(n) \/ RegisterReturn(n)
         \/ CheckHolders(n)
    \/ \E m \in wire : Arrive(m) \/ Lose(m)
    \/ Tick

MarketSpec == MarketInit /\ [][MarketNext]_marketVars

-----------------------------------------------------------------------------
(* Properties *)

\* No node ever holds a chain stamped later than its own clock, however far
\* ahead the clock of the producer that put the chain together (Validate's
\* last check, made by the local put and by every server).
NoFuture == \A n \in Nodes : store[n].ts <= Clock(n)

\* The chain that RegisterFile puts together always passes the producer's own
\* Validate: re-registering replaces the producer's record, never adds a
\* second one, whatever chain GetValue returned.
BuildsValid ==
    \A n \in Producers : reg[n].at = "got" => Valid(NewChain(n), n)

\* A registration on its way is never refused by a server whose chain is
\* older, unless it is in that server's future: a later price always
\* replaces an earlier one, even when the new chain is shorter.
LaterIsAccepted ==
    \A m \in wire :
        m.put /\ store[m.to].ts < m.val.ts /\ m.val.ts <= Clock(m.to)
            => Accepts(m.to, m.val)

\* No put, correction, delay or reordering makes a node give up a chain for
\* one that is neither longer nor later (the use of Select by a put).
NeverRegresses ==
    [][\A n \in Nodes : store'[n] # store[n] =>
         \/ Length(store'[n]) > Length(store[n])
         \/ store'[n].ts > store[n].ts]_marketVars

Quiet == wire = {} /\ ~missed /\ \A n \in Producers : reg[n].at = "idle"

\* What the comment of CheckHolders promises, "check for producers who have
\* registered a specific file": once everything sent has arrived,
\* with nothing lost and every server reached, every producer whose
\* registration succeeded is in the chain of every server.
RegisteredVisible ==
    Quiet => \A n \in Producers, s \in Servers :
               offer[n] # {} => \E r \in store[s].recs : r.id = n

\* What RegisterFile builds and the servers keep is accepted when it should be:
\* of the right type, never from the future of the node that holds it, valid
\* for its producer, and taken by every server whose chain is older.
MarketInvariant ==
    /\ MarketTypeOK /\ NoFuture /\ BuildsValid /\ LaterIsAccepted
=============================================================================
