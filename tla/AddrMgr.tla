------------------------------ MODULE AddrMgr ------------------------------
(***************************************************************************)
(* The address manager of a node (addrmgr/addrmanager.go): addresses heard *)
(* of are in up to newBucketsPerAddress of the new buckets, addresses that *)
(* worked in one of the tried buckets, and an index and two counts go with *)
(* them.  Every operation holds the manager's mutex.  The tables are saved *)
(* to peers.json and read at the next start.                               *)
(*                                                                         *)
(* Times are left out: which address of a bucket is bad and which is the   *)
(* oldest is any choice.                                                   *)
(***************************************************************************)
EXTENDS Integers, Sequences, FiniteSets, FiniteSetsExt, Functions

CONSTANTS
    AmAddrs, AmSources,
    AmNew, AmTried,        \* the numbers of the new and of the tried buckets
    AmNewBucket,           \* getNewBucket: address, source -> new bucket
    AmTriedBucket,         \* getTriedBucket: address -> tried bucket
    AmNewSize, AmTriedSize,\* newBucketSize, triedBucketSize
    AmRefs                 \* newBucketsPerAddress

ASSUME AddrMgrAssumption ==
    /\ AmNewBucket \in [AmAddrs \X AmSources -> AmNew] /\ AmTriedBucket \in [AmAddrs -> AmTried]
    /\ IsFiniteSet(AmAddrs) /\ AmNew \subseteq Nat /\ IsFiniteSet(AmNew) /\ IsFiniteSet(AmTried)
    /\ AmNewSize \in Nat \ {0} /\ AmTriedSize \in Nat \ {0} /\ AmRefs \in Nat \ {0}

VARIABLES
    amRuns,    \* whether the manager is started
    amTables,  \* addrIndex, addrNew, addrTried, nNew and nTried
    amFile     \* peers.json: "none", "broken" (a save broke off) or "whole", and the tables in it

amVars == <<amRuns, amTables, amFile>>

NoTables == [index |-> [a \in {} |-> [src |-> "", refs |-> 0, tried |-> FALSE]],
             new |-> [b \in AmNew |-> {}], tried |-> [b \in AmTried |-> <<>>], nNew |-> 0, nTried |-> 0]

FileOf(t) == [state |-> "whole", tables |-> t]
NoFile == [state |-> "none", tables |-> NoTables]

----------------------------------------------------------------------------
(* Operators on the tables t *)

\* The addresses of gone whose only reference goes
Forgotten(t, gone) == {a \in gone : t.index[a].refs = 1}

\* Mutant: the total is not lowered.
UnrefKeepsTotal(t, gone) ==
    [t EXCEPT !.index = [a \in DOMAIN t.index \ Forgotten(t, gone) |->
                  IF a \in gone THEN [t.index[a] EXCEPT !.refs = @ - 1] ELSE t.index[a]]]

\* One reference less for each; with the last the address is forgotten.
Unref(t, gone) ==
    [t EXCEPT !.index = [a \in DOMAIN t.index \ Forgotten(t, gone) |->
                  IF a \in gone THEN [t.index[a] EXCEPT !.refs = @ - 1] ELSE t.index[a]],
              !.nNew = @ - Cardinality(Forgotten(t, gone))]

\* expireNew: the bad ones go, and of the others the oldest.
Expired(t, b) == {t.new[b]} \cup UNION {{bad \cup {oldest} : oldest \in t.new[b] \ bad} : bad \in SUBSET t.new[b]}
ExpireNew(t, b) == {Unref([t EXCEPT !.new[b] = @ \ gone], gone) : gone \in Expired(t, b)}

\* Mutant: the bucket is never made smaller.
IntoBucketAlways(t, a, b) ==
    IF a \in t.new[b] THEN {t} ELSE {[t EXCEPT !.index[a].refs = @ + 1, !.new[b] = @ \cup {a}]}

\* The rest of updateAddress for an address in the index: into the bucket for this source.
IntoBucket(t, a, b) ==
    IF a \in t.new[b] THEN {t}
    ELSE {[u EXCEPT !.index[a].refs = @ + 1, !.new[b] = @ \cup {a}] :
              u \in IF Cardinality(t.new[b]) > AmNewSize THEN ExpireNew(t, b) ELSE {t}}

\* updateAddress: what it may lead to.  A known one gets another reference by chance only.
UpdateAddress(t, a, s) ==
    LET b == AmNewBucket[<<a, s>>]
        ka == t.index[a]
        added == [t EXCEPT !.index = [x \in DOMAIN t.index \cup {a} |->
                            IF x = a THEN [src |-> s, refs |-> 0, tried |-> FALSE] ELSE t.index[x]],
                         !.nNew = @ + 1]
    IN  IF a \notin DOMAIN t.index THEN IntoBucket(added, a, b)
        ELSE IF ka.tried \/ ka.refs = AmRefs THEN {t}
        ELSE {t} \cup IntoBucket(t, a, b)

\* Good: the address leaves its new buckets for its tried bucket; if that is full, the oldest there
\* goes back to a new bucket, one of the first of ours if its own is full.
Buckets(t, a) == {b \in AmNew : a \in t.new[b]}
\* Mutant: only the first bucket is left.
MovedOnce(t, a) ==
    [t EXCEPT !.new = [b \in AmNew |-> IF b = Min(Buckets(t, a)) THEN @[b] \ {a} ELSE @[b]],
              !.index[a].refs = @ - 1, !.nNew = @ - 1]
Moved(t, a) ==
    [t EXCEPT !.new = [b \in AmNew |-> @[b] \ {a}],
              !.index[a].refs = @ - Cardinality(Buckets(t, a)), !.nNew = @ - 1]
GoodTables(t, a) ==
    LET u == Moved(t, a)
        b == AmTriedBucket[a]
        old == Min(Buckets(t, a))
        swap(i) ==
            LET r == u.tried[b][i]
                own == AmNewBucket[<<r, u.index[r].src>>]
                to == IF Cardinality(u.new[own]) >= AmNewSize THEN old ELSE own
            IN  [u EXCEPT !.index[a].tried = TRUE, !.tried[b][i] = a,
                          !.index[r].tried = FALSE, !.index[r].refs = @ + 1,
                          !.nNew = @ + 1, !.new[to] = @ \cup {r}]
    IN  IF t.index[a].tried THEN {t}
        ELSE IF Buckets(t, a) = {} THEN {u}
        ELSE IF Len(u.tried[b]) < AmTriedSize
        THEN {[u EXCEPT !.index[a].tried = TRUE, !.tried[b] = Append(@, a), !.nTried = @ + 1]}
        ELSE {swap(i) : i \in DOMAIN u.tried[b]}

\* GetAddress: the addresses it can return; with none the loop over the buckets does not end.
Candidates(t) ==
    LET tried == UNION {Range(t.tried[b]) : b \in AmTried}
        new == UNION {t.new[b] : b \in AmNew}
    IN  (IF t.nTried > 0 THEN {tried} ELSE {}) \cup (IF t.nNew > 0 THEN {new} ELSE {})

\* deserializePeers: counts and references are found again from the buckets; what does not fit is
\* an error, after which loadPeers resets the tables.
Loaded(f) ==
    LET refs(a) == Cardinality(Buckets(f, a))
        tried(a) == \E b \in AmTried : a \in Range(f.tried[b])
    IN  [f EXCEPT !.index = [a \in DOMAIN f.index |-> [src |-> f.index[a].src, refs |-> refs(a), tried |-> tried(a)]],
                  !.nNew = Cardinality({a \in DOMAIN f.index : refs(a) > 0}),
                  !.nTried = Cardinality(UNION {{b} \X DOMAIN f.tried[b] : b \in AmTried})]
LoadFails(f) ==
    \/ \E a \in DOMAIN f.index : ~(Loaded(f).index[a].refs = 0 <=> Loaded(f).index[a].tried)
    \/ ~((UNION {f.new[b] : b \in AmNew}) \cup (UNION {Range(f.tried[b]) : b \in AmTried})
             \subseteq DOMAIN f.index)

----------------------------------------------------------------------------
(* Operations *)

AddAddress(a, s) == amRuns /\ amTables' \in UpdateAddress(amTables, a, s) /\ UNCHANGED <<amRuns, amFile>>

Good(a) ==
    /\ amRuns /\ a \in DOMAIN amTables.index
    /\ amTables' \in GoodTables(amTables, a)
    /\ UNCHANGED <<amRuns, amFile>>

\* savePeers, every ten minutes: peers.json is truncated and written.
SavePeers == amRuns /\ amFile' = FileOf(amTables) /\ UNCHANGED <<amRuns, amTables>>

Stop == amRuns /\ amRuns' = FALSE /\ amFile' = FileOf(amTables) /\ amTables' = NoTables

\* The process is killed, perhaps while it writes the file.
Kill ==
    /\ amRuns
    /\ amRuns' = FALSE /\ amTables' = NoTables
    /\ \/ UNCHANGED amFile
       \/ amFile' = [FileOf(NoTables) EXCEPT !.state = "broken"]

\* Start, loadPeers: a file that cannot be used is removed.
Start ==
    /\ ~amRuns
    /\ amRuns' = TRUE
    /\ IF amFile.state = "whole" /\ ~LoadFails(amFile.tables)
       THEN amTables' = Loaded(amFile.tables) /\ UNCHANGED amFile
       ELSE amTables' = NoTables /\ amFile' = NoFile

AddrMgrInit == amRuns = FALSE /\ amTables = NoTables /\ amFile = NoFile

AddrMgrNext ==
    \/ \E a \in AmAddrs, s \in AmSources : AddAddress(a, s)
    \/ \E a \in AmAddrs : Good(a)
    \/ SavePeers \/ Stop \/ Kill \/ Start

AddrMgrSpec == AddrMgrInit /\ [][AddrMgrNext]_amVars

----------------------------------------------------------------------------
(* Properties *)

\* Types and the sizes of the buckets; a new bucket may hold one more than its size.
AddrMgrTypeOK ==
    /\ amRuns \in BOOLEAN /\ amFile.state \in {"none", "broken", "whole"}
    /\ DOMAIN amTables.index \subseteq AmAddrs
    /\ \A a \in DOMAIN amTables.index :
           amTables.index[a].src \in AmSources /\ amTables.index[a].refs \in 0..AmRefs
    /\ \A b \in AmNew : Cardinality(amTables.new[b]) <= AmNewSize + 1
    /\ \A b \in AmTried : Len(amTables.tried[b]) <= AmTriedSize

\* Index, buckets, reference counts and the two totals agree after any sequence of additions,
\* evictions, promotions and demotions: an address is in new buckets or in one tried place, never
\* both and never nowhere.
CountsMatch ==
    LET t == amTables
        places(a) == {x \in AmTried \X (1..AmTriedSize) : x[2] \in DOMAIN t.tried[x[1]] /\ t.tried[x[1]][x[2]] = a}
    IN  /\ \A a \in AmAddrs : IF a \in DOMAIN t.index
              THEN /\ t.index[a].refs = Cardinality(Buckets(t, a))
                   /\ Cardinality(places(a)) = IF t.index[a].tried THEN 1 ELSE 0
                   /\ t.index[a].tried <=> t.index[a].refs = 0
              ELSE Buckets(t, a) = {} /\ places(a) = {}
        /\ t.nNew = Cardinality({a \in DOMAIN t.index : ~t.index[a].tried})
        /\ t.nTried = Cardinality({a \in DOMAIN t.index : t.index[a].tried})

\* GetAddress, which tries buckets at random under the mutex until one has an address, finds one
\* in whichever half the counts send it to.
GetAddressEnds == \A half \in Candidates(amTables) : half # {}

\* The manager accepts the file it wrote: addresses are lost only when a save broke off.
AcceptsOwnFile == amFile.state = "whole" => ~LoadFails(amFile.tables) /\ Loaded(amFile.tables) = amFile.tables

\* Index, buckets, reference counts and totals agree after any additions,
\* promotions and evictions, and a file that was saved is accepted again.
AddrMgrInvariant ==
    /\ AddrMgrTypeOK /\ CountsMatch /\ GetAddressEnds /\ AcceptsOwnFile
=============================================================================
