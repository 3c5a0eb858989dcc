------------------------------ MODULE NodeProofs -----------------------------
(***************************************************************************)
(* Proofs about the coin node: the address manager counts its addresses    *)
(* right (AddressesCounted); the memory pool keeps its indexes, offers     *)
(* only transactions that can be mined once the calls for a block are      *)
(* made, and never loses fees by a replacement (PoolStaysMinable,          *)
(* AcceptingPays); the sync manager works with a peer it knows             *)
(* (SyncPeerIsKnown), and what it counts as requested is what a peer still *)
(* owes (RequestsAreOwed).                                                 *)
(***************************************************************************)
EXTENDS AddrMgr, Mempool, NetSync, SetSums

-----------------------------------------------------------------------------
(* The address manager *)

\* The rows of the index.
AmRow == [src : AmSources, refs : Nat, tried : BOOLEAN]

\* The tables are tables.
AmTyped(t) ==
    /\ t = [index |-> t.index, new |-> t.new, tried |-> t.tried, nNew |-> t.nNew, nTried |-> t.nTried]
    /\ DOMAIN t.index \in SUBSET AmAddrs /\ t.index \in [DOMAIN t.index -> AmRow]
    /\ t.new \in [AmNew -> SUBSET AmAddrs] /\ t.tried \in [AmTried -> Seq(AmAddrs)]
    /\ t.nNew \in Int /\ t.nTried \in Int

\* The buckets respect their sizes.
AmSizes(t) ==
    /\ \A b \in AmNew : Cardinality(t.new[b]) <= AmNewSize + 1
    /\ \A b \in AmTried : Len(t.tried[b]) <= AmTriedSize

\* The new buckets hold addresses of the index, which know in how many they are;
\* one in none of them is tried, except those in X that are on their way.
AmInNew(t, X) ==
    /\ \A b \in AmNew : t.new[b] \subseteq DOMAIN t.index
    /\ \A a \in DOMAIN t.index :
          /\ t.index[a].refs = Cardinality(Buckets(t, a)) /\ t.index[a].refs <= AmRefs
          /\ a \notin X => (t.index[a].tried <=> t.index[a].refs = 0)

\* The tried buckets hold exactly the tried addresses, each once and in its bucket.
AmInTried(t) ==
    /\ \A b \in AmTried : \A i \in DOMAIN t.tried[b] :
          /\ t.tried[b][i] \in DOMAIN t.index /\ t.index[t.tried[b][i]].tried
          /\ AmTriedBucket[t.tried[b][i]] = b
          /\ \A j \in DOMAIN t.tried[b] : t.tried[b][i] = t.tried[b][j] => i = j
    /\ \A a \in DOMAIN t.index : t.index[a].tried =>
          \E i \in DOMAIN t.tried[AmTriedBucket[a]] : t.tried[AmTriedBucket[a]][i] = a

\* The totals count the rows.
AmWhere(t, isTried) == {a \in DOMAIN t.index : t.index[a].tried = isTried}
AmTotals(t) ==
    t.nNew = Cardinality(AmWhere(t, FALSE)) /\ t.nTried = Cardinality(AmWhere(t, TRUE))

AmTablesOK(t, X) == AmTyped(t) /\ AmSizes(t) /\ AmInNew(t, X) /\ AmInTried(t) /\ AmTotals(t)

\* The sets that are counted are finite.
LEMMA AmFinite ==
    ASSUME NEW t, AmTyped(t)
    PROVE  /\ \A a : IsFiniteSet(Buckets(t, a)) /\ Cardinality(Buckets(t, a)) \in Nat
           /\ \A b \in AmNew : IsFiniteSet(t.new[b]) /\ Cardinality(t.new[b]) \in Nat
           /\ \A v : IsFiniteSet(AmWhere(t, v)) /\ Cardinality(AmWhere(t, v)) \in Nat
<1>1. \A T \in SUBSET AmNew : IsFiniteSet(T) /\ Cardinality(T) \in Nat
  BY AddrMgrAssumption, FS_Subset, FS_CardinalityType
<1>2. \A T \in SUBSET AmAddrs : IsFiniteSet(T) /\ Cardinality(T) \in Nat
  BY AddrMgrAssumption, FS_Subset, FS_CardinalityType
<1>3. (\A a : Buckets(t, a) \in SUBSET AmNew) /\ \A v : AmWhere(t, v) \in SUBSET AmAddrs
  BY DEF Buckets, AmTyped, AmWhere
<1>4. \A b \in AmNew : t.new[b] \in SUBSET AmAddrs
  BY DEF AmTyped
<1> QED
  BY <1>1, <1>2, <1>3, <1>4

\* The parts of the tables.
LEMMA AmRecord ==
    ASSUME NEW i, NEW n, NEW tr, NEW nn, NEW nt, NEW u,
           u = [index |-> i, new |-> n, tried |-> tr, nNew |-> nn, nTried |-> nt]
    PROVE  /\ u.index = i /\ u.new = n /\ u.tried = tr /\ u.nNew = nn /\ u.nTried = nt
           /\ u = [index |-> u.index, new |-> u.new, tried |-> u.tried, nNew |-> u.nNew, nTried |-> u.nTried]
OBVIOUS

\* The parts after an address took the place of another one.
LEMMA AmSwapParts ==
    ASSUME NEW a, NEW r, NEW b, NEW p, NEW to, NEW w, NEW iz, NEW nw, NEW tr, NEW z,
           w = [index |-> w.index, new |-> w.new, tried |-> w.tried, nNew |-> w.nNew, nTried |-> w.nTried],
           iz = [w.index EXCEPT ![a].tried = TRUE, ![r].tried = FALSE, ![r].refs = @ + 1],
           nw = [w.new EXCEPT ![to] = @ \cup {r}], tr = [w.tried EXCEPT ![b][p] = a]
    PROVE  z = [w EXCEPT !.index[a].tried = TRUE, !.tried[b][p] = a,
                         !.index[r].tried = FALSE, !.index[r].refs = @ + 1,
                         !.nNew = @ + 1, !.new[to] = @ \cup {r}]
           => z = [index |-> iz, new |-> nw, tried |-> tr, nNew |-> w.nNew + 1, nTried |-> w.nTried]
<1> SUFFICES ASSUME z = [w EXCEPT !.index[a].tried = TRUE, !.tried[b][p] = a,
                         !.index[r].tried = FALSE, !.index[r].refs = @ + 1,
                         !.nNew = @ + 1, !.new[to] = @ \cup {r}]
             PROVE  z = [index |-> iz, new |-> nw, tried |-> tr, nNew |-> w.nNew + 1, nTried |-> w.nTried]
  OBVIOUS
<1>1. z.index = iz /\ z.new = nw /\ z.tried = tr /\ z.nNew = w.nNew + 1 /\ z.nTried = w.nTried
  OBVIOUS
<1>2. z = [index |-> z.index, new |-> z.new, tried |-> z.tried, nNew |-> z.nNew, nTried |-> z.nTried]
  OBVIOUS
<1> QED
  BY <1>1, <1>2

\* A new address is in the index before it is in a bucket.
LEMMA AmAdded ==
    ASSUME NEW t, AmTablesOK(t, {}), NEW a \in AmAddrs \ DOMAIN t.index, NEW s \in AmSources, NEW u,
           u = [t EXCEPT !.index = [x \in DOMAIN t.index \cup {a} |->
                            IF x = a THEN [src |-> s, refs |-> 0, tried |-> FALSE] ELSE t.index[x]],
                         !.nNew = @ + 1]
    PROVE  /\ AmTablesOK(u, {a}) /\ a \in DOMAIN u.index /\ \A b \in AmNew : a \notin u.new[b]
           /\ u.index[a].refs = 0 /\ ~u.index[a].tried
<1> DEFINE ix == [x \in DOMAIN t.index \cup {a} |->
                     IF x = a THEN [src |-> s, refs |-> 0, tried |-> FALSE] ELSE t.index[x]]
<1>1. u = [index |-> ix, new |-> t.new, tried |-> t.tried, nNew |-> t.nNew + 1, nTried |-> t.nTried]
  BY DEF AmTablesOK, AmTyped
<1>2. /\ u.index = ix /\ u.new = t.new /\ u.tried = t.tried /\ u.nNew = t.nNew + 1 /\ u.nTried = t.nTried
      /\ u = [index |-> u.index, new |-> u.new, tried |-> u.tried, nNew |-> u.nNew, nTried |-> u.nTried]
  BY <1>1
<1>3. /\ DOMAIN u.index = DOMAIN t.index \cup {a}
      /\ \A x \in DOMAIN t.index : u.index[x] = t.index[x]
      /\ u.index[a] = [src |-> s, refs |-> 0, tried |-> FALSE]
  BY <1>2
<1> HIDE DEF ix
<1>4. AmTyped(u)
  <2>1. \A x \in DOMAIN u.index : u.index[x] \in AmRow
    BY <1>3 DEF AmTablesOK, AmTyped, AmRow
  <2>2. u.index \in [DOMAIN u.index -> AmRow]
    BY <2>1, <1>2 DEF ix
  <2>3. DOMAIN u.index \in SUBSET AmAddrs
    BY <1>3 DEF AmTablesOK, AmTyped
  <2>4. u.nNew \in Int /\ u.nTried \in Int /\ u.new \in [AmNew -> SUBSET AmAddrs] /\ u.tried \in [AmTried -> Seq(AmAddrs)]
    BY <1>2 DEF AmTablesOK, AmTyped
  <2> QED
    BY <2>2, <2>3, <2>4, <1>2 DEF AmTyped
<1>5. AmSizes(u)
  BY <1>2 DEF AmTablesOK, AmSizes
<1>6. \A x : Buckets(u, x) = Buckets(t, x)
  BY <1>2 DEF Buckets
<1>7. \A b \in AmNew : a \notin t.new[b]
  BY DEF AmTablesOK, AmInNew
<1>8. AmInNew(u, {a})
  <2>1. Buckets(u, a) = {}
    BY <1>6, <1>7 DEF Buckets
  <2>2. AmRefs \in Nat
    BY AddrMgrAssumption
  <2>3. ASSUME NEW x \in DOMAIN u.index
        PROVE  /\ u.index[x].refs = Cardinality(Buckets(u, x)) /\ u.index[x].refs <= AmRefs
               /\ x \notin {a} => (u.index[x].tried <=> u.index[x].refs = 0)
    <3>1. CASE x = a
      <4>1. u.index[x].refs = 0
        BY <3>1, <1>3
      <4>2. Cardinality(Buckets(u, x)) = 0
        BY <3>1, <2>1, FS_EmptySet
      <4> QED
        BY <4>1, <4>2, <3>1, <2>2
    <3>2. CASE x # a
      BY <3>2, <1>3, <1>6 DEF AmTablesOK, AmInNew
    <3> QED
      BY <3>1, <3>2
  <2> QED
    BY <2>3, <1>2, <1>3 DEF AmInNew, AmTablesOK
<1>9. AmInTried(u)
  <2>1. \A b \in AmTried : \A i \in DOMAIN t.tried[b] : t.tried[b][i] \in DOMAIN t.index
    BY DEF AmTablesOK, AmInTried
  <2>2. \A x \in DOMAIN u.index : u.index[x].tried => x \in DOMAIN t.index
    BY <1>3
  <2> QED
    BY <2>1, <2>2, <1>2, <1>3 DEF AmTablesOK, AmInTried
<1>10. AmTotals(u)
  <2>1. AmWhere(u, FALSE) = AmWhere(t, FALSE) \cup {a} /\ AmWhere(u, TRUE) = AmWhere(t, TRUE)
    BY <1>3 DEF AmWhere
  <2>2. a \notin AmWhere(t, FALSE)
    BY DEF AmWhere
  <2> QED
    BY <2>1, <2>2, <1>2, AmFinite, FS_AddElement DEF AmTablesOK, AmTotals
<1> QED
  BY <1>2, <1>3, <1>4, <1>5, <1>7, <1>8, <1>9, <1>10 DEF AmTablesOK

\* expireNew takes references of addresses in one new bucket.
LEMMA AmExpired ==
    ASSUME NEW t, NEW X, AmTablesOK(t, X), NEW b \in AmNew, NEW gone \in SUBSET t.new[b],
           X \cap t.new[b] = {}, NEW u, u = Unref([t EXCEPT !.new[b] = @ \ gone], gone)
    PROVE  /\ AmTablesOK(u, X) /\ u.new[b] = t.new[b] \ gone
           /\ \A a \in DOMAIN t.index \ gone : a \in DOMAIN u.index /\ u.index[a] = t.index[a]
           /\ \A c \in AmNew : u.new[c] \subseteq t.new[c]
<1> DEFINE last == Forgotten(t, gone)
           ix == [a \in DOMAIN t.index \ last |->
                    IF a \in gone THEN [t.index[a] EXCEPT !.refs = @ - 1] ELSE t.index[a]]
<1>t. AmTyped(t) /\ AmSizes(t) /\ AmInNew(t, X) /\ AmInTried(t) /\ AmTotals(t)
  BY DEF AmTablesOK
<1>1. u = [index |-> ix, new |-> [t.new EXCEPT ![b] = @ \ gone], tried |-> t.tried,
           nNew |-> t.nNew - Cardinality(last), nTried |-> t.nTried]
  <2>1. PICK v : v = [t EXCEPT !.new[b] = @ \ gone]
    OBVIOUS
  <2>2. v = [index |-> t.index, new |-> [t.new EXCEPT ![b] = @ \ gone], tried |-> t.tried,
             nNew |-> t.nNew, nTried |-> t.nTried]
    BY <2>1, <1>t DEF AmTyped
  <2>3. Forgotten(v, gone) = last
    BY <2>2 DEF Forgotten
  <2>4. u = [v EXCEPT !.index = ix, !.nNew = @ - Cardinality(last)]
    <3>1. v.index = t.index
      BY <2>2
    <3> QED
      BY <2>1, <2>3, <3>1 DEF Unref
  <2> QED
    BY <2>2, <2>4
<1> HIDE DEF ix, last
<1>2. /\ u.index = ix /\ u.new = [t.new EXCEPT ![b] = @ \ gone] /\ u.tried = t.tried
      /\ u.nNew = t.nNew - Cardinality(last) /\ u.nTried = t.nTried
      /\ u = [index |-> u.index, new |-> u.new, tried |-> u.tried, nNew |-> u.nNew, nTried |-> u.nTried]
  BY <1>1, AmRecord
<1>g. gone \subseteq DOMAIN t.index /\ last \subseteq gone
  BY <1>t DEF AmInNew, Forgotten, last
<1>r. \A a \in DOMAIN t.index : t.index[a] \in AmRow
  BY <1>t DEF AmTyped
<1>3. /\ DOMAIN u.index = DOMAIN t.index \ last
      /\ \A a \in DOMAIN u.index : a \notin gone => u.index[a] = t.index[a]
      /\ \A a \in DOMAIN u.index : a \in gone => u.index[a] = [t.index[a] EXCEPT !.refs = @ - 1]
  BY <1>2 DEF ix
<1>4. /\ u.new[b] = t.new[b] \ gone /\ \A c \in AmNew : c # b => u.new[c] = t.new[c]
      /\ u.new \in [AmNew -> SUBSET AmAddrs]
  BY <1>2, <1>t DEF AmTyped
<1>5. \A a : Buckets(u, a) = IF a \in gone THEN Buckets(t, a) \ {b} ELSE Buckets(t, a)
  BY <1>4 DEF Buckets
<1>6. ASSUME NEW a \in gone
      PROVE  /\ b \in Buckets(t, a) /\ t.index[a].refs \in Nat \ {0} /\ ~t.index[a].tried
             /\ Cardinality(Buckets(u, a)) = t.index[a].refs - 1
  <2>1. b \in Buckets(t, a)
    BY DEF Buckets
  <2>2. t.index[a].refs = Cardinality(Buckets(t, a)) /\ (t.index[a].tried <=> t.index[a].refs = 0)
    BY <1>t, <1>g DEF AmInNew
  <2>3. t.index[a].refs # 0 /\ t.index[a].refs \in Nat
    BY <2>1, <2>2, <1>t, AmFinite, FS_EmptySet
  <2>4. Cardinality(Buckets(u, a)) = t.index[a].refs - 1
    <3>1. IsFiniteSet(Buckets(t, a)) /\ Buckets(u, a) = Buckets(t, a) \ {b}
      BY <1>5, <1>t, AmFinite
    <3>2. Cardinality(Buckets(t, a) \ {b}) = Cardinality(Buckets(t, a)) - 1
      BY <3>1, <2>1, FS_RemoveElement
    <3> QED
      BY <3>1, <3>2, <2>2
  <2> QED
    BY <2>1, <2>2, <2>3, <2>4
<1>7. \A a \in DOMAIN u.index : a \in gone =>
          /\ u.index[a].refs = t.index[a].refs - 1 /\ u.index[a].refs \in Nat \ {0}
          /\ u.index[a].tried = t.index[a].tried /\ u.index[a] \in AmRow
  <2> SUFFICES ASSUME NEW a \in DOMAIN u.index, a \in gone
               PROVE  /\ u.index[a].refs = t.index[a].refs - 1 /\ u.index[a].refs \in Nat \ {0}
                      /\ u.index[a].tried = t.index[a].tried /\ u.index[a] \in AmRow
    OBVIOUS
  <2>1. t.index[a].refs # 1
    BY <1>3 DEF last, Forgotten
  <2>2. u.index[a].refs = t.index[a].refs - 1 /\ u.index[a].tried = t.index[a].tried
        /\ u.index[a].src = t.index[a].src
    BY <1>3, <1>g, <1>r DEF AmRow
  <2>3. t.index[a].refs - 1 \in Nat \ {0}
    BY <2>1, <1>6
  <2>4. u.index[a] = [src |-> t.index[a].src, refs |-> t.index[a].refs - 1, tried |-> t.index[a].tried]
    BY <1>3, <1>g, <1>r DEF AmRow
  <2>5. t.index[a].src \in AmSources /\ t.index[a].tried \in BOOLEAN
    BY <1>g, <1>r DEF AmRow
  <2> QED
    BY <2>2, <2>3, <2>4, <2>5 DEF AmRow
<1>8. AmTyped(u)
  <2>1. \A a \in DOMAIN u.index : u.index[a] \in AmRow
    BY <1>3, <1>7, <1>r
  <2>2. u.index \in [DOMAIN u.index -> AmRow]
    BY <2>1, <1>2 DEF ix
  <2>3. DOMAIN u.index \in SUBSET AmAddrs
    BY <1>3, <1>t DEF AmTyped
  <2>4. IsFiniteSet(AmAddrs) /\ last \in SUBSET AmAddrs
    BY AddrMgrAssumption, <1>g, <1>t DEF AmTyped
  <2>5. Cardinality(last) \in Nat
    BY <2>4, FS_Subset, FS_CardinalityType
  <2>6. u.nNew \in Int /\ u.nTried \in Int
    BY <2>5, <1>2, <1>t DEF AmTyped
  <2>7. u.tried \in [AmTried -> Seq(AmAddrs)]
    BY <1>2, <1>t DEF AmTyped
  <2> QED
    BY <2>2, <2>3, <2>6, <2>7, <1>4, <1>2 DEF AmTyped
<1>9. AmSizes(u)
  <2>1. ASSUME NEW c \in AmNew PROVE Cardinality(u.new[c]) <= AmNewSize + 1
    <3>1. u.new[c] \in SUBSET t.new[c] /\ IsFiniteSet(t.new[c])
      BY <1>4, <1>t, AmFinite
    <3>2. Cardinality(u.new[c]) <= Cardinality(t.new[c])
      BY <3>1, FS_Subset
    <3>3. Cardinality(u.new[c]) \in Nat /\ Cardinality(t.new[c]) \in Nat /\ AmNewSize \in Nat
      BY <1>8, <1>t, AmFinite, AddrMgrAssumption
    <3>4. Cardinality(t.new[c]) <= AmNewSize + 1
      BY <1>t DEF AmSizes
    <3> QED
      BY <3>2, <3>3, <3>4
  <2> QED
    BY <2>1, <1>2, <1>t DEF AmSizes
<1>10. AmInNew(u, X)
  <2>1. ASSUME NEW c \in AmNew, NEW a \in u.new[c] PROVE a \in DOMAIN u.index
    <3>1. a \in DOMAIN t.index
      BY <1>4, <1>t DEF AmInNew
    <3>2. ASSUME a \in last PROVE FALSE
      <4>1. a \in gone /\ c # b /\ c \in Buckets(u, a)
        BY <3>2, <1>4, <1>g DEF Buckets
      <4>2. t.index[a].refs = 1
        BY <3>2 DEF last, Forgotten
      <4>3. Cardinality(Buckets(u, a)) = 0
        <5>1. Cardinality(Buckets(u, a)) = t.index[a].refs - 1
          BY <4>1, <1>6
        <5> QED
          BY <5>1, <4>2
      <4>4. Buckets(u, a) = {}
        BY <4>3, <1>8, AmFinite, FS_EmptySet
      <4> QED
        BY <4>1, <4>4
    <3> QED
      BY <3>1, <3>2, <1>3
  <2>2. ASSUME NEW a \in DOMAIN u.index
        PROVE  /\ u.index[a].refs = Cardinality(Buckets(u, a)) /\ u.index[a].refs <= AmRefs
               /\ a \notin X => (u.index[a].tried <=> u.index[a].refs = 0)
    <3>1. CASE a \in gone
      <4>1. t.index[a].refs <= AmRefs /\ t.index[a].refs \in Nat /\ AmRefs \in Nat
        BY <3>1, <1>3, <1>t, <1>6, AddrMgrAssumption DEF AmInNew
      <4>2. u.index[a].refs <= AmRefs
        <5>1. u.index[a].refs = t.index[a].refs - 1
          BY <1>7, <3>1
        <5> QED
          BY <4>1, <5>1
      <4> QED
        BY <4>2, <3>1, <1>6, <1>7
    <3>2. CASE a \notin gone
      BY <3>2, <1>3, <1>5, <1>t DEF AmInNew
    <3> QED
      BY <3>1, <3>2
  <2> QED
    BY <2>1, <2>2 DEF AmInNew
<1>u. \A a \in DOMAIN u.index : u.index[a].tried = t.index[a].tried
  BY <1>3, <1>7
<1>v. \A a \in DOMAIN u.index : u.index[a].tried <=> t.index[a].tried
  BY <1>u
<1>11. AmInTried(u)
  <2>1. \A b1 \in AmTried : \A i \in DOMAIN t.tried[b1] : t.tried[b1][i] \in DOMAIN t.index \ last
    BY <1>t, <1>6, <1>g DEF AmInTried
  <2>2. ASSUME NEW b1 \in AmTried, NEW i \in DOMAIN u.tried[b1]
        PROVE  /\ u.tried[b1][i] \in DOMAIN u.index /\ u.index[u.tried[b1][i]].tried
               /\ AmTriedBucket[u.tried[b1][i]] = b1
               /\ \A j \in DOMAIN u.tried[b1] : u.tried[b1][i] = u.tried[b1][j] => i = j
    <3>1. /\ t.tried[b1][i] \in DOMAIN t.index /\ t.index[t.tried[b1][i]].tried
          /\ AmTriedBucket[t.tried[b1][i]] = b1
          /\ \A j \in DOMAIN t.tried[b1] : t.tried[b1][i] = t.tried[b1][j] => i = j
      BY <1>t, <1>2 DEF AmInTried
    <3>2. t.tried[b1][i] \in DOMAIN u.index
      BY <2>1, <1>2, <1>3
    <3> QED
      BY <3>1, <3>2, <1>2, <1>v
  <2>3. ASSUME NEW a \in DOMAIN u.index, u.index[a].tried
        PROVE  \E i \in DOMAIN u.tried[AmTriedBucket[a]] : u.tried[AmTriedBucket[a]][i] = a
    <3>1. a \in DOMAIN t.index /\ t.index[a].tried
      BY <2>3, <1>3, <1>v
    <3> QED
      BY <3>1, <1>t, <1>2 DEF AmInTried
  <2> QED
    BY <2>2, <2>3 DEF AmInTried
<1>12. AmTotals(u)
  <2>1. AmWhere(u, TRUE) = AmWhere(t, TRUE)
    <3>1. ASSUME NEW a \in last PROVE t.index[a].tried # TRUE
      BY <1>6, <1>g
    <3> QED
      BY <3>1, <1>3, <1>u DEF AmWhere
  <2>2. AmWhere(u, FALSE) = AmWhere(t, FALSE) \ last
    BY <1>3, <1>u DEF AmWhere
  <2>r. \A a \in DOMAIN t.index : t.index[a].tried \in BOOLEAN
    BY <1>r DEF AmRow
  <2>3. AmWhere(t, FALSE) \cap last = last
    BY <2>r, <1>6, <1>g DEF AmWhere
  <2>4. Cardinality(AmWhere(u, FALSE)) = Cardinality(AmWhere(t, FALSE)) - Cardinality(last)
    BY <2>2, <2>3, <1>t, AmFinite, FS_Difference
  <2> QED
    BY <2>1, <2>4, <1>2, <1>t DEF AmTotals
<1> QED
  <2>1. \A a \in DOMAIN t.index \ gone : a \in DOMAIN u.index /\ u.index[a] = t.index[a]
    BY <1>3, <1>g
  <2>2. \A c \in AmNew : u.new[c] \subseteq t.new[c]
    BY <1>4
  <2> QED
    BY <2>1, <2>2, <1>4, <1>8, <1>9, <1>10, <1>11, <1>12 DEF AmTablesOK

\* A row with other references, and one with another mark.
LEMMA AmRowRefs ==
    ASSUME NEW D, NEW f \in [D -> AmRow], NEW a \in D, NEW n \in Nat, NEW g,
           g = [f EXCEPT ![a].refs = n]
    PROVE  /\ g \in [D -> AmRow] /\ DOMAIN g = D /\ \A x \in D : x # a => g[x] = f[x]
           /\ g[a].refs = n /\ g[a].tried = f[a].tried /\ g[a].src = f[a].src
<1>1. PICK r : r = [f[a] EXCEPT !.refs = n]
  OBVIOUS
<1>2. r \in AmRow /\ r.refs = n /\ r.tried = f[a].tried /\ r.src = f[a].src
  BY <1>1 DEF AmRow
<1>3. g = [f EXCEPT ![a] = r]
  BY <1>1
<1> QED
  BY <1>2, <1>3

\* The same for the mark: a row with it, and a row without it.
LEMMA AmRowMark ==
    ASSUME NEW r \in AmRow, NEW m
    PROVE  /\ m = [r EXCEPT !.tried = TRUE] =>
                  m \in AmRow /\ m.tried = TRUE /\ m.refs = r.refs /\ m.src = r.src
           /\ m = [r EXCEPT !.tried = FALSE] =>
                  m \in AmRow /\ m.tried = FALSE /\ m.refs = r.refs /\ m.src = r.src
BY DEF AmRow

\* A known address that is not tried gets into a new bucket.
LEMMA AmInto ==
    ASSUME NEW t, NEW a, NEW X \in SUBSET {a}, AmTablesOK(t, X), a \in DOMAIN t.index,
           ~t.index[a].tried, t.index[a].refs < AmRefs, NEW b \in AmNew, a \notin t.new[b],
           Cardinality(t.new[b]) <= AmNewSize, NEW u
    PROVE  u = [t EXCEPT !.index[a].refs = @ + 1, !.new[b] = @ \cup {a}] => AmTablesOK(u, {})
<1>t. AmTyped(t) /\ AmSizes(t) /\ AmInNew(t, X) /\ AmInTried(t) /\ AmTotals(t)
  BY DEF AmTablesOK
<1>f. t.index[a].refs \in Nat /\ AmNewSize \in Nat /\ AmRefs \in Nat /\ a \in AmAddrs
  BY <1>t, AddrMgrAssumption DEF AmTyped, AmRow
<1>1. PICK n, ix, nw : /\ n = t.index[a].refs + 1 /\ ix = [t.index EXCEPT ![a].refs = n]
                       /\ nw = [t.new EXCEPT ![b] = @ \cup {a}]
  OBVIOUS
<1>2. u = [t EXCEPT !.index[a].refs = @ + 1, !.new[b] = @ \cup {a}]
      => u = [index |-> ix, new |-> nw, tried |-> t.tried, nNew |-> t.nNew, nTried |-> t.nTried]
  BY <1>1, <1>t DEF AmTyped
<1> SUFFICES ASSUME u = [index |-> ix, new |-> nw, tried |-> t.tried, nNew |-> t.nNew, nTried |-> t.nTried]
             PROVE  AmTablesOK(u, {})
  BY <1>2
<1>3. /\ u.index = ix /\ u.new = nw /\ u.tried = t.tried /\ u.nNew = t.nNew /\ u.nTried = t.nTried
      /\ u = [index |-> u.index, new |-> u.new, tried |-> u.tried, nNew |-> u.nNew, nTried |-> u.nTried]
  BY AmRecord
<1>4. /\ ix \in [DOMAIN t.index -> AmRow] /\ DOMAIN ix = DOMAIN t.index
      /\ \A x \in DOMAIN t.index : x # a => ix[x] = t.index[x]
      /\ ix[a].refs = n /\ ix[a].tried = t.index[a].tried /\ n \in Nat \ {0}
  <2>1. n \in Nat \ {0} /\ t.index \in [DOMAIN t.index -> AmRow]
    BY <1>1, <1>f, <1>t DEF AmTyped
  <2> QED
    BY <2>1, <1>1, AmRowRefs
<1>5. /\ nw \in [AmNew -> SUBSET AmAddrs] /\ nw[b] = t.new[b] \cup {a}
      /\ \A c \in AmNew : c # b => nw[c] = t.new[c]
  BY <1>1, <1>t, <1>f DEF AmTyped
<1>6. AmTyped(u)
  BY <1>3, <1>4, <1>5, <1>t DEF AmTyped
<1>7. AmSizes(u)
  <2>1. Cardinality(nw[b]) <= AmNewSize + 1
    <3>1. IsFiniteSet(t.new[b]) /\ Cardinality(t.new[b]) \in Nat
      BY <1>t, AmFinite
    <3>2. Cardinality(nw[b]) = Cardinality(t.new[b]) + 1
      BY <3>1, <1>5, FS_AddElement
    <3> QED
      BY <3>1, <3>2, <1>f
  <2> QED
    BY <2>1, <1>3, <1>5, <1>t DEF AmSizes
<1>8. Buckets(u, a) = Buckets(t, a) \cup {b} /\ b \notin Buckets(t, a)
      /\ \A x : x # a => Buckets(u, x) = Buckets(t, x)
  BY <1>3, <1>5 DEF Buckets
<1>9. AmInNew(u, {})
  <2>1. \A c \in AmNew : u.new[c] \subseteq DOMAIN u.index
    BY <1>3, <1>4, <1>5, <1>t DEF AmInNew
  <2>2. n = Cardinality(Buckets(u, a)) /\ n <= AmRefs
    <3>1. IsFiniteSet(Buckets(t, a)) /\ t.index[a].refs = Cardinality(Buckets(t, a))
      BY <1>t, AmFinite DEF AmInNew
    <3>2. Cardinality(Buckets(u, a)) = Cardinality(Buckets(t, a)) + 1
      BY <3>1, <1>8, FS_AddElement
    <3> QED
      BY <3>1, <3>2, <1>1, <1>f
  <2>3. ASSUME NEW x \in DOMAIN u.index
        PROVE  /\ u.index[x].refs = Cardinality(Buckets(u, x)) /\ u.index[x].refs <= AmRefs
               /\ u.index[x].tried <=> u.index[x].refs = 0
    <3>1. CASE x = a
      <4>1. ~u.index[x].tried
        BY <3>1, <1>3, <1>4
      <4> QED
        BY <4>1, <3>1, <2>2, <1>3, <1>4
    <3>2. CASE x # a
      BY <3>2, <1>3, <1>4, <1>8, <1>t DEF AmInNew
    <3> QED
      BY <3>1, <3>2
  <2> QED
    BY <2>1, <2>3 DEF AmInNew
<1>u. \A x \in DOMAIN u.index : u.index[x].tried = t.index[x].tried
  BY <1>3, <1>4
<1>v. \A x \in DOMAIN u.index : u.index[x].tried <=> t.index[x].tried
  BY <1>u
<1>w. DOMAIN u.index = DOMAIN t.index
  BY <1>3, <1>4
<1>10. AmInTried(u)
  BY <1>v, <1>w, <1>3, <1>t DEF AmInTried
<1>11. AmTotals(u)
  <2>1. AmWhere(u, FALSE) = AmWhere(t, FALSE) /\ AmWhere(u, TRUE) = AmWhere(t, TRUE)
    BY <1>u, <1>w DEF AmWhere
  <2> QED
    BY <2>1, <1>3, <1>t DEF AmTotals
<1> QED
  BY <1>6, <1>7, <1>9, <1>10, <1>11 DEF AmTablesOK

\* The tables after Good has taken the address out of its new buckets.
AmMovedOK(u, a) ==
    /\ AmTyped(u) /\ AmSizes(u) /\ AmInNew(u, {a}) /\ AmInTried(u)
    /\ a \in DOMAIN u.index /\ ~u.index[a].tried /\ u.index[a].refs = 0
    /\ \A b \in AmNew : a \notin u.new[b]
    /\ u.nNew = Cardinality(AmWhere(u, FALSE)) - 1 /\ u.nTried = Cardinality(AmWhere(u, TRUE))

\* The address leaves all its new buckets.
LEMMA AmMoved ==
    ASSUME NEW t, AmTablesOK(t, {}), NEW a \in DOMAIN t.index, ~t.index[a].tried,
           NEW u, u = Moved(t, a)
    PROVE  /\ AmMovedOK(u, a) /\ u.tried = t.tried
           /\ \A b \in AmNew : u.new[b] = t.new[b] \ {a}
<1>t. AmTyped(t) /\ AmSizes(t) /\ AmInNew(t, {}) /\ AmInTried(t) /\ AmTotals(t)
  BY DEF AmTablesOK
<1>f. t.index[a].refs = Cardinality(Buckets(t, a)) /\ t.index[a].refs \in Nat
  BY <1>t, AmFinite DEF AmInNew
<1>1. PICK ix, nw : ix = [t.index EXCEPT ![a].refs = 0] /\ nw = [b \in AmNew |-> t.new[b] \ {a}]
  OBVIOUS
<1>2. u = [index |-> ix, new |-> nw, tried |-> t.tried, nNew |-> t.nNew - 1, nTried |-> t.nTried]
  <2>1. t.index[a].refs - Cardinality(Buckets(t, a)) = 0
    BY <1>f
  <2>2. [t.index EXCEPT ![a].refs = @ - Cardinality(Buckets(t, a))] = ix
    BY <1>1, <2>1
  <2>3. u = [t EXCEPT !.new = nw, !.index = ix, !.nNew = @ - 1]
    BY <1>1, <2>2, <1>t DEF Moved, AmTyped
  <2> QED
    BY <2>3, <1>t DEF AmTyped
<1>3. /\ u.index = ix /\ u.new = nw /\ u.tried = t.tried /\ u.nNew = t.nNew - 1 /\ u.nTried = t.nTried
      /\ u = [index |-> u.index, new |-> u.new, tried |-> u.tried, nNew |-> u.nNew, nTried |-> u.nTried]
  BY <1>2, AmRecord
<1>4. /\ ix \in [DOMAIN t.index -> AmRow] /\ DOMAIN ix = DOMAIN t.index
      /\ \A x \in DOMAIN t.index : x # a => ix[x] = t.index[x]
      /\ ix[a].refs = 0 /\ ix[a].tried = t.index[a].tried
  <2>1. t.index \in [DOMAIN t.index -> AmRow] /\ 0 \in Nat
    BY <1>t DEF AmTyped
  <2> QED
    BY <2>1, <1>1, AmRowRefs
<1>5. nw \in [AmNew -> SUBSET AmAddrs] /\ \A b \in AmNew : nw[b] = t.new[b] \ {a}
  BY <1>1, <1>t DEF AmTyped
<1>6. AmTyped(u)
  <2>1. t.nNew - 1 \in Int
    BY <1>t DEF AmTyped
  <2> QED
    BY <2>1, <1>3, <1>4, <1>5, <1>t DEF AmTyped
<1>7. AmSizes(u)
  <2>1. ASSUME NEW c \in AmNew PROVE Cardinality(u.new[c]) <= AmNewSize + 1
    <3>1. u.new[c] \in SUBSET t.new[c] /\ IsFiniteSet(t.new[c])
      BY <1>3, <1>5, <1>t, AmFinite
    <3>2. Cardinality(u.new[c]) <= Cardinality(t.new[c])
      BY <3>1, FS_Subset
    <3>3. Cardinality(u.new[c]) \in Nat /\ Cardinality(t.new[c]) \in Nat /\ AmNewSize \in Nat
      BY <1>6, <1>t, AmFinite, AddrMgrAssumption
    <3>4. Cardinality(t.new[c]) <= AmNewSize + 1
      BY <1>t DEF AmSizes
    <3> QED
      BY <3>2, <3>3, <3>4
  <2> QED
    BY <2>1, <1>3, <1>t DEF AmSizes
<1>8. Buckets(u, a) = {} /\ \A x : x # a => Buckets(u, x) = Buckets(t, x)
  BY <1>3, <1>5 DEF Buckets
<1>9. AmInNew(u, {a})
  <2>1. \A c \in AmNew : u.new[c] \subseteq DOMAIN u.index
    BY <1>3, <1>4, <1>5, <1>t DEF AmInNew
  <2>2. Cardinality(Buckets(u, a)) = 0 /\ AmRefs \in Nat
    BY <1>8, FS_EmptySet, AddrMgrAssumption
  <2>3. ASSUME NEW x \in DOMAIN u.index
        PROVE  /\ u.index[x].refs = Cardinality(Buckets(u, x)) /\ u.index[x].refs <= AmRefs
               /\ x \notin {a} => (u.index[x].tried <=> u.index[x].refs = 0)
    <3>1. CASE x = a
      BY <3>1, <2>2, <1>3, <1>4
    <3>2. CASE x # a
      BY <3>2, <1>3, <1>4, <1>8, <1>t DEF AmInNew
    <3> QED
      BY <3>1, <3>2
  <2> QED
    BY <2>1, <2>3 DEF AmInNew
<1>u. \A x \in DOMAIN u.index : u.index[x].tried = t.index[x].tried
  BY <1>3, <1>4
<1>v. \A x \in DOMAIN u.index : u.index[x].tried <=> t.index[x].tried
  BY <1>u
<1>w. DOMAIN u.index = DOMAIN t.index
  BY <1>3, <1>4
<1>10. AmInTried(u)
  BY <1>v, <1>w, <1>3, <1>t DEF AmInTried
<1>11. u.nNew = Cardinality(AmWhere(u, FALSE)) - 1 /\ u.nTried = Cardinality(AmWhere(u, TRUE))
  <2>1. AmWhere(u, FALSE) = AmWhere(t, FALSE) /\ AmWhere(u, TRUE) = AmWhere(t, TRUE)
    BY <1>u, <1>w DEF AmWhere
  <2> QED
    BY <2>1, <1>3, <1>t DEF AmTotals
<1>12. ~u.index[a].tried /\ u.index[a].refs = 0 /\ a \in DOMAIN u.index
  BY <1>v, <1>w, <1>3, <1>4
<1> QED
  BY <1>3, <1>5, <1>6, <1>7, <1>9, <1>10, <1>11, <1>12 DEF AmMovedOK

\* The address becomes the last of its tried bucket.
LEMMA AmAppended ==
    ASSUME NEW u, NEW a, AmMovedOK(u, a), NEW b, b = AmTriedBucket[a],
           Len(u.tried[b]) < AmTriedSize, NEW w
    PROVE  w = [u EXCEPT !.index[a].tried = TRUE, !.tried[b] = Append(@, a), !.nTried = @ + 1]
           => AmTablesOK(w, {})
<1>t. /\ AmTyped(u) /\ AmSizes(u) /\ AmInNew(u, {a}) /\ AmInTried(u)
      /\ a \in DOMAIN u.index /\ ~u.index[a].tried /\ u.index[a].refs = 0 /\ a \in AmAddrs
      /\ u.nNew = Cardinality(AmWhere(u, FALSE)) - 1 /\ u.nTried = Cardinality(AmWhere(u, TRUE))
  BY DEF AmMovedOK, AmTyped
<1>b. b \in AmTried /\ u.tried[b] \in Seq(AmAddrs) /\ AmTriedSize \in Nat
  BY <1>t, AddrMgrAssumption DEF AmTyped
<1>1. PICK ix, tr, q : /\ ix = [u.index EXCEPT ![a].tried = TRUE] /\ q = Append(u.tried[b], a)
                       /\ tr = [u.tried EXCEPT ![b] = q]
  OBVIOUS
<1>2. w = [u EXCEPT !.index[a].tried = TRUE, !.tried[b] = Append(@, a), !.nTried = @ + 1]
      => w = [index |-> ix, new |-> u.new, tried |-> tr, nNew |-> u.nNew, nTried |-> u.nTried + 1]
  BY <1>1, <1>t DEF AmTyped
<1> SUFFICES ASSUME w = [index |-> ix, new |-> u.new, tried |-> tr, nNew |-> u.nNew, nTried |-> u.nTried + 1]
             PROVE  AmTablesOK(w, {})
  BY <1>2
<1>3. /\ w.index = ix /\ w.new = u.new /\ w.tried = tr /\ w.nNew = u.nNew /\ w.nTried = u.nTried + 1
      /\ w = [index |-> w.index, new |-> w.new, tried |-> w.tried, nNew |-> w.nNew, nTried |-> w.nTried]
  BY AmRecord
<1>4. /\ ix \in [DOMAIN u.index -> AmRow] /\ DOMAIN ix = DOMAIN u.index
      /\ \A x \in DOMAIN u.index : x # a => ix[x] = u.index[x]
      /\ ix[a].refs = 0 /\ ix[a].tried = TRUE
  <2>1. u.index \in [DOMAIN u.index -> AmRow] /\ TRUE \in BOOLEAN
    BY <1>t DEF AmTyped
  <2>2. /\ ix \in [DOMAIN u.index -> AmRow] /\ DOMAIN ix = DOMAIN u.index
        /\ \A x \in DOMAIN u.index : x # a => ix[x] = u.index[x]
        /\ ix[a].refs = u.index[a].refs /\ ix[a].tried = TRUE
    <3>1. a \in DOMAIN u.index /\ u.index[a] \in AmRow
      BY <2>1, <1>t
    <3>2. PICK m : m = [u.index[a] EXCEPT !.tried = TRUE]
      OBVIOUS
    <3>3. m \in AmRow /\ m.tried = TRUE /\ m.refs = u.index[a].refs
      BY <3>1, <3>2, AmRowMark
    <3>4. ix = [u.index EXCEPT ![a] = m]
      BY <3>2, <1>1
    <3> QED
      BY <2>1, <3>1, <3>3, <3>4
  <2> QED
    BY <2>2, <1>t
<1>5. /\ q \in Seq(AmAddrs) /\ Len(q) = Len(u.tried[b]) + 1 /\ DOMAIN q = DOMAIN u.tried[b] \cup {Len(q)}
      /\ Len(q) \notin DOMAIN u.tried[b] /\ q[Len(q)] = a
      /\ \A i \in DOMAIN u.tried[b] : q[i] = u.tried[b][i]
  <2>1. a \in AmAddrs /\ u.tried[b] \in Seq(AmAddrs) /\ q = Append(u.tried[b], a)
    BY <1>1, <1>b, <1>t
  <2>2. PICK s \in Seq(AmAddrs) : s = u.tried[b]
    BY <2>1
  <2>3. q \in Seq(AmAddrs) /\ Len(q) = Len(s) + 1 /\ q[Len(q)] = a /\ \A i \in DOMAIN s : q[i] = s[i]
    BY <2>1, <2>2
  <2>4. DOMAIN q = 1..Len(q) /\ DOMAIN s = 1..Len(s) /\ Len(s) \in Nat
    BY <2>2, <2>3
  <2>5. DOMAIN q = DOMAIN s \cup {Len(q)} /\ Len(q) \notin DOMAIN s
    BY <2>3, <2>4
  <2> QED
    BY <2>2, <2>3, <2>5
<1>6. tr \in [AmTried -> Seq(AmAddrs)] /\ tr[b] = q /\ \A c \in AmTried : c # b => tr[c] = u.tried[c]
  BY <1>1, <1>5, <1>b, <1>t DEF AmTyped
<1>7. AmTyped(w)
  <2>0. u.nTried \in Int
    BY <1>t DEF AmTyped
  <2>1. u.nTried + 1 \in Int
    BY <2>0
  <2> QED
    BY <2>1, <1>3, <1>4, <1>6, <1>t DEF AmTyped
<1>8. AmSizes(w)
  <2>1. Len(q) <= AmTriedSize
    BY <1>5, <1>b
  <2> QED
    BY <2>1, <1>3, <1>6, <1>t DEF AmSizes
<1>9. AmInNew(w, {})
  <2>1. \A x : Buckets(w, x) = Buckets(u, x)
    BY <1>3 DEF Buckets
  <2>2. ASSUME NEW x \in DOMAIN w.index
        PROVE  /\ w.index[x].refs = Cardinality(Buckets(w, x)) /\ w.index[x].refs <= AmRefs
               /\ w.index[x].tried <=> w.index[x].refs = 0
    <3>1. CASE x = a
      <4>1. w.index[x].tried /\ w.index[x].refs = u.index[a].refs /\ w.index[x].refs = 0
        BY <3>1, <1>3, <1>4, <1>t
      <4>2. u.index[a].refs = Cardinality(Buckets(u, a)) /\ u.index[a].refs <= AmRefs
        BY <1>t DEF AmInNew
      <4> QED
        BY <4>1, <4>2, <2>1, <3>1
    <3>2. CASE x # a
      BY <3>2, <1>3, <1>4, <2>1, <1>t DEF AmInNew
    <3> QED
      BY <3>1, <3>2
  <2> QED
    BY <2>2, <1>3, <1>4, <1>t DEF AmInNew
<1>n. \A c \in AmTried : \A i \in DOMAIN u.tried[c] : u.tried[c][i] \in DOMAIN u.index /\ u.tried[c][i] # a
  BY <1>t DEF AmInTried
<1>10. AmInTried(w)
  <2>1. ASSUME NEW c \in AmTried, NEW i \in DOMAIN w.tried[c]
        PROVE  /\ w.tried[c][i] \in DOMAIN w.index /\ w.index[w.tried[c][i]].tried
               /\ AmTriedBucket[w.tried[c][i]] = c
               /\ \A j \in DOMAIN w.tried[c] : w.tried[c][i] = w.tried[c][j] => i = j
    <3>1. CASE c # b
      <4>1. w.tried[c] = u.tried[c]
        BY <3>1, <1>3, <1>6
      <4>2. /\ u.tried[c][i] \in DOMAIN u.index /\ u.index[u.tried[c][i]].tried
            /\ AmTriedBucket[u.tried[c][i]] = c
            /\ \A j \in DOMAIN u.tried[c] : u.tried[c][i] = u.tried[c][j] => i = j
        BY <4>1, <1>t DEF AmInTried
      <4>3. w.index[u.tried[c][i]] = u.index[u.tried[c][i]]
        BY <4>1, <1>n, <1>3, <1>4
      <4> QED
        BY <4>1, <4>2, <4>3, <1>3, <1>4
    <3>2. CASE c = b /\ i \in DOMAIN u.tried[b]
      <4>1. w.tried[c] = q /\ q[i] = u.tried[b][i]
        BY <3>2, <1>3, <1>5, <1>6
      <4>2. /\ u.tried[b][i] \in DOMAIN u.index /\ u.index[u.tried[b][i]].tried
            /\ AmTriedBucket[u.tried[b][i]] = b
            /\ \A j \in DOMAIN u.tried[b] : u.tried[b][i] = u.tried[b][j] => i = j
        BY <3>2, <1>b, <1>t DEF AmInTried
      <4>3. w.index[u.tried[b][i]] = u.index[u.tried[b][i]]
        BY <3>2, <1>b, <1>n, <1>3, <1>4
      <4>4. \A j \in DOMAIN q : q[i] = q[j] => i = j
        BY <4>1, <4>2, <3>2, <1>b, <1>n, <1>5
      <4> QED
        BY <4>1, <4>2, <4>3, <4>4, <3>2, <1>3, <1>4
    <3>3. CASE c = b /\ i \notin DOMAIN u.tried[b]
      <4>1. w.tried[c] = q /\ i = Len(q) /\ q[i] = a
        BY <3>3, <1>3, <1>5, <1>6
      <4>2. \A j \in DOMAIN q : q[j] = a => i = j
        BY <4>1, <1>b, <1>n, <1>5
      <4>3. a \in DOMAIN w.index /\ w.index[a].tried
        BY <1>3, <1>4, <1>t
      <4> QED
        BY <4>1, <4>2, <4>3, <3>3
    <3> QED
      BY <3>1, <3>2, <3>3
  <2>2. ASSUME NEW x \in DOMAIN w.index, w.index[x].tried
        PROVE  \E i \in DOMAIN w.tried[AmTriedBucket[x]] : w.tried[AmTriedBucket[x]][i] = x
    <3>1. CASE x = a
      BY <3>1, <1>3, <1>5, <1>6
    <3>2. CASE x # a
      <4>1. x \in DOMAIN u.index /\ w.index[x] = u.index[x]
        BY <3>2, <1>3, <1>4
      <4>2. u.index[x].tried /\ x \in AmAddrs
        BY <4>1, <2>2, <1>t DEF AmTyped
      <4>3. AmTriedBucket[x] \in AmTried
        BY <4>2, AddrMgrAssumption
      <4>4. PICK i \in DOMAIN u.tried[AmTriedBucket[x]] : u.tried[AmTriedBucket[x]][i] = x
        BY <4>1, <4>2, <1>t DEF AmInTried
      <4>5. CASE AmTriedBucket[x] = b
        BY <4>4, <4>5, <1>3, <1>5, <1>6
      <4>6. CASE AmTriedBucket[x] # b
        BY <4>3, <4>4, <4>6, <1>3, <1>6
      <4> QED
        BY <4>5, <4>6
    <3> QED
      BY <3>1, <3>2
  <2> QED
    BY <2>1, <2>2 DEF AmInTried
<1>11. AmTotals(w)
  <2>r. \A x \in DOMAIN u.index : u.index[x].tried \in BOOLEAN
    BY <1>t DEF AmTyped, AmRow
  <2>1. AmWhere(w, FALSE) = AmWhere(u, FALSE) \ {a} /\ AmWhere(w, TRUE) = AmWhere(u, TRUE) \cup {a}
    BY <1>3, <1>4, <1>t DEF AmWhere
  <2>2. a \in AmWhere(u, FALSE) /\ a \notin AmWhere(u, TRUE)
    BY <2>r, <1>t DEF AmWhere
  <2>3. IsFiniteSet(AmWhere(u, FALSE)) /\ IsFiniteSet(AmWhere(u, TRUE))
    BY <1>t, AmFinite
  <2>4. Cardinality(AmWhere(w, FALSE)) = Cardinality(AmWhere(u, FALSE)) - 1
    BY <2>1, <2>2, <2>3, FS_RemoveElement
  <2>5. Cardinality(AmWhere(w, TRUE)) = Cardinality(AmWhere(u, TRUE)) + 1
    BY <2>1, <2>2, <2>3, FS_AddElement
  <2> QED
    BY <2>4, <2>5, <1>3, <1>t DEF AmTotals
<1> QED
  BY <1>7, <1>8, <1>9, <1>10, <1>11 DEF AmTablesOK

\* In w the address a has the place p of its tried bucket, where r was in u.
AmSwaps(u, w, a, r, p) ==
    /\ w = [index |-> w.index, new |-> w.new, tried |-> w.tried, nNew |-> w.nNew, nTried |-> w.nTried]
    /\ w.index \in [DOMAIN u.index -> AmRow] /\ DOMAIN w.index = DOMAIN u.index
    /\ \A x \in DOMAIN u.index : x # a /\ x # r => w.index[x] = u.index[x]
    /\ w.index[a].refs = u.index[a].refs /\ w.index[a].tried = TRUE
    /\ w.index[r].refs = u.index[r].refs /\ w.index[r].tried = FALSE
    /\ w.new = u.new /\ w.nNew = u.nNew + 1 /\ w.nTried = u.nTried
    /\ w.tried \in [AmTried -> Seq(AmAddrs)]
    /\ \A c \in AmTried : c # AmTriedBucket[a] => w.tried[c] = u.tried[c]

\* The tried bucket of a in w.
AmSwapsPlace(u, w, a, p) ==
    LET b == AmTriedBucket[a]
    IN  /\ DOMAIN w.tried[b] = DOMAIN u.tried[b] /\ Len(w.tried[b]) = Len(u.tried[b])
        /\ w.tried[b][p] = a /\ \A i \in DOMAIN u.tried[b] : i # p => w.tried[b][i] = u.tried[b][i]

\* The address of place p of a's tried bucket is r.
AmAt(u, a, p, r) == p \in DOMAIN u.tried[AmTriedBucket[a]] /\ r = u.tried[AmTriedBucket[a]][p]

\* The address takes the place of a tried one, which is on its way back.
LEMMA AmSwapped ==
    ASSUME NEW u, NEW a, AmMovedOK(u, a), NEW p, NEW r, AmAt(u, a, p, r), NEW w,
           AmSwaps(u, w, a, r, p), AmSwapsPlace(u, w, a, p)
    PROVE  /\ AmTablesOK(w, {r}) /\ r \in DOMAIN w.index /\ ~w.index[r].tried /\ w.index[r].refs = 0
           /\ r # a /\ \A c \in AmNew : r \notin w.new[c]
<1>a. PICK b : b = AmTriedBucket[a] /\ p \in DOMAIN u.tried[b] /\ r = u.tried[b][p]
  BY DEF AmAt
<1>t. /\ AmTyped(u) /\ AmSizes(u) /\ AmInNew(u, {a}) /\ AmInTried(u)
      /\ a \in DOMAIN u.index /\ ~u.index[a].tried /\ u.index[a].refs = 0 /\ a \in AmAddrs
      /\ u.nNew = Cardinality(AmWhere(u, FALSE)) - 1 /\ u.nTried = Cardinality(AmWhere(u, TRUE))
  BY DEF AmMovedOK, AmTyped
<1>b. b \in AmTried /\ u.tried[b] \in Seq(AmAddrs)
  BY <1>a, <1>t, AddrMgrAssumption DEF AmTyped
<1>r. /\ r \in DOMAIN u.index /\ u.index[r].tried /\ AmTriedBucket[r] = b /\ r # a
      /\ \A j \in DOMAIN u.tried[b] : u.tried[b][j] = r => j = p
  BY <1>a, <1>b, <1>t DEF AmInTried
<1>s. u.index[r].refs = 0 /\ Buckets(u, r) = {}
  <2>1. u.index[r].refs = 0 /\ u.index[r].refs = Cardinality(Buckets(u, r))
    BY <1>a, <1>r, <1>t DEF AmInNew
  <2> QED
    BY <1>a, <2>1, <1>t, AmFinite, FS_EmptySet
<1>3. w.new = u.new /\ w.nNew = u.nNew + 1 /\ w.nTried = u.nTried
  BY DEF AmSwaps
<1>4. /\ w.index \in [DOMAIN u.index -> AmRow] /\ DOMAIN w.index = DOMAIN u.index
      /\ \A x \in DOMAIN u.index : x # a /\ x # r => w.index[x] = u.index[x]
      /\ w.index[a].refs = 0 /\ w.index[a].tried = TRUE /\ w.index[r].refs = 0 /\ w.index[r].tried = FALSE
  BY <1>a, <1>s, <1>t DEF AmSwaps
<1>5. w.tried \in [AmTried -> Seq(AmAddrs)] /\ \A c \in AmTried : c # b => w.tried[c] = u.tried[c]
  BY <1>a DEF AmSwaps
<1>6. /\ DOMAIN w.tried[b] = DOMAIN u.tried[b] /\ Len(w.tried[b]) = Len(u.tried[b])
      /\ w.tried[b][p] = a /\ \A i \in DOMAIN u.tried[b] : i # p => w.tried[b][i] = u.tried[b][i]
  BY <1>a DEF AmSwapsPlace
<1>8. AmTyped(w)
  <2>0. u.nNew \in Int /\ u.nTried \in Int
    BY <1>a, <1>t DEF AmTyped
  <2>1. u.nNew + 1 \in Int
    BY <1>a, <2>0
  <2> QED
    BY <1>a, <2>0, <2>1, <1>3, <1>4, <1>5, <1>t DEF AmTyped, AmSwaps
<1>9. AmSizes(w)
  BY <1>a, <1>3, <1>5, <1>6, <1>t DEF AmSizes
<1>10. AmInNew(w, {r})
  <2>1. \A x : Buckets(w, x) = Buckets(u, x)
    BY <1>a, <1>3 DEF Buckets
  <2>2. ASSUME NEW x \in DOMAIN w.index
        PROVE  /\ w.index[x].refs = Cardinality(Buckets(w, x)) /\ w.index[x].refs <= AmRefs
               /\ x \notin {r} => (w.index[x].tried <=> w.index[x].refs = 0)
    <3>1. w.index[x].refs = u.index[x].refs /\ x \in DOMAIN u.index
      BY <1>a, <1>3, <1>4, <1>s, <1>t
    <3>2. u.index[x].refs = Cardinality(Buckets(u, x)) /\ u.index[x].refs <= AmRefs
      BY <1>a, <3>1, <1>t DEF AmInNew
    <3>3. CASE x = a
      <4>1. w.index[x].tried /\ w.index[x].refs = 0
        BY <1>a, <3>3, <1>3, <1>4
      <4> QED
        BY <1>a, <4>1, <3>1, <3>2, <2>1
    <3>4. CASE x # a /\ x # r
      <4>1. w.index[x] = u.index[x] /\ (u.index[x].tried <=> u.index[x].refs = 0)
        BY <1>a, <3>1, <3>4, <1>3, <1>4, <1>t DEF AmInNew
      <4> QED
        BY <1>a, <4>1, <3>1, <3>2, <2>1
    <3>5. CASE x = r
      BY <1>a, <3>5, <3>1, <3>2, <2>1
    <3> QED
      BY <1>a, <3>3, <3>4, <3>5
  <2> QED
    BY <1>a, <2>2, <1>3, <1>4, <1>t DEF AmInNew
<1>n. \A c \in AmTried : \A i \in DOMAIN u.tried[c] : u.tried[c][i] \in DOMAIN u.index /\ u.tried[c][i] # a
  BY <1>a, <1>t DEF AmInTried
<1>11. AmInTried(w)
  <2>1. ASSUME NEW c \in AmTried, NEW i \in DOMAIN w.tried[c]
        PROVE  /\ w.tried[c][i] \in DOMAIN w.index /\ w.index[w.tried[c][i]].tried
               /\ AmTriedBucket[w.tried[c][i]] = c
               /\ \A j \in DOMAIN w.tried[c] : w.tried[c][i] = w.tried[c][j] => i = j
    <3>1. CASE c # b
      <4>1. w.tried[c] = u.tried[c]
        BY <1>a, <3>1, <1>3, <1>5
      <4>2. /\ u.tried[c][i] \in DOMAIN u.index /\ u.index[u.tried[c][i]].tried
            /\ AmTriedBucket[u.tried[c][i]] = c
            /\ \A j \in DOMAIN u.tried[c] : u.tried[c][i] = u.tried[c][j] => i = j
        BY <1>a, <4>1, <1>t DEF AmInTried
      <4>3. w.index[u.tried[c][i]] = u.index[u.tried[c][i]]
        BY <1>a, <4>1, <4>2, <3>1, <1>n, <1>r, <1>3, <1>4
      <4> QED
        BY <1>a, <4>1, <4>2, <4>3, <1>3, <1>4
    <3>2. CASE c = b /\ i # p
      <4>1. w.tried[b][i] = u.tried[b][i] /\ i \in DOMAIN u.tried[b]
        BY <1>a, <3>2, <1>3, <1>5, <1>6
      <4>2. /\ u.tried[b][i] \in DOMAIN u.index /\ u.index[u.tried[b][i]].tried
            /\ AmTriedBucket[u.tried[b][i]] = b
            /\ \A j \in DOMAIN u.tried[b] : u.tried[b][i] = u.tried[b][j] => i = j
        BY <1>a, <4>1, <1>b, <1>t DEF AmInTried
      <4>3. u.tried[b][i] # a /\ u.tried[b][i] # r
        BY <1>a, <4>1, <3>2, <1>b, <1>n, <1>r
      <4>4. w.index[u.tried[b][i]] = u.index[u.tried[b][i]]
        BY <1>a, <4>2, <4>3, <1>3, <1>4
      <4>5. \A j \in DOMAIN w.tried[b] : w.tried[b][i] = w.tried[b][j] => i = j
        BY <1>a, <4>1, <4>2, <4>3, <1>6
      <4> QED
        BY <1>a, <4>1, <4>2, <4>4, <4>5, <3>2, <1>3, <1>4
    <3>3. CASE c = b /\ i = p
      <4>1. w.tried[b][i] = a
        BY <1>a, <3>3, <1>3, <1>5, <1>6
      <4>2. \A j \in DOMAIN w.tried[b] : w.tried[b][j] = a => i = j
        BY <1>a, <3>3, <1>b, <1>n, <1>6
      <4>3. a \in DOMAIN w.index /\ w.index[a].tried
        BY <1>a, <1>3, <1>4, <1>t
      <4> QED
        BY <1>a, <4>1, <4>2, <4>3, <3>3
    <3> QED
      BY <1>a, <3>1, <3>2, <3>3
  <2>2. ASSUME NEW x \in DOMAIN w.index, w.index[x].tried
        PROVE  \E i \in DOMAIN w.tried[AmTriedBucket[x]] : w.tried[AmTriedBucket[x]][i] = x
    <3>1. CASE x = a
      BY <1>a, <3>1, <1>3, <1>5, <1>6
    <3>2. CASE x # a
      <4>0. x # r
        BY <1>a, <2>2, <1>3, <1>4
      <4>1. x \in DOMAIN u.index /\ w.index[x] = u.index[x]
        BY <1>a, <4>0, <3>2, <1>3, <1>4
      <4>2. u.index[x].tried /\ x \in AmAddrs
        BY <1>a, <4>1, <2>2, <1>t DEF AmTyped
      <4>3. AmTriedBucket[x] \in AmTried
        BY <1>a, <4>2, AddrMgrAssumption
      <4>4. PICK i \in DOMAIN u.tried[AmTriedBucket[x]] : u.tried[AmTriedBucket[x]][i] = x
        BY <1>a, <4>1, <4>2, <1>t DEF AmInTried
      <4>5. CASE AmTriedBucket[x] = b
        BY <1>a, <4>0, <4>4, <4>5, <1>3, <1>5, <1>6
      <4>6. CASE AmTriedBucket[x] # b
        BY <1>a, <4>3, <4>4, <4>6, <1>3, <1>5
      <4> QED
        BY <1>a, <4>5, <4>6
    <3> QED
      BY <1>a, <3>1, <3>2
  <2> QED
    BY <1>a, <2>1, <2>2 DEF AmInTried
<1>12. AmTotals(w)
  <2>r. \A x \in DOMAIN u.index : u.index[x].tried \in BOOLEAN
    BY <1>a, <1>t DEF AmTyped, AmRow
  <2>1. AmWhere(w, FALSE) = (AmWhere(u, FALSE) \ {a}) \cup {r}
        /\ AmWhere(w, TRUE) = (AmWhere(u, TRUE) \ {r}) \cup {a}
    BY <1>a, <1>3, <1>4, <1>t, <1>r DEF AmWhere
  <2>2. a \in AmWhere(u, FALSE) /\ a \notin AmWhere(u, TRUE) /\ r \in AmWhere(u, TRUE) /\ r \notin AmWhere(u, FALSE)
    BY <1>a, <2>r, <1>t, <1>r DEF AmWhere
  <2>3. IsFiniteSet(AmWhere(u, FALSE)) /\ IsFiniteSet(AmWhere(u, TRUE))
    BY <1>a, <1>t, AmFinite
  <2>n. Cardinality(AmWhere(u, FALSE)) \in Nat /\ Cardinality(AmWhere(u, TRUE)) \in Nat
    BY <1>a, <1>t, AmFinite
  <2>4. /\ Cardinality(AmWhere(u, FALSE) \ {a}) = Cardinality(AmWhere(u, FALSE)) - 1
        /\ Cardinality(AmWhere(u, TRUE) \ {r}) = Cardinality(AmWhere(u, TRUE)) - 1
        /\ IsFiniteSet(AmWhere(u, FALSE) \ {a}) /\ IsFiniteSet(AmWhere(u, TRUE) \ {r})
    BY <1>a, <2>2, <2>3, FS_RemoveElement
  <2>5. /\ Cardinality(AmWhere(w, FALSE)) = Cardinality(AmWhere(u, FALSE) \ {a}) + 1
        /\ Cardinality(AmWhere(w, TRUE)) = Cardinality(AmWhere(u, TRUE) \ {r}) + 1
    <3>1. r \notin AmWhere(u, FALSE) \ {a} /\ a \notin AmWhere(u, TRUE) \ {r}
      BY <1>a, <2>2
    <3> QED
      <4>1. PICK F, T : F = AmWhere(u, FALSE) \ {a} /\ T = AmWhere(u, TRUE) \ {r}
        OBVIOUS
      <4>2. IsFiniteSet(F) /\ IsFiniteSet(T) /\ r \notin F /\ a \notin T
        BY <1>a, <4>1, <3>1, <2>4
      <4>3. Cardinality(F \cup {r}) = Cardinality(F) + 1 /\ Cardinality(T \cup {a}) = Cardinality(T) + 1
        BY <1>a, <4>2, FS_AddElement
      <4> QED
        BY <1>a, <4>1, <4>3, <2>1
  <2>6. Cardinality(AmWhere(w, FALSE)) = u.nNew + 1 /\ Cardinality(AmWhere(w, TRUE)) = u.nTried
    <3>1. u.nNew = Cardinality(AmWhere(u, FALSE)) - 1 /\ u.nTried = Cardinality(AmWhere(u, TRUE))
      BY <1>a, <1>t
    <3>2. PICK k \in Nat, l \in Nat : k = Cardinality(AmWhere(u, FALSE)) /\ l = Cardinality(AmWhere(u, TRUE))
      BY <1>a, <2>n
    <3>3. Cardinality(AmWhere(w, FALSE)) = (k - 1) + 1 /\ Cardinality(AmWhere(w, TRUE)) = (l - 1) + 1
      BY <1>a, <3>2, <2>4, <2>5
    <3>4. u.nNew = k - 1 /\ u.nTried = l
      BY <1>a, <3>1, <3>2
    <3>5. (k - 1) + 1 = u.nNew + 1 /\ (l - 1) + 1 = u.nTried
      BY <1>a, <3>4
    <3> QED
      BY <1>a, <3>3, <3>5
  <2> QED
    BY <1>a, <2>6, <1>3 DEF AmTotals
<1> QED
  <2>1. \A c \in AmNew : r \notin w.new[c]
    BY <1>a, <1>s, <1>3 DEF Buckets
  <2>2. r \in DOMAIN w.index /\ ~w.index[r].tried /\ w.index[r].refs = 0 /\ r # a
    BY <1>a, <1>r, <1>3, <1>4
  <2> QED
    BY <1>a, <2>1, <2>2, <1>8, <1>9, <1>10, <1>11, <1>12 DEF AmTablesOK

\* Good's assignments when the tried bucket is full, and updateAddress's.
AmSwapTo(u, a, b, p, r, to) ==
    [u EXCEPT !.index[a].tried = TRUE, !.tried[b][p] = a,
              !.index[r].tried = FALSE, !.index[r].refs = @ + 1,
              !.nNew = @ + 1, !.new[to] = @ \cup {r}]
AmPut(w, r, to) == [w EXCEPT !.index[r].refs = @ + 1, !.new[to] = @ \cup {r}]

\* What Good does when the tried bucket is full: the swap, then the way back.
LEMMA AmSwapSteps ==
    ASSUME NEW u, NEW a, AmMovedOK(u, a), NEW b, b = AmTriedBucket[a],
           NEW p \in DOMAIN u.tried[b], NEW r, r = u.tried[b][p], NEW to \in AmNew, NEW z
    PROVE  z = AmSwapTo(u, a, b, p, r, to)
           => \E w : /\ AmSwaps(u, w, a, r, p) /\ AmSwapsPlace(u, w, a, p)
                     /\ z = AmPut(w, r, to)
<1>t. /\ AmTyped(u) /\ AmInTried(u) /\ a \in DOMAIN u.index /\ ~u.index[a].tried /\ a \in AmAddrs
  BY DEF AmMovedOK, AmTyped
<1>b. b \in AmTried /\ u.tried[b] \in Seq(AmAddrs)
  BY <1>t, AddrMgrAssumption DEF AmTyped
<1>r. r \in DOMAIN u.index /\ u.index[r].tried /\ r # a
  BY <1>b, <1>t DEF AmInTried
<1>x. u.index \in [DOMAIN u.index -> AmRow] /\ u.index[a] \in AmRow /\ u.index[r] \in AmRow
  BY <1>t, <1>r DEF AmTyped
<1>1. PICK m, n : m = [u.index[a] EXCEPT !.tried = TRUE] /\ n = [u.index[r] EXCEPT !.tried = FALSE]
  OBVIOUS
<1>2. PICK ix : ix = [u.index EXCEPT ![a] = m, ![r] = n]
  OBVIOUS
<1>3. PICK q : q = [u.tried[b] EXCEPT ![p] = a]
  OBVIOUS
<1>4. PICK tr : tr = [u.tried EXCEPT ![b] = q]
  OBVIOUS
<1>5. PICK w : w = [index |-> ix, new |-> u.new, tried |-> tr, nNew |-> u.nNew + 1, nTried |-> u.nTried]
  OBVIOUS
<1>6. /\ w.index = ix /\ w.new = u.new /\ w.tried = tr /\ w.nNew = u.nNew + 1 /\ w.nTried = u.nTried
      /\ w = [index |-> w.index, new |-> w.new, tried |-> w.tried, nNew |-> w.nNew, nTried |-> w.nTried]
  BY <1>5, AmRecord
<1>7. /\ m \in AmRow /\ m.tried = TRUE /\ m.refs = u.index[a].refs
      /\ n \in AmRow /\ n.tried = FALSE /\ n.refs = u.index[r].refs
  BY <1>1, <1>x, AmRowMark
<1>8. /\ ix \in [DOMAIN u.index -> AmRow] /\ DOMAIN ix = DOMAIN u.index
      /\ \A x \in DOMAIN u.index : x # a /\ x # r => ix[x] = u.index[x]
      /\ ix[a] = m /\ ix[r] = n
  BY <1>2, <1>7, <1>r, <1>x, <1>t
<1>9. /\ q \in Seq(AmAddrs) /\ Len(q) = Len(u.tried[b]) /\ DOMAIN q = DOMAIN u.tried[b] /\ q[p] = a
      /\ \A i \in DOMAIN u.tried[b] : i # p => q[i] = u.tried[b][i]
  <2>1. PICK s \in Seq(AmAddrs) : s = u.tried[b]
    BY <1>b
  <2>2. q = [s EXCEPT ![p] = a] /\ p \in DOMAIN s /\ a \in AmAddrs
    BY <2>1, <1>3, <1>t
  <2>3. q \in Seq(AmAddrs) /\ Len(q) = Len(s) /\ DOMAIN q = DOMAIN s /\ q[p] = a /\ \A i \in DOMAIN s : i # p => q[i] = s[i]
    BY <2>2
  <2> QED
    BY <2>1, <2>3
<1>10. tr \in [AmTried -> Seq(AmAddrs)] /\ tr[b] = q /\ \A c \in AmTried : c # b => tr[c] = u.tried[c]
  BY <1>4, <1>9, <1>b, <1>t DEF AmTyped
<1>11. AmSwaps(u, w, a, r, p)
  BY <1>6, <1>7, <1>8, <1>10 DEF AmSwaps
<1>12. AmSwapsPlace(u, w, a, p)
  BY <1>6, <1>9, <1>10 DEF AmSwapsPlace
<1>13. ASSUME z = AmSwapTo(u, a, b, p, r, to)
       PROVE  z = AmPut(w, r, to)
  <2>1. PICK k, iz, nw : /\ k = w.index[r].refs + 1 /\ iz = [w.index EXCEPT ![r].refs = k]
                         /\ nw = [w.new EXCEPT ![to] = @ \cup {r}]
    OBVIOUS
  <2>2. PICK iu : iu = [u.index EXCEPT ![a].tried = TRUE, ![r].tried = FALSE, ![r].refs = @ + 1]
    OBVIOUS
  <2>3. iu = iz
    <3>1. PICK l : l = [n EXCEPT !.refs = @ + 1]
      OBVIOUS
    <3>2. iz = [ix EXCEPT ![r] = l]
      BY <2>1, <3>1, <1>6, <1>8
    <3>3. iz = [u.index EXCEPT ![a].tried = TRUE, ![r].tried = FALSE, ![r].refs = @ + 1]
      BY <3>1, <3>2, <1>1, <1>2, <1>r, <1>x, <1>t
    <3> QED
      BY <2>2, <3>3
  <2>4. tr = [u.tried EXCEPT ![b][p] = a]
    BY <1>3, <1>4
  <2>5. u = [index |-> u.index, new |-> u.new, tried |-> u.tried, nNew |-> u.nNew, nTried |-> u.nTried]
    BY <1>t DEF AmTyped
  <2>6. nw = [u.new EXCEPT ![to] = @ \cup {r}]
    BY <2>1, <1>6
  <2>7. z = [index |-> iu, new |-> nw, tried |-> tr, nNew |-> u.nNew + 1, nTried |-> u.nTried]
    BY <1>13, <2>2, <2>4, <2>5, <2>6, AmSwapParts DEF AmSwapTo
  <2>8. z = [index |-> iz, new |-> nw, tried |-> w.tried, nNew |-> w.nNew, nTried |-> w.nTried]
    BY <2>3, <2>7, <1>6
  <2>9. w = [index |-> w.index, new |-> w.new, tried |-> w.tried, nNew |-> w.nNew, nTried |-> w.nTried]
    BY <1>6
  <2>10. ASSUME NEW v, v = AmPut(w, r, to)
         PROVE  v = [index |-> iz, new |-> nw, tried |-> w.tried, nNew |-> w.nNew, nTried |-> w.nTried]
    <3>1. v.index = iz /\ v.new = nw /\ v.tried = w.tried /\ v.nNew = w.nNew /\ v.nTried = w.nTried
      BY <2>1, <2>9, <2>10 DEF AmPut
    <3>2. v = [index |-> v.index, new |-> v.new, tried |-> v.tried, nNew |-> v.nNew, nTried |-> v.nTried]
      BY <2>9, <2>10 DEF AmPut
    <3> QED
      BY <3>1, <3>2
  <2> QED
    BY <2>8, <2>10
<1> QED
  BY <1>11, <1>12, <1>13

\* The rest of updateAddress, with or without room in the bucket.
LEMMA AmIntoBucket ==
    ASSUME NEW t, NEW a, NEW X \in SUBSET {a}, AmTablesOK(t, X), a \in DOMAIN t.index,
           ~t.index[a].tried, t.index[a].refs < AmRefs, NEW b \in AmNew,
           a \in t.new[b] => X = {}, NEW z \in IntoBucket(t, a, b)
    PROVE  AmTablesOK(z, {})
<1>n. /\ AmNewSize \in Nat \ {0} /\ Cardinality(t.new[b]) \in Nat /\ IsFiniteSet(t.new[b])
      /\ Cardinality(t.new[b]) <= AmNewSize + 1
  BY AddrMgrAssumption, AmFinite DEF AmTablesOK, AmSizes
<1>1. CASE a \in t.new[b]
  BY <1>1 DEF IntoBucket
<1>2. CASE a \notin t.new[b] /\ ~(Cardinality(t.new[b]) > AmNewSize)
  <2>1. z = [t EXCEPT !.index[a].refs = @ + 1, !.new[b] = @ \cup {a}]
    BY <1>2 DEF IntoBucket
  <2>2. Cardinality(t.new[b]) <= AmNewSize
    BY <1>2, <1>n
  <2> QED
    BY <1>2, <2>1, <2>2, AmInto
<1>3. CASE a \notin t.new[b] /\ Cardinality(t.new[b]) > AmNewSize
  <2>1. PICK u \in ExpireNew(t, b) : z = [u EXCEPT !.index[a].refs = @ + 1, !.new[b] = @ \cup {a}]
    BY <1>3 DEF IntoBucket
  <2>2. PICK gone \in Expired(t, b) : u = Unref([t EXCEPT !.new[b] = @ \ gone], gone)
    BY DEF ExpireNew
  <2>3. t.new[b] # {}
    <3>1. Cardinality({}) = 0
      BY FS_EmptySet
    <3>2. Cardinality(t.new[b]) # 0
      BY <1>3, <1>n
    <3> QED
      BY <3>1, <3>2, Zenon
  <2>4. gone \in SUBSET t.new[b] /\ gone # {}
    BY <2>3 DEF Expired
  <2>5. X \cap t.new[b] = {}
    BY <1>3
  <2>6. /\ AmTablesOK(u, X) /\ u.new[b] = t.new[b] \ gone
        /\ \A x \in DOMAIN t.index \ gone : x \in DOMAIN u.index /\ u.index[x] = t.index[x]
    BY <2>2, <2>4, <2>5, AmExpired
  <2>7. a \in DOMAIN u.index /\ u.index[a] = t.index[a] /\ a \notin u.new[b]
    BY <2>4, <2>6, <1>3
  <2>8. Cardinality(u.new[b]) <= AmNewSize
    <3>1. PICK x \in gone : TRUE
      BY <2>4
    <3>2. u.new[b] \in SUBSET (t.new[b] \ {x}) /\ x \in t.new[b]
      BY <2>4, <2>6, <3>1
    <3>3. IsFiniteSet(t.new[b] \ {x}) /\ Cardinality(t.new[b] \ {x}) = Cardinality(t.new[b]) - 1
      BY <3>2, <1>n, FS_RemoveElement
    <3>4. Cardinality(u.new[b]) <= Cardinality(t.new[b] \ {x}) /\ IsFiniteSet(u.new[b])
      BY <3>2, <3>3, FS_Subset
    <3>5. Cardinality(u.new[b]) \in Nat
      BY <3>4, FS_CardinalityType
    <3> QED
      BY <3>3, <3>4, <3>5, <1>n
  <2>9. ~u.index[a].tried /\ u.index[a].refs < AmRefs
    BY <2>7
  <2> QED
    BY <2>1, <2>6, <2>7, <2>8, <2>9, AmInto
<1> QED
  BY <1>1, <1>2, <1>3

\* The bucket of an address and a source.
LEMMA AmBucketOf ==
    ASSUME NEW a \in AmAddrs, NEW s \in AmSources
    PROVE  \E b \in AmNew : b = AmNewBucket[<<a, s>>]
<1>1. <<a, s>> \in AmAddrs \X AmSources
  OBVIOUS
<1>2. \A x \in AmAddrs \X AmSources : AmNewBucket[x] \in AmNew
  BY AddrMgrAssumption
<1>3. AmNewBucket[<<a, s>>] \in AmNew
  BY <1>1, <1>2
<1> QED
  BY <1>3

\* updateAddress keeps the tables in order.
LEMMA AmUpdate ==
    ASSUME NEW t, AmTablesOK(t, {}), NEW a \in AmAddrs, NEW s \in AmSources, NEW z \in UpdateAddress(t, a, s)
    PROVE  AmTablesOK(z, {})
<1>n. PICK b \in AmNew : b = AmNewBucket[<<a, s>>]
  BY AmBucketOf
<1>r. AmRefs \in Nat \ {0}
  BY AddrMgrAssumption
<1>1. CASE a \notin DOMAIN t.index
  <2>1. PICK u : u = [t EXCEPT !.index = [x \in DOMAIN t.index \cup {a} |->
                            IF x = a THEN [src |-> s, refs |-> 0, tried |-> FALSE] ELSE t.index[x]],
                         !.nNew = @ + 1]
    OBVIOUS
  <2>2. z \in IntoBucket(u, a, b)
    BY <1>1, <1>n, <2>1 DEF UpdateAddress
  <2>3. /\ AmTablesOK(u, {a}) /\ a \in DOMAIN u.index /\ \A c \in AmNew : a \notin u.new[c]
        /\ u.index[a].refs = 0 /\ ~u.index[a].tried
    BY <1>1, <2>1, AmAdded
  <2>4. u.index[a].refs < AmRefs
    BY <2>3, <1>r
  <2>5. {a} \in SUBSET {a} /\ a \notin u.new[b]
    BY <2>3
  <2> QED
    BY <2>2, <2>3, <2>4, <2>5, AmIntoBucket
<1>2. CASE a \in DOMAIN t.index /\ (t.index[a].tried \/ t.index[a].refs = AmRefs)
  BY <1>2 DEF UpdateAddress
<1>3. CASE a \in DOMAIN t.index /\ ~(t.index[a].tried \/ t.index[a].refs = AmRefs)
  <2>1. z = t \/ z \in IntoBucket(t, a, b)
    BY <1>3, <1>n DEF UpdateAddress
  <2>2. t.index[a].refs \in Nat /\ t.index[a].refs <= AmRefs
    BY <1>3 DEF AmTablesOK, AmTyped, AmRow, AmInNew
  <2>3. t.index[a].refs < AmRefs
    BY <2>2, <1>3, <1>r
  <2> QED
    BY <2>1, <2>3, <1>3, AmIntoBucket
<1> QED
  BY <1>1, <1>2, <1>3

\* The address takes the place of another one, which goes back to a new bucket with room.
LEMMA AmSwapBack ==
    ASSUME NEW u, NEW a, AmMovedOK(u, a), NEW b, b = AmTriedBucket[a],
           NEW p \in DOMAIN u.tried[b], NEW r, r = u.tried[b][p],
           NEW to \in AmNew, Cardinality(u.new[to]) <= AmNewSize, NEW z
    PROVE  z = AmSwapTo(u, a, b, p, r, to)
           => AmTablesOK(z, {})
<1>0. ASSUME NEW w, AmSwaps(u, w, a, r, p), AmSwapsPlace(u, w, a, p)
      PROVE  /\ AmTablesOK(w, {r}) /\ r \in DOMAIN w.index /\ ~w.index[r].tried /\ w.index[r].refs = 0
             /\ r # a /\ \A c \in AmNew : r \notin w.new[c]
  <2>1. AmAt(u, a, p, r)
    BY DEF AmAt
  <2> QED
    BY <1>0, <2>1, AmSwapped
<1>1. ASSUME NEW w, AmSwaps(u, w, a, r, p), AmSwapsPlace(u, w, a, p),
             z = AmPut(w, r, to)
      PROVE  AmTablesOK(z, {})
  <2>1. /\ AmTablesOK(w, {r}) /\ r \in DOMAIN w.index /\ ~w.index[r].tried /\ w.index[r].refs = 0
        /\ r # a /\ \A c \in AmNew : r \notin w.new[c]
    BY <1>0, <1>1
  <2>2. w.new = u.new
    BY <1>1 DEF AmSwaps
  <2>3. AmRefs \in Nat \ {0}
    BY AddrMgrAssumption
  <2>4. w.index[r].refs < AmRefs
    BY <2>1, <2>3
  <2>5. r \notin w.new[to] /\ Cardinality(w.new[to]) <= AmNewSize /\ {r} \in SUBSET {r}
    BY <2>1, <2>2
  <2> QED
    BY <1>1, <2>1, <2>4, <2>5, AmInto DEF AmPut
<1>2. ASSUME z = AmSwapTo(u, a, b, p, r, to)
      PROVE  AmTablesOK(z, {})
  <2>1. PICK w : /\ AmSwaps(u, w, a, r, p) /\ AmSwapsPlace(u, w, a, p)
                 /\ z = AmPut(w, r, to)
    BY <1>2, AmSwapSteps
  <2> QED
    BY <1>1, <2>1
<1> QED
  BY <1>2

\* Good keeps the tables in order.
LEMMA AmGood ==
    ASSUME NEW t, AmTablesOK(t, {}), NEW a \in DOMAIN t.index, NEW z \in GoodTables(t, a)
    PROVE  AmTablesOK(z, {})
<1>1. CASE t.index[a].tried
  BY <1>1 DEF GoodTables
<1>2. CASE ~t.index[a].tried
  <2>1. PICK u : u = Moved(t, a)
    OBVIOUS
  <2>2. AmMovedOK(u, a) /\ u.tried = t.tried /\ \A c \in AmNew : u.new[c] = t.new[c] \ {a}
    BY <1>2, <2>1, AmMoved
  <2>3. PICK b : b = AmTriedBucket[a]
    OBVIOUS
  <2>4. Buckets(t, a) # {} /\ Buckets(t, a) \subseteq AmNew
    <3>1. t.index[a].refs # 0 /\ t.index[a].refs = Cardinality(Buckets(t, a))
      BY <1>2 DEF AmTablesOK, AmInNew
    <3>2. Cardinality({}) = 0
      BY FS_EmptySet
    <3> QED
      BY <3>1, <3>2 DEF Buckets
  <2>5. PICK old \in Buckets(t, a) : old = Min(Buckets(t, a))
    <3>1. Buckets(t, a) \in SUBSET Nat
      BY <2>4, AddrMgrAssumption
    <3>2. \E x \in Buckets(t, a) : \A y \in Buckets(t, a) : x <= y
      BY <3>1, <2>4, LeastNumber
    <3> QED
      BY <3>2 DEF Min
  <2>6. CASE Len(u.tried[b]) < AmTriedSize
    <3>1. z = [u EXCEPT !.index[a].tried = TRUE, !.tried[b] = Append(@, a), !.nTried = @ + 1]
      BY <1>2, <2>1, <2>3, <2>4, <2>6 DEF GoodTables
    <3> QED
      BY <3>1, <2>2, <2>3, <2>6, AmAppended
  <2>7. CASE ~(Len(u.tried[b]) < AmTriedSize)
    <3>1. ASSUME NEW p \in DOMAIN u.tried[b], NEW r, r = u.tried[b][p], NEW own, own = AmNewBucket[<<r, u.index[r].src>>],
                 NEW to, to = IF Cardinality(u.new[own]) >= AmNewSize THEN old ELSE own
          PROVE  to \in AmNew /\ Cardinality(u.new[to]) <= AmNewSize
      <4>1. r \in AmAddrs /\ u.index[r].src \in AmSources
        <5>1. AmTyped(u) /\ AmInTried(u) /\ b \in AmTried
          BY <2>2, <2>3, AddrMgrAssumption DEF AmMovedOK, AmTyped
        <5>2. r \in DOMAIN u.index
          BY <3>1, <5>1 DEF AmInTried
        <5> QED
          BY <5>1, <5>2 DEF AmTyped, AmRow
      <4>2. own \in AmNew
        BY <3>1, <4>1, AmBucketOf
      <4>3. AmNewSize \in Nat /\ Cardinality(u.new[own]) \in Nat
        BY <4>2, AddrMgrAssumption, <2>2, AmFinite DEF AmMovedOK
      <4>4. CASE Cardinality(u.new[own]) >= AmNewSize
        <5>1. to = old /\ old \in AmNew /\ a \in t.new[old]
          BY <4>4, <3>1, <2>4 DEF Buckets
        <5>2. IsFiniteSet(t.new[old]) /\ Cardinality(t.new[old]) \in Nat /\ Cardinality(t.new[old]) <= AmNewSize + 1
          BY <5>1, AmFinite DEF AmTablesOK, AmSizes
        <5>3. Cardinality(u.new[old]) = Cardinality(t.new[old]) - 1
          <6>1. u.new[old] = t.new[old] \ {a}
            BY <5>1, <2>2
          <6>2. Cardinality(t.new[old] \ {a}) = Cardinality(t.new[old]) - 1
            BY <5>1, <5>2, FS_RemoveElement
          <6> QED
            BY <6>1, <6>2
        <5> QED
          BY <5>1, <5>2, <5>3, <4>3
      <4>5. CASE ~(Cardinality(u.new[own]) >= AmNewSize)
        <5>1. to = own
          BY <4>5, <3>1
        <5>2. Cardinality(u.new[own]) <= AmNewSize
          BY <4>5, <4>3
        <5> QED
          BY <5>1, <5>2, <4>2
      <4> QED
        BY <4>4, <4>5
    <3>2. PICK p \in DOMAIN u.tried[b] : \E r, own, to :
              /\ r = u.tried[b][p] /\ own = AmNewBucket[<<r, u.index[r].src>>]
              /\ to = IF Cardinality(u.new[own]) >= AmNewSize THEN old ELSE own
              /\ z = [u EXCEPT !.index[a].tried = TRUE, !.tried[b][p] = a,
                          !.index[r].tried = FALSE, !.index[r].refs = @ + 1,
                          !.nNew = @ + 1, !.new[to] = @ \cup {r}]
      BY <1>2, <2>1, <2>3, <2>4, <2>5, <2>7 DEF GoodTables
    <3>3. PICK r, own, to :
              /\ r = u.tried[b][p] /\ own = AmNewBucket[<<r, u.index[r].src>>]
              /\ to = IF Cardinality(u.new[own]) >= AmNewSize THEN old ELSE own
              /\ z = [u EXCEPT !.index[a].tried = TRUE, !.tried[b][p] = a,
                          !.index[r].tried = FALSE, !.index[r].refs = @ + 1,
                          !.nNew = @ + 1, !.new[to] = @ \cup {r}]
      BY <3>2
    <3>4. to \in AmNew /\ Cardinality(u.new[to]) <= AmNewSize
      BY <3>1, <3>3
    <3> QED
      BY <3>3, <3>4, <2>2, <2>3, AmSwapBack DEF AmSwapTo
  <2> QED
    BY <2>6, <2>7
<1> QED
  BY <1>1, <1>2

\* In tables that are in order an address is in a tried bucket when its row says so.
LEMMA AmTriedRow ==
    ASSUME NEW t, AmTablesOK(t, {}), NEW a \in DOMAIN t.index
    PROVE  (\E b \in AmTried : a \in Range(t.tried[b])) <=> t.index[a].tried
<1>1. \A b : Range(t.tried[b]) = {t.tried[b][i] : i \in DOMAIN t.tried[b]}
  BY DEF Range
<1>2. AmTriedBucket[a] \in AmTried
  BY AddrMgrAssumption DEF AmTablesOK, AmTyped
<1>3. ASSUME NEW b \in AmTried, a \in Range(t.tried[b]) PROVE t.index[a].tried
  <2>1. PICK i \in DOMAIN t.tried[b] : t.tried[b][i] = a
    BY <1>3, <1>1
  <2> QED
    BY <2>1 DEF AmTablesOK, AmInTried
<1>4. ASSUME t.index[a].tried PROVE a \in Range(t.tried[AmTriedBucket[a]])
  <2>1. PICK i \in DOMAIN t.tried[AmTriedBucket[a]] : t.tried[AmTriedBucket[a]][i] = a
    BY <1>4 DEF AmTablesOK, AmInTried
  <2> QED
    BY <2>1, <1>1
<1> QED
  BY <1>2, <1>3, <1>4

\* The tried places and the tried addresses are equally many.
LEMMA AmPlaces ==
    ASSUME NEW t, AmTablesOK(t, {})
    PROVE  Cardinality(UNION {{b} \X DOMAIN t.tried[b] : b \in AmTried}) = t.nTried
<1> DEFINE S == UNION {{b} \X DOMAIN t.tried[b] : b \in AmTried}
           T == AmWhere(t, TRUE)
           f == [x \in S |-> t.tried[x[1]][x[2]]]
<1>1. \A x \in S : x[1] \in AmTried /\ x[2] \in DOMAIN t.tried[x[1]] /\ x = <<x[1], x[2]>>
  OBVIOUS
<1>2. \A b \in AmTried : \A i \in DOMAIN t.tried[b] : <<b, i>> \in S
  OBVIOUS
<1> HIDE DEF S
<1>r. \A a \in DOMAIN t.index : t.index[a].tried \in BOOLEAN
  BY DEF AmTablesOK, AmTyped, AmRow
<1>3. \A x \in S : f[x] \in T /\ AmTriedBucket[f[x]] = x[1]
  <2>1. \A b \in AmTried : \A i \in DOMAIN t.tried[b] :
            t.tried[b][i] \in T /\ AmTriedBucket[t.tried[b][i]] = b
    BY <1>r DEF AmTablesOK, AmInTried, AmWhere
  <2> QED
    BY <2>1, <1>1
<1>4. \A x, y \in S : f[x] = f[y] => x = y
  <2> SUFFICES ASSUME NEW x \in S, NEW y \in S, f[x] = f[y] PROVE x = y
    OBVIOUS
  <2>0. AmTriedBucket[f[x]] = x[1] /\ AmTriedBucket[f[y]] = y[1]
    BY <1>3
  <2>1. x[1] = y[1]
    BY <2>0
  <2>2. \A b \in AmTried : \A i, j \in DOMAIN t.tried[b] : t.tried[b][i] = t.tried[b][j] => i = j
    BY DEF AmTablesOK, AmInTried
  <2>3. x[2] = y[2]
    BY <2>1, <2>2, <1>1
  <2> QED
    BY <2>1, <2>3, <1>1
<1>5. \A a \in T : \E x \in S : f[x] = a
  <2> SUFFICES ASSUME NEW a \in T PROVE \E x \in S : f[x] = a
    OBVIOUS
  <2>1. a \in DOMAIN t.index /\ t.index[a].tried /\ AmTriedBucket[a] \in AmTried
    BY AddrMgrAssumption DEF AmWhere, AmTablesOK, AmTyped
  <2>2. PICK i \in DOMAIN t.tried[AmTriedBucket[a]] : t.tried[AmTriedBucket[a]][i] = a
    BY <2>1 DEF AmTablesOK, AmInTried
  <2>3. <<AmTriedBucket[a], i>> \in S
    BY <2>1, <1>2
  <2>4. f[<<AmTriedBucket[a], i>>] = a
    BY <2>2, <2>3
  <2> QED
    BY <2>3, <2>4
<1>6. f \in [S -> T]
  BY <1>3
<1>7. DOMAIN f = S
  OBVIOUS
<1> HIDE DEF f, T
<1>8. f \in Injection(S, T)
  BY <1>4, <1>6, <1>7 DEF Injection, IsInjective
<1>9. f \in Surjection(S, T)
  BY <1>5, <1>6 DEF Surjection
<1>10. IsFiniteSet(T)
  BY AmFinite DEF AmTablesOK, T
<1>11. Cardinality(S) = Cardinality(T)
  BY <1>8, <1>9, <1>10, FS_Injection
<1> QED
  BY <1>11 DEF AmTablesOK, AmTotals, S, T

\* Tables that are in order come back from the file as they were.
LEMMA AmLoadedSame ==
    ASSUME NEW t, AmTablesOK(t, {})
    PROVE  Loaded(t) = t /\ ~LoadFails(t)
<1>t. /\ t = [index |-> t.index, new |-> t.new, tried |-> t.tried, nNew |-> t.nNew, nTried |-> t.nTried]
      /\ t.index \in [DOMAIN t.index -> AmRow]
  BY DEF AmTablesOK, AmTyped
<1>r. \A a \in DOMAIN t.index : /\ t.index[a] = [src |-> t.index[a].src, refs |-> t.index[a].refs, tried |-> t.index[a].tried]
                                /\ t.index[a].tried \in BOOLEAN /\ t.index[a].refs \in Nat
  BY <1>t DEF AmRow
<1>1. \A a \in DOMAIN t.index : Cardinality(Buckets(t, a)) = t.index[a].refs
  BY DEF AmTablesOK, AmInNew
<1>2. \A a \in DOMAIN t.index : (\E b \in AmTried : a \in Range(t.tried[b])) = t.index[a].tried
  BY <1>r, AmTriedRow
<1>3. PICK ix : ix = [a \in DOMAIN t.index |-> [src |-> t.index[a].src, refs |-> Cardinality(Buckets(t, a)),
                                                tried |-> \E b \in AmTried : a \in Range(t.tried[b])]]
  OBVIOUS
<1>4. ix = t.index
  <2>1. DOMAIN ix = DOMAIN t.index /\ ix = [a \in DOMAIN ix |-> ix[a]] /\ t.index = [a \in DOMAIN t.index |-> t.index[a]]
    BY <1>3, <1>t
  <2>2. ASSUME NEW a \in DOMAIN t.index PROVE ix[a] = t.index[a]
    <3>1. ix[a] = [src |-> t.index[a].src, refs |-> Cardinality(Buckets(t, a)),
                   tried |-> \E b \in AmTried : a \in Range(t.tried[b])]
      BY <1>3
    <3>2. ix[a] = [src |-> t.index[a].src, refs |-> t.index[a].refs, tried |-> t.index[a].tried]
      BY <3>1, <1>1, <1>2, Zenon
    <3> QED
      BY <3>2, <1>r
  <2> QED
    BY <2>1, <2>2
<1>5. PICK k : k = Cardinality({a \in DOMAIN t.index : Cardinality(Buckets(t, a)) > 0})
  OBVIOUS
<1>6. k = t.nNew
  <2>1. \A a \in DOMAIN t.index : Cardinality(Buckets(t, a)) > 0 <=> t.index[a].tried = FALSE
    <3>1. \A a \in DOMAIN t.index : t.index[a].tried <=> t.index[a].refs = 0
      BY DEF AmTablesOK, AmInNew
    <3>2. \A a \in DOMAIN t.index : Cardinality(Buckets(t, a)) > 0 <=> t.index[a].refs # 0
      <4> SUFFICES ASSUME NEW a \in DOMAIN t.index
                   PROVE  Cardinality(Buckets(t, a)) > 0 <=> t.index[a].refs # 0
        OBVIOUS
      <4>1. PICK m \in Nat : m = t.index[a].refs
        BY <1>r
      <4>2. Cardinality(Buckets(t, a)) = m
        BY <4>1, <1>1
      <4> QED
        BY <4>1, <4>2
    <3>3. \A a \in DOMAIN t.index : t.index[a].tried = FALSE <=> ~t.index[a].tried
      BY <1>r
    <3> QED
      BY <3>1, <3>2, <3>3
  <2>2. {a \in DOMAIN t.index : Cardinality(Buckets(t, a)) > 0} = AmWhere(t, FALSE)
    BY <2>1 DEF AmWhere
  <2> QED
    BY <2>2, <1>5 DEF AmTablesOK, AmTotals
<1>7. PICK n : n = Cardinality(UNION {{b} \X DOMAIN t.tried[b] : b \in AmTried})
  OBVIOUS
<1>8. n = t.nTried
  BY <1>7, AmPlaces
<1>9. Loaded(t) = t
  <2>1. Loaded(t) = [t EXCEPT !.index = ix, !.nNew = k, !.nTried = n]
    BY <1>3, <1>5, <1>7, Zenon DEF Loaded
  <2> QED
    BY <2>1, <1>4, <1>6, <1>8, <1>t
<1>10. ~LoadFails(t)
  <2>1. \A a \in DOMAIN t.index : t.index[a].refs = 0 <=> t.index[a].tried
    BY DEF AmTablesOK, AmInNew
  <2>2. \A b \in AmNew : t.new[b] \subseteq DOMAIN t.index
    BY DEF AmTablesOK, AmInNew
  <2>3. \A b \in AmTried : Range(t.tried[b]) \subseteq DOMAIN t.index
    BY DEF AmTablesOK, AmInTried, Range
  <2>4. (UNION {t.new[b] : b \in AmNew}) \cup (UNION {Range(t.tried[b]) : b \in AmTried}) \subseteq DOMAIN t.index
    <3>1. UNION {t.new[b] : b \in AmNew} \subseteq DOMAIN t.index
      BY <2>2, Zenon
    <3>2. UNION {Range(t.tried[b]) : b \in AmTried} \subseteq DOMAIN t.index
      BY <2>3, Zenon
    <3> SUFFICES ASSUME NEW x \in (UNION {t.new[b] : b \in AmNew}) \cup (UNION {Range(t.tried[b]) : b \in AmTried})
                 PROVE  x \in DOMAIN t.index
      OBVIOUS
    <3>3. x \in UNION {t.new[b] : b \in AmNew} \/ x \in UNION {Range(t.tried[b]) : b \in AmTried}
      OBVIOUS
    <3>4. CASE x \in UNION {t.new[b] : b \in AmNew}
      BY <3>1, <3>4, Zenon
    <3>5. CASE x \in UNION {Range(t.tried[b]) : b \in AmTried}
      BY <3>2, <3>5, Zenon
    <3> QED
      BY <3>3, <3>4, <3>5, Zenon
  <2>5. ASSUME NEW g, g = Loaded(t) PROVE \A a \in DOMAIN t.index : g.index[a].refs = 0 <=> g.index[a].tried
    BY <2>5, <2>1, <1>9
  <2> QED
    BY <2>4, <2>5 DEF LoadFails
<1> QED
  BY <1>9, <1>10

\* The tables after New and Start with no file are in order.
LEMMA AmNoTables == AmTablesOK(NoTables, {})
<1>1. PICK ix : ix = [a \in {} |-> [src |-> "", refs |-> 0, tried |-> FALSE]]
  OBVIOUS
<1>2. PICK t : t = [index |-> ix, new |-> [b \in AmNew |-> {}], tried |-> [b \in AmTried |-> <<>>], nNew |-> 0, nTried |-> 0]
  OBVIOUS
<1>3. t = NoTables
  BY <1>1, <1>2 DEF NoTables
<1>4. /\ t.index = ix /\ t.new = [b \in AmNew |-> {}] /\ t.tried = [b \in AmTried |-> <<>>] /\ t.nNew = 0 /\ t.nTried = 0
      /\ t = [index |-> t.index, new |-> t.new, tried |-> t.tried, nNew |-> t.nNew, nTried |-> t.nTried]
  BY <1>2
<1>5. DOMAIN ix = {} /\ ix \in [{} -> AmRow]
  BY <1>1
<1>6. AmTyped(t)
  BY <1>4, <1>5 DEF AmTyped
<1>n. AmNewSize \in Nat /\ AmTriedSize \in Nat /\ Cardinality({}) = 0
  BY AddrMgrAssumption, FS_EmptySet
<1>7. AmSizes(t)
  BY <1>4, <1>n DEF AmSizes
<1>8. AmInNew(t, {})
  BY <1>4, <1>5 DEF AmInNew
<1>9. AmInTried(t)
  BY <1>4, <1>5 DEF AmInTried
<1>10. AmTotals(t)
  <2>1. \A v : AmWhere(t, v) = {}
    BY <1>4, <1>5 DEF AmWhere
  <2> QED
    BY <2>1, <1>4, <1>n DEF AmTotals
<1> QED
  BY <1>3, <1>6, <1>7, <1>8, <1>9, <1>10 DEF AmTablesOK

\* The inductive invariant: the tables are in order whenever the mutex is free, and so are those
\* of a file that was written to its end.
AmIInv ==
    /\ amRuns \in BOOLEAN /\ AmTablesOK(amTables, {})
    /\ amFile.state \in {"none", "broken", "whole"}
    /\ amFile.state = "whole" => AmTablesOK(amFile.tables, {})

\* The states a node starts from.
LEMMA AmInitially == AddrMgrInit => AmIInv
<1>1. NoFile.state = "none"
  BY DEF NoFile
<1> QED
  BY <1>1, AmNoTables DEF AddrMgrInit, AmIInv

\* Every operation of the manager keeps the tables and the file in order.
LEMMA AmStep == AmIInv /\ [AddrMgrNext]_amVars => AmIInv'
<1> SUFFICES ASSUME AmIInv, [AddrMgrNext]_amVars PROVE AmIInv'
  OBVIOUS
<1>t. AmTablesOK(amTables, {}) /\ DOMAIN amTables.index \in SUBSET AmAddrs
  BY DEF AmIInv, AmTablesOK, AmTyped
<1>f. \A t : FileOf(t).state = "whole" /\ FileOf(t).tables = t
  BY DEF FileOf
<1>1. ASSUME NEW a \in AmAddrs, NEW s \in AmSources, AddAddress(a, s) PROVE AmIInv'
  <2>1. AmTablesOK(amTables', {})
    BY <1>1, <1>t, AmUpdate DEF AddAddress
  <2> QED
    BY <1>1, <2>1 DEF AddAddress, AmIInv
<1>2. ASSUME NEW a \in AmAddrs, Good(a) PROVE AmIInv'
  <2>1. AmTablesOK(amTables', {})
    BY <1>2, <1>t, AmGood DEF Good
  <2> QED
    BY <1>2, <2>1 DEF Good, AmIInv
<1>3. CASE SavePeers
  BY <1>3, <1>f DEF SavePeers, AmIInv
<1>4. CASE Stop
  BY <1>4, <1>f, AmNoTables DEF Stop, AmIInv
<1>5. CASE Kill
  <2>1. [FileOf(NoTables) EXCEPT !.state = "broken"].state = "broken"
    BY DEF FileOf
  <2> QED
    BY <1>5, <2>1, AmNoTables DEF Kill, AmIInv
<1>6. CASE Start
  <2>1. CASE amFile.state = "whole" /\ ~LoadFails(amFile.tables)
    <3>1. amTables' = amFile.tables /\ amFile' = amFile
      BY <1>6, <2>1, AmLoadedSame DEF Start, AmIInv
    <3> QED
      BY <1>6, <2>1, <3>1 DEF Start, AmIInv
  <2>2. CASE ~(amFile.state = "whole" /\ ~LoadFails(amFile.tables))
    <3>1. amTables' = NoTables /\ amFile'.state = "none"
      BY <1>6, <2>2 DEF Start, NoFile
    <3> QED
      BY <1>6, <3>1, AmNoTables DEF Start, AmIInv
  <2> QED
    BY <2>1, <2>2
<1>7. CASE UNCHANGED amVars
  BY <1>7 DEF amVars, AmIInv
<1> QED
  BY <1>1, <1>2, <1>3, <1>4, <1>5, <1>6, <1>7 DEF AddrMgrNext

\* An address of the index has a place in the tried buckets when it is tried, one that is not in
\* the index is nowhere.
LEMMA AmCounts ==
    ASSUME AmTablesOK(amTables, {})
    PROVE  CountsMatch
<1>t. AmTyped(amTables) /\ AmSizes(amTables) /\ AmInNew(amTables, {}) /\ AmInTried(amTables) /\ AmTotals(amTables)
  BY DEF AmTablesOK
<1> DEFINE places(a) == {x \in AmTried \X (1..AmTriedSize) : x[2] \in DOMAIN amTables.tried[x[1]] /\ amTables.tried[x[1]][x[2]] = a}
<1>2. \A a, x : x \in places(a) => x[1] \in AmTried /\ x[2] \in DOMAIN amTables.tried[x[1]] /\ amTables.tried[x[1]][x[2]] = a
                                    /\ x = <<x[1], x[2]>>
  OBVIOUS
<1>3. ASSUME NEW b \in AmTried, NEW i \in DOMAIN amTables.tried[b] PROVE <<b, i>> \in places(amTables.tried[b][i])
  <2>1. amTables.tried[b] \in Seq(AmAddrs) /\ Len(amTables.tried[b]) <= AmTriedSize /\ AmTriedSize \in Nat
    BY <1>t, AddrMgrAssumption DEF AmTyped, AmSizes
  <2>2. i \in 1..AmTriedSize
    BY <2>1
  <2> QED
    BY <2>2
<1> HIDE DEF places
<1>4. ASSUME NEW a, a \notin DOMAIN amTables.index \/ ~amTables.index[a].tried PROVE places(a) = {}
  <2> SUFFICES ASSUME NEW x \in places(a) PROVE FALSE
    OBVIOUS
  <2>1. x[1] \in AmTried /\ x[2] \in DOMAIN amTables.tried[x[1]] /\ amTables.tried[x[1]][x[2]] = a
    BY <1>2
  <2> QED
    BY <2>1, <1>4, <1>t DEF AmInTried
<1>5. ASSUME NEW a \in DOMAIN amTables.index, amTables.index[a].tried PROVE Cardinality(places(a)) = 1
  <2>1. AmTriedBucket[a] \in AmTried
    BY <1>t, AddrMgrAssumption DEF AmTyped
  <2>2. PICK i \in DOMAIN amTables.tried[AmTriedBucket[a]] : amTables.tried[AmTriedBucket[a]][i] = a
    BY <1>5, <1>t DEF AmInTried
  <2>3. <<AmTriedBucket[a], i>> \in places(a)
    BY <2>1, <2>2, <1>3
  <2>4. ASSUME NEW x \in places(a) PROVE x = <<AmTriedBucket[a], i>>
    <3>1. x[1] \in AmTried /\ x[2] \in DOMAIN amTables.tried[x[1]] /\ amTables.tried[x[1]][x[2]] = a /\ x = <<x[1], x[2]>>
      BY <1>2
    <3>2. x[1] = AmTriedBucket[a]
      BY <3>1, <1>t DEF AmInTried
    <3>3. x[2] = i
      BY <3>1, <3>2, <2>2, <1>t DEF AmInTried
    <3> QED
      BY <3>1, <3>2, <3>3
  <2>5. places(a) = {<<AmTriedBucket[a], i>>}
    BY <2>3, <2>4
  <2> QED
    BY <2>5, FS_Singleton
<1>6. Cardinality({}) = 0
  BY FS_EmptySet
<1>7. ASSUME NEW a \in DOMAIN amTables.index
      PROVE  /\ amTables.index[a].refs = Cardinality(Buckets(amTables, a))
             /\ Cardinality(places(a)) = IF amTables.index[a].tried THEN 1 ELSE 0
             /\ amTables.index[a].tried <=> amTables.index[a].refs = 0
  <2>1. Cardinality(places(a)) = IF amTables.index[a].tried THEN 1 ELSE 0
    BY <1>4, <1>5, <1>6
  <2> QED
    BY <2>1, <1>t DEF AmInNew
<1>8. ASSUME NEW a, a \notin DOMAIN amTables.index PROVE Buckets(amTables, a) = {} /\ places(a) = {}
  BY <1>8, <1>4, <1>t DEF AmInNew, Buckets
<1>9. /\ amTables.nNew = Cardinality({a \in DOMAIN amTables.index : ~amTables.index[a].tried})
      /\ amTables.nTried = Cardinality({a \in DOMAIN amTables.index : amTables.index[a].tried})
  <2>1. \A a \in DOMAIN amTables.index : amTables.index[a].tried \in BOOLEAN
    BY <1>t DEF AmTyped, AmRow
  <2>2. /\ AmWhere(amTables, FALSE) = {a \in DOMAIN amTables.index : ~amTables.index[a].tried}
        /\ AmWhere(amTables, TRUE) = {a \in DOMAIN amTables.index : amTables.index[a].tried}
    BY <2>1 DEF AmWhere
  <2> QED
    BY <2>2, <1>t DEF AmTotals
<1>10. \A a \in AmAddrs : IF a \in DOMAIN amTables.index
           THEN /\ amTables.index[a].refs = Cardinality(Buckets(amTables, a))
                /\ Cardinality(places(a)) = IF amTables.index[a].tried THEN 1 ELSE 0
                /\ amTables.index[a].tried <=> amTables.index[a].refs = 0
           ELSE Buckets(amTables, a) = {} /\ places(a) = {}
  BY <1>7, <1>8
<1> QED
  BY <1>9, <1>10 DEF CountsMatch, places

\* What the invariant of the tables says of the manager.
LEMMA AmImplies == AmIInv => AddrMgrInvariant
<1> SUFFICES ASSUME AmIInv PROVE AddrMgrInvariant
  OBVIOUS
<1>t. AmTablesOK(amTables, {}) /\ AmTyped(amTables) /\ AmSizes(amTables) /\ AmInNew(amTables, {})
      /\ AmInTried(amTables) /\ AmTotals(amTables)
  BY DEF AmIInv, AmTablesOK
<1>n. AmRefs \in Nat
  BY AddrMgrAssumption
<1>1. AddrMgrTypeOK
  <2>1. \A a \in DOMAIN amTables.index :
           amTables.index[a].src \in AmSources /\ amTables.index[a].refs \in 0..AmRefs
    BY <1>t, <1>n DEF AmTyped, AmRow, AmInNew
  <2> QED
    BY <2>1, <1>t DEF AmIInv, AddrMgrTypeOK, AmTyped, AmSizes
<1>2. CountsMatch
  BY <1>t, AmCounts
<1>3. GetAddressEnds
  <2>1. \A v : AmWhere(amTables, v) = {} => Cardinality(AmWhere(amTables, v)) = 0
    BY FS_EmptySet
  <2>2. ASSUME amTables.nTried > 0 PROVE UNION {Range(amTables.tried[b]) : b \in AmTried} # {}
    <3>1. AmWhere(amTables, TRUE) # {}
      <4>1. amTables.nTried \in Int
        BY <1>t DEF AmTyped
      <4>2. amTables.nTried # 0
        BY <2>2, <4>1
      <4>3. amTables.nTried = Cardinality(AmWhere(amTables, TRUE))
        BY <1>t DEF AmTotals
      <4> QED
        BY <4>2, <4>3, <2>1, Zenon
    <3>2. PICK a \in DOMAIN amTables.index : amTables.index[a].tried
      BY <3>1 DEF AmWhere
    <3>3. \E b \in AmTried : a \in Range(amTables.tried[b])
      BY <3>2, <1>t, AmTriedRow
    <3> QED
      BY <3>3
  <2>3. ASSUME amTables.nNew > 0 PROVE UNION {amTables.new[b] : b \in AmNew} # {}
    <3>1. AmWhere(amTables, FALSE) # {}
      <4>1. amTables.nNew \in Int
        BY <1>t DEF AmTyped
      <4>2. amTables.nNew # 0
        BY <2>3, <4>1
      <4>3. amTables.nNew = Cardinality(AmWhere(amTables, FALSE))
        BY <1>t DEF AmTotals
      <4> QED
        BY <4>2, <4>3, <2>1, Zenon
    <3>2. PICK a \in DOMAIN amTables.index : ~amTables.index[a].tried
      BY <3>1 DEF AmWhere
    <3>3. Cardinality(Buckets(amTables, a)) # 0
      BY <3>2, <1>t DEF AmInNew
    <3>4. Buckets(amTables, a) # {}
      BY <3>3, FS_EmptySet
    <3> QED
      BY <3>4 DEF Buckets
  <2>4. ASSUME NEW half \in Candidates(amTables) PROVE half # {}
    <3>1. \/ amTables.nTried > 0 /\ half = UNION {Range(amTables.tried[b]) : b \in AmTried}
          \/ amTables.nNew > 0 /\ half = UNION {amTables.new[b] : b \in AmNew}
      BY <2>4, Zenon DEF Candidates
    <3> QED
      BY <3>1, <2>2, <2>3, Zenon
  <2> QED
    BY <2>4 DEF GetAddressEnds
<1>4. AcceptsOwnFile
  BY AmLoadedSame DEF AmIInv, AcceptsOwnFile
<1> QED
  BY <1>1, <1>2, <1>3, <1>4 DEF AddrMgrInvariant

\* The address manager, for any addresses, buckets and sizes: the index, the buckets, the reference
\* counts and the totals of addrmanager.go agree after any updateAddress, expireNew and Good,
\* GetAddress finds an address in the half it looks in, and loadPeers accepts a file that
\* savePeers finished and finds the tables that were saved.
THEOREM AddressesCounted == AddrMgrSpec => []AddrMgrInvariant
<1>1. AddrMgrInit => AmIInv
  BY AmInitially
<1>2. AmIInv /\ [AddrMgrNext]_amVars => AmIInv'
  BY AmStep
<1>3. AmIInv => AddrMgrInvariant
  BY AmImplies
<1> QED
  BY <1>1, <1>2, <1>3, PTL DEF AddrMgrSpec

-----------------------------------------------------------------------------
(* The memory pool *)


\* The transactions of the pending calls of one kind.
Pend(c) == {mpTodo[i].tx : i \in {j \in DOMAIN mpTodo : mpTodo[j].call = c}}

\* The call that has the mutex, what is to be called, the chain and the flags.
ProcessJobs == [who : {"sync", "rpc"}, call : {"process"}, tx : Tx, tag : PeerTag \cup {NoTx}, coins : SUBSET TxOutPoint]
OrphanJobs == [who : {"sync", "rpc"}, call : {"orphans"}, list : Seq(TxOutPoint), done : SUBSET Tx, tx : Tx]
MpJobOK ==
    \/ mpJob = Free
    \/ mpJob \in ProcessJobs /\ (mpJob.who = "sync" => mpJob.tag \in PeerTag)
    \/ mpJob \in OrphanJobs
NoteCalls == {"remove", "doubles", "orphan", "process", "readd"}
MpTypes ==
    /\ MempoolTypeOK /\ MpJobOK /\ mpTodo \in Seq([call : NoteCalls, tx : Tx]) /\ mpChain \in Seq(Seq(Tx))
    /\ mpCurrent \in BOOLEAN /\ mpSkipped \in BOOLEAN /\ mpDropped \in BOOLEAN

\* Every input of the chain comes from an earlier or the same block, no two blocks have a
\* transaction in common, and no two transactions of the chain an input.
MpChainOK ==
    /\ \A i \in DOMAIN mpChain : \A t \in Range(mpChain[i]) : \A o \in Ins(t) :
          o \in BaseCoins \/ \E k \in 1..i : \E q \in Range(mpChain[k]) : o \in Outs(q)
    /\ \A i, k \in DOMAIN mpChain : i # k => Range(mpChain[i]) \cap Range(mpChain[k]) = {}
    /\ \A t, u \in Confirmed : Ins(t) \cap Ins(u) # {} => t = u

\* The pending calls: first the transaction of a block, then those that spend its outputs.
MpOrder ==
    /\ \A i \in DOMAIN mpTodo : IF mpTodo[i].call = "readd" THEN mpTodo[i].tx \notin Confirmed
                                                           ELSE mpTodo[i].tx \in Confirmed
    /\ \A i \in DOMAIN mpTodo : mpTodo[i].call = "remove" =>
          /\ \E j \in DOMAIN mpTodo : j > i /\ mpTodo[j] = Note("doubles", mpTodo[i].tx)
          /\ \A t \in Confirmed : Ins(t) \cap Outs(mpTodo[i].tx) # {} =>
                \E j \in DOMAIN mpTodo : j > i /\ mpTodo[j] = Note("remove", t)

\* Where an input of the pool can come from: the chain, the pool, or a pending call sees to it.
Supplied(o) ==
    \/ o \in Coins \/ \E p \in mpPool : o \in Outs(p)
    \/ \E x \in Pend("doubles") : o \in Ins(x)
    \/ \E x \in Pend("readd") : o \in Outs(x)
MpPlaces ==
    /\ mpPool \cap Confirmed \subseteq Pend("remove")
    /\ \A t \in mpPool : t \in Pend("remove") \/ \A o \in Ins(t) : Supplied(o)

\* What was read of the chain before it moved.
Read(o) ==
    \/ o \in Coins
    \/ \E x \in Pend("remove") : o \in Ins(x)
    \/ \E x \in Pend("readd") : o \in Outs(x)
MpRead == mpJob # Free /\ mpJob.call = "process" => \A o \in mpJob.coins : Read(o)

MpIInv ==
    /\ MpTypes /\ SpendsIndexed /\ OrphansIndexed /\ MpChainOK /\ MpOrder
    /\ mpSkipped \/ mpDropped \/ (MpPlaces /\ MpRead)

-----------------------------------------------------------------------------
(* Transactions and the graph of the pool *)

\* What the assumptions say of a transaction.
LEMMA MpTxFacts ==
    /\ IsFiniteSet(Tx) /\ NoTx \notin Tx
    /\ \A t \in Tx : /\ Ins(t) \in SUBSET TxOutPoint /\ Outs(t) \in SUBSET TxOutPoint /\ Ins(t) # {}
                     /\ IsFiniteSet(Outs(t)) /\ Outs(t) \cap BaseCoins = {}
    /\ \A t, u \in Tx : Outs(t) \cap Outs(u) # {} => t = u
BY MempoolAssumption DEF Ins, Outs

\* S with all that next leads to from it.
Grown(S, next) == S \cup UNION {next[t] : t \in S}

\* Reach finds a set with S in it that next does not lead out of.
LEMMA ReachFacts ==
    ASSUME NEW S \in SUBSET Tx, NEW next \in [Tx -> SUBSET Tx]
    PROVE  /\ S \subseteq Reach(S, next) /\ Reach(S, next) \in SUBSET Tx
           /\ \A x \in Reach(S, next) : next[x] \subseteq Reach(S, next)
           /\ \A W \in SUBSET Tx : S \subseteq W /\ (\A x \in W : next[x] \subseteq W) => Reach(S, next) \subseteq W
<1> DEFINE N == Cardinality(Tx)
           V == SUBSET Tx
           stp == [x \in (1..N) \X V |-> Grown(x[2], next)]
           Sol(f) == f = [n \in 0..N |-> IF n = 0 THEN S ELSE f[n - 1] \cup UNION {next[t] : t \in f[n - 1]}]
           g == CHOOSE f : Sol(f)
<1>f. IsFiniteSet(Tx) /\ N \in Nat /\ \A T \in V : IsFiniteSet(T) /\ Cardinality(T) \in Nat
  BY MpTxFacts, FS_CardinalityType, FS_Subset
<1>g. \A v \in V : Grown(v, next) \in V
  BY DEF Grown
<1>2. stp \in [(1..N) \X V -> V] /\ \A i \in 1..N, v \in V : stp[<<i, v>>] = Grown(v, next)
  BY <1>g
<1>3. PICK h : Iterates(h, S, stp, N)
  <2> HIDE DEF V, stp, N
  <2>1. S \in V
    BY DEF V
  <2> QED
    BY <1>f, <1>2, <2>1, IteratesExists
<1>4. \A i \in 0..N : h[i] \in V
  <2> HIDE DEF V, stp, N
  <2>1. S \in V
    BY DEF V
  <2>2. \A i \in 1..N, v \in V : stp[<<i, v>>] \in V
    BY <1>2, <1>g
  <2> QED
    BY <1>f, <2>1, <2>2, <1>3, IteratesIn
<1>5. \A i \in 0..N : i # 0 => i \in 1..N /\ i - 1 \in 0..N
  <2> HIDE DEF N
  <2> QED
    BY <1>f
<1>6. Sol(h)
  <2>1. \A i \in 0..N : i # 0 => stp[<<i, h[i - 1]>>] = h[i - 1] \cup UNION {next[t] : t \in h[i - 1]}
    <3> HIDE DEF V, stp, N
    <3> QED
      BY <1>2, <1>4, <1>5 DEF Grown
  <2> QED
    BY <1>3, <2>1 DEF Iterates
<1>7. Sol(g)
  <2> HIDE DEF Sol
  <2> QED
    BY <1>6
<1>8. Reach(S, next) = g[N]
  BY DEF Reach
<1> HIDE DEF g
<1>9. g[0] = S /\ \A n \in 0..N : n # 0 => g[n] = Grown(g[n - 1], next)
  <2> HIDE DEF N
  <2>1. 0 \in 0..N
    BY <1>f
  <2> QED
    BY <1>7, <2>1 DEF Grown
<1> HIDE DEF V, stp, Sol, N
<1>10. ASSUME NEW W, W \in SUBSET Tx, S \subseteq W, \A x \in W : next[x] \subseteq W
       PROVE  \A n \in 0..N : g[n] \subseteq W
  <2> DEFINE D == {n \in 0..N : g[n] \subseteq W}
  <2>1. 0 \in D
    BY <1>9, <1>10, <1>f
  <2>2. \A n \in 0..(N - 1) : n \in D => n + 1 \in D
    <3> SUFFICES ASSUME NEW n \in 0..(N - 1), g[n] \subseteq W PROVE n + 1 \in 0..N /\ g[n + 1] \subseteq W
      OBVIOUS
    <3>1. n + 1 \in 0..N /\ n + 1 # 0 /\ (n + 1) - 1 = n
      BY <1>f
    <3>2. g[n + 1] = Grown(g[n], next)
      BY <3>1, <1>9
    <3> QED
      BY <3>1, <3>2, <1>10 DEF Grown
  <2> HIDE DEF D
  <2>3. \A n \in 0..N : n \in D
    BY <2>1, <2>2, <1>f, InductionUpTo
  <2> QED
    BY <2>3 DEF D
<1>11. \A n \in 0..N : g[n] \in V
  <2>1. Tx \in SUBSET Tx /\ S \subseteq Tx /\ \A x \in Tx : next[x] \subseteq Tx
    OBVIOUS
  <2>2. \A n \in 0..N : g[n] \subseteq Tx
    BY <2>1, <1>10
  <2> QED
    BY <2>2 DEF V
<1>12. \A n \in 0..N : S \subseteq g[n] /\ (n <= Cardinality(g[n]) \/ Grown(g[n], next) = g[n])
  <2> DEFINE D == {n \in 0..N : S \subseteq g[n] /\ (n <= Cardinality(g[n]) \/ Grown(g[n], next) = g[n])}
  <2>1. 0 \in D
    <3>1. 0 \in 0..N
      BY <1>f
    <3>2. 0 <= Cardinality(g[0])
      BY <3>1, <1>11, <1>f
    <3> QED
      BY <3>1, <3>2, <1>9
  <2>2. ASSUME NEW n \in 0..(N - 1), n \in D PROVE n + 1 \in D
    <3>1. n + 1 \in 0..N /\ n + 1 # 0 /\ (n + 1) - 1 = n /\ n \in 0..N
      BY <1>f
    <3>2. g[n + 1] = Grown(g[n], next)
      BY <3>1, <1>9
    <3>3. g[n] \subseteq g[n + 1]
      BY <3>2 DEF Grown
    <3>4. CASE Grown(g[n], next) = g[n]
      BY <3>1, <3>2, <3>4, <2>2
    <3>5. CASE Grown(g[n], next) # g[n]
      <4>1. g[n] \in V /\ g[n + 1] \in V
        BY <3>1, <1>11
      <4>2. IsFiniteSet(g[n + 1]) /\ Cardinality(g[n]) \in Nat /\ Cardinality(g[n + 1]) \in Nat
        BY <4>1, <1>f
      <4>3. Cardinality(g[n]) < Cardinality(g[n + 1])
        BY <4>2, <3>2, <3>3, <3>5, FS_Subset
      <4>4. n <= Cardinality(g[n])
        BY <3>5, <2>2
      <4>5. n + 1 <= Cardinality(g[n + 1])
        BY <4>2, <4>3, <4>4
      <4> QED
        BY <4>5, <3>1, <3>3, <2>2
    <3> QED
      BY <3>4, <3>5
  <2> HIDE DEF D
  <2>3. \A n \in 0..N : n \in D
    BY <2>1, <2>2, <1>f, InductionUpTo
  <2> QED
    BY <2>3 DEF D
<1>n. N \in 0..N
  BY <1>f
<1>13. Grown(g[N], next) = g[N]
  <2>1. CASE N <= Cardinality(g[N])
    <3>1. g[N] \subseteq Tx /\ Cardinality(g[N]) \in Nat
      BY <1>n, <1>11, <1>f DEF V
    <3>2. Cardinality(g[N]) <= N
      BY <3>1, <1>f, FS_Subset DEF N
    <3>3. Cardinality(g[N]) = N
      BY <2>1, <3>1, <3>2, <1>f
    <3>4. g[N] = Tx
      BY <3>1, <3>3, <1>f, FS_Subset DEF N
    <3> QED
      BY <3>4 DEF Grown
  <2> QED
    BY <2>1, <1>12, <1>n
<1>14. \A x \in g[N] : next[x] \subseteq g[N]
  BY <1>13 DEF Grown
<1> QED
  BY <1>8, <1>10, <1>11, <1>12, <1>14, <1>n DEF V

-----------------------------------------------------------------------------
(* The tables *)

\* The four tables agree.
MpTablesOK ==
    /\ mpPool \subseteq Tx /\ outpoints \in [TxOutPoint -> Tx \cup {NoTx}]
    /\ DOMAIN mpOrphans \subseteq Tx /\ \A t \in DOMAIN mpOrphans : mpOrphans[t] \in PeerTag
    /\ orphansByPrev \in [TxOutPoint -> SUBSET Tx]
    /\ SpendsIndexed /\ OrphansIndexed

\* outpoints has the transaction of the pool that spends an output.
LEMMA MpSpender ==
    ASSUME MpTablesOK
    PROVE  /\ \A o \in TxOutPoint : outpoints[o] # NoTx => outpoints[o] \in mpPool /\ o \in Ins(outpoints[o])
           /\ \A t \in mpPool : \A o \in Ins(t) : o \in TxOutPoint /\ outpoints[o] = t /\ t # NoTx
<1>1. \A t \in mpPool : t \in Tx /\ t # NoTx /\ Ins(t) \subseteq TxOutPoint
  BY MpTxFacts DEF MpTablesOK
<1>2. ASSUME NEW o \in TxOutPoint, outpoints[o] # NoTx
      PROVE  outpoints[o] \in mpPool /\ o \in Ins(outpoints[o])
  <2>1. {t \in mpPool : o \in Ins(t)} = {outpoints[o]}
    BY <1>2 DEF MpTablesOK, SpendsIndexed
  <2> QED
    BY <2>1
<1>3. ASSUME NEW t \in mpPool, NEW o \in Ins(t) PROVE outpoints[o] = t
  <2>1. o \in TxOutPoint /\ t \in {u \in mpPool : o \in Ins(u)}
    BY <1>1
  <2>2. {u \in mpPool : o \in Ins(u)} = IF outpoints[o] = NoTx THEN {} ELSE {outpoints[o]}
    BY <2>1 DEF MpTablesOK, SpendsIndexed
  <2> QED
    BY <2>1, <2>2
<1> QED
  BY <1>1, <1>2, <1>3

\* Agreement of the pool with outpoints, from its two halves.
LEMMA MpIndexed ==
    ASSUME \A o \in TxOutPoint : outpoints'[o] # NoTx => outpoints'[o] \in mpPool' /\ o \in Ins(outpoints'[o]),
           \A t \in mpPool' : \A o \in Ins(t) : outpoints'[o] = t /\ t # NoTx
    PROVE  SpendsIndexed'
<1> SUFFICES ASSUME NEW o \in TxOutPoint
             PROVE  {t \in mpPool' : o \in Ins(t)} = IF outpoints'[o] = NoTx THEN {} ELSE {outpoints'[o]}
  BY DEF SpendsIndexed, Ins
<1>1. CASE outpoints'[o] = NoTx
  BY <1>1
<1>2. CASE outpoints'[o] # NoTx
  <2>1. \A t \in mpPool' : o \in Ins(t) <=> t = outpoints'[o]
    BY <1>2
  <2>2. outpoints'[o] \in mpPool'
    BY <1>2
  <2> QED
    BY <1>2, <2>1, <2>2
<1> QED
  BY <1>1, <1>2

\* The redeemers of a transaction are in the pool.
LEMMA MpRedeemers ==
    ASSUME MpTablesOK
    PROVE  /\ \A t \in Tx : Redeemers(t) \subseteq mpPool /\ Spenders(t) \subseteq mpPool
           /\ \A t \in Tx, u \in mpPool : Outs(t) \cap Ins(u) # {} => u \in Redeemers(t)
           /\ \A t \in Tx, u \in mpPool : Ins(t) \cap Ins(u) # {} => u \in Spenders(t)
<1>1. \A t \in Tx : Ins(t) \subseteq TxOutPoint /\ Outs(t) \subseteq TxOutPoint
  BY MpTxFacts
<1> QED
  BY <1>1, MpSpender DEF Redeemers, Spenders

\* The descendants of a transaction: all of them, and all in the pool.
LEMMA MpDescendants ==
    ASSUME MpTablesOK
    PROVE  \A t \in Tx : /\ TxDescendants(t) \subseteq mpPool /\ Redeemers(t) \subseteq TxDescendants(t)
                         /\ \A x \in TxDescendants(t) : Redeemers(x) \subseteq TxDescendants(t)
<1> SUFFICES ASSUME NEW t \in Tx
             PROVE  /\ TxDescendants(t) \subseteq mpPool /\ Redeemers(t) \subseteq TxDescendants(t)
                    /\ \A x \in TxDescendants(t) : Redeemers(x) \subseteq TxDescendants(t)
  OBVIOUS
<1>1. PICK next : next = [u \in Tx |-> Redeemers(u)]
  OBVIOUS
<1>2. mpPool \in SUBSET Tx
  BY DEF MpTablesOK
<1>3. \A u \in Tx : Redeemers(u) \subseteq mpPool
  BY MpRedeemers
<1>4. next \in [Tx -> SUBSET Tx] /\ \A u \in Tx : next[u] = Redeemers(u)
  BY <1>1, <1>2, <1>3
<1>5. TxDescendants(t) = Reach(Redeemers(t), next)
  BY <1>1 DEF TxDescendants
<1>6. Redeemers(t) \in SUBSET Tx /\ Redeemers(t) \subseteq mpPool /\ \A x \in mpPool : next[x] \subseteq mpPool
  BY <1>2, <1>3, <1>4
<1>7. PICK R : R = Reach(Redeemers(t), next)
  OBVIOUS
<1>8. /\ Redeemers(t) \subseteq R /\ R \in SUBSET Tx /\ \A x \in R : next[x] \subseteq R
      /\ \A W \in SUBSET Tx : Redeemers(t) \subseteq W /\ (\A x \in W : next[x] \subseteq W) => R \subseteq W
  BY <1>4, <1>6, <1>7, ReachFacts
<1>9. R \subseteq mpPool
  BY <1>2, <1>6, <1>8
<1>10. \A x \in R : Redeemers(x) \subseteq R
  BY <1>4, <1>8
<1> QED
  BY <1>5, <1>7, <1>8, <1>9, <1>10

\* A set of transactions of the pool with all that spend their outputs.
Whole(S) == S \subseteq mpPool /\ \A x \in S : \A u \in mpPool : Outs(x) \cap Ins(u) # {} => u \in S

\* The transactions that a new one replaces, and those that go with a double spend.
LEMMA MpConflicts ==
    ASSUME MpTablesOK, NEW t \in Tx
    PROVE  /\ Whole(TxConflicts(t)) /\ Spenders(t) \subseteq TxConflicts(t)
           /\ Whole(UNION {WithRedeemers(c) : c \in Spenders(t) \ {t}})
           /\ Spenders(t) \ {t} \subseteq UNION {WithRedeemers(c) : c \in Spenders(t) \ {t}}
           /\ Whole(WithRedeemers(t) \cap mpPool)
           /\ \A u \in mpPool : Outs(t) \cap Ins(u) # {} => u \in WithRedeemers(t)
<1>p. mpPool \subseteq Tx
  BY DEF MpTablesOK
<1>1. \A x \in Tx : /\ TxDescendants(x) \subseteq mpPool /\ Redeemers(x) \subseteq TxDescendants(x)
                    /\ \A y \in TxDescendants(x) : Redeemers(y) \subseteq TxDescendants(x)
  BY MpDescendants
<1>2. /\ \A x \in Tx : Redeemers(x) \subseteq mpPool /\ Spenders(x) \subseteq mpPool
      /\ \A x \in Tx, u \in mpPool : Outs(x) \cap Ins(u) # {} => u \in Redeemers(x)
  BY MpRedeemers
<1>3. \A x \in Tx, u \in mpPool : Outs(x) \cap Ins(u) # {} => u \in TxDescendants(x)
  BY <1>1, <1>2
<1>4. \A c \in Tx, x \in mpPool, u \in mpPool : x \in TxDescendants(c) /\ Outs(x) \cap Ins(u) # {} => u \in TxDescendants(c)
  BY <1>p, <1>1, <1>2
<1>5. Whole(TxConflicts(t)) /\ Spenders(t) \subseteq TxConflicts(t)
  BY <1>p, <1>1, <1>2, <1>3, <1>4 DEF Whole, TxConflicts
<1>6. Whole(UNION {WithRedeemers(c) : c \in Spenders(t) \ {t}})
  BY <1>p, <1>1, <1>2, <1>3, <1>4 DEF Whole, WithRedeemers
<1>7. Spenders(t) \ {t} \subseteq UNION {WithRedeemers(c) : c \in Spenders(t) \ {t}}
  BY DEF WithRedeemers
<1>8. Whole(WithRedeemers(t) \cap mpPool)
  BY <1>p, <1>1, <1>2, <1>3, <1>4 DEF Whole, WithRedeemers
<1>9. \A u \in mpPool : Outs(t) \cap Ins(u) # {} => u \in WithRedeemers(t)
  BY <1>3 DEF WithRedeemers
<1> QED
  BY <1>5, <1>6, <1>7, <1>8, <1>9

\* removeTransaction of the transactions S keeps the tables in agreement.
LEMMA MpRemove ==
    ASSUME MpTablesOK, NEW S, RemoveTransactions(S)
    PROVE  MpTablesOK'
<1>1. mpPool' = mpPool \ S /\ UNCHANGED <<mpOrphans, orphansByPrev>> /\ outpoints' = Unspend(S \cap mpPool)
  BY DEF RemoveTransactions
<1>2. outpoints \in [TxOutPoint -> Tx \cup {NoTx}]
  BY DEF MpTablesOK
<1>3. /\ outpoints' \in [TxOutPoint -> Tx \cup {NoTx}]
      /\ \A o \in TxOutPoint : (\E t \in S \cap mpPool : o \in Ins(t)) => outpoints'[o] = NoTx
      /\ \A o \in TxOutPoint : ~(\E t \in S \cap mpPool : o \in Ins(t)) => outpoints'[o] = outpoints[o]
  BY <1>1, <1>2 DEF Unspend
<1>4. SpendsIndexed'
  <2>1. \A o \in TxOutPoint : outpoints'[o] # NoTx => outpoints'[o] \in mpPool' /\ o \in Ins(outpoints'[o])
    <3> SUFFICES ASSUME NEW o \in TxOutPoint, outpoints'[o] # NoTx
                 PROVE  outpoints'[o] \in mpPool' /\ o \in Ins(outpoints'[o])
      OBVIOUS
    <3>1. outpoints'[o] = outpoints[o] /\ ~(\E t \in S \cap mpPool : o \in Ins(t))
      BY <1>3
    <3>2. outpoints[o] \in mpPool /\ o \in Ins(outpoints[o])
      BY <3>1, MpSpender
    <3> QED
      BY <1>1, <3>1, <3>2
  <2>2. \A t \in mpPool' : \A o \in Ins(t) : outpoints'[o] = t /\ t # NoTx
    <3> SUFFICES ASSUME NEW t \in mpPool', NEW o \in Ins(t) PROVE outpoints'[o] = t /\ t # NoTx
      OBVIOUS
    <3>1. t \in mpPool /\ t \notin S
      BY <1>1
    <3>2. o \in TxOutPoint /\ outpoints[o] = t /\ t # NoTx
      BY <3>1, MpSpender
    <3>3. ~\E u \in S \cap mpPool : o \in Ins(u)
      <4> SUFFICES ASSUME NEW u \in S \cap mpPool, o \in Ins(u) PROVE FALSE
        OBVIOUS
      <4>1. outpoints[o] = u
        BY MpSpender
      <4> QED
        BY <4>1, <3>1, <3>2
    <3> QED
      BY <3>2, <3>3, <1>3
  <2> QED
    BY <2>1, <2>2, MpIndexed
<1>5. OrphansIndexed'
  BY <1>1 DEF MpTablesOK, OrphansIndexed
<1> QED
  BY <1>1, <1>3, <1>4, <1>5 DEF MpTablesOK

\* The same of removeOrphan.
LEMMA MpRemoveOrphans ==
    ASSUME MpTablesOK, NEW S, RemoveOrphans(S)
    PROVE  MpTablesOK' /\ UNCHANGED <<mpPool, outpoints>>
<1>1. /\ mpOrphans' = [t \in DOMAIN mpOrphans \ S |-> mpOrphans[t]] /\ UNCHANGED <<mpPool, outpoints>>
      /\ orphansByPrev' = [o \in TxOutPoint |-> orphansByPrev[o] \ (S \cap DOMAIN mpOrphans)]
  BY DEF RemoveOrphans, WithoutOrphans
<1>2. /\ DOMAIN mpOrphans \subseteq Tx /\ \A t \in DOMAIN mpOrphans : mpOrphans[t] \in PeerTag
      /\ orphansByPrev \in [TxOutPoint -> SUBSET Tx]
      /\ \A o \in TxOutPoint : orphansByPrev[o] = {t \in DOMAIN mpOrphans : o \in Ins(t)}
      /\ Cardinality(DOMAIN mpOrphans) <= MaxOrphanTxs /\ DOMAIN mpOrphans \cap mpPool = {}
  BY DEF MpTablesOK, OrphansIndexed
<1>3. DOMAIN mpOrphans' = DOMAIN mpOrphans \ S /\ \A t \in DOMAIN mpOrphans' : mpOrphans'[t] \in PeerTag
  BY <1>1, <1>2
<1>4. Cardinality(DOMAIN mpOrphans') <= MaxOrphanTxs
  <2>1. IsFiniteSet(DOMAIN mpOrphans) /\ DOMAIN mpOrphans' \subseteq DOMAIN mpOrphans
    BY <1>2, <1>3, MpTxFacts, FS_Subset
  <2>2. /\ Cardinality(DOMAIN mpOrphans') <= Cardinality(DOMAIN mpOrphans)
        /\ Cardinality(DOMAIN mpOrphans') \in Nat /\ Cardinality(DOMAIN mpOrphans) \in Nat
    BY <2>1, FS_Subset, FS_CardinalityType
  <2> QED
    BY <2>2, <1>2, MempoolAssumption
<1>5. /\ orphansByPrev' \in [TxOutPoint -> SUBSET Tx]
      /\ \A o \in TxOutPoint : orphansByPrev'[o] = {t \in DOMAIN mpOrphans' : o \in Ins(t)}
  BY <1>1, <1>2, <1>3
<1>6. OrphansIndexed'
  BY <1>1, <1>2, <1>3, <1>4, <1>5 DEF OrphansIndexed, Ins
<1>7. SpendsIndexed'
  BY <1>1 DEF MpTablesOK, SpendsIndexed
<1> QED
  BY <1>1, <1>2, <1>3, <1>5, <1>6, <1>7 DEF MpTablesOK

\* The same of maybeAddOrphan, which keeps to the limit.
LEMMA MpAddOrphan ==
    ASSUME MpTablesOK, NEW t \in Tx, NEW tag \in PeerTag, NEW S, AddOrphan(t, tag, S),
           t \notin mpPool, t \notin DOMAIN mpOrphans
    PROVE  MpTablesOK' /\ UNCHANGED <<mpPool, outpoints>>
<1>1. CASE MaxOrphanTxs = 0
  <2>1. UNCHANGED <<mpPool, outpoints, mpOrphans, orphansByPrev>>
    BY <1>1 DEF AddOrphan, mpTables
  <2> QED
    BY <2>1 DEF MpTablesOK, SpendsIndexed, OrphansIndexed
<1>2. CASE MaxOrphanTxs # 0
  <2>1. PICK gone : gone = OrphanFamily(S)
    OBVIOUS
  <2>2. PICK kept : kept = DOMAIN mpOrphans \ gone
    OBVIOUS
  <2>3. PICK evicted \in LimitNumOrphans(kept) :
           /\ mpOrphans' = [u \in (kept \ evicted) \cup {t} |-> IF u = t THEN tag ELSE mpOrphans[u]]
           /\ orphansByPrev' = [o \in TxOutPoint |->
                   WithoutOrphans(gone \cup evicted)[o] \cup (IF o \in Ins(t) THEN {t} ELSE {})]
           /\ UNCHANGED <<mpPool, outpoints>>
    BY <1>2, <2>1, <2>2 DEF AddOrphan
  <2>4. /\ DOMAIN mpOrphans \subseteq Tx /\ \A u \in DOMAIN mpOrphans : mpOrphans[u] \in PeerTag
        /\ orphansByPrev \in [TxOutPoint -> SUBSET Tx]
        /\ \A o \in TxOutPoint : orphansByPrev[o] = {u \in DOMAIN mpOrphans : o \in Ins(u)}
        /\ Cardinality(DOMAIN mpOrphans) <= MaxOrphanTxs /\ DOMAIN mpOrphans \cap mpPool = {}
    BY DEF MpTablesOK, OrphansIndexed
  <2>5. /\ DOMAIN mpOrphans' = (kept \ evicted) \cup {t}
        /\ \A u \in DOMAIN mpOrphans' : mpOrphans'[u] \in PeerTag
    BY <2>2, <2>3, <2>4
  <2>6. \A o \in TxOutPoint : WithoutOrphans(gone \cup evicted)[o] = orphansByPrev[o] \ (gone \cup evicted)
    BY DEF WithoutOrphans
  <2>7. \A o \in TxOutPoint : /\ orphansByPrev'[o] = (orphansByPrev[o] \ (gone \cup evicted)) \cup (IF o \in Ins(t) THEN {t} ELSE {})
                              /\ orphansByPrev'[o] \in SUBSET Tx
    BY <2>3, <2>4, <2>6
  <2>8. /\ orphansByPrev' \in [TxOutPoint -> SUBSET Tx]
        /\ \A o \in TxOutPoint : orphansByPrev'[o] = {u \in DOMAIN mpOrphans' : o \in Ins(u)}
    <3>1. \A o \in TxOutPoint : orphansByPrev'[o] = {u \in DOMAIN mpOrphans' : o \in Ins(u)}
      <4> SUFFICES ASSUME NEW o \in TxOutPoint, NEW u
                   PROVE  u \in orphansByPrev'[o] <=> (u \in DOMAIN mpOrphans' /\ o \in Ins(u))
        OBVIOUS
      <4>1. u \in orphansByPrev[o] <=> (u \in DOMAIN mpOrphans /\ o \in Ins(u))
        BY <2>4
      <4>2. u \in orphansByPrev'[o] <=> ((u \in orphansByPrev[o] /\ u \notin gone /\ u \notin evicted) \/ (o \in Ins(t) /\ u = t))
        BY <2>7
      <4> QED
        BY <4>1, <4>2, <2>2, <2>5
    <3>2. orphansByPrev' = [o \in TxOutPoint |-> orphansByPrev'[o]]
      BY <2>3
    <3> QED
      BY <2>7, <3>1, <3>2
  <2>9. Cardinality(DOMAIN mpOrphans') <= MaxOrphanTxs
    <3>1. IsFiniteSet(DOMAIN mpOrphans) /\ IsFiniteSet(kept) /\ kept \subseteq DOMAIN mpOrphans
      BY <2>2, <2>4, MpTxFacts, FS_Subset
    <3>2. /\ Cardinality(kept) <= Cardinality(DOMAIN mpOrphans)
          /\ Cardinality(kept) \in Nat /\ Cardinality(DOMAIN mpOrphans) \in Nat
      BY <3>1, FS_Subset, FS_CardinalityType
    <3>3. MaxOrphanTxs \in Nat /\ Cardinality(kept) <= MaxOrphanTxs
      BY <3>2, <2>4, MempoolAssumption
    <3>4. t \notin kept
      BY <2>2
    <3>5. CASE Cardinality(kept) + 1 <= MaxOrphanTxs
      <4>1. evicted = {}
        BY <3>5, <2>3 DEF LimitNumOrphans
      <4>2. DOMAIN mpOrphans' = kept \cup {t}
        BY <4>1, <2>5
      <4>3. Cardinality(kept \cup {t}) = Cardinality(kept) + 1
        BY <3>1, <3>4, FS_AddElement
      <4> QED
        BY <4>2, <4>3, <3>5
    <3>6. CASE ~(Cardinality(kept) + 1 <= MaxOrphanTxs)
      <4>1. PICK e \in kept : evicted = {e}
        BY <3>6, <2>3 DEF LimitNumOrphans
      <4>2. IsFiniteSet(kept \ {e}) /\ Cardinality(kept \ {e}) = Cardinality(kept) - 1
        BY <3>1, FS_RemoveElement
      <4>3. DOMAIN mpOrphans' = (kept \ {e}) \cup {t} /\ t \notin kept \ {e}
        BY <4>1, <2>5, <3>4
      <4>4. Cardinality((kept \ {e}) \cup {t}) = Cardinality(kept \ {e}) + 1
        BY <4>2, <4>3, FS_AddElement
      <4> QED
        BY <4>2, <4>3, <4>4, <3>2, <3>3
    <3> QED
      BY <3>5, <3>6
  <2>10. OrphansIndexed'
    <3>1. DOMAIN mpOrphans' \cap mpPool' = {}
      BY <2>2, <2>3, <2>4, <2>5
    <3> QED
      BY <3>1, <2>8, <2>9 DEF OrphansIndexed, Ins
  <2>11. SpendsIndexed'
    BY <2>3 DEF MpTablesOK, SpendsIndexed
  <2> QED
    BY <2>2, <2>3, <2>4, <2>5, <2>8, <2>10, <2>11 DEF MpTablesOK
<1> QED
  BY <1>1, <1>2

\* The transactions that an accepted one drives out.
Evicted(t) == IF Spenders(t) = {} THEN {} ELSE TxConflicts(t)

\* The evicted ones are all that spend an input of the new one, with all that spend theirs.
LEMMA MpEvicted ==
    ASSUME MpTablesOK, NEW t \in Tx
    PROVE  Whole(Evicted(t)) /\ \A u \in mpPool : Ins(t) \cap Ins(u) # {} => u \in Evicted(t)
<1>1. Whole(TxConflicts(t)) /\ Spenders(t) \subseteq TxConflicts(t)
  BY MpConflicts
<1>2. \A u \in mpPool : Ins(t) \cap Ins(u) # {} => u \in Spenders(t)
  BY MpRedeemers
<1> QED
  BY <1>1, <1>2 DEF Evicted, Whole

\* The same of the acceptance of a transaction.
LEMMA MpAdd ==
    ASSUME MpTablesOK, NEW t \in Tx, NEW S, AddTransaction(t, S), t \notin mpPool,
           S \subseteq {t}, t \in DOMAIN mpOrphans => t \in S
    PROVE  MpTablesOK' /\ mpPool' = (mpPool \ Evicted(t)) \cup {t}
<1>1. /\ mpPool' = (mpPool \ Evicted(t)) \cup {t}
      /\ outpoints' = [o \in TxOutPoint |-> IF o \in Ins(t) THEN t ELSE Unspend(Evicted(t))[o]]
      /\ mpOrphans' = [u \in DOMAIN mpOrphans \ S |-> mpOrphans[u]]
      /\ orphansByPrev' = [o \in TxOutPoint |-> orphansByPrev[o] \ S]
  BY DEF AddTransaction, Tables, Evicted, WithoutOrphans
<1>2. Evicted(t) \subseteq mpPool /\ \A u \in mpPool : Ins(t) \cap Ins(u) # {} => u \in Evicted(t)
  BY MpEvicted DEF Whole
<1>3. outpoints \in [TxOutPoint -> Tx \cup {NoTx}] /\ mpPool \subseteq Tx
  BY DEF MpTablesOK
<1>4. \A o \in TxOutPoint : Unspend(Evicted(t))[o] = IF \E u \in Evicted(t) : o \in Ins(u) THEN NoTx ELSE outpoints[o]
  BY DEF Unspend
<1>5. /\ outpoints' \in [TxOutPoint -> Tx \cup {NoTx}]
      /\ \A o \in TxOutPoint : o \in Ins(t) => outpoints'[o] = t
      /\ \A o \in TxOutPoint : o \notin Ins(t) /\ (\E u \in Evicted(t) : o \in Ins(u)) => outpoints'[o] = NoTx
      /\ \A o \in TxOutPoint : o \notin Ins(t) /\ ~(\E u \in Evicted(t) : o \in Ins(u)) => outpoints'[o] = outpoints[o]
  BY <1>1, <1>3, <1>4
<1>6. SpendsIndexed'
  <2>0. t # NoTx /\ \A u \in Tx : Ins(u) \subseteq TxOutPoint
    BY MpTxFacts
  <2>1. ASSUME NEW o \in TxOutPoint, outpoints'[o] # NoTx PROVE outpoints'[o] \in mpPool' /\ o \in Ins(outpoints'[o])
    BY <1>1, <1>5, <2>0, <2>1, MpSpender
  <2>2. ASSUME NEW u \in mpPool', NEW o \in Ins(u) PROVE outpoints'[o] = u /\ u # NoTx
    <3>1. CASE u = t
      BY <3>1, <1>5, <2>0, <2>2
    <3>2. CASE u # t
      <4>1. u \in mpPool /\ u \notin Evicted(t) /\ o \in TxOutPoint
        BY <3>2, <1>1, <1>3, <2>0, <2>2
      <4>2. o \notin Ins(t)
        BY <4>1, <1>2, <2>2
      <4>3. outpoints[o] = u /\ u # NoTx
        BY <4>1, <2>2, MpSpender
      <4>4. ~\E v \in Evicted(t) : o \in Ins(v)
        BY <4>1, <4>3, <1>2, MpSpender
      <4> QED
        BY <4>1, <4>2, <4>3, <4>4, <1>5
    <3> QED
      BY <3>1, <3>2
  <2> QED
    BY <2>1, <2>2, MpIndexed
<1>7. /\ DOMAIN mpOrphans \subseteq Tx /\ \A u \in DOMAIN mpOrphans : mpOrphans[u] \in PeerTag
      /\ orphansByPrev \in [TxOutPoint -> SUBSET Tx]
      /\ \A o \in TxOutPoint : orphansByPrev[o] = {u \in DOMAIN mpOrphans : o \in Ins(u)}
      /\ Cardinality(DOMAIN mpOrphans) <= MaxOrphanTxs /\ DOMAIN mpOrphans \cap mpPool = {}
  BY DEF MpTablesOK, OrphansIndexed
<1>8. DOMAIN mpOrphans' = DOMAIN mpOrphans \ S /\ \A u \in DOMAIN mpOrphans' : mpOrphans'[u] \in PeerTag
  BY <1>1, <1>7
<1>9. Cardinality(DOMAIN mpOrphans') <= MaxOrphanTxs
  <2>1. IsFiniteSet(DOMAIN mpOrphans) /\ DOMAIN mpOrphans' \subseteq DOMAIN mpOrphans
    BY <1>7, <1>8, MpTxFacts, FS_Subset
  <2>2. /\ Cardinality(DOMAIN mpOrphans') <= Cardinality(DOMAIN mpOrphans)
        /\ Cardinality(DOMAIN mpOrphans') \in Nat /\ Cardinality(DOMAIN mpOrphans) \in Nat
    BY <2>1, FS_Subset, FS_CardinalityType
  <2> QED
    BY <2>2, <1>7, MempoolAssumption
<1>10. /\ orphansByPrev' \in [TxOutPoint -> SUBSET Tx]
       /\ \A o \in TxOutPoint : orphansByPrev'[o] = {u \in DOMAIN mpOrphans' : o \in Ins(u)}
  BY <1>1, <1>7, <1>8
<1>11. DOMAIN mpOrphans' \cap mpPool' = {}
  BY <1>1, <1>7, <1>8
<1>12. OrphansIndexed'
  BY <1>9, <1>10, <1>11 DEF OrphansIndexed, Ins
<1> QED
  BY <1>1, <1>3, <1>5, <1>6, <1>7, <1>8, <1>10, <1>12 DEF MpTablesOK

-----------------------------------------------------------------------------
(* The verdict, fees and types *)

\* What a verdict says of the transaction.
LEMMA MpVerdict ==
    ASSUME NEW t, NEW coins, NEW isNew, NEW limit, NEW dup \in BOOLEAN
    PROVE  /\ CheckMempoolAcceptance(t, coins, isNew, limit, dup) # "reject" =>
                 t \notin mpPool /\ (dup => t \notin DOMAIN mpOrphans)
           /\ CheckMempoolAcceptance(t, coins, isNew, limit, dup) = "ok" =>
                 MissingParents(t, coins) = {} /\ (Spenders(t) # {} => ValidateReplacement(t))
           /\ CheckMempoolAcceptance(t, coins, isNew, limit, dup) \in {"ok", "reject", "missing"}
BY DEF CheckMempoolAcceptance

\* The fee of each transaction.
Fees == [t \in Tx |-> MpTx[t].fee]

\* The sum of the fees as the model writes it.
LEMMA SumFeesIsSum == \A S \in SUBSET Tx : SumFees(S) = SumOf(Fees, S)
<1> SUFFICES ASSUME NEW S \in SUBSET Tx PROVE SumFees(S) = SumOf(Fees, S)
  OBVIOUS
<1> DEFINE F(g) == [s \in SUBSET S |->
                      IF s = {} THEN 0
                      ELSE MpTx[CHOOSE x \in s : TRUE].fee + g[s \ {CHOOSE x \in s : TRUE}]]
<1> DEFINE it == CHOOSE g : g = F(g)
<1>0. IsFiniteSet(S)
  BY MpTxFacts, FS_Subset
<1>1. SumFees(S) = it[S]
  BY DEF SumFees, MapThenSumSet, MapThenFoldSet
<1>2. \A s \in SUBSET S : s # {} => Fees[Pick(s)] = MpTx[CHOOSE x \in s : TRUE].fee
  BY PickIn DEF Pick, Fees
<1>3. \A g : Adds(g, Fees, SUBSET S) <=> g = F(g)
  BY <1>2 DEF Adds, Pick
<1>4. \E g : Adds(g, Fees, SUBSET S)
  BY <1>0, AddsExists
<1>5. it = F(it)
  <2> HIDE DEF F
  <2> QED
    BY <1>3, <1>4
<1>6. Adds(it, Fees, SUBSET S)
  <2> HIDE DEF it, F
  <2> QED
    BY <1>3, <1>5
<1> HIDE DEF it, F
<1>7. SumOf(Fees, S) = it[S]
  BY <1>0, <1>6, SumOfAdds
<1> QED
  BY <1>1, <1>7

\* The least fee is a number.
LEMMA MinFeeType == \A t \in Tx : CalcMinRequiredTxRelayFee(MpTx[t].size) \in Nat
<1> SUFFICES ASSUME NEW t \in Tx, NEW z \in Nat, z = MpTx[t].size PROVE CalcMinRequiredTxRelayFee(z) \in Nat
  BY MempoolAssumption
<1>1. MinRelayTxFee \in Nat /\ z * MinRelayTxFee \in Nat
  BY MempoolAssumption
<1>2. (z * MinRelayTxFee) \div 1000 \in Nat
  BY <1>1
<1> QED
  BY <1>1, <1>2 DEF CalcMinRequiredTxRelayFee, MaxSatoshi

\* A transaction that is accepted pays for all that it drives out.
LEMMA MpFees ==
    ASSUME MpTablesOK, NEW t \in Tx, t \notin mpPool, Spenders(t) # {} => ValidateReplacement(t),
           mpPool' = (mpPool \ Evicted(t)) \cup {t}
    PROVE  SumFees(mpPool') >= SumFees(mpPool)
<1>1. Evicted(t) \subseteq mpPool /\ mpPool \subseteq Tx
  BY MpEvicted DEF Whole, MpTablesOK
<1>2. \A x \in Tx : Fees[x] = MpTx[x].fee /\ Fees[x] \in Nat
  BY MempoolAssumption DEF Fees
<1>3. \A S \in SUBSET Tx : IsFiniteSet(S) /\ SumOf(Fees, S) \in Nat
  <2> TAKE S \in SUBSET Tx
  <2>1. IsFiniteSet(S) /\ \A x \in S : Fees[x] \in Nat
    BY MpTxFacts, FS_Subset, <1>2
  <2> QED
    BY <2>1, SumOfType
<1>4. PICK K : K = mpPool \ Evicted(t)
  OBVIOUS
<1>5. SumOf(Fees, mpPool) = SumOf(Fees, Evicted(t)) + SumOf(Fees, K)
  <2>1. IsFiniteSet(mpPool) /\ \A x \in mpPool : Fees[x] \in Int
    BY <1>1, <1>2, <1>3
  <2> QED
    BY <2>1, <1>1, <1>4, SumOfSplit
<1>6. SumOf(Fees, mpPool') = Fees[t] + SumOf(Fees, K)
  <2>1. mpPool' \in SUBSET Tx /\ t \in mpPool' /\ mpPool' \ {t} = K
    BY <1>1, <1>4
  <2>2. IsFiniteSet(mpPool') /\ \A x \in mpPool' : Fees[x] \in Int
    BY <2>1, <1>2, <1>3
  <2> QED
    BY <2>1, <2>2, SumOfTake
<1>7. Fees[t] >= SumOf(Fees, Evicted(t))
  <2>1. CASE Spenders(t) = {}
    <3>1. SumOf(Fees, Evicted(t)) = 0
      BY <2>1, SumOfEmpty DEF Evicted
    <3> QED
      BY <3>1, <1>2
  <2>2. CASE Spenders(t) # {}
    <3>1. Evicted(t) = TxConflicts(t) /\ MpTx[t].fee >= SumFees(TxConflicts(t)) + CalcMinRequiredTxRelayFee(MpTx[t].size)
      BY <2>2 DEF Evicted, ValidateReplacement
    <3>2. SumFees(TxConflicts(t)) = SumOf(Fees, Evicted(t)) /\ SumOf(Fees, Evicted(t)) \in Nat
      BY <3>1, <1>1, <1>3, SumFeesIsSum
    <3>3. CalcMinRequiredTxRelayFee(MpTx[t].size) \in Nat
      BY MinFeeType
    <3> QED
      BY <3>1, <3>2, <3>3, <1>2
  <2> QED
    BY <2>1, <2>2
<1>8. /\ SumOf(Fees, K) \in Nat /\ SumOf(Fees, Evicted(t)) \in Nat /\ Fees[t] \in Nat
      /\ SumFees(mpPool) = SumOf(Fees, mpPool) /\ SumFees(mpPool') = SumOf(Fees, mpPool')
  <2>1. K \in SUBSET Tx /\ Evicted(t) \in SUBSET Tx /\ mpPool \in SUBSET Tx /\ mpPool' \in SUBSET Tx
    BY <1>1, <1>4
  <2> QED
    BY <2>1, <1>2, <1>3, SumFeesIsSum
<1> QED
  BY <1>5, <1>6, <1>7, <1>8

\* The outputs of a transaction in some order.
LEMMA OutsInOrder == \A t \in Tx : SetToSeq(Outs(t)) \in Seq(TxOutPoint)
<1> SUFFICES ASSUME NEW t \in Tx PROVE SetToSeq(Outs(t)) \in Seq(TxOutPoint)
  OBVIOUS
<1>1. PICK S : S = Outs(t)
  OBVIOUS
<1>2. IsFiniteSet(S) /\ S \subseteq TxOutPoint
  BY <1>1, MpTxFacts
<1>3. Cardinality(S) \in Nat /\ \E f \in [1..Cardinality(S) -> S] : IsInjective(f)
  BY <1>2, FS_CardinalityType DEF ExistsBijection, Bijection, Injection
<1>4. SetToSeq(S) \in [1..Cardinality(S) -> S]
  BY <1>3 DEF SetToSeq
<1> QED
  BY <1>1, <1>2, <1>3, <1>4

\* The types of all but the tables.
MpRest ==
    /\ pennyTotal \in Nat /\ mpMoves \in 0..MaxChainMoves
    /\ MpJobOK /\ mpTodo \in Seq([call : NoteCalls, tx : Tx]) /\ mpChain \in Seq(Seq(Tx))
    /\ mpCurrent \in BOOLEAN /\ mpSkipped \in BOOLEAN /\ mpDropped \in BOOLEAN

\* The two parts of the types.
LEMMA MpParts == (MpTypes /\ SpendsIndexed /\ OrphansIndexed) <=> (MpTablesOK /\ MpRest)
BY DEF MpTypes, MempoolTypeOK, MpTablesOK, MpRest

\* The kinds of job.
LEMMA MpJobs ==
    ASSUME MpJobOK
    PROVE  /\ mpJob # Free /\ mpJob.call = "process" => mpJob \in ProcessJobs /\ (mpJob.who = "sync" => mpJob.tag \in PeerTag)
           /\ mpJob # Free /\ mpJob.call = "orphans" => mpJob \in OrphanJobs
BY DEF MpJobOK, ProcessJobs, OrphanJobs

\* Unchanged tables agree as before.
LEMMA MpSameTables == ASSUME MpTablesOK, UNCHANGED mpTables PROVE MpTablesOK' /\ mpPool' = mpPool
BY DEF MpTablesOK, mpTables, SpendsIndexed, OrphansIndexed

\* The limiter's total is a number.
LEMMA PennyType ==
    ASSUME pennyTotal \in Nat, NEW t \in Tx, NEW c, NEW isNew, NEW limit, NEW dup
    PROVE  Penny(t, c, isNew, limit, dup) \in Nat
BY MempoolAssumption DEF Penny

\* What is unspent are outputs.
LEMMA CoinsType == ASSUME mpChain \in Seq(Seq(Tx)) PROVE Coins \in SUBSET TxOutPoint /\ Confirmed \in SUBSET Tx
<1>1. Confirmed \in SUBSET Tx
  <2>1. \A i \in DOMAIN mpChain : mpChain[i] \in Seq(Tx)
    OBVIOUS
  <2>2. \A i \in DOMAIN mpChain : Range(mpChain[i]) \subseteq Tx
    BY <2>1, RangeIn
  <2> QED
    BY <2>2 DEF Confirmed
<1>2. Coins \in SUBSET TxOutPoint
  <2>1. BaseCoins \subseteq TxOutPoint /\ \A t \in Tx : Outs(t) \subseteq TxOutPoint
    BY MempoolAssumption, MpTxFacts
  <2> QED
    BY <1>1, <2>1 DEF Coins
<1> QED
  BY <1>1, <1>2

\* What a step that takes a transaction does to the pool: nothing, or it accepts t.
Accepts(t, coins) ==
    /\ t \in Tx /\ t \notin mpPool /\ MissingParents(t, coins) = {}
    /\ Spenders(t) # {} => ValidateReplacement(t)
    /\ mpPool' = (mpPool \ Evicted(t)) \cup {t}

\* The pool and its tables after ProcessTransaction.
LEMMA MpEndProcess ==
    ASSUME MpTablesOK, MpRest, EndProcess
    PROVE  /\ MpTablesOK' /\ MpRest' /\ UNCHANGED <<mpTodo, mpChain, mpSkipped, mpDropped>>
           /\ mpPool' = mpPool \/ Accepts(mpJob.tx, mpJob.coins)
           /\ mpJob' = Free \/ mpJob'.call = "orphans"
<1>1. mpJob # Free /\ mpJob.call = "process" /\ UNCHANGED <<mpTodo, mpChain, mpCurrent, mpSkipped, mpDropped, mpMoves>>
  BY DEF EndProcess
<1>2. mpJob \in ProcessJobs /\ (mpJob.who = "sync" => mpJob.tag \in PeerTag)
  BY <1>1, MpJobs DEF MpRest
<1>3. PICK t : t = mpJob.tx
  OBVIOUS
<1>4. PICK verdict : verdict = CheckMempoolAcceptance(t, mpJob.coins, TRUE, ~(mpJob.who = "rpc"), TRUE)
  OBVIOUS
<1>5. /\ pennyTotal' = Penny(t, mpJob.coins, TRUE, ~(mpJob.who = "rpc"), TRUE)
      /\ CASE verdict = "ok" -> AddTransaction(t, {}) /\ mpJob' = OrphanJob(t, <<>>)
           [] verdict = "missing" /\ ~(mpJob.who = "rpc") ->
                    /\ \E S \in SUBSET DOMAIN mpOrphans : AddOrphan(t, mpJob.tag, S)
                    /\ mpJob' = Free
           [] OTHER -> UNCHANGED mpTables /\ mpJob' = Free
  BY <1>3, <1>4 DEF EndProcess
<1>6. t \in Tx /\ mpJob.who \in {"sync", "rpc"}
  BY <1>2, <1>3 DEF ProcessJobs
<1>7. pennyTotal' \in Nat
  BY <1>5, <1>6, PennyType DEF MpRest
<1>8. /\ verdict # "reject" => t \notin mpPool /\ t \notin DOMAIN mpOrphans
      /\ verdict = "ok" => MissingParents(t, mpJob.coins) = {} /\ (Spenders(t) # {} => ValidateReplacement(t))
  BY <1>4, MpVerdict
<1>9. ASSUME MpJobOK' PROVE MpRest'
  BY <1>1, <1>7, <1>9 DEF MpRest
<1>10. CASE verdict = "ok"
  <2>1. AddTransaction(t, {}) /\ mpJob' = OrphanJob(t, <<>>)
    BY <1>5, <1>10
  <2>2. MpTablesOK' /\ mpPool' = (mpPool \ Evicted(t)) \cup {t}
    BY <2>1, <1>6, <1>8, <1>10, MpAdd
  <2>3. SetToSeq(Outs(t)) \o <<>> \in Seq(TxOutPoint)
    BY <1>6, OutsInOrder
  <2>4. mpJob' \in OrphanJobs /\ mpJob'.call = "orphans"
    BY <2>1, <2>3, <1>6 DEF OrphanJob, OrphanJobs
  <2>5. MpJobOK'
    BY <2>4 DEF MpJobOK, OrphanJobs
  <2>6. Accepts(t, mpJob.coins)
    BY <2>2, <1>6, <1>8, <1>10 DEF Accepts
  <2> QED
    BY <2>2, <2>4, <2>5, <2>6, <1>1, <1>3, <1>9
<1>11. CASE verdict = "missing" /\ ~(mpJob.who = "rpc")
  <2>1. PICK S \in SUBSET DOMAIN mpOrphans : AddOrphan(t, mpJob.tag, S)
    BY <1>5, <1>11
  <2>2. mpJob' = Free
    BY <1>5, <1>11
  <2>3. mpJob.tag \in PeerTag
    BY <1>2, <1>6, <1>11
  <2>4. MpTablesOK' /\ mpPool' = mpPool
    BY <2>1, <2>3, <1>6, <1>8, <1>11, MpAddOrphan
  <2>5. MpJobOK'
    BY <2>2 DEF MpJobOK, Free
  <2> QED
    BY <2>2, <2>4, <2>5, <1>1, <1>9
<1>12. CASE ~(verdict = "ok") /\ ~(verdict = "missing" /\ ~(mpJob.who = "rpc"))
  <2>1. UNCHANGED mpTables /\ mpJob' = Free
    BY <1>5, <1>12
  <2>2. MpTablesOK' /\ mpPool' = mpPool
    BY <2>1, MpSameTables
  <2>5. MpJobOK'
    BY <2>1 DEF MpJobOK, Free
  <2> QED
    BY <2>1, <2>2, <2>5, <1>1, <1>9
<1> QED
  BY <1>10, <1>11, <1>12

\* The pool and its tables after one output of processOrphans.
LEMMA MpProcessOrphan ==
    ASSUME MpTablesOK, MpRest, ProcessOrphanOutput
    PROVE  /\ MpTablesOK' /\ MpRest' /\ UNCHANGED <<mpTodo, mpChain, mpSkipped, mpDropped>>
           /\ mpPool' = mpPool \/ \E t \in Tx : Accepts(t, Coins)
           /\ mpJob'.call = "orphans"
<1>1. /\ mpJob # Free /\ mpJob.call = "orphans" /\ mpJob.list # <<>>
      /\ UNCHANGED <<mpTodo, mpChain, mpCurrent, mpSkipped, mpDropped, mpMoves>>
  BY DEF ProcessOrphanOutput
<1>2. mpJob \in OrphanJobs
  BY <1>1, MpJobs DEF MpRest
<1>3. PICK decided : decided = {t \in orphansByPrev[Head(mpJob.list)] : CheckMempoolAcceptance(t, Coins, TRUE, TRUE, FALSE) # "missing"}
  OBVIOUS
<1>4. IF decided = {}
      THEN /\ mpJob' = [mpJob EXCEPT !.list = Tail(@)]
           /\ UNCHANGED <<mpTables, pennyTotal>>
      ELSE \E t \in decided :
           /\ pennyTotal' = Penny(t, Coins, TRUE, TRUE, FALSE)
           /\ IF CheckMempoolAcceptance(t, Coins, TRUE, TRUE, FALSE) = "ok"
              THEN /\ AddTransaction(t, {t})
                   /\ mpJob' = [mpJob EXCEPT !.list = Tail(@) \o SetToSeq(Outs(t)), !.done = @ \cup {t}]
              ELSE /\ RemoveOrphans(OrphanFamily({t}))
                   /\ mpJob' = [mpJob EXCEPT !.list = Tail(@)]
  BY <1>3 DEF ProcessOrphanOutput
<1>5. Head(mpJob.list) \in TxOutPoint /\ Tail(mpJob.list) \in Seq(TxOutPoint)
  BY <1>1, <1>2 DEF OrphanJobs
<1>6. \A l \in Seq(TxOutPoint) : [mpJob EXCEPT !.list = l] \in OrphanJobs
  BY <1>2 DEF OrphanJobs
<1>7. \A l \in Seq(TxOutPoint), t \in Tx : [mpJob EXCEPT !.list = l, !.done = @ \cup {t}] \in OrphanJobs
  BY <1>2 DEF OrphanJobs
<1>8. ASSUME mpJob' \in OrphanJobs, pennyTotal' \in Nat PROVE MpRest' /\ mpJob'.call = "orphans"
  <2>1. MpJobOK'
    BY <1>8 DEF MpJobOK, OrphanJobs
  <2>2. mpJob'.call = "orphans"
    BY <1>8 DEF OrphanJobs
  <2> QED
    BY <2>1, <2>2, <1>1, <1>8 DEF MpRest
<1>9. CASE decided = {}
  <2>1. mpJob' = [mpJob EXCEPT !.list = Tail(@)] /\ UNCHANGED mpTables /\ pennyTotal' = pennyTotal
    BY <1>4, <1>9
  <2>2. mpJob' \in OrphanJobs /\ pennyTotal' \in Nat
    BY <2>1, <1>5, <1>6 DEF MpRest
  <2> QED
    BY <2>1, <2>2, <1>1, <1>8, MpSameTables
<1>10. CASE decided # {}
  <2>1. PICK t \in decided :
           /\ pennyTotal' = Penny(t, Coins, TRUE, TRUE, FALSE)
           /\ IF CheckMempoolAcceptance(t, Coins, TRUE, TRUE, FALSE) = "ok"
              THEN /\ AddTransaction(t, {t})
                   /\ mpJob' = [mpJob EXCEPT !.list = Tail(@) \o SetToSeq(Outs(t)), !.done = @ \cup {t}]
              ELSE /\ RemoveOrphans(OrphanFamily({t}))
                   /\ mpJob' = [mpJob EXCEPT !.list = Tail(@)]
    BY <1>4, <1>10
  <2>2. t \in Tx
    BY <2>1, <1>3, <1>5 DEF MpTablesOK
  <2>3. pennyTotal' \in Nat
    BY <2>1, <2>2, PennyType DEF MpRest
  <2>4. CASE CheckMempoolAcceptance(t, Coins, TRUE, TRUE, FALSE) = "ok"
    <3>1. AddTransaction(t, {t}) /\ mpJob' = [mpJob EXCEPT !.list = Tail(@) \o SetToSeq(Outs(t)), !.done = @ \cup {t}]
      BY <2>1, <2>4
    <3>2. t \notin mpPool /\ MissingParents(t, Coins) = {} /\ (Spenders(t) # {} => ValidateReplacement(t))
      BY <2>4, MpVerdict
    <3>3. MpTablesOK' /\ mpPool' = (mpPool \ Evicted(t)) \cup {t}
      BY <3>1, <3>2, <2>2, MpAdd
    <3>4. Accepts(t, Coins)
      BY <3>2, <3>3, <2>2 DEF Accepts
    <3>5. Tail(mpJob.list) \o SetToSeq(Outs(t)) \in Seq(TxOutPoint)
      BY <1>5, <2>2, OutsInOrder
    <3>6. mpJob' \in OrphanJobs
      BY <3>1, <3>5, <1>7, <2>2
    <3> QED
      BY <3>3, <3>4, <3>6, <2>2, <2>3, <1>1, <1>8
  <2>5. CASE CheckMempoolAcceptance(t, Coins, TRUE, TRUE, FALSE) # "ok"
    <3>1. RemoveOrphans(OrphanFamily({t})) /\ mpJob' = [mpJob EXCEPT !.list = Tail(@)]
      BY <2>1, <2>5
    <3>2. MpTablesOK' /\ mpPool' = mpPool
      BY <3>1, MpRemoveOrphans
    <3>3. mpJob' \in OrphanJobs
      BY <3>1, <1>5, <1>6
    <3> QED
      BY <3>2, <3>3, <2>3, <1>1, <1>8
  <2> QED
    BY <2>4, <2>5
<1> QED
  BY <1>9, <1>10

\* The calls for a connected block: remove and doubles for each of its transactions, in order.
LEMMA MpNotes ==
    ASSUME NEW b \in Seq(Tx)
    PROVE  /\ ConnectNotes(b) \in Seq([call : NoteCalls, tx : Tx]) /\ DOMAIN ConnectNotes(b) = 1..(4 * Len(b))
           /\ \A j \in 1..Len(b) : /\ ConnectNotes(b)[4 * j - 3] = Note("remove", b[j])
                                   /\ ConnectNotes(b)[4 * j - 2] = Note("doubles", b[j])
           /\ \A i \in 1..(4 * Len(b)) : \E j \in 1..Len(b) :
                 /\ ConnectNotes(b)[i].tx = b[j] /\ ConnectNotes(b)[i].call # "readd"
                 /\ ConnectNotes(b)[i].call = "remove" => i = 4 * j - 3
<1> DEFINE calls == <<"remove", "doubles", "orphan", "process">>
           C(i) == calls[((i - 1) % 4) + 1]
           P(i) == ((i - 1) \div 4) + 1
<1>1. Len(b) \in Nat /\ 4 * Len(b) \in Nat
  OBVIOUS
<1>2. \A i \in 1..(4 * Len(b)) : P(i) \in 1..Len(b) /\ ((i - 1) % 4) + 1 \in 1..4 /\ i = 4 * P(i) - 4 + (((i - 1) % 4) + 1)
  BY <1>1
<1>3. \A k \in 1..4 : /\ calls[k] \in NoteCalls /\ calls[k] # "readd" /\ (calls[k] = "remove" => k = 1)
  BY DEF NoteCalls
<1>4. \A j \in 1..Len(b) : /\ 4 * j - 3 \in 1..(4 * Len(b)) /\ 4 * j - 2 \in 1..(4 * Len(b))
                           /\ P(4 * j - 3) = j /\ P(4 * j - 2) = j
                           /\ ((4 * j - 3 - 1) % 4) + 1 = 1 /\ ((4 * j - 2 - 1) % 4) + 1 = 2
  BY <1>1
<1>5. calls[1] = "remove" /\ calls[2] = "doubles"
  OBVIOUS
<1>6. ConnectNotes(b) = [i \in 1..(4 * Len(b)) |-> Note(C(i), b[P(i)])]
  BY DEF ConnectNotes
<1> HIDE DEF calls, P
<1>7. \A i \in 1..(4 * Len(b)) : /\ C(i) \in NoteCalls /\ C(i) # "readd" /\ b[P(i)] \in Tx
                                 /\ (C(i) = "remove" => i = 4 * P(i) - 3)
  <2> TAKE i \in 1..(4 * Len(b))
  <2>1. PICK k \in 1..4 : k = ((i - 1) % 4) + 1
    BY <1>2
  <2>2. i = 4 * P(i) - 4 + k /\ P(i) \in 1..Len(b)
    BY <1>2, <2>1
  <2>3. C(i) = calls[k]
    BY <2>1
  <2>4. C(i) \in NoteCalls /\ C(i) # "readd" /\ (C(i) = "remove" => k = 1) /\ b[P(i)] \in Tx
    BY <1>3, <2>2, <2>3
  <2>5. k = 1 => i = 4 * P(i) - 3
    BY <2>2, <1>1
  <2> QED
    BY <2>4, <2>5
<1>8. \A j \in 1..Len(b) : C(4 * j - 3) = "remove" /\ C(4 * j - 2) = "doubles"
  BY <1>4, <1>5
<1> HIDE DEF C
<1>9. ConnectNotes(b) \in Seq([call : NoteCalls, tx : Tx])
  <2>1. \A i \in 1..(4 * Len(b)) : Note(C(i), b[P(i)]) \in [call : NoteCalls, tx : Tx]
    BY <1>7 DEF Note
  <2> QED
    BY <2>1, <1>1, <1>6
<1>10. \A j \in 1..Len(b) : /\ ConnectNotes(b)[4 * j - 3] = Note("remove", b[j])
                            /\ ConnectNotes(b)[4 * j - 2] = Note("doubles", b[j])
  BY <1>4, <1>6, <1>8
<1>11. ASSUME NEW i \in 1..(4 * Len(b))
       PROVE  \E j \in 1..Len(b) :
                 /\ ConnectNotes(b)[i].tx = b[j] /\ ConnectNotes(b)[i].call # "readd"
                 /\ ConnectNotes(b)[i].call = "remove" => i = 4 * j - 3
  <2>1. ConnectNotes(b)[i].tx = b[P(i)] /\ ConnectNotes(b)[i].call = C(i)
    BY <1>6 DEF Note
  <2> QED
    BY <2>1, <1>2, <1>7
<1> QED
  BY <1>6, <1>9, <1>10, <1>11

\* A step that leaves the pool, the chain and the pending calls alone.
MpQuiet == mpPool' = mpPool /\ UNCHANGED <<mpTodo, mpChain, mpSkipped, mpDropped>>

\* The calls that do not change the pool.
LEMMA MpQuietSteps ==
    ASSUME MpTablesOK, MpRest,
           \/ \E t \in Tx : BeginProcess(t, "rpc", NoTx) \/ \E p \in PeerTag : BeginProcess(t, "sync", p)
           \/ EndProcessOrphans \/ \E p \in PeerTag : RemoveOrphansByTag(p)
           \/ Decay \/ ChangeCurrent
    PROVE  /\ MpTablesOK' /\ MpRest' /\ MpQuiet
           /\ mpJob' = Free \/ mpJob' = mpJob \/ mpJob'.call # "process" \/ mpJob'.coins = Coins
<1>1. ASSUME NEW t \in Tx, NEW who \in {"rpc", "sync"}, NEW tag \in PeerTag \cup {NoTx}, BeginProcess(t, who, tag),
             who = "sync" => tag \in PeerTag
      PROVE  MpTablesOK' /\ MpRest' /\ MpQuiet /\ mpJob'.coins = Coins
  <2>1. /\ mpJob' = [who |-> who, call |-> "process", tx |-> t, tag |-> tag, coins |-> Coins]
        /\ UNCHANGED mpTables /\ UNCHANGED <<pennyTotal, mpTodo, mpChain, mpCurrent, mpSkipped, mpDropped, mpMoves>>
    BY <1>1 DEF BeginProcess
  <2>2. Coins \in SUBSET TxOutPoint
    BY CoinsType DEF MpRest
  <2>3. mpJob' \in ProcessJobs /\ (mpJob'.who = "sync" => mpJob'.tag \in PeerTag) /\ mpJob'.coins = Coins
    BY <1>1, <2>1, <2>2 DEF ProcessJobs
  <2>4. MpJobOK'
    BY <2>3 DEF MpJobOK, ProcessJobs
  <2>5. MpTablesOK' /\ mpPool' = mpPool
    BY <2>1, MpSameTables
  <2> QED
    BY <2>1, <2>3, <2>4, <2>5 DEF MpRest, MpQuiet
<1>2. ASSUME EndProcessOrphans PROVE MpTablesOK' /\ MpRest' /\ MpQuiet /\ mpJob' = Free
  <2>1. PICK S : RemoveOrphans(S)
    BY <1>2 DEF EndProcessOrphans
  <2>2. MpTablesOK' /\ mpPool' = mpPool
    BY <2>1, MpRemoveOrphans
  <2>3. mpJob' = Free /\ UNCHANGED <<pennyTotal, mpTodo, mpChain, mpCurrent, mpSkipped, mpDropped, mpMoves>>
    BY <1>2 DEF EndProcessOrphans
  <2> QED
    BY <2>2, <2>3 DEF MpRest, MpJobOK, MpQuiet, Free
<1>3. ASSUME NEW p \in PeerTag, RemoveOrphansByTag(p) PROVE MpTablesOK' /\ MpRest' /\ MpQuiet /\ mpJob' = mpJob
  <2>1. PICK S : RemoveOrphans(S)
    BY <1>3 DEF RemoveOrphansByTag
  <2>2. MpTablesOK' /\ mpPool' = mpPool
    BY <2>1, MpRemoveOrphans
  <2>3. UNCHANGED <<pennyTotal, mpJob, mpTodo, mpChain, mpCurrent, mpSkipped, mpDropped, mpMoves>>
    BY <1>3 DEF RemoveOrphansByTag
  <2> QED
    BY <2>2, <2>3 DEF MpRest, MpJobOK, MpQuiet, Free, ProcessJobs, OrphanJobs
<1>4. ASSUME Decay PROVE MpTablesOK' /\ MpRest' /\ MpQuiet /\ mpJob' = mpJob
  <2>1. UNCHANGED mpTables /\ UNCHANGED <<mpJob, mpTodo, mpChain, mpCurrent, mpSkipped, mpDropped, mpMoves>>
    BY <1>4 DEF Decay
  <2>2. pennyTotal' \in Nat
    BY <1>4 DEF Decay, MpRest
  <2>3. MpTablesOK' /\ mpPool' = mpPool
    BY <2>1, MpSameTables
  <2> QED
    BY <2>1, <2>2, <2>3 DEF MpRest, MpJobOK, MpQuiet, Free, ProcessJobs, OrphanJobs
<1>5. ASSUME ChangeCurrent PROVE MpTablesOK' /\ MpRest' /\ MpQuiet /\ mpJob' = mpJob
  <2>1. /\ UNCHANGED mpTables /\ UNCHANGED <<pennyTotal, mpJob, mpTodo, mpChain, mpSkipped, mpDropped, mpMoves>>
        /\ mpCurrent' \in BOOLEAN
    BY <1>5 DEF ChangeCurrent
  <2>3. MpTablesOK' /\ mpPool' = mpPool
    BY <2>1, MpSameTables
  <2> QED
    BY <2>1, <2>3 DEF MpRest, MpJobOK, MpQuiet, Free, ProcessJobs, OrphanJobs
<1>6. ASSUME NEW t \in Tx, BeginProcess(t, "rpc", NoTx) PROVE MpTablesOK' /\ MpRest' /\ MpQuiet /\ mpJob'.coins = Coins
  BY <1>1, <1>6
<1>7. ASSUME NEW t \in Tx, NEW p \in PeerTag, BeginProcess(t, "sync", p) PROVE MpTablesOK' /\ MpRest' /\ MpQuiet /\ mpJob'.coins = Coins
  BY <1>1, <1>7
<1> QED
  BY <1>2, <1>3, <1>4, <1>5, <1>6, <1>7

\* The types after a block was connected or disconnected.
LEMMA MpBlocksTypes ==
    ASSUME MpTablesOK, MpRest, (\E b \in MpBlocks : ConnectBlockTxs(b)) \/ DisconnectBlockTxs
    PROVE  MpTablesOK' /\ MpRest' /\ mpPool' = mpPool
<1>1. ASSUME UNCHANGED mpTables, UNCHANGED <<pennyTotal, mpJob, mpCurrent, mpDropped>>, mpMoves < MaxChainMoves, mpMoves' = mpMoves + 1,
             mpTodo' \in Seq([call : NoteCalls, tx : Tx]), mpChain' \in Seq(Seq(Tx)), mpSkipped' \in BOOLEAN
      PROVE  MpTablesOK' /\ MpRest' /\ mpPool' = mpPool
  <2>1. mpMoves' \in 0..MaxChainMoves
    BY <1>1, MempoolAssumption DEF MpRest
  <2>2. MpTablesOK' /\ mpPool' = mpPool
    BY <1>1, MpSameTables
  <2>3. MpJobOK'
    BY <1>1 DEF MpRest, MpJobOK, Free, ProcessJobs, OrphanJobs
  <2>4. pennyTotal' \in Nat /\ mpCurrent' \in BOOLEAN /\ mpDropped' \in BOOLEAN
    BY <1>1 DEF MpRest
  <2> QED
    BY <1>1, <2>1, <2>2, <2>3, <2>4 DEF MpRest
<1>2. ASSUME NEW b \in MpBlocks, ConnectBlockTxs(b) PROVE MpTablesOK' /\ MpRest' /\ mpPool' = mpPool
  <2>1. b \in Seq(Tx)
    BY MempoolAssumption
  <2>2. ConnectNotes(b) \in Seq([call : NoteCalls, tx : Tx])
    BY <2>1, MpNotes
  <2>3. /\ UNCHANGED mpTables /\ UNCHANGED <<pennyTotal, mpJob, mpCurrent, mpDropped>> /\ mpMoves < MaxChainMoves /\ mpMoves' = mpMoves + 1
        /\ mpTodo' = (IF mpCurrent THEN ConnectNotes(b) ELSE <<>>) /\ mpChain' = Append(mpChain, b)
    BY <1>2 DEF ConnectBlockTxs
  <2>4. mpSkipped' \in BOOLEAN
    BY <1>2 DEF ConnectBlockTxs
  <2>5. mpChain' \in Seq(Seq(Tx))
    BY <2>1, <2>3 DEF MpRest
  <2>6. mpTodo' \in Seq([call : NoteCalls, tx : Tx])
    BY <2>2, <2>3
  <2> QED
    BY <2>3, <2>4, <2>5, <2>6, <1>1
<1>3. ASSUME DisconnectBlockTxs PROVE MpTablesOK' /\ MpRest' /\ mpPool' = mpPool
  <2>1. /\ UNCHANGED mpTables /\ UNCHANGED <<pennyTotal, mpJob, mpCurrent, mpDropped>> /\ mpMoves < MaxChainMoves /\ mpMoves' = mpMoves + 1
        /\ mpSkipped' = mpSkipped /\ mpChain # <<>> /\ mpChain' = Front(mpChain)
        /\ mpTodo' = [i \in DOMAIN Last(mpChain) |-> Note("readd", Last(mpChain)[i])]
    BY <1>3 DEF DisconnectBlockTxs
  <2>2. mpChain \in Seq(Seq(Tx))
    BY DEF MpRest
  <2>3. Last(mpChain) \in Seq(Tx)
    BY <2>1, <2>2 DEF Last
  <2>4. mpChain' \in Seq(Seq(Tx))
    BY <2>1, <2>2 DEF Front
  <2>5. mpTodo' \in Seq([call : NoteCalls, tx : Tx])
    <3>1. PICK l \in Seq(Tx) : l = Last(mpChain)
      BY <2>3
    <3>2. \A i \in DOMAIN l : Note("readd", l[i]) \in [call : NoteCalls, tx : Tx]
      BY DEF Note, NoteCalls
    <3>3. DOMAIN l = 1..Len(l) /\ Len(l) \in Nat
      OBVIOUS
    <3>4. mpTodo' = [i \in 1..Len(l) |-> Note("readd", l[i])]
      BY <2>1, <3>1, <3>3
    <3> QED
      BY <3>2, <3>3, <3>4
  <2>6. mpSkipped' \in BOOLEAN
    BY <2>1 DEF MpRest
  <2> QED
    BY <2>1, <2>4, <2>5, <2>6, <1>1
<1> QED
  BY <1>2, <1>3

\* The pool and its tables after one call of the notification handler.
LEMMA MpHandle ==
    ASSUME MpTablesOK, MpRest, HandleNotification, NEW n, n = Head(mpTodo), NEW t, t = n.tx
    PROVE  /\ MpTablesOK' /\ MpRest' /\ UNCHANGED <<mpChain, mpSkipped>>
           /\ mpTodo # <<>> /\ mpTodo' = Tail(mpTodo) /\ n \in [call : NoteCalls, tx : Tx] /\ t \in Tx
           /\ mpJob = Free /\ (mpJob' = Free \/ mpJob'.call = "orphans") /\ (mpDropped => mpDropped')
           /\ n.call = "remove" => mpPool' = mpPool \ {t}
           /\ n.call = "doubles" => mpPool' = mpPool \ UNION {WithRedeemers(c) : c \in Spenders(t) \ {t}}
           /\ n.call \in {"orphan", "process"} => mpPool' = mpPool
           /\ n.call = "readd" => \/ Accepts(t, Coins)
                                  \/ mpPool' = mpPool \ WithRedeemers(t)
                                  \/ mpDropped' /\ mpPool' = mpPool
<1> DEFINE verdict == CheckMempoolAcceptance(t, Coins, FALSE, FALSE, TRUE)
<1>1. /\ mpTodo # <<>> /\ mpJob = Free /\ mpTodo' = Tail(mpTodo) /\ UNCHANGED <<pennyTotal, mpChain, mpCurrent, mpSkipped, mpMoves>>
      /\ mpJob' = (IF n.call = "process"
                    THEN [who |-> "sync", call |-> "orphans", list |-> SetToSeq(Outs(t)), done |-> {t}, tx |-> t]
                    ELSE Free)
      /\ mpDropped' = (mpDropped \/ (n.call = "readd" /\ verdict = "missing"))
  BY DEF HandleNotification
<1>2. /\ n.call = "remove" => RemoveTransactions({t})
      /\ n.call = "doubles" => RemoveTransactions(UNION {WithRedeemers(c) : c \in Spenders(t) \ {t}})
      /\ n.call = "orphan" => RemoveOrphans({t})
      /\ n.call = "process" => UNCHANGED mpTables
      /\ n.call = "readd" => CASE verdict = "ok" -> AddTransaction(t, {})
                               [] verdict = "reject" -> RemoveTransactions(WithRedeemers(t))
                               [] OTHER -> UNCHANGED mpTables
  <2> HIDE DEF verdict
  <2>1. CASE n.call = "remove"
    BY <2>1 DEF HandleNotification
  <2>2. CASE n.call = "doubles"
    BY <2>2 DEF HandleNotification
  <2>3. CASE n.call = "orphan"
    BY <2>3 DEF HandleNotification
  <2>4. CASE n.call = "process"
    BY <2>4 DEF HandleNotification
  <2>5. CASE n.call = "readd"
    BY <2>5 DEF HandleNotification, verdict
  <2>6. CASE n.call \notin {"remove", "doubles", "orphan", "process", "readd"}
    BY <2>6
  <2> QED
    BY <2>1, <2>2, <2>3, <2>4, <2>5, <2>6
<1>3. n \in [call : NoteCalls, tx : Tx] /\ mpTodo' \in Seq([call : NoteCalls, tx : Tx])
  <2>1. PICK S : S = [call : NoteCalls, tx : Tx]
    OBVIOUS
  <2>2. mpTodo \in Seq(S) /\ mpTodo # <<>>
    BY <1>1, <2>1 DEF MpRest
  <2>3. Head(mpTodo) \in S /\ Tail(mpTodo) \in Seq(S)
    BY <2>2
  <2> QED
    BY <1>1, <2>1, <2>3
<1>4. t \in Tx /\ n.call \in NoteCalls
  BY <1>3
<1>5. /\ verdict # "reject" => t \notin mpPool /\ t \notin DOMAIN mpOrphans
      /\ verdict = "ok" => MissingParents(t, Coins) = {} /\ (Spenders(t) # {} => ValidateReplacement(t))
      /\ verdict \in {"ok", "reject", "missing"}
  BY MpVerdict
<1> HIDE DEF verdict
<1>6. MpRest' /\ (mpJob' = Free \/ mpJob'.call = "orphans") /\ (mpDropped => mpDropped')
  <2>1. SetToSeq(Outs(t)) \in Seq(TxOutPoint)
    BY <1>4, OutsInOrder
  <2>2. mpJob' = Free \/ (mpJob' \in OrphanJobs /\ mpJob'.call = "orphans")
    BY <1>1, <1>4, <2>1 DEF OrphanJobs
  <2>3. MpJobOK'
    BY <2>2 DEF MpJobOK, Free, OrphanJobs
  <2>4. mpDropped' \in BOOLEAN /\ (mpDropped => mpDropped')
    BY <1>1
  <2>5. pennyTotal' \in Nat /\ mpMoves' \in 0..MaxChainMoves /\ mpChain' \in Seq(Seq(Tx)) /\ mpCurrent' \in BOOLEAN /\ mpSkipped' \in BOOLEAN
    BY <1>1 DEF MpRest
  <2> QED
    BY <2>2, <2>3, <2>4, <2>5, <1>3 DEF MpRest
<1>7. CASE n.call = "remove"
  BY <1>1, <1>2, <1>3, <1>4, <1>6, <1>7, MpRemove DEF RemoveTransactions
<1>8. CASE n.call = "doubles"
  BY <1>1, <1>2, <1>3, <1>4, <1>6, <1>8, MpRemove DEF RemoveTransactions
<1>9. CASE n.call = "orphan"
  BY <1>1, <1>2, <1>3, <1>4, <1>6, <1>9, MpRemoveOrphans
<1>10. CASE n.call = "process"
  BY <1>1, <1>2, <1>3, <1>4, <1>6, <1>10, MpSameTables
<1>11. CASE n.call = "readd"
  <2>1. CASE verdict = "ok"
    <3>1. AddTransaction(t, {})
      BY <1>2, <1>11, <2>1
    <3>2. MpTablesOK' /\ mpPool' = (mpPool \ Evicted(t)) \cup {t}
      BY <3>1, <1>4, <1>5, <2>1, MpAdd
    <3>3. Accepts(t, Coins)
      BY <3>2, <1>4, <1>5, <2>1 DEF Accepts
    <3> QED
      BY <3>2, <3>3, <1>1, <1>3, <1>4, <1>6, <1>11
  <2>2. CASE verdict = "reject"
    <3>1. RemoveTransactions(WithRedeemers(t))
      BY <1>2, <1>11, <2>2
    <3> QED
      BY <3>1, <1>1, <1>3, <1>4, <1>6, <1>11, MpRemove DEF RemoveTransactions
  <2>3. CASE verdict = "missing"
    <3>1. UNCHANGED mpTables /\ mpDropped'
      BY <1>1, <1>2, <1>11, <2>3
    <3> QED
      BY <3>1, <1>1, <1>3, <1>4, <1>6, <1>11, MpSameTables
  <2> QED
    BY <2>1, <2>2, <2>3, <1>5
<1> QED
  BY <1>4, <1>7, <1>8, <1>9, <1>10, <1>11 DEF NoteCalls

-----------------------------------------------------------------------------
(* The chain and the pending calls *)

\* What the chain spends comes from the chain, once.
LEMMA MpChainFacts ==
    ASSUME MpChainOK, MpRest
    PROVE  /\ Confirmed \in SUBSET Tx
           /\ \A t \in Confirmed : \A o \in Ins(t) : o \in BaseCoins \/ \E q \in Confirmed : o \in Outs(q)
           /\ \A t \in Confirmed : \A o \in Ins(t) : \A p \in Tx : o \in Outs(p) => p \in Confirmed
           /\ \A t, u \in Confirmed : Ins(t) \cap Ins(u) # {} => t = u
           /\ \A o : o \in Coins <=> /\ o \in BaseCoins \/ \E q \in Confirmed : o \in Outs(q)
                                     /\ \A y \in Confirmed : o \notin Ins(y)
<1>1. Confirmed \in SUBSET Tx
  BY CoinsType DEF MpRest
<1>2. \A i \in DOMAIN mpChain : \A k \in 1..i : k \in DOMAIN mpChain
  <2>1. PICK S : S = Seq(Tx)
    OBVIOUS
  <2>2. mpChain \in Seq(S)
    BY <2>1 DEF MpRest
  <2>3. DOMAIN mpChain = 1..Len(mpChain) /\ Len(mpChain) \in Nat
    BY <2>2
  <2> QED
    BY <2>3
<1>3. ASSUME NEW t \in Confirmed, NEW o \in Ins(t) PROVE o \in BaseCoins \/ \E q \in Confirmed : o \in Outs(q)
  <2>1. PICK i \in DOMAIN mpChain : t \in Range(mpChain[i])
    BY DEF Confirmed
  <2>2. o \in BaseCoins \/ \E k \in 1..i : \E q \in Range(mpChain[k]) : o \in Outs(q)
    BY <2>1 DEF MpChainOK
  <2>3. ASSUME NEW k \in 1..i, NEW q \in Range(mpChain[k]) PROVE q \in Confirmed
    BY <1>2, <2>1 DEF Confirmed
  <2> QED
    BY <2>2, <2>3
<1>4. ASSUME NEW t \in Confirmed, NEW o \in Ins(t), NEW p \in Tx, o \in Outs(p) PROVE p \in Confirmed
  <2>1. o \notin BaseCoins
    BY <1>4, MpTxFacts
  <2>2. PICK q \in Confirmed : o \in Outs(q)
    BY <2>1, <1>3
  <2>3. q = p
    BY <2>2, <1>1, <1>4, MpTxFacts
  <2> QED
    BY <2>2, <2>3
<1>5. \A t, u \in Confirmed : Ins(t) \cap Ins(u) # {} => t = u
  BY DEF MpChainOK
<1>6. \A o : o \in Coins <=> /\ o \in BaseCoins \/ \E q \in Confirmed : o \in Outs(q)
                             /\ \A y \in Confirmed : o \notin Ins(y)
  BY DEF Coins
<1> QED
  BY <1>1, <1>3, <1>4, <1>5, <1>6

\* The pending calls of a block: those that remove a transaction come with their double spends
\* and with the removal of all that the block spends of it.
LEMMA MpPend ==
    ASSUME MpOrder, MpRest
    PROVE  /\ Pend("remove") \subseteq Confirmed /\ Pend("doubles") \subseteq Confirmed
           /\ Pend("remove") \subseteq Pend("doubles") /\ Pend("readd") \cap Confirmed = {}
           /\ \A c \in NoteCalls : Pend(c) \subseteq Tx
           /\ \A x \in Pend("remove") : \A y \in Confirmed : Ins(y) \cap Outs(x) # {} => y \in Pend("remove")
<1>1. \A i \in DOMAIN mpTodo : mpTodo[i] \in [call : NoteCalls, tx : Tx]
  <2>1. PICK S : S = [call : NoteCalls, tx : Tx]
    OBVIOUS
  <2>2. mpTodo \in Seq(S)
    BY <2>1 DEF MpRest
  <2>3. \A i \in DOMAIN mpTodo : mpTodo[i] \in S
    BY <2>2
  <2> QED
    BY <2>1, <2>3
<1>2. \A c \in NoteCalls : Pend(c) \subseteq Tx
  BY <1>1 DEF Pend
<1>3. Pend("remove") \subseteq Confirmed /\ Pend("doubles") \subseteq Confirmed /\ Pend("readd") \cap Confirmed = {}
  BY DEF Pend, MpOrder
<1>4. ASSUME NEW x \in Pend("remove")
      PROVE  x \in Pend("doubles") /\ \A y \in Confirmed : Ins(y) \cap Outs(x) # {} => y \in Pend("remove")
  <2>1. PICK i \in DOMAIN mpTodo : mpTodo[i].call = "remove" /\ mpTodo[i].tx = x
    BY DEF Pend
  <2>2. PICK j \in DOMAIN mpTodo : mpTodo[j] = Note("doubles", x)
    BY <2>1 DEF MpOrder
  <2>3. x \in Pend("doubles")
    BY <2>2 DEF Pend, Note
  <2>4. ASSUME NEW y \in Confirmed, Ins(y) \cap Outs(x) # {} PROVE y \in Pend("remove")
    <3>1. PICK k \in DOMAIN mpTodo : mpTodo[k] = Note("remove", y)
      BY <2>1, <2>4 DEF MpOrder
    <3> QED
      BY <3>1 DEF Pend, Note
  <2> QED
    BY <2>3, <2>4
<1> QED
  BY <1>2, <1>3, <1>4

\* The next call is taken from the pending ones, and what must follow it is still pending.
LEMMA MpTake ==
    ASSUME MpOrder, MpRest, mpTodo # <<>>, mpTodo' = Tail(mpTodo), mpChain' = mpChain,
           NEW n, n = Head(mpTodo), NEW t, t = n.tx
    PROVE  /\ MpOrder' /\ Confirmed' = Confirmed /\ Coins' = Coins
           /\ \A c \in NoteCalls : Pend(c)' \subseteq Pend(c) /\ Pend(c) \subseteq Pend(c)' \cup {t}
           /\ \A c \in NoteCalls : c # n.call => Pend(c) = Pend(c)'
           /\ n.call # "readd" => t \in Confirmed
           /\ n.call = "remove" => \A y \in Confirmed : Ins(y) \cap Outs(t) # {} => y \in Pend("remove")'
<1>0. PICK s : s = mpTodo
  OBVIOUS
<1>1. /\ Len(s) \in Nat \ {0} /\ DOMAIN s = 1..Len(s) /\ DOMAIN Tail(s) = 1..(Len(s) - 1)
      /\ \A i \in 1..(Len(s) - 1) : i + 1 \in 1..Len(s) /\ Tail(s)[i] = s[i + 1]
      /\ 1 \in 1..Len(s) /\ s[1] = Head(s)
  <2>1. s \in Seq([call : NoteCalls, tx : Tx]) /\ s # <<>>
    BY <1>0 DEF MpRest
  <2> HIDE <1>0
  <2> QED
    BY <2>1
<1>2. \A i \in 1..Len(s) : i = 1 \/ (i - 1 \in 1..(Len(s) - 1) /\ s[i] = Tail(s)[i - 1])
  <2> TAKE i \in 1..Len(s)
  <2>1. i # 1 => i - 1 \in 1..(Len(s) - 1) /\ (i - 1) + 1 = i
    BY <1>1
  <2> QED
    BY <2>1, <1>1
<1>3. Confirmed' = Confirmed /\ Coins' = Coins
  BY DEF Confirmed, Coins
<1>4. n = s[1] /\ t = s[1].tx
  BY <1>0, <1>1
<1>5. \A i \in DOMAIN mpTodo' : i + 1 \in DOMAIN s /\ mpTodo'[i] = s[i + 1]
  BY <1>0, <1>1
<1>6. \A j \in DOMAIN s : j # 1 => j - 1 \in DOMAIN mpTodo' /\ mpTodo'[j - 1] = s[j]
  BY <1>0, <1>1, <1>2
<1>7. \A i, j \in DOMAIN s : j > i => j # 1
  BY <1>1
<1>8. \A i \in DOMAIN mpTodo' : \A j \in DOMAIN s : j > i + 1 => j # 1 /\ j - 1 > i
  BY <1>0, <1>1
<1>9. MpOrder'
  <2>1. ASSUME NEW i \in DOMAIN mpTodo'
        PROVE  IF mpTodo'[i].call = "readd" THEN mpTodo'[i].tx \notin Confirmed ELSE mpTodo'[i].tx \in Confirmed
    BY <1>0, <1>5 DEF MpOrder
  <2>2. ASSUME NEW i \in DOMAIN mpTodo', mpTodo'[i].call = "remove"
        PROVE  /\ \E j \in DOMAIN mpTodo' : j > i /\ mpTodo'[j] = Note("doubles", mpTodo'[i].tx)
               /\ \A y \in Confirmed : Ins(y) \cap Outs(mpTodo'[i].tx) # {} =>
                    \E j \in DOMAIN mpTodo' : j > i /\ mpTodo'[j] = Note("remove", y)
    <3>1. i + 1 \in DOMAIN s /\ mpTodo'[i] = s[i + 1] /\ s[i + 1].call = "remove"
      BY <1>5, <2>2
    <3>2. PICK j \in DOMAIN s : j > i + 1 /\ s[j] = Note("doubles", s[i + 1].tx)
      BY <1>0, <3>1 DEF MpOrder
    <3>3. j - 1 \in DOMAIN mpTodo' /\ j - 1 > i /\ mpTodo'[j - 1] = Note("doubles", mpTodo'[i].tx)
      BY <3>1, <3>2, <1>6, <1>8
    <3>4. ASSUME NEW y \in Confirmed, Ins(y) \cap Outs(mpTodo'[i].tx) # {}
          PROVE  \E k \in DOMAIN mpTodo' : k > i /\ mpTodo'[k] = Note("remove", y)
      <4>1. PICK k \in DOMAIN s : k > i + 1 /\ s[k] = Note("remove", y)
        BY <1>0, <3>1, <3>4 DEF MpOrder
      <4>2. k - 1 \in DOMAIN mpTodo' /\ k - 1 > i /\ mpTodo'[k - 1] = Note("remove", y)
        BY <4>1, <1>6, <1>8
      <4> QED
        BY <4>2
    <3> QED
      BY <3>3, <3>4
  <2> QED
    BY <2>1, <2>2, <1>3 DEF MpOrder, Ins, Outs, Note
<1>a. \A c, x : x \in Pend(c) <=> \E i \in DOMAIN s : s[i].call = c /\ s[i].tx = x
  BY <1>0 DEF Pend
<1>b. \A c, x : x \in Pend(c)' <=> \E i \in DOMAIN mpTodo' : mpTodo'[i].call = c /\ mpTodo'[i].tx = x
  BY DEF Pend
<1>c. \A c, x : x \in Pend(c)' => x \in Pend(c)
  BY <1>a, <1>b, <1>5
<1>d. \A c, x : x \in Pend(c) => x \in Pend(c)' \/ (x = t /\ c = n.call)
  BY <1>a, <1>b, <1>4, <1>6
<1>10. \A c \in NoteCalls : Pend(c)' \subseteq Pend(c) /\ Pend(c) \subseteq Pend(c)' \cup {t}
  BY <1>c, <1>d
<1>11. \A c \in NoteCalls : c # n.call => Pend(c) = Pend(c)'
  <2> SUFFICES ASSUME NEW c \in NoteCalls, c # n.call PROVE Pend(c) \subseteq Pend(c)' /\ Pend(c)' \subseteq Pend(c)
    OBVIOUS
  <2> QED
    BY <1>c, <1>d
<1>12. n.call # "readd" => t \in Confirmed
  BY <1>0, <1>1, <1>4 DEF MpOrder
<1>13. ASSUME n.call = "remove", NEW y \in Confirmed, Ins(y) \cap Outs(t) # {} PROVE y \in Pend("remove")'
  <2>1. 1 \in DOMAIN mpTodo /\ mpTodo[1].call = "remove" /\ mpTodo[1].tx = t
    BY <1>0, <1>1, <1>4, <1>13
  <2>2. PICK j \in DOMAIN mpTodo : j > 1 /\ mpTodo[j] = Note("remove", y)
    BY <2>1, <1>13 DEF MpOrder
  <2>3. j # 1
    BY <2>1, <2>2, <1>0, <1>7
  <2>4. j - 1 \in DOMAIN mpTodo' /\ mpTodo'[j - 1] = Note("remove", y)
    BY <2>2, <2>3, <1>0, <1>6
  <2> QED
    BY <2>4 DEF Pend, Note
<1> QED
  BY <1>3, <1>9, <1>10, <1>11, <1>12, <1>13

\* A block that is connected extends the chain, and its calls are in the order of the block.
LEMMA MpConnect ==
    ASSUME MpRest, MpChainOK, NEW b \in Seq(Tx), ConnectBlockTxs(b)
    PROVE  /\ MpChainOK' /\ MpOrder' /\ Confirmed' = Confirmed \cup Range(b)
           /\ \A o \in Coins : o \in Coins' \/ \E x \in Range(b) : o \in Ins(x)
           /\ mpCurrent => Pend("remove")' = Range(b) /\ Pend("doubles")' = Range(b)
<1> DEFINE C == Confirmed
<1>1. /\ Range(b) \cap Confirmed = {}
      /\ \A i \in DOMAIN b : Ins(b[i]) \subseteq Coins \cup UNION {Outs(b[j]) : j \in 1..(i - 1)}
      /\ \A i, j \in DOMAIN b : i # j => Ins(b[i]) \cap Ins(b[j]) = {}
      /\ mpChain' = Append(mpChain, b)
      /\ mpTodo' = IF mpCurrent THEN ConnectNotes(b) ELSE <<>>
  BY DEF ConnectBlockTxs
<1>2. /\ Confirmed \in SUBSET Tx
      /\ \A t \in Confirmed : \A o \in Ins(t) : \A p \in Tx : o \in Outs(p) => p \in Confirmed
      /\ \A t, u \in Confirmed : Ins(t) \cap Ins(u) # {} => t = u
      /\ \A o : o \in Coins <=> /\ o \in BaseCoins \/ \E q \in Confirmed : o \in Outs(q)
                                /\ \A y \in Confirmed : o \notin Ins(y)
  BY MpChainFacts
<1>3. PICK m \in Nat : /\ m = Len(mpChain) /\ DOMAIN mpChain = 1..m /\ DOMAIN mpChain' = 1..(m + 1) /\ mpChain'[m + 1] = b
                       /\ \A i \in 1..m : mpChain'[i] = mpChain[i]
  <2>1. PICK S : S = Seq(Tx)
    OBVIOUS
  <2>2. mpChain \in Seq(S) /\ b \in S
    BY <2>1 DEF MpRest
  <2>3. /\ Len(mpChain) \in Nat /\ DOMAIN mpChain = 1..Len(mpChain) /\ DOMAIN Append(mpChain, b) = 1..(Len(mpChain) + 1)
        /\ Append(mpChain, b)[Len(mpChain) + 1] = b /\ \A i \in 1..Len(mpChain) : Append(mpChain, b)[i] = mpChain[i]
    BY <2>2
  <2> QED
    BY <2>3, <1>1
<1>4. DOMAIN b = 1..Len(b) /\ Len(b) \in Nat /\ \A i \in DOMAIN b : b[i] \in Tx
  OBVIOUS
<1>5. \A i \in 1..(m + 1) : i = m + 1 \/ i \in 1..m
  BY <1>3
<1>6. \A i \in 1..m : i \in 1..(m + 1) /\ m + 1 \in 1..(m + 1) /\ i # m + 1
  BY <1>3
<1>m. m + 1 \in 1..(m + 1)
  BY <1>3
<1>7. Confirmed' = Confirmed \cup Range(b)
  <2>1. \A x : x \in Confirmed' <=> \E i \in 1..(m + 1) : x \in Range(mpChain'[i])
    BY <1>3 DEF Confirmed
  <2>2. \A x : x \in Confirmed <=> \E i \in 1..m : x \in Range(mpChain[i])
    BY <1>3 DEF Confirmed
  <2>3. \A x : x \in Confirmed' <=> x \in Confirmed \/ x \in Range(b)
    <3> TAKE x
    <3>1. ASSUME x \in Confirmed' PROVE x \in Confirmed \/ x \in Range(b)
      BY <3>1, <2>1, <2>2, <1>3, <1>5
    <3>2. ASSUME x \in Confirmed PROVE x \in Confirmed'
      BY <3>2, <2>1, <2>2, <1>3, <1>6
    <3>3. ASSUME x \in Range(b) PROVE x \in Confirmed'
      BY <3>3, <2>1, <1>3, <1>m
    <3> QED
      BY <3>1, <3>2, <3>3
  <2> QED
    BY <2>3
<1>8. \A x \in Range(b) : \E i \in DOMAIN b : x = b[i]
  BY DEF Range
<1>9. \A i \in DOMAIN b : b[i] \in Range(b)
  BY DEF Range
<1>10. Range(b) \subseteq Tx
  BY <1>4, <1>8
\* An input of the block comes from the coins or from an earlier transaction of it.
<1>11. ASSUME NEW i \in DOMAIN b, NEW o \in Ins(b[i])
       PROVE  o \in Coins \/ \E j \in DOMAIN b : j < i /\ o \in Outs(b[j])
  <2>1. o \in Coins \/ \E j \in 1..(i - 1) : o \in Outs(b[j])
    BY <1>1
  <2>2. \A j \in 1..(i - 1) : j \in DOMAIN b /\ j < i
    BY <1>4
  <2> QED
    BY <2>1, <2>2
\* The chain spends no output of the block.
<1>12. \A t \in Confirmed, x \in Range(b) : Ins(t) \cap Outs(x) = {}
  BY <1>1, <1>2, <1>10
<1>13. \A i \in DOMAIN mpChain' : \A t \in Range(mpChain'[i]) : \A o \in Ins(t) :
          o \in BaseCoins \/ \E k \in 1..i : \E q \in Range(mpChain'[k]) : o \in Outs(q)
  <2> SUFFICES ASSUME NEW i \in 1..(m + 1), NEW t \in Range(mpChain'[i]), NEW o \in Ins(t), o \notin BaseCoins
               PROVE  \E k \in 1..i : \E q \in Range(mpChain'[k]) : o \in Outs(q)
    BY <1>3
  <2>1. CASE i \in 1..m
    <3>1. mpChain'[i] = mpChain[i] /\ i \in DOMAIN mpChain
      BY <2>1, <1>3
    <3>2. PICK k \in 1..i : \E q \in Range(mpChain[k]) : o \in Outs(q)
      BY <3>1 DEF MpChainOK
    <3>3. k \in 1..m
      BY <2>1, <1>3
    <3> QED
      BY <3>2, <3>3, <1>3
  <2>2. CASE i = m + 1
    <3>1. PICK j \in DOMAIN b : t = b[j]
      BY <2>2, <1>3, <1>8
    <3>2. CASE o \in Coins
      <4>1. PICK q \in Confirmed : o \in Outs(q)
        BY <3>2, <1>2
      <4>2. PICK k \in 1..m : q \in Range(mpChain[k])
        BY <1>3 DEF Confirmed
      <4>3. k \in 1..i /\ q \in Range(mpChain'[k])
        BY <4>2, <2>2, <1>3, <1>6
      <4> QED
        BY <4>1, <4>3
    <3>3. CASE \E l \in DOMAIN b : l < j /\ o \in Outs(b[l])
      <4>1. PICK l \in DOMAIN b : o \in Outs(b[l])
        BY <3>3
      <4>2. b[l] \in Range(mpChain'[m + 1]) /\ m + 1 \in 1..i
        BY <2>2, <1>3, <1>9, <1>m
      <4> QED
        BY <4>1, <4>2
    <3> QED
      BY <3>1, <3>2, <3>3, <1>11
  <2> QED
    BY <2>1, <2>2, <1>5
<1>14. \A i, k \in DOMAIN mpChain' : i # k => Range(mpChain'[i]) \cap Range(mpChain'[k]) = {}
  <2> SUFFICES ASSUME NEW i \in 1..(m + 1), NEW k \in 1..(m + 1), i # k PROVE Range(mpChain'[i]) \cap Range(mpChain'[k]) = {}
    BY <1>3
  <2>1. CASE i \in 1..m /\ k \in 1..m
    BY <2>1, <1>3 DEF MpChainOK
  <2>2. ASSUME NEW j \in 1..m PROVE Range(mpChain'[j]) \cap Range(mpChain'[m + 1]) = {}
    <3>1. Range(mpChain'[j]) \subseteq Confirmed
      BY <1>3 DEF Confirmed
    <3> QED
      BY <3>1, <1>1, <1>3
  <2> QED
    BY <2>1, <2>2, <1>5
<1>15. \A t, u \in Confirmed' : Ins(t) \cap Ins(u) # {} => t = u
  <2>1. ASSUME NEW t \in Range(b), NEW u \in Range(b), Ins(t) \cap Ins(u) # {} PROVE t = u
    BY <2>1, <1>1, <1>8
  <2>2. ASSUME NEW t \in Range(b), NEW u \in Confirmed, NEW o \in Ins(t), o \in Ins(u) PROVE FALSE
    <3>1. PICK i \in DOMAIN b : t = b[i]
      BY <1>8
    <3>2. o \notin Coins
      BY <2>2, <1>2
    <3>3. PICK j \in DOMAIN b : o \in Outs(b[j])
      BY <3>1, <3>2, <1>11
    <3> QED
      BY <3>3, <1>9, <1>12, <2>2
  <2> QED
    BY <2>1, <2>2, <1>2, <1>7
<1>16. MpChainOK'
  BY <1>13, <1>14, <1>15 DEF MpChainOK, Ins, Outs
<1>17. \A o \in Coins : o \in Coins' \/ \E x \in Range(b) : o \in Ins(x)
  <2>1. \A o : o \in Coins' <=> /\ o \in BaseCoins \/ \E q \in Confirmed' : o \in Outs(q)
                                /\ \A y \in Confirmed' : o \notin Ins(y)
    BY DEF Coins, Ins, Outs
  <2> QED
    BY <2>1, <1>2, <1>7
<1>18. ASSUME mpCurrent PROVE MpOrder' /\ Pend("remove")' = Range(b) /\ Pend("doubles")' = Range(b)
  <2>1. mpTodo' = ConnectNotes(b) /\ DOMAIN mpTodo' = 1..(4 * Len(b))
    BY <1>1, <1>18, MpNotes
  <2>2. /\ \A j \in DOMAIN b : mpTodo'[4 * j - 3] = Note("remove", b[j]) /\ mpTodo'[4 * j - 2] = Note("doubles", b[j])
        /\ \A i \in DOMAIN mpTodo' : \E j \in DOMAIN b :
                 mpTodo'[i].tx = b[j] /\ mpTodo'[i].call # "readd" /\ (mpTodo'[i].call = "remove" => i = 4 * j - 3)
    <3>1. /\ \A j \in 1..Len(b) : /\ ConnectNotes(b)[4 * j - 3] = Note("remove", b[j])
                                  /\ ConnectNotes(b)[4 * j - 2] = Note("doubles", b[j])
          /\ \A i \in 1..(4 * Len(b)) : \E j \in 1..Len(b) :
                 /\ ConnectNotes(b)[i].tx = b[j] /\ ConnectNotes(b)[i].call # "readd"
                 /\ ConnectNotes(b)[i].call = "remove" => i = 4 * j - 3
      BY MpNotes
    <3> QED
      BY <3>1, <1>4, <2>1
  <2>3. \A j \in DOMAIN b : 4 * j - 3 \in DOMAIN mpTodo' /\ 4 * j - 2 \in DOMAIN mpTodo' /\ 4 * j - 2 > 4 * j - 3
    BY <1>4, <2>1
  <2>4. Pend("remove")' = Range(b) /\ Pend("doubles")' = Range(b)
    <3>1. \A c, x : x \in Pend(c)' <=> \E i \in DOMAIN mpTodo' : mpTodo'[i].call = c /\ mpTodo'[i].tx = x
      BY DEF Pend
    <3>2. \A c, x : x \in Pend(c)' => x \in Range(b)
      <4> SUFFICES ASSUME NEW c, NEW x, NEW i \in DOMAIN mpTodo', mpTodo'[i].tx = x PROVE x \in Range(b)
        BY <3>1
      <4> QED
        BY <2>2, <1>9
    <3>3. \A x \in Range(b) : x \in Pend("remove")' /\ x \in Pend("doubles")'
      <4> SUFFICES ASSUME NEW j \in DOMAIN b PROVE b[j] \in Pend("remove")' /\ b[j] \in Pend("doubles")'
        BY <1>8
      <4>1. /\ mpTodo'[4 * j - 3].call = "remove" /\ mpTodo'[4 * j - 3].tx = b[j]
            /\ mpTodo'[4 * j - 2].call = "doubles" /\ mpTodo'[4 * j - 2].tx = b[j]
        <5>1. mpTodo'[4 * j - 3] = Note("remove", b[j]) /\ mpTodo'[4 * j - 2] = Note("doubles", b[j])
          BY <2>2
        <5> QED
          BY <5>1 DEF Note
      <4> QED
        BY <3>1, <4>1, <2>3
    <3> QED
      BY <3>2, <3>3
  <2>5. \A i \in DOMAIN mpTodo' : IF mpTodo'[i].call = "readd" THEN mpTodo'[i].tx \notin Confirmed' ELSE mpTodo'[i].tx \in Confirmed'
    BY <2>2, <1>7, <1>9
  <2>6. ASSUME NEW i \in DOMAIN mpTodo', mpTodo'[i].call = "remove"
        PROVE  /\ \E j \in DOMAIN mpTodo' : j > i /\ mpTodo'[j] = Note("doubles", mpTodo'[i].tx)
               /\ \A t \in Confirmed' : Ins(t) \cap Outs(mpTodo'[i].tx) # {} =>
                    \E j \in DOMAIN mpTodo' : j > i /\ mpTodo'[j] = Note("remove", t)
    <3>1. PICK j \in DOMAIN b : mpTodo'[i].tx = b[j] /\ i = 4 * j - 3
      BY <2>2, <2>6
    <3>2. 4 * j - 2 \in DOMAIN mpTodo' /\ 4 * j - 2 > i /\ mpTodo'[4 * j - 2] = Note("doubles", mpTodo'[i].tx)
      BY <3>1, <2>2, <2>3
    <3>3. ASSUME NEW t \in Confirmed', Ins(t) \cap Outs(b[j]) # {}
          PROVE  \E k \in DOMAIN mpTodo' : k > i /\ mpTodo'[k] = Note("remove", t)
      <4>1. PICK o : o \in Ins(t) /\ o \in Outs(b[j])
        BY <3>3
      <4>2. t \notin Confirmed
        BY <3>1, <3>3, <1>9, <1>12
      <4>3. PICK l \in DOMAIN b : t = b[l]
        BY <4>2, <1>7, <1>8
      <4>4. o \notin Coins
        <5>1. o \notin BaseCoins
          BY <4>1, <1>4, MpTxFacts
        <5>2. ASSUME NEW q \in Confirmed, o \in Outs(q) PROVE FALSE
          <6>1. q = b[j]
            BY <5>2, <4>1, <1>2, <1>4, MpTxFacts
          <6> QED
            BY <6>1, <1>1, <1>9
        <5> QED
          BY <5>1, <5>2, <1>2
      <4>5. PICK k \in DOMAIN b : k < l /\ o \in Outs(b[k])
        BY <4>1, <4>3, <4>4, <1>11
      <4>6. b[k] = b[j]
        BY <4>1, <4>5, <1>4, MpTxFacts
      <4>7. k = j
        BY <4>6, <1>1, <1>4, MpTxFacts
      <4>8. 4 * l - 3 \in DOMAIN mpTodo' /\ mpTodo'[4 * l - 3] = Note("remove", t)
        BY <4>3, <2>2, <2>3
      <4>9. 4 * l - 3 > i
        BY <4>5, <4>7, <3>1, <1>4
      <4> QED
        BY <4>8, <4>9
    <3> QED
      BY <3>1, <3>2, <3>3
  <2>7. MpOrder'
    BY <2>5, <2>6 DEF MpOrder, Ins, Outs, Note
  <2> QED
    BY <2>4, <2>7
<1>19. ASSUME ~mpCurrent PROVE MpOrder'
  <2>1. mpTodo' = <<>>
    BY <1>1, <1>19
  <2> QED
    BY <2>1 DEF MpOrder
<1> QED
  BY <1>7, <1>16, <1>17, <1>18, <1>19

\* A block that is disconnected leaves the rest of the chain, and its transactions are to be added again.
LEMMA MpDisconnect ==
    ASSUME MpRest, MpChainOK, DisconnectBlockTxs
    PROVE  /\ MpChainOK' /\ MpOrder' /\ Confirmed' \subseteq Confirmed
           /\ \A o \in Coins : o \in Coins' \/ \E x \in Pend("readd")' : o \in Outs(x)
<1>1. /\ mpChain # <<>> /\ mpChain' = Front(mpChain)
      /\ mpTodo' = [i \in DOMAIN Last(mpChain) |-> Note("readd", Last(mpChain)[i])]
  BY DEF DisconnectBlockTxs
<1>2. PICK m \in Nat : /\ DOMAIN mpChain = 1..(m + 1) /\ DOMAIN mpChain' = 1..m /\ Last(mpChain) = mpChain[m + 1]
                       /\ \A i \in 1..m : mpChain'[i] = mpChain[i]
  <2>1. PICK S : S = Seq(Tx)
    OBVIOUS
  <2>2. mpChain \in Seq(S)
    BY <2>1 DEF MpRest
  <2>3. PICK c \in Seq(S) : c = mpChain
    BY <2>2
  <2>4. Len(c) \in Nat \ {0} /\ DOMAIN c = 1..Len(c)
    BY <1>1, <2>3
  <2>5. /\ SubSeq(c, 1, Len(c) - 1) \in Seq(S) /\ Len(SubSeq(c, 1, Len(c) - 1)) = Len(c) - 1
        /\ \A i \in 1..(Len(c) - 1) : SubSeq(c, 1, Len(c) - 1)[i] = c[i]
    BY <2>4
  <2>6. DOMAIN SubSeq(c, 1, Len(c) - 1) = 1..(Len(c) - 1)
    BY <2>5
  <2>7. Len(c) - 1 \in Nat /\ (Len(c) - 1) + 1 = Len(c)
    BY <2>4
  <2> QED
    BY <2>3, <2>4, <2>5, <2>6, <2>7, <1>1 DEF Front, Last
<1>3. PICK l : l = Last(mpChain)
  OBVIOUS
<1>4. \A i \in 1..m : i \in 1..(m + 1) /\ i # m + 1
  BY <1>2
<1>5. m + 1 \in 1..(m + 1) /\ \A i \in 1..(m + 1) : i = m + 1 \/ i \in 1..m
  BY <1>2
<1>6. \A x : x \in Confirmed' <=> \E i \in 1..m : x \in Range(mpChain[i])
  BY <1>2 DEF Confirmed
<1>7. \A x : x \in Confirmed <=> \E i \in 1..(m + 1) : x \in Range(mpChain[i])
  BY <1>2 DEF Confirmed
<1>8. Confirmed' \subseteq Confirmed /\ \A x \in Confirmed : x \in Confirmed' \/ x \in Range(l)
  <2>1. \A x \in Confirmed' : x \in Confirmed
    BY <1>4, <1>6, <1>7
  <2>2. \A x \in Confirmed : x \in Confirmed' \/ x \in Range(l)
    BY <1>2, <1>3, <1>5, <1>6, <1>7
  <2> QED
    BY <2>1, <2>2
<1>9. Range(l) \cap Confirmed' = {}
  <2> SUFFICES ASSUME NEW x \in Range(l), NEW i \in 1..m, x \in Range(mpChain[i]) PROVE FALSE
    BY <1>6
  <2>1. i \in DOMAIN mpChain /\ m + 1 \in DOMAIN mpChain /\ i # m + 1 /\ x \in Range(mpChain[m + 1])
    BY <1>2, <1>3, <1>4, <1>5
  <2> QED
    BY <2>1 DEF MpChainOK
<1>10. MpChainOK'
  <2>1. \A i \in DOMAIN mpChain' : \A t \in Range(mpChain'[i]) : \A o \in Ins(t) :
          o \in BaseCoins \/ \E k \in 1..i : \E q \in Range(mpChain'[k]) : o \in Outs(q)
    <3> SUFFICES ASSUME NEW i \in 1..m, NEW t \in Range(mpChain[i]), NEW o \in Ins(t), o \notin BaseCoins
                 PROVE  \E k \in 1..i : \E q \in Range(mpChain'[k]) : o \in Outs(q)
      BY <1>2
    <3>1. i \in DOMAIN mpChain
      BY <1>2, <1>4
    <3>2. PICK k \in 1..i : \E q \in Range(mpChain[k]) : o \in Outs(q)
      BY <3>1 DEF MpChainOK
    <3>3. k \in 1..m
      BY <1>2
    <3> QED
      BY <3>2, <3>3, <1>2
  <2>2. \A i, k \in DOMAIN mpChain' : i # k => Range(mpChain'[i]) \cap Range(mpChain'[k]) = {}
    BY <1>2, <1>4 DEF MpChainOK
  <2>3. \A t, u \in Confirmed' : Ins(t) \cap Ins(u) # {} => t = u
    BY <1>8 DEF MpChainOK
  <2> QED
    BY <2>1, <2>2, <2>3 DEF MpChainOK, Ins, Outs
<1>11. DOMAIN mpTodo' = DOMAIN l /\ \A i \in DOMAIN l : mpTodo'[i].call = "readd" /\ mpTodo'[i].tx = l[i]
  BY <1>1, <1>3 DEF Note
<1>12. MpOrder'
  <2>1. \A i \in DOMAIN mpTodo' : mpTodo'[i].call = "readd" /\ mpTodo'[i].tx \notin Confirmed'
    BY <1>9, <1>11 DEF Range
  <2> QED
    BY <2>1 DEF MpOrder
<1>13. \A x \in Range(l) : x \in Pend("readd")'
  BY <1>11 DEF Pend, Range
<1>14. \A o \in Coins : o \in Coins' \/ \E x \in Range(l) : o \in Outs(x)
  <2>1. \A o : o \in Coins' <=> /\ o \in BaseCoins \/ \E q \in Confirmed' : o \in Outs(q)
                                /\ \A y \in Confirmed' : o \notin Ins(y)
    BY DEF Coins, Ins, Outs
  <2>2. \A o : o \in Coins <=> /\ o \in BaseCoins \/ \E q \in Confirmed : o \in Outs(q)
                               /\ \A y \in Confirmed : o \notin Ins(y)
    BY DEF Coins
  <2> QED
    BY <2>1, <2>2, <1>8
<1> QED
  BY <1>8, <1>10, <1>12, <1>13, <1>14

-----------------------------------------------------------------------------
(* Where the inputs of the pool come from *)

\* An accepted transaction, whose inputs are in what was read of the chain or in the pool.
LEMMA MpAccept ==
    ASSUME MpTablesOK, MpRest, MpChainOK, MpOrder, MpPlaces, NEW t, NEW K, Accepts(t, K), \A o \in K : Read(o),
           mpChain' = mpChain, Pend("remove")' = Pend("remove"), Pend("doubles")' = Pend("doubles"),
           Pend("readd") \subseteq Pend("readd")' \cup {t}
    PROVE  MpPlaces'
<1>1. /\ t \in Tx /\ t \notin mpPool /\ (Spenders(t) # {} => ValidateReplacement(t))
      /\ \A o \in Ins(t) : o \in K \/ \E p \in mpPool : o \in Outs(p)
      /\ mpPool' = (mpPool \ Evicted(t)) \cup {t}
  BY DEF Accepts, MissingParents
<1>2. /\ Confirmed \in SUBSET Tx
      /\ \A x \in Confirmed : \A o \in Ins(x) : \A p \in Tx : o \in Outs(p) => p \in Confirmed
      /\ \A x, u \in Confirmed : Ins(x) \cap Ins(u) # {} => x = u
      /\ \A o \in Coins : \A y \in Confirmed : o \notin Ins(y)
  BY MpChainFacts
<1>3. /\ Pend("remove") \subseteq Confirmed /\ Pend("remove") \subseteq Pend("doubles") /\ Pend("readd") \cap Confirmed = {}
      /\ Pend("readd") \subseteq Tx
      /\ \A x \in Pend("remove") : \A y \in Confirmed : Ins(y) \cap Outs(x) # {} => y \in Pend("remove")
  BY MpPend DEF NoteCalls
<1>4. Confirmed' = Confirmed /\ Coins' = Coins
  BY DEF Confirmed, Coins, Ins, Outs
<1>5. Whole(Evicted(t)) /\ mpPool \subseteq Tx
  BY <1>1, MpEvicted DEF MpTablesOK
<1>6. mpPool \cap Confirmed \subseteq Pend("remove") /\ \A u \in mpPool : u \in Pend("remove") \/ \A o \in Ins(u) : Supplied(o)
  BY DEF MpPlaces
<1>7. \A o : Read(o) <=> \/ o \in Coins
                         \/ \E x \in Pend("remove") : o \in Ins(x)
                         \/ \E x \in Pend("readd") : o \in Outs(x)
  BY DEF Read
<1>8. t \in Confirmed => t \in Pend("remove")
  <2> SUFFICES ASSUME t \in Confirmed PROVE t \in Pend("remove")
    OBVIOUS
  <2>1. PICK o : o \in Ins(t)
    BY <1>1, MpTxFacts
  <2>2. o \notin Coins
    BY <2>1, <1>2
  <2>3. ASSUME NEW x \in Pend("remove"), o \in Ins(x) PROVE t \in Pend("remove")
    BY <2>1, <2>3, <1>2, <1>3
  <2>4. ASSUME NEW x \in Pend("readd"), o \in Outs(x) PROVE FALSE
    BY <2>1, <2>4, <1>2, <1>3
  <2>5. ASSUME NEW p \in mpPool, o \in Outs(p) PROVE t \in Pend("remove")
    <3>1. p \in Confirmed
      BY <2>1, <2>5, <1>2, <1>5
    <3>2. p \in Pend("remove")
      BY <3>1, <1>6
    <3> QED
      BY <3>2, <2>1, <2>5, <1>3
  <2> QED
    BY <2>1, <2>2, <2>3, <2>4, <2>5, <1>1, <1>7
<1>9. Parents(t) \cap Evicted(t) = {}
  <2>1. CASE Spenders(t) = {}
    BY <2>1 DEF Evicted
  <2>2. CASE Spenders(t) # {}
    <3>1. TxAncestors(t) \cap TxConflicts(t) = {} /\ Evicted(t) = TxConflicts(t)
      BY <2>2, <1>1 DEF ValidateReplacement, Evicted
    <3>2. Parents(t) \subseteq TxAncestors(t)
      <4>1. PICK next : next = [u \in Tx |-> Parents(u)]
        OBVIOUS
      <4>2. \A u \in Tx : Parents(u) \in SUBSET Tx
        BY <1>5 DEF Parents
      <4>3. next \in [Tx -> SUBSET Tx] /\ Parents(t) \in SUBSET Tx
        BY <4>1, <4>2, <1>1
      <4>4. Parents(t) \subseteq Reach(Parents(t), next)
        BY <4>3, ReachFacts
      <4> QED
        BY <4>1, <4>4 DEF TxAncestors
    <3> QED
      BY <3>1, <3>2
  <2> QED
    BY <2>1, <2>2
<1>10. \A o : \/ o \in Coins \/ \E p \in mpPool' : o \in Outs(p)
              \/ \E x \in Pend("doubles") : o \in Ins(x)
              \/ \E x \in Pend("readd") : o \in Outs(x)
              => Supplied(o)'
  <2>1. \A o : Supplied(o)' <=> \/ o \in Coins \/ \E p \in mpPool' : o \in Outs(p)
                                \/ \E x \in Pend("doubles") : o \in Ins(x)
                                \/ \E x \in Pend("readd")' : o \in Outs(x)
    BY <1>4 DEF Supplied, Ins, Outs
  <2>2. t \in mpPool'
    BY <1>1
  <2> QED
    BY <2>1, <2>2
<1>11. \A o \in Ins(t) : Supplied(o)'
  <2> SUFFICES ASSUME NEW o \in Ins(t) PROVE Supplied(o)'
    OBVIOUS
  <2>1. CASE o \in K
    <3>1. Read(o)
      BY <2>1
    <3> QED
      BY <3>1, <1>3, <1>7, <1>10
  <2>2. ASSUME NEW p \in mpPool, o \in Outs(p) PROVE Supplied(o)'
    <3>1. p \in Parents(t)
      BY <2>2 DEF Parents
    <3>2. p \in mpPool'
      BY <3>1, <1>1, <1>9
    <3> QED
      BY <3>2, <2>2, <1>10
  <2> QED
    BY <2>1, <2>2, <1>1
<1>12. ASSUME NEW u \in mpPool, u \notin Evicted(t), u \notin Pend("remove"), NEW o \in Ins(u) PROVE Supplied(o)'
  <2>1. \/ o \in Coins \/ \E p \in mpPool : o \in Outs(p)
        \/ \E x \in Pend("doubles") : o \in Ins(x)
        \/ \E x \in Pend("readd") : o \in Outs(x)
    BY <1>6, <1>12 DEF Supplied
  <2>2. ASSUME NEW p \in mpPool, o \in Outs(p) PROVE p \in mpPool'
    BY <2>2, <1>1, <1>5, <1>12 DEF Whole
  <2> QED
    BY <2>1, <2>2, <1>10
<1>13. mpPool' \cap Confirmed' \subseteq Pend("remove")'
  BY <1>1, <1>4, <1>6, <1>8
<1>14. \A u \in mpPool' : u \in Pend("remove")' \/ \A o \in Ins(u) : Supplied(o)'
  BY <1>1, <1>11, <1>12
<1> QED
  BY <1>13, <1>14 DEF MpPlaces, Ins

\* Transactions D leave the pool, each with all that spend it but for outputs that stay supplied.
LEMMA MpLeave ==
    ASSUME MpPlaces, NEW D, mpPool' = mpPool \ D, Confirmed' = Confirmed, Coins' = Coins,
           mpPool' \cap Pend("remove") \subseteq Pend("remove")',
           \A u \in mpPool' : \A o \in Ins(u) :
              /\ \A p \in mpPool \cap D : o \in Outs(p) => Supplied(o)'
              /\ u \notin Pend("remove") => \A x \in Pend("doubles") \ Pend("doubles")' : o \notin Ins(x)
              /\ \A x \in Pend("readd") \ Pend("readd")' : o \notin Outs(x)
    PROVE  MpPlaces'
<1>1. mpPool' \cap Confirmed' \subseteq Pend("remove")'
  BY DEF MpPlaces
<1>2. ASSUME NEW u \in mpPool', u \notin Pend("remove")', NEW o \in Ins(u) PROVE Supplied(o)'
  <2>1. u \in mpPool /\ u \notin Pend("remove")
    BY <1>2
  <2>2. \/ o \in Coins \/ \E p \in mpPool : o \in Outs(p)
        \/ \E x \in Pend("doubles") : o \in Ins(x)
        \/ \E x \in Pend("readd") : o \in Outs(x)
    BY <2>1, <1>2 DEF MpPlaces, Supplied
  <2>3. /\ o \in Coins' => Supplied(o)'
        /\ \A p \in mpPool' : o \in Outs(p) => Supplied(o)'
        /\ \A x \in Pend("doubles")' : o \in Ins(x) => Supplied(o)'
        /\ \A x \in Pend("readd")' : o \in Outs(x) => Supplied(o)'
    BY DEF Supplied, Ins, Outs
  <2>4. ASSUME NEW p \in mpPool, o \in Outs(p) PROVE Supplied(o)'
    BY <1>2, <2>3, <2>4
  <2>5. ASSUME NEW x \in Pend("doubles"), o \in Ins(x) PROVE Supplied(o)'
    BY <1>2, <2>1, <2>3, <2>5
  <2>6. ASSUME NEW x \in Pend("readd"), o \in Outs(x) PROVE Supplied(o)'
    BY <1>2, <2>3, <2>6
  <2> QED
    BY <2>2, <2>3, <2>4, <2>5, <2>6
<1> QED
  BY <1>1, <1>2 DEF MpPlaces, Ins

\* A whole set leaves the pool: what stays spends nothing of it.
LEMMA MpWhole ==
    ASSUME NEW D, Whole(D \cap mpPool), mpPool' = mpPool \ D
    PROVE  \A u \in mpPool' : \A o \in Ins(u) : \A p \in mpPool \cap D : o \notin Outs(p)
BY DEF Whole

\* The pool after one call of the notification handler.
LEMMA MpHandlePlaces ==
    ASSUME MpTablesOK, MpRest, MpChainOK, MpOrder, MpPlaces, HandleNotification
    PROVE  mpDropped' \/ MpPlaces'
<1>0. PICK n, t : n = Head(mpTodo) /\ t = n.tx
  OBVIOUS
<1>1. /\ MpTablesOK' /\ MpRest' /\ UNCHANGED <<mpChain, mpSkipped>>
      /\ mpTodo # <<>> /\ mpTodo' = Tail(mpTodo) /\ n \in [call : NoteCalls, tx : Tx] /\ t \in Tx
      /\ n.call = "remove" => mpPool' = mpPool \ {t}
      /\ n.call = "doubles" => mpPool' = mpPool \ UNION {WithRedeemers(c) : c \in Spenders(t) \ {t}}
      /\ n.call \in {"orphan", "process"} => mpPool' = mpPool
      /\ n.call = "readd" => Accepts(t, Coins) \/ mpPool' = mpPool \ WithRedeemers(t) \/ mpDropped'
  BY <1>0, MpHandle
<1>2. /\ MpOrder' /\ Confirmed' = Confirmed /\ Coins' = Coins
      /\ \A c \in NoteCalls : Pend(c)' \subseteq Pend(c) /\ Pend(c) \subseteq Pend(c)' \cup {t}
      /\ \A c \in NoteCalls : c # n.call => Pend(c) = Pend(c)'
      /\ n.call # "readd" => t \in Confirmed
      /\ n.call = "remove" => \A y \in Confirmed : Ins(y) \cap Outs(t) # {} => y \in Pend("remove")'
  BY <1>0, <1>1, MpTake
<1>3. {"remove", "doubles", "readd"} \subseteq NoteCalls /\ n.call \in {"remove", "doubles", "orphan", "process", "readd"}
  BY <1>1 DEF NoteCalls
<1>4. /\ \A c \in {"remove", "doubles", "readd"} : Pend(c) \subseteq Pend(c)' \cup {t}
      /\ \A c \in {"remove", "doubles", "readd"} : c # n.call => Pend(c) = Pend(c)'
  BY <1>2, <1>3
<1>5. CASE n.call = "remove"
  <2>1. Pend("doubles")' = Pend("doubles") /\ Pend("readd")' = Pend("readd") /\ Pend("remove") \subseteq Pend("remove")' \cup {t}
    BY <1>4, <1>5
  <2>2. mpPool' = mpPool \ {t} /\ t \in Confirmed
    BY <1>1, <1>2, <1>5
  <2>3. Pend("remove")' \subseteq Pend("doubles")'
    <3>1. \A x \in Pend("remove")' : x \in Pend("doubles")'
      BY <1>1, <1>2, <2>1, MpPend DEF MpOrder, Pend, Note
    <3> QED
      BY <3>1
  <2>4. ASSUME NEW o \in Outs(t) PROVE Supplied(o)'
    <3>1. o \in Coins \/ \E y \in Confirmed : o \in Ins(y)
      BY <2>2, MpChainFacts
    <3>2. CASE o \in Coins
      BY <3>2, <1>2 DEF Supplied
    <3>3. ASSUME NEW y \in Confirmed, o \in Ins(y) PROVE Supplied(o)'
      <4>1. y \in Pend("remove")'
        BY <3>3, <2>4, <1>2, <1>5
      <4>2. y \in Pend("doubles")'
        BY <4>1, <2>3
      <4> QED
        BY <4>2, <3>3 DEF Supplied, Ins
    <3> QED
      BY <3>1, <3>2, <3>3
  <2>5. mpPool' \cap Pend("remove") \subseteq Pend("remove")'
    BY <2>1, <2>2
  <2>6. \A u \in mpPool' : \A o \in Ins(u) :
              /\ \A p \in mpPool \cap {t} : o \in Outs(p) => Supplied(o)'
              /\ u \notin Pend("remove") => \A x \in Pend("doubles") \ Pend("doubles")' : o \notin Ins(x)
              /\ \A x \in Pend("readd") \ Pend("readd")' : o \notin Outs(x)
    BY <2>1, <2>4
  <2>7. MpPlaces'
    BY <1>2, <2>2, <2>5, <2>6, MpLeave
  <2> QED
    BY <2>7
<1>6. CASE n.call = "doubles"
  <2>1. Pend("remove")' = Pend("remove") /\ Pend("readd")' = Pend("readd") /\ Pend("doubles") \subseteq Pend("doubles")' \cup {t}
    BY <1>4, <1>6
  <2>2. PICK D : D = UNION {WithRedeemers(c) : c \in Spenders(t) \ {t}}
    OBVIOUS
  <2>3. mpPool' = mpPool \ D /\ t \in Confirmed
    BY <1>1, <1>2, <1>6, <2>2
  <2>4. Whole(D) /\ Spenders(t) \ {t} \subseteq D
    BY <1>1, <2>2, MpConflicts
  <2>5. \A u \in mpPool : Ins(t) \cap Ins(u) # {} => u \in Spenders(t)
    BY <1>1, MpRedeemers
  <2>6. Whole(D \cap mpPool)
    BY <2>4 DEF Whole
  <2>7. \A u \in mpPool' : \A o \in Ins(u) : \A p \in mpPool \cap D : o \notin Outs(p)
    BY <2>3, <2>6, MpWhole
  <2>8. ASSUME NEW u \in mpPool', NEW o \in Ins(u), u \notin Pend("remove"), NEW x \in Pend("doubles") \ Pend("doubles")', o \in Ins(x)
        PROVE  FALSE
    <3>1. x = t
      BY <2>1
    <3>2. u \in Spenders(t) /\ u \in mpPool /\ u \notin D
      BY <3>1, <2>3, <2>5, <2>8
    <3>3. u = t
      BY <3>2, <2>4
    <3>4. t \in Pend("remove")
      BY <3>2, <3>3, <2>3 DEF MpPlaces
    <3> QED
      BY <3>3, <3>4, <2>8
  <2>9. \A u \in mpPool' : \A o \in Ins(u) :
              /\ \A p \in mpPool \cap D : o \in Outs(p) => Supplied(o)'
              /\ u \notin Pend("remove") => \A x \in Pend("doubles") \ Pend("doubles")' : o \notin Ins(x)
              /\ \A x \in Pend("readd") \ Pend("readd")' : o \notin Outs(x)
    BY <2>1, <2>7, <2>8
  <2>10. mpPool' \cap Pend("remove") \subseteq Pend("remove")'
    BY <2>1
  <2>11. MpPlaces'
    BY <1>2, <2>3, <2>9, <2>10, MpLeave
  <2> QED
    BY <2>11
<1>7. CASE n.call \in {"orphan", "process"}
  <2>1. Pend("remove")' = Pend("remove") /\ Pend("readd")' = Pend("readd") /\ Pend("doubles")' = Pend("doubles")
    BY <1>4, <1>7
  <2>2. mpPool' = mpPool \ {}
    BY <1>1, <1>7
  <2>3. \A u \in mpPool' : \A o \in Ins(u) :
              /\ \A p \in mpPool \cap {} : o \in Outs(p) => Supplied(o)'
              /\ u \notin Pend("remove") => \A x \in Pend("doubles") \ Pend("doubles")' : o \notin Ins(x)
              /\ \A x \in Pend("readd") \ Pend("readd")' : o \notin Outs(x)
    BY <2>1
  <2>4. mpPool' \cap Pend("remove") \subseteq Pend("remove")'
    BY <2>1
  <2>5. MpPlaces'
    BY <1>2, <2>2, <2>3, <2>4, MpLeave
  <2> QED
    BY <2>5
<1>8. CASE n.call = "readd"
  <2>1. Pend("remove")' = Pend("remove") /\ Pend("doubles")' = Pend("doubles") /\ Pend("readd") \subseteq Pend("readd")' \cup {t}
    BY <1>4, <1>8
  <2>2. CASE Accepts(t, Coins)
    <3>1. \A o \in Coins : Read(o)
      BY DEF Read
    <3>2. MpPlaces'
      BY <3>1, <2>1, <2>2, <1>1, MpAccept
    <3> QED
      BY <3>2
  <2>3. CASE mpPool' = mpPool \ WithRedeemers(t)
    <3>1. PICK D : D = WithRedeemers(t)
      OBVIOUS
    <3>2. Whole(D \cap mpPool) /\ \A u \in mpPool : Outs(t) \cap Ins(u) # {} => u \in D
      BY <1>1, <3>1, MpConflicts
    <3>3. mpPool' = mpPool \ D
      BY <2>3, <3>1
    <3>4. \A u \in mpPool' : \A o \in Ins(u) : \A p \in mpPool \cap D : o \notin Outs(p)
      BY <3>2, <3>3, MpWhole
    <3>5. \A u \in mpPool' : \A o \in Ins(u) : o \notin Outs(t)
      BY <3>2, <3>3
    <3>6. \A u \in mpPool' : \A o \in Ins(u) :
              /\ \A p \in mpPool \cap D : o \in Outs(p) => Supplied(o)'
              /\ u \notin Pend("remove") => \A x \in Pend("doubles") \ Pend("doubles")' : o \notin Ins(x)
              /\ \A x \in Pend("readd") \ Pend("readd")' : o \notin Outs(x)
      BY <2>1, <3>4, <3>5
    <3>7. mpPool' \cap Pend("remove") \subseteq Pend("remove")'
      BY <2>1
    <3>8. MpPlaces'
      BY <1>2, <3>3, <3>6, <3>7, MpLeave
    <3> QED
      BY <3>8
  <2> QED
    BY <2>2, <2>3, <1>1, <1>8
<1> QED
  BY <1>3, <1>5, <1>6, <1>7, <1>8

\* While nothing is pending, the inputs of the pool and what was read of the chain are there.
LEMMA MpMove ==
    ASSUME MpRest, MpPlaces, MpRead, mpTodo = <<>>, mpPool' = mpPool, mpJob' = mpJob,
           mpPool \cap Confirmed' \subseteq Pend("remove")',
           \A o \in Coins : \/ o \in Coins' \/ \E x \in Pend("remove")' : o \in Ins(x) /\ x \in Pend("doubles")'
                            \/ \E x \in Pend("readd")' : o \in Outs(x)
    PROVE  MpPlaces' /\ MpRead'
<1>1. \A c : Pend(c) = {}
  BY DEF Pend
<1>2. \A o \in Coins : Supplied(o)' /\ Read(o)'
  BY DEF Supplied, Read, Ins, Outs
<1>3. \A o : (\E p \in mpPool' : o \in Outs(p)) => Supplied(o)'
  BY DEF Supplied, Outs
<1>4. ASSUME NEW u \in mpPool', NEW o \in Ins(u) PROVE Supplied(o)'
  <2>1. o \in Coins \/ \E p \in mpPool : o \in Outs(p)
    BY <1>1 DEF MpPlaces, Supplied
  <2> QED
    BY <2>1, <1>2, <1>3
<1>5. MpPlaces'
  BY <1>4 DEF MpPlaces, Ins
<1>6. \A o : Read(o) => o \in Coins
  BY <1>1 DEF Read
<1>7. MpRead'
  BY <1>2, <1>6 DEF MpRead, Free
<1> QED
  BY <1>5, <1>7

-----------------------------------------------------------------------------
(* The invariant *)

\* At start the pool, the chain and the pending calls are empty.
LEMMA MpInit == MempoolInit => MpIInv
<1> SUFFICES ASSUME MempoolInit PROVE MpIInv
  OBVIOUS
<1>1. /\ mpPool = {} /\ outpoints = [o \in TxOutPoint |-> NoTx] /\ mpOrphans = [t \in {} |-> NoTx]
      /\ orphansByPrev = [o \in TxOutPoint |-> {}]
  BY DEF MempoolInit
<1>2. /\ pennyTotal = 0 /\ mpJob = Free /\ mpTodo = <<>> /\ mpChain = <<>> /\ mpMoves = 0
      /\ mpCurrent \in BOOLEAN /\ mpSkipped \in BOOLEAN /\ mpDropped \in BOOLEAN
  BY DEF MempoolInit
<1>3. MpTablesOK
  <2>1. DOMAIN mpOrphans = {} /\ Cardinality({}) = 0
    BY <1>1, FS_EmptySet
  <2>2. SpendsIndexed
    BY <1>1 DEF SpendsIndexed
  <2>3. OrphansIndexed
    <3>1. Cardinality(DOMAIN mpOrphans) <= MaxOrphanTxs
      BY <2>1, MempoolAssumption
    <3> QED
      BY <1>1, <2>1, <3>1 DEF OrphansIndexed
  <2> QED
    BY <1>1, <2>1, <2>2, <2>3 DEF MpTablesOK
<1>4. MpRest
  <2>1. mpMoves \in 0..MaxChainMoves
    BY <1>2, MempoolAssumption
  <2>2. mpTodo \in Seq([call : NoteCalls, tx : Tx]) /\ mpChain \in Seq(Seq(Tx))
    BY <1>2
  <2> QED
    BY <1>2, <2>1, <2>2 DEF MpRest, MpJobOK
<1>5. MpChainOK /\ MpOrder
  BY <1>2 DEF MpChainOK, MpOrder, Confirmed
<1>6. MpPlaces /\ MpRead
  BY <1>1, <1>2 DEF MpPlaces, MpRead
<1> QED
  BY <1>3, <1>4, <1>5, <1>6, MpParts DEF MpIInv

\* Every step keeps the inductive invariant.
LEMMA MpNext == MpIInv /\ [MempoolNext]_mpVars => MpIInv'
<1> DEFINE Excused == mpSkipped \/ mpDropped
<1> SUFFICES ASSUME MpIInv, [MempoolNext]_mpVars PROVE MpIInv'
  OBVIOUS
<1>1. MpTablesOK /\ MpRest /\ MpChainOK /\ MpOrder /\ (Excused \/ (MpPlaces /\ MpRead))
  BY MpParts DEF MpIInv
<1>2. MpTablesOK' /\ MpRest' => (MpTypes /\ SpendsIndexed /\ OrphansIndexed)'
  BY DEF MpTypes, MempoolTypeOK, MpTablesOK, MpRest
<1>3. ASSUME MpTablesOK', MpRest', MpChainOK', MpOrder', Excused' \/ (MpPlaces' /\ MpRead') PROVE MpIInv'
  BY <1>2, <1>3 DEF MpIInv
\* What holds as long as the chain and the pending calls are as they were.
<1>4. ASSUME UNCHANGED <<mpTodo, mpChain, mpSkipped, mpDropped>>
      PROVE  /\ MpChainOK' /\ MpOrder' /\ (Excused => Excused') /\ \A c : Pend(c)' = Pend(c)
             /\ Confirmed' = Confirmed /\ Coins' = Coins /\ \A o : Read(o) => Read(o)'
  <2>1. Confirmed' = Confirmed /\ Coins' = Coins
    BY <1>4 DEF Confirmed, Coins, Ins, Outs
  <2>2. \A c : Pend(c)' = Pend(c)
    BY <1>4 DEF Pend
  <2>3. MpChainOK' /\ MpOrder'
    BY <1>1, <1>4, <2>1 DEF MpChainOK, MpOrder, Ins, Outs, Note
  <2>4. \A o : Read(o) => Read(o)'
    BY <2>1, <2>2 DEF Read, Ins, Outs
  <2> QED
    BY <1>4, <2>1, <2>2, <2>3, <2>4
<1>5. ASSUME MpPlaces, UNCHANGED <<mpTodo, mpChain, mpSkipped, mpDropped>>, mpPool' = mpPool PROVE MpPlaces'
  <2>1. \A o : Supplied(o)' <=> Supplied(o)
    BY <1>4, <1>5 DEF Supplied, Ins, Outs
  <2> QED
    BY <2>1, <1>4, <1>5 DEF MpPlaces, Ins
<1>6. ASSUME NEW t, NEW K, Accepts(t, K), MpPlaces, \A o \in K : Read(o), UNCHANGED <<mpTodo, mpChain, mpSkipped, mpDropped>>
      PROVE  MpPlaces'
  <2>1. /\ mpChain' = mpChain /\ Pend("remove")' = Pend("remove") /\ Pend("doubles")' = Pend("doubles")
        /\ Pend("readd") \subseteq Pend("readd")' \cup {t}
    BY <1>4, <1>6
  <2> QED
    BY <1>1, <1>6, <2>1, MpAccept
<1>7. ASSUME \/ \E t \in Tx : BeginProcess(t, "rpc", NoTx) \/ \E p \in PeerTag : BeginProcess(t, "sync", p)
             \/ EndProcessOrphans \/ \E p \in PeerTag : RemoveOrphansByTag(p)
             \/ Decay \/ ChangeCurrent
      PROVE  MpIInv'
  <2>1. /\ MpTablesOK' /\ MpRest' /\ MpQuiet
        /\ mpJob' = Free \/ mpJob' = mpJob \/ mpJob'.call # "process" \/ mpJob'.coins = Coins
    BY <1>1, <1>7, MpQuietSteps
  <2>2. UNCHANGED <<mpTodo, mpChain, mpSkipped, mpDropped>> /\ mpPool' = mpPool
    BY <2>1 DEF MpQuiet
  <2>3. ASSUME MpPlaces, MpRead PROVE MpPlaces' /\ MpRead'
    <3>1. MpPlaces'
      BY <2>2, <2>3, <1>5
    <3>2. \A o \in Coins : Read(o)'
      BY <2>2, <1>4 DEF Read
    <3>3. ASSUME mpJob' # Free, mpJob'.call = "process", NEW o \in mpJob'.coins PROVE Read(o)'
      <4>1. CASE mpJob' = mpJob
        <5>1. Read(o)
          BY <2>3, <3>3, <4>1 DEF MpRead
        <5> QED
          BY <5>1, <2>2, <1>4
      <4>2. CASE mpJob'.coins = Coins
        BY <3>2, <3>3, <4>2
      <4> QED
        BY <2>1, <3>3, <4>1, <4>2
    <3>4. MpRead'
      BY <3>3 DEF MpRead, Free
    <3> QED
      BY <3>1, <3>4
  <2> QED
    BY <2>1, <2>2, <2>3, <1>1, <1>3, <1>4
<1>8. ASSUME EndProcess PROVE MpIInv'
  <2>1. /\ MpTablesOK' /\ MpRest' /\ UNCHANGED <<mpTodo, mpChain, mpSkipped, mpDropped>>
        /\ mpPool' = mpPool \/ Accepts(mpJob.tx, mpJob.coins)
        /\ mpJob' = Free \/ mpJob'.call = "orphans"
    BY <1>1, <1>8, MpEndProcess
  <2>2. ASSUME MpPlaces, MpRead PROVE MpPlaces' /\ MpRead'
    <3>1. \A o \in mpJob.coins : Read(o)
      BY <1>8, <2>2 DEF MpRead, EndProcess
    <3>2. MpPlaces'
      BY <2>1, <2>2, <3>1, <1>5, <1>6
    <3>3. MpRead'
      BY <2>1 DEF MpRead, Free
    <3> QED
      BY <3>2, <3>3
  <2> QED
    BY <2>1, <2>2, <1>1, <1>3, <1>4
<1>9. ASSUME ProcessOrphanOutput PROVE MpIInv'
  <2>1. /\ MpTablesOK' /\ MpRest' /\ UNCHANGED <<mpTodo, mpChain, mpSkipped, mpDropped>>
        /\ mpPool' = mpPool \/ \E t \in Tx : Accepts(t, Coins)
        /\ mpJob'.call = "orphans"
    BY <1>1, <1>9, MpProcessOrphan
  <2>2. ASSUME MpPlaces PROVE MpPlaces' /\ MpRead'
    <3>1. \A o \in Coins : Read(o)
      BY DEF Read
    <3>2. MpPlaces'
      BY <2>1, <2>2, <3>1, <1>5, <1>6
    <3>3. MpRead'
      BY <2>1 DEF MpRead, Free
    <3> QED
      BY <3>2, <3>3
  <2> QED
    BY <2>1, <2>2, <1>1, <1>3, <1>4
<1>10. ASSUME NEW b \in MpBlocks, ConnectBlockTxs(b) PROVE MpIInv'
  <2>0. b \in Seq(Tx)
    BY MempoolAssumption
  <2>1. MpTablesOK' /\ MpRest' /\ mpPool' = mpPool
    BY <1>1, <1>10, MpBlocksTypes
  <2>2. /\ MpChainOK' /\ MpOrder' /\ Confirmed' = Confirmed \cup Range(b)
        /\ \A o \in Coins : o \in Coins' \/ \E x \in Range(b) : o \in Ins(x)
        /\ mpCurrent => Pend("remove")' = Range(b) /\ Pend("doubles")' = Range(b)
    BY <1>1, <1>10, <2>0, MpConnect
  <2>3. mpTodo = <<>> /\ mpJob' = mpJob /\ mpDropped' = mpDropped /\ mpSkipped' = (mpSkipped \/ ~mpCurrent)
    BY <1>10 DEF ConnectBlockTxs, SyncIdle
  <2>4. Excused => Excused'
    BY <2>3
  <2>5. CASE ~mpCurrent
    <3>1. Excused'
      BY <2>3, <2>5
    <3> QED
      BY <2>1, <2>2, <3>1, <1>3
  <2>6. ASSUME mpCurrent, MpPlaces, MpRead PROVE MpPlaces' /\ MpRead'
    <3>1. mpPool \cap Confirmed = {}
      BY <2>3, <2>6 DEF MpPlaces, Pend
    <3>2. mpPool \cap Confirmed' \subseteq Pend("remove")'
      BY <3>1, <2>2, <2>6
    <3>3. \A o \in Coins : \/ o \in Coins' \/ \E x \in Pend("remove")' : o \in Ins(x) /\ x \in Pend("doubles")'
                           \/ \E x \in Pend("readd")' : o \in Outs(x)
      BY <2>2, <2>6
    <3> QED
      BY <3>2, <3>3, <2>1, <2>3, <2>6, <1>1, MpMove
  <2> QED
    BY <2>1, <2>2, <2>4, <2>5, <2>6, <1>1, <1>3
<1>11. ASSUME DisconnectBlockTxs PROVE MpIInv'
  <2>1. MpTablesOK' /\ MpRest' /\ mpPool' = mpPool
    BY <1>1, <1>11, MpBlocksTypes
  <2>2. /\ MpChainOK' /\ MpOrder' /\ Confirmed' \subseteq Confirmed
        /\ \A o \in Coins : o \in Coins' \/ \E x \in Pend("readd")' : o \in Outs(x)
    BY <1>1, <1>11, MpDisconnect
  <2>3. mpTodo = <<>> /\ mpJob' = mpJob /\ mpDropped' = mpDropped /\ mpSkipped' = mpSkipped
    BY <1>11 DEF DisconnectBlockTxs, SyncIdle
  <2>4. Excused => Excused'
    BY <2>3
  <2>6. ASSUME MpPlaces, MpRead PROVE MpPlaces' /\ MpRead'
    <3>1. mpPool \cap Confirmed = {}
      BY <2>3, <2>6 DEF MpPlaces, Pend
    <3>2. mpPool \cap Confirmed' \subseteq Pend("remove")'
      BY <3>1, <2>2
    <3>3. \A o \in Coins : \/ o \in Coins' \/ \E x \in Pend("remove")' : o \in Ins(x) /\ x \in Pend("doubles")'
                           \/ \E x \in Pend("readd")' : o \in Outs(x)
      BY <2>2
    <3> QED
      BY <3>2, <3>3, <2>1, <2>3, <2>6, <1>1, MpMove
  <2> QED
    BY <2>1, <2>2, <2>4, <2>6, <1>1, <1>3
<1>12. ASSUME HandleNotification PROVE MpIInv'
  <2>0. PICK n, t : n = Head(mpTodo) /\ t = n.tx
    OBVIOUS
  <2>1. /\ MpTablesOK' /\ MpRest' /\ UNCHANGED <<mpChain, mpSkipped>>
        /\ mpTodo # <<>> /\ mpTodo' = Tail(mpTodo)
        /\ (mpJob' = Free \/ mpJob'.call = "orphans") /\ (mpDropped => mpDropped')
    BY <1>1, <1>12, <2>0, MpHandle
  <2>2. MpOrder' /\ Confirmed' = Confirmed
    BY <1>1, <2>0, <2>1, MpTake
  <2>3. MpChainOK'
    BY <1>1, <2>1, <2>2 DEF MpChainOK, Ins, Outs
  <2>4. MpRead'
    BY <2>1 DEF MpRead, Free
  <2>5. MpPlaces => mpDropped' \/ MpPlaces'
    BY <1>1, <1>12, MpHandlePlaces
  <2>6. Excused => Excused'
    BY <2>1
  <2> QED
    BY <2>1, <2>2, <2>3, <2>4, <2>5, <2>6, <1>1, <1>3
<1>13. ASSUME UNCHANGED mpVars PROVE MpIInv'
  <2>1. /\ UNCHANGED mpTables /\ UNCHANGED <<mpTodo, mpChain, mpSkipped, mpDropped>>
        /\ UNCHANGED <<pennyTotal, mpJob, mpCurrent, mpMoves>>
    BY <1>13 DEF mpVars, mpTables
  <2>2. MpTablesOK' /\ mpPool' = mpPool
    BY <1>1, <2>1, MpSameTables
  <2>3. MpRest'
    BY <1>1, <2>1 DEF MpRest, MpJobOK, Free, ProcessJobs, OrphanJobs
  <2>4. MpRead => MpRead'
    BY <2>1, <1>4 DEF MpRead, Free
  <2>5. MpPlaces => MpPlaces'
    BY <2>1, <2>2, <1>5
  <2> QED
    BY <2>1, <2>2, <2>3, <2>4, <2>5, <1>1, <1>3, <1>4
<1> QED
  BY <1>7, <1>8, <1>9, <1>10, <1>11, <1>12, <1>13 DEF MempoolNext

\* The inductive invariant has what the pool promises.
LEMMA MpPromise == MpIInv => MempoolInvariant
<1> SUFFICES ASSUME MpIInv PROVE MempoolInvariant
  OBVIOUS
<1>1. MempoolTypeOK /\ SpendsIndexed /\ OrphansIndexed
  BY DEF MpIInv, MpTypes
<1>2. PoolMinable
  <2> SUFFICES ASSUME Settled, ~mpDropped, NEW t \in mpPool PROVE Minable(t)
    BY DEF PoolMinable
  <2>1. MpPlaces /\ mpTodo = <<>>
    BY DEF Settled, MpIInv
  <2>2. \A c : Pend(c) = {}
    BY <2>1 DEF Pend
  <2>3. t \notin Confirmed /\ \A o \in Ins(t) : Supplied(o)
    BY <2>1, <2>2 DEF MpPlaces
  <2>4. \A o : Supplied(o) => o \in Coins \/ \E p \in mpPool : o \in Outs(p)
    BY <2>2 DEF Supplied
  <2> QED
    BY <2>3, <2>4 DEF Minable
<1> QED
  BY <1>1, <1>2 DEF MempoolInvariant

\* The tables of the pool agree at all times, and once the notifications of a block are handled
\* every transaction in the pool can be mined, for every set of transactions and blocks.
THEOREM PoolStaysMinable == MempoolSpec => []MempoolInvariant
<1>1. MempoolSpec => []MpIInv
  BY MpInit, MpNext, PTL DEF MempoolSpec
<1> QED
  BY <1>1, MpPromise, PTL

\* Accepting a transaction never lowers the fees that the pool offers.
THEOREM AcceptingPays == MempoolSpec => FeesGrow
<1>1. MpIInv /\ [MempoolNext]_mpVars => [mpPool' \ mpPool # {} => SumFees(mpPool') >= SumFees(mpPool)]_mpVars
  <2> SUFFICES ASSUME MpIInv, MempoolNext, mpPool' \ mpPool # {} PROVE SumFees(mpPool') >= SumFees(mpPool)
    OBVIOUS
  <2>1. MpTablesOK /\ MpRest
    BY MpParts DEF MpIInv
  <2>2. ASSUME NEW t, NEW K, Accepts(t, K) PROVE SumFees(mpPool') >= SumFees(mpPool)
    BY <2>1, <2>2, MpFees DEF Accepts
  <2>3. CASE EndProcess
    BY <2>1, <2>2, <2>3, MpEndProcess
  <2>4. CASE ProcessOrphanOutput
    BY <2>1, <2>2, <2>4, MpProcessOrphan
  <2>5. CASE HandleNotification
    <3>1. PICK n, t : n = Head(mpTodo) /\ t = n.tx
      OBVIOUS
    <3>2. mpPool' \subseteq mpPool \/ Accepts(t, Coins)
      BY <2>1, <2>5, <3>1, MpHandle DEF NoteCalls
    <3> QED
      BY <2>2, <3>2
  <2>6. CASE \/ \E t \in Tx : BeginProcess(t, "rpc", NoTx) \/ \E p \in PeerTag : BeginProcess(t, "sync", p)
             \/ EndProcessOrphans \/ \E p \in PeerTag : RemoveOrphansByTag(p)
             \/ Decay \/ ChangeCurrent
    BY <2>1, <2>6, MpQuietSteps DEF MpQuiet
  <2>7. CASE (\E b \in MpBlocks : ConnectBlockTxs(b)) \/ DisconnectBlockTxs
    BY <2>1, <2>7, MpBlocksTypes
  <2> QED
    BY <2>3, <2>4, <2>5, <2>6, <2>7 DEF MempoolNext
<1>2. MempoolSpec => []MpIInv
  BY MpInit, MpNext, PTL DEF MempoolSpec
<1> QED
  BY <1>1, <1>2, PTL DEF MempoolSpec, FeesGrow

-----------------------------------------------------------------------------
(* The sync manager *)

\* What a peer may be asked for, and what may come from it, while the next
\* checkpoint is c: headers only up to c.
NsItem(k) == IF k = "block" THEN 1..Tip ELSE Txn
NsHeight(c) == {h \in 0..Tip : c # 0 => h <= c}
NsAsk(c) ==
    [ask : {"blocks"}, from : 0..Tip]
    \cup {a \in [ask : {"headers"}, from : 0..Tip, stop : NsHeight(c)] : a.from < a.stop}
    \cup [ask : {"data"}, kind : {"block"}, item : 1..Tip]
    \cup [ask : {"data"}, kind : {"tx"}, item : Txn]
NsMessage(c) ==
    [msg : {"new", "done"}, peer : Peer]
    \cup [msg : {"block"}, peer : Peer, item : 1..Tip, good : BOOLEAN]
    \cup [msg : {"tx"}, peer : Peer, item : Txn, good : BOOLEAN]
    \cup [msg : {"headers"}, peer : Peer, items : Seq(NsHeight(c))]
    \cup [msg : {"notfound"}, kind : {"block"}, peer : Peer, item : 1..Tip]
    \cup [msg : {"notfound"}, kind : {"tx"}, peer : Peer, item : Txn]
    \cup [msg : {"inv"}, new : BOOLEAN, kind : {"block"}, peer : Peer, items : Seq(1..Tip) \ {<<>>}]
    \cup [msg : {"inv"}, new : BOOLEAN, kind : {"tx"}, peer : Peer, items : Seq(Txn) \ {<<>>}]

\* A handler changes connections only by closing them.
NsConns ==
    {c \in [Peer -> {"new", "up", "closing", "down"}] :
        \A q \in Peer : c[q] # conn[q] => conn[q] = "up" /\ c[q] = "closing"}

\* The types of what a handler works on.
NsRecord(s) ==
    s = [states |-> s.states, sync |-> s.sync, req |-> s.req, first |-> s.first, list |-> s.list,
         start |-> s.start, check |-> s.check, asked |-> s.asked, prev |-> s.prev, conn |-> s.conn]
NsReqOK(r) == r = [k \in Kinds |-> r[k]] /\ r["block"] \subseteq 1..Tip /\ r["tx"] \subseteq Txn
NsStateOK(x) == x = [cand |-> x.cand, req |-> x.req] /\ x.cand \in BOOLEAN /\ NsReqOK(x.req)
NsTyped(s) ==
    /\ NsRecord(s) /\ NsReqOK(s.req)
    /\ DOMAIN s.states \subseteq Peer /\ s.states = [q \in DOMAIN s.states |-> s.states[q]]
    /\ \A q \in DOMAIN s.states : NsStateOK(s.states[q])
    /\ s.sync \in Peer \cup {NoPeer} /\ s.first \in BOOLEAN
    /\ s.check \in Checkpoints \cup {0}
    /\ s.asked \in [Peer -> Seq(NsAsk(s.check))]
    /\ s.conn \in NsConns

\* The headers: the checkpoint ends the list, and nothing is left to request
\* when it is there.
NsHeaders(s) ==
    /\ s.list \in Seq(0..Tip) /\ s.start \in (-Tip)..Len(s.list)
    /\ \A i \in 1..Len(s.list) : s.list[i] = s.check /\ s.check # 0 => i = Len(s.list)
    /\ s.start # 0 => s.first
    /\ s.first => s.check # 0 /\ s.sync # NoPeer
NsList(s) == NsHeaders(s) /\ (s.start # 0 => \A i \in 1..Len(s.list) : s.list[i] # s.check)

\* Before the checkpoint there is a sync peer only in headers-first mode, and
\* nothing beyond the checkpoint has been asked for or has come.
NsBehind(s, b, orphans) ==
    s.check # 0 /\ (s.first \/ b < s.check) =>
        /\ b <= s.check /\ \A h \in orphans : h <= s.check
        /\ \A i \in 1..Len(s.list) : s.list[i] <= s.check
        /\ s.start < 0 => -s.start <= s.check
        /\ \A q \in DOMAIN s.states : \A h \in s.states[q].req["block"] : h <= s.check
        /\ s.first \/ s.sync = NoPeer

NsGood(s, b, orphans) ==
    /\ NsTyped(s) /\ NsList(s) /\ NsBehind(s, b, orphans)
    /\ b \in 0..Tip /\ orphans \subseteq 1..Tip
NsSound(s, b, orphans) ==
    /\ NsTyped(s) /\ NsHeaders(s) /\ NsBehind(s, b, orphans)
    /\ b \in 0..Tip /\ orphans \subseteq 1..Tip
NsKnown(s) == s.sync # NoPeer => s.sync \in DOMAIN s.states
NsOwned(s) == \A k \in Kinds : s.req[k] \subseteq UNION {s.states[q].req[k] : q \in DOMAIN s.states}

\* The inductive invariant of SyncPeerKnown.
NetSyncIInv ==
    /\ NsGood(Now, best, blockOrphans) /\ NsKnown(Now)
    /\ msgChan \in Seq(NsMessage(nextCheckpoint))

\* NewPeer and DonePeer of a peer alternate, in msgChan as well: a peer that is
\* new is not known, or leaves before.
NsNew(c, i, p) == i \in DOMAIN c /\ c[i] = [msg |-> "new", peer |-> p]
NsLeaves(c, i, j, p) == \E k \in DOMAIN c : i < k /\ k < j /\ c[k] = [msg |-> "done", peer |-> p]
NsTurn(c, known, gone, p) ==
    /\ known => /\ \A j \in DOMAIN c : NsNew(c, j, p) => NsLeaves(c, 0, j, p)
                /\ gone => NsLeaves(c, 0, Len(c) + 1, p)
    /\ \A i \in DOMAIN c : NsNew(c, i, p) =>
            /\ \A j \in DOMAIN c : i < j /\ NsNew(c, j, p) => NsLeaves(c, i, j, p)
            /\ gone => NsLeaves(c, i, Len(c) + 1, p)
NsGone == {"new", "down"}
NsTurns == \A p \in Peer : NsTurn(msgChan, p \in DOMAIN peerStates, conn[p] \in NsGone, p)

\* A checkpoint, or 0 for none, is a height of the chain.
LEMMA NsHeights == Tip \in Nat /\ 0 \in 0..Tip /\ \A c \in Checkpoints \cup {0} : c \in 0..Tip
<1>1. Tip \in Nat /\ Tip # 0 /\ Checkpoints \subseteq 1..Tip
  BY NetSyncAssumption
<1>2. 0 \in 0..Tip /\ \A c \in 1..Tip : c \in 0..Tip
  BY <1>1
<1> QED
  BY <1>1, <1>2

\* Between two steps of a handler the checkpoint may be in the list already
\* and its block not requested.
LEMMA NsGoodSound ==
    ASSUME NEW s, NEW b, NEW o
    PROVE  NsGood(s, b, o) <=> NsSound(s, b, o) /\ NsList(s)
BY DEF NsGood, NsSound, NsList

\* The next checkpoint is later.
LEMMA NsNextCheckpoint ==
    ASSUME NEW h \in Nat
    PROVE  LET c == FindNextHeaderCheckpoint(h) IN c \in Checkpoints \cup {0} /\ (c # 0 => c > h)
<1> DEFINE later == {c \in Checkpoints : c > h}
<1>1. CASE later = {}
  BY <1>1 DEF FindNextHeaderCheckpoint
<1>2. CASE later # {}
  <2>1. later \in SUBSET Nat
    <3>1. \A c \in 1..Tip : c \in Nat
      BY NetSyncAssumption
    <3> QED
      BY <3>1, NetSyncAssumption
  <2>2. \E n \in later : \A m \in later : n <= m
    <3> HIDE DEF later
    <3> QED
      BY <1>2, <2>1, LeastNumber
  <2>3. Min(later) \in later
    <3> HIDE DEF later
    <3> QED
      BY <2>2 DEF Min
  <2> QED
    BY <1>2, <2>3 DEF FindNextHeaderCheckpoint
<1> QED
  BY <1>1, <1>2

\* What may be asked and may come stays allowed when the checkpoint moves on.
LEMMA NsAskGrows ==
    ASSUME NEW c \in Nat, NEW d \in Nat, d = 0 \/ (c # 0 /\ c <= d)
    PROVE  /\ NsAsk(c) \subseteq NsAsk(d) /\ Seq(NsAsk(c)) \subseteq Seq(NsAsk(d))
           /\ NsMessage(c) \subseteq NsMessage(d) /\ Seq(NsMessage(c)) \subseteq Seq(NsMessage(d))
<1>1. NsHeight(c) \subseteq NsHeight(d)
  BY DEF NsHeight
<1>2. Seq(NsHeight(c)) \subseteq Seq(NsHeight(d))
  BY <1>1
<1>3. NsAsk(c) \subseteq NsAsk(d)
  BY <1>1 DEF NsAsk
<1>4. NsMessage(c) \subseteq NsMessage(d)
  BY <1>2 DEF NsMessage
<1> QED
  BY <1>3, <1>4

\* A handler's record whose manager's part is the same.
NsSame(s, t) ==
    /\ t.states = s.states /\ t.sync = s.sync /\ t.req = s.req /\ t.first = s.first
    /\ t.list = s.list /\ t.start = s.start /\ t.check = s.check

\* The manager's part decides whether a record is good.
LEMMA NsSameGood ==
    ASSUME NEW s, NEW t, NsSame(s, t), NsTyped(t), NEW b, NEW o, NsGood(s, b, o)
    PROVE  /\ NsGood(t, b, o) /\ (NsKnown(s) => NsKnown(t)) /\ (NsOwned(s) => NsOwned(t))
<1>1. NsGood(t, b, o)
  BY DEF NsSame, NsGood, NsList, NsHeaders, NsBehind
<1> QED
  BY <1>1 DEF NsSame, NsKnown, NsOwned

\* A request to a peer changes only what it is asked.
LEMMA NsSend ==
    ASSUME NEW s, NsTyped(s), NEW p \in Peer, NEW m \in NsAsk(s.check)
    PROVE  NsTyped(Send(s, p, m)) /\ NsSame(s, Send(s, p, m))
<1> DEFINE t == Send(s, p, m)
<1>1. NsRecord(t) /\ NsSame(s, t) /\ t.conn = s.conn /\ t.asked = [s.asked EXCEPT ![p] = Append(@, m)]
  <2>1. s = [states |-> s.states, sync |-> s.sync, req |-> s.req, first |-> s.first, list |-> s.list,
         start |-> s.start, check |-> s.check, asked |-> s.asked, prev |-> s.prev, conn |-> s.conn]
    BY DEF NsTyped, NsRecord
  <2>2. t = [s EXCEPT !.asked = [s.asked EXCEPT ![p] = Append(@, m)]]
    BY DEF Send
  <2> HIDE DEF t
  <2> QED
    BY <2>1, <2>2 DEF NsRecord, NsSame
<1>2. t.asked \in [Peer -> Seq(NsAsk(s.check))]
  BY <1>1 DEF NsTyped
<1> HIDE DEF t
<1>3. NsTyped(t)
  BY <1>1, <1>2 DEF NsTyped, NsSame
<1> QED
  BY <1>1, <1>3 DEF t

\* So does remembering the last request.
LEMMA NsPrev ==
    ASSUME NEW s, NsTyped(s), NEW v
    PROVE  NsTyped([s EXCEPT !.prev = v]) /\ NsSame(s, [s EXCEPT !.prev = v])
<1> DEFINE t == [s EXCEPT !.prev = v]
<1>1. NsRecord(t) /\ NsSame(s, t) /\ t.conn = s.conn /\ t.asked = s.asked
  BY DEF NsTyped, NsRecord, NsSame
<1> HIDE DEF t
<1>3. NsTyped(t)
  BY <1>1 DEF NsTyped, NsSame
<1> QED
  BY <1>1, <1>3 DEF t

\* PushGetBlocksMsg
LEMMA NsPushGetBlocks ==
    ASSUME NEW s, NsTyped(s), NEW p \in Peer, NEW from \in 0..Tip, NEW stop
    PROVE  NsTyped(PushGetBlocks(s, p, from, stop)) /\ NsSame(s, PushGetBlocks(s, p, from, stop))
<1> DEFINE m == [ask |-> "blocks", from |-> from]
<1> DEFINE v == [s.prev EXCEPT ![p].blocks = <<from, stop>>]
<1> DEFINE u == [s EXCEPT !.prev = v]
<1>1. NsTyped(u) /\ NsSame(s, u)
  BY NsPrev
<1>2. m \in NsAsk(u.check)
  BY DEF NsAsk
<1>3. PushGetBlocks(s, p, from, stop) \in {s, Send(u, p, m)}
  BY DEF PushGetBlocks
<1>4. NsSame(s, s)
  BY DEF NsSame
<1> HIDE DEF u, m
<1>5. NsTyped(Send(u, p, m)) /\ NsSame(u, Send(u, p, m))
  BY <1>1, <1>2, NsSend
<1>6. NsSame(s, Send(u, p, m))
  BY <1>1, <1>5 DEF NsSame
<1> QED
  BY <1>3, <1>4, <1>5, <1>6

\* PushGetHeadersMsg, which asks for headers up to a checkpoint that is ahead
LEMMA NsPushGetHeaders ==
    ASSUME NEW s, NsTyped(s), NEW p \in Peer, NEW from \in 0..Tip, NEW stop \in NsHeight(s.check), from < stop
    PROVE  NsTyped(PushGetHeaders(s, p, from, stop)) /\ NsSame(s, PushGetHeaders(s, p, from, stop))
<1> DEFINE m == [ask |-> "headers", from |-> from, stop |-> stop]
<1> DEFINE v == [s.prev EXCEPT ![p].headers = <<from, stop>>]
<1> DEFINE u == [s EXCEPT !.prev = v]
<1>1. NsTyped(u) /\ NsSame(s, u)
  BY NsPrev
<1>2. m \in NsAsk(u.check)
  BY <1>1 DEF NsAsk, NsSame
<1>3. PushGetHeaders(s, p, from, stop) \in {s, Send(u, p, m)}
  BY DEF PushGetHeaders
<1>4. NsSame(s, s)
  BY DEF NsSame
<1> HIDE DEF u, m
<1>5. NsTyped(Send(u, p, m)) /\ NsSame(u, Send(u, p, m))
  BY <1>1, <1>2, NsSend
<1>6. NsSame(s, Send(u, p, m))
  BY <1>1, <1>5 DEF NsSame
<1> QED
  BY <1>3, <1>4, <1>5, <1>6

\* Disconnect
LEMMA NsDisconnect ==
    ASSUME NEW s, NsTyped(s), NEW p
    PROVE  NsTyped(Disconnect(s, p)) /\ NsSame(s, Disconnect(s, p))
<1> DEFINE t == Disconnect(s, p)
<1>1. /\ NsRecord(t) /\ NsSame(s, t) /\ t.asked = s.asked
      /\ t.conn = [s.conn EXCEPT ![p] = IF @ = "up" THEN "closing" ELSE @]
  <2>1. s = [states |-> s.states, sync |-> s.sync, req |-> s.req, first |-> s.first, list |-> s.list,
         start |-> s.start, check |-> s.check, asked |-> s.asked, prev |-> s.prev, conn |-> s.conn]
    BY DEF NsTyped, NsRecord
  <2>2. t = [s EXCEPT !.conn = [s.conn EXCEPT ![p] = IF @ = "up" THEN "closing" ELSE @]]
    BY DEF Disconnect
  <2> HIDE DEF t
  <2> QED
    BY <2>1, <2>2 DEF NsRecord, NsSame
<1>2. t.conn \in NsConns
  <2>1. /\ s.conn \in [Peer -> {"new", "up", "closing", "down"}]
        /\ \A q \in Peer : s.conn[q] # conn[q] => conn[q] = "up" /\ s.conn[q] = "closing"
    BY DEF NsTyped, NsConns
  <2> DEFINE c == t.conn
  <2>2. /\ c \in [Peer -> {"new", "up", "closing", "down"}]
        /\ \A q \in Peer : c[q] = s.conn[q] \/ (s.conn[q] = "up" /\ c[q] = "closing")
    BY <1>1, <2>1
  <2> HIDE DEF c
  <2>3. \A q \in Peer : c[q] # conn[q] => conn[q] = "up" /\ c[q] = "closing"
    <3> SUFFICES ASSUME NEW q \in Peer PROVE c[q] # conn[q] => conn[q] = "up" /\ c[q] = "closing"
      OBVIOUS
    <3>1. "up" # "closing"
      OBVIOUS
    <3> QED
      BY <2>1, <2>2, <3>1, Zenon
  <2>4. c \in NsConns
    BY <2>2, <2>3 DEF NsConns
  <2> QED
    BY <2>4 DEF c
<1> HIDE DEF t
<1>3. NsTyped(t)
  BY <1>1, <1>2 DEF NsTyped, NsSame
<1> QED
  BY <1>1, <1>3 DEF t

\* What was requested of a peer is forgotten.
LEMMA NsClear ==
    ASSUME NEW s, NEW b, NEW o, NsGood(s, b, o), NEW old
    PROVE  LET t == ClearRequestedState(s, old)
           IN  /\ NsGood(t, b, o) /\ t.states = s.states /\ t.sync = s.sync /\ t.first = s.first
               /\ t.check = s.check /\ \A k \in Kinds : t.req[k] = s.req[k] \ old[k]
<1> DEFINE t == ClearRequestedState(s, old)
<1>1. s = [states |-> s.states, sync |-> s.sync, req |-> s.req, first |-> s.first, list |-> s.list,
           start |-> s.start, check |-> s.check, asked |-> s.asked, prev |-> s.prev, conn |-> s.conn]
  BY DEF NsGood, NsTyped, NsRecord
<1>2. t = [s EXCEPT !.req = [k \in Kinds |-> s.req[k] \ old[k]]]
  BY DEF ClearRequestedState
<1> HIDE DEF t
<1>3. /\ NsRecord(t) /\ t.states = s.states /\ t.sync = s.sync /\ t.first = s.first /\ t.list = s.list
      /\ t.start = s.start /\ t.check = s.check /\ t.asked = s.asked /\ t.conn = s.conn
      /\ t.req = [k \in Kinds |-> s.req[k] \ old[k]]
  BY <1>1, <1>2 DEF NsRecord
<1>4. NsReqOK(t.req)
  BY <1>3 DEF NsGood, NsTyped, NsReqOK, Kinds
<1>5. NsTyped(t)
  BY <1>3, <1>4 DEF NsGood, NsTyped
<1>6. NsGood(t, b, o)
  BY <1>3, <1>5 DEF NsGood, NsList, NsHeaders, NsBehind
<1> QED
  BY <1>3, <1>6 DEF t

\* The sync peer is let go, and with it the headers.
LEMMA NsLetGo ==
    ASSUME NEW s, NEW o, NsGood(s, best, o)
    PROVE  LET w == [IF s.first THEN ResetHeaderState(s, best) ELSE s EXCEPT !.sync = NoPeer]
           IN  /\ NsGood(w, best, o) /\ w.sync = NoPeer /\ ~w.first /\ w.states = s.states /\ w.req = s.req
               /\ w.check = s.check
<1> DEFINE u == IF s.first THEN ResetHeaderState(s, best) ELSE s
<1> DEFINE w == [u EXCEPT !.sync = NoPeer]
<1>1. s = [states |-> s.states, sync |-> s.sync, req |-> s.req, first |-> s.first, list |-> s.list,
           start |-> s.start, check |-> s.check, asked |-> s.asked, prev |-> s.prev, conn |-> s.conn]
  BY DEF NsGood, NsTyped, NsRecord
<1>2. ~s.first => s.start = 0
  BY DEF NsGood, NsList, NsHeaders
<1>3. s.first \in BOOLEAN
  BY DEF NsGood, NsTyped
<1>4. /\ NsRecord(u) /\ u.states = s.states /\ u.req = s.req /\ u.check = s.check /\ u.asked = s.asked
      /\ u.conn = s.conn /\ u.first = FALSE /\ u.start = 0
      /\ u.list = (IF s.first THEN IF s.check # 0 THEN <<best>> ELSE <<>> ELSE s.list)
  <2>1. CASE s.first
    <3>1. u = [s EXCEPT !.first = FALSE, !.start = 0, !.list = IF s.check # 0 THEN <<best>> ELSE <<>>]
      BY <2>1 DEF ResetHeaderState
    <3> HIDE DEF u
    <3> QED
      BY <1>1, <2>1, <3>1 DEF NsRecord
  <2>2. CASE ~s.first
    BY <1>1, <1>2, <1>3, <2>2 DEF NsRecord
  <2> QED
    BY <2>1, <2>2
<1> HIDE DEF u
<1>5. /\ NsRecord(w) /\ w.states = s.states /\ w.req = s.req /\ w.check = s.check /\ w.asked = s.asked
      /\ w.conn = s.conn /\ w.first = FALSE /\ w.start = 0 /\ w.sync = NoPeer /\ w.list = u.list
  BY <1>4 DEF NsRecord
<1> HIDE DEF w
<1>6. NsTyped(w)
  BY <1>5 DEF NsGood, NsTyped
<1>7. best \in 0..Tip
  BY DEF NsGood
<1>8. NsList(w)
  <2>1. CASE s.first
    <3>1. w.list = <<best>>
      BY <1>4, <1>5, <2>1 DEF NsList, NsHeaders, NsGood
    <3>2. w.list \in Seq(0..Tip) /\ Len(w.list) = 1
      BY <3>1, <1>7
    <3> QED
      BY <1>5, <3>2, NsHeights DEF NsList, NsHeaders
  <2>2. CASE ~s.first
    BY <1>4, <1>5, <2>2 DEF NsList, NsHeaders, NsGood
  <2> QED
    BY <2>1, <2>2
<1>9. NsBehind(w, best, o)
  <2>1. CASE s.first
    BY <1>4, <1>5, <1>7, <2>1 DEF NsBehind, NsGood
  <2>2. CASE ~s.first
    BY <1>4, <1>5, <2>2 DEF NsBehind, NsGood
  <2> QED
    BY <2>1, <2>2
<1>10. NsGood(w, best, o)
  BY <1>6, <1>8, <1>9 DEF NsGood
<1> QED
  BY <1>5, <1>10 DEF w, u

\* The peers that startSync chooses from are known.
LEMMA NsSyncPeers ==
    ASSUME NEW s PROVE SyncPeers(s) \subseteq DOMAIN s.states
BY DEF SyncPeers

\* startSync with a peer that is known, or with none.
LEMMA NsStartSyncWith ==
    ASSUME NEW s, NEW o, NsGood(s, best, o), s.sync = NoPeer, NEW p \in DOMAIN s.states \cup {NoPeer}
    PROVE  LET z == StartSyncWith(s, p)
           IN  /\ NsGood(z, best, o) /\ NsKnown(z) /\ (NsOwned(s) => NsOwned(z))
               /\ z.check = s.check /\ DOMAIN z.states = DOMAIN s.states
<1> DEFINE ss == [q \in DOMAIN s.states |-> [s.states[q] EXCEPT !.cand = @ /\ lastBlock[q] >= best]]
<1> DEFINE t == [s EXCEPT !.states = ss]
<1> DEFINE u == [t EXCEPT !.req["block"] = {}, !.sync = p]
<1> DEFINE z == StartSyncWith(s, p)
<1>1. s = [states |-> s.states, sync |-> s.sync, req |-> s.req, first |-> s.first, list |-> s.list,
           start |-> s.start, check |-> s.check, asked |-> s.asked, prev |-> s.prev, conn |-> s.conn]
  BY DEF NsGood, NsTyped, NsRecord
<1>2. z = IF p = NoPeer THEN t
          ELSE IF s.check # 0 /\ best < s.check THEN [PushGetHeaders(u, p, best, s.check) EXCEPT !.first = TRUE]
          ELSE PushGetBlocks(u, p, best, 0)
  BY DEF StartSyncWith
<1>3. /\ DOMAIN ss = DOMAIN s.states /\ ss = [q \in DOMAIN ss |-> ss[q]]
      /\ \A q \in DOMAIN ss : NsStateOK(ss[q]) /\ ss[q].req = s.states[q].req
  <2>1. ASSUME NEW q \in DOMAIN s.states PROVE NsStateOK(ss[q]) /\ ss[q].req = s.states[q].req
    <3>1. NsStateOK(s.states[q])
      BY DEF NsGood, NsTyped
    <3>2. ss[q] = [s.states[q] EXCEPT !.cand = @ /\ lastBlock[q] >= best]
      OBVIOUS
    <3> QED
      BY <3>1, <3>2 DEF NsStateOK
  <2> QED
    BY <2>1
<1>4. s.first = FALSE /\ s.start = 0
  BY DEF NsGood, NsTyped, NsList, NsHeaders
<1> HIDE DEF ss, z
<1>5. /\ NsRecord(t) /\ t.states = ss /\ t.sync = NoPeer /\ t.req = s.req /\ t.first = FALSE /\ t.list = s.list
      /\ t.start = 0 /\ t.check = s.check /\ t.asked = s.asked /\ t.conn = s.conn
  BY <1>1, <1>4 DEF NsRecord
<1> HIDE DEF t
<1>6. NsTyped(t)
  BY <1>3, <1>5 DEF NsGood, NsTyped
<1>7. NsGood(t, best, o)
  <2>1. NsList(t)
    BY <1>5 DEF NsGood, NsList, NsHeaders
  <2>2. NsBehind(t, best, o)
    BY <1>3, <1>4, <1>5 DEF NsGood, NsBehind
  <2> QED
    BY <1>6, <2>1, <2>2 DEF NsGood
<1>8. NsOwned(s) => \A k \in Kinds : s.req[k] \subseteq UNION {ss[q].req[k] : q \in DOMAIN ss}
  BY <1>3 DEF NsOwned
<1>9. CASE p = NoPeer
  BY <1>2, <1>3, <1>5, <1>7, <1>8, <1>9 DEF NsKnown, NsOwned, z
<1>10. CASE p # NoPeer
  <2>1. p \in Peer /\ p \in DOMAIN ss
    BY <1>3, <1>10 DEF NsGood, NsTyped
  <2>2. /\ NsRecord(u) /\ u.states = ss /\ u.sync = p /\ u.req = [s.req EXCEPT !["block"] = {}] /\ u.first = FALSE
        /\ u.list = s.list /\ u.start = 0 /\ u.check = s.check /\ u.asked = s.asked /\ u.conn = s.conn
    <3>1. t = [states |-> t.states, sync |-> t.sync, req |-> t.req, first |-> t.first, list |-> t.list,
               start |-> t.start, check |-> t.check, asked |-> t.asked, prev |-> t.prev, conn |-> t.conn]
      BY <1>5 DEF NsRecord
    <3>2. u = [t EXCEPT !.req = [t.req EXCEPT !["block"] = {}], !.sync = p]
      BY <3>1
    <3> HIDE DEF u
    <3>3. /\ NsRecord(u) /\ u.states = t.states /\ u.sync = p /\ u.req = [t.req EXCEPT !["block"] = {}] /\ u.first = t.first
          /\ u.list = t.list /\ u.start = t.start /\ u.check = t.check /\ u.asked = t.asked /\ u.conn = t.conn
      BY <3>1, <3>2 DEF NsRecord
    <3> QED
      BY <3>3, <1>5
  <2>3. NsReqOK(u.req) /\ \A k \in Kinds : u.req[k] = IF k = "block" THEN {} ELSE s.req[k]
    <3>1. NsReqOK(s.req) /\ u.req = [s.req EXCEPT !["block"] = {}]
      BY <2>2 DEF NsGood, NsTyped
    <3> HIDE DEF u
    <3> QED
      BY <3>1 DEF NsReqOK, Kinds
  <2> HIDE DEF u
  <2>4. NsTyped(u)
    BY <1>3, <2>1, <2>2, <2>3 DEF NsGood, NsTyped
  <2>5. best \in 0..Tip /\ s.check \in 0..Tip
    <3>1. s.check \in Checkpoints \cup {0} /\ best \in 0..Tip
      BY DEF NsGood, NsTyped
    <3> QED
      BY <3>1, NsHeights
  <2>6. NsOwned(s) => \A k \in Kinds : u.req[k] \subseteq UNION {ss[q].req[k] : q \in DOMAIN ss}
    BY <1>8, <2>3
  <2>7. CASE s.check # 0 /\ best < s.check
    <3> DEFINE h == PushGetHeaders(u, p, best, s.check)
    <3>1. s.check \in NsHeight(u.check)
      BY <2>2, <2>5 DEF NsHeight
    <3>2. NsTyped(h) /\ NsSame(u, h)
      BY <2>1, <2>4, <2>5, <2>7, <3>1, NsPushGetHeaders
    <3> HIDE DEF h
    <3>3. z = [h EXCEPT !.first = TRUE]
      BY <1>2, <1>10, <2>7 DEF h
    <3>4. h = [states |-> h.states, sync |-> h.sync, req |-> h.req, first |-> h.first, list |-> h.list,
               start |-> h.start, check |-> h.check, asked |-> h.asked, prev |-> h.prev, conn |-> h.conn]
      BY <3>2 DEF NsTyped, NsRecord
    <3>5. /\ NsRecord(z) /\ z.states = ss /\ z.sync = p /\ z.req = u.req /\ z.first = TRUE
          /\ z.list = s.list /\ z.start = 0 /\ z.check = s.check /\ z.asked = h.asked /\ z.conn = h.conn
      <4>1. /\ NsRecord(z) /\ z.states = h.states /\ z.sync = h.sync /\ z.req = h.req /\ z.first = TRUE
            /\ z.list = h.list /\ z.start = h.start /\ z.check = h.check /\ z.asked = h.asked /\ z.conn = h.conn
        BY <3>3, <3>4 DEF NsRecord
      <4> QED
        BY <4>1, <2>2, <3>2 DEF NsSame
    <3>6. NsTyped(z)
      BY <3>2, <3>5, <2>2 DEF NsTyped, NsSame
    <3>7. NsList(z)
      BY <3>5, <2>7, <1>10 DEF NsList, NsHeaders, NsGood
    <3>8. NsBehind(z, best, o)
      BY <1>3, <3>5, <2>7 DEF NsBehind, NsGood
    <3> QED
      BY <1>3, <3>5, <3>6, <3>7, <3>8, <2>1, <2>6 DEF NsGood, NsKnown, NsOwned, z
  <2>8. CASE ~(s.check # 0 /\ best < s.check)
    <3>1. NsTyped(z) /\ NsSame(u, z)
      BY <1>2, <1>10, <2>8, <2>1, <2>4, <2>5, NsPushGetBlocks
    <3>2. NsList(z)
      BY <3>1, <2>2 DEF NsList, NsHeaders, NsGood, NsSame
    <3>3. NsBehind(z, best, o)
      BY <3>1, <2>2, <2>8 DEF NsBehind, NsSame
    <3>4. NsKnown(z) /\ (NsOwned(s) => NsOwned(z))
      BY <3>1, <2>1, <2>2, <2>6 DEF NsKnown, NsOwned, NsSame
    <3>5. z.check = s.check /\ DOMAIN z.states = DOMAIN s.states
      BY <3>1, <2>2, <1>3 DEF NsSame
    <3> QED
      BY <3>1, <3>2, <3>3, <3>4, <3>5 DEF NsGood, z
  <2> QED
    BY <2>7, <2>8
<1> QED
  BY <1>9, <1>10

\* startSync
LEMMA NsStartSync ==
    ASSUME NEW s, NEW o, NsGood(s, best, o), NsKnown(s), NEW z \in StartSync(s)
    PROVE  /\ NsGood(z, best, o) /\ NsKnown(z) /\ (NsOwned(s) => NsOwned(z))
           /\ z.check = s.check /\ DOMAIN z.states = DOMAIN s.states
<1>1. CASE s.sync # NoPeer
  BY <1>1 DEF StartSync
<1>2. CASE s.sync = NoPeer
  <2>1. PICK p \in DOMAIN s.states \cup {NoPeer} : z = StartSyncWith(s, p)
    BY <1>2, NsSyncPeers DEF StartSync
  <2> QED
    BY <1>2, <2>1, NsStartSyncWith
<1> QED
  BY <1>1, <1>2

\* updateSyncPeer, whether the sync peer is still known or not
LEMMA NsUpdateSyncPeer ==
    ASSUME NEW s, NEW o, NsGood(s, best, o), NEW dc \in BOOLEAN, NEW z \in UpdateSyncPeer(s, dc)
    PROVE  /\ NsGood(z, best, o) /\ NsKnown(z) /\ (NsOwned(s) => NsOwned(z))
           /\ z.check = s.check /\ DOMAIN z.states = DOMAIN s.states
<1> DEFINE t == IF dc THEN Disconnect(s, s.sync) ELSE s
<1> DEFINE w == [IF t.first THEN ResetHeaderState(t, best) ELSE t EXCEPT !.sync = NoPeer]
<1>1. NsTyped(t) /\ NsSame(s, t)
  <2>1. NsTyped(Disconnect(s, s.sync)) /\ NsSame(s, Disconnect(s, s.sync))
    BY NsDisconnect DEF NsGood
  <2>2. NsTyped(s) /\ NsSame(s, s)
    BY DEF NsGood, NsSame
  <2> QED
    BY <2>1, <2>2
<1>2. z \in StartSync(w)
  BY DEF UpdateSyncPeer
<1> HIDE DEF t
<1>3. NsGood(t, best, o) /\ (NsOwned(s) => NsOwned(t))
  BY <1>1, NsSameGood
<1>4. NsGood(w, best, o) /\ w.sync = NoPeer /\ w.states = t.states /\ w.req = t.req /\ w.check = t.check
  BY <1>3, NsLetGo
<1> HIDE DEF w
<1>5. NsKnown(w) /\ (NsOwned(s) => NsOwned(w))
  BY <1>3, <1>4 DEF NsKnown, NsOwned
<1>6. NsGood(z, best, o) /\ NsKnown(z) /\ (NsOwned(w) => NsOwned(z)) /\ z.check = w.check /\ DOMAIN z.states = DOMAIN w.states
  BY <1>2, <1>4, <1>5, NsStartSync
<1> QED
  BY <1>1, <1>4, <1>5, <1>6 DEF NsSame

\* The checkpoint does not matter, or has been passed.
NsPast(s, b) == ~(s.check # 0 /\ (s.first \/ b < s.check))

NsPuts(s, t, p, kind, m, n) ==
    /\ DOMAIN t.states = DOMAIN s.states
    /\ \A k \in Kinds : t.req[k] = IF k = kind THEN m ELSE s.req[k]
    /\ \A q \in DOMAIN s.states : \A k \in Kinds :
           t.states[q].req[k] = IF q = p /\ k = kind THEN n ELSE s.states[q].req[k]

\* New requests of one kind, of the node and of one of its peers.
LEMMA NsPut ==
    ASSUME NEW s, NEW b, NEW o, NsSound(s, b, o), NEW p \in DOMAIN s.states, NEW kind \in Kinds,
           NEW m \in SUBSET NsItem(kind), NEW n \in SUBSET NsItem(kind),
           kind = "block" => NsPast(s, b) \/ \A h \in n : h <= s.check
    PROVE  LET t == SetRequests(s, p, kind, m, n)
           IN  /\ NsSound(t, b, o) /\ (NsGood(s, b, o) => NsGood(t, b, o)) /\ NsPuts(s, t, p, kind, m, n)
               /\ t.sync = s.sync /\ t.first = s.first /\ t.list = s.list /\ t.start = s.start
               /\ t.check = s.check /\ t.asked = s.asked
<1> DEFINE t == SetRequests(s, p, kind, m, n)
<1> DEFINE r == [s.req EXCEPT ![kind] = m]
<1> DEFINE x == [s.states[p] EXCEPT !.req[kind] = n]
<1> DEFINE ss == [s.states EXCEPT ![p] = x]
<1>1. s = [states |-> s.states, sync |-> s.sync, req |-> s.req, first |-> s.first, list |-> s.list,
           start |-> s.start, check |-> s.check, asked |-> s.asked, prev |-> s.prev, conn |-> s.conn]
  BY DEF NsSound, NsTyped, NsRecord
<1>2. t = [s EXCEPT !.req = r, !.states = ss]
  BY <1>1 DEF SetRequests
<1>3. NsReqOK(r) /\ \A k \in Kinds : r[k] = IF k = kind THEN m ELSE s.req[k]
  <2>1. NsReqOK(s.req)
    BY DEF NsSound, NsTyped
  <2> QED
    BY <2>1 DEF NsReqOK, Kinds, NsItem
<1>4. NsStateOK(x) /\ \A k \in Kinds : x.req[k] = IF k = kind THEN n ELSE s.states[p].req[k]
  <2> DEFINE y == s.states[p]
  <2>1. NsStateOK(y)
    BY DEF NsSound, NsTyped
  <2>2. x = [y EXCEPT !.req = [y.req EXCEPT ![kind] = n]]
    OBVIOUS
  <2> HIDE DEF x, y
  <2>3. x = [cand |-> y.cand, req |-> [y.req EXCEPT ![kind] = n]]
    BY <2>1, <2>2 DEF NsStateOK
  <2>4. NsReqOK([y.req EXCEPT ![kind] = n])
    BY <2>1 DEF NsStateOK, NsReqOK, Kinds, NsItem
  <2>5. \A k \in Kinds : [y.req EXCEPT ![kind] = n][k] = IF k = kind THEN n ELSE y.req[k]
    BY <2>1 DEF NsStateOK, NsReqOK, Kinds
  <2> QED
    BY <2>1, <2>3, <2>4, <2>5 DEF NsStateOK, y
<1> HIDE DEF t, r, x
<1>5. /\ DOMAIN ss = DOMAIN s.states /\ ss = [q \in DOMAIN ss |-> ss[q]]
      /\ \A q \in DOMAIN s.states : ss[q] = IF q = p THEN x ELSE s.states[q]
  BY DEF NsSound, NsTyped
<1> HIDE DEF ss
<1>6. /\ NsRecord(t) /\ t.states = ss /\ t.sync = s.sync /\ t.req = r /\ t.first = s.first /\ t.list = s.list
      /\ t.start = s.start /\ t.check = s.check /\ t.asked = s.asked /\ t.conn = s.conn
  BY <1>1, <1>2 DEF NsRecord
<1>7. NsTyped(t)
  BY <1>3, <1>4, <1>5, <1>6 DEF NsSound, NsTyped
<1>8. NsHeaders(t)
  BY <1>6 DEF NsSound, NsHeaders
<1>9. \A q \in DOMAIN s.states : \A k \in Kinds :
          ss[q].req[k] = IF q = p /\ k = kind THEN n ELSE s.states[q].req[k]
  BY <1>4, <1>5
<1>10. NsBehind(t, b, o)
  <2>1. CASE NsPast(s, b)
    BY <1>6, <2>1 DEF NsPast, NsBehind
  <2>2. CASE ~NsPast(s, b)
    <3>1. \A q \in DOMAIN ss : \A h \in ss[q].req["block"] : h <= s.check
      BY <1>5, <1>9, <2>2 DEF NsPast, NsBehind, NsSound, Kinds
    <3> QED
      BY <1>6, <2>2, <3>1 DEF NsPast, NsBehind, NsSound
  <2> QED
    BY <2>1, <2>2
<1>11. NsSound(t, b, o)
  BY <1>7, <1>8, <1>10 DEF NsSound
<1>12. NsGood(s, b, o) => NsGood(t, b, o)
  BY <1>6, <1>8, <1>11, NsGoodSound DEF NsList
<1> QED
  BY <1>3, <1>5, <1>6, <1>9, <1>11, <1>12 DEF NsPuts, t

\* Such requests have an owner when what is new is requested of that peer, and
\* what it no longer owes is no longer requested.
LEMMA NsPutOwned ==
    ASSUME NEW s, NsOwned(s), NEW p \in DOMAIN s.states, NEW kind \in Kinds, NEW m, NEW n, NEW t,
           NsPuts(s, t, p, kind, m, n), m \ n \subseteq s.req[kind] \ s.states[p].req[kind]
    PROVE  NsOwned(t)
<1> SUFFICES ASSUME NEW k \in Kinds, NEW x \in t.req[k]
             PROVE  \E q \in DOMAIN t.states : x \in t.states[q].req[k]
  BY DEF NsOwned
<1>1. CASE k = kind /\ x \in n
  BY <1>1 DEF NsPuts
<1>2. CASE ~(k = kind /\ x \in n)
  <2>1. x \in s.req[k] /\ (k = kind => x \notin s.states[p].req[kind])
    BY <1>2 DEF NsPuts
  <2>2. PICK q \in DOMAIN s.states : x \in s.states[q].req[k]
    BY <2>1 DEF NsOwned
  <2>3. ~(q = p /\ k = kind)
    BY <2>1, <2>2
  <2>4. t.states[q].req[k] = s.states[q].req[k]
    BY <2>3 DEF NsPuts
  <2> QED
    BY <2>2, <2>4 DEF NsPuts
<1> QED
  BY <1>1, <1>2

\* Neither limit can be reached.
NsBelowLimit == Tip < MaxRequested /\ IsFiniteSet(Txn) /\ Cardinality(Txn) < MaxRequested

\* limitAdd drops nothing as long as there is room.
LEMMA NsLimitAdd ==
    ASSUME NEW kind \in Kinds, NEW S \in SUBSET NsItem(kind), NEW x \in NsItem(kind), NEW m \in LimitAdd(S, x)
    PROVE  m \in SUBSET NsItem(kind) /\ (NsBelowLimit => m = S \cup {x})
<1>1. m \in SUBSET NsItem(kind)
  BY DEF LimitAdd
<1>2. ASSUME NsBelowLimit PROVE m = S \cup {x}
  <2>1. IsFiniteSet(NsItem(kind)) /\ Cardinality(NsItem(kind)) < MaxRequested
    <3>1. CASE kind = "block"
      <4>1. IsFiniteSet(1..Tip) /\ Cardinality(1..Tip) = IF 1 > Tip THEN 0 ELSE Tip - 1 + 1
        BY NsHeights, FS_Interval
      <4> QED
        BY <3>1, <4>1, <1>2, NetSyncAssumption DEF NsItem, NsBelowLimit
    <3>2. CASE kind = "tx"
      BY <3>2, <1>2 DEF NsItem, NsBelowLimit
    <3> QED
      BY <3>1, <3>2 DEF Kinds
  <2>2. /\ Cardinality(S) \in Nat /\ Cardinality(NsItem(kind)) \in Nat
        /\ Cardinality(S) <= Cardinality(NsItem(kind))
    BY <2>1, FS_Subset, FS_CardinalityType
  <2>3. ~(Cardinality(S) + 1 > MaxRequested)
    BY <2>1, <2>2, NetSyncAssumption
  <2> QED
    BY <2>3 DEF LimitAdd
<1> QED
  BY <1>1, <1>2

\* What one of the states that a request may lead to keeps
NsAfter(s, t, b, o) ==
    /\ NsGood(t, b, o) /\ NsKnown(t) /\ DOMAIN t.states = DOMAIN s.states
    /\ t.first = s.first /\ t.check = s.check
    /\ NsBelowLimit /\ NsOwned(s) => NsOwned(t)

\* One entry of the request queue of handleInvMsg
LEMMA NsRequest ==
    ASSUME NEW s, NEW b, NEW o, NsGood(s, b, o), NsKnown(s), NsPast(s, b),
           NEW p \in DOMAIN s.states, NEW kind \in Kinds, NEW x \in NsItem(kind), NEW z \in Request(s, p, kind, x)
    PROVE  NsAfter(s, z, b, o)
<1>1. CASE x \in s.req[kind]
  BY <1>1 DEF Request, NsAfter
<1>2. CASE x \notin s.req[kind]
  <2>1. PICK m \in LimitAdd(s.req[kind], x), n \in LimitAdd(s.states[p].req[kind], x) :
            z = Send(SetRequests(s, p, kind, m, n), p, [ask |-> "data", kind |-> kind, item |-> x])
    <3>1. Request(s, p, kind, x) =
              {Send(SetRequests(s, p, kind, m, n), p, [ask |-> "data", kind |-> kind, item |-> x]) :
                m \in LimitAdd(s.req[kind], x), n \in LimitAdd(s.states[p].req[kind], x)}
      BY <1>2 DEF Request
    <3> QED
      BY <3>1
  <2>2. s.req[kind] \in SUBSET NsItem(kind) /\ s.states[p].req[kind] \in SUBSET NsItem(kind)
    BY DEF NsGood, NsTyped, NsStateOK, NsReqOK, Kinds, NsItem
  <2>3. /\ m \in SUBSET NsItem(kind) /\ (NsBelowLimit => m = s.req[kind] \cup {x})
        /\ n \in SUBSET NsItem(kind) /\ (NsBelowLimit => n = s.states[p].req[kind] \cup {x})
    BY <2>1, <2>2, NsLimitAdd
  <2> DEFINE t == SetRequests(s, p, kind, m, n)
  <2>4. /\ NsGood(t, b, o) /\ NsPuts(s, t, p, kind, m, n) /\ DOMAIN t.states = DOMAIN s.states
        /\ t.sync = s.sync /\ t.first = s.first /\ t.check = s.check
    <3>1. NsGood(t, b, o) /\ NsPuts(s, t, p, kind, m, n) /\ t.sync = s.sync /\ t.first = s.first /\ t.check = s.check
      BY <2>3, NsPut, NsGoodSound
    <3> HIDE DEF t
    <3> QED
      BY <3>1 DEF NsPuts
  <2> HIDE DEF t
  <2>5. NsBelowLimit /\ NsOwned(s) => NsOwned(t)
    <3> SUFFICES ASSUME NsBelowLimit, NsOwned(s) PROVE NsOwned(t)
      OBVIOUS
    <3>1. m \ n \subseteq s.req[kind] \ s.states[p].req[kind]
      BY <2>3
    <3> QED
      BY <2>4, <3>1, NsPutOwned
  <2> DEFINE a == [ask |-> "data", kind |-> kind, item |-> x]
  <2>6. a \in NsAsk(t.check) /\ p \in Peer
    <3>1. p \in Peer
      BY DEF NsGood, NsTyped
    <3> QED
      BY <3>1 DEF NsAsk, NsItem, Kinds
  <2> HIDE DEF a
  <2>7. NsTyped(z) /\ NsSame(t, z)
    <3>1. NsTyped(t)
      BY <2>4 DEF NsGood
    <3> QED
      BY <2>1, <2>6, <3>1, NsSend DEF t, a
  <2>8. NsGood(z, b, o) /\ (NsOwned(t) => NsOwned(z)) /\ (NsKnown(t) => NsKnown(z))
    BY <2>4, <2>7, NsSameGood
  <2>9. NsKnown(t)
    BY <2>4 DEF NsKnown
  <2> QED
    BY <2>4, <2>5, <2>7, <2>8, <2>9 DEF NsAfter, NsSame
<1> QED
  BY <1>1, <1>2

\* r[i] has the states after the first i entries of the request queue.
NsRequesting(r, s, p, kind, xs, n) ==
    r = [i \in 0..n |-> IF i = 0 THEN {s} ELSE RequestNext(r[i - 1], p, kind, xs[i])]

\* There is such a function for every length, by induction on it.
LEMMA NsRequestingExists ==
    ASSUME NEW s, NEW p, NEW kind, NEW xs, NEW n \in Nat
    PROVE  \E r : NsRequesting(r, s, p, kind, xs, n)
<1> DEFINE Bad == {k \in Nat : ~ \E r : NsRequesting(r, s, p, kind, xs, k)}
<1>1. Bad = {}
  <2> SUFFICES ASSUME Bad # {} PROVE FALSE
    OBVIOUS
  <2>1. PICK k \in Bad : \A m \in Bad : k <= m
    <3> HIDE DEF Bad
    <3>1. Bad \in SUBSET Nat
      BY DEF Bad
    <3> QED
      BY <3>1, LeastNumber
  <2>2. k \in Nat /\ ~ \E r : NsRequesting(r, s, p, kind, xs, k)
    OBVIOUS
  <2>3. CASE k = 0
    <3> DEFINE r == [i \in 0..0 |-> {s}]
    <3>1. NsRequesting(r, s, p, kind, xs, 0)
      BY DEF NsRequesting
    <3> QED
      BY <2>2, <2>3, <3>1
  <2>4. CASE k # 0
    <3>1. k - 1 \in Nat /\ k - 1 \notin Bad
      <4> HIDE DEF Bad
      <4> QED
        BY <2>1, <2>2, <2>4
    <3>2. PICK g : NsRequesting(g, s, p, kind, xs, k - 1)
      BY <3>1
    <3> DEFINE r == [i \in 0..k |-> IF i = 0 THEN {s} ELSE RequestNext(g[i - 1], p, kind, xs[i])]
    <3>3. \A i \in 0..(k - 1) : i \in 0..k /\ r[i] = g[i]
      <4> SUFFICES ASSUME NEW i \in 0..(k - 1) PROVE i \in 0..k /\ r[i] = g[i]
        OBVIOUS
      <4>1. g[i] = IF i = 0 THEN {s} ELSE RequestNext(g[i - 1], p, kind, xs[i])
        BY <3>2 DEF NsRequesting
      <4>2. i \in 0..k
        BY <2>2
      <4> QED
        BY <4>1, <4>2
    <3>4. \A i \in 0..k : i # 0 => i - 1 \in 0..(k - 1)
      BY <2>2
    <3>5. \A i \in 0..k : i # 0 => r[i - 1] = g[i - 1]
      <4> HIDE DEF r
      <4> QED
        BY <3>3, <3>4
    <3>6. r = [i \in 0..k |-> IF i = 0 THEN {s} ELSE RequestNext(r[i - 1], p, kind, xs[i])]
      BY <3>5
    <3>7. NsRequesting(r, s, p, kind, xs, k)
      BY <3>6 DEF NsRequesting
    <3> QED
      BY <2>2, <3>7
  <2> QED
    BY <2>3, <2>4
<1> QED
  BY <1>1

\* handleInvMsg: all that is wanted is requested.
LEMMA NsRequestAll ==
    ASSUME NEW s, NEW b, NEW o, NsGood(s, b, o), NsKnown(s), NsPast(s, b),
           NEW p \in DOMAIN s.states, NEW kind \in Kinds, NEW xs \in Seq(NsItem(kind)),
           NEW z \in RequestAll(s, p, kind, xs)
    PROVE  NsAfter(s, z, b, o)
<1> DEFINE r == CHOOSE f : NsRequesting(f, s, p, kind, xs, Len(xs))
<1>1. NsRequesting(r, s, p, kind, xs, Len(xs))
  BY NsRequestingExists
<1>2. z \in r[Len(xs)]
  BY DEF RequestAll, NsRequesting
<1> HIDE DEF r
<1> DEFINE Bad == {i \in 0..Len(xs) : \E t \in r[i] : ~NsAfter(s, t, b, o)}
<1>3. Bad = {}
  <2> SUFFICES ASSUME Bad # {} PROVE FALSE
    OBVIOUS
  <2>1. PICK i \in Bad : \A j \in Bad : i <= j
    <3> HIDE DEF Bad
    <3>1. Bad \in SUBSET Nat
      BY DEF Bad
    <3> QED
      BY <3>1, LeastNumber
  <2>2. PICK t \in r[i] : i \in 0..Len(xs) /\ ~NsAfter(s, t, b, o)
    OBVIOUS
  <2>3. r[i] = IF i = 0 THEN {s} ELSE RequestNext(r[i - 1], p, kind, xs[i])
    BY <1>1, <2>2 DEF NsRequesting
  <2>4. NsAfter(s, s, b, o)
    BY DEF NsAfter
  <2>5. i # 0
    BY <2>2, <2>3, <2>4
  <2>6. i - 1 \in 0..Len(xs) /\ i \in 1..Len(xs) /\ ~(i <= i - 1)
    BY <2>2, <2>5
  <2>7. \A u \in r[i - 1] : NsAfter(s, u, b, o)
    <3> SUFFICES ASSUME NEW u \in r[i - 1], ~NsAfter(s, u, b, o) PROVE FALSE
      OBVIOUS
    <3>1. i - 1 \in Bad
      BY <2>6
    <3> HIDE DEF Bad
    <3> QED
      BY <2>1, <2>6, <3>1
  <2> HIDE DEF Bad
  <2>8. xs[i] \in NsItem(kind)
    BY <2>6
  <2>9. t \notin r[i - 1]
    BY <2>2, <2>7
  <2>10. PICK u \in r[i - 1] : t \in Request(u, p, kind, xs[i])
    BY <2>2, <2>3, <2>5, <2>9 DEF RequestNext
  <2>11. NsGood(u, b, o) /\ NsKnown(u) /\ NsPast(u, b) /\ p \in DOMAIN u.states
    BY <2>7, <2>10 DEF NsAfter, NsPast
  <2>12. NsAfter(u, t, b, o)
    BY <2>8, <2>10, <2>11, NsRequest
  <2>13. NsAfter(s, t, b, o)
    BY <2>7, <2>10, <2>12 DEF NsAfter
  <2> QED
    BY <2>2, <2>13
<1>4. Len(xs) \in 0..Len(xs)
  OBVIOUS
<1> QED
  BY <1>2, <1>3, <1>4

\* The elements of a sequence
LEMMA NsElement == ASSUME NEW S, NEW q \in Seq(S), NEW i \in DOMAIN q PROVE q[i] \in S
OBVIOUS

\* The end of a sequence
LEMMA NsSubSeq ==
    ASSUME NEW S, NEW q \in Seq(S), NEW a \in 1..Len(q)
    PROVE  LET r == SubSeq(q, a, Len(q))
           IN  /\ r \in Seq(S) /\ Len(r) = Len(q) - a + 1
               /\ \A i \in 1..Len(r) : r[i] = q[a + i - 1] /\ a + i - 1 \in 1..Len(q)
OBVIOUS

\* A sequence without its first element
LEMMA NsTail ==
    ASSUME NEW S, NEW q \in Seq(S), q # <<>>
    PROVE  /\ Tail(q) \in Seq(S) /\ Len(Tail(q)) = Len(q) - 1 /\ Len(q) \in Nat \ {0}
           /\ \A i \in 1..(Len(q) - 1) : Tail(q)[i] = q[i + 1]
OBVIOUS

\* The front of the list goes.
LEMMA NsRemoveFront ==
    ASSUME NEW s, NEW b, NEW o, NsSound(s, b, o), s.first, s.list # <<>>
    PROVE  LET t == RemoveFront(s)
           IN  /\ NsSound(t, b, o) /\ (NsGood(s, b, o) => NsGood(t, b, o))
               /\ t.states = s.states /\ t.sync = s.sync /\ t.req = s.req
               /\ t.first = s.first /\ t.check = s.check
<1> DEFINE t == RemoveFront(s)
<1>1. s = [states |-> s.states, sync |-> s.sync, req |-> s.req, first |-> s.first, list |-> s.list,
           start |-> s.start, check |-> s.check, asked |-> s.asked, prev |-> s.prev, conn |-> s.conn]
  BY DEF NsSound, NsTyped, NsRecord
<1> DEFINE x == IF s.start = 1 THEN -s.list[1] ELSE IF s.start > 1 THEN s.start - 1 ELSE s.start
<1>2. t = [s EXCEPT !.list = Tail(s.list), !.start = x]
  BY <1>1 DEF RemoveFront
<1> HIDE DEF t, x
<1>3. /\ NsRecord(t) /\ t.states = s.states /\ t.sync = s.sync /\ t.req = s.req /\ t.first = s.first
      /\ t.list = Tail(s.list) /\ t.start = x /\ t.check = s.check /\ t.asked = s.asked /\ t.conn = s.conn
  BY <1>1, <1>2 DEF NsRecord
<1>4. NsTyped(t)
  BY <1>3 DEF NsSound, NsTyped
<1>5. /\ s.list \in Seq(0..Tip) /\ Len(s.list) \in Nat /\ Len(s.list) # 0 /\ Tip \in Nat
      /\ s.start \in (-Tip)..Len(s.list)
  BY NsHeights DEF NsSound, NsHeaders
<1>6. /\ Tail(s.list) \in Seq(0..Tip) /\ Len(Tail(s.list)) = Len(s.list) - 1
      /\ \A i \in 1..(Len(s.list) - 1) : Tail(s.list)[i] = s.list[i + 1] /\ i + 1 \in 1..Len(s.list)
      /\ 1 \in 1..Len(s.list) /\ s.list[1] \in 0..Tip
  <2>1. 1 \in 1..Len(s.list) /\ \A i \in 1..(Len(s.list) - 1) : i + 1 \in 1..Len(s.list)
    BY <1>5
  <2>2. s.list[1] \in 0..Tip
    BY <1>5, <2>1
  <2>3. s.list # <<>> /\ Tail(s.list) \in Seq(0..Tip) /\ Len(Tail(s.list)) = Len(s.list) - 1
    BY <1>5, NsTail
  <2>4. \A i \in 1..(Len(s.list) - 1) : Tail(s.list)[i] = s.list[i + 1]
    BY <1>5, NsTail
  <2> QED
    BY <2>1, <2>2, <2>3, <2>4
<1>7. x \in (-Tip)..(Len(s.list) - 1) /\ (s.start = 0 => x = 0)
  BY <1>5, <1>6 DEF x
<1>8. NsHeaders(t)
  <2>1. /\ t.list \in Seq(0..Tip) /\ Len(t.list) = Len(s.list) - 1 /\ t.start \in (-Tip)..Len(t.list)
        /\ \A i \in 1..Len(t.list) : t.list[i] = s.list[i + 1] /\ i + 1 \in 1..Len(s.list)
    BY <1>3, <1>6, <1>7
  <2>2. \A i \in 1..Len(t.list) : t.list[i] = s.check /\ s.check # 0 => i = Len(t.list)
    <3> SUFFICES ASSUME NEW i \in 1..Len(t.list), t.list[i] = s.check, s.check # 0 PROVE i = Len(t.list)
      OBVIOUS
    <3>1. i + 1 = Len(s.list)
      BY <2>1 DEF NsSound, NsHeaders
    <3> QED
      BY <3>1, <2>1, <1>5
  <2>3. t.start # 0 => s.first
    BY <1>3, <1>7 DEF NsSound, NsHeaders
  <2>4. s.check # 0 /\ s.sync # NoPeer
    BY DEF NsSound, NsHeaders
  <2> QED
    BY <2>1, <2>2, <2>3, <2>4, <1>3 DEF NsHeaders
<1>9. NsBehind(t, b, o)
  <2>1. /\ b <= s.check /\ \A h \in o : h <= s.check
        /\ \A i \in 1..Len(s.list) : s.list[i] <= s.check
        /\ \A q \in DOMAIN s.states : \A h \in s.states[q].req["block"] : h <= s.check
        /\ s.start < 0 => -s.start <= s.check
    BY DEF NsSound, NsBehind, NsHeaders
  <2>2. \A i \in 1..Len(t.list) : t.list[i] <= s.check
    BY <1>3, <1>6, <2>1
  <2>3. x < 0 => -x <= s.check
    <3>1. s.list[1] \in Int /\ s.list[1] <= s.check
      BY <1>6, <2>1
    <3> QED
      BY <2>1, <3>1, <1>5 DEF x
  <2> QED
    BY <1>3, <2>1, <2>2, <2>3 DEF NsBehind
<1>10. NsSound(t, b, o)
  BY <1>4, <1>8, <1>9 DEF NsSound
<1>11. NsGood(s, b, o) => NsGood(t, b, o)
  <2>1. /\ Len(t.list) = Len(s.list) - 1
        /\ \A i \in 1..Len(t.list) : t.list[i] = s.list[i + 1] /\ i + 1 \in 1..Len(s.list)
    BY <1>3, <1>6
  <2>2. NsList(s) => NsList(t)
    BY <2>1, <1>3, <1>7, <1>8 DEF NsList
  <2> QED
    BY <2>2, <1>10, NsGoodSound
<1> QED
  BY <1>3, <1>10, <1>11 DEF t

\* f[i] has what a peer is asked up to the header i of fetchHeaderBlocks.
NsAsking(f, base, next, want, n) ==
    f = [i \in 0..n |->
            IF i = 0 THEN base
            ELSE IF i \notin want THEN f[i - 1]
            ELSE Append(f[i - 1], [ask |-> "data", kind |-> "block", item |-> next[i]])]

\* There is such a function for every number of headers, by induction on it.
LEMMA NsAskingExists ==
    ASSUME NEW base, NEW next, NEW want, NEW n \in Nat
    PROVE  \E f : NsAsking(f, base, next, want, n)
<1> DEFINE Bad == {k \in Nat : ~ \E f : NsAsking(f, base, next, want, k)}
<1>1. Bad = {}
  <2> SUFFICES ASSUME Bad # {} PROVE FALSE
    OBVIOUS
  <2>1. PICK k \in Bad : \A m \in Bad : k <= m
    <3> HIDE DEF Bad
    <3>1. Bad \in SUBSET Nat
      BY DEF Bad
    <3> QED
      BY <3>1, LeastNumber
  <2>2. k \in Nat /\ ~ \E f : NsAsking(f, base, next, want, k)
    OBVIOUS
  <2>3. CASE k = 0
    <3> DEFINE f == [i \in 0..0 |-> base]
    <3>1. NsAsking(f, base, next, want, 0)
      BY DEF NsAsking
    <3> QED
      BY <2>2, <2>3, <3>1
  <2>4. CASE k # 0
    <3>1. k - 1 \in Nat /\ k - 1 \notin Bad
      <4> HIDE DEF Bad
      <4> QED
        BY <2>1, <2>2, <2>4
    <3>2. PICK g : NsAsking(g, base, next, want, k - 1)
      BY <3>1
    <3> DEFINE f == [i \in 0..k |-> IF i = 0 THEN base
                                    ELSE IF i \notin want THEN g[i - 1]
                                    ELSE Append(g[i - 1], [ask |-> "data", kind |-> "block", item |-> next[i]])]
    <3>3. \A i \in 0..(k - 1) : i \in 0..k /\ f[i] = g[i]
      <4> SUFFICES ASSUME NEW i \in 0..(k - 1) PROVE i \in 0..k /\ f[i] = g[i]
        OBVIOUS
      <4>1. g[i] = IF i = 0 THEN base
                   ELSE IF i \notin want THEN g[i - 1]
                   ELSE Append(g[i - 1], [ask |-> "data", kind |-> "block", item |-> next[i]])
        BY <3>2 DEF NsAsking
      <4>2. i \in 0..k
        BY <2>2
      <4> QED
        BY <4>1, <4>2
    <3>4. \A i \in 0..k : i # 0 => i - 1 \in 0..(k - 1)
      BY <2>2
    <3>5. \A i \in 0..k : i # 0 => f[i - 1] = g[i - 1]
      <4> HIDE DEF f
      <4> QED
        BY <3>3, <3>4
    <3>6. f = [i \in 0..k |-> IF i = 0 THEN base
                              ELSE IF i \notin want THEN f[i - 1]
                              ELSE Append(f[i - 1], [ask |-> "data", kind |-> "block", item |-> next[i]])]
      BY <3>5
    <3>7. NsAsking(f, base, next, want, k)
      BY <3>6 DEF NsAsking
    <3> QED
      BY <2>2, <3>7
  <2> QED
    BY <2>3, <2>4
<1> QED
  BY <1>1

\* What it adds to the questions of a peer are questions, by the same induction.
LEMMA NsAskingTyped ==
    ASSUME NEW A, NEW base \in Seq(A), NEW next, NEW want, NEW n \in Nat, NEW f, NsAsking(f, base, next, want, n),
           \A i \in want : [ask |-> "data", kind |-> "block", item |-> next[i]] \in A
    PROVE  f[n] \in Seq(A)
<1> DEFINE Bad == {i \in 0..n : f[i] \notin Seq(A)}
<1>1. Bad = {}
  <2> SUFFICES ASSUME Bad # {} PROVE FALSE
    OBVIOUS
  <2>1. PICK i \in Bad : \A j \in Bad : i <= j
    <3> HIDE DEF Bad
    <3>1. Bad \in SUBSET Nat
      BY DEF Bad
    <3> QED
      BY <3>1, LeastNumber
  <2>2. i \in 0..n /\ f[i] \notin Seq(A)
    OBVIOUS
  <2>3. f[i] = IF i = 0 THEN base
               ELSE IF i \notin want THEN f[i - 1]
               ELSE Append(f[i - 1], [ask |-> "data", kind |-> "block", item |-> next[i]])
    BY <2>2 DEF NsAsking
  <2>4. i # 0
    BY <2>2, <2>3
  <2>5. i - 1 \in 0..n /\ ~(i <= i - 1)
    BY <2>2, <2>4
  <2>6. f[i - 1] \in Seq(A)
    <3> SUFFICES ASSUME f[i - 1] \notin Seq(A) PROVE FALSE
      OBVIOUS
    <3>1. i - 1 \in Bad
      BY <2>5
    <3> HIDE DEF Bad
    <3> QED
      BY <2>1, <2>5, <3>1
  <2> HIDE DEF Bad
  <2>7. CASE i \in want
    <3> DEFINE a == [ask |-> "data", kind |-> "block", item |-> next[i]]
    <3>1. a \in A
      BY <2>7
    <3>2. f[i] = Append(f[i - 1], a)
      BY <2>3, <2>4, <2>7
    <3> HIDE DEF a
    <3> QED
      BY <2>2, <2>6, <3>1, <3>2
  <2>8. CASE i \notin want
    BY <2>2, <2>3, <2>4, <2>6, <2>8
  <2> QED
    BY <2>7, <2>8
<1>2. n \in 0..n
  OBVIOUS
<1> QED
  BY <1>1, <1>2

\* fetchHeaderBlocks: the sync peer is known, and owes what is requested.
LEMMA NsFetch ==
    ASSUME NEW s, NEW b, NEW o, NsSound(s, b, o), NsKnown(s), NEW have, 0 \in have
    PROVE  LET t == FetchHeaderBlocks(s, have)
           IN  /\ NsGood(t, b, o) /\ NsKnown(t) /\ t.check = s.check /\ (NsOwned(s) => NsOwned(t))
               /\ DOMAIN t.states = DOMAIN s.states
<1> DEFINE t == FetchHeaderBlocks(s, have)
<1>1. CASE s.start = 0
  <2>1. t = s
    BY <1>1 DEF FetchHeaderBlocks
  <2>2. NsList(s)
    BY <1>1 DEF NsSound, NsList
  <2> QED
    BY <2>1, <2>2, NsGoodSound
<1>2. CASE s.start # 0
  <2>1. /\ s.first /\ s.check # 0 /\ s.sync # NoPeer /\ s.sync \in DOMAIN s.states /\ s.sync \in Peer
        /\ s.list \in Seq(0..Tip) /\ s.start \in (-Tip)..Len(s.list) /\ s.check \in 0..Tip
        /\ \A i \in 1..Len(s.list) : s.list[i] <= s.check
        /\ s.start < 0 => -s.start <= s.check
    <3>1. s.first /\ s.check # 0 /\ s.sync # NoPeer /\ s.list \in Seq(0..Tip) /\ s.start \in (-Tip)..Len(s.list)
      BY <1>2 DEF NsSound, NsHeaders
    <3>2. s.sync \in DOMAIN s.states /\ s.sync \in Peer
      BY <3>1 DEF NsKnown, NsSound, NsTyped
    <3>3. s.check \in 0..Tip
      BY NsHeights DEF NsSound, NsTyped
    <3> QED
      BY <3>1, <3>2, <3>3 DEF NsSound, NsBehind
  <2> DEFINE next == IF s.start < 0 THEN <<-s.start>> ELSE SubSeq(s.list, s.start, Len(s.list))
  <2> DEFINE want == {i \in DOMAIN next : next[i] \notin have}
  <2> DEFINE blocks == {next[i] : i \in want}
  <2> DEFINE f == CHOOSE g : NsAsking(g, s.asked[s.sync], next, want, Len(next))
  <2> DEFINE m == s.req["block"] \cup blocks
  <2> DEFINE n == s.states[s.sync].req["block"] \cup blocks
  <2> DEFINE u == SetRequests(s, s.sync, "block", m, n)
  <2>2. next \in Seq(0..Tip) /\ Len(next) \in Nat /\ \A i \in DOMAIN next : next[i] <= s.check
    <3>1. Tip \in Nat
      BY NsHeights
    <3>2. CASE s.start < 0
      <4>1. next = <<-s.start>> /\ -s.start \in 0..Tip
        BY <2>1, <3>1, <3>2
      <4> HIDE DEF next
      <4>2. next \in Seq(0..Tip) /\ Len(next) = 1 /\ next[1] = -s.start /\ DOMAIN next = 1..1
        BY <4>1
      <4> QED
        BY <4>1, <4>2, <2>1, <3>2
    <3>3. CASE ~(s.start < 0)
      <4>1. next = SubSeq(s.list, s.start, Len(s.list)) /\ s.start \in 1..Len(s.list) /\ Len(s.list) \in Nat
        <5>1. Len(s.list) \in Nat /\ s.start \in Int /\ s.start # 0 /\ s.start <= Len(s.list)
          BY <1>2, <2>1, <3>1
        <5> QED
          BY <3>3, <5>1
      <4> HIDE DEF next
      <4>2. /\ next \in Seq(0..Tip) /\ Len(next) = Len(s.list) - s.start + 1
            /\ \A i \in 1..Len(next) : next[i] = s.list[s.start + i - 1] /\ s.start + i - 1 \in 1..Len(s.list)
        <5>1. s.list \in Seq(0..Tip) /\ s.start \in 1..Len(s.list)
          BY <4>1, <2>1
        <5> DEFINE r == SubSeq(s.list, s.start, Len(s.list))
        <5>2. /\ r \in Seq(0..Tip) /\ Len(r) = Len(s.list) - s.start + 1
              /\ \A i \in 1..Len(r) : r[i] = s.list[s.start + i - 1] /\ s.start + i - 1 \in 1..Len(s.list)
          BY ONLY <5>1, NsSubSeq, Zenon
        <5> QED
          BY <4>1, <5>2
      <4>3. DOMAIN next = 1..Len(next)
        BY <4>2
      <4> QED
        BY <4>1, <4>2, <4>3, <2>1
    <3> QED
      BY <3>2, <3>3
  <2>3. NsAsking(f, s.asked[s.sync], next, want, Len(next))
    <3> HIDE DEF next, want
    <3> QED
      BY <2>2, NsAskingExists
  <2>4. t = [s EXCEPT !.req["block"] = @ \cup blocks, !.states[s.sync].req["block"] = @ \cup blocks,
                      !.asked[s.sync] = f[Len(next)], !.start = 0]
    BY <1>2 DEF FetchHeaderBlocks, NsAsking
  <2> HIDE DEF next, f, t
  <2>5. \A i \in want : next[i] \in 1..Tip /\ next[i] <= s.check
    <3> SUFFICES ASSUME NEW i \in want PROVE next[i] \in 1..Tip /\ next[i] <= s.check
      OBVIOUS
    <3>1. i \in DOMAIN next /\ next[i] # 0
      OBVIOUS
    <3>2. next[i] \in 0..Tip
      BY <2>2, <3>1, NsElement
    <3> QED
      BY <2>2, <3>1, <3>2, NsHeights
  <2>6. blocks \subseteq 1..Tip /\ \A h \in blocks : h <= s.check
    BY <2>5
  <2> HIDE DEF want, blocks
  <2>7. m \in SUBSET NsItem("block") /\ n \in SUBSET NsItem("block") /\ "block" \in Kinds /\ \A h \in n : h <= s.check
    <3>1. s.req["block"] \subseteq 1..Tip /\ s.states[s.sync].req["block"] \subseteq 1..Tip
      BY <2>1 DEF NsSound, NsTyped, NsStateOK, NsReqOK
    <3>2. \A h \in s.states[s.sync].req["block"] : h <= s.check
      BY <2>1 DEF NsSound, NsBehind
    <3> QED
      BY <3>1, <3>2, <2>6 DEF NsItem, Kinds
  <2>8. m \ n \subseteq s.req["block"] \ s.states[s.sync].req["block"]
    OBVIOUS
  <2> HIDE DEF m, n
  <2>9. /\ NsSound(u, b, o) /\ NsPuts(s, u, s.sync, "block", m, n)
        /\ u.sync = s.sync /\ u.first = s.first /\ u.list = s.list /\ u.start = s.start
        /\ u.check = s.check /\ u.asked = s.asked
    <3>1. "block" = "block" => NsPast(s, b) \/ \A h \in n : h <= s.check
      BY <2>7
    <3>2. s.sync \in DOMAIN s.states
      BY <2>1
    <3> QED
      BY <2>7, <3>1, <3>2, NsPut
  <2>10. NsOwned(s) => NsOwned(u)
    <3> HIDE DEF u
    <3> QED
      BY <2>1, <2>7, <2>8, <2>9, NsPutOwned
  <2>11. s = [states |-> s.states, sync |-> s.sync, req |-> s.req, first |-> s.first, list |-> s.list,
              start |-> s.start, check |-> s.check, asked |-> s.asked, prev |-> s.prev, conn |-> s.conn]
    BY DEF NsSound, NsTyped, NsRecord
  <2>12. t = [u EXCEPT !.asked = [s.asked EXCEPT ![s.sync] = f[Len(next)]], !.start = 0]
    BY <2>4, <2>11 DEF SetRequests, m, n
  <2> HIDE DEF u
  <2>13. /\ NsRecord(t) /\ t.states = u.states /\ t.sync = s.sync /\ t.req = u.req /\ t.first = s.first
         /\ t.list = s.list /\ t.start = 0 /\ t.check = s.check /\ t.conn = u.conn
         /\ t.asked = [s.asked EXCEPT ![s.sync] = f[Len(next)]]
    <3>1. u = [states |-> u.states, sync |-> u.sync, req |-> u.req, first |-> u.first, list |-> u.list,
               start |-> u.start, check |-> u.check, asked |-> u.asked, prev |-> u.prev, conn |-> u.conn]
      BY <2>9 DEF NsSound, NsTyped, NsRecord
    <3>2. /\ NsRecord(t) /\ t.states = u.states /\ t.sync = u.sync /\ t.req = u.req /\ t.first = u.first
          /\ t.list = u.list /\ t.start = 0 /\ t.check = u.check /\ t.conn = u.conn
          /\ t.asked = [s.asked EXCEPT ![s.sync] = f[Len(next)]]
      BY <2>12, <3>1 DEF NsRecord
    <3> QED
      BY <3>2, <2>9
  <2>14. t.asked \in [Peer -> Seq(NsAsk(s.check))]
    <3>1. s.asked \in [Peer -> Seq(NsAsk(s.check))]
      BY DEF NsSound, NsTyped
    <3>2. \A i \in want : [ask |-> "data", kind |-> "block", item |-> next[i]] \in NsAsk(s.check)
      BY <2>5 DEF NsAsk
    <3>3. f[Len(next)] \in Seq(NsAsk(s.check))
      <4>1. s.asked[s.sync] \in Seq(NsAsk(s.check))
        BY <3>1, <2>1
      <4> QED
        BY <4>1, <3>2, <2>2, <2>3, NsAskingTyped
    <3> QED
      BY <3>1, <3>3, <2>1, <2>13
  <2>15. NsTyped(t)
    BY <2>9, <2>13, <2>14 DEF NsSound, NsTyped
  <2>16. NsHeaders(t)
    BY <2>1, <2>13, NsHeights DEF NsSound, NsHeaders
  <2>17. NsBehind(t, b, o)
    BY <2>9, <2>13 DEF NsSound, NsBehind
  <2>18. NsGood(t, b, o)
    BY <2>9, <2>13, <2>15, <2>16, <2>17, NsGoodSound DEF NsSound, NsList
  <2>19. NsKnown(t)
    BY <2>1, <2>9, <2>13 DEF NsKnown, NsPuts
  <2>20. NsOwned(u) => NsOwned(t)
    BY <2>13 DEF NsOwned
  <2> QED
    BY <2>9, <2>10, <2>13, <2>18, <2>19, <2>20 DEF t, NsPuts
<1> QED
  BY <1>1, <1>2

\* The next checkpoint d comes after c, or there is none.
NsLater(c, d) == d = 0 \/ (c # 0 /\ c <= d)

\* The rest of handleBlockMsg, after the block h.
LEMMA NsAfterBlock ==
    ASSUME NEW s, NEW b, NEW o, NsGood(s, b, o), NsKnown(s), NEW p \in Peer, NEW h \in 1..Tip,
           NEW cp \in BOOLEAN, cp => s.first /\ s.list # <<>> /\ s.list[1] = h /\ h = s.check,
           NEW have, 0 \in have
    PROVE  LET z == AfterBlock(s, p, h, cp, have)
           IN  /\ NsGood(z, b, o) /\ NsKnown(z) /\ NsLater(s.check, z.check) /\ (NsOwned(s) => NsOwned(z))
               /\ DOMAIN z.states = DOMAIN s.states
<1> DEFINE z == AfterBlock(s, p, h, cp, have)
<1>0. s.check \in 0..Tip /\ NsLater(s.check, s.check)
  <2>1. s.check \in 0..Tip
    BY NsHeights DEF NsGood, NsTyped
  <2> QED
    BY <2>1, NsHeights DEF NsLater
<1>1. CASE ~s.first
  BY <1>0, <1>1 DEF AfterBlock
<1>2. CASE s.first /\ ~cp
  <2>1. z = s \/ z = FetchHeaderBlocks(s, have)
    BY <1>2 DEF AfterBlock
  <2> QED
    BY <1>0, <2>1, NsFetch, NsGoodSound
<1>3. CASE s.first /\ cp
  <2> DEFINE next == FindNextHeaderCheckpoint(s.check)
  <2> DEFINE t == [s EXCEPT !.check = next]
  <2>1. s.list # <<>> /\ s.list[1] = h /\ h = s.check /\ s.list \in Seq(0..Tip) /\ s.check # 0 /\ s.sync # NoPeer
    BY <1>3 DEF NsGood, NsList, NsHeaders
  <2>2. next \in Checkpoints \cup {0} /\ next \in 0..Tip /\ NsLater(s.check, next) /\ (next # 0 => s.check < next)
    <3>1. next \in Checkpoints \cup {0} /\ (next # 0 => next > s.check)
      BY <1>0, NsHeights, NsNextCheckpoint
    <3> HIDE DEF next
    <3>2. next \in 0..Tip
      BY <3>1, NsHeights
    <3> QED
      BY <3>1, <3>2, <1>0, <2>1, NsHeights DEF NsLater
  <2>3. s.start = 0
    <3>1. 1 \in 1..Len(s.list)
      BY <2>1
    <3> QED
      BY <2>1, <3>1 DEF NsGood, NsList, NsHeaders
  <2>4. s = [states |-> s.states, sync |-> s.sync, req |-> s.req, first |-> s.first, list |-> s.list,
             start |-> s.start, check |-> s.check, asked |-> s.asked, prev |-> s.prev, conn |-> s.conn]
    BY DEF NsGood, NsTyped, NsRecord
  <2>5. z = IF next # 0 THEN PushGetHeaders(t, p, h, next)
            ELSE PushGetBlocks([t EXCEPT !.first = FALSE, !.list = <<>>], p, h, 0)
    BY <1>3 DEF AfterBlock
  <2> HIDE DEF next, z
  <2>6. /\ NsRecord(t) /\ t.states = s.states /\ t.sync = s.sync /\ t.req = s.req /\ t.first = s.first /\ t.list = s.list
        /\ t.start = 0 /\ t.check = next /\ t.asked = s.asked /\ t.prev = s.prev /\ t.conn = s.conn
    BY <2>3, <2>4 DEF NsRecord
  <2> HIDE DEF t
  <2>7. NsTyped(t)
    <3>1. Seq(NsAsk(s.check)) \subseteq Seq(NsAsk(next))
      BY <1>0, <2>2, NsHeights, NsAskGrows DEF NsLater
    <3>2. t.asked \in [Peer -> Seq(NsAsk(next))]
      BY <2>6, <3>1 DEF NsGood, NsTyped
    <3> QED
      BY <2>2, <2>6, <3>2 DEF NsGood, NsTyped
  <2>8. CASE next # 0
    <3>1. next \in NsHeight(t.check) /\ h < next /\ h \in 0..Tip
      BY <2>1, <2>2, <2>6, <2>8, <1>0 DEF NsHeight
    <3>2. NsTyped(z) /\ NsSame(t, z)
      BY <2>2, <2>5, <2>7, <2>8, <3>1, NsPushGetHeaders
    <3>3. /\ b <= s.check /\ (\A x \in o : x <= s.check)
          /\ \A i \in 1..Len(s.list) : s.list[i] <= s.check
          /\ \A q \in DOMAIN s.states : \A x \in s.states[q].req["block"] : x <= s.check
      BY <1>3, <2>1 DEF NsGood, NsBehind
    <3>4. b \in Nat /\ s.check \in Nat /\ next \in Nat /\ s.check < next /\ o \subseteq Nat
      BY <1>0, <2>2, <2>8, NsHeights DEF NsGood
    <3>5. \A i \in 1..Len(s.list) : s.list[i] \in Nat
      <4> SUFFICES ASSUME NEW i \in 1..Len(s.list) PROVE s.list[i] \in Nat
        OBVIOUS
      <4>1. i \in DOMAIN s.list
        BY <2>1
      <4>2. s.list[i] \in 0..Tip
        BY <2>1, <4>1, NsElement
      <4> QED
        BY <4>2
    <3>6. \A q \in DOMAIN s.states : \A x \in s.states[q].req["block"] : x \in Nat
      <4> SUFFICES ASSUME NEW q \in DOMAIN s.states, NEW x \in s.states[q].req["block"] PROVE x \in Nat
        OBVIOUS
      <4>1. x \in 1..Tip
        BY DEF NsGood, NsTyped, NsStateOK, NsReqOK
      <4> QED
        BY <4>1
    <3>7. \A i \in 1..Len(s.list) : s.list[i] # next /\ s.list[i] <= next
      BY <3>3, <3>4, <3>5
    <3>8. NsList(z)
      BY <2>1, <2>6, <2>8, <3>2, <3>7, NsHeights DEF NsList, NsHeaders, NsSame
    <3>9. b <= next /\ \A x \in o : x <= next
      <4>1. b <= next
        BY <3>3, <3>4
      <4>2. ASSUME NEW x \in o PROVE x <= next
        <5>1. x \in Nat /\ x <= s.check
          BY <3>3, <3>4
        <5> QED
          BY <5>1, <3>4
      <4> QED
        BY <4>1, <4>2
    <3>10. \A q \in DOMAIN s.states : \A x \in s.states[q].req["block"] : x <= next
      BY <3>3, <3>4, <3>6
    <3>11. NsBehind(z, b, o)
      BY <1>3, <2>6, <3>2, <3>7, <3>9, <3>10 DEF NsBehind, NsSame
    <3>12. NsGood(z, b, o)
      BY <3>2, <3>8, <3>11 DEF NsGood
    <3>13. NsKnown(z) /\ (NsOwned(s) => NsOwned(z)) /\ z.check = next
      BY <2>6, <3>2 DEF NsKnown, NsOwned, NsSame
    <3> QED
      BY <2>2, <2>6, <3>2, <3>12, <3>13 DEF z, NsSame
  <2>9. CASE next = 0
    <3> DEFINE u == [t EXCEPT !.first = FALSE, !.list = <<>>]
    <3>1. t = [states |-> t.states, sync |-> t.sync, req |-> t.req, first |-> t.first, list |-> t.list,
               start |-> t.start, check |-> t.check, asked |-> t.asked, prev |-> t.prev, conn |-> t.conn]
      BY <2>6 DEF NsRecord
    <3>2. /\ NsRecord(u) /\ u.states = t.states /\ u.sync = t.sync /\ u.req = t.req /\ u.first = FALSE /\ u.list = <<>>
          /\ u.start = t.start /\ u.check = t.check /\ u.asked = t.asked /\ u.conn = t.conn
      <4>1. u = [t EXCEPT !.first = FALSE, !.list = <<>>]
        OBVIOUS
      <4> HIDE DEF u
      <4> QED
        BY <3>1, <4>1 DEF NsRecord
    <3>3. z = PushGetBlocks(u, p, h, 0)
      BY <2>5, <2>9
    <3> HIDE DEF u
    <3>4. NsTyped(u)
      BY <2>7, <3>2 DEF NsTyped
    <3>5. NsTyped(z) /\ NsSame(u, z)
      BY <1>0, <2>1, <3>3, <3>4, NsPushGetBlocks
    <3>6. /\ z.list = <<>> /\ z.start = 0 /\ z.first = FALSE /\ z.check = 0 /\ z.states = s.states /\ z.sync = s.sync
          /\ z.req = s.req
      BY <2>6, <2>9, <3>2, <3>5 DEF NsSame
    <3>7. NsList(z)
      BY <3>6, NsHeights DEF NsList, NsHeaders
    <3>8. NsBehind(z, b, o)
      BY <3>6 DEF NsBehind
    <3>9. NsGood(z, b, o)
      BY <3>5, <3>7, <3>8 DEF NsGood
    <3>10. NsKnown(z) /\ (NsOwned(s) => NsOwned(z))
      BY <3>6 DEF NsKnown, NsOwned
    <3> QED
      BY <2>2, <2>9, <3>6, <3>9, <3>10 DEF z
  <2> QED
    BY <2>8, <2>9
<1> QED
  BY <1>1, <1>2, <1>3

\* A request is forgotten.
LEMMA NsForget ==
    ASSUME NEW s, NEW b, NEW o, NsGood(s, b, o), NsKnown(s), NEW p \in DOMAIN s.states, NEW kind \in Kinds, NEW x
    PROVE  LET t == Forget(s, p, kind, x)
           IN  /\ NsGood(t, b, o) /\ NsKnown(t) /\ (NsOwned(s) => NsOwned(t)) /\ DOMAIN t.states = DOMAIN s.states
               /\ t.first = s.first /\ t.list = s.list /\ t.start = s.start /\ t.check = s.check
<1> DEFINE m == s.req[kind] \ {x}
<1> DEFINE n == s.states[p].req[kind] \ {x}
<1> DEFINE t == SetRequests(s, p, kind, m, n)
<1>1. m \in SUBSET NsItem(kind) /\ n \in SUBSET NsItem(kind)
  BY DEF NsGood, NsTyped, NsStateOK, NsReqOK, Kinds, NsItem
<1>2. kind = "block" => NsPast(s, b) \/ \A h \in n : h <= s.check
  BY DEF NsGood, NsBehind, NsPast
<1>3. m \ n \subseteq s.req[kind] \ s.states[p].req[kind]
  OBVIOUS
<1>4. Forget(s, p, kind, x) = t
  BY DEF Forget
<1> HIDE DEF m, n
<1>5. /\ NsGood(t, b, o) /\ NsPuts(s, t, p, kind, m, n)
      /\ t.sync = s.sync /\ t.first = s.first /\ t.list = s.list /\ t.start = s.start /\ t.check = s.check
  BY <1>1, <1>2, NsPut, NsGoodSound
<1> HIDE DEF t
<1>6. NsOwned(s) => NsOwned(t)
  BY <1>3, <1>5, NsPutOwned
<1>7. NsKnown(t) /\ DOMAIN t.states = DOMAIN s.states
  BY <1>5 DEF NsKnown, NsPuts
<1> QED
  BY <1>4, <1>5, <1>6, <1>7

\* The chain grows, not beyond the checkpoint as long as that matters.
LEMMA NsChainGrows ==
    ASSUME NEW s, NEW b, NEW o, NsGood(s, b, o), NEW d \in 0..Tip, b <= d, NEW os \in SUBSET (1..Tip),
           NsPast(s, b) \/ (d <= s.check /\ \A h \in os : h <= s.check)
    PROVE  NsGood(s, d, os)
<1>1. b \in Nat /\ d \in Nat /\ s.check \in Nat
  <2>1. s.check \in 0..Tip /\ b \in 0..Tip /\ Tip \in Nat
    BY NsHeights DEF NsGood, NsTyped
  <2> QED
    BY <2>1
<1>2. NsBehind(s, d, os)
  BY <1>1 DEF NsGood, NsBehind, NsPast
<1> QED
  BY <1>2 DEF NsGood

\* What a message brings.
NsFacts(m, c) ==
    /\ m.peer \in Peer
    /\ m.msg = "tx" => m.item \in Txn
    /\ m.msg = "block" => m.item \in 1..Tip
    /\ m.msg = "headers" => m.items \in Seq(NsHeight(c))
    /\ m.msg = "notfound" => m.kind \in Kinds
    /\ m.msg = "inv" => m.kind \in Kinds /\ m.items \in Seq(NsItem(m.kind)) /\ m.items # <<>>

\* Every message of msgChan brings what its handler expects.
LEMMA NsMessageFacts ==
    ASSUME NEW c, NEW m \in NsMessage(c) PROVE NsFacts(m, c)
<1>1. CASE m \in [msg : {"new", "done"}, peer : Peer]
  BY <1>1 DEF NsFacts
<1>2. CASE m \in [msg : {"block"}, peer : Peer, item : 1..Tip, good : BOOLEAN]
  BY <1>2 DEF NsFacts
<1>3. CASE m \in [msg : {"tx"}, peer : Peer, item : Txn, good : BOOLEAN]
  BY <1>3 DEF NsFacts
<1>4. CASE m \in [msg : {"headers"}, peer : Peer, items : Seq(NsHeight(c))]
  BY <1>4 DEF NsFacts
<1>5. CASE m \in [msg : {"notfound"}, kind : {"block"}, peer : Peer, item : 1..Tip]
  BY <1>5 DEF NsFacts, Kinds
<1>6. CASE m \in [msg : {"notfound"}, kind : {"tx"}, peer : Peer, item : Txn]
  BY <1>6 DEF NsFacts, Kinds
<1>7. CASE m \in [msg : {"inv"}, new : BOOLEAN, kind : {"block"}, peer : Peer, items : Seq(1..Tip) \ {<<>>}]
  BY <1>7 DEF NsFacts, Kinds, NsItem
<1>8. CASE m \in [msg : {"inv"}, new : BOOLEAN, kind : {"tx"}, peer : Peer, items : Seq(Txn) \ {<<>>}]
  BY <1>8 DEF NsFacts, Kinds, NsItem
<1> QED
  BY <1>1, <1>2, <1>3, <1>4, <1>5, <1>6, <1>7, <1>8 DEF NsMessage

\* The message that is handled is the first of msgChan.
LEMMA NsHandled ==
    ASSUME NetSyncIInv, NEW kind, Handle(kind)
    PROVE  /\ msgChan # <<>> /\ msgChan' \in Seq(NsMessage(nextCheckpoint)) /\ msgChan' = Tail(msgChan)
           /\ Head(msgChan).msg = kind /\ NsFacts(Head(msgChan), nextCheckpoint) /\ From \in Peer
<1>1. msgChan \in Seq(NsMessage(nextCheckpoint)) /\ msgChan # <<>> /\ msgChan' = Tail(msgChan) /\ Head(msgChan).msg = kind
  BY DEF NetSyncIInv, Handle
<1>2. Head(msgChan) \in NsMessage(nextCheckpoint) /\ Tail(msgChan) \in Seq(NsMessage(nextCheckpoint))
  BY <1>1
<1>3. NsFacts(Head(msgChan), nextCheckpoint)
  BY <1>2, NsMessageFacts
<1> QED
  BY <1>1, <1>2, <1>3 DEF NsFacts, From

\* The invariant, in terms of the variables.
LEMMA NsNow ==
    ASSUME NetSyncIInv
    PROVE  /\ NsGood(Now, best, blockOrphans) /\ NsKnown(Now) /\ NsLater(nextCheckpoint, nextCheckpoint)
           /\ Now.states = peerStates /\ Now.sync = syncPeer /\ Now.req = requested /\ Now.first = headersFirst
           /\ Now.list = headerList /\ Now.start = startHeader /\ Now.check = nextCheckpoint /\ Now.asked = asked
           /\ Now.conn = conn /\ nextCheckpoint \in 0..Tip /\ nextCheckpoint \in Checkpoints \cup {0}
           /\ best \in 0..Tip /\ blockOrphans \subseteq 1..Tip
           /\ Now = [states |-> Now.states, sync |-> Now.sync, req |-> Now.req, first |-> Now.first,
                     list |-> Now.list, start |-> Now.start, check |-> Now.check, asked |-> Now.asked,
                     prev |-> Now.prev, conn |-> Now.conn]
<1>1. NsGood(Now, best, blockOrphans) /\ NsKnown(Now)
  BY DEF NetSyncIInv
<1>2. /\ Now.states = peerStates /\ Now.sync = syncPeer /\ Now.req = requested /\ Now.first = headersFirst
      /\ Now.list = headerList /\ Now.start = startHeader /\ Now.check = nextCheckpoint /\ Now.asked = asked
      /\ Now.conn = conn
  BY DEF Now
<1>3. Now.check \in Checkpoints \cup {0} /\ best \in 0..Tip /\ blockOrphans \subseteq 1..Tip
  BY <1>1 DEF NsGood, NsTyped
<1>4. Now.check \in 0..Tip
  BY <1>3, NsHeights
<1>5. NsLater(nextCheckpoint, nextCheckpoint)
  BY <1>2, <1>4, NsHeights DEF NsLater
<1>6. NsRecord(Now)
  BY <1>1 DEF NsGood, NsTyped
<1> QED
  BY <1>1, <1>2, <1>3, <1>4, <1>5, <1>6 DEF NsRecord

\* A handler that ends in a good state keeps the invariant.
LEMMA NsBecomes ==
    ASSUME NetSyncIInv, NEW z, Becomes(z), NsGood(z, best', blockOrphans'), NsKnown(z),
           NsLater(nextCheckpoint, z.check), msgChan' \in Seq(NsMessage(nextCheckpoint))
    PROVE  NetSyncIInv' /\ Now' = z
<1>1. Now' = z
  <2>1. z = [states |-> z.states, sync |-> z.sync, req |-> z.req, first |-> z.first, list |-> z.list,
             start |-> z.start, check |-> z.check, asked |-> z.asked, prev |-> z.prev, conn |-> z.conn]
    BY DEF NsGood, NsTyped, NsRecord
  <2>2. Now' = [states |-> z.states, sync |-> z.sync, req |-> z.req, first |-> z.first, list |-> z.list,
                start |-> z.start, check |-> z.check, asked |-> z.asked, prev |-> z.prev, conn |-> z.conn]
    BY DEF Now, Becomes
  <2> QED
    BY <2>1, <2>2
<1>2. nextCheckpoint' = z.check
  BY DEF Becomes
<1>3. Seq(NsMessage(nextCheckpoint)) \subseteq Seq(NsMessage(z.check))
  <2>1. nextCheckpoint \in Nat /\ z.check \in Nat
    <3>1. nextCheckpoint \in 0..Tip /\ z.check \in 0..Tip
      BY NsNow, NsHeights DEF NsGood, NsTyped
    <3> QED
      BY <3>1
  <2> QED
    BY <2>1, NsAskGrows DEF NsLater
<1>4. conn' = z.conn /\ z.conn \in NsConns /\ z.conn \in NsConns'
  <2>1. conn' = z.conn /\ z.conn \in NsConns
    BY DEF Becomes, NsGood, NsTyped
  <2> QED
    BY <2>1 DEF NsConns
<1>5. NsGood(Now, best, blockOrphans)'
  BY <1>1, <1>4 DEF NsGood, NsTyped
<1>6. NsKnown(Now)'
  BY <1>1
<1> QED
  BY <1>1, <1>2, <1>3, <1>5, <1>6 DEF NetSyncIInv

\* What every step of the goroutine keeps.
NsKept ==
    /\ NetSyncIInv' /\ conn' \in NsConns
    /\ NsBelowLimit /\ NsOwned(Now) /\ NsTurns => NsOwned(Now')

\* So does a handler that ends in a good state.
LEMMA NsStep ==
    ASSUME NetSyncIInv, NEW z, Becomes(z), NsGood(z, best', blockOrphans'), NsKnown(z),
           NsLater(nextCheckpoint, z.check), msgChan' \in Seq(NsMessage(nextCheckpoint)),
           NsBelowLimit /\ NsOwned(Now) /\ NsTurns => NsOwned(z)
    PROVE  NsKept /\ DOMAIN peerStates' = DOMAIN z.states
<1>1. NetSyncIInv' /\ Now' = z
  BY NsBecomes
<1>2. peerStates' = z.states /\ conn' = z.conn
  BY DEF Becomes
<1>3. z.conn \in NsConns
  BY DEF NsGood, NsTyped
<1> QED
  BY <1>1, <1>2, <1>3 DEF NsKept

\* So does a message that changes nothing.
LEMMA NsNothing ==
    ASSUME NetSyncIInv, Becomes(Now), UNCHANGED nsWorld, msgChan' \in Seq(NsMessage(nextCheckpoint))
    PROVE  NsKept /\ DOMAIN peerStates' = DOMAIN peerStates
<1>1. best' = best /\ blockOrphans' = blockOrphans
  BY DEF nsWorld
<1> QED
  BY <1>1, NsNow, NsStep

\* handleNewPeerMsg
LEMMA NsHandleNewPeer ==
    ASSUME NetSyncIInv, HandleNewPeerMsg PROVE NsKept /\ DOMAIN peerStates' = DOMAIN peerStates \cup {From}
<1> DEFINE ss == [q \in DOMAIN peerStates \cup {From} |->
                    IF q = From THEN [cand |-> TRUE, req |-> NoRequests] ELSE peerStates[q]]
<1> DEFINE s == [Now EXCEPT !.states = ss]
<1>1. /\ msgChan # <<>> /\ msgChan' \in Seq(NsMessage(nextCheckpoint)) /\ From \in Peer
      /\ Head(msgChan) = msgChan[1] /\ 1 \in DOMAIN msgChan
  <2>1. Handle("new")
    BY DEF HandleNewPeerMsg
  <2>2. msgChan # <<>> /\ msgChan \in Seq(NsMessage(nextCheckpoint))
    BY <2>1, NsHandled DEF NetSyncIInv
  <2> QED
    BY <2>1, <2>2, NsHandled
<1>2. PICK z \in StartSync(s) : Becomes(z)
  BY DEF HandleNewPeerMsg
<1>3. best' = best /\ blockOrphans' = blockOrphans
  BY DEF HandleNewPeerMsg, nsWorld
<1>4. /\ DOMAIN ss = DOMAIN peerStates \cup {From} /\ ss = [q \in DOMAIN ss |-> ss[q]]
      /\ ss[From] = [cand |-> TRUE, req |-> NoRequests]
      /\ \A q \in DOMAIN peerStates \ {From} : ss[q] = peerStates[q]
  OBVIOUS
<1>5. NsStateOK([cand |-> TRUE, req |-> NoRequests]) /\ NoRequests["block"] = {}
  BY DEF NsStateOK, NsReqOK, NoRequests, Kinds
<1> HIDE DEF ss
<1>6. /\ NsRecord(s) /\ s.states = ss /\ s.sync = syncPeer /\ s.req = requested /\ s.first = headersFirst
      /\ s.list = headerList /\ s.start = startHeader /\ s.check = nextCheckpoint /\ s.asked = asked /\ s.conn = conn
  <2>1. s = [Now EXCEPT !.states = ss]
    OBVIOUS
  <2> HIDE DEF s
  <2>2. /\ NsRecord(s) /\ s.states = ss /\ s.sync = Now.sync /\ s.req = Now.req /\ s.first = Now.first
        /\ s.list = Now.list /\ s.start = Now.start /\ s.check = Now.check /\ s.asked = Now.asked /\ s.conn = Now.conn
    BY <2>1, NsNow DEF NsRecord
  <2> QED
    BY <2>2, NsNow
<1> HIDE DEF s
<1>7. \A q \in DOMAIN ss : NsStateOK(ss[q])
  BY <1>4, <1>5, NsNow DEF NsGood, NsTyped
<1>8. NsTyped(s)
  <2>1. NsTyped(Now)
    BY NsNow DEF NsGood
  <2> QED
    BY <2>1, <1>1, <1>4, <1>6, <1>7, NsNow DEF NsTyped
<1>9. NsList(s)
  BY <1>6, NsNow DEF NsGood, NsList, NsHeaders
<1>10. NsBehind(s, best, blockOrphans)
  <2>1. NsBehind(Now, best, blockOrphans)
    BY NsNow DEF NsGood
  <2>2. \A q \in DOMAIN ss : \A h \in ss[q].req["block"] : q \in DOMAIN peerStates /\ h \in peerStates[q].req["block"]
    BY <1>4, <1>5
  <2> QED
    BY <2>1, <2>2, <1>4, <1>6, NsNow DEF NsBehind
<1>11. NsGood(s, best, blockOrphans) /\ NsKnown(s)
  BY <1>4, <1>6, <1>8, <1>9, <1>10, NsNow DEF NsGood, NsKnown
<1>12. /\ NsGood(z, best, blockOrphans) /\ NsKnown(z) /\ (NsOwned(s) => NsOwned(z))
       /\ z.check = s.check /\ DOMAIN z.states = DOMAIN s.states
  BY <1>2, <1>11, NsStartSync
<1>13. NsLater(nextCheckpoint, z.check)
  BY <1>6, <1>12, NsNow
<1>15. ASSUME NsOwned(Now), NsTurns PROVE NsOwned(s)
  <2>1. From \notin DOMAIN peerStates
    <3>1. Head(msgChan) \in NsMessage(nextCheckpoint) /\ Head(msgChan).msg = "new"
      BY <1>1 DEF HandleNewPeerMsg, Handle, NetSyncIInv
    <3>2. Head(msgChan) = [msg |-> "new", peer |-> From]
      BY <3>1 DEF NsMessage, From
    <3>3. NsNew(msgChan, 1, From)
      BY <1>1, <3>2 DEF NsNew
    <3>4. ~NsLeaves(msgChan, 0, 1, From)
      <4>1. DOMAIN msgChan \subseteq Nat
        BY DEF NetSyncIInv
      <4> QED
        BY <4>1 DEF NsLeaves
    <3> QED
      BY <1>1, <1>15, <3>3, <3>4 DEF NsTurns, NsTurn
  <2>2. \A q \in DOMAIN peerStates : q \in DOMAIN ss /\ ss[q] = peerStates[q]
    BY <1>4, <2>1
  <2> QED
    BY <1>6, <1>15, <2>2, NsNow DEF NsOwned
<1>16. NsKept /\ DOMAIN peerStates' = DOMAIN z.states
  BY <1>1, <1>2, <1>3, <1>12, <1>13, <1>15, NsStep
<1> QED
  BY <1>4, <1>6, <1>12, <1>16

\* handleDonePeerMsg
LEMMA NsHandleDonePeer ==
    ASSUME NetSyncIInv, HandleDonePeerMsg PROVE NsKept /\ DOMAIN peerStates' = DOMAIN peerStates \ {From}
<1> DEFINE ss == [q \in DOMAIN peerStates \ {From} |-> peerStates[q]]
<1> DEFINE r == [Now EXCEPT !.states = ss]
<1> DEFINE old == peerStates[From].req
<1> DEFINE s == ClearRequestedState(r, old)
<1>1. msgChan' \in Seq(NsMessage(nextCheckpoint)) /\ From \in Peer
  BY NsHandled DEF HandleDonePeerMsg
<1>2. UNCHANGED nsWorld /\ best' = best /\ blockOrphans' = blockOrphans
  BY DEF HandleDonePeerMsg, Nothing, nsWorld
<1>3. CASE ~Known
  <2>1. Becomes(Now) /\ From \notin DOMAIN peerStates
    BY <1>3 DEF HandleDonePeerMsg, Nothing, Known
  <2>2. NsKept /\ DOMAIN peerStates' = DOMAIN peerStates
    BY <1>1, <1>2, <2>1, NsNothing
  <2> QED
    BY <2>1, <2>2
<1>4. CASE Known
  <2>1. PICK z \in IF From = syncPeer THEN UpdateSyncPeer(s, FALSE) ELSE {s} : Becomes(z)
    BY <1>4 DEF HandleDonePeerMsg
  <2>2. /\ DOMAIN ss = DOMAIN peerStates \ {From} /\ ss = [q \in DOMAIN ss |-> ss[q]]
        /\ \A q \in DOMAIN ss : q \in DOMAIN peerStates /\ ss[q] = peerStates[q]
    OBVIOUS
  <2> HIDE DEF ss
  <2>3. /\ NsRecord(r) /\ r.states = ss /\ r.sync = syncPeer /\ r.req = requested /\ r.first = headersFirst
        /\ r.list = headerList /\ r.start = startHeader /\ r.check = nextCheckpoint /\ r.asked = asked /\ r.conn = conn
    <3>1. r = [Now EXCEPT !.states = ss]
      OBVIOUS
    <3> HIDE DEF r
    <3>2. /\ NsRecord(r) /\ r.states = ss /\ r.sync = Now.sync /\ r.req = Now.req /\ r.first = Now.first
          /\ r.list = Now.list /\ r.start = Now.start /\ r.check = Now.check /\ r.asked = Now.asked /\ r.conn = Now.conn
      BY <3>1, NsNow DEF NsRecord
    <3> QED
      BY <3>2, NsNow
  <2> HIDE DEF r
  <2>4. NsTyped(r)
    <3>1. NsTyped(Now)
      BY NsNow DEF NsGood
    <3>2. DOMAIN ss \subseteq Peer /\ \A q \in DOMAIN ss : NsStateOK(ss[q])
      BY <2>2, <3>1, NsNow DEF NsTyped
    <3> QED
      BY <3>1, <3>2, <2>2, <2>3, NsNow DEF NsTyped
  <2>5. NsList(r)
    BY <2>3, NsNow DEF NsGood, NsList, NsHeaders
  <2>6. NsBehind(r, best, blockOrphans)
    <3>1. NsBehind(Now, best, blockOrphans)
      BY NsNow DEF NsGood
    <3> QED
      BY <3>1, <2>2, <2>3, NsNow DEF NsBehind
  <2>7. NsGood(r, best, blockOrphans)
    BY <2>4, <2>5, <2>6, NsNow DEF NsGood
  <2> HIDE DEF old
  <2>8. /\ NsGood(s, best, blockOrphans) /\ s.states = ss /\ s.sync = syncPeer /\ s.check = nextCheckpoint
        /\ \A k \in Kinds : s.req[k] = requested[k] \ old[k]
    <3>1. /\ NsGood(s, best, blockOrphans) /\ s.states = r.states /\ s.sync = r.sync /\ s.check = r.check
          /\ \A k \in Kinds : s.req[k] = r.req[k] \ old[k]
      BY <2>7, NsClear
    <3> QED
      BY <2>3, <3>1
  <2> HIDE DEF s
  <2>9. NsOwned(Now) => NsOwned(s)
    <3> SUFFICES ASSUME NsOwned(Now), NEW k \in Kinds, NEW x \in s.req[k]
                 PROVE  \E q \in DOMAIN ss : x \in ss[q].req[k]
      BY <2>8 DEF NsOwned
    <3>1. x \in requested[k] /\ x \notin peerStates[From].req[k]
      BY <2>8 DEF old
    <3>2. PICK q \in DOMAIN peerStates : x \in peerStates[q].req[k]
      BY <3>1, NsNow DEF NsOwned
    <3>3. q \in DOMAIN ss /\ ss[q] = peerStates[q]
      BY <3>1, <3>2, <2>2
    <3> QED
      BY <3>2, <3>3
  <2>10. /\ NsGood(z, best, blockOrphans) /\ NsKnown(z) /\ (NsOwned(s) => NsOwned(z))
         /\ z.check = s.check /\ DOMAIN z.states = DOMAIN s.states
    <3>1. CASE From = syncPeer
      <4>1. z \in UpdateSyncPeer(s, FALSE)
        BY <2>1, <3>1
      <4> QED
        BY <2>8, <4>1, NsUpdateSyncPeer
    <3>2. CASE From # syncPeer
      <4>1. z = s
        BY <2>1, <3>2
      <4>2. NsKnown(s)
        BY <2>2, <2>8, <3>2, NsNow DEF NsKnown
      <4> QED
        BY <2>8, <4>1, <4>2
    <3> QED
      BY <3>1, <3>2
  <2>11. NsKept /\ DOMAIN peerStates' = DOMAIN z.states
    <3>1. NsLater(nextCheckpoint, z.check)
      BY <2>8, <2>10, NsNow
    <3> QED
      BY <1>1, <1>2, <2>1, <2>9, <2>10, <3>1, NsStep
  <2> QED
    BY <2>2, <2>8, <2>10, <2>11
<1> QED
  BY <1>3, <1>4

\* handleTxMsg
LEMMA NsHandleTx ==
    ASSUME NetSyncIInv, HandleTxMsg PROVE NsKept /\ DOMAIN peerStates' = DOMAIN peerStates
<1> DEFINE x == Head(msgChan).item
<1>1. msgChan' \in Seq(NsMessage(nextCheckpoint)) /\ From \in Peer
  BY NsHandled DEF HandleTxMsg
<1>2. best' = best /\ blockOrphans' = blockOrphans
  BY DEF HandleTxMsg, Nothing, nsWorld
<1>3. CASE ~Known \/ x \in rejectedTxns
  BY <1>1, <1>3, NsNothing DEF HandleTxMsg, Nothing
<1>4. CASE ~(~Known \/ x \in rejectedTxns)
  <2> DEFINE z == Forget(Now, From, "tx", x)
  <2>1. Becomes(z)
    BY <1>4 DEF HandleTxMsg
  <2>2. From \in DOMAIN Now.states /\ "tx" \in Kinds
    BY <1>4, NsNow DEF Known, Kinds
  <2>3. /\ NsGood(z, best, blockOrphans) /\ NsKnown(z) /\ (NsOwned(Now) => NsOwned(z))
        /\ DOMAIN z.states = DOMAIN Now.states /\ z.check = Now.check
    BY <2>2, NsNow, NsForget
  <2> HIDE DEF z
  <2>4. NsLater(nextCheckpoint, z.check) /\ DOMAIN z.states = DOMAIN peerStates
    BY <2>3, NsNow
  <2> QED
    BY <1>1, <1>2, <2>1, <2>3, <2>4, NsStep
<1> QED
  BY <1>3, <1>4

\* handleNotFoundMsg
LEMMA NsHandleNotFound ==
    ASSUME NetSyncIInv, HandleNotFoundMsg PROVE NsKept /\ DOMAIN peerStates' = DOMAIN peerStates
<1> DEFINE k == Head(msgChan).kind
<1> DEFINE x == Head(msgChan).item
<1> DEFINE z == Forget(Now, From, k, x)
<1>1. msgChan' \in Seq(NsMessage(nextCheckpoint)) /\ From \in Peer /\ k \in Kinds
  BY NsHandled DEF HandleNotFoundMsg, NsFacts
<1>2. UNCHANGED nsWorld /\ best' = best /\ blockOrphans' = blockOrphans
  BY DEF HandleNotFoundMsg, nsWorld
<1>3. Becomes(Now) \/ (From \in DOMAIN Now.states /\ Becomes(z))
  BY NsNow DEF HandleNotFoundMsg, Known
<1>4. CASE Becomes(Now)
  BY <1>1, <1>2, <1>4, NsNothing
<1>5. CASE From \in DOMAIN Now.states /\ Becomes(z)
  <2>3. /\ NsGood(z, best, blockOrphans) /\ NsKnown(z) /\ (NsOwned(Now) => NsOwned(z))
        /\ DOMAIN z.states = DOMAIN Now.states /\ z.check = Now.check
    <3> HIDE DEF k, x
    <3> QED
      BY <1>1, <1>5, NsNow, NsForget
  <2> HIDE DEF z
  <2>4. NsLater(nextCheckpoint, z.check) /\ DOMAIN z.states = DOMAIN peerStates
    BY <2>3, NsNow
  <2> QED
    BY <1>1, <1>2, <1>5, <2>3, <2>4, NsStep
<1> QED
  BY <1>3, <1>4, <1>5

\* The ticker finds that the sync peer makes no progress.
LEMMA NsHandleStall ==
    ASSUME NetSyncIInv, HandleStallSample PROVE NsKept /\ DOMAIN peerStates' = DOMAIN peerStates
<1> DEFINE old == peerStates[syncPeer].req
<1> DEFINE s == ClearRequestedState(Now, old)
<1>1. UNCHANGED nsWorld /\ best' = best /\ blockOrphans' = blockOrphans /\ syncPeer \in DOMAIN peerStates
  BY DEF HandleStallSample, nsWorld
<1>2. msgChan' \in Seq(NsMessage(nextCheckpoint))
  BY DEF HandleStallSample, NetSyncIInv
<1>3. PICK z \in UpdateSyncPeer(s, lastBlock[syncPeer] > best) : Becomes(z)
  BY DEF HandleStallSample
<1> HIDE DEF old
<1>4. /\ NsGood(s, best, blockOrphans) /\ s.states = Now.states /\ s.sync = Now.sync /\ s.check = Now.check
      /\ \A k \in Kinds : s.req[k] = Now.req[k] \ old[k]
  BY NsNow, NsClear
<1> HIDE DEF s
<1>5. NsOwned(Now) => NsOwned(s)
  BY <1>4 DEF NsOwned
<1>6. /\ NsGood(z, best, blockOrphans) /\ NsKnown(z) /\ (NsOwned(s) => NsOwned(z))
      /\ z.check = s.check /\ DOMAIN z.states = DOMAIN s.states
  <2> DEFINE dc == lastBlock[syncPeer] > best
  <2>1. dc \in BOOLEAN /\ z \in UpdateSyncPeer(s, dc)
    BY <1>3
  <2> HIDE DEF dc
  <2> QED
    BY <1>4, <2>1, NsUpdateSyncPeer
<1>7. NsLater(nextCheckpoint, z.check) /\ DOMAIN z.states = DOMAIN peerStates
  BY <1>4, <1>6, NsNow
<1> QED
  BY <1>1, <1>2, <1>3, <1>5, <1>6, <1>7, NsStep

\* handleInvMsg: blocks are asked for only from the sync peer, or once the chain
\* is current, so that no checkpoint is ahead.
LEMMA NsHandleInv ==
    ASSUME NetSyncIInv, HandleInvMsg PROVE NsKept /\ DOMAIN peerStates' = DOMAIN peerStates
<1> DEFINE xs == Head(msgChan).items
<1> DEFINE k == Head(msgChan).kind
<1> DEFINE p == From
<1> DEFINE last == xs[Len(xs)]
<1> DEFINE more == IF k = "tx" \/ ~HaveBlock(last) THEN Now
                   ELSE IF last \in blockOrphans THEN PushGetBlocks(Now, p, best, OrphanRoot(last, blockOrphans))
                   ELSE PushGetBlocks(Now, p, last, 0)
<1>1. /\ msgChan' \in Seq(NsMessage(nextCheckpoint)) /\ p \in Peer
      /\ k \in Kinds /\ xs \in Seq(NsItem(k)) /\ xs # <<>>
  BY NsHandled DEF HandleInvMsg, NsFacts
<1>2. UNCHANGED nsWorld /\ best' = best /\ blockOrphans' = blockOrphans
  BY DEF HandleInvMsg, Nothing, nsWorld
<1>3. CASE ~Known \/ (p # syncPeer /\ ~Current) \/ headersFirst
  <2>1. Becomes(Now)
    BY <1>3 DEF HandleInvMsg, Nothing
  <2> QED
    BY <1>1, <1>2, <2>1, NsNothing
<1>4. CASE ~(~Known \/ (p # syncPeer /\ ~Current) \/ headersFirst)
  <2>1. PICK z \in RequestAll(more, p, k, xs) : Becomes(z)
    BY <1>4 DEF HandleInvMsg
  <2>2. p \in DOMAIN Now.states
    BY <1>4, NsNow DEF Known
  <2>3. NsPast(Now, best)
    <3>1. NsBehind(Now, best, blockOrphans)
      BY NsNow DEF NsGood
    <3>2. CASE Current
      <4>1. best = Tip /\ nextCheckpoint <= Tip
        BY <3>2, NsNow, NsHeights DEF Current, ChainCurrent
      <4> QED
        BY <4>1, <1>4, NsNow, NsHeights DEF NsPast
    <3>3. CASE p = syncPeer
      <4>1. syncPeer # NoPeer
        BY <1>1, <3>3, NetSyncAssumption
      <4> QED
        BY <3>1, <4>1, <1>4, NsNow DEF NsBehind, NsPast
    <3> QED
      BY <1>4, <3>2, <3>3
  <2>4. NsTyped(more) /\ NsSame(Now, more)
    <3>0. NsTyped(Now) /\ NsSame(Now, Now)
      BY NsNow DEF NsGood, NsSame
    <3>1. CASE k = "tx" \/ ~HaveBlock(last)
      BY <3>0, <3>1
    <3>2. CASE ~(k = "tx" \/ ~HaveBlock(last)) /\ last \in blockOrphans
      <4>1. more = PushGetBlocks(Now, p, best, OrphanRoot(last, blockOrphans))
        BY <3>2
      <4> HIDE DEF more, p, last
      <4> QED
        BY <4>1, <3>0, <1>1, NsNow, NsPushGetBlocks
    <3>3. CASE ~(k = "tx" \/ ~HaveBlock(last)) /\ last \notin blockOrphans
      <4>1. more = PushGetBlocks(Now, p, last, 0)
        BY <3>3
      <4>2. last \in 1..Tip
        <5>1. k = "block"
          BY <1>1, <3>3 DEF Kinds
        <5>2. xs \in Seq(1..Tip) /\ xs # <<>>
          BY <1>1, <5>1 DEF NsItem
        <5> HIDE DEF xs
        <5>3. Len(xs) \in Nat \ {0} /\ DOMAIN xs = 1..Len(xs)
          BY <5>2, NsTail
        <5>4. Len(xs) \in DOMAIN xs
          BY <5>3
        <5> QED
          BY <5>2, <5>4, NsElement
      <4>3. last \in 0..Tip
        BY <4>2, NsHeights
      <4> HIDE DEF more, p, last
      <4> QED
        BY <4>1, <4>3, <3>0, <1>1, NsPushGetBlocks
    <3> QED
      BY <3>1, <3>2, <3>3
  <2> HIDE DEF more, p, k, xs
  <2>5. NsGood(more, best, blockOrphans) /\ NsKnown(more) /\ (NsOwned(Now) => NsOwned(more))
    BY <2>4, NsNow, NsSameGood
  <2>6. NsPast(more, best) /\ p \in DOMAIN more.states /\ more.check = nextCheckpoint
    BY <2>2, <2>3, <2>4, NsNow DEF NsSame, NsPast
  <2>7. NsAfter(more, z, best, blockOrphans)
    BY <1>1, <2>1, <2>5, <2>6, NsRequestAll
  <2>8. /\ NsGood(z, best, blockOrphans) /\ NsKnown(z) /\ NsLater(nextCheckpoint, z.check)
        /\ DOMAIN z.states = DOMAIN peerStates
    BY <2>4, <2>6, <2>7, NsNow DEF NsAfter, NsSame
  <2>9. NsBelowLimit /\ NsOwned(Now) => NsOwned(z)
    BY <2>5, <2>7 DEF NsAfter
  <2> QED
    BY <1>1, <1>2, <2>1, <2>8, <2>9, NsStep
<1> QED
  BY <1>3, <1>4

\* The chain after a block: the greatest height up to which the orphans follow.
LEMMA NsConnected ==
    ASSUME NEW b \in 1..Tip, blockOrphans \subseteq 1..Tip
    PROVE  Connected(b) \in b..Tip /\ (Connected(b) = b \/ Connected(b) \in blockOrphans)
<1> DEFINE reach == {h \in b..Tip : \A x \in (b + 1)..h : x \in blockOrphans}
<1>1. Tip \in Nat /\ b \in Nat /\ b <= Tip
  BY NsHeights
<1>2. b \in reach
  BY <1>1
<1>3. reach \in SUBSET (0..Tip)
  BY <1>1
<1>4. Connected(b) = Max(reach)
  BY DEF Connected
<1>5. Max(reach) \in reach
  <2> HIDE DEF reach
  <2> QED
    BY <1>1, <1>2, <1>3, GreatestNumber
<1> DEFINE c == Max(reach)
<1>6. c \in b..Tip /\ \A x \in (b + 1)..c : x \in blockOrphans
  BY <1>5
<1> HIDE DEF c, reach
<1>7. c = b \/ c \in (b + 1)..c
  BY <1>1, <1>6
<1> QED
  BY <1>4, <1>6, <1>7 DEF c

\* handleBlockMsg
LEMMA NsHandleBlock ==
    ASSUME NetSyncIInv, HandleBlockMsg PROVE NsKept /\ DOMAIN peerStates' = DOMAIN peerStates
<1> DEFINE b == Head(msgChan).item
<1> DEFINE p == From
<1> DEFINE front == headersFirst /\ headerList # <<>> /\ headerList[1] = b
<1> DEFINE checkpoint == front /\ b = nextCheckpoint
<1> DEFINE t == Forget(Now, p, "block", b)
<1> DEFINE s == IF front /\ ~checkpoint THEN RemoveFront(t) ELSE t
<1> DEFINE root == OrphanRoot(b, blockOrphans')
<1> DEFINE w == PushGetBlocks(s, p, best, root)
<1>1. msgChan' \in Seq(NsMessage(nextCheckpoint)) /\ p \in Peer /\ b \in 1..Tip
  BY NsHandled DEF HandleBlockMsg, NsFacts
<1>2. \/ ~Known /\ Nothing
      \/ Known /\ Becomes(Disconnect(Now, p)) /\ UNCHANGED nsWorld
      \/ Known /\ Becomes(s) /\ UNCHANGED nsWorld
      \/ /\ Known /\ b \in peerStates[p].req["block"] /\ ~HaveBlock(b) /\ b > best + 1
         /\ blockOrphans' = blockOrphans \cup {b} /\ best' = best
         /\ Becomes(AfterBlock(w, p, b, checkpoint, Have'))
      \/ /\ Known /\ b \in peerStates[p].req["block"] /\ ~HaveBlock(b) /\ ~(b > best + 1)
         /\ best' = Connected(b) /\ blockOrphans' = {o \in blockOrphans : o > best'}
         /\ Becomes(AfterBlock(s, p, b, checkpoint, Have'))
  BY DEF HandleBlockMsg
<1>3. CASE ~Known /\ Nothing
  BY <1>1, <1>3, NsNothing DEF Nothing
<1>4. CASE Known /\ Becomes(Disconnect(Now, p)) /\ UNCHANGED nsWorld
  <2> DEFINE z == Disconnect(Now, p)
  <2>1. NsTyped(z) /\ NsSame(Now, z)
    BY NsNow, NsDisconnect DEF NsGood
  <2>2. Becomes(z) /\ best' = best /\ blockOrphans' = blockOrphans
    BY <1>4 DEF nsWorld
  <2> HIDE DEF z
  <2>3. NsGood(z, best, blockOrphans) /\ NsKnown(z) /\ (NsOwned(Now) => NsOwned(z))
    BY <2>1, NsNow, NsSameGood
  <2>4. NsLater(nextCheckpoint, z.check) /\ DOMAIN z.states = DOMAIN peerStates
    BY <2>1, NsNow DEF NsSame
  <2> QED
    BY <1>1, <2>2, <2>3, <2>4, NsStep
<1>5. Known =>
      /\ NsGood(s, best, blockOrphans) /\ NsKnown(s) /\ (NsOwned(Now) => NsOwned(s))
      /\ DOMAIN s.states = DOMAIN peerStates /\ s.check = nextCheckpoint /\ s.first = headersFirst
      /\ (checkpoint => s.first /\ s.list # <<>> /\ s.list[1] = b /\ b = s.check)
  <2> SUFFICES ASSUME Known
               PROVE  /\ NsGood(s, best, blockOrphans) /\ NsKnown(s) /\ (NsOwned(Now) => NsOwned(s))
                      /\ DOMAIN s.states = DOMAIN peerStates /\ s.check = nextCheckpoint /\ s.first = headersFirst
                      /\ (checkpoint => s.first /\ s.list # <<>> /\ s.list[1] = b /\ b = s.check)
    OBVIOUS
  <2>1. p \in DOMAIN Now.states /\ "block" \in Kinds
    BY NsNow DEF Known, Kinds
  <2>2. /\ NsGood(t, best, blockOrphans) /\ NsKnown(t) /\ (NsOwned(Now) => NsOwned(t))
        /\ DOMAIN t.states = DOMAIN Now.states /\ t.first = Now.first /\ t.list = Now.list /\ t.check = Now.check
    <3> HIDE DEF p, b
    <3> QED
      BY <2>1, NsNow, NsForget
  <2> HIDE DEF t, p, b
  <2>3. CASE front /\ ~checkpoint
    <3>1. t.first /\ t.list # <<>> /\ s = RemoveFront(t)
      BY <2>2, <2>3, NsNow
    <3>2. /\ NsGood(s, best, blockOrphans) /\ s.states = t.states /\ s.sync = t.sync /\ s.req = t.req
          /\ s.first = t.first /\ s.check = t.check
      BY <2>2, <3>1, NsRemoveFront, NsGoodSound
    <3> HIDE DEF s
    <3>3. NsKnown(s) /\ (NsOwned(Now) => NsOwned(s))
      BY <2>2, <3>2 DEF NsKnown, NsOwned
    <3>4. ~checkpoint
      BY <2>3
    <3>5. DOMAIN s.states = DOMAIN peerStates /\ s.check = nextCheckpoint /\ s.first = headersFirst
      BY <2>2, <3>2, NsNow
    <3> HIDE DEF checkpoint
    <3> QED
      BY <3>2, <3>3, <3>4, <3>5
  <2>4. CASE ~(front /\ ~checkpoint)
    BY <2>2, <2>4, NsNow
  <2> QED
    BY <2>3, <2>4
<1> HIDE DEF s, t, p
<1>6. CASE Known /\ Becomes(s) /\ UNCHANGED nsWorld
  <2>1. Known /\ Becomes(s) /\ best' = best /\ blockOrphans' = blockOrphans
    BY <1>6 DEF nsWorld
  <2>2. NsLater(nextCheckpoint, s.check)
    BY <1>5, <1>6, NsNow
  <2> QED
    BY <1>1, <1>5, <2>1, <2>2, NsStep
<1>7. ASSUME NEW y, NsGood(y, best', blockOrphans'), NsSame(s, y), Known, best' \in 0..Tip,
             Becomes(AfterBlock(y, p, b, checkpoint, Have'))
      PROVE  NsKept /\ DOMAIN peerStates' = DOMAIN peerStates
  <2> DEFINE z == AfterBlock(y, p, b, checkpoint, Have')
  <2>1. 0 \in Have' /\ checkpoint \in BOOLEAN
    BY <1>7, NsHeights DEF Have
  <2>2. NsKnown(y) /\ (NsOwned(Now) => NsOwned(y)) /\ y.check = nextCheckpoint /\ DOMAIN y.states = DOMAIN peerStates
    BY <1>5, <1>7 DEF NsSame, NsKnown, NsOwned
  <2>3. checkpoint => y.first /\ y.list # <<>> /\ y.list[1] = b /\ b = y.check
    BY <1>5, <1>7 DEF NsSame
  <2> HIDE DEF checkpoint, b
  <2> DEFINE have == Have'
  <2> HIDE DEF have
  <2>4. z = AfterBlock(y, p, b, checkpoint, have)
    BY DEF have
  <2>5. /\ NsGood(z, best', blockOrphans') /\ NsKnown(z) /\ NsLater(y.check, z.check)
        /\ (NsOwned(y) => NsOwned(z)) /\ DOMAIN z.states = DOMAIN y.states
    <3>1. 0 \in have
      BY <2>1 DEF have
    <3> QED
      BY <1>1, <1>7, <2>1, <2>2, <2>3, <2>4, <3>1, NsAfterBlock
  <2>6. Becomes(z)
    BY <1>7
  <2> HIDE DEF z
  <2>7. NsLater(nextCheckpoint, z.check) /\ DOMAIN z.states = DOMAIN peerStates /\ (NsOwned(Now) => NsOwned(z))
    BY <2>2, <2>5
  <2> QED
    BY <1>1, <2>5, <2>6, <2>7, NsStep
<1>8. Known /\ b \in peerStates[p].req["block"] =>
          NsPast(s, best) \/ (b <= s.check /\ best <= s.check /\ \A h \in blockOrphans : h <= s.check)
  <2>1. NsBehind(Now, best, blockOrphans)
    BY NsNow DEF NsGood
  <2>2. Known => p \in DOMAIN peerStates
    BY DEF Known, p
  <2> HIDE DEF b
  <2> QED
    BY <1>5, <2>1, <2>2, NsNow DEF NsPast, NsBehind
<1>9. ASSUME Known, b \in peerStates[p].req["block"], b > best + 1,
             blockOrphans' = blockOrphans \cup {b}, best' = best,
             Becomes(AfterBlock(w, p, b, checkpoint, Have'))
      PROVE  NsKept /\ DOMAIN peerStates' = DOMAIN peerStates
  <2>1. NsGood(s, best', blockOrphans')
    <3>1. best' \in 0..Tip /\ best <= best' /\ blockOrphans' \in SUBSET (1..Tip)
      BY <1>1, <1>9, NsNow, NsHeights
    <3>2. NsPast(s, best) \/ (best' <= s.check /\ \A h \in blockOrphans' : h <= s.check)
      BY <1>8, <1>9
    <3> QED
      BY <1>5, <1>9, <3>1, <3>2, NsChainGrows
  <2>2. NsTyped(w) /\ NsSame(s, w)
    <3> HIDE DEF root
    <3>1. NsTyped(s)
      BY <2>1 DEF NsGood
    <3> QED
      BY <1>1, <3>1, NsNow, NsPushGetBlocks
  <2> HIDE DEF w
  <2>3. NsGood(w, best', blockOrphans')
    BY <2>1, <2>2, NsSameGood
  <2> QED
    BY <1>7, <1>9, <2>2, <2>3, NsNow
<1>10. ASSUME Known, b \in peerStates[p].req["block"], ~HaveBlock(b), ~(b > best + 1),
              best' = Connected(b), blockOrphans' = {o \in blockOrphans : o > best'},
              Becomes(AfterBlock(s, p, b, checkpoint, Have'))
       PROVE  NsKept /\ DOMAIN peerStates' = DOMAIN peerStates
  <2>1. best' \in b..Tip /\ (best' = b \/ best' \in blockOrphans)
    BY <1>1, <1>10, NsNow, NsConnected
  <2>2. best < b
    BY <1>1, <1>10, NsNow, NsHeights DEF HaveBlock, Have
  <2>3. NsGood(s, best', blockOrphans')
    <3>1. best' \in 0..Tip /\ best <= best' /\ blockOrphans' \in SUBSET (1..Tip)
      BY <1>1, <1>10, <2>1, <2>2, NsNow, NsHeights
    <3>2. NsPast(s, best) \/ (best' <= s.check /\ \A h \in blockOrphans' : h <= s.check)
      BY <1>8, <1>10, <2>1
    <3> QED
      BY <1>5, <1>10, <3>1, <3>2, NsChainGrows
  <2>4. NsSame(s, s) /\ best' \in 0..Tip
    BY <2>3 DEF NsSame, NsGood
  <2> QED
    BY <1>7, <1>10, <2>3, <2>4
<1> QED
  BY <1>2, <1>3, <1>4, <1>6, <1>9, <1>10

\* The first k of the headers hs follow the list q, which ends at the
\* checkpoint c if it reaches it.
NsFollow(c, q, hs, k) ==
    /\ c \in 1..Tip /\ q \in Seq(0..Tip) /\ q # <<>> /\ hs \in Seq(NsHeight(c)) /\ k \in 0..Len(hs)
    /\ \A i \in 1..Len(q) : q[i] <= c /\ (q[i] = c => i = Len(q))
    /\ \A j \in 1..k : hs[j] # 0 /\ hs[j] = (IF j = 1 THEN q[Len(q)] ELSE hs[j - 1]) + 1

\* The list l is q with these headers, and still ends at the checkpoint.
NsGrown(c, q, hs, k, l) ==
    /\ l \in Seq(0..Tip) /\ Len(l) = Len(q) + k
    /\ \A i \in 1..Len(q) : l[i] = q[i]
    /\ \A j \in 1..k : l[Len(q) + j] = hs[j] /\ hs[j] \in 0..c
    /\ \A i \in 1..Len(l) : l[i] <= c /\ (l[i] = c => i = Len(l))

\* What handleHeadersMsg takes from a message follows the list, up to the
\* checkpoint.
LEMMA NsExtends ==
    ASSUME NEW c, NEW q, NEW hs, NEW k, NsFollow(c, q, hs, k), NEW l, l = q \o SubSeq(hs, 1, k)
    PROVE  NsGrown(c, q, hs, k, l)
<1>0. /\ c \in 1..Tip /\ q \in Seq(0..Tip) /\ q # <<>> /\ hs \in Seq(NsHeight(c)) /\ k \in 0..Len(hs)
      /\ \A i \in 1..Len(q) : q[i] <= c /\ (q[i] = c => i = Len(q))
      /\ \A j \in 1..k : hs[j] # 0 /\ hs[j] = (IF j = 1 THEN q[Len(q)] ELSE hs[j - 1]) + 1
  BY DEF NsFollow
<1> DEFINE g == SubSeq(hs, 1, k)
<1>1. Tip \in Nat /\ c \in Nat /\ Len(hs) \in Nat /\ Len(q) \in Nat /\ Len(q) # 0 /\ k \in Nat /\ k <= Len(hs)
  BY <1>0, NsHeights, NsTail
<1>2. \A j \in 1..k : hs[j] \in 0..Tip /\ hs[j] \in 0..c
  <2> SUFFICES ASSUME NEW j \in 1..k PROVE hs[j] \in 0..Tip /\ hs[j] \in 0..c
    OBVIOUS
  <2>1. j \in DOMAIN hs
    BY <1>0, <1>1
  <2>2. hs[j] \in NsHeight(c)
    BY <1>0, <2>1, NsElement
  <2> QED
    BY <1>0, <1>1, <2>2 DEF NsHeight
<1>3. g \in Seq(0..Tip) /\ Len(g) = k /\ \A j \in 1..k : g[j] = hs[j]
  <2>1. Len(g) = k /\ (\A j \in 1..k : g[j] = hs[j]) /\ g = [j \in 1..k |-> hs[j]]
    BY <1>0, <1>1
  <2> HIDE DEF g
  <2> QED
    BY <1>1, <1>2, <2>1
<1>4. l = q \o g
  OBVIOUS
<1> HIDE DEF g
<1>5. /\ l \in Seq(0..Tip) /\ Len(l) = Len(q) + k
      /\ \A i \in 1..Len(q) : l[i] = q[i]
      /\ \A j \in 1..k : l[Len(q) + j] = hs[j]
  <2>1. l \in Seq(0..Tip) /\ Len(l) = Len(q) + Len(g)
    <3>1. q \o g \in Seq(0..Tip) /\ Len(q \o g) = Len(q) + Len(g)
      <4>1. q \in Seq(0..Tip) /\ g \in Seq(0..Tip)
        BY <1>0, <1>3
      <4> QED
        BY ONLY <4>1
    <3> QED
      BY <1>4, <3>1
  <2>2. \A i \in 1..Len(q) : l[i] = q[i]
    BY <1>0, <1>1, <1>3, <1>4
  <2>3. \A j \in 1..k : l[Len(q) + j] = g[j]
    BY <1>0, <1>1, <1>3, <1>4
  <2> QED
    BY <2>1, <2>2, <2>3, <1>3
<1>6. ASSUME NEW i \in 1..Len(q) PROVE l[i] <= c /\ (l[i] = c => i = Len(l))
  <2>1. l[i] = q[i] /\ q[i] <= c /\ (q[i] = c => i = Len(q))
    BY <1>0, <1>5
  <2>2. ASSUME q[i] = c, k # 0 PROVE FALSE
    <3>1. 1 \in 1..k /\ q[Len(q)] = c
      BY <1>1, <2>1, <2>2
    <3>2. hs[1] = c + 1 /\ hs[1] \in 0..c
      BY <1>0, <1>2, <3>1
    <3> QED
      BY <1>1, <3>2
  <2> QED
    BY <1>1, <1>5, <2>1, <2>2
<1>7. ASSUME NEW j \in 1..k PROVE hs[j] <= c /\ (hs[j] = c => j = k)
  <2>1. ASSUME hs[j] = c, j # k PROVE FALSE
    <3>1. j + 1 \in 1..k /\ j + 1 # 1 /\ (j + 1) - 1 = j
      BY <1>1, <2>1
    <3>2. hs[j + 1] = hs[j] + 1
      BY <1>0, <3>1
    <3>3. hs[j + 1] \in 0..c
      BY <3>1, <1>2
    <3> QED
      BY <1>1, <2>1, <3>2, <3>3
  <2> QED
    BY <1>1, <1>2, <2>1
<1>8. ASSUME NEW i \in 1..Len(l) PROVE l[i] <= c /\ (l[i] = c => i = Len(l))
  <2>1. CASE i \in 1..Len(q)
    BY <1>6, <2>1
  <2>2. CASE i \notin 1..Len(q)
    <3>1. i - Len(q) \in 1..k /\ Len(q) + (i - Len(q)) = i
      BY <1>1, <1>5, <2>2
    <3> DEFINE j == i - Len(q)
    <3>2. l[i] = hs[j] /\ hs[j] <= c /\ (hs[j] = c => j = k)
      BY <1>5, <1>7, <3>1
    <3> QED
      BY <1>1, <1>5, <3>1, <3>2
  <2> QED
    BY <2>1, <2>2
<1> QED
  BY <1>2, <1>5, <1>8 DEF NsGrown

\* handleHeadersMsg: the list grows up to the checkpoint and is fetched when it
\* is there.
LEMMA NsHandleHeaders ==
    ASSUME NetSyncIInv, HandleHeadersMsg PROVE NsKept /\ DOMAIN peerStates' = DOMAIN peerStates
<1> DEFINE hs == Head(msgChan).items
<1> DEFINE p == From
<1> DEFINE Follows(i) ==
        \A j \in 1..i : hs[j] # Bogus /\ hs[j] = (IF j = 1 THEN Last(headerList) ELSE hs[j - 1]) + 1
<1> DEFINE n == Max({i \in 0..Len(hs) : Follows(i)})
<1> DEFINE k == IF nextCheckpoint \in {hs[j] : j \in 1..n}
                THEN CHOOSE j \in 1..n : hs[j] = nextCheckpoint ELSE n
<1> DEFINE x == IF startHeader = 0 /\ k > 0 THEN Len(headerList) + 1 ELSE startHeader
<1> DEFINE l == headerList \o SubSeq(hs, 1, k)
<1> DEFINE s == [Now EXCEPT !.list = l, !.start = x]
<1> DEFINE reached == k > 0 /\ hs[k] = nextCheckpoint
<1> DEFINE grows == headersFirst /\ hs # <<>> /\ headerList # <<>>
<1>1. msgChan' \in Seq(NsMessage(nextCheckpoint)) /\ p \in Peer /\ hs \in Seq(NsHeight(nextCheckpoint))
  BY NsHandled DEF HandleHeadersMsg, NsFacts
<1>2. UNCHANGED nsWorld /\ best' = best /\ blockOrphans' = blockOrphans
  BY DEF HandleHeadersMsg, nsWorld
<1>3. \/ Becomes(Now)
      \/ Becomes(Disconnect(Now, p))
      \/ grows /\ reached /\ Becomes(FetchHeaderBlocks(RemoveFront(s), Have))
      \/ grows /\ ~reached /\ Becomes(Disconnect(s, p))
      \/ grows /\ ~reached /\ ~(k < Len(hs)) /\ Becomes(PushGetHeaders(s, p, hs[k], nextCheckpoint))
  <2>1. s = [Now EXCEPT !.list = @ \o SubSeq(hs, 1, k),
                        !.start = IF @ = 0 /\ k > 0 THEN Len(headerList) + 1 ELSE @]
    BY NsNow
  <2>2. \/ Becomes(Now)
        \/ Becomes(Disconnect(Now, p))
        \/ /\ ~(~headersFirst \/ (hs # <<>> /\ headerList = <<>>)) /\ ~(headersFirst /\ hs = <<>>)
           /\ CASE reached -> Becomes(FetchHeaderBlocks(RemoveFront(s), Have))
                [] ~reached /\ k < Len(hs) -> Becomes(Disconnect(s, p))
                [] OTHER -> Becomes(PushGetHeaders(s, p, hs[k], nextCheckpoint))
    <3> HIDE DEF s
    <3> QED
      BY <2>1 DEF HandleHeadersMsg
  <2> HIDE DEF s, k, hs
  <2> QED
    BY <2>2
<1> HIDE DEF hs, p
<1>4. CASE Becomes(Now)
  BY <1>1, <1>2, <1>4, NsNothing
<1>5. ASSUME NEW y, NsGood(y, best, blockOrphans), NsKnown(y), NsOwned(Now) => NsOwned(y), y.check = nextCheckpoint,
             DOMAIN y.states = DOMAIN peerStates, Becomes(y)
      PROVE  NsKept /\ DOMAIN peerStates' = DOMAIN peerStates
  BY <1>1, <1>2, <1>5, NsNow, NsStep
<1>6. CASE Becomes(Disconnect(Now, p))
  <2> DEFINE z == Disconnect(Now, p)
  <2>1. NsTyped(z) /\ NsSame(Now, z)
    BY NsNow, NsDisconnect DEF NsGood
  <2> HIDE DEF z
  <2>2. NsGood(z, best, blockOrphans) /\ NsKnown(z) /\ (NsOwned(Now) => NsOwned(z))
    BY <2>1, NsNow, NsSameGood
  <2>3. z.check = nextCheckpoint /\ DOMAIN z.states = DOMAIN peerStates
    BY <2>1, NsNow DEF NsSame
  <2> QED
    BY <1>5, <1>6, <2>2, <2>3 DEF z
<1>7. grows => n \in 0..Len(hs) /\ Follows(n) /\ Len(hs) \in Nat /\ k \in 0..n
               /\ (reached \/ \A j \in 1..k : hs[j] # nextCheckpoint) /\ (~reached => k = n)
  <2> SUFFICES ASSUME grows
               PROVE  n \in 0..Len(hs) /\ Follows(n) /\ Len(hs) \in Nat /\ k \in 0..n
                      /\ (reached \/ \A j \in 1..k : hs[j] # nextCheckpoint) /\ (~reached => k = n)
    OBVIOUS
  <2> DEFINE S == {i \in 0..Len(hs) : Follows(i)}
  <2>1. Len(hs) \in Nat /\ S \in SUBSET (0..Len(hs)) /\ 0 \in S
    BY <1>1
  <2>2. Max(S) \in S
    <3> HIDE DEF S
    <3> QED
      BY <2>1, GreatestNumber
  <2>3. n \in 0..Len(hs) /\ Follows(n)
    BY <2>2
  <2> HIDE DEF n
  <2>4. n \in Nat
    BY <2>1, <2>3
  <2>5. CASE nextCheckpoint \in {hs[j] : j \in 1..n}
    <3>1. k \in 1..n /\ hs[k] = nextCheckpoint
      BY <2>5
    <3> HIDE DEF k
    <3>2. k > 0 /\ k \in 0..n
      BY <3>1, <2>4
    <3> QED
      BY <2>1, <2>3, <3>1, <3>2
  <2>6. CASE nextCheckpoint \notin {hs[j] : j \in 1..n}
    <3>1. k = n
      BY <2>6
    <3>2. \A j \in 1..k : hs[j] # nextCheckpoint
      BY <2>6, <3>1
    <3> HIDE DEF k
    <3> QED
      BY <2>1, <2>3, <2>4, <3>1, <3>2
  <2> QED
    BY <2>5, <2>6
<1>8. grows =>
      /\ nextCheckpoint \in 1..Tip /\ nextCheckpoint # 0
      /\ headerList \in Seq(0..Tip) /\ Len(headerList) \in Nat /\ startHeader \in (-Tip)..Len(headerList)
      /\ \A i \in 1..Len(headerList) : headerList[i] <= nextCheckpoint /\ (headerList[i] = nextCheckpoint => i = Len(headerList))
  <2> SUFFICES ASSUME grows
               PROVE  /\ nextCheckpoint \in 1..Tip /\ nextCheckpoint # 0
                      /\ headerList \in Seq(0..Tip) /\ Len(headerList) \in Nat /\ startHeader \in (-Tip)..Len(headerList)
                      /\ \A i \in 1..Len(headerList) : headerList[i] <= nextCheckpoint /\ (headerList[i] = nextCheckpoint => i = Len(headerList))
    OBVIOUS
  <2>1. NsHeaders(Now) /\ NsBehind(Now, best, blockOrphans)
    BY NsNow DEF NsGood, NsList
  <2>2. nextCheckpoint # 0 /\ headerList \in Seq(0..Tip) /\ startHeader \in (-Tip)..Len(headerList)
    BY <2>1, NsNow DEF NsHeaders
  <2>3. nextCheckpoint \in 1..Tip
    BY <2>2, NsNow, NsHeights
  <2>4. \A i \in 1..Len(headerList) : headerList[i] <= nextCheckpoint /\ (headerList[i] = nextCheckpoint => i = Len(headerList))
    BY <2>1, <2>2, NsNow DEF NsHeaders, NsBehind
  <2> QED
    BY <2>2, <2>3, <2>4
<1>9. grows =>
      /\ l \in Seq(0..Tip) /\ Len(l) = Len(headerList) + k
      /\ \A i \in 1..Len(headerList) : l[i] = headerList[i]
      /\ \A j \in 1..k : l[Len(headerList) + j] = hs[j] /\ hs[j] \in 0..nextCheckpoint
      /\ \A i \in 1..Len(l) : l[i] <= nextCheckpoint /\ (l[i] = nextCheckpoint => i = Len(l))
  <2> SUFFICES ASSUME grows
               PROVE  /\ l \in Seq(0..Tip) /\ Len(l) = Len(headerList) + k
                      /\ \A i \in 1..Len(headerList) : l[i] = headerList[i]
                      /\ \A j \in 1..k : l[Len(headerList) + j] = hs[j] /\ hs[j] \in 0..nextCheckpoint
                      /\ \A i \in 1..Len(l) : l[i] <= nextCheckpoint /\ (l[i] = nextCheckpoint => i = Len(l))
    OBVIOUS
  <2>1. k \in 0..Len(hs) /\ \A j \in 1..k : j \in 1..n
    <3> HIDE DEF k, n
    <3> QED
      BY <1>7
  <2>2. \A j \in 1..k : hs[j] # 0 /\ hs[j] = (IF j = 1 THEN headerList[Len(headerList)] ELSE hs[j - 1]) + 1
    <3> HIDE DEF k, n
    <3> QED
      BY <1>7, <2>1 DEF Last, Bogus
  <2> HIDE DEF k
  <2>3. NsFollow(nextCheckpoint, headerList, hs, k)
    BY <1>1, <1>8, <2>1, <2>2 DEF NsFollow
  <2>4. l = headerList \o SubSeq(hs, 1, k)
    OBVIOUS
  <2> HIDE DEF l
  <2>5. NsGrown(nextCheckpoint, headerList, hs, k, l)
    BY <2>3, <2>4, NsExtends
  <2> QED
    BY <2>5 DEF NsGrown
<1> HIDE DEF n, k, l, x
<1>10. /\ NsRecord(s) /\ s.states = peerStates /\ s.sync = syncPeer /\ s.req = requested /\ s.first = headersFirst
       /\ s.list = l /\ s.start = x /\ s.check = nextCheckpoint /\ s.asked = asked /\ s.conn = conn
  <2>1. s = [Now EXCEPT !.list = l, !.start = x]
    OBVIOUS
  <2> HIDE DEF s
  <2>2. /\ NsRecord(s) /\ s.states = Now.states /\ s.sync = Now.sync /\ s.req = Now.req /\ s.first = Now.first
        /\ s.list = l /\ s.start = x /\ s.check = Now.check /\ s.asked = Now.asked /\ s.conn = Now.conn
    BY <2>1, NsNow DEF NsRecord
  <2> QED
    BY <2>2, NsNow
<1> HIDE DEF s
<1>11. NsKnown(s) /\ (NsOwned(Now) => NsOwned(s)) /\ DOMAIN s.states = DOMAIN peerStates
  BY <1>10, NsNow DEF NsKnown, NsOwned
<1>12. grows => NsSound(s, best, blockOrphans) /\ s.list # <<>>
  <2> SUFFICES ASSUME grows PROVE NsSound(s, best, blockOrphans) /\ s.list # <<>>
    OBVIOUS
  <2>1. NsTyped(s)
    <3>1. NsTyped(Now)
      BY NsNow DEF NsGood
    <3> QED
      BY <3>1, <1>10, NsNow DEF NsTyped
  <2>2. k \in Nat /\ Len(headerList) # 0
    <3>1. k \in Nat
      BY <1>7
    <3>2. Len(headerList) # 0
      BY <1>8
    <3> QED
      BY <3>1, <3>2
  <2>3. x \in (-Tip)..Len(l) /\ (x < 0 => x = startHeader)
    BY <1>8, <1>9, <2>2, NsHeights DEF x
  <2>4. NsHeaders(s)
    <3>1. syncPeer # NoPeer
      BY NsNow DEF NsGood, NsList, NsHeaders
    <3> QED
      BY <1>8, <1>9, <1>10, <2>3, <3>1 DEF NsHeaders
  <2>5. NsBehind(s, best, blockOrphans)
    <3>1. NsBehind(Now, best, blockOrphans)
      BY NsNow DEF NsGood
    <3> QED
      BY <1>8, <1>9, <1>10, <2>3, <3>1, NsNow DEF NsBehind
  <2>6. l # <<>>
    <3>1. Len(l) # 0
      BY <1>8, <1>9, <2>2
    <3> QED
      BY <3>1
  <2> QED
    BY <1>10, <2>1, <2>4, <2>5, <2>6, NsNow DEF NsSound
<1>13. CASE grows /\ reached /\ Becomes(FetchHeaderBlocks(RemoveFront(s), Have))
  <2> DEFINE u == RemoveFront(s)
  <2> DEFINE z == FetchHeaderBlocks(u, Have)
  <2>1. /\ NsSound(u, best, blockOrphans) /\ u.states = s.states /\ u.sync = s.sync /\ u.req = s.req
        /\ u.check = s.check
    BY <1>10, <1>12, <1>13, NsRemoveFront
  <2> HIDE DEF u
  <2>2. NsKnown(u) /\ (NsOwned(Now) => NsOwned(u)) /\ DOMAIN u.states = DOMAIN peerStates /\ u.check = nextCheckpoint
    BY <1>10, <1>11, <2>1 DEF NsKnown, NsOwned
  <2>3. 0 \in Have
    BY NsNow, NsHeights DEF Have
  <2>4. NsGood(z, best, blockOrphans) /\ NsKnown(z) /\ (NsOwned(u) => NsOwned(z)) /\ z.check = u.check
        /\ DOMAIN z.states = DOMAIN u.states
    BY <2>1, <2>2, <2>3, NsFetch
  <2>5. Becomes(z)
    BY <1>13 DEF u
  <2> HIDE DEF z
  <2> QED
    BY <1>5, <2>2, <2>4, <2>5
<1>14. grows /\ ~reached => NsGood(s, best, blockOrphans)
  <2> SUFFICES ASSUME grows, ~reached PROVE NsGood(s, best, blockOrphans)
    OBVIOUS
  <2>1. x # 0 => \A i \in 1..Len(headerList) : headerList[i] # nextCheckpoint
    <3>1. CASE startHeader # 0
      BY <3>1, <1>8, NsNow DEF NsGood, NsList
    <3>2. CASE startHeader = 0 /\ k > 0
      <4> SUFFICES ASSUME NEW i \in 1..Len(headerList), headerList[i] = nextCheckpoint PROVE FALSE
        OBVIOUS
      <4>1. i \in 1..Len(l) /\ l[i] = nextCheckpoint /\ k \in Nat
        BY <1>7, <1>8, <1>9
      <4>2. i = Len(headerList) + k
        BY <1>9, <4>1
      <4> QED
        BY <1>8, <3>2, <4>1, <4>2
    <3> QED
      BY <3>1, <3>2 DEF x
  <2>2. x # 0 => \A i \in 1..Len(l) : l[i] # nextCheckpoint
    <3> SUFFICES ASSUME x # 0, NEW i \in 1..Len(l) PROVE l[i] # nextCheckpoint
      OBVIOUS
    <3>1. CASE i \in 1..Len(headerList)
      BY <1>9, <2>1, <3>1
    <3>2. CASE i \notin 1..Len(headerList)
      <4>1. i - Len(headerList) \in 1..k /\ Len(headerList) + (i - Len(headerList)) = i
        BY <1>7, <1>8, <1>9, <3>2
      <4>2. l[i] = hs[i - Len(headerList)]
        BY <1>9, <4>1
      <4> QED
        BY <1>7, <4>1, <4>2
    <3> QED
      BY <3>1, <3>2
  <2>3. NsHeaders(s)
    BY <1>12 DEF NsSound
  <2>4. NsList(s)
    BY <1>10, <2>2, <2>3 DEF NsList
  <2> QED
    BY <1>12, <2>4, NsGoodSound
<1>15. ASSUME NEW z, NsTyped(z), NsSame(s, z), grows, ~reached, Becomes(z)
       PROVE  NsKept /\ DOMAIN peerStates' = DOMAIN peerStates
  <2>1. NsGood(z, best, blockOrphans) /\ NsKnown(z) /\ (NsOwned(s) => NsOwned(z))
    <3>1. NsGood(s, best, blockOrphans)
      BY <1>14, <1>15
    <3> QED
      BY <1>11, <1>15, <3>1, NsSameGood
  <2>2. z.check = nextCheckpoint /\ DOMAIN z.states = DOMAIN peerStates
    BY <1>10, <1>15 DEF NsSame
  <2> QED
    BY <1>5, <1>11, <1>15, <2>1, <2>2
<1>16. grows => NsTyped(s)
  BY <1>12 DEF NsSound
<1>17. CASE grows /\ ~reached /\ Becomes(Disconnect(s, p))
  <2>1. NsTyped(Disconnect(s, p)) /\ NsSame(s, Disconnect(s, p))
    BY <1>16, <1>17, NsDisconnect
  <2> QED
    BY <1>15, <1>17, <2>1
<1>18. CASE grows /\ ~reached /\ ~(k < Len(hs)) /\ Becomes(PushGetHeaders(s, p, hs[k], nextCheckpoint))
  <2>1. k \in 1..k /\ Tip \in Nat
    <3>1. Len(hs) # 0 /\ Len(hs) \in Nat
      BY <1>1, <1>18, NsTail
    <3> QED
      BY <1>7, <1>18, <3>1, NsHeights
  <2> DEFINE h == hs[k]
  <2>2. h \in 0..nextCheckpoint /\ h # nextCheckpoint
    BY <1>7, <1>9, <1>18, <2>1
  <2> HIDE DEF h
  <2>3. h \in 0..Tip /\ h < nextCheckpoint /\ nextCheckpoint \in NsHeight(s.check)
    BY <1>8, <1>10, <1>18, <2>1, <2>2 DEF NsHeight
  <2> DEFINE z == PushGetHeaders(s, p, h, nextCheckpoint)
  <2>4. NsTyped(z) /\ NsSame(s, z)
    BY <1>1, <1>16, <1>18, <2>3, NsPushGetHeaders
  <2>5. Becomes(z)
    BY <1>18 DEF h
  <2> HIDE DEF z
  <2> QED
    BY <1>15, <1>18, <2>4, <2>5
<1> QED
  BY <1>3, <1>4, <1>6, <1>13, <1>17, <1>18

\* The turns of a peer when the first message has been handled.
LEMMA NsTurnTail ==
    ASSUME NEW S, NEW c \in Seq(S), c # <<>>, NEW p, NEW known \in BOOLEAN, NEW gone \in BOOLEAN,
           NEW known1 \in BOOLEAN, NEW gone1 \in BOOLEAN, NsTurn(c, known, gone, p), gone1 => gone,
           known1 => c[1] = [msg |-> "new", peer |-> p] \/ (known /\ c[1] # [msg |-> "done", peer |-> p])
    PROVE  NsTurn(Tail(c), known1, gone1, p)
<1> DEFINE d == Tail(c)
<1>1. /\ Len(c) \in Nat /\ Len(c) # 0 /\ d \in Seq(S) /\ Len(d) = Len(c) - 1
      /\ \A i \in 1..(Len(c) - 1) : d[i] = c[i + 1]
  BY NsTail
<1> HIDE DEF d
<1>2. DOMAIN c = 1..Len(c) /\ DOMAIN d = 1..(Len(c) - 1)
  BY <1>1
<1>3. \A i \in DOMAIN d : i \in Nat /\ i + 1 \in DOMAIN c /\ d[i] = c[i + 1]
  BY <1>1, <1>2
<1>4. \A i \in DOMAIN d : NsNew(d, i, p) => NsNew(c, i + 1, p)
  BY <1>3 DEF NsNew
<1>5. \A i, j \in Nat : NsLeaves(c, i + 1, j + 1, p) => NsLeaves(d, i, j, p)
  <2> SUFFICES ASSUME NEW i \in Nat, NEW j \in Nat, NsLeaves(c, i + 1, j + 1, p) PROVE NsLeaves(d, i, j, p)
    OBVIOUS
  <2>1. PICK k \in DOMAIN c : i + 1 < k /\ k < j + 1 /\ c[k] = [msg |-> "done", peer |-> p]
    BY DEF NsLeaves
  <2>2. k - 1 \in DOMAIN d /\ i < k - 1 /\ k - 1 < j /\ (k - 1) + 1 = k
    BY <1>1, <1>2, <2>1
  <2>3. d[k - 1] = [msg |-> "done", peer |-> p]
    BY <1>3, <2>1, <2>2
  <2> QED
    BY <2>2, <2>3 DEF NsLeaves
<1>6. \A j \in Nat : known1 /\ NsLeaves(c, 0, j, p) /\ ~NsNew(c, 1, p) => NsLeaves(c, 1, j, p)
  <2> SUFFICES ASSUME NEW j \in Nat, known1, NsLeaves(c, 0, j, p), ~NsNew(c, 1, p) PROVE NsLeaves(c, 1, j, p)
    OBVIOUS
  <2>1. PICK k \in DOMAIN c : 0 < k /\ k < j /\ c[k] = [msg |-> "done", peer |-> p]
    BY DEF NsLeaves
  <2>2. 1 \in DOMAIN c
    BY <1>1, <1>2
  <2>3. c[1] # [msg |-> "done", peer |-> p]
    BY <2>2 DEF NsNew
  <2>4. 1 < k
    BY <1>1, <1>2, <2>1, <2>3
  <2> QED
    BY <2>1, <2>4 DEF NsLeaves
<1>7. known1 => \A j \in Nat : NsNew(c, j, p) /\ 1 < j => NsLeaves(c, 1, j, p)
  <2> SUFFICES ASSUME known1, NEW j \in Nat, NsNew(c, j, p), 1 < j PROVE NsLeaves(c, 1, j, p)
    OBVIOUS
  <2>1. j \in DOMAIN c /\ 1 \in DOMAIN c
    BY <1>1, <1>2 DEF NsNew
  <2>2. CASE NsNew(c, 1, p)
    BY <2>1, <2>2 DEF NsTurn
  <2>3. CASE ~NsNew(c, 1, p)
    <3>1. known
      BY <2>1, <2>3 DEF NsNew
    <3>2. NsLeaves(c, 0, j, p)
      BY <2>1, <3>1 DEF NsTurn
    <3> QED
      BY <1>6, <2>3, <3>2
  <2> QED
    BY <2>2, <2>3
<1>8. known1 /\ gone1 => NsLeaves(c, 1, Len(c) + 1, p)
  <2> SUFFICES ASSUME known1, gone1 PROVE NsLeaves(c, 1, Len(c) + 1, p)
    OBVIOUS
  <2>1. 1 \in DOMAIN c /\ Len(c) + 1 \in Nat
    BY <1>1, <1>2
  <2>2. CASE NsNew(c, 1, p)
    BY <2>1, <2>2 DEF NsTurn
  <2>3. CASE ~NsNew(c, 1, p)
    <3>1. known
      BY <2>1, <2>3 DEF NsNew
    <3> QED
      BY <1>6, <2>1, <2>3, <3>1 DEF NsTurn
  <2> QED
    BY <2>2, <2>3
<1>9. Len(d) + 1 \in Nat /\ (Len(d) + 1) + 1 = Len(c) + 1
  BY <1>1
<1>10. ASSUME known1, NEW j \in DOMAIN d, NsNew(d, j, p) PROVE NsLeaves(d, 0, j, p)
  <2>1. j \in Nat /\ j + 1 \in Nat /\ 1 < j + 1 /\ 0 + 1 = 1
    BY <1>2, <1>1
  <2>2. NsLeaves(c, 1, j + 1, p)
    BY <1>4, <1>7, <1>10, <2>1
  <2>3. NsLeaves(c, 0 + 1, j + 1, p)
    BY <2>1, <2>2
  <2> QED
    BY <1>5, <2>1, <2>3
<1>11. known1 /\ gone1 => NsLeaves(d, 0, Len(d) + 1, p)
  <2>1. 0 + 1 = 1
    OBVIOUS
  <2> QED
    BY <1>5, <1>8, <1>9, <2>1
<1>12. ASSUME NEW i \in DOMAIN d, NsNew(d, i, p), NEW j \in DOMAIN d, i < j, NsNew(d, j, p) PROVE NsLeaves(d, i, j, p)
  <2>1. i \in Nat /\ j \in Nat /\ i + 1 \in DOMAIN c /\ j + 1 \in DOMAIN c /\ i + 1 < j + 1
    BY <1>3, <1>12
  <2>2. NsLeaves(c, i + 1, j + 1, p)
    BY <1>4, <1>12, <2>1 DEF NsTurn
  <2> QED
    BY <1>5, <2>1, <2>2
<1>13. ASSUME NEW i \in DOMAIN d, NsNew(d, i, p), gone1 PROVE NsLeaves(d, i, Len(d) + 1, p)
  <2>1. i \in Nat /\ i + 1 \in DOMAIN c
    BY <1>3
  <2>2. NsLeaves(c, i + 1, (Len(d) + 1) + 1, p)
    BY <1>4, <1>9, <1>13, <2>1 DEF NsTurn
  <2> QED
    BY <1>5, <1>9, <2>1, <2>2
<1> QED
  BY <1>10, <1>11, <1>12, <1>13 DEF NsTurn, d

\* The turns of a peer when a message is queued.
LEMMA NsTurnAppend ==
    ASSUME NEW S, NEW c \in Seq(S), NEW m \in S, NEW p, NEW known \in BOOLEAN, NEW gone \in BOOLEAN,
           NEW gone1 \in BOOLEAN, NsTurn(c, known, gone, p),
           m = [msg |-> "new", peer |-> p] => gone,
           gone1 => m # [msg |-> "new", peer |-> p] /\ (gone \/ m = [msg |-> "done", peer |-> p])
    PROVE  NsTurn(Append(c, m), known, gone1, p)
<1> DEFINE d == Append(c, m)
<1> DEFINE e == Len(c) + 1
<1>1. Len(c) \in Nat /\ e \in Nat /\ d \in Seq(S) /\ Len(d) = e /\ d[e] = m /\ (\A i \in 1..Len(c) : d[i] = c[i])
  OBVIOUS
<1> HIDE DEF d
<1>2. DOMAIN c = 1..Len(c) /\ DOMAIN d = 1..e /\ e \in DOMAIN d
  BY <1>1
<1>3. \A i \in DOMAIN d : i \in Nat /\ (i = e \/ (i \in DOMAIN c /\ i < e /\ d[i] = c[i]))
  BY <1>1, <1>2
<1>4. \A i \in DOMAIN c : i \in Nat /\ i \in DOMAIN d /\ d[i] = c[i] /\ i < e
  BY <1>1, <1>2
<1> HIDE DEF e
<1>5. \A i, j : NsLeaves(c, i, j, p) => NsLeaves(d, i, j, p)
  BY <1>4 DEF NsLeaves
<1>6. \A i \in Nat : NsLeaves(c, i, e, p) => NsLeaves(d, i, e + 1, p)
  <2> SUFFICES ASSUME NEW i \in Nat, NsLeaves(c, i, e, p) PROVE NsLeaves(d, i, e + 1, p)
    OBVIOUS
  <2>1. PICK k \in DOMAIN c : i < k /\ k < e /\ c[k] = [msg |-> "done", peer |-> p]
    BY DEF NsLeaves
  <2>2. k \in DOMAIN d /\ d[k] = c[k] /\ k < e + 1
    BY <1>1, <1>4, <2>1
  <2> QED
    BY <2>1, <2>2 DEF NsLeaves
<1>7. \A i \in Nat : i < e /\ m = [msg |-> "done", peer |-> p] => NsLeaves(d, i, e + 1, p)
  <2>1. e < e + 1 /\ d[e] = m /\ e \in DOMAIN d
    BY <1>1, <1>2
  <2> QED
    BY <2>1 DEF NsLeaves
<1>8. gone => /\ known => NsLeaves(c, 0, e, p)
              /\ \A i \in DOMAIN c : NsNew(c, i, p) => NsLeaves(c, i, e, p)
  BY DEF NsTurn, e
<1>9. \A i \in DOMAIN d : NsNew(d, i, p) => (i = e /\ m = [msg |-> "new", peer |-> p]) \/ (i \in DOMAIN c /\ NsNew(c, i, p))
  BY <1>1, <1>3 DEF NsNew
<1>10. ASSUME known, NEW j \in DOMAIN d, NsNew(d, j, p) PROVE NsLeaves(d, 0, j, p)
  <2>1. CASE j = e /\ m = [msg |-> "new", peer |-> p]
    BY <1>5, <1>8, <1>10, <2>1
  <2>2. CASE j \in DOMAIN c /\ NsNew(c, j, p)
    BY <1>5, <1>10, <2>2 DEF NsTurn
  <2> QED
    BY <1>9, <1>10, <2>1, <2>2
<1>11. ASSUME known, gone1 PROVE NsLeaves(d, 0, e + 1, p)
  <2>1. CASE m = [msg |-> "done", peer |-> p]
    <3>1. 0 \in Nat /\ 0 < e
      BY <1>1 DEF e
    <3> QED
      BY <1>7, <2>1, <3>1
  <2>2. CASE gone
    BY <1>6, <1>8, <1>11, <2>2
  <2> QED
    BY <1>11, <2>1, <2>2
<1>12. ASSUME NEW i \in DOMAIN d, NsNew(d, i, p), NEW j \in DOMAIN d, i < j, NsNew(d, j, p) PROVE NsLeaves(d, i, j, p)
  <2>1. i \in DOMAIN c /\ NsNew(c, i, p)
    <3>1. i # e
      BY <1>1, <1>2, <1>12 DEF e
    <3> QED
      BY <1>9, <1>12, <3>1
  <2>2. CASE j = e /\ m = [msg |-> "new", peer |-> p]
    BY <1>5, <1>8, <2>1, <2>2
  <2>3. CASE j \in DOMAIN c /\ NsNew(c, j, p)
    BY <1>5, <1>12, <2>1, <2>3 DEF NsTurn
  <2> QED
    BY <1>9, <1>12, <2>2, <2>3
<1>13. ASSUME NEW i \in DOMAIN d, NsNew(d, i, p), gone1 PROVE NsLeaves(d, i, e + 1, p)
  <2>1. i \in DOMAIN c /\ NsNew(c, i, p) /\ i \in Nat /\ i < e
    BY <1>4, <1>9, <1>13
  <2>2. CASE m = [msg |-> "done", peer |-> p]
    BY <1>7, <2>1, <2>2
  <2>3. CASE gone
    BY <1>6, <1>8, <2>1, <2>3
  <2> QED
    BY <1>13, <2>2, <2>3
<1> QED
  BY <1>1, <1>10, <1>11, <1>12, <1>13 DEF NsTurn, d

\* Closing a connection is not yet going.
LEMMA NsStillThere ==
    ASSUME conn' \in NsConns, NEW p \in Peer, (conn[p] \in NsGone)' PROVE conn[p] \in NsGone
<1>1. conn'[p] = conn[p] \/ conn'[p] = "closing"
  BY DEF NsConns
<1>2. "closing" \notin NsGone
  BY DEF NsGone
<1> QED
  BY <1>1, <1>2

\* A message is handled: its peer is known from then on, no longer, or as before.
LEMMA NsTurnsHandled ==
    ASSUME NetSyncIInv, NsTurns, msgChan # <<>>, msgChan' = Tail(msgChan), conn' \in NsConns,
           \A p \in Peer : p \in DOMAIN peerStates' =>
               \/ msgChan[1] = [msg |-> "new", peer |-> p]
               \/ p \in DOMAIN peerStates /\ msgChan[1] # [msg |-> "done", peer |-> p]
    PROVE  NsTurns'
<1> SUFFICES ASSUME NEW p \in Peer
             PROVE  NsTurn(Tail(msgChan), p \in DOMAIN peerStates', (conn[p] \in NsGone)', p)
  BY DEF NsTurns
<1> DEFINE S == NsMessage(nextCheckpoint)
<1> DEFINE known == p \in DOMAIN peerStates
<1> DEFINE gone == conn[p] \in NsGone
<1> DEFINE known1 == p \in DOMAIN peerStates'
<1> DEFINE gone1 == (conn[p] \in NsGone)'
<1>1. msgChan \in Seq(S)
  BY DEF NetSyncIInv
<1>2. NsTurn(msgChan, known, gone, p)
  BY DEF NsTurns
<1>3. gone1 => gone
  BY NsStillThere
<1>4. known \in BOOLEAN /\ gone \in BOOLEAN /\ known1 \in BOOLEAN /\ gone1 \in BOOLEAN
  OBVIOUS
<1>5. known1 => msgChan[1] = [msg |-> "new", peer |-> p] \/ (known /\ msgChan[1] # [msg |-> "done", peer |-> p])
  OBVIOUS
<1> HIDE DEF S, known, gone, known1, gone1
<1>6. NsTurn(Tail(msgChan), known1, gone1, p)
  BY <1>1, <1>2, <1>3, <1>4, <1>5, NsTurnTail
<1> QED
  BY <1>6 DEF known1, gone1

\* Every message that is handled keeps the invariant and the turns.
LEMMA NsBlockHandler ==
    ASSUME NetSyncIInv, BlockHandler PROVE NsKept /\ (NsTurns => NsTurns')
<1>1. ASSUME NEW kind, Handle(kind), NsKept, kind # "new", kind # "done", DOMAIN peerStates' = DOMAIN peerStates
      PROVE  NsKept /\ (NsTurns => NsTurns')
  <2>1. msgChan # <<>> /\ msgChan' = Tail(msgChan) /\ Head(msgChan).msg = kind
    BY <1>1, NsHandled
  <2>2. Head(msgChan) = msgChan[1]
    BY <2>1 DEF NetSyncIInv
  <2>3. \A p \in Peer : msgChan[1] # [msg |-> "done", peer |-> p]
    BY <1>1, <2>1, <2>2
  <2> QED
    BY <1>1, <2>1, <2>3, NsTurnsHandled DEF NsKept
<1>2. ASSUME Handle("new") \/ Handle("done")
      PROVE  /\ msgChan # <<>> /\ msgChan' = Tail(msgChan) /\ (Handle("new") => msgChan[1] = [msg |-> "new", peer |-> From])
             /\ (Handle("done") => msgChan[1] = [msg |-> "done", peer |-> From])
  <2>1. msgChan # <<>> /\ msgChan' = Tail(msgChan) /\ msgChan \in Seq(NsMessage(nextCheckpoint))
    BY <1>2, NsHandled DEF NetSyncIInv
  <2> DEFINE m == msgChan[1]
  <2>2. m \in NsMessage(nextCheckpoint) /\ Head(msgChan) = m
    BY <2>1
  <2>3. m.msg \in {"new", "done"} => m = [msg |-> m.msg, peer |-> m.peer]
    <3> HIDE DEF m
    <3>1. m.msg \in {"new", "done"} => m \in [msg : {"new", "done"}, peer : Peer]
      BY <2>2 DEF NsMessage
    <3> QED
      BY <3>1
  <2> HIDE DEF m
  <2>4. From = m.peer
    BY <2>2 DEF From
  <2>5. Handle("new") => m.msg = "new"
    BY <2>2 DEF Handle
  <2>6. Handle("done") => m.msg = "done"
    BY <2>2 DEF Handle
  <2> QED
    BY <2>1, <2>3, <2>4, <2>5, <2>6 DEF m
<1>3. CASE HandleNewPeerMsg
  <2>1. Handle("new") /\ NsKept /\ DOMAIN peerStates' = DOMAIN peerStates \cup {From}
    BY <1>3, NsHandleNewPeer DEF HandleNewPeerMsg
  <2>2. msgChan[1] = [msg |-> "new", peer |-> From] /\ msgChan # <<>> /\ msgChan' = Tail(msgChan)
    BY <1>2, <2>1
  <2>3. \A p \in Peer : msgChan[1] # [msg |-> "done", peer |-> p]
    BY <2>2
  <2>4. \A p \in Peer : p \in DOMAIN peerStates' =>
            msgChan[1] = [msg |-> "new", peer |-> p] \/ (p \in DOMAIN peerStates /\ msgChan[1] # [msg |-> "done", peer |-> p])
    BY <2>1, <2>2, <2>3
  <2> QED
    BY <2>1, <2>2, <2>4, NsTurnsHandled DEF NsKept
<1>4. CASE HandleDonePeerMsg
  <2>1. Handle("done") /\ NsKept /\ DOMAIN peerStates' = DOMAIN peerStates \ {From}
    BY <1>4, NsHandleDonePeer DEF HandleDonePeerMsg
  <2>2. msgChan[1] = [msg |-> "done", peer |-> From] /\ msgChan # <<>> /\ msgChan' = Tail(msgChan)
    BY <1>2, <2>1
  <2>3. \A p \in Peer : p # From => msgChan[1] # [msg |-> "done", peer |-> p]
    BY <2>2
  <2>4. \A p \in Peer : p \in DOMAIN peerStates' =>
            msgChan[1] = [msg |-> "new", peer |-> p] \/ (p \in DOMAIN peerStates /\ msgChan[1] # [msg |-> "done", peer |-> p])
    BY <2>1, <2>3
  <2> QED
    BY <2>1, <2>2, <2>4, NsTurnsHandled DEF NsKept
<1>5. CASE HandleTxMsg
  BY <1>1, <1>5, NsHandleTx DEF HandleTxMsg
<1>6. CASE HandleBlockMsg
  BY <1>1, <1>6, NsHandleBlock DEF HandleBlockMsg
<1>7. CASE HandleHeadersMsg
  BY <1>1, <1>7, NsHandleHeaders DEF HandleHeadersMsg
<1>8. CASE HandleNotFoundMsg
  BY <1>1, <1>8, NsHandleNotFound DEF HandleNotFoundMsg
<1>9. CASE HandleInvMsg
  BY <1>1, <1>9, NsHandleInv DEF HandleInvMsg
<1> QED
  BY <1>3, <1>4, <1>5, <1>6, <1>7, <1>8, <1>9 DEF BlockHandler

\* So does the ticker.
LEMMA NsStallTurns ==
    ASSUME NetSyncIInv, HandleStallSample PROVE NsKept /\ (NsTurns => NsTurns')
<1>1. NsKept /\ DOMAIN peerStates' = DOMAIN peerStates /\ msgChan' = msgChan
  BY NsHandleStall DEF HandleStallSample
<1>2. ASSUME NsTurns, NEW p \in Peer PROVE NsTurn(msgChan, p \in DOMAIN peerStates, (conn[p] \in NsGone)', p)
  <2>1. (conn[p] \in NsGone)' => conn[p] \in NsGone
    BY <1>1, NsStillThere DEF NsKept
  <2> QED
    BY <1>2, <2>1 DEF NsTurns, NsTurn
<1> QED
  BY <1>1, <1>2 DEF NsTurns

\* Peers leave the sync manager alone.
LEMMA NsOutside ==
    ASSUME NetSyncIInv, UNCHANGED nsManager, asked' \in [Peer -> Seq(NsAsk(nextCheckpoint))],
           conn' \in [Peer -> {"new", "up", "closing", "down"}], msgChan' \in Seq(NsMessage(nextCheckpoint))
    PROVE  NetSyncIInv' /\ (NsOwned(Now) => NsOwned(Now')) /\ peerStates' = peerStates
<1>1. /\ peerStates' = peerStates /\ syncPeer' = syncPeer /\ requested' = requested /\ headersFirst' = headersFirst
      /\ headerList' = headerList /\ startHeader' = startHeader /\ nextCheckpoint' = nextCheckpoint
      /\ best' = best /\ blockOrphans' = blockOrphans
  BY DEF nsManager, nsHeaders, nsWorld
<1> DEFINE z == Now'
<1>2. /\ NsRecord(z) /\ z.states = peerStates /\ z.sync = syncPeer /\ z.req = requested /\ z.first = headersFirst
      /\ z.list = headerList /\ z.start = startHeader /\ z.check = nextCheckpoint /\ z.asked = asked' /\ z.conn = conn'
  BY <1>1 DEF Now, NsRecord
<1> HIDE DEF z
<1>3. NsTyped(Now)'
  <2>1. z.conn \in NsConns'
    BY <1>2 DEF NsConns
  <2>2. NsTyped(Now)
    BY NsNow DEF NsGood
  <2> QED
    BY <1>2, <2>1, <2>2, NsNow DEF NsTyped, z
<1>4. NsList(z)
  BY <1>2, NsNow DEF NsGood, NsList, NsHeaders
<1>5. NsBehind(z, best, blockOrphans)
  BY <1>2, NsNow DEF NsGood, NsBehind
<1>6. NsGood(Now, best, blockOrphans)'
  BY <1>1, <1>3, <1>4, <1>5, NsNow DEF NsGood, z
<1>7. NsKnown(z) /\ (NsOwned(Now) => NsOwned(z))
  BY <1>2, NsNow DEF NsKnown, NsOwned
<1> QED
  BY <1>1, <1>6, <1>7 DEF NetSyncIInv, z

\* A message that may come is queued.
LEMMA NsQueue ==
    ASSUME NetSyncIInv, NEW m \in NsMessage(nextCheckpoint), Queue(m), peerStates' = peerStates,
           conn' \in [Peer -> {"new", "up", "closing", "down"}],
           \A p \in Peer : /\ m = [msg |-> "new", peer |-> p] => conn[p] \in NsGone
                           /\ (conn[p] \in NsGone)' =>
                                  /\ m # [msg |-> "new", peer |-> p]
                                  /\ conn[p] \in NsGone \/ m = [msg |-> "done", peer |-> p]
    PROVE  msgChan' \in Seq(NsMessage(nextCheckpoint)) /\ (NsTurns => NsTurns')
<1>1. msgChan \in Seq(NsMessage(nextCheckpoint)) /\ msgChan' = Append(msgChan, m)
  BY DEF NetSyncIInv, Queue
<1>2. msgChan' \in Seq(NsMessage(nextCheckpoint))
  BY <1>1
<1>3. ASSUME NsTurns, NEW p \in Peer
      PROVE  NsTurn(Append(msgChan, m), p \in DOMAIN peerStates, (conn[p] \in NsGone)', p)
  <2> DEFINE known == p \in DOMAIN peerStates
  <2> DEFINE gone == conn[p] \in NsGone
  <2> DEFINE gone1 == (conn[p] \in NsGone)'
  <2>1. NsTurn(msgChan, known, gone, p)
    BY <1>3 DEF NsTurns
  <2>2. known \in BOOLEAN /\ gone \in BOOLEAN /\ gone1 \in BOOLEAN
    OBVIOUS
  <2>3. /\ m = [msg |-> "new", peer |-> p] => gone
        /\ gone1 => m # [msg |-> "new", peer |-> p] /\ (gone \/ m = [msg |-> "done", peer |-> p])
    OBVIOUS
  <2> HIDE DEF known, gone, gone1
  <2>4. NsTurn(Append(msgChan, m), known, gone1, p)
    BY <1>1, <2>1, <2>2, <2>3, NsTurnAppend
  <2> QED
    BY <2>4 DEF known, gone1
<1> QED
  BY <1>1, <1>2, <1>3 DEF NsTurns

\* What a step of a peer keeps.
NsKeptOutside == NetSyncIInv' /\ (NsOwned(Now) => NsOwned(Now')) /\ (NsTurns => NsTurns')

\* A peer connects.
LEMMA NsNewPeer ==
    ASSUME NetSyncIInv, NEW p \in Peer, NewPeer(p) PROVE NsKeptOutside
<1> DEFINE m == [msg |-> "new", peer |-> p]
<1>1. /\ conn \in [Peer -> {"new", "up", "closing", "down"}] /\ asked \in [Peer -> Seq(NsAsk(nextCheckpoint))]
  BY NsNow DEF NsGood, NsTyped, NsConns
<1>2. /\ UNCHANGED nsManager /\ Queue(m) /\ peerStates' = peerStates
      /\ conn' = [conn EXCEPT ![p] = "up"] /\ asked' = [asked EXCEPT ![p] = <<>>] /\ conn[p] \in NsGone
  BY DEF NewPeer, nsManager, NsGone
<1>3. conn' \in [Peer -> {"new", "up", "closing", "down"}] /\ asked' \in [Peer -> Seq(NsAsk(nextCheckpoint))]
  BY <1>1, <1>2
<1>4. m \in NsMessage(nextCheckpoint)
  BY DEF NsMessage
<1>5. ASSUME NEW q \in Peer
      PROVE  /\ m = [msg |-> "new", peer |-> q] => conn[q] \in NsGone
             /\ (conn[q] \in NsGone)' => /\ m # [msg |-> "new", peer |-> q]
                                         /\ conn[q] \in NsGone \/ m = [msg |-> "done", peer |-> q]
  <2>1. m = [msg |-> "new", peer |-> q] <=> q = p
    OBVIOUS
  <2>2. q = p => ~(conn[q] \in NsGone)'
    BY <1>1, <1>2 DEF NsGone
  <2>3. q # p => conn'[q] = conn[q]
    BY <1>1, <1>2
  <2> HIDE DEF m
  <2> QED
    BY <1>2, <2>1, <2>2, <2>3
<1> HIDE DEF m
<1>6. msgChan' \in Seq(NsMessage(nextCheckpoint)) /\ (NsTurns => NsTurns')
  BY <1>2, <1>3, <1>4, <1>5, NsQueue
<1> QED
  BY <1>2, <1>3, <1>6, NsOutside DEF NsKeptOutside

\* A peer leaves.
LEMMA NsDonePeer ==
    ASSUME NetSyncIInv, NEW p \in Peer, DonePeer(p) PROVE NsKeptOutside
<1> DEFINE m == [msg |-> "done", peer |-> p]
<1>1. /\ conn \in [Peer -> {"new", "up", "closing", "down"}] /\ asked \in [Peer -> Seq(NsAsk(nextCheckpoint))]
  BY NsNow DEF NsGood, NsTyped, NsConns
<1>2. /\ UNCHANGED nsManager /\ Queue(m) /\ peerStates' = peerStates
      /\ conn' = [conn EXCEPT ![p] = "down"] /\ asked' = [asked EXCEPT ![p] = <<>>]
  BY DEF DonePeer, nsManager
<1>3. conn' \in [Peer -> {"new", "up", "closing", "down"}] /\ asked' \in [Peer -> Seq(NsAsk(nextCheckpoint))]
  BY <1>1, <1>2
<1>4. m \in NsMessage(nextCheckpoint)
  BY DEF NsMessage
<1>5. ASSUME NEW q \in Peer
      PROVE  /\ m = [msg |-> "new", peer |-> q] => conn[q] \in NsGone
             /\ (conn[q] \in NsGone)' => /\ m # [msg |-> "new", peer |-> q]
                                         /\ conn[q] \in NsGone \/ m = [msg |-> "done", peer |-> q]
  <2>1. m # [msg |-> "new", peer |-> q] /\ (q = p => m = [msg |-> "done", peer |-> q])
    OBVIOUS
  <2>2. q # p => conn'[q] = conn[q]
    BY <1>1, <1>2
  <2> HIDE DEF m
  <2> QED
    BY <2>1, <2>2
<1> HIDE DEF m
<1>6. msgChan' \in Seq(NsMessage(nextCheckpoint)) /\ (NsTurns => NsTurns')
  BY <1>2, <1>3, <1>4, <1>5, NsQueue
<1> QED
  BY <1>2, <1>3, <1>6, NsOutside DEF NsKeptOutside

\* Another message of a peer that stays connected.
LEMMA NsOther ==
    ASSUME NetSyncIInv, NEW m \in NsMessage(nextCheckpoint), m.msg # "new", m.msg # "done",
           Queue(m) \/ UNCHANGED msgChan, UNCHANGED <<nsManager, conn>>,
           asked' \in [Peer -> Seq(NsAsk(nextCheckpoint))]
    PROVE  NsKeptOutside
<1>1. conn \in [Peer -> {"new", "up", "closing", "down"}] /\ conn' = conn /\ peerStates' = peerStates
  BY NsNow DEF NsGood, NsTyped, NsConns, nsManager
<1>2. ASSUME NEW q \in Peer
      PROVE  m # [msg |-> "new", peer |-> q] /\ m # [msg |-> "done", peer |-> q]
  OBVIOUS
<1>3. msgChan' \in Seq(NsMessage(nextCheckpoint)) /\ (NsTurns => NsTurns')
  <2>1. CASE Queue(m)
    BY <1>1, <1>2, <2>1, NsQueue
  <2>2. CASE UNCHANGED msgChan
    BY <1>1, <2>2 DEF NsTurns, NetSyncIInv
  <2> QED
    BY <2>1, <2>2
<1> QED
  BY <1>1, <1>3, NsOutside DEF NsKeptOutside

\* The heights after h.
LEMMA NsAfterHeights ==
    ASSUME NEW h \in Nat, NEW stop \in Nat, h < stop, NEW n \in Nat \ {0}
    PROVE  HeightsAfter(h, stop, n) \in Seq((h + 1)..stop) /\ HeightsAfter(h, stop, n) # <<>>
<1> DEFINE k == Min({n, stop - h})
<1>1. k \in Nat /\ k # 0 /\ k <= stop - h
  <2>1. stop - h \in Nat /\ stop - h # 0
    OBVIOUS
  <2> DEFINE d == stop - h
  <2> HIDE DEF d
  <2>2. \E x \in {n, d} : \A y \in {n, d} : x <= y
    <3>1. n <= d \/ d <= n
      BY <2>1 DEF d
    <3> QED
      BY <2>1, <3>1 DEF d
  <2>3. Min({n, d}) \in {n, d} /\ \A y \in {n, d} : Min({n, d}) <= y
    BY <2>2 DEF Min
  <2> QED
    BY <2>1, <2>3 DEF d
<1> HIDE DEF k
<1>2. HeightsAfter(h, stop, n) = [i \in 1..k |-> h + i]
  BY DEF HeightsAfter, k
<1>3. \A i \in 1..k : h + i \in (h + 1)..stop
  BY <1>1
<1>4. [i \in 1..k |-> h + i] \in Seq((h + 1)..stop) /\ Len([i \in 1..k |-> h + i]) = k
  BY <1>1, <1>3
<1> QED
  BY <1>1, <1>2, <1>4

\* Sequences over a larger set.
LEMMA NsSeqGrows == ASSUME NEW A, NEW B, A \subseteq B PROVE Seq(A) \subseteq Seq(B)
OBVIOUS

\* What a peer answers is a message that may come.
LEMMA NsAnswers ==
    ASSUME NEW c \in 0..Tip, NEW p \in Peer, NEW a \in NsAsk(c),
           NEW m \in Answer(a, p) \cup WrongAnswer(a, p)
    PROVE  m \in NsMessage(c) /\ m.msg # "new" /\ m.msg # "done"
<1>0. Tip \in Nat /\ MaxHeaders \in Nat \ {0} /\ MaxInv \in Nat \ {0}
  BY NetSyncAssumption
<1>1. CASE a \in [ask : {"blocks"}, from : 0..Tip]
  <2>1. a.ask = "blocks" /\ a.from \in 0..Tip
    BY <1>1
  <2> DEFINE x == [msg |-> "inv", new |-> FALSE, kind |-> "block", peer |-> p,
                   items |-> HeightsAfter(a.from, Tip, MaxInv)]
  <2>2. m \in (IF a.from >= Tip THEN {} ELSE {x})
    BY <2>1 DEF Answer, WrongAnswer
  <2>3. a.from < Tip /\ m = x
    <3> HIDE DEF x
    <3>1. m \in {} \/ (~(a.from >= Tip) /\ m \in {x})
      BY <2>2
    <3> QED
      BY <1>0, <2>1, <3>1
  <2>4. HeightsAfter(a.from, Tip, MaxInv) \in Seq((a.from + 1)..Tip) /\ HeightsAfter(a.from, Tip, MaxInv) # <<>>
    BY <1>0, <2>1, <2>3, NsAfterHeights
  <2>5. (a.from + 1)..Tip \subseteq 1..Tip
    BY <1>0, <2>1
  <2>6. HeightsAfter(a.from, Tip, MaxInv) \in Seq(1..Tip) \ {<<>>}
    <3>1. Seq((a.from + 1)..Tip) \subseteq Seq(1..Tip)
      BY <2>5, NsSeqGrows
    <3> QED
      BY <2>4, <3>1
  <2> QED
    BY <2>3, <2>6 DEF NsMessage
<1>2. CASE a \in {x \in [ask : {"headers"}, from : 0..Tip, stop : NsHeight(c)] : x.from < x.stop}
  <2>1. a.ask = "headers" /\ a.from \in 0..Tip /\ a.stop \in NsHeight(c) /\ a.from < a.stop
    BY <1>2
  <2>2. m \in {[msg |-> "headers", peer |-> p, items |-> HeightsAfter(a.from, a.stop, MaxHeaders)],
               [msg |-> "headers", peer |-> p, items |-> <<Bogus>>]}
    BY <2>1 DEF Answer, WrongAnswer
  <2>3. a.stop \in 0..Tip /\ (c # 0 => a.stop <= c)
    BY <2>1 DEF NsHeight
  <2>4. HeightsAfter(a.from, a.stop, MaxHeaders) \in Seq((a.from + 1)..a.stop)
    <3>1. a.from \in Nat /\ a.stop \in Nat
      BY <1>0, <2>1, <2>3
    <3> QED
      BY <1>0, <2>1, <3>1, NsAfterHeights
  <2>5. (a.from + 1)..a.stop \subseteq NsHeight(c)
    BY <1>0, <2>1, <2>3 DEF NsHeight
  <2>6. HeightsAfter(a.from, a.stop, MaxHeaders) \in Seq(NsHeight(c))
    <3>1. Seq((a.from + 1)..a.stop) \subseteq Seq(NsHeight(c))
      BY <2>5, NsSeqGrows
    <3> QED
      BY <2>4, <3>1
  <2>7. <<Bogus>> \in Seq(NsHeight(c))
    <3>1. Bogus \in NsHeight(c)
      BY <1>0 DEF Bogus, NsHeight
    <3> QED
      BY <3>1
  <2>8. m.msg = "headers" /\ m \in [msg : {"headers"}, peer : Peer, items : Seq(NsHeight(c))]
    <3>1. CASE m = [msg |-> "headers", peer |-> p, items |-> HeightsAfter(a.from, a.stop, MaxHeaders)]
      BY <2>6, <3>1
    <3>2. CASE m = [msg |-> "headers", peer |-> p, items |-> <<Bogus>>]
      BY <2>7, <3>2
    <3> QED
      BY <2>2, <3>1, <3>2
  <2> QED
    BY <2>8 DEF NsMessage
<1>3. CASE a \in [ask : {"data"}, kind : {"block"}, item : 1..Tip]
  <2>1. a.ask = "data" /\ a.kind = "block" /\ a.item \in 1..Tip
    BY <1>3
  <2>2. m \in {[msg |-> "block", peer |-> p, item |-> a.item, good |-> TRUE],
               [msg |-> "notfound", kind |-> "block", peer |-> p, item |-> a.item],
               [msg |-> "block", peer |-> p, item |-> a.item, good |-> FALSE]}
    BY <2>1 DEF Answer, WrongAnswer
  <2>3. \/ m.msg = "block" /\ m \in [msg : {"block"}, peer : Peer, item : 1..Tip, good : BOOLEAN]
        \/ m.msg = "notfound" /\ m \in [msg : {"notfound"}, kind : {"block"}, peer : Peer, item : 1..Tip]
    <3>1. CASE m = [msg |-> "block", peer |-> p, item |-> a.item, good |-> TRUE]
      BY <2>1, <3>1
    <3>2. CASE m = [msg |-> "notfound", kind |-> "block", peer |-> p, item |-> a.item]
      BY <2>1, <3>2
    <3>3. CASE m = [msg |-> "block", peer |-> p, item |-> a.item, good |-> FALSE]
      BY <2>1, <3>3
    <3> QED
      BY <2>2, <3>1, <3>2, <3>3
  <2> QED
    BY <2>3 DEF NsMessage
<1>4. CASE a \in [ask : {"data"}, kind : {"tx"}, item : Txn]
  <2>1. a.ask = "data" /\ a.kind = "tx" /\ a.item \in Txn
    BY <1>4
  <2>2. m \in {[msg |-> "tx", peer |-> p, item |-> a.item, good |-> TRUE],
               [msg |-> "notfound", kind |-> "tx", peer |-> p, item |-> a.item],
               [msg |-> "tx", peer |-> p, item |-> a.item, good |-> FALSE]}
    BY <2>1 DEF Answer, WrongAnswer
  <2>3. \/ m.msg = "tx" /\ m \in [msg : {"tx"}, peer : Peer, item : Txn, good : BOOLEAN]
        \/ m.msg = "notfound" /\ m \in [msg : {"notfound"}, kind : {"tx"}, peer : Peer, item : Txn]
    <3>1. CASE m = [msg |-> "tx", peer |-> p, item |-> a.item, good |-> TRUE]
      BY <2>1, <3>1
    <3>2. CASE m = [msg |-> "notfound", kind |-> "tx", peer |-> p, item |-> a.item]
      BY <2>1, <3>2
    <3>3. CASE m = [msg |-> "tx", peer |-> p, item |-> a.item, good |-> FALSE]
      BY <2>1, <3>3
    <3> QED
      BY <2>2, <3>1, <3>2, <3>3
  <2> QED
    BY <2>3 DEF NsMessage
<1> QED
  BY <1>1, <1>2, <1>3, <1>4 DEF NsAsk

\* A peer answers, or drops a question it has no answer to.
LEMMA NsPeerAnswers ==
    ASSUME NetSyncIInv, NEW p \in Peer, PeerAnswers(p) PROVE NsKeptOutside
<1> DEFINE a == Head(asked[p])
<1> DEFINE as == Answer(a, p) \cup (IF p \in Faulty THEN WrongAnswer(a, p) ELSE {})
<1>1. asked \in [Peer -> Seq(NsAsk(nextCheckpoint))] /\ nextCheckpoint \in 0..Tip
  BY NsNow DEF NsGood, NsTyped
<1>2. asked[p] \in Seq(NsAsk(nextCheckpoint)) /\ asked[p] # <<>>
  BY <1>1 DEF PeerAnswers
<1>3. a \in NsAsk(nextCheckpoint) /\ Tail(asked[p]) \in Seq(NsAsk(nextCheckpoint))
  BY <1>2
<1>4. asked' \in [Peer -> Seq(NsAsk(nextCheckpoint))]
  BY <1>1, <1>3 DEF PeerAnswers
<1>5. UNCHANGED <<nsManager, conn>>
  BY DEF PeerAnswers
<1>6. IF as = {} THEN UNCHANGED msgChan ELSE \E m \in as : Queue(m)
  BY DEF PeerAnswers
<1> HIDE DEF a
<1>7. CASE as = {}
  <2> DEFINE h == [msg |-> "headers", peer |-> p, items |-> <<>>]
  <2>1. h \in NsMessage(nextCheckpoint) /\ h.msg = "headers"
    BY DEF NsMessage
  <2> HIDE DEF h
  <2>2. h.msg # "new" /\ h.msg # "done"
    BY <2>1
  <2> QED
    BY <1>4, <1>5, <1>6, <1>7, <2>1, <2>2, NsOther
<1>8. CASE as # {}
  <2>1. PICK m \in as : Queue(m)
    BY <1>6, <1>8
  <2>2. m \in Answer(a, p) \cup WrongAnswer(a, p)
    BY <2>1
  <2> HIDE DEF as
  <2>3. m \in NsMessage(nextCheckpoint) /\ m.msg # "new" /\ m.msg # "done"
    BY <1>1, <1>3, <2>2, NsAnswers
  <2> QED
    BY <1>4, <1>5, <2>1, <2>3, NsOther
<1> QED
  BY <1>7, <1>8

\* A peer announces a block or a transaction.
LEMMA NsAnnounce ==
    ASSUME NetSyncIInv, NEW p \in Peer, NEW k \in Kinds, NEW x \in NsItem(k), Announce(p, k, x) PROVE NsKeptOutside
<1> DEFINE m == [msg |-> "inv", new |-> TRUE, kind |-> k, peer |-> p, items |-> <<x>>]
<1>1. Queue(m) /\ UNCHANGED <<nsManager, conn>> /\ asked' = asked
  BY DEF Announce
<1>2. asked' \in [Peer -> Seq(NsAsk(nextCheckpoint))]
  BY <1>1, NsNow DEF NsGood, NsTyped
<1>3. m \in NsMessage(nextCheckpoint)
  <2>1. <<x>> \in Seq(NsItem(k)) \ {<<>>}
    OBVIOUS
  <2>2. CASE k = "block"
    BY <2>1, <2>2 DEF NsItem, NsMessage
  <2>3. CASE k = "tx"
    BY <2>1, <2>3 DEF NsItem, NsMessage
  <2> QED
    BY <2>2, <2>3 DEF Kinds
<1>4. m.msg # "new" /\ m.msg # "done"
  OBVIOUS
<1> HIDE DEF m
<1> QED
  BY <1>1, <1>2, <1>3, <1>4, NsOther

\* The sync manager before the first peer.
LEMMA NsInit == NetSyncInit => NetSyncIInv /\ NsOwned(Now) /\ NsTurns
<1> SUFFICES ASSUME NetSyncInit PROVE NetSyncIInv /\ NsOwned(Now) /\ NsTurns
  OBVIOUS
<1>1. nextCheckpoint \in Checkpoints \cup {0} /\ nextCheckpoint \in 0..Tip /\ Tip \in Nat
  <2>1. nextCheckpoint \in Checkpoints \cup {0}
    BY NsNextCheckpoint DEF NetSyncInit
  <2> QED
    BY <2>1, NsHeights
<1> DEFINE z == Now
<1>2. /\ NsRecord(z) /\ z.states = [p \in {} |-> {}] /\ z.sync = NoPeer /\ z.req = NoRequests /\ z.first = FALSE
      /\ z.list = headerList /\ z.start = 0 /\ z.check = nextCheckpoint /\ z.asked = [p \in Peer |-> <<>>]
      /\ z.conn = [p \in Peer |-> "new"] /\ z.conn = conn
  BY DEF Now, NsRecord, NetSyncInit
<1> HIDE DEF z
<1>3. NsReqOK(NoRequests) /\ \A k \in Kinds : NoRequests[k] = {}
  BY DEF NsReqOK, NoRequests, Kinds
<1>4. headerList \in Seq(0..Tip) /\ \A i \in 1..Len(headerList) : headerList[i] = 0 /\ nextCheckpoint # 0
  <2>1. headerList = <<>> \/ (nextCheckpoint # 0 /\ headerList = <<0>>)
    BY DEF NetSyncInit
  <2>2. CASE headerList = <<>>
    BY <2>2
  <2>3. CASE nextCheckpoint # 0 /\ headerList = <<0>>
    <3>1. headerList \in Seq(0..Tip) /\ Len(headerList) = 1 /\ headerList[1] = 0
      BY <2>3, NsHeights
    <3> QED
      BY <2>3, <3>1
  <2> QED
    BY <2>1, <2>2, <2>3
<1>5. NsTyped(z)
  <2>1. z.conn \in NsConns
    BY <1>2 DEF NsConns
  <2>2. z.asked \in [Peer -> Seq(NsAsk(z.check))]
    <3>1. <<>> \in Seq(NsAsk(z.check))
      OBVIOUS
    <3> QED
      BY <1>2, <3>1
  <2>3. DOMAIN z.states = {} /\ z.states = [q \in DOMAIN z.states |-> z.states[q]]
    BY <1>2
  <2> QED
    BY <1>1, <1>2, <1>3, <2>1, <2>2, <2>3 DEF NsTyped
<1>6. NsList(z)
  <2>1. Len(headerList) \in Nat
    BY <1>4
  <2> QED
    BY <1>1, <1>2, <1>4, <2>1 DEF NsList, NsHeaders
<1>7. best = 0 /\ blockOrphans = {}
  BY DEF NetSyncInit
<1>8. NsBehind(z, best, blockOrphans)
  <2>1. DOMAIN z.states = {}
    BY <1>2
  <2> QED
    BY <1>1, <1>2, <1>4, <1>7, <2>1 DEF NsBehind
<1>9. NsGood(Now, best, blockOrphans)
  BY <1>1, <1>5, <1>6, <1>7, <1>8 DEF NsGood, z
<1>10. NsKnown(z) /\ NsOwned(z)
  BY <1>2, <1>3 DEF NsKnown, NsOwned
<1>11. msgChan = <<>> /\ DOMAIN peerStates = {}
  BY DEF NetSyncInit
<1>12. NsTurns
  BY <1>11 DEF NsTurns, NsTurn
<1> QED
  BY <1>9, <1>10, <1>11, <1>12 DEF NetSyncIInv, z

\* One step of the node or of a peer.
LEMMA NsNext ==
    ASSUME NetSyncIInv, [NetSyncNext]_nsVars
    PROVE  /\ NetSyncIInv' /\ (NsTurns => NsTurns')
           /\ NsBelowLimit /\ NsOwned(Now) /\ NsTurns => NsOwned(Now)'
<1>1. CASE BlockHandler
  BY <1>1, NsBlockHandler DEF NsKept
<1>2. CASE HandleStallSample
  BY <1>2, NsStallTurns DEF NsKept
<1>3. ASSUME NEW p \in Peer, NewPeer(p) \/ DonePeer(p) \/ PeerAnswers(p) PROVE NsKeptOutside
  BY <1>3, NsNewPeer, NsDonePeer, NsPeerAnswers
<1>4. ASSUME NEW p \in Peer, Announce(p, "block", Tip) \/ \E t \in Txn : Announce(p, "tx", t) PROVE NsKeptOutside
  <2>1. CASE Announce(p, "block", Tip)
    <3>1. "block" \in Kinds /\ Tip \in NsItem("block")
      BY NetSyncAssumption DEF Kinds, NsItem
    <3> QED
      BY <2>1, <3>1, NsAnnounce
  <2>2. ASSUME NEW t \in Txn, Announce(p, "tx", t) PROVE NsKeptOutside
    <3>1. "tx" \in Kinds /\ t \in NsItem("tx")
      BY DEF Kinds, NsItem
    <3> QED
      BY <2>2, <3>1, NsAnnounce
  <2> QED
    BY <1>4, <2>1, <2>2
<1>5. CASE UNCHANGED nsVars
  <2>1. /\ UNCHANGED nsManager /\ asked' = asked /\ conn' = conn /\ msgChan' = msgChan /\ peerStates' = peerStates
    BY <1>5 DEF nsVars, nsManager
  <2>2. /\ asked' \in [Peer -> Seq(NsAsk(nextCheckpoint))] /\ msgChan' \in Seq(NsMessage(nextCheckpoint))
        /\ conn' \in [Peer -> {"new", "up", "closing", "down"}]
    BY <2>1, NsNow DEF NsGood, NsTyped, NetSyncIInv, NsConns
  <2> QED
    BY <2>1, <2>2, NsOutside DEF NsTurns
<1> QED
  BY <1>1, <1>2, <1>3, <1>4, <1>5 DEF NetSyncNext, NsKeptOutside

\* The invariant says what the handlers rely on.
LEMMA NsHolds ==
    ASSUME NetSyncIInv
    PROVE  NetSyncTypeOK /\ SyncPeerKnown /\ (NsOwned(Now) => RequestsHaveOwner)
<1>1. NsTyped(Now) /\ NsList(Now) /\ NsKnown(Now)
  BY NsNow DEF NsGood
<1>2. NetSyncTypeOK
  <2>1. /\ DOMAIN peerStates \subseteq Peer /\ syncPeer \in Peer \cup {NoPeer}
        /\ requested["block"] \subseteq 1..Tip /\ requested["tx"] \subseteq Txn
    BY <1>1, NsNow DEF NsTyped, NsReqOK
  <2>2. \A p \in DOMAIN peerStates : peerStates[p].cand \in BOOLEAN
    BY <1>1, NsNow DEF NsTyped, NsStateOK
  <2>3. startHeader \in (-Tip)..Len(headerList) /\ conn \in [Peer -> {"new", "up", "closing", "down"}]
    BY <1>1, NsNow DEF NsTyped, NsConns, NsList, NsHeaders
  <2> QED
    BY <2>1, <2>2, <2>3, NsNow DEF NetSyncTypeOK
<1>3. SyncPeerKnown
  BY <1>1, NsNow DEF NsKnown, NsList, NsHeaders, SyncPeerKnown
<1>4. NsOwned(Now) => RequestsHaveOwner
  BY NsNow DEF NsOwned, RequestsHaveOwner
<1> QED
  BY <1>2, <1>3, <1>4

\* Whatever peers do and in whatever order messages, stalls and disconnections
\* come, the handlers of netsync/manager.go find the state of the sync peer
\* where fetchHeaderBlocks and handleStallSample use it, and headers-first mode
\* only with a sync peer and a checkpoint to reach.
THEOREM SyncPeerIsKnown == NetSyncSpec => [](NetSyncTypeOK /\ SyncPeerKnown)
<1>1. NetSyncInit => NetSyncIInv
  BY NsInit
<1>2. NetSyncIInv /\ [NetSyncNext]_nsVars => NetSyncIInv'
  BY NsNext
<1>3. NetSyncIInv => NetSyncTypeOK /\ SyncPeerKnown
  BY NsHolds
<1> QED
  BY <1>1, <1>2, <1>3, PTL DEF NetSyncSpec

\* As long as the chain and the announced transactions do not fill the request
\* maps (maxRequestedBlocks, maxRequestedTxns), what is marked as requested is
\* what some known peer still owes: no block or transaction is skipped for a
\* peer that has left, has said no or was given up.
THEOREM RequestsAreOwed ==
    ASSUME Tip < MaxRequested, IsFiniteSet(Txn), Cardinality(Txn) < MaxRequested
    PROVE  NetSyncSpec => []NetSyncInvariant
<1> DEFINE I == NetSyncIInv /\ NsOwned(Now) /\ NsTurns
<1>0. NsBelowLimit
  BY DEF NsBelowLimit
<1>1. NetSyncInit => I
  BY NsInit
<1>2. I /\ [NetSyncNext]_nsVars => I'
  BY <1>0, NsNext
<1>3. I => NetSyncInvariant
  BY NsHolds DEF NetSyncInvariant
<1> QED
  BY <1>1, <1>2, <1>3, PTL DEF NetSyncSpec
=============================================================================
