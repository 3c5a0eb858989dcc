----------------------------- MODULE AddrLevels -----------------------------
(***************************************************************************)
(* The list of the transactions of one address in the address index        *)
(* (blockchain/indexers/addrindex.go), stored like a log-structured merge  *)
(* tree: level n holds up to 2^n * level0MaxEntries entries, the newest in *)
(* level 0.  Connecting a block appends an entry, disconnecting one        *)
(* removes the newest entries and fills the emptied levels again.  The     *)
(* reference is the plain sequence of the entries, oldest first.           *)
(***************************************************************************)
EXTENDS Integers, Sequences, FiniteSets, SequencesExt, FiniteSetsExt, Functions

CONSTANTS
    AlLevel0,    \* level0MaxEntries
    AlMaxLevel,  \* bound: the highest level
    AlMaxEntries \* bound: entries of the address

AlLevels == 0..AlMaxLevel

\* maxEntriesForLevel and minEntriesToReachLevel
MaxEntriesForLevel(l) == AlLevel0 * 2^l
MinEntriesToReachLevel(l) == 1 + AlLevel0 * (2^l - 1)

ASSUME AddrLevelsAssumption ==
    /\ AlLevel0 \in Nat \ {0} /\ AlMaxLevel \in Nat /\ AlMaxEntries \in Nat
    /\ AlMaxEntries < MinEntriesToReachLevel(AlMaxLevel)

VARIABLES
    alLevels,  \* the rows of the address: level -> its entries, oldest first
    alEntries, \* history: the entries in the order they were added
    alFailed   \* whether dbRemoveAddrIndexEntries reported too few entries

alVars == <<alLevels, alEntries, alFailed>>

\* The types of the levels, of the reference list and of the error flag.
AddrLevelsTypeOK ==
    /\ DOMAIN alLevels = AlLevels /\ \A l \in AlLevels : alLevels[l] \in Seq(1..Len(alEntries))
    /\ alEntries \in Seq(1..AlMaxEntries) /\ alFailed \in BOOLEAN

AlInit == alLevels = [l \in AlLevels |-> <<>>] /\ alEntries = <<>> /\ alFailed = FALSE

----------------------------------------------------------------------------
\* dbPutAddrIndexEntry: into level 0 if it fits; otherwise the full levels below the first
\* level with room move up by one, the last of them to the end of that level.
PutEntry(lv, e) ==
    IF Len(lv[0]) < AlLevel0 THEN [lv EXCEPT ![0] = Append(@, e)]
    ELSE LET c == Min({l \in AlLevels \ {0} : Len(lv[l]) # MaxEntriesForLevel(l)})
         IN [l \in AlLevels |-> CASE l = 0 -> <<e>>
                                  [] 0 < l /\ l < c -> lv[l - 1]
                                  [] l = c -> lv[c] \o lv[c - 1]
                                  [] OTHER -> lv[l]]

\* The first loop of dbRemoveAddrIndexEntries: the levels that are loaded, the highest of them cut.
Below(lv, l) == FoldLeft(LAMBDA n, k : n + Len(lv[k - 1]), 0, [k \in 1..l |-> k])
EnoughEntries(lv, count) == \E l \in AlLevels : Below(lv, l) + Len(lv[l]) >= count /\ \A k \in 0..l : lv[k] # <<>>
HighestLoaded(lv, count) == Min({l \in AlLevels : Below(lv, l) + Len(lv[l]) >= count})
CutKeep(lv, count) == [l \in AlLevels |-> IF l < HighestLoaded(lv, count) THEN <<>> ELSE lv[l]]
Cut(lv, count) ==
    LET h == HighestLoaded(lv, count)
    IN [l \in AlLevels |-> CASE l < h -> <<>>
                             [] l = h -> SubSeq(lv[h], 1, Len(lv[h]) - (count - Below(lv, h)))
                             [] OTHER -> lv[l]]

Down(from, to) == [n \in 1..(IF from < to THEN 0 ELSE from - to + 1) |-> from - n + 1]
Rest(s, n) == SubSeq(s, n + 1, Len(s))

\* The second loop: what is left of the highest loaded level is squashed into the lowest levels.
SquashLevel(s, l) ==
    LET prevMax == s.max \div 2
        minPrev == MinEntriesToReachLevel(l - 1)
        offset == IF Len(s.cur) - s.max >= minPrev THEN s.max ELSE prevMax
    IN IF Len(s.cur) < prevMax + minPrev
       THEN [s EXCEPT !.lv[l] = <<>>, !.low = l, !.max = prevMax]
       ELSE [s EXCEPT !.lv[l] = SubSeq(s.cur, 1, offset), !.cur = Rest(s.cur, offset), !.max = prevMax]
Squash(lv, h) ==
    LET s == FoldLeft(SquashLevel, [lv |-> lv, cur |-> lv[h], max |-> MaxEntriesForLevel(h), low |-> 255], Down(h, 1))
    IN [lv |-> [s.lv EXCEPT ![0] = s.cur], low |-> IF s.cur = <<>> THEN 0 ELSE s.low]

\* The inner part of the third loop: a level is halved down to the lowest empty one.
HalveLevel(s, l) ==
    LET offset == s.max \div 2
    IN [lv |-> [s.lv EXCEPT ![l] = SubSeq(s.data, 1, offset), ![l - 1] = Rest(s.data, offset)],
        data |-> Rest(s.data, offset), max |-> offset]

\* The third loop: while the highest loaded level is empty, the next one fills it and those below.
BackfillFullOnly(s, l) ==
    LET data == s.lv[l]
        t == FoldLeft(HalveLevel, [lv |-> s.lv, data |-> data, max |-> MaxEntriesForLevel(l)], Down(l, s.low + 1))
    IN IF s.stop \/ s.lv[l - 1] # <<>> \/ data = <<>> THEN [s EXCEPT !.stop = TRUE]
       ELSE [lv |-> t.lv, low |-> l, stop |-> FALSE]
BackfillLevel(s, l) ==
    LET data == s.lv[l]
        half == Len(data) # MaxEntriesForLevel(l)
        top == IF half THEN l - 1 ELSE l
        moved == IF half THEN [s.lv EXCEPT ![l] = <<>>, ![l - 1] = data] ELSE s.lv
        t == FoldLeft(HalveLevel, [lv |-> moved, data |-> data, max |-> MaxEntriesForLevel(top)], Down(top, s.low + 1))
    IN IF s.stop \/ s.lv[l - 1] # <<>> \/ data = <<>> THEN [s EXCEPT !.stop = TRUE]
       ELSE [lv |-> t.lv, low |-> l, stop |-> FALSE]
Backfill(lv, h, low) ==
    FoldLeft(BackfillLevel, [lv |-> lv, low |-> low, stop |-> FALSE], [n \in 1..(AlMaxLevel - h) |-> h + n]).lv

\* dbRemoveAddrIndexEntries
RemoveEntries(lv, count) ==
    LET cut == Cut(lv, count)
        h == HighestLoaded(lv, count)
        s == Squash(cut, h)
    IN IF cut[0] # <<>> THEN cut ELSE Backfill(s.lv, h, s.low)

\* dbFetchAddrIndexEntries: the levels are read until one is missing, or until enough was read backwards.
ReadLevels(lv, wanted, reverse) ==
    FoldLeft(LAMBDA s, l : IF s.stop \/ lv[l - 1] = <<>> \/ (reverse /\ Len(s.data) >= wanted) THEN [s EXCEPT !.stop = TRUE]
                           ELSE [s EXCEPT !.data = lv[l - 1] \o @],
             [data |-> <<>>, stop |-> FALSE], [n \in 1..(AlMaxLevel + 1) |-> n]).data
FetchAddrEntriesShort(lv, skip, wanted, reverse) ==
    LET data == ReadLevels(lv, wanted, reverse)
        n == IF skip >= Len(data) THEN 0 ELSE Min({Len(data) - skip, wanted})
    IN [i \in 1..n |-> IF reverse THEN data[Len(data) - skip - i + 1] ELSE data[skip + i]]
FetchAddrEntries(lv, skip, wanted, reverse) ==
    LET data == ReadLevels(lv, skip + wanted, reverse)
        n == IF skip >= Len(data) THEN 0 ELSE Min({Len(data) - skip, wanted})
    IN [i \in 1..n |-> IF reverse THEN data[Len(data) - skip - i + 1] ELSE data[skip + i]]

----------------------------------------------------------------------------
\* AddrIndex.ConnectBlock for a transaction of the address.
AlAdd ==
    /\ Len(alEntries) < AlMaxEntries
    /\ LET e == Len(alEntries) + 1 IN alLevels' = PutEntry(alLevels, e) /\ alEntries' = Append(alEntries, e)
    /\ UNCHANGED alFailed

\* AddrIndex.DisconnectBlock for a block with some of the newest transactions of the address.
AlRemove ==
    \E count \in 1..Len(alEntries) :
        /\ IF EnoughEntries(alLevels, count)
           THEN alLevels' = RemoveEntries(alLevels, count) /\ UNCHANGED alFailed
           ELSE alFailed' = TRUE /\ UNCHANGED alLevels
        /\ alEntries' = SubSeq(alEntries, 1, Len(alEntries) - count)

AlNext == AlAdd \/ AlRemove

AlSpec == AlInit /\ [][AlNext]_alVars

----------------------------------------------------------------------------
\* Whatever blocks were connected and disconnected, a request for the transactions of the
\* address, forwards or backwards, from any position, is answered as from the plain list.
FetchMatchesList ==
    \A skip \in 0..Len(alEntries), wanted \in 0..3, reverse \in BOOLEAN :
        FetchAddrEntries(alLevels, skip, wanted, reverse) =
            LET list == IF reverse THEN Reverse(alEntries) ELSE alEntries
            IN SubSeq(list, skip + 1, Min({Len(list), skip + wanted}))

\* The rules of the levels: no gap below a used level, level 0 in use if anything is, and a
\* level above 0 empty, half full or full.  So a removal always finds the entries it removes.
LevelRules ==
    /\ ~alFailed
    /\ \A l \in AlLevels \ {0} :
          /\ alLevels[l] # <<>> => alLevels[l - 1] # <<>>
          /\ Len(alLevels[l]) \in {0, MaxEntriesForLevel(l) \div 2, MaxEntriesForLevel(l)}

\* The levels of an address keep their rules and answer every request like the
\* plain list of its transactions, whatever was connected and disconnected.
AddrLevelsInvariant ==
    /\ AddrLevelsTypeOK /\ FetchMatchesList /\ LevelRules
=============================================================================
