--------------------------- MODULE ServicesProofs ---------------------------
(***************************************************************************)
(* Proofs about services of the application, for any requests, nodes,      *)
(* prices, contents and bounds: the prompt that confirms storage requests, *)
(* the manager of the coin node, the file market, the payment of pieces    *)
(* and the chunk store.                                                    *)
(***************************************************************************)
EXTENDS Confirmation, NodeManager, Market, Metering, ChunkStore, SetSums, SequenceTheorems

-----------------------------------------------------------------------------
(* Confirmation *)

Active == Waiting \cup Leaving

\* The requests that have taken a "yes".
Granted == {r \in StoreRequests :
              storeAt[r] \in {"accepted", "acceptedcleared", "confirmed", "stored"}}

\* A "yes" that was typed and is not yet taken: in line, or in confirmation
\* unless the request that has just read it is still to clear it.
Typed == IF line = "yes" THEN 1 ELSE 0
Offered == IF confirmation = "yes" /\ \A r \in StoreRequests : storeAt[r] # "accepted"
           THEN 1 ELSE 0

\* Where a "yes" is or was, one was typed.
YesWasTyped == line = "yes" \/ confirmation = "yes" \/ Granted # {} => yeses > 0

\* Without overlap only one request is between its question and its answer ...
OneActive ==
    ~storesOverlapped => \A r, q \in StoreRequests :
        storeAt[r] \in Active /\ storeAt[q] \in Active => r = q

\* ... so every "yes" is taken at most once.
Balance == ~storesOverlapped => Cardinality(Granted) + Typed + Offered <= yeses

StoredGranted == \A r \in stored : storeAt[r] = "stored"

\* The inductive invariant.
ConfirmationIInv ==
    /\ ConfirmationTypeOK /\ PromptStaysOpen /\ StoredGranted
    /\ YesWasTyped /\ OneActive /\ Balance

\* No answer is neither a yes nor a no.
LEMMA NoAnswerIsNone == NoAnswer # "yes" /\ NoAnswer # "no"
BY Zenon DEF NoAnswer

\* The requests that were granted are finitely many.
LEMMA GrantedFinite == IsFiniteSet(Granted) /\ Cardinality(Granted) \in Nat
<1>1. Granted \in SUBSET StoreRequests /\ IsFiniteSet(StoreRequests)
  BY ConfirmationAssumption DEF Granted
<1> QED
  BY <1>1, FS_Subset, FS_CardinalityType

\* The invariant says what the run checks.
LEMMA ConfirmationIInvImplies == ConfirmationIInv => ConfirmationInvariant
<1> SUFFICES ASSUME ConfirmationIInv PROVE OneYesOneFile
  BY DEF ConfirmationIInv, ConfirmationInvariant
<1>1. stored \in SUBSET Granted
  BY DEF ConfirmationIInv, ConfirmationTypeOK, StoredGranted, Granted
<1>2. Cardinality(stored) <= Cardinality(Granted) /\ Cardinality(stored) \in Nat
  BY <1>1, GrantedFinite, FS_Subset, FS_CardinalityType
<1>3. yeses \in Nat
  BY ConfirmationAssumption DEF ConfirmationIInv, ConfirmationTypeOK
<1>4. ASSUME ~storesOverlapped PROVE Cardinality(stored) <= yeses
  <2>1. Cardinality(Granted) + Typed + Offered <= yeses
    BY <1>4 DEF ConfirmationIInv, Balance
  <2> QED
    BY <1>2, <1>3, <2>1, GrantedFinite DEF Typed, Offered
<1>5. stored # {} => yeses > 0
  BY <1>1 DEF ConfirmationIInv, YesWasTyped
<1> QED
  BY <1>4, <1>5 DEF OneYesOneFile

\* At start nobody waits and nothing was typed.
LEMMA ConfirmationInitIInv == ConfirmationInit => ConfirmationIInv
<1> SUFFICES ASSUME ConfirmationInit PROVE ConfirmationIInv
  OBVIOUS
<1>1. ConfirmationTypeOK
  <2>1. lines \in 0..MaxLines /\ yeses \in 0..lines
    BY ConfirmationAssumption DEF ConfirmationInit
  <2>2. storeAt \in [StoreRequests -> {"new"} \cup Waiting \cup Leaving \cup Over]
    BY DEF ConfirmationInit
  <2> QED
    BY <2>1, <2>2 DEF ConfirmationInit, ConfirmationTypeOK
<1>2. Granted = {}
  BY DEF Granted, ConfirmationInit
<1>3. Cardinality(Granted) = 0 /\ Typed = 0 /\ Offered = 0 /\ yeses = 0
  BY <1>2, FS_EmptySet, NoAnswerIsNone DEF ConfirmationInit, Typed, Offered
<1>4. Balance
  BY <1>3 DEF Balance
<1> QED
  BY <1>1, <1>2, <1>4, NoAnswerIsNone
     DEF ConfirmationInit, ConfirmationIInv, PromptStaysOpen, StoredGranted,
         YesWasTyped, OneActive, Waiting, Leaving, Active

\* A step after which the "yes"s that were taken are not more, and neither are
\* the ones that may be, keeps the account.
LEMMA BalanceKept ==
    ASSUME ConfirmationIInv, Granted' \subseteq Granted, yeses' = yeses,
           storesOverlapped' = storesOverlapped, Typed' + Offered' <= Typed + Offered
    PROVE  Balance'
<1>1. Cardinality(Granted') <= Cardinality(Granted) /\ Cardinality(Granted') \in Nat
  BY GrantedFinite, FS_Subset, FS_CardinalityType
<1>2. {Typed, Offered, Typed', Offered'} \subseteq Nat
  BY DEF Typed, Offered
<1>3. yeses \in Nat
  BY ConfirmationAssumption DEF ConfirmationIInv, ConfirmationTypeOK
<1> QED
  BY <1>1, <1>2, <1>3, GrantedFinite DEF ConfirmationIInv, Balance

\* The invariant is inductive: one case for each action.
LEMMA ConfirmationNextIInv ==
    ConfirmationIInv /\ [ConfirmationNext]_confirmationVars => ConfirmationIInv'
<1> SUFFICES ASSUME ConfirmationIInv, [ConfirmationNext]_confirmationVars PROVE ConfirmationIInv'
  OBVIOUS
<1> USE NoAnswerIsNone DEF Waiting, Leaving, Over, Active, Answers
<1>t. /\ ConfirmationTypeOK /\ PromptStaysOpen /\ StoredGranted /\ YesWasTyped /\ OneActive
      /\ Balance /\ storeAt \in [StoreRequests -> {"new"} \cup Waiting \cup Leaving \cup Over]
  BY DEF ConfirmationIInv, ConfirmationTypeOK
<1>n. yeses \in Nat /\ lines \in Nat /\ MaxLines \in Nat
  <2>1. lines \in 0..MaxLines /\ yeses \in 0..lines
    BY <1>t DEF ConfirmationTypeOK
  <2> QED
    BY <2>1, ConfirmationAssumption
<1>k. ASSUME Granted' \subseteq Granted, Typed' = Typed, Offered' = Offered,
             yeses' = yeses, storesOverlapped' = storesOverlapped
      PROVE  Balance'
  <2>1. Typed' + Offered' <= Typed + Offered
    BY <1>k DEF Typed, Offered
  <2> QED
    BY <1>k, <2>1, BalanceKept
<1>1. ASSUME NEW r \in StoreRequests, BadRequest(r) PROVE ConfirmationIInv'
  <2> USE <1>1 DEF BadRequest, StoreGoto
  <2>1. ConfirmationTypeOK' /\ PromptStaysOpen' /\ StoredGranted' /\ OneActive'
    BY <1>t DEF ConfirmationTypeOK, PromptStaysOpen, StoredGranted, OneActive
  <2>2. Granted' = Granted /\ Typed' = Typed /\ Offered' = Offered
    BY <1>t DEF Granted, Typed, Offered
  <2>3. Balance'
    BY <1>k, <2>2
  <2> QED
    BY <1>t, <2>1, <2>2, <2>3 DEF ConfirmationIInv, YesWasTyped
<1>2. ASSUME NEW r \in StoreRequests, Ask(r) PROVE ConfirmationIInv'
  <2> USE <1>2 DEF Ask, StoreGoto
  <2>1. ConfirmationTypeOK' /\ PromptStaysOpen' /\ StoredGranted'
    BY <1>t DEF ConfirmationTypeOK, PromptStaysOpen, StoredGranted
  <2>2. Granted' = Granted /\ Typed' = Typed /\ Offered' = Offered
    BY <1>t DEF Granted, Typed, Offered
  <2>3. storesOverlapped' = FALSE => /\ storesOverlapped = FALSE
                                     /\ \A q \in StoreRequests : storeAt[q] \notin Active
    BY <1>t DEF ConfirmationTypeOK
  <2>4. OneActive'
    BY <1>t, <2>3 DEF OneActive
  <2>5. Balance'
    BY <1>t, <2>2, <2>3 DEF Balance
  <2> QED
    BY <1>t, <2>1, <2>2, <2>4, <2>5 DEF ConfirmationIInv, YesWasTyped
<1>3. ASSUME NEW r \in StoreRequests, ReadFirst(r) PROVE ConfirmationIInv'
  <2> USE <1>3 DEF ReadFirst, StoreGoto
  <2>1. ConfirmationTypeOK' /\ PromptStaysOpen' /\ StoredGranted' /\ OneActive'
    BY <1>t DEF ConfirmationTypeOK, PromptStaysOpen, StoredGranted, OneActive
  <2>2. CASE confirmation # "yes"
    <3>1. Granted' = Granted /\ Typed' = Typed /\ Offered' = Offered
      BY <1>t, <2>2 DEF Granted, Typed, Offered
    <3>2. Balance'
      BY <1>k, <3>1
    <3> QED
      BY <1>t, <2>1, <3>1, <3>2 DEF ConfirmationIInv, YesWasTyped
  <2>3. CASE confirmation = "yes"
    <3>1. Granted' = Granted \cup {r} /\ r \notin Granted /\ Typed' = Typed
      BY <1>t, <2>3 DEF Granted, Typed
    <3>2. Offered' = 0
      BY <1>t, <2>3 DEF Offered
    <3>3. ~storesOverlapped => Offered = 1
      BY <1>t, <2>3 DEF Offered, OneActive
    <3>4. Cardinality(Granted') = Cardinality(Granted) + 1
      BY <3>1, GrantedFinite, FS_AddElement
    <3>5. Balance'
      BY <1>t, <1>n, <3>1, <3>2, <3>3, <3>4, GrantedFinite DEF Balance, Typed
    <3>6. YesWasTyped'
      BY <1>t, <2>3 DEF YesWasTyped
    <3> QED
      BY <2>1, <3>5, <3>6 DEF ConfirmationIInv
  <2> QED
    BY <2>2, <2>3
<1>4. ASSUME NEW r \in StoreRequests, ReadAgain(r) PROVE ConfirmationIInv'
  <2> USE <1>4 DEF ReadAgain, StoreGoto
  <2>1. ConfirmationTypeOK' /\ PromptStaysOpen' /\ StoredGranted' /\ OneActive'
    BY <1>t DEF ConfirmationTypeOK, PromptStaysOpen, StoredGranted, OneActive
  <2>2. Granted' = Granted /\ Typed' = Typed /\ Offered' = Offered
    BY <1>t DEF Granted, Typed, Offered
  <2>3. Balance'
    BY <1>k, <2>2
  <2> QED
    BY <1>t, <2>1, <2>2, <2>3 DEF ConfirmationIInv, YesWasTyped
<1>5. ASSUME NEW r \in StoreRequests, ClearConfirmation(r) PROVE ConfirmationIInv'
  <2> USE DEF ClearConfirmation, Write
  <2>1. PICK torn \in SUBSET {q \in StoreRequests : storeAt[q] \in Waiting} :
          storeAt' = [q \in StoreRequests |->
                        IF q \in torn THEN "died"
                        ELSE [storeAt EXCEPT ![r] = IF @ = "accepted" THEN "acceptedcleared"
                                                    ELSE "declinedcleared"][q]]
    BY <1>5
  <2>2. /\ \A q \in StoreRequests \ {r} :
              storeAt'[q] = storeAt[q] \/ (storeAt'[q] = "died" /\ storeAt[q] \in Waiting)
        /\ storeAt'[r] = IF storeAt[r] = "accepted" THEN "acceptedcleared" ELSE "declinedcleared"
        /\ storeAt[r] \in {"accepted", "declined"}
        /\ storeAt' \in [StoreRequests -> {"new"} \cup Waiting \cup Leaving \cup Over]
    <3>1. storeAt[r] \in {"accepted", "declined"} /\ r \notin torn
      BY <1>5
    <3>2. storeAt'[r] = IF storeAt[r] = "accepted" THEN "acceptedcleared" ELSE "declinedcleared"
      BY <1>t, <2>1, <3>1
    <3>3. \A q \in StoreRequests \ {r} : storeAt'[q] = IF q \in torn THEN "died" ELSE storeAt[q]
      BY <1>t, <2>1
    <3>5. \A q \in StoreRequests : storeAt'[q] \in {"new"} \cup Waiting \cup Leaving \cup Over
      BY <1>t, <3>2, <3>3
    <3>6. storeAt' \in [StoreRequests -> {"new"} \cup Waiting \cup Leaving \cup Over]
      BY <2>1, <3>5
    <3> QED
      BY <3>1, <3>2, <3>3, <3>6
  <2>3. /\ confirmation' = NoAnswer /\ confirming' = confirming /\ line' = line /\ stored' = stored
        /\ lines' = lines /\ yeses' = yeses /\ storesOverlapped' = storesOverlapped
    BY <1>5
  <2>4. ConfirmationTypeOK'
    BY <1>t, <2>2, <2>3 DEF ConfirmationTypeOK
  <2>5. PromptStaysOpen' /\ StoredGranted' /\ OneActive'
    BY <1>t, <2>2, <2>3 DEF PromptStaysOpen, StoredGranted, OneActive, ConfirmationTypeOK
  <2>6. Granted' = Granted
    BY <2>2 DEF Granted
  <2>7. Typed' = Typed /\ Offered' = 0
    BY <2>3 DEF Typed, Offered
  <2>8. Balance'
    <3>1. Typed' + Offered' <= Typed + Offered
      BY <2>7 DEF Typed, Offered
    <3> QED
      BY <2>3, <2>6, <3>1, BalanceKept
  <2> QED
    BY <1>t, <2>3, <2>4, <2>5, <2>6, <2>8 DEF ConfirmationIInv, YesWasTyped
<1>6. ASSUME NEW r \in StoreRequests, ClearConfirming(r) PROVE ConfirmationIInv'
  <2> USE <1>6 DEF ClearConfirming, StoreGoto
  <2>1. ConfirmationTypeOK' /\ StoredGranted' /\ OneActive'
    BY <1>t DEF ConfirmationTypeOK, StoredGranted, OneActive
  <2>2. PromptStaysOpen'
    BY <1>t DEF PromptStaysOpen, OneActive
  <2>3. Granted' = Granted /\ Typed' = Typed /\ Offered' = Offered
    BY <1>t DEF Granted, Typed, Offered
  <2>4. Balance'
    BY <1>k, <2>3
  <2> QED
    BY <1>t, <2>1, <2>2, <2>3, <2>4 DEF ConfirmationIInv, YesWasTyped
<1>7. ASSUME NEW r \in StoreRequests, PutFile(r) PROVE ConfirmationIInv'
  <2> USE <1>7 DEF PutFile, StoreGoto
  <2>1. ConfirmationTypeOK' /\ PromptStaysOpen' /\ OneActive'
    BY <1>t DEF ConfirmationTypeOK, PromptStaysOpen, OneActive
  <2>2. StoredGranted'
    BY <1>t DEF StoredGranted, ConfirmationTypeOK
  <2>3. Granted' \subseteq Granted /\ Typed' = Typed /\ Offered' = Offered
    BY <1>t DEF Granted, Typed, Offered
  <2>4. Balance'
    BY <1>k, <2>3
  <2> QED
    BY <1>t, <2>1, <2>2, <2>3, <2>4 DEF ConfirmationIInv, YesWasTyped
<1>8. ASSUME NEW answer \in Answers, TypeLine(answer) PROVE ConfirmationIInv'
  <2>1. /\ line = NoAnswer /\ lines < MaxLines /\ line' = answer /\ lines' = lines + 1
        /\ yeses' = yeses + (IF answer = "yes" THEN 1 ELSE 0)
        /\ confirming' = confirming /\ confirmation' = confirmation /\ storeAt' = storeAt
        /\ stored' = stored /\ storesOverlapped' = storesOverlapped
    BY <1>8 DEF TypeLine
  <2>2. yeses' = yeses + Typed' /\ Typed = 0 /\ Typed' \in Nat
    BY <2>1 DEF Typed
  <2>3. Granted' = Granted /\ Offered' = Offered /\ Offered \in Nat
    BY <2>1 DEF Granted, Offered
  <2>4. ConfirmationTypeOK'
    <3>1. yeses <= lines
      BY <1>t, <1>n DEF ConfirmationTypeOK
    <3>2. yeses' = yeses \/ yeses' = yeses + 1
      BY <1>n, <2>1
    <3>3. lines' \in 0..MaxLines /\ yeses' \in 0..lines'
      BY <1>n, <2>1, <3>1, <3>2
    <3> QED
      BY <1>t, <2>1, <3>3 DEF ConfirmationTypeOK
  <2>5. PromptStaysOpen' /\ StoredGranted' /\ OneActive'
    BY <1>t, <2>1 DEF PromptStaysOpen, StoredGranted, OneActive
  <2>6. Balance'
    <3>1. ~storesOverlapped => Cardinality(Granted) + Typed + Offered <= yeses
      BY <1>t DEF Balance
    <3>2. ~storesOverlapped => Cardinality(Granted) + Typed' + Offered <= yeses'
      BY <1>n, <2>2, <2>3, <3>1, GrantedFinite
    <3> QED
      BY <2>1, <2>3, <3>2 DEF Balance
  <2>7. YesWasTyped'
    <3>1. yeses > 0 => yeses' > 0
      BY <1>n, <2>1
    <3>2. answer = "yes" => yeses' > 0
      BY <1>n, <2>1
    <3> QED
      BY <1>t, <2>1, <2>3, <3>1, <3>2 DEF YesWasTyped
  <2> QED
    BY <2>4, <2>5, <2>6, <2>7 DEF ConfirmationIInv
<1>9. CASE WriteAnswer
  <2> USE DEF WriteAnswer, Write
  <2>1. PICK torn \in SUBSET {q \in StoreRequests : storeAt[q] \in Waiting} :
          storeAt' = [q \in StoreRequests |-> IF q \in torn THEN "died" ELSE storeAt[q]]
    BY <1>9
  <2>2. /\ \A q \in StoreRequests :
              storeAt'[q] = storeAt[q] \/ (storeAt'[q] = "died" /\ storeAt[q] \in Waiting)
        /\ storeAt' \in [StoreRequests -> {"new"} \cup Waiting \cup Leaving \cup Over]
    <3>1. \A q \in StoreRequests : storeAt'[q] = IF q \in torn THEN "died" ELSE storeAt[q]
      BY <2>1
    <3>2. \A q \in StoreRequests : storeAt'[q] \in {"new"} \cup Waiting \cup Leaving \cup Over
      BY <1>t, <3>1
    <3>3. storeAt' \in [StoreRequests -> {"new"} \cup Waiting \cup Leaving \cup Over]
      BY <2>1, <3>2
    <3> QED
      BY <3>1, <3>3
  <2>3. /\ confirmation' = line /\ confirming' = confirming /\ line' = NoAnswer /\ stored' = stored
        /\ lines' = lines /\ yeses' = yeses /\ storesOverlapped' = storesOverlapped
    BY <1>9
  <2>4. ConfirmationTypeOK'
    BY <1>t, <2>2, <2>3 DEF ConfirmationTypeOK
  <2>5. PromptStaysOpen' /\ StoredGranted' /\ OneActive'
    BY <1>t, <2>2, <2>3 DEF PromptStaysOpen, StoredGranted, OneActive, ConfirmationTypeOK
  <2>6. Granted' = Granted
    BY <2>2 DEF Granted
  <2>7. Typed' = 0 /\ Offered' <= Typed
    <3>1. Typed' = 0
      BY <2>3 DEF Typed
    <3>2. CASE line = "yes"
      BY <3>1, <3>2 DEF Typed, Offered
    <3>3. CASE line # "yes"
      <4>1. Typed = 0
        BY <3>3 DEF Typed
      <4>2. Offered' = 0
        BY <2>3, <3>3 DEF Offered
      <4> QED
        BY <3>1, <4>1, <4>2
    <3> QED
      BY <3>2, <3>3
  <2>8. Balance'
    <3>1. Typed' + Offered' <= Typed + Offered
      BY <2>7 DEF Typed, Offered
    <3> QED
      BY <2>3, <2>6, <3>1, BalanceKept
  <2> QED
    BY <1>t, <2>3, <2>4, <2>5, <2>6, <2>8 DEF ConfirmationIInv, YesWasTyped
<1>10. CASE UNCHANGED confirmationVars
  BY <1>10, <1>t DEF confirmationVars, ConfirmationIInv, ConfirmationTypeOK, PromptStaysOpen, StoredGranted,
                     YesWasTyped, OneActive, Balance, Granted, Typed, Offered
<1> QED
  BY <1>1, <1>2, <1>3, <1>4, <1>5, <1>6, <1>7, <1>8, <1>9, <1>10 DEF ConfirmationNext

\* storeFile stores nothing without a "yes", without overlap every file has a
\* "yes" of its own, and a request that waits alone can still be answered, for
\* any number of requests and however the unlocked reads and writes interleave.
THEOREM OneYesForOneFile == ConfirmationSpec => []ConfirmationInvariant
BY ConfirmationInitIInv, ConfirmationNextIInv, ConfirmationIInvImplies, PTL DEF ConfirmationSpec

-----------------------------------------------------------------------------
(* NodeManager *)

\* The requests that may still make a command.
Unassigned == {r \in Requests : at[r] \in {"new", "stop", "sleep", "awake"}}

\* There is a number for the command of each of them.
RoomForCommands == made + Cardinality(Unassigned) <= Cardinality(Requests) + 1

\* Past Stop, cmdProcess is set for good.
Assigned == \A r \in Requests : at[r] \in {"sleep", "awake", "pipes", "launch"} => cmdProcess # Nil

OneRunning == ~overlapped => \A r, q \in Requests : at[r] \notin Idle /\ at[q] \notin Idle => r = q

\* Without overlap every node but the one of cmdProcess was told to end, ...
OthersStop ==
    ~overlapped => \A p \in Procs : p # cmdProcess => proc[p].st \in {"none", "stopping", "dead"}

\* ... after Stop this one too, ...
AllStop ==
    ~overlapped => \A r \in Requests : at[r] \in {"sleep", "awake"} =>
        /\ \A p \in Procs : proc[p].st \in {"none", "stopping", "dead"}
        /\ Live \subseteq was[r]
        /\ \A p \in was[r] : proc[p].st # "none"
        /\ at[r] = "awake" /\ ~slow => Live = {}

\* ... and the command that is to be started has the parameters of its request.
CommandOfRequest ==
    ~overlapped => \A r \in Requests :
        at[r] \in {"pipes", "launch"} => proc[cmdProcess].params = params[r]

\* The inductive invariant.
NodeManagerIInv ==
    /\ NodeManagerInvariant /\ RoomForCommands /\ Assigned /\ OneRunning
    /\ OthersStop /\ AllStop /\ CommandOfRequest

\* There is a process number for every request and one more.
LEMMA ProcNumbers ==
    /\ Cardinality(Requests) \in Nat
    /\ Cardinality(Procs) = Cardinality(Requests) + 1
    /\ Procs = {p \in Nat : 1 <= p /\ p <= Cardinality(Procs)}
<1>1. Cardinality(Requests) \in Nat
  BY NodeManagerAssumption, FS_CardinalityType
<1>2. Cardinality(1..(Cardinality(Requests) + 1)) = Cardinality(Requests) + 1
  BY <1>1, FS_Interval
<1> QED
  BY <1>1, <1>2 DEF Procs

\* The requests that have not yet made a command are finitely many.
LEMMA UnassignedFinite == IsFiniteSet(Unassigned) /\ Cardinality(Unassigned) \in Nat
<1>1. Unassigned \in SUBSET Requests
  BY DEF Unassigned
<1> QED
  BY <1>1, NodeManagerAssumption, FS_Subset, FS_CardinalityType

\* The absent process has the type of one.
LEMMA NoProcTypes == Plain \in Params /\ NoProc \in Proc
BY DEF Plain, Params, NoProc, Proc

\* At start there is no command, or the one that the program itself made.
LEMMA NodeManagerInitIInv == NodeManagerInit => NodeManagerIInv
<1> SUFFICES ASSUME NodeManagerInit PROVE NodeManagerIInv
  OBVIOUS
<1>1. /\ at = [r \in Requests |-> "new"] /\ params = [r \in Requests |-> Plain]
      /\ was = [r \in Requests |-> {}] /\ last = FALSE /\ overlapped = FALSE /\ slow = FALSE
  BY DEF NodeManagerInit
<1>2. /\ made \in {0, 1} /\ cmdProcess = made
      /\ proc \in [Procs -> Proc]
      /\ \A p \in Procs : p > made => proc[p] = NoProc
      /\ \A p \in Procs : p # cmdProcess => proc[p] = NoProc
      /\ \A p \in Procs : proc[p].params = Plain
  <2>1. CASE made = 0 /\ cmdProcess = Nil /\ proc = [p \in Procs |-> NoProc]
    BY <2>1, NoProcTypes DEF Nil, NoProc
  <2>2. ASSUME NEW st \in {"none", "starting"}, made = 1, cmdProcess = 1,
               proc = [p \in Procs |-> IF p = 1 THEN [st |-> st, piped |-> TRUE, params |-> Plain]
                                       ELSE NoProc]
        PROVE  /\ proc \in [Procs -> Proc]
               /\ \A p \in Procs : p # 1 => proc[p] = NoProc
               /\ \A p \in Procs : proc[p].params = Plain
    <3>1. [st |-> st, piped |-> TRUE, params |-> Plain] \in Proc
      BY NoProcTypes DEF Proc
    <3>2. proc \in [Procs -> Proc]
      BY <2>2, <3>1, NoProcTypes
    <3>3. \A p \in Procs : p # 1 => proc[p] = NoProc
      BY <2>2
    <3>4. \A p \in Procs : proc[p].params = Plain
      BY <2>2 DEF NoProc
    <3> QED
      BY <3>2, <3>3, <3>4
  <2> QED
    BY <2>1, <2>2, ProcNumbers DEF NodeManagerInit
<1>3. NodeManagerTypeOK
  <2>1. made \in 0..Cardinality(Procs) /\ cmdProcess \in 0..made
    BY <1>2, ProcNumbers
  <2>2. at \in [Requests -> Idle \cup {"stop", "sleep", "awake", "pipes", "launch"}]
    BY <1>1 DEF Idle
  <2>3. params \in [Requests -> Params] /\ was \in [Requests -> SUBSET Procs]
    BY <1>1, NoProcTypes
  <2> QED
    BY <1>1, <1>2, <2>1, <2>2, <2>3 DEF NodeManagerTypeOK
<1>4. Managed
  BY <1>2 DEF Managed, Live, NoProc
<1>5. ModeFollows
  <2>1. Plain.mining = FALSE
    BY DEF Plain
  <2> QED
    BY <1>1, <1>2, <2>1 DEF ModeFollows, Live
<1>6. RoomForCommands
  <2>1. Unassigned = Requests
    BY <1>1 DEF Unassigned
  <2> QED
    BY <1>2, <2>1, ProcNumbers DEF RoomForCommands
<1>7. StopEnds /\ Assigned /\ OneRunning /\ AllStop /\ CommandOfRequest
  BY <1>1 DEF StopEnds, Assigned, OneRunning, AllStop, CommandOfRequest, Idle
<1>8. OthersStop
  BY <1>2 DEF OthersStop, NoProc
<1> QED
  BY <1>3, <1>4, <1>5, <1>6, <1>7, <1>8 DEF NodeManagerIInv, NodeManagerInvariant

\* As long as no command is made there is a number for each that will be.
LEMMA RoomKept ==
    ASSUME RoomForCommands, made \in Nat, made' = made, Unassigned' \subseteq Unassigned
    PROVE  RoomForCommands'
<1>1. Cardinality(Unassigned') <= Cardinality(Unassigned) /\ Cardinality(Unassigned') \in Nat
  BY UnassignedFinite, FS_Subset, FS_CardinalityType
<1> QED
  BY <1>1, UnassignedFinite, ProcNumbers DEF RoomForCommands

\* A step of one request that leaves the processes and cmdProcess alone.
LEMMA RequestStep ==
    ASSUME NodeManagerIInv, NEW r \in Requests, NEW from, NEW to, Goto(r, from, to),
           from \in {"new", "stop", "sleep", "awake", "pipes", "launch"},
           to \in {"stop", "awake", "failed"},
           to = "stop" => from = "new", to = "awake" => from = "sleep",
           UNCHANGED <<proc, made, cmdProcess, was, last>>,
           params' \in [Requests -> Params], \A q \in Requests \ {r} : params'[q] = params[q],
           overlapped' \in BOOLEAN, slow' \in BOOLEAN,
           overlapped => overlapped', slow => slow',
           ~overlapped' /\ to = "stop" => \A q \in Requests : at[q] \in Idle,
           to = "awake" => (slow' <=> slow \/ \E p \in was[r] : proc[p].st = "stopping"),
           to # "awake" => slow' = slow
    PROVE  NodeManagerIInv'
<1>t. /\ NodeManagerTypeOK /\ Managed /\ ModeFollows /\ StopEnds /\ RoomForCommands /\ Assigned
      /\ OneRunning /\ OthersStop /\ AllStop /\ CommandOfRequest
  BY DEF NodeManagerIInv, NodeManagerInvariant
<1>1. /\ at[r] = from /\ at' \in [Requests -> Idle \cup {"stop", "sleep", "awake", "pipes", "launch"}]
      /\ at'[r] = to /\ \A q \in Requests \ {r} : at'[q] = at[q]
      /\ proc' = proc /\ made' = made /\ cmdProcess' = cmdProcess /\ was' = was /\ last' = last
      /\ Live' = Live
  BY <1>t DEF Goto, NodeManagerTypeOK, Idle, Live
<1>2. NodeManagerTypeOK'
  BY <1>t, <1>1 DEF NodeManagerTypeOK
<1>3. Managed' /\ ModeFollows' /\ OthersStop'
  BY <1>t, <1>1 DEF Managed, ModeFollows, OthersStop
<1>4. RoomForCommands'
  <2>1. Unassigned' \subseteq Unassigned
    BY <1>1 DEF Unassigned
  <2>2. made \in Nat
    BY <1>t, ProcNumbers DEF NodeManagerTypeOK
  <2> QED
    BY <1>t, <1>1, <2>1, <2>2, RoomKept
<1>5. Assigned'
  BY <1>t, <1>1 DEF Assigned
<1>6. OneRunning'
  BY <1>t, <1>1 DEF OneRunning, Idle
<1>7. AllStop'
  <2> SUFFICES ASSUME ~overlapped', NEW q \in Requests, at'[q] \in {"sleep", "awake"}
               PROVE  /\ \A p \in Procs : proc'[p].st \in {"none", "stopping", "dead"}
                      /\ Live' \subseteq was'[q]
                      /\ \A p \in was'[q] : proc'[p].st # "none"
                      /\ at'[q] = "awake" /\ ~slow' => Live' = {}
    BY DEF AllStop
  <2>1. at[q] \in {"sleep", "awake"} /\ ~overlapped
    BY <1>1
  <2>2. /\ \A p \in Procs : proc[p].st \in {"none", "stopping", "dead"}
        /\ Live \subseteq was[q]
        /\ \A p \in was[q] : proc[p].st # "none"
        /\ at[q] = "awake" /\ ~slow => Live = {}
    BY <1>t, <2>1 DEF AllStop
  <2>3. ASSUME at'[q] = "awake", ~slow' PROVE Live' = {}
    <3>1. CASE q = r
      BY <1>1, <2>2, <2>3, <3>1 DEF Live
    <3>2. CASE q # r
      BY <1>1, <2>2, <2>3, <3>2
    <3> QED
      BY <3>1, <3>2
  <2> QED
    BY <1>1, <2>2, <2>3
<1>8. StopEnds'
  <2>1. was' \in [Requests -> SUBSET Procs]
    BY <1>2 DEF NodeManagerTypeOK
  <2> QED
    BY <1>7, <2>1 DEF StopEnds, AllStop
<1>9. CommandOfRequest'
  BY <1>t, <1>1 DEF CommandOfRequest
<1> QED
  BY <1>2, <1>3, <1>4, <1>5, <1>6, <1>7, <1>8, <1>9 DEF NodeManagerIInv, NodeManagerInvariant

\* Stop reaches the only node that was not told to end.
LEMMA StopStep ==
    ASSUME NodeManagerIInv, NEW r \in Requests, Stop(r)
    PROVE  NodeManagerIInv'
<1>t. /\ NodeManagerTypeOK /\ Managed /\ ModeFollows /\ StopEnds /\ RoomForCommands /\ Assigned
      /\ OneRunning /\ OthersStop /\ AllStop /\ CommandOfRequest
  BY DEF NodeManagerIInv, NodeManagerInvariant
<1> DEFINE x == IF proc[cmdProcess].st = "dead" THEN "dead" ELSE "stopping"
<1>1. /\ at[r] = "stop" /\ at' \in [Requests -> Idle \cup {"stop", "sleep", "awake", "pipes", "launch"}]
      /\ at'[r] = "sleep" /\ \A q \in Requests \ {r} : at'[q] = at[q]
      /\ cmdProcess # Nil /\ proc[cmdProcess].st # "none"
      /\ proc' = [proc EXCEPT ![cmdProcess].st = x]
      /\ made' = made /\ cmdProcess' = cmdProcess /\ was' = [was EXCEPT ![r] = Live] /\ last' = last
      /\ params' = params /\ overlapped' = overlapped /\ slow' = slow
  BY <1>t DEF Stop, Goto, Started, NodeManagerTypeOK, Idle
<1>2. cmdProcess \in Procs /\ cmdProcess <= made
  BY <1>t, <1>1, ProcNumbers DEF NodeManagerTypeOK, Nil
<1>3. /\ proc' \in [Procs -> Proc] /\ proc'[cmdProcess].st = x
      /\ proc'[cmdProcess].params = proc[cmdProcess].params
      /\ \A q \in Procs \ {cmdProcess} : proc'[q] = proc[q]
  <2>1. x \in {"starting", "running", "stopping", "dead"}
    OBVIOUS
  <2> HIDE DEF x
  <2> QED
    BY <1>t, <1>1, <1>2, <2>1 DEF NodeManagerTypeOK, Proc
<1>4. Live' \subseteq Live /\ Live \subseteq Procs
  BY <1>1, <1>2, <1>3, <1>t DEF Live, NodeManagerTypeOK, Proc
<1>5. NodeManagerTypeOK'
  <2>1. was' \in [Requests -> SUBSET Procs]
    BY <1>t, <1>1, <1>4 DEF NodeManagerTypeOK
  <2>2. \A p \in Procs : p > made => proc'[p] = NoProc
    BY <1>t, <1>2, <1>3, ProcNumbers DEF NodeManagerTypeOK
  <2> QED
    BY <1>t, <1>1, <1>3, <2>1, <2>2 DEF NodeManagerTypeOK
<1>6. Managed' /\ ModeFollows' /\ OthersStop'
  BY <1>t, <1>1, <1>2, <1>3, <1>4 DEF Managed, ModeFollows, OthersStop
<1>7. RoomForCommands'
  <2>1. Unassigned' \subseteq Unassigned
    BY <1>1 DEF Unassigned
  <2>2. made \in Nat
    BY <1>t, ProcNumbers DEF NodeManagerTypeOK
  <2> QED
    BY <1>t, <1>1, <2>1, <2>2, RoomKept
<1>8. Assigned'
  BY <1>1 DEF Assigned
<1>9. OneRunning'
  BY <1>t, <1>1 DEF OneRunning, Idle
<1>10. AllStop'
  <2> SUFFICES ASSUME ~overlapped', NEW q \in Requests, at'[q] \in {"sleep", "awake"}
               PROVE  /\ \A p \in Procs : proc'[p].st \in {"none", "stopping", "dead"}
                      /\ Live' \subseteq was'[q]
                      /\ \A p \in was'[q] : proc'[p].st # "none"
                      /\ at'[q] = "awake" /\ ~slow' => Live' = {}
    BY DEF AllStop
  <2>1. q = r
    BY <1>t, <1>1 DEF OneRunning, Idle
  <2>2. was'[r] = Live /\ at'[q] # "awake"
    BY <1>t, <1>1, <2>1 DEF NodeManagerTypeOK
  <2>3. \A p \in Procs : proc'[p].st \in {"none", "stopping", "dead"}
    BY <1>t, <1>1, <1>3 DEF OthersStop
  <2>4. \A p \in Live : proc'[p].st # "none"
    BY <1>3 DEF Live
  <2> QED
    BY <1>4, <2>1, <2>2, <2>3, <2>4
<1>11. StopEnds'
  <2>1. was' \in [Requests -> SUBSET Procs]
    BY <1>5 DEF NodeManagerTypeOK
  <2> QED
    BY <1>10, <2>1 DEF StopEnds, AllStop
<1>12. CommandOfRequest'
  BY <1>t, <1>1, <1>3 DEF CommandOfRequest
<1> QED
  BY <1>5, <1>6, <1>7, <1>8, <1>9, <1>10, <1>11, <1>12 DEF NodeManagerIInv, NodeManagerInvariant

\* A new command takes the place of one whose node was told to end, and has
\* ended unless Stop's five seconds were too short.
LEMMA AssignStep ==
    ASSUME NodeManagerIInv, NEW r \in Requests, Assign(r)
    PROVE  NodeManagerIInv'
<1>t. /\ NodeManagerTypeOK /\ Managed /\ ModeFollows /\ StopEnds /\ RoomForCommands /\ Assigned
      /\ OneRunning /\ OthersStop /\ AllStop /\ CommandOfRequest
  BY DEF NodeManagerIInv, NodeManagerInvariant
<1>1. /\ at[r] = "awake" /\ at' \in [Requests -> Idle \cup {"stop", "sleep", "awake", "pipes", "launch"}]
      /\ at'[r] = "pipes" /\ \A q \in Requests \ {r} : at'[q] = at[q]
      /\ made' = made + 1 /\ cmdProcess' = made + 1
      /\ proc' = [proc EXCEPT ![made + 1].params = params[r]]
      /\ was' = was /\ last' = last /\ params' = params /\ overlapped' = overlapped /\ slow' = slow
  BY <1>t DEF Assign, Goto, NodeManagerTypeOK, Idle
<1>2. /\ made \in Nat /\ made + 1 \in Procs /\ made + 1 <= Cardinality(Procs)
      /\ RoomForCommands'
  <2>1. Unassigned' = Unassigned \ {r} /\ r \in Unassigned
    BY <1>1 DEF Unassigned
  <2>2. Cardinality(Unassigned') = Cardinality(Unassigned) - 1 /\ Cardinality(Unassigned') \in Nat
    BY <2>1, UnassignedFinite, FS_RemoveElement, FS_CardinalityType
  <2>3. made \in Nat
    BY <1>t, ProcNumbers DEF NodeManagerTypeOK
  <2>4. made + 1 <= Cardinality(Requests) + 1 /\ RoomForCommands'
    BY <1>t, <1>1, <2>2, <2>3, UnassignedFinite, ProcNumbers DEF RoomForCommands
  <2> QED
    BY <2>3, <2>4, ProcNumbers
<1>3. /\ proc' \in [Procs -> Proc] /\ proc[made + 1] = NoProc
      /\ proc'[made + 1].st = "none" /\ proc'[made + 1].params = params[r]
      /\ \A q \in Procs \ {made + 1} : proc'[q] = proc[q]
  <2>1. proc[made + 1] = NoProc /\ params[r] \in Params
    BY <1>t, <1>2 DEF NodeManagerTypeOK
  <2>2. proc[made + 1] \in Proc /\ proc[made + 1].st = "none"
    BY <2>1, NoProcTypes DEF NoProc
  <2>3. proc \in [Procs -> Proc]
    BY <1>t DEF NodeManagerTypeOK
  <2> QED
    BY <1>1, <1>2, <2>1, <2>2, <2>3 DEF Proc
<1>4. Live' = Live
  <2>1. \A p \in Procs : proc'[p].st = proc[p].st
    BY <1>3 DEF NoProc
  <2> QED
    BY <2>1 DEF Live
<1>5. NodeManagerTypeOK'
  <2>1. \A p \in Procs : p > made + 1 => proc'[p] = NoProc
    BY <1>t, <1>2, <1>3, ProcNumbers DEF NodeManagerTypeOK
  <2>2. made' \in 0..Cardinality(Procs) /\ cmdProcess' \in 0..made'
    BY <1>1, <1>2, ProcNumbers
  <2> QED
    BY <1>t, <1>1, <1>3, <2>1, <2>2 DEF NodeManagerTypeOK
<1>6. Managed'
  BY <1>t, <1>1, <1>4 DEF Managed, AllStop
<1>7. ModeFollows'
  BY <1>1, <1>3 DEF ModeFollows, Live
<1>8. OthersStop'
  BY <1>t, <1>1, <1>3 DEF OthersStop, AllStop
<1>9. Assigned'
  BY <1>1, <1>2 DEF Assigned, Nil
<1>10. OneRunning'
  BY <1>t, <1>1 DEF OneRunning, Idle
<1>11. ~overlapped' => \A q \in Requests : at'[q] \in {"sleep", "awake", "pipes", "launch"} => q = r
  BY <1>t, <1>1 DEF OneRunning, Idle
<1>12. AllStop' /\ StopEnds' /\ CommandOfRequest'
  BY <1>1, <1>3, <1>11 DEF AllStop, StopEnds, CommandOfRequest
<1> QED
  BY <1>2, <1>5, <1>6, <1>7, <1>8, <1>9, <1>10, <1>12 DEF NodeManagerIInv, NodeManagerInvariant

\* The command of cmdProcess gets its pipes.
LEMMA PipesStep ==
    ASSUME NodeManagerIInv, NEW r \in Requests, Goto(r, "pipes", "launch"),
           proc' = [proc EXCEPT ![cmdProcess].piped = TRUE],
           UNCHANGED <<made, cmdProcess, params, was, last, overlapped, slow>>
    PROVE  NodeManagerIInv'
<1>t. /\ NodeManagerTypeOK /\ Managed /\ ModeFollows /\ StopEnds /\ RoomForCommands /\ Assigned
      /\ OneRunning /\ OthersStop /\ AllStop /\ CommandOfRequest
  BY DEF NodeManagerIInv, NodeManagerInvariant
<1>1. /\ at[r] = "pipes" /\ at' \in [Requests -> Idle \cup {"stop", "sleep", "awake", "pipes", "launch"}]
      /\ at'[r] = "launch" /\ \A q \in Requests \ {r} : at'[q] = at[q]
  BY <1>t DEF Goto, NodeManagerTypeOK, Idle
<1>2. cmdProcess \in Procs /\ cmdProcess <= made /\ made \in Nat
  BY <1>t, <1>1, ProcNumbers DEF NodeManagerTypeOK, Nil, Assigned
<1>3. /\ proc' \in [Procs -> Proc]
      /\ \A q \in Procs : proc'[q].st = proc[q].st /\ proc'[q].params = proc[q].params
      /\ \A q \in Procs \ {cmdProcess} : proc'[q] = proc[q]
  BY <1>t, <1>2 DEF NodeManagerTypeOK, Proc
<1>4. Live' = Live
  BY <1>3 DEF Live
<1>5. NodeManagerTypeOK'
  <2>1. \A p \in Procs : p > made => proc'[p] = NoProc
    BY <1>t, <1>2, <1>3, ProcNumbers DEF NodeManagerTypeOK
  <2> QED
    BY <1>t, <1>1, <1>3, <2>1 DEF NodeManagerTypeOK
<1>6. Managed' /\ ModeFollows' /\ OthersStop'
  BY <1>t, <1>2, <1>3, <1>4 DEF Managed, ModeFollows, OthersStop
<1>7. RoomForCommands'
  <2>1. Unassigned' \subseteq Unassigned
    BY <1>1 DEF Unassigned
  <2> QED
    BY <1>t, <1>2, <2>1, RoomKept
<1>8. Assigned' /\ OneRunning'
  BY <1>t, <1>1 DEF Assigned, OneRunning, Idle
<1>9. was \in [Requests -> SUBSET Procs]
  BY <1>t DEF NodeManagerTypeOK
<1>10. AllStop' /\ StopEnds'
  BY <1>t, <1>1, <1>3, <1>4, <1>9 DEF AllStop, StopEnds
<1>11. CommandOfRequest'
  BY <1>t, <1>1, <1>2, <1>3 DEF CommandOfRequest
<1> QED
  BY <1>5, <1>6, <1>7, <1>8, <1>10, <1>11 DEF NodeManagerIInv, NodeManagerInvariant

\* The command of cmdProcess is started: the node gets the request's parameters.
LEMMA LaunchStep ==
    ASSUME NodeManagerIInv, NEW r \in Requests, Launch(r)
    PROVE  NodeManagerIInv'
<1>t. /\ NodeManagerTypeOK /\ Managed /\ ModeFollows /\ StopEnds /\ RoomForCommands /\ Assigned
      /\ OneRunning /\ OthersStop /\ AllStop /\ CommandOfRequest
  BY DEF NodeManagerIInv, NodeManagerInvariant
<1>1. /\ at[r] = "launch" /\ at' \in [Requests -> Idle \cup {"stop", "sleep", "awake", "pipes", "launch"}]
      /\ at'[r] = "answered" /\ \A q \in Requests \ {r} : at'[q] = at[q]
      /\ proc' = [proc EXCEPT ![cmdProcess].st = "starting"] /\ last' = params[r].mining
      /\ made' = made /\ cmdProcess' = cmdProcess /\ was' = was
      /\ params' = params /\ overlapped' = overlapped /\ slow' = slow
  BY <1>t DEF Launch, Goto, NodeManagerTypeOK, Idle
<1>2. cmdProcess \in Procs /\ cmdProcess <= made /\ made \in Nat
  BY <1>t, <1>1, ProcNumbers DEF NodeManagerTypeOK, Nil, Assigned
<1>3. /\ proc' \in [Procs -> Proc] /\ proc'[cmdProcess].st = "starting"
      /\ proc'[cmdProcess].params = proc[cmdProcess].params
      /\ \A q \in Procs \ {cmdProcess} : proc'[q] = proc[q]
  BY <1>t, <1>1, <1>2 DEF NodeManagerTypeOK, Proc
<1>4. Live' \subseteq Live \cup {cmdProcess}
  BY <1>3 DEF Live
<1>5. NodeManagerTypeOK'
  <2>1. \A p \in Procs : p > made => proc'[p] = NoProc
    BY <1>t, <1>2, <1>3, ProcNumbers DEF NodeManagerTypeOK
  <2>2. last' \in BOOLEAN
    BY <1>t, <1>1 DEF NodeManagerTypeOK, Params
  <2> QED
    BY <1>t, <1>1, <1>3, <2>1, <2>2 DEF NodeManagerTypeOK
<1>6. Managed' /\ OthersStop'
  BY <1>t, <1>1, <1>3, <1>4 DEF Managed, OthersStop
<1>7. ModeFollows'
  BY <1>t, <1>1, <1>3 DEF ModeFollows, CommandOfRequest
<1>8. RoomForCommands'
  <2>1. Unassigned' \subseteq Unassigned
    BY <1>1 DEF Unassigned
  <2> QED
    BY <1>t, <1>1, <1>2, <2>1, RoomKept
<1>9. Assigned' /\ OneRunning'
  BY <1>t, <1>1 DEF Assigned, OneRunning, Idle
<1>10. ~overlapped' => \A q \in Requests : at'[q] \notin {"sleep", "awake", "pipes", "launch"}
  BY <1>t, <1>1 DEF OneRunning, Idle
<1>11. AllStop' /\ StopEnds' /\ CommandOfRequest'
  BY <1>10 DEF AllStop, StopEnds, CommandOfRequest
<1> QED
  BY <1>5, <1>6, <1>7, <1>8, <1>9, <1>11 DEF NodeManagerIInv, NodeManagerInvariant

\* A node comes up or ends.
LEMMA NodeMoves ==
    ASSUME NodeManagerIInv, NEW p \in Procs, NEW from, NEW to, NodeStep(p, from, to),
           \/ from = {"starting"} /\ to = "running"
           \/ from = {"starting", "running", "stopping"} /\ to = "dead"
    PROVE  NodeManagerIInv'
<1>t. /\ NodeManagerTypeOK /\ Managed /\ ModeFollows /\ StopEnds /\ RoomForCommands /\ Assigned
      /\ OneRunning /\ OthersStop /\ AllStop /\ CommandOfRequest
  BY DEF NodeManagerIInv, NodeManagerInvariant
<1>1. /\ proc[p].st \in {"starting", "running", "stopping"} /\ proc[p].st \in from
      /\ proc' = [proc EXCEPT ![p].st = to]
      /\ made' = made /\ cmdProcess' = cmdProcess /\ at' = at /\ was' = was /\ last' = last
      /\ params' = params /\ overlapped' = overlapped /\ slow' = slow
  BY DEF NodeStep
<1>2. p <= made /\ made \in Nat
  BY <1>t, <1>1, ProcNumbers DEF NodeManagerTypeOK, NoProc
<1>3. /\ proc' \in [Procs -> Proc] /\ proc'[p].st = to /\ proc'[p].params = proc[p].params
      /\ \A q \in Procs \ {p} : proc'[q] = proc[q]
  BY <1>t, <1>1 DEF NodeManagerTypeOK, Proc
<1>4. Live' \subseteq Live
  BY <1>1, <1>3 DEF Live
<1>5. NodeManagerTypeOK'
  <2>1. \A q \in Procs : q > made => proc'[q] = NoProc
    BY <1>t, <1>2, <1>3, ProcNumbers DEF NodeManagerTypeOK
  <2> QED
    BY <1>t, <1>1, <1>3, <2>1 DEF NodeManagerTypeOK
<1>6. Managed'
  BY <1>t, <1>1, <1>4 DEF Managed
<1>7. ModeFollows'
  BY <1>t, <1>1, <1>3, <1>4 DEF ModeFollows, Live
<1>8. OthersStop'
  BY <1>t, <1>1, <1>3 DEF OthersStop
<1>9. RoomForCommands' /\ Assigned' /\ OneRunning'
  BY <1>t, <1>1 DEF RoomForCommands, Unassigned, Assigned, OneRunning
<1>10. AllStop'
  <2> SUFFICES ASSUME ~overlapped', NEW q \in Requests, at'[q] \in {"sleep", "awake"}
               PROVE  /\ \A o \in Procs : proc'[o].st \in {"none", "stopping", "dead"}
                      /\ Live' \subseteq was'[q]
                      /\ \A o \in was'[q] : proc'[o].st # "none"
                      /\ at'[q] = "awake" /\ ~slow' => Live' = {}
    BY DEF AllStop
  <2>1. /\ \A o \in Procs : proc[o].st \in {"none", "stopping", "dead"}
        /\ Live \subseteq was[q] /\ was[q] \subseteq Procs
        /\ \A o \in was[q] : proc[o].st # "none"
        /\ at[q] = "awake" /\ ~slow => Live = {}
    BY <1>t, <1>1 DEF AllStop, NodeManagerTypeOK
  <2>2. to = "dead"
    BY <1>1, <2>1
  <2>3. \A o \in Procs : proc'[o].st \in {"none", "stopping", "dead"}
    BY <1>3, <2>1, <2>2
  <2>4. \A o \in was[q] : proc'[o].st # "none"
    BY <1>3, <2>1, <2>2
  <2> QED
    BY <1>1, <1>4, <2>1, <2>3, <2>4
<1>11. StopEnds'
  <2>1. was' \in [Requests -> SUBSET Procs]
    BY <1>5 DEF NodeManagerTypeOK
  <2> QED
    BY <1>10, <2>1 DEF StopEnds, AllStop
<1>12. CommandOfRequest'
  <2>1. cmdProcess \in Procs \/ cmdProcess = Nil
    BY <1>t, ProcNumbers DEF NodeManagerTypeOK, Nil
  <2> QED
    BY <1>t, <1>1, <1>3, <2>1 DEF CommandOfRequest, Assigned
<1> QED
  BY <1>5, <1>6, <1>7, <1>8, <1>9, <1>10, <1>11, <1>12 DEF NodeManagerIInv, NodeManagerInvariant

\* The invariant is inductive: one case for each action.
LEMMA NodeManagerNextIInv ==
    NodeManagerIInv /\ [NodeManagerNext]_nodeManagerVars => NodeManagerIInv'
<1> SUFFICES ASSUME NodeManagerIInv, [NodeManagerNext]_nodeManagerVars PROVE NodeManagerIInv'
  OBVIOUS
<1>t. NodeManagerTypeOK
  BY DEF NodeManagerIInv, NodeManagerInvariant
<1>u. params \in [Requests -> Params] /\ overlapped \in BOOLEAN /\ slow \in BOOLEAN
  BY <1>t DEF NodeManagerTypeOK
<1>b. ASSUME NEW r \in Requests, NEW with \in Params, Begin(r, with) PROVE NodeManagerIInv'
  <2>1. /\ Goto(r, "new", "stop") /\ params' = [params EXCEPT ![r] = with]
        /\ overlapped' = (overlapped \/ \E q \in Requests : at[q] \notin Idle)
        /\ UNCHANGED <<proc, made, cmdProcess, was, last>> /\ slow' = slow
    BY <1>b DEF Begin
  <2>2. params' \in [Requests -> Params] /\ \A q \in Requests \ {r} : params'[q] = params[q]
    BY <1>u, <2>1
  <2>3. /\ overlapped' \in BOOLEAN /\ (overlapped => overlapped')
        /\ ~overlapped' => \A q \in Requests : at[q] \in Idle
    BY <1>u, <2>1
  <2> QED
    BY <1>u, <2>1, <2>2, <2>3, RequestStep
<1>f. ASSUME NEW r \in Requests, NEW from \in {"stop", "awake", "pipes", "launch"}, Goto(r, from, "failed"),
             UNCHANGED <<proc, made, cmdProcess, params, was, last, overlapped, slow>>
      PROVE  NodeManagerIInv'
  BY <1>f, <1>u, RequestStep
<1>1. ASSUME NEW r \in Requests, Mine(r) PROVE NodeManagerIInv'
  <2>1. \A addressed \in BOOLEAN : [mining |-> TRUE, addressed |-> addressed] \in Params
    BY DEF Params
  <2> QED
    BY <1>1, <1>b, <2>1 DEF Mine
<1>2. ASSUME NEW r \in Requests, StopMine(r) PROVE NodeManagerIInv'
  BY <1>2, <1>b, NoProcTypes DEF StopMine
<1>3. ASSUME NEW r \in Requests, StopFails(r) PROVE NodeManagerIInv'
  BY <1>3, <1>f DEF StopFails
<1>4. ASSUME NEW r \in Requests, Wake(r) PROVE NodeManagerIInv'
  <2>1. /\ Goto(r, "sleep", "awake") /\ UNCHANGED <<proc, made, cmdProcess, was, last>>
        /\ params' = params /\ overlapped' = overlapped
        /\ slow' = (slow \/ \E p \in was[r] : proc[p].st = "stopping")
    BY <1>4 DEF Wake
  <2>2. /\ slow' \in BOOLEAN /\ (slow => slow')
        /\ slow' <=> slow \/ \E p \in was[r] : proc[p].st = "stopping"
    BY <1>u, <2>1
  <2> QED
    BY <1>u, <2>1, <2>2, RequestStep
<1>5. ASSUME NEW r \in Requests, StartFails(r) PROVE NodeManagerIInv'
  BY <1>5, <1>f DEF StartFails
<1>6. ASSUME NEW r \in Requests, Pipes(r) PROVE NodeManagerIInv'
  <2>1. CASE Goto(r, "pipes", "failed") /\ UNCHANGED proc
    <3>1. UNCHANGED <<made, cmdProcess, params, was, last, overlapped, slow>>
      BY <1>6 DEF Pipes
    <3> QED
      BY <1>f, <2>1, <3>1
  <2>2. CASE Goto(r, "pipes", "launch") /\ proc' = [proc EXCEPT ![cmdProcess].piped = TRUE]
    BY <1>6, <2>2, PipesStep DEF Pipes
  <2> QED
    BY <1>6, <2>1, <2>2 DEF Pipes
<1>7. ASSUME NEW r \in Requests, LaunchFails(r) PROVE NodeManagerIInv'
  BY <1>7, <1>f DEF LaunchFails
<1>8. ASSUME NEW p \in Procs, Boot(p) \/ Exit(p) PROVE NodeManagerIInv'
  <2>1. CASE Boot(p)
    BY <2>1, NodeMoves DEF Boot
  <2>2. CASE Exit(p)
    BY <2>2, NodeMoves DEF Exit
  <2> QED
    BY <1>8, <2>1, <2>2
<1>9. CASE UNCHANGED nodeManagerVars
  BY <1>9 DEF nodeManagerVars, NodeManagerIInv, NodeManagerInvariant, NodeManagerTypeOK, Managed,
              ModeFollows, StopEnds, RoomForCommands, Unassigned, Assigned, OneRunning,
              OthersStop, AllStop, CommandOfRequest, Live
<1> QED
  BY <1>1, <1>2, <1>3, <1>4, <1>5, <1>6, <1>7, <1>8, <1>9, StopStep, AssignStep, LaunchStep
     DEF NodeManagerNext

\* Requests to /mine and /stopMine that do not overlap never lose a node: it is
\* the one the next Stop reaches, it mines as the last successful request asked,
\* and Stop tells every node to end, for any number of requests.
THEOREM NodeUnderControl == NodeManagerSpec => []NodeManagerInvariant
<1>1. NodeManagerIInv => NodeManagerInvariant
  BY DEF NodeManagerIInv
<1> QED
  BY <1>1, NodeManagerInitIInv, NodeManagerNextIInv, PTL DEF NodeManagerSpec

-----------------------------------------------------------------------------
(* Market *)

OneRecordEach(v) == \A r, s \in v.recs : r.id = s.id => r = s

\* Whatever is read, sent or kept has one record for each producer ...
ReadsSingle == \A n \in Producers : OneRecordEach(reg[n].base)
SentSingle == \A m \in wire : OneRecordEach(m.val)

\* ... and finitely many records; on its way is never an empty chain.
FiniteChains ==
    /\ \A n \in Nodes : IsFiniteSet(store[n].recs)
    /\ \A n \in Producers : IsFiniteSet(reg[n].base.recs)
    /\ \A m \in wire : IsFiniteSet(m.val.recs) /\ m.val.recs # {}
KeptIsFull == \A n \in Nodes : store[n] # Empty => store[n].recs # {}

\* The inductive invariant.
MarketIInv == MarketTypeOK /\ NoFuture /\ ReadsSingle /\ SentSingle /\ FiniteChains /\ KeptIsFull

\* Select on two values.
LEMMA SelectPair ==
    ASSUME NEW v, NEW u
    PROVE  Select(<<v, u>>) = IF Length(u) >= Length(v) /\ u.ts >= v.ts THEN 2 ELSE 1
<1> DEFINE values == <<v, u>>
<1> DEFINE b == IF Length(u) >= Length(v) /\ u.ts >= v.ts THEN 2 ELSE 1
<1> DEFINE F(f) == [i \in 1..Len(values) |->
                      IF i = 1 THEN 1
                      ELSE IF /\ Length(values[i]) >= Length(values[f[i - 1]])
                              /\ values[i].ts >= values[f[i - 1]].ts
                             THEN i ELSE f[i - 1]]
<1> DEFINE best == CHOOSE f : f = F(f)
<1> DEFINE w == [i \in 1..2 |-> IF i = 1 THEN 1 ELSE b]
<1>1. Len(values) = 2 /\ values[1] = v /\ values[2] = u
  OBVIOUS
<1>2. w = F(w)
  BY <1>1
<1>3. best = F(best)
  <2> HIDE DEF F, w
  <2> QED
    BY <1>2
<1>4. best[1] = 1
  <2> HIDE DEF best
  <2> QED
    BY <1>3, <1>1
<1>5. best[2] = b
  <2> HIDE DEF best
  <2> QED
    BY <1>3, <1>1, <1>4
<1>6. Select(values) = best[Len(values)]
  BY DEF Select
<1> QED
  BY <1>1, <1>5, <1>6

\* The length of a chain as a sum.
LEMMA LengthIsSum ==
    ASSUME NEW v, IsFiniteSet(v.recs)
    PROVE  Length(v) = SumOf([r \in v.recs |-> RecordBytes[r.price]], v.recs)
<1> DEFINE R == v.recs
<1> DEFINE f == [r \in R |-> RecordBytes[r.price]]
<1> DEFINE F(g) == [s \in SUBSET R |->
                      IF s = {} THEN 0
                      ELSE RecordBytes[(CHOOSE x \in s : TRUE).price] + g[s \ {CHOOSE x \in s : TRUE}]]
<1> DEFINE it == CHOOSE g : g = F(g)
<1>1. Length(v) = it[R]
  BY DEF Length, MapThenSumSet, MapThenFoldSet
<1>2. \A s \in SUBSET R : s # {} => f[Pick(s)] = RecordBytes[(CHOOSE x \in s : TRUE).price]
  BY PickIn DEF Pick
<1>3. \A g : Adds(g, f, SUBSET R) <=> g = F(g)
  BY <1>2 DEF Adds, Pick
<1>4. \E g : Adds(g, f, SUBSET R)
  <2> HIDE DEF f
  <2> QED
    BY AddsExists
<1>5. it = F(it)
  <2> HIDE DEF F
  <2> QED
    BY <1>3, <1>4
<1>6. Adds(it, f, SUBSET R)
  <2> HIDE DEF it, F, f
  <2> QED
    BY <1>3, <1>5
<1> HIDE DEF it, f, F
<1>7. SumOf(f, R) = it[R]
  BY <1>6, SumOfAdds
<1> QED
  BY <1>1, <1>7 DEF f

\* The length of a chain is a number, and 0 for the empty one only.
LEMMA LengthType ==
    ASSUME NEW v \in Chain, IsFiniteSet(v.recs)
    PROVE  /\ Length(v) \in Nat
           /\ v.recs # {} => Length(v) > 0
           /\ v.recs = {} => Length(v) = 0
<1> DEFINE f == [r \in v.recs |-> RecordBytes[r.price]]
<1>1. \A r \in v.recs : f[r] \in Nat \ {0}
  BY MarketAssumption DEF Chain, Record
<1>2. Length(v) = SumOf(f, v.recs)
  BY LengthIsSum
<1> HIDE DEF f
<1>3. Length(v) \in Nat
  BY <1>1, <1>2, SumOfType
<1>4. v.recs # {} => Length(v) \in Nat \ {0}
  BY <1>1, <1>2, SumOfPositive
<1>5. v.recs = {} => Length(v) = 0
  BY <1>2, SumOfEmpty
<1> QED
  BY <1>3, <1>4, <1>5

\* The clock of a node is a number, skew included.
LEMMA ClockType == ASSUME MarketTypeOK PROVE \A n \in Nodes : Clock(n) \in Nat
BY MarketAssumption DEF MarketTypeOK, Clock

\* The empty chain is a chain, and one of single records.
LEMMA EmptyType == Empty \in Chain /\ Empty.recs = {} /\ Empty.ts = 0 /\ OneRecordEach(Empty)
BY DEF Empty, Chain, OneRecordEach

\* What the checks of a put say.
LEMMA AcceptsFacts ==
    ASSUME NEW n, NEW v, Accepts(n, v)
    PROVE  /\ OneRecordEach(v) /\ v.ts <= Clock(n)
           /\ \/ store[n] \in {Empty, v}
              \/ ~(Length(store[n]) >= Length(v) /\ store[n].ts >= v.ts)
<1>1. Select(<<v, store[n]>>) = IF Length(store[n]) >= Length(v) /\ store[n].ts >= v.ts THEN 2 ELSE 1
  BY SelectPair
<1> QED
  BY <1>1 DEF Accepts, Valid, OneRecordEach

\* A later chain is accepted.
LEMMA LaterAccepted ==
    ASSUME NEW n, NEW v, OneRecordEach(v), v.ts <= Clock(n), v.ts \in Nat, store[n].ts \in Nat,
           store[n].ts < v.ts
    PROVE  Accepts(n, v)
<1>1. Select(<<v, store[n]>>) = IF Length(store[n]) >= Length(v) /\ store[n].ts >= v.ts THEN 2 ELSE 1
  BY SelectPair
<1>2. ~(store[n].ts >= v.ts)
  OBVIOUS
<1>3. Select(<<v, store[n]>>) = 1
  BY <1>1, <1>2
<1> QED
  BY <1>3 DEF Accepts, Valid, OneRecordEach

\* What a read returns.
LEMMA FoundFacts ==
    ASSUME MarketIInv, NEW n \in Producers, NEW S \in SUBSET Servers, NEW v \in Found(n, S \cup {n})
    PROVE  /\ v \in Chain /\ OneRecordEach(v) /\ IsFiniteSet(v.recs)
           /\ v # Empty => v.recs # {}
<1>1. S \cup {n} \subseteq Nodes
  BY DEF Nodes
<1>2. CASE v = Empty
  BY <1>2, EmptyType, FS_EmptySet
<1>3. CASE v # Empty
  <2>1. PICK m \in S \cup {n} : v = store[m] /\ Valid(v, n)
    BY <1>3 DEF Found
  <2>2. m \in Nodes
    BY <1>1
  <2> QED
    BY <1>3, <2>1, <2>2 DEF MarketIInv, MarketTypeOK, Valid, OneRecordEach, FiniteChains, KeptIsFull
<1> QED
  BY <1>2, <1>3

\* What a registration puts together.
LEMMA NewChainFacts ==
    ASSUME MarketIInv, NEW n \in Producers
    PROVE  /\ NewChain(n) \in Chain /\ NewChain(n).ts = Clock(n)
           /\ OneRecordEach(NewChain(n)) /\ IsFiniteSet(NewChain(n).recs) /\ NewChain(n).recs # {}
<1> DEFINE old == {r \in reg[n].base.recs : r.id # n}
<1> DEFINE new == [id |-> n, price |-> reg[n].price]
<1>1. /\ reg[n].base \in Chain /\ reg[n].price \in Prices /\ OneRecordEach(reg[n].base)
      /\ IsFiniteSet(reg[n].base.recs)
  BY DEF MarketIInv, MarketTypeOK, ReadsSingle, FiniteChains
<1>2. NewChain(n) = [recs |-> old \cup {new}, ts |-> Clock(n)]
  BY DEF NewChain
<1>3. old \subseteq Record /\ new \in Record /\ Clock(n) \in Nat
  BY <1>1, ClockType DEF Chain, Record, MarketIInv, Nodes
<1>4. IsFiniteSet(old)
  BY <1>1, FS_Subset
<1>5. IsFiniteSet(old \cup {new})
  BY <1>4, FS_AddElement
<1>6. \A r, s \in old \cup {new} : r.id = s.id => r = s
  BY <1>1 DEF OneRecordEach
<1> HIDE DEF old, new
<1>7. NewChain(n) \in Chain /\ NewChain(n).ts = Clock(n) /\ NewChain(n).recs = old \cup {new}
  BY <1>2, <1>3 DEF Chain
<1> QED
  BY <1>5, <1>6, <1>7 DEF OneRecordEach

\* The invariant says what the run checks.
LEMMA MarketIInvImplies == MarketIInv => MarketInvariant
<1> SUFFICES ASSUME MarketIInv PROVE BuildsValid /\ LaterIsAccepted
  BY DEF MarketIInv, MarketInvariant
<1>t. MarketTypeOK
  BY DEF MarketIInv
<1>1. BuildsValid
  <2> SUFFICES ASSUME NEW n \in Producers PROVE Valid(NewChain(n), n)
    BY DEF BuildsValid
  <2>1. NewChain(n).ts = Clock(n) /\ OneRecordEach(NewChain(n)) /\ Clock(n) \in Nat
    BY <1>t, NewChainFacts, ClockType DEF Nodes
  <2> QED
    BY <2>1 DEF Valid, OneRecordEach
<1>2. LaterIsAccepted
  <2> SUFFICES ASSUME NEW m \in wire, store[m.to].ts < m.val.ts, m.val.ts <= Clock(m.to)
               PROVE  Accepts(m.to, m.val)
    BY DEF LaterIsAccepted
  <2>1. m.to \in Nodes /\ m.val \in Chain
    BY <1>t DEF MarketTypeOK, Message, Nodes
  <2>2. store[m.to].ts \in Nat /\ m.val.ts \in Nat /\ OneRecordEach(m.val)
    BY <1>t, <2>1 DEF MarketTypeOK, Chain, MarketIInv, SentSingle
  <2> QED
    BY <2>2, LaterAccepted
<1> QED
  BY <1>1, <1>2

\* At start every chain is empty.
LEMMA MarketInitIInv == MarketInit => MarketIInv
<1> SUFFICES ASSUME MarketInit PROVE MarketIInv
  OBVIOUS
<1>1. (CHOOSE p \in Prices : TRUE) \in Prices
  BY MarketAssumption
<1>2. /\ now = 0 /\ store = [n \in Nodes |-> Empty] /\ wire = {} /\ regs = 0
      /\ offer = [n \in Producers |-> {}] /\ missed = FALSE
      /\ reg \in [Producers -> [at : {"idle"}, base : {Empty}, price : {CHOOSE p \in Prices : TRUE}]]
  BY DEF MarketInit
<1>3. reg \in [Producers -> [at : {"idle", "got", "sending"}, base : Chain, price : Prices]]
  BY <1>1, <1>2, EmptyType
<1>4. MarketTypeOK
  <2>1. now \in 0..MaxTime /\ regs \in 0..MaxRegs
    <3>1. now = 0 /\ regs = 0
      BY <1>2
    <3> QED
      BY <3>1, MarketAssumption
  <2>2. store \in [Nodes -> Chain] /\ offer \in [Producers -> SUBSET Prices]
    BY EmptyType DEF MarketInit
  <2>3. wire \subseteq Message /\ missed \in BOOLEAN
    BY DEF MarketInit
  <2> QED
    BY <1>3, <2>1, <2>2, <2>3 DEF MarketTypeOK
<1>5. NoFuture
  BY <1>2, <1>4, ClockType, EmptyType DEF NoFuture
<1>6. ReadsSingle /\ SentSingle /\ FiniteChains /\ KeptIsFull
  BY <1>2, EmptyType, FS_EmptySet DEF ReadsSingle, SentSingle, FiniteChains, KeptIsFull
<1> QED
  BY <1>4, <1>5, <1>6 DEF MarketIInv

\* What may be on its way to a server, read by a producer, and kept by a node.
Sendable(m) ==
    m \in Message /\ OneRecordEach(m.val) /\ IsFiniteSet(m.val.recs) /\ m.val.recs # {}
Readable(g) ==
    /\ g \in [at : {"idle", "got", "sending"}, base : Chain, price : Prices]
    /\ OneRecordEach(g.base) /\ IsFiniteSet(g.base.recs)
Keepable(v, n) ==
    v \in Chain /\ v.ts <= Clock(n) /\ IsFiniteSet(v.recs) /\ (v # Empty => v.recs # {})

\* A step keeps the invariant when time does not go back and what it adds is
\* fit to be sent, read or kept.
LEMMA MarketStep ==
    ASSUME MarketIInv,
           now' \in 0..MaxTime, now' >= now, regs' \in 0..MaxRegs,
           offer' \in [Producers -> SUBSET Prices], missed' \in BOOLEAN,
           \A m \in wire' : m \in wire \/ Sendable(m),
           DOMAIN reg' = Producers, reg' = [n \in Producers |-> reg'[n]],
           \A n \in Producers : reg'[n] = reg[n] \/ Readable(reg'[n]),
           store' = [n \in Nodes |-> store'[n]],
           \A n \in Nodes : store'[n] = store[n] \/ Keepable(store'[n], n)
    PROVE  MarketIInv'
<1>t. MarketTypeOK /\ NoFuture
  BY DEF MarketIInv
<1>1. \A n \in Nodes : Clock(n) \in Nat /\ Clock(n)' \in Nat /\ Clock(n) <= Clock(n)'
  <2> TAKE n \in Nodes
  <2>1. now \in Nat /\ now' \in Nat /\ Skew[n] \in Nat
    BY <1>t, MarketAssumption DEF MarketTypeOK
  <2> QED
    BY <2>1 DEF Clock
<1>2. \A n \in Nodes : store'[n] \in Chain /\ store'[n].ts <= Clock(n) /\ IsFiniteSet(store'[n].recs)
                       /\ (store'[n] # Empty => store'[n].recs # {})
  BY <1>t DEF MarketIInv, MarketTypeOK, NoFuture, FiniteChains, KeptIsFull, Keepable
<1>3. \A n \in Producers : Readable(reg'[n])
  BY <1>t DEF MarketIInv, MarketTypeOK, Readable, ReadsSingle, FiniteChains
<1>4. \A m \in wire' : Sendable(m)
  BY <1>t DEF MarketIInv, MarketTypeOK, Sendable, SentSingle, FiniteChains
<1>5. NoFuture'
  <2> SUFFICES ASSUME NEW n \in Nodes PROVE store'[n].ts <= Clock(n)'
    BY DEF NoFuture
  <2>1. store'[n].ts \in Nat
    BY <1>2 DEF Chain
  <2> QED
    BY <1>1, <1>2, <2>1
<1>6. store' \in [Nodes -> Chain]
  BY <1>2
<1>7. reg' \in [Producers -> [at : {"idle", "got", "sending"}, base : Chain, price : Prices]]
  BY <1>3 DEF Readable
<1>8. MarketTypeOK'
  BY <1>4, <1>6, <1>7 DEF MarketTypeOK, Sendable
<1>9. ReadsSingle' /\ SentSingle'
  BY <1>3, <1>4 DEF ReadsSingle, SentSingle, Readable, Sendable
<1>10. FiniteChains' /\ KeptIsFull'
  BY <1>2, <1>3, <1>4 DEF FiniteChains, KeptIsFull, Readable, Sendable
<1> QED
  BY <1>5, <1>8, <1>9, <1>10 DEF MarketIInv

\* What a read sends to servers that had something else.
LEMMA CorrectionsFacts ==
    ASSUME MarketIInv, NEW n \in Producers, NEW S \in SUBSET Servers, NEW v \in Found(n, S \cup {n})
    PROVE  \A m \in Corrections(n, S, v) : Sendable(m)
<1> SUFFICES ASSUME v # Empty, NEW s \in Servers
             PROVE  Sendable([to |-> s, from |-> n, put |-> FALSE, val |-> v])
  BY DEF Corrections
<1> QED
  BY FoundFacts DEF Sendable, Message

\* The invariant is inductive: one case for each action.
LEMMA MarketNextIInv == MarketIInv /\ [MarketNext]_marketVars => MarketIInv'
<1> SUFFICES ASSUME MarketIInv, [MarketNext]_marketVars PROVE MarketIInv'
  OBVIOUS
<1>t. MarketTypeOK
  BY DEF MarketIInv
<1>u. /\ now \in 0..MaxTime /\ now >= now /\ regs \in 0..MaxRegs
      /\ offer \in [Producers -> SUBSET Prices] /\ missed \in BOOLEAN /\ missed' \in BOOLEAN
      /\ DOMAIN reg = Producers /\ reg = [n \in Producers |-> reg[n]]
      /\ store = [n \in Nodes |-> store[n]]
  <2>1. missed' = TRUE \/ missed' = missed \/ \E S \in SUBSET Servers : missed' = (missed \/ S # Servers)
    BY DEF MarketNext, RegisterGet, RegisterPut, RegisterPutUnsent, RegisterReturn, CheckHolders,
           Arrive, Lose, Tick, marketVars
  <2>2. missed \in BOOLEAN
    BY <1>t DEF MarketTypeOK
  <2>3. missed' \in BOOLEAN
    BY <2>1, <2>2
  <2>4. now \in 0..MaxTime /\ now >= now
    BY <1>t, MarketAssumption DEF MarketTypeOK
  <2> QED
    BY <1>t, <2>2, <2>3, <2>4 DEF MarketTypeOK
<1>r. \A n \in Producers : Readable(reg[n])
  BY <1>t DEF MarketIInv, MarketTypeOK, Readable, ReadsSingle, FiniteChains
<1>1. ASSUME NEW n \in Producers, NEW p \in Prices, RegisterGet(n, p) PROVE MarketIInv'
  <2>0. PICK S \in SUBSET Servers : \E v \in Found(n, S \cup {n}) :
          /\ reg' = [reg EXCEPT ![n] = [at |-> "got", base |-> v, price |-> p]]
          /\ wire' = wire \cup Corrections(n, S, v)
    BY <1>1 DEF RegisterGet
  <2>1. PICK v \in Found(n, S \cup {n}) :
          /\ reg' = [reg EXCEPT ![n] = [at |-> "got", base |-> v, price |-> p]]
          /\ wire' = wire \cup Corrections(n, S, v)
    BY <2>0
  <2>2. Readable([at |-> "got", base |-> v, price |-> p])
    BY FoundFacts DEF Readable
  <2>3. \A m \in wire' : m \in wire \/ Sendable(m)
    BY <2>1, CorrectionsFacts
  <2>4. /\ DOMAIN reg' = Producers /\ reg' = [q \in Producers |-> reg'[q]]
        /\ \A q \in Producers : reg'[q] = reg[q] \/ Readable(reg'[q])
    BY <1>u, <2>1, <2>2
  <2>5. regs' \in 0..MaxRegs
    <3>1. regs \in 0..MaxRegs /\ regs < MaxRegs /\ regs' = regs + 1
      BY <1>1, <1>u DEF RegisterGet
    <3> QED
      BY <3>1, MarketAssumption
  <2>6. now' = now /\ store' = store /\ offer' = offer
    BY <1>1 DEF RegisterGet
  <2> QED
    BY <1>u, <2>3, <2>4, <2>5, <2>6, MarketStep
<1>k. ASSUME NEW n \in Nodes, NEW v, Accepts(n, v), v \in Chain, IsFiniteSet(v.recs), v.recs # {},
             store' = [store EXCEPT ![n] = v]
      PROVE  /\ store' = [q \in Nodes |-> store'[q]]
             /\ \A q \in Nodes : store'[q] = store[q] \/ Keepable(store'[q], q)
  <2>1. Keepable(v, n)
    BY <1>k, AcceptsFacts DEF Keepable
  <2> QED
    BY <1>k, <1>u, <2>1
<1>g. ASSUME NEW n \in Producers, NEW a \in {"idle", "sending"}, reg' = [reg EXCEPT ![n].at = a]
      PROVE  /\ DOMAIN reg' = Producers /\ reg' = [q \in Producers |-> reg'[q]]
             /\ \A q \in Producers : reg'[q] = reg[q] \/ Readable(reg'[q])
  <2>1. reg'[n].base = reg[n].base /\ reg'[n] \in [at : {"idle", "got", "sending"}, base : Chain, price : Prices]
    BY <1>g, <1>t DEF MarketTypeOK
  <2>2. Readable(reg'[n])
    BY <1>r, <2>1 DEF Readable
  <2> QED
    BY <1>g, <1>u, <2>2
<1>2. ASSUME NEW n \in Producers, RegisterPut(n), Accepts(n, NewChain(n)) PROVE MarketIInv'
  <2> DEFINE v == NewChain(n)
  <2>1. /\ store' = [store EXCEPT ![n] = v] /\ reg' = [reg EXCEPT ![n].at = "sending"]
        /\ wire' = wire \cup {[to |-> s, from |-> n, put |-> TRUE, val |-> v] : s \in Servers}
        /\ now' = now /\ regs' = regs /\ offer' = offer
    BY <1>2 DEF RegisterPut
  <2>2. v \in Chain /\ OneRecordEach(v) /\ IsFiniteSet(v.recs) /\ v.recs # {} /\ Accepts(n, v)
    BY <1>2, NewChainFacts
  <2> HIDE DEF v
  <2>3. \A m \in wire' : m \in wire \/ Sendable(m)
    <3>1. ASSUME NEW s \in Servers
          PROVE  Sendable([to |-> s, from |-> n, put |-> TRUE, val |-> v])
      BY <2>2 DEF Sendable, Message
    <3> QED
      BY <2>1, <3>1
  <2> QED
    BY <1>u, <1>k, <1>g, <2>1, <2>2, <2>3, MarketStep DEF Nodes
<1>3. ASSUME NEW n \in Producers, RegisterPut(n), ~Accepts(n, NewChain(n)) PROVE MarketIInv'
  <2>1. /\ reg' = [reg EXCEPT ![n].at = "idle"] /\ store' = store /\ wire' = wire
        /\ now' = now /\ regs' = regs /\ offer' = offer
    BY <1>3 DEF RegisterPut
  <2> QED
    BY <1>u, <1>g, <2>1, MarketStep
<1>4. ASSUME NEW n \in Producers, RegisterPutUnsent(n) PROVE MarketIInv'
  <2> DEFINE v == NewChain(n)
  <2>1. /\ store' = [store EXCEPT ![n] = v] /\ reg' = [reg EXCEPT ![n].at = "idle"] /\ wire' = wire
        /\ now' = now /\ regs' = regs /\ offer' = offer /\ Accepts(n, v)
    BY <1>4 DEF RegisterPutUnsent
  <2>2. v \in Chain /\ IsFiniteSet(v.recs) /\ v.recs # {}
    BY NewChainFacts
  <2> HIDE DEF v
  <2> QED
    BY <1>u, <1>k, <1>g, <2>1, <2>2, MarketStep DEF Nodes
<1>5. ASSUME NEW n \in Producers, RegisterReturn(n) PROVE MarketIInv'
  <2>1. /\ reg' = [reg EXCEPT ![n].at = "idle"] /\ store' = store /\ wire' = wire
        /\ now' = now /\ regs' = regs /\ offer' = [offer EXCEPT ![n] = {reg[n].price}]
    BY <1>5 DEF RegisterReturn
  <2>2. offer' \in [Producers -> SUBSET Prices]
    BY <1>t, <2>1 DEF MarketTypeOK
  <2> QED
    BY <1>u, <1>g, <2>1, <2>2, MarketStep
<1>6. ASSUME NEW n \in Producers, CheckHolders(n) PROVE MarketIInv'
  <2>0. PICK S \in SUBSET Servers :
          \E v \in Found(n, S \cup {n}) : wire' = wire \cup Corrections(n, S, v)
    BY <1>6 DEF CheckHolders
  <2>1. PICK v \in Found(n, S \cup {n}) : wire' = wire \cup Corrections(n, S, v)
    BY <2>0
  <2>2. \A m \in wire' : m \in wire \/ Sendable(m)
    BY <2>1, CorrectionsFacts
  <2>3. now' = now /\ store' = store /\ reg' = reg /\ regs' = regs /\ offer' = offer
    BY <1>6 DEF CheckHolders
  <2> QED
    BY <1>u, <2>2, <2>3, MarketStep
<1>7. ASSUME NEW m \in wire, Arrive(m) PROVE MarketIInv'
  <2>1. /\ store' = (IF Accepts(m.to, m.val) THEN [store EXCEPT ![m.to] = m.val] ELSE store)
        /\ wire' \subseteq wire /\ now' = now /\ reg' = reg /\ regs' = regs /\ offer' = offer
    BY <1>7 DEF Arrive
  <2>2. m.to \in Nodes /\ m.val \in Chain /\ IsFiniteSet(m.val.recs) /\ m.val.recs # {}
    BY <1>t DEF MarketIInv, MarketTypeOK, FiniteChains, Message, Nodes
  <2>3. /\ store' = [q \in Nodes |-> store'[q]]
        /\ \A q \in Nodes : store'[q] = store[q] \/ Keepable(store'[q], q)
    <3>1. CASE Accepts(m.to, m.val)
      BY <1>k, <2>1, <2>2, <3>1
    <3>2. CASE ~Accepts(m.to, m.val)
      BY <1>u, <2>1, <3>2
    <3> QED
      BY <3>1, <3>2
  <2> QED
    BY <1>u, <2>1, <2>3, MarketStep
<1>8. ASSUME NEW m \in wire, Lose(m) PROVE MarketIInv'
  <2>1. wire' \subseteq wire /\ now' = now /\ store' = store /\ reg' = reg /\ regs' = regs /\ offer' = offer
    BY <1>8 DEF Lose
  <2> QED
    BY <1>u, <2>1, MarketStep
<1>9. ASSUME Tick PROVE MarketIInv'
  <2>1. /\ wire' = wire /\ store' = store /\ reg' = reg /\ regs' = regs /\ offer' = offer
        /\ now < MaxTime /\ now' = now + 1
    BY <1>9 DEF Tick
  <2>2. now' \in 0..MaxTime /\ now' >= now
    BY <1>u, <2>1, MarketAssumption
  <2> QED
    BY <1>u, <2>1, <2>2, MarketStep
<1>10. CASE UNCHANGED marketVars
  <2>1. wire' = wire /\ now' = now /\ store' = store /\ reg' = reg /\ regs' = regs /\ offer' = offer
    BY <1>10 DEF marketVars
  <2> QED
    BY <1>u, <2>1, MarketStep
<1> QED
  BY <1>1, <1>2, <1>3, <1>4, <1>5, <1>6, <1>7, <1>8, <1>9, <1>10 DEF MarketNext

\* For any number of producers, servers and prices, clocks however far apart,
\* and messages lost and reordered: no node holds a chain from its own future,
\* what a registration puts together is valid, and a server whose chain is older
\* takes it.
THEOREM LaterOffersAccepted == MarketSpec => []MarketInvariant
BY MarketInitIInv, MarketNextIInv, MarketIInvImplies, PTL DEF MarketSpec

\* A chain that replaces another is longer or later.
LEMMA MarketStepAdvances ==
    ASSUME MarketIInv, NEW n \in Nodes, NEW v \in Chain, IsFiniteSet(v.recs), v.recs # {},
           Accepts(n, v), v # store[n]
    PROVE  Length(v) > Length(store[n]) \/ v.ts > store[n].ts
<1>1. /\ store[n] \in Chain /\ IsFiniteSet(store[n].recs)
  BY DEF MarketIInv, MarketTypeOK, FiniteChains
<1>2. Length(v) \in Nat /\ Length(v) > 0 /\ Length(store[n]) \in Nat
      /\ (store[n].recs = {} => Length(store[n]) = 0)
  BY <1>1, LengthType
<1>3. v.ts \in Nat /\ store[n].ts \in Nat
  BY <1>1 DEF Chain
<1>4. CASE store[n] = Empty
  BY <1>2, <1>4, EmptyType
<1>5. CASE ~(Length(store[n]) >= Length(v) /\ store[n].ts >= v.ts)
  BY <1>2, <1>3, <1>5
<1> QED
  BY <1>4, <1>5, AcceptsFacts

\* No put, correction, delay or reordering ever makes a node give up a chain for
\* one that is neither longer nor later.
THEOREM ChainsNeverRegress == MarketSpec => NeverRegresses
<1> DEFINE Advances == \A n \in Nodes : store'[n] # store[n] =>
                         \/ Length(store'[n]) > Length(store[n])
                         \/ store'[n].ts > store[n].ts
<1>1. ASSUME MarketIInv, [MarketNext]_marketVars PROVE [Advances]_marketVars
  <2>t. /\ store = [n \in Nodes |-> store[n]]
    BY <1>1 DEF MarketIInv, MarketTypeOK
  <2>a. ASSUME NEW q \in Nodes, NEW v \in Chain, IsFiniteSet(v.recs), v.recs # {}, Accepts(q, v),
               store' = [store EXCEPT ![q] = v]
        PROVE  Advances
    <3>1. \A n \in Nodes : store'[n] # store[n] => n = q /\ store'[n] = v
      BY <2>a, <2>t
    <3> QED
      BY <1>1, <2>a, <3>1, MarketStepAdvances
  <2>1. ASSUME NEW n \in Producers, Accepts(n, NewChain(n)), store' = [store EXCEPT ![n] = NewChain(n)]
        PROVE  Advances
    <3>1. NewChain(n) \in Chain /\ IsFiniteSet(NewChain(n).recs) /\ NewChain(n).recs # {} /\ n \in Nodes
      BY <1>1, NewChainFacts DEF Nodes
    <3> QED
      BY <2>1, <2>a, <3>1
  <2>2. ASSUME NEW m \in wire, Accepts(m.to, m.val), store' = [store EXCEPT ![m.to] = m.val]
        PROVE  Advances
    <3>1. m.to \in Nodes /\ m.val \in Chain /\ IsFiniteSet(m.val.recs) /\ m.val.recs # {}
      BY <1>1 DEF MarketIInv, MarketTypeOK, FiniteChains, Message, Nodes
    <3> QED
      BY <2>2, <2>a, <3>1
  <2>3. ASSUME store' = store PROVE Advances
    BY <2>3
  <2> HIDE DEF Advances
  <2>4. ASSUME NEW n \in Producers, RegisterPut(n) \/ RegisterPutUnsent(n) PROVE Advances
    <3>1. \/ Accepts(n, NewChain(n)) /\ store' = [store EXCEPT ![n] = NewChain(n)]
          \/ store' = store
      BY <2>4 DEF RegisterPut, RegisterPutUnsent
    <3> QED
      BY <2>1, <2>3, <3>1
  <2>5. ASSUME NEW m \in wire, Arrive(m) PROVE Advances
    <3>1. \/ Accepts(m.to, m.val) /\ store' = [store EXCEPT ![m.to] = m.val]
          \/ store' = store
      BY <2>5 DEF Arrive
    <3> QED
      BY <2>2, <2>3, <3>1
  <2> QED
    BY <1>1, <2>3, <2>4, <2>5
       DEF MarketNext, RegisterGet, RegisterReturn, CheckHolders, Lose, Tick, marketVars
<1> QED
  BY <1>1, MarketInitIInv, MarketNextIInv, PTL DEF MarketSpec, NeverRegresses

-----------------------------------------------------------------------------
(* Metering *)

\* What the pieces sent to a download cost, and the model's sum of it.
Cost(d) == IF Pieces[d] <= 1 THEN 0 ELSE sent[d] - (IF download[d] = "paywait" THEN 1 ELSE 0)
Costs == [d \in Downloads |-> Cost(d)]

\* A download begins with nothing sent, and waits for an event only after a piece.
Begins ==
    \A d \in Downloads :
        /\ download[d] = "new" => sent[d] = 0
        /\ download[d] \in {"reading", "paywait"} => Pieces[d] > 1

\* The inductive invariant.
MeteringIInv == MeteringTypeOK /\ Begins /\ Cardinality(Used) = SumOf(Costs, Downloads)

\* The sum as the model writes it.
LEMMA PaidIsSum == PiecesArePaid <=> Cardinality(Used) = SumOf(Costs, Downloads)
<1> DEFINE F(g) == [s \in SUBSET Downloads |->
                      IF s = {} THEN 0
                      ELSE Cost(CHOOSE x \in s : TRUE) + g[s \ {CHOOSE x \in s : TRUE}]]
<1> DEFINE it == CHOOSE g : g = F(g)
<1>1. PiecesArePaid <=> Cardinality(Used) = it[Downloads]
  BY DEF PiecesArePaid, MapThenSumSet, MapThenFoldSet, Cost
<1>2. \A s \in SUBSET Downloads : s # {} => Costs[Pick(s)] = Cost(CHOOSE x \in s : TRUE)
  BY PickIn DEF Pick, Costs
<1>3. \A g : Adds(g, Costs, SUBSET Downloads) <=> g = F(g)
  BY <1>2 DEF Adds, Pick
<1>4. \E g : Adds(g, Costs, SUBSET Downloads)
  BY AddsExists, MeteringAssumption
<1>5. it = F(it)
  <2> HIDE DEF F
  <2> QED
    BY <1>3, <1>4
<1>6. Adds(it, Costs, SUBSET Downloads)
  <2> HIDE DEF it, F
  <2> QED
    BY <1>3, <1>5
<1> HIDE DEF it, F
<1>7. SumOf(Costs, Downloads) = it[Downloads]
  BY <1>6, SumOfAdds, MeteringAssumption
<1> QED
  BY <1>1, <1>7

\* A download's cost is a number.
LEMMA CostType == ASSUME MeteringTypeOK PROVE \A d \in Downloads : Costs[d] = Cost(d) /\ Costs[d] \in Int
BY MeteringAssumption DEF MeteringTypeOK, Costs, Cost

\* A sum of nothing but zeros.
LEMMA SumOfZeros ==
    ASSUME NEW S, IsFiniteSet(S), NEW f, \A x \in S : f[x] = 0
    PROVE  SumOf(f, S) = 0
<1> DEFINE g == [s \in SUBSET S |-> 0]
<1>1. \A s \in SUBSET S : s # {} => f[Pick(s)] = 0 /\ s \ {Pick(s)} \in SUBSET S
  BY PickIn
<1>2. \A s \in SUBSET S : g[s] = IF s = {} THEN 0 ELSE f[Pick(s)] + g[s \ {Pick(s)}]
  BY <1>1
<1>3. Adds(g, f, SUBSET S)
  BY <1>2 DEF Adds
<1>4. g[S] = 0
  OBVIOUS
<1> HIDE DEF g
<1> QED
  BY <1>3, <1>4, SumOfAdds

\* At start no piece was sent and no transaction used.
LEMMA MeteringInitIInv == MeteringInit => MeteringIInv
<1> SUFFICES ASSUME MeteringInit PROVE MeteringIInv
  OBVIOUS
<1>1. MeteringTypeOK
  BY MeteringAssumption DEF MeteringInit, MeteringTypeOK
<1>2. Begins
  BY DEF MeteringInit, Begins
<1>3. \A d \in Downloads : Costs[d] = 0
  BY DEF MeteringInit, Costs, Cost
<1>4. SumOf(Costs, Downloads) = 0
  BY <1>3, SumOfZeros, MeteringAssumption
<1>5. Used = {}
  BY DEF MeteringInit, Used
<1> QED
  BY <1>1, <1>2, <1>4, <1>5, FS_EmptySet DEF MeteringIInv

\* A step of one download that changes its cost by no more than the set of used
\* transactions keeps the balance.
LEMMA CostChange ==
    ASSUME MeteringTypeOK, MeteringTypeOK', NEW d \in Downloads,
           \A e \in Downloads \ {d} : download'[e] = download[e] /\ sent'[e] = sent[e]
    PROVE  SumOf(Costs', Downloads) = SumOf(Costs, Downloads) + (Cost(d)' - Cost(d))
<1>1. \A e \in Downloads : Costs[e] = Cost(e) /\ Costs[e] \in Int
  BY CostType
<1>2. \A e \in Downloads : Costs'[e] = Cost(e)' /\ Costs'[e] \in Int
  BY MeteringAssumption DEF MeteringTypeOK, Costs, Cost
<1>3. \A e \in Downloads \ {d} : Costs[e] = Costs'[e]
  BY DEF Costs, Cost
<1> DEFINE f == Costs
<1> DEFINE g == Costs'
<1>4. SumOf(g, Downloads) = SumOf(f, Downloads) + (g[d] - f[d])
  <2>1. \A e \in Downloads : f[e] \in Int /\ g[e] \in Int
    BY <1>1, <1>2
  <2>2. \A e \in Downloads \ {d} : f[e] = g[e]
    BY <1>3
  <2> HIDE DEF f, g
  <2> QED
    BY <2>1, <2>2, SumOfChange, MeteringAssumption
<1> QED
  BY <1>1, <1>2, <1>4

\* The invariant is inductive: one case for each action.
LEMMA MeteringNextIInv == MeteringIInv /\ [MeteringNext]_meteringVars => MeteringIInv'
<1> SUFFICES ASSUME MeteringIInv, [MeteringNext]_meteringVars PROVE MeteringIInv'
  OBVIOUS
<1>t. MeteringTypeOK /\ Begins
  BY DEF MeteringIInv
<1>s. SumOf(Costs, Downloads) \in Int
  BY <1>t, CostType, SumOfType, MeteringAssumption
<1>d. ASSUME NEW d \in Downloads, MeteringTypeOK', Begins', Used' = Used,
             \A e \in Downloads \ {d} : download'[e] = download[e] /\ sent'[e] = sent[e],
             Cost(d)' = Cost(d)
      PROVE  MeteringIInv'
  <2>1. Cost(d) \in Int
    BY <1>t, CostType
  <2>2. SumOf(Costs', Downloads) = SumOf(Costs, Downloads)
    BY <1>d, <1>t, <1>s, <2>1, CostChange
  <2> QED
    BY <1>d, <2>2 DEF MeteringIInv
<1>1. ASSUME NEW d \in Downloads, Open(d) PROVE MeteringIInv'
  <2>1. download[d] = "new" /\ sent[d] = 0 /\ Pieces[d] \in Nat /\ transaction' = transaction
    BY <1>1, <1>t, MeteringAssumption DEF Open, Begins
  <2>2. MeteringTypeOK'
    BY <1>1, <1>t, <2>1 DEF Open, MeteringTypeOK
  <2>3. Begins' /\ Used' = Used
    BY <1>1, <1>t, <2>1 DEF Open, MeteringTypeOK, Begins, Used
  <2>4. \A e \in Downloads \ {d} : download'[e] = download[e] /\ sent'[e] = sent[e]
    BY <1>1, <1>t DEF Open, MeteringTypeOK
  <2>5. Cost(d)' = Cost(d)
    BY <1>1, <1>t, <2>1 DEF Open, MeteringTypeOK, Cost
  <2> QED
    BY <1>d, <2>2, <2>3, <2>4, <2>5
<1>2. ASSUME NEW d \in Downloads, ReadPiece(d) PROVE MeteringIInv'
  <2>1. /\ download[d] = "reading" /\ Pieces[d] > 1 /\ Pieces[d] \in Nat /\ transaction' = transaction
        /\ sent[d] \in Nat /\ sent[d] <= Pieces[d]
    BY <1>2, <1>t, MeteringAssumption DEF ReadPiece, Begins, MeteringTypeOK
  <2>2. MeteringTypeOK'
    BY <1>2, <1>t, <2>1 DEF ReadPiece, MeteringTypeOK
  <2>3. Begins' /\ Used' = Used
    BY <1>2, <1>t, <2>1 DEF ReadPiece, MeteringTypeOK, Begins, Used
  <2>4. \A e \in Downloads \ {d} : download'[e] = download[e] /\ sent'[e] = sent[e]
    BY <1>2, <1>t DEF ReadPiece, MeteringTypeOK
  <2>5. Cost(d)' = Cost(d)
    BY <1>2, <1>t, <2>1 DEF ReadPiece, MeteringTypeOK, Cost
  <2> QED
    BY <1>d, <2>2, <2>3, <2>4, <2>5
<1>3. ASSUME NEW d \in Downloads, ReadError(d) PROVE MeteringIInv'
  <2>1. /\ download[d] = "reading" /\ sent' = sent /\ transaction' = transaction
        /\ download' = [download EXCEPT ![d] = "error"]
    BY <1>3 DEF ReadError
  <2>2. MeteringTypeOK'
    BY <1>t, <2>1 DEF MeteringTypeOK
  <2>3. Begins' /\ Used' = Used
    BY <1>t, <2>1 DEF MeteringTypeOK, Begins, Used
  <2>4. \A e \in Downloads \ {d} : download'[e] = download[e] /\ sent'[e] = sent[e]
    BY <1>t, <2>1 DEF MeteringTypeOK
  <2>5. Cost(d)' = Cost(d)
    BY <1>t, <2>1 DEF MeteringTypeOK, Cost
  <2> QED
    BY <1>d, <2>2, <2>3, <2>4, <2>5
<1>4. ASSUME NEW t \in Transactions, Receive(t) \/ Reject(t) PROVE MeteringIInv'
  <2>1. /\ transaction[t] = "new" /\ download' = download /\ sent' = sent
        /\ \E a \in {"signalling", "rejected"} : transaction' = [transaction EXCEPT ![t] = a]
    BY <1>4 DEF Receive, Reject
  <2>2. MeteringTypeOK' /\ Used' = Used
    BY <1>t, <2>1 DEF MeteringTypeOK, Used
  <2>3. Begins' /\ Costs' = Costs
    BY <1>t, <2>1 DEF Begins, Costs, Cost
  <2> QED
    BY <2>2, <2>3 DEF MeteringIInv
<1>5. ASSUME NEW t \in Transactions, NEW d \in Downloads, Event(t, d) PROVE MeteringIInv'
  <2>1. /\ transaction[t] = "signalling" /\ download[d] = "paywait" /\ sent' = sent
        /\ transaction' = [transaction EXCEPT ![t] = "done"]
        /\ download' = [download EXCEPT ![d] = "reading"]
    BY <1>5 DEF Event
  <2>2. MeteringTypeOK'
    BY <1>t, <2>1 DEF MeteringTypeOK
  <2>3. Begins'
    BY <1>t, <2>1 DEF MeteringTypeOK, Begins
  <2>4. Used' = Used \cup {t} /\ t \notin Used
    BY <1>t, <2>1 DEF MeteringTypeOK, Used
  <2>5. IsFiniteSet(Used)
    BY FS_Subset, MeteringAssumption DEF Used
  <2>6. Cardinality(Used') = Cardinality(Used) + 1
    BY <2>4, <2>5, FS_AddElement
  <2>7. \A e \in Downloads \ {d} : download'[e] = download[e] /\ sent'[e] = sent[e]
    BY <1>t, <2>1 DEF MeteringTypeOK
  <2>8. Cost(d)' - Cost(d) = 1
    <3>1. Pieces[d] \in Nat /\ Pieces[d] > 1 /\ sent[d] \in Nat /\ sent'[d] = sent[d] /\ download'[d] = "reading"
      BY <1>t, <2>1, MeteringAssumption DEF MeteringTypeOK, Begins
    <3>2. Cost(d)' = sent[d] /\ Cost(d) = sent[d] - 1
      BY <2>1, <3>1 DEF Cost
    <3> QED
      BY <3>1, <3>2
  <2>9. SumOf(Costs', Downloads) = SumOf(Costs, Downloads) + 1
    BY <1>t, <2>2, <2>7, <2>8, CostChange
  <2> QED
    BY <2>2, <2>3, <2>6, <2>9 DEF MeteringIInv
<1>6. CASE UNCHANGED meteringVars
  BY <1>6 DEF meteringVars, MeteringIInv, MeteringTypeOK, Begins, Used, Costs, Cost
<1> QED
  BY <1>1, <1>2, <1>3, <1>4, <1>5, <1>6 DEF MeteringNext

\* However many downloads share the channel and whichever takes an event, the
\* transactions that were used are as many as the pieces that were sent, but for
\* those still waited for.
THEOREM PaidPieceByPiece == MeteringSpec => []MeteringInvariant
<1>1. MeteringIInv => MeteringInvariant
  BY PaidIsSum DEF MeteringIInv, MeteringInvariant
<1> QED
  BY <1>1, MeteringInitIInv, MeteringNextIInv, PTL DEF MeteringSpec

-----------------------------------------------------------------------------
(* ChunkStore *)

\* f tells what the first i of the sequences h make, put together, for i in 1..n.
Flattens(f, h, n) == f = [i \in 1..n |-> IF i = 1 THEN h[i] ELSE f[i - 1] \o h[i]]

\* The recursion of FlattenSeq has a solution.
LEMMA FlattensExists ==
    ASSUME NEW h, NEW n \in Nat
    PROVE  \E f : Flattens(f, h, n)
<1> DEFINE Bad == {k \in Nat : ~ \E f : Flattens(f, h, k)}
<1>1. Bad = {}
  <2> SUFFICES ASSUME Bad # {} PROVE FALSE
    OBVIOUS
  <2>1. PICK k \in Bad : \A m \in Bad : k <= m
    <3> HIDE DEF Bad
    <3>1. Bad \in SUBSET Nat
      BY DEF Bad
    <3> QED
      BY <3>1, LeastNumber
  <2>2. k \in Nat /\ ~ \E f : Flattens(f, h, k)
    OBVIOUS
  <2>3. CASE k = 0
    <3> DEFINE f == [i \in 1..0 |-> h[1]]
    <3>1. Flattens(f, h, 0)
      BY DEF Flattens
    <3> QED
      BY <2>2, <2>3, <3>1
  <2>4. CASE k # 0
    <3>1. k - 1 \in Nat /\ k - 1 \notin Bad
      <4> HIDE DEF Bad
      <4> QED
        BY <2>1, <2>2, <2>4
    <3>2. PICK g : Flattens(g, h, k - 1)
      BY <3>1
    <3> DEFINE f == [i \in 1..k |-> IF i = 1 THEN h[i] ELSE g[i - 1] \o h[i]]
    <3>3. \A i \in 1..(k - 1) : i \in 1..k /\ f[i] = g[i]
      <4> SUFFICES ASSUME NEW i \in 1..(k - 1) PROVE i \in 1..k /\ f[i] = g[i]
        OBVIOUS
      <4>1. g[i] = IF i = 1 THEN h[i] ELSE g[i - 1] \o h[i]
        BY <3>2 DEF Flattens
      <4>2. i \in 1..k
        BY <2>2
      <4> QED
        BY <4>1, <4>2
    <3>4. \A i \in 1..k : i # 1 => i - 1 \in 1..(k - 1)
      BY <2>2
    <3>5. \A i \in 1..k : i # 1 => f[i - 1] = g[i - 1]
      <4> HIDE DEF f
      <4> QED
        BY <3>3, <3>4
    <3>6. f = [i \in 1..k |-> IF i = 1 THEN h[i] ELSE f[i - 1] \o h[i]]
      BY <3>5
    <3>7. Flattens(f, h, k)
      BY <3>6 DEF Flattens
    <3> QED
      BY <2>2, <3>7
  <2> QED
    BY <2>3, <2>4
<1> QED
  BY <1>1

SameUpTo(h, e, n) == \A i \in 1..n : h[i] = e[i]

\* Solutions for sequences that agree up to n agree up to n.
LEMMA FlattensAgree ==
    ASSUME NEW h, NEW f, NEW k \in Nat, Flattens(f, h, k),
           NEW e, NEW g, NEW m \in Nat, Flattens(g, e, m),
           NEW n \in Nat, n <= k, n <= m, SameUpTo(h, e, n)
    PROVE  SameUpTo(f, g, n)
<1> DEFINE Bad == {i \in 1..n : f[i] # g[i]}
<1>1. Bad = {}
  <2> SUFFICES ASSUME Bad # {} PROVE FALSE
    OBVIOUS
  <2>1. PICK i \in Bad : \A j \in Bad : i <= j
    <3> HIDE DEF Bad
    <3>1. Bad \in SUBSET Nat
      BY DEF Bad
    <3> QED
      BY <3>1, LeastNumber
  <2>2. i \in 1..n /\ i \in 1..k /\ i \in 1..m /\ f[i] # g[i] /\ h[i] = e[i]
    BY DEF SameUpTo
  <2>3. /\ f[i] = IF i = 1 THEN h[i] ELSE f[i - 1] \o h[i]
        /\ g[i] = IF i = 1 THEN e[i] ELSE g[i - 1] \o e[i]
    BY <2>2 DEF Flattens
  <2>4. i # 1 /\ f[i - 1] # g[i - 1]
    BY <2>2, <2>3
  <2>5. i - 1 \in 1..n /\ ~(i <= i - 1)
    BY <2>2, <2>4
  <2>6. i - 1 \in Bad
    BY <2>4, <2>5
  <2> HIDE DEF Bad
  <2> QED
    BY <2>1, <2>5, <2>6
<1> QED
  BY <1>1 DEF SameUpTo

\* FlattenSeq is the last value of every solution.
LEMMA FlattenSolved ==
    ASSUME NEW S, NEW h \in Seq(S), h # <<>>, NEW f, Flattens(f, h, Len(h))
    PROVE  FlattenSeq(h) = f[Len(h)]
<1> DEFINE g == CHOOSE k : Flattens(k, h, Len(h))
<1>1. Len(h) \in Nat /\ Len(h) # 0
  OBVIOUS
<1>2. Flattens(g, h, Len(h))
  BY <1>1, FlattensExists
<1>3. FlattenSeq(h) = g[Len(h)]
  BY <1>1 DEF FlattenSeq, Flattens
<1> HIDE DEF g
<1>4. Len(h) \in 1..Len(h) /\ Len(h) <= Len(h)
  BY <1>1
<1>5. SameUpTo(h, h, Len(h))
  BY DEF SameUpTo
<1>6. SameUpTo(g, f, Len(h))
  BY <1>1, <1>2, <1>4, <1>5, FlattensAgree
<1> QED
  BY <1>3, <1>4, <1>6 DEF SameUpTo

\* One more sequence goes to the end of what the others make.
LEMMA FlattenAppend ==
    ASSUME NEW T, NEW h \in Seq(Seq(T)), NEW p \in Seq(T)
    PROVE  FlattenSeq(Append(h, p)) = FlattenSeq(h) \o p
<1> DEFINE S == Seq(T)
<1> DEFINE e == Append(h, p)
<1>0. h \in Seq(S) /\ p \in S
  OBVIOUS
<1> HIDE DEF S
<1>1. /\ e \in Seq(S) /\ e # <<>> /\ Len(e) = Len(h) + 1 /\ e[Len(e)] = p /\ Len(h) \in Nat
      /\ Len(e) \in Nat /\ \A i \in 1..Len(h) : e[i] = h[i]
  BY <1>0
<1> HIDE DEF e
<1>2. PICK g : Flattens(g, e, Len(e))
  BY <1>1, FlattensExists
<1>3. FlattenSeq(e) = g[Len(e)]
  BY <1>1, <1>2, FlattenSolved
<1>4. Len(e) \in 1..Len(e)
  BY <1>1
<1>5. g[Len(e)] = IF Len(e) = 1 THEN e[Len(e)] ELSE g[Len(e) - 1] \o e[Len(e)]
  BY <1>2, <1>4 DEF Flattens
<1>6. CASE h = <<>>
  <2>1. FlattenSeq(h) = <<>> /\ Len(h) = 0
    BY <1>6 DEF FlattenSeq
  <2>2. FlattenSeq(e) = p
    BY <1>1, <1>3, <1>5, <2>1
  <2> QED
    BY <2>1, <2>2 DEF e
<1>7. CASE h # <<>>
  <2>1. PICK f : Flattens(f, h, Len(h))
    BY <1>1, FlattensExists
  <2>2. FlattenSeq(h) = f[Len(h)]
    BY <1>7, <2>1, FlattenSolved DEF S
  <2>3. Len(h) # 0 /\ Len(h) \in 1..Len(h) /\ Len(h) <= Len(h) /\ Len(h) <= Len(e) /\ Len(e) \in Nat
    BY <1>1, <1>7
  <2>4. SameUpTo(f, g, Len(h))
    <3>1. SameUpTo(h, e, Len(h))
      BY <1>1 DEF SameUpTo
    <3>2. Len(h) \in Nat
      BY <1>1
    <3> QED
      BY ONLY <3>1, <3>2, <1>2, <2>1, <2>3, FlattensAgree
  <2>5. g[Len(e)] = g[Len(h)] \o p
    BY <1>1, <1>5, <2>3
  <2> QED
    BY <1>3, <1>7, <2>2, <2>3, <2>4, <2>5 DEF e, SameUpTo
<1> QED
  BY <1>6, <1>7

IsPiece(piece, rest, cs) == piece = SubSeq(rest, 1, IF Len(rest) < cs THEN Len(rest) ELSE cs)
Continues(piece, C, cs, k) ==
    /\ Len(piece) \in 1..cs /\ (k + cs < Len(C) => Len(piece) = cs)
    /\ SubSeq(C, 1, k) \o piece = SubSeq(C, 1, IF k + cs < Len(C) THEN k + cs ELSE Len(C))

\* The bytes from k + 1 on, cut to a chunk, continue the first k bytes.
LEMMA NextPiece ==
    ASSUME NEW S, NEW C \in Seq(S), NEW cs \in Nat \ {0}, NEW k \in Nat, k < Len(C),
           NEW rest, rest = SubSeq(C, k + 1, Len(C)), NEW piece, IsPiece(piece, rest, cs)
    PROVE  piece \in Seq(S) /\ Continues(piece, C, cs, k)
<1>1. Len(C) \in Nat /\ k + 1 \in 1..(Len(C) + 1) /\ Len(C) \in k..Len(C)
  OBVIOUS
<1>2. rest \in Seq(S) /\ Len(rest) = Len(C) - k /\ \A i \in 1..(Len(C) - k) : rest[i] = C[k + i]
  BY <1>1
<1> DEFINE n == IF Len(rest) < cs THEN Len(rest) ELSE cs
<1>3. n \in 1..cs /\ n <= Len(rest)
  BY <1>1, <1>2
<1>4. piece \in Seq(S) /\ Len(piece) = n /\ \A i \in 1..n : piece[i] = rest[i]
  BY <1>2, <1>3 DEF IsPiece
<1> DEFINE a == SubSeq(C, 1, k)
<1> DEFINE m == IF k + cs < Len(C) THEN k + cs ELSE Len(C)
<1> DEFINE b == SubSeq(C, 1, m)
<1>5. a \in Seq(S) /\ Len(a) = k /\ \A i \in 1..k : a[i] = C[i]
  BY <1>1
<1>6. m = k + n /\ m \in Nat /\ m <= Len(C)
  <2>1. CASE k + cs < Len(C)
    BY <2>1, <1>1, <1>2
  <2>2. CASE ~(k + cs < Len(C))
    BY <2>2, <1>1, <1>2
  <2> QED
    BY <2>1, <2>2
<1>7. b \in Seq(S) /\ Len(b) = m /\ \A i \in 1..m : b[i] = C[i]
  <2> HIDE DEF m
  <2> QED
    BY <1>1, <1>6
<1> HIDE DEF a, b, n, m
<1>8. /\ a \o piece \in Seq(S) /\ Len(a \o piece) = k + n
      /\ \A i \in 1..k : (a \o piece)[i] = a[i]
      /\ \A i \in (k + 1)..(k + n) : (a \o piece)[i] = piece[i - k]
  <2>1. a \in Seq(S) /\ piece \in Seq(S) /\ Len(a) = k /\ Len(piece) = n /\ n \in Nat
    BY <1>3, <1>4, <1>5
  <2> QED
    BY ONLY <2>1, k \in Nat
<1>9. ASSUME NEW i \in 1..(k + n) PROVE (a \o piece)[i] = b[i]
  <2>1. CASE i <= k
    <3>1. i \in 1..k /\ i \in 1..m
      BY <2>1, <1>3, <1>6
    <3> QED
      BY <3>1, <1>5, <1>7, <1>8
  <2>2. CASE ~(i <= k)
    <3>1. i - k \in 1..n /\ i \in (k + 1)..(k + n) /\ i - k \in 1..(Len(C) - k) /\ k + (i - k) = i
      BY <2>2, <1>2, <1>3
    <3>2. (a \o piece)[i] = piece[i - k] /\ piece[i - k] = rest[i - k] /\ rest[i - k] = C[k + (i - k)]
      BY <3>1, <1>2, <1>4, <1>8
    <3> QED
      BY <3>1, <3>2, <1>6, <1>7
  <2> QED
    BY <2>1, <2>2
<1>10. a \o piece = b
  <2>1. PICK ab : ab = a \o piece
    OBVIOUS
  <2>2. ab \in Seq(S) /\ b \in Seq(S) /\ Len(ab) = Len(b) /\ \A i \in 1..Len(ab) : ab[i] = b[i]
    BY <2>1, <1>6, <1>7, <1>8, <1>9
  <2> QED
    BY ONLY <2>1, <2>2, SeqEqual
<1> QED
  <2>1. k + cs < Len(C) => n = cs
    BY <1>1, <1>2 DEF n
  <2> QED
    BY <2>1, <1>3, <1>4, <1>10 DEF a, b, m, Continues

\* A sequence is a prefix of itself followed by another.
LEMMA PrefixOfConcat ==
    ASSUME NEW S, NEW p \in Seq(S), NEW q \in Seq(S)
    PROVE  IsPrefix(p, p \o q)
<1>1. /\ p \o q \in Seq(S) /\ Len(p \o q) = Len(p) + Len(q) /\ Len(p) \in Nat /\ Len(q) \in Nat
      /\ \A i \in 1..Len(p) : (p \o q)[i] = p[i]
  OBVIOUS
<1> DEFINE t == p \o q
<1> HIDE DEF t
<1>2. /\ SubSeq(p, 1, Len(p)) \in Seq(S) /\ Len(SubSeq(p, 1, Len(p))) = Len(p)
      /\ \A i \in 1..Len(p) : SubSeq(p, 1, Len(p))[i] = p[i]
  BY <1>1
<1>3. /\ SubSeq(t, 1, Len(p)) \in Seq(S) /\ Len(SubSeq(t, 1, Len(p))) = Len(p)
      /\ \A i \in 1..Len(p) : SubSeq(t, 1, Len(p))[i] = t[i]
  BY <1>1 DEF t
<1>4. SubSeq(p, 1, Len(p)) = SubSeq(t, 1, Len(p))
  BY <1>1, <1>2, <1>3 DEF t
<1> QED
  BY <1>1, <1>4 DEF IsPrefix, t

\* The names a writer has made, and what it holds, are functions of the writer.
StoreTypes ==
    /\ ChunkStoreTypeOK
    /\ buf \in [Writers -> Seq(Bytes)] /\ hashes \in [Writers -> Seq(Seq(Bytes))]
    /\ cleaned \in [Writers -> Nat]

\* A writer that has made a name has one; the clean-up has not yet removed all.
HasName ==
    \A w \in Writers :
        /\ writerAt[w] \in {"open", "write", "clean"} => hashes[w] # <<>>
        /\ writerAt[w] = "clean" => cleaned[w] < Len(hashes[w])
        /\ writerAt[w] \notin {"clean", "failed"} => cleaned[w] = 0

\* What is about to be written begins with what its name is the hash of.
WritesItsName ==
    \A w \in Writers : writerAt[w] \in {"open", "write"} => IsPrefix(Name(w), buf[w])

\* An open file is there unless it was removed meanwhile.
LinkedIsThere ==
    \A w \in Writers : linked[w] => writerAt[w] = "write" /\ Name(w) \in DOMAIN dir

\* The chunks noted so far are the beginning of the file, all of full size
\* unless the end was reached.
Covers(h, C) ==
    LET k == ChunkSize * Len(h)
    IN  /\ FlattenSeq(h) = SubSeq(C, 1, IF k < Len(C) THEN k ELSE Len(C))
        /\ \A i \in 1..(Len(h) - 1) : Len(h[i]) = ChunkSize
        /\ h # <<>> /\ k < Len(C) => Len(h[Len(h)]) = ChunkSize
CoversBeginning == \A u \in Uploads : Covers(hashes[u], Content[u])

\* A name that was written is in the directory or was lost by another writer.
Known == DOMAIN dir \cup lost
StoredSoFar ==
    \A u \in Uploads :
        /\ writerAt[u] \in {"read", "write", "done"} =>
              \A i \in 1..Len(hashes[u]) : hashes[u][i] \in Known
        /\ writerAt[u] = "open" => \A i \in 1..(Len(hashes[u]) - 1) : hashes[u][i] \in Known

AvailableIsDone == \A u \in available : writerAt[u] = "done" /\ Len(Content[u]) <= ChunkSize * Len(hashes[u])

\* The inductive invariant.
ChunkStoreIInv ==
    /\ StoreTypes /\ HasName /\ WritesItsName /\ LinkedIsThere /\ CoversBeginning
    /\ StoredSoFar /\ AvailableIsDone /\ ContentAddressed

\* The inductive invariant implies the one that the run checks.
LEMMA ChunkStoreIInvImplies == ChunkStoreIInv => ChunkStoreInvariant
<1> SUFFICES ASSUME ChunkStoreIInv PROVE ChunkStoreInvariant
  OBVIOUS
<1>1. ChunksCoverFile
  <2> SUFFICES ASSUME NEW u \in available
               PROVE  /\ FlattenSeq(hashes[u]) = Content[u]
                      /\ \A i \in 1..(Len(hashes[u]) - 1) : Len(hashes[u][i]) = ChunkSize
    BY DEF ChunksCoverFile
  <2>1. u \in Uploads /\ u \in Writers /\ Content[u] \in Seq(Nat) /\ hashes[u] \in Seq(Seq(Bytes))
    BY ChunkStoreAssumption DEF ChunkStoreIInv, StoreTypes, ChunkStoreTypeOK, Writers
  <2>2. Len(hashes[u]) \in Nat /\ Len(Content[u]) \in Nat
    BY <2>1
  <2>3. PICK k : k = ChunkSize * Len(hashes[u])
    OBVIOUS
  <2>4. k \in Nat /\ Len(Content[u]) <= k
    BY <2>2, <2>3, ChunkStoreAssumption DEF ChunkStoreIInv, AvailableIsDone
  <2>5. Covers(hashes[u], Content[u])
    BY <2>1 DEF ChunkStoreIInv, CoversBeginning
  <2>6. FlattenSeq(hashes[u]) = SubSeq(Content[u], 1, Len(Content[u]))
    <3>1. ~(k < Len(Content[u]))
      BY <2>2, <2>4
    <3> QED
      BY <2>3, <2>5, <3>1 DEF Covers
  <2>7. SubSeq(Content[u], 1, Len(Content[u])) = Content[u]
    BY <2>1
  <2> QED
    BY <2>5, <2>6, <2>7 DEF Covers
<1>2. AvailableIsStored
  BY DEF ChunkStoreIInv, StoredSoFar, AvailableIsDone, AvailableIsStored, Known, StoreTypes, ChunkStoreTypeOK
<1> QED
  BY <1>1, <1>2 DEF ChunkStoreInvariant, ChunkStoreIInv, StoreTypes

\* The zeros of a new buffer and what is to be stored are bytes.
LEMMA ContentBytes ==
    /\ \A w \in Writers : Content[w] \in Seq(Bytes) /\ Content[w] \in Seq(Nat)
    /\ ChunkSize \in Nat \ {0}
    /\ [i \in 1..ChunkSize |-> 0] \in Seq(Bytes) /\ Len([i \in 1..ChunkSize |-> 0]) = ChunkSize
<1>1. ASSUME NEW w \in Writers PROVE Content[w] \in Seq(Bytes) /\ Content[w] \in Seq(Nat)
  <2>1. Content[w] \in Seq(Nat)
    BY ChunkStoreAssumption
  <2>2. Range(Content[w]) \subseteq Bytes
    BY DEF Bytes
  <2>3. \A i \in 1..Len(Content[w]) : Content[w][i] \in Bytes
    BY <2>1, <2>2 DEF Range
  <2> QED
    BY <2>1, <2>3
<1>2. 0 \in Bytes
  BY DEF Bytes
<1> QED
  BY <1>1, <1>2, ChunkStoreAssumption

\* At start the directory is empty and nothing was read.
LEMMA ChunkStoreInitIInv == ChunkStoreInit => ChunkStoreIInv
<1> SUFFICES ASSUME ChunkStoreInit PROVE ChunkStoreIInv
  OBVIOUS
<1> USE DEF ChunkStoreInit
<1>1. StoreTypes
  BY ContentBytes DEF StoreTypes, ChunkStoreTypeOK, Writers
<1>2. CoversBeginning
  <2> SUFFICES ASSUME NEW u \in Uploads PROVE Covers(<<>>, Content[u])
    BY DEF CoversBeginning, Writers
  <2>1. Content[u] \in Seq(Nat) /\ Len(Content[u]) \in Nat /\ ChunkSize * 0 = 0
    BY ContentBytes DEF Writers
  <2>2. SubSeq(Content[u], 1, 0) = <<>>
    BY <2>1
  <2> QED
    BY <2>1, <2>2 DEF Covers, FlattenSeq
<1> QED
  BY <1>1, <1>2 DEF ChunkStoreIInv, HasName, WritesItsName, LinkedIsThere, StoredSoFar,
                    AvailableIsDone, ContentAddressed, Writers

\* Removing a file loses its name and unlinks the writers that have it open.
LEMMA RemoveFacts ==
    ASSUME ChunkStoreIInv, NEW h \in DOMAIN dir, RemoveFile(h), NEW w
    PROVE  /\ Known' = Known /\ linked' \in [Writers -> BOOLEAN]
           /\ \A g \in DOMAIN dir' : g \in DOMAIN dir /\ g # h /\ dir'[g] = dir[g]
           /\ \A v \in Writers : linked'[v] <=> linked[v] /\ Name(v) # h
           /\ \A v \in Writers : linked'[v] => Name(v) \in DOMAIN dir'
           /\ \A g \in DOMAIN dir' \ lost' :
                 IsPrefix(g, dir'[g]) \/ \E v \in Writers : linked'[v] /\ Name(v) = g
<1>1. /\ DOMAIN dir' = DOMAIN dir \ {h} /\ \A g \in DOMAIN dir' : dir'[g] = dir[g]
      /\ lost' = lost \cup {h} /\ linked' = [v \in Writers |-> linked[v] /\ Name(v) # h]
  BY DEF RemoveFile
<1>2. linked' \in [Writers -> BOOLEAN] /\ \A v \in Writers : linked'[v] <=> linked[v] /\ Name(v) # h
  BY <1>1
<1>3. Known' = Known
  BY <1>1 DEF Known
<1>4. \A v \in Writers : linked'[v] => Name(v) \in DOMAIN dir'
  BY <1>1, <1>2 DEF ChunkStoreIInv, LinkedIsThere
<1>5. ASSUME NEW g \in DOMAIN dir' \ lost'
      PROVE  IsPrefix(g, dir'[g]) \/ \E v \in Writers : linked'[v] /\ Name(v) = g
  <2>1. g \in DOMAIN dir \ lost /\ g # h /\ dir'[g] = dir[g]
    BY <1>1
  <2>2. IsPrefix(g, dir[g]) \/ \E v \in Writers : linked[v] /\ Name(v) = g
    BY <2>1 DEF ChunkStoreIInv, ContentAddressed
  <2> QED
    BY <1>2, <2>1, <2>2
<1> QED
  BY <1>1, <1>2, <1>3, <1>4, <1>5

\* The next chunk: its name, the buffer, and that the names cover the file so far.
LEMMA PieceFacts ==
    ASSUME ChunkStoreIInv, NEW u \in Uploads, Rest(u) # <<>>
    PROVE  /\ Piece(u) \in Seq(Bytes) /\ Filled(u) \in Seq(Bytes) /\ Len(Filled(u)) = ChunkSize
           /\ IsPrefix(Piece(u), Filled(u))
           /\ Covers(Append(hashes[u], Piece(u)), Content[u])
<1> DEFINE C == Content[u]
<1> DEFINE h == hashes[u]
<1>1. /\ u \in Writers /\ C \in Seq(Bytes) /\ h \in Seq(Seq(Bytes)) /\ buf[u] \in Seq(Bytes)
      /\ Len(buf[u]) = ChunkSize /\ ChunkSize \in Nat \ {0} /\ Covers(h, C)
  BY ContentBytes DEF ChunkStoreIInv, StoreTypes, ChunkStoreTypeOK, CoversBeginning, Writers
<1>2. PICK k : k = ChunkSize * Len(h)
  OBVIOUS
<1>3. Len(h) \in Nat /\ Len(C) \in Nat /\ k \in Nat /\ ChunkSize * (Len(h) + 1) = k + ChunkSize
  BY <1>1, <1>2
<1>4. k < Len(C)
  <2> SUFFICES ASSUME ~(k < Len(C)) PROVE FALSE
    OBVIOUS
  <2>1. SubSeq(C, k + 1, Len(C)) = <<>>
    BY <1>1, <1>3, SubSeqEmpty
  <2> QED
    BY <1>2, <2>1 DEF Rest
<1>5. Rest(u) = SubSeq(C, k + 1, Len(C))
  BY <1>2 DEF Rest
<1>6. Piece(u) = SubSeq(Rest(u), 1, IF Len(Rest(u)) < ChunkSize THEN Len(Rest(u)) ELSE ChunkSize)
  BY DEF Piece
<1>7. PICK pc : pc = Piece(u)
  OBVIOUS
<1>8. /\ pc \in Seq(Bytes) /\ Len(pc) \in 1..ChunkSize
      /\ k + ChunkSize < Len(C) => Len(pc) = ChunkSize
      /\ SubSeq(C, 1, k) \o pc = SubSeq(C, 1, IF k + ChunkSize < Len(C) THEN k + ChunkSize ELSE Len(C))
  <2>1. PICK rest : rest = Rest(u)
    OBVIOUS
  <2>2. rest = SubSeq(C, k + 1, Len(C)) /\ IsPiece(pc, rest, ChunkSize)
    BY <1>5, <1>6, <1>7, <2>1 DEF IsPiece
  <2> HIDE DEF C, h
  <2>3. pc \in Seq(Bytes) /\ Continues(pc, C, ChunkSize, k)
    BY ONLY <1>1, <1>3, <1>4, <2>2, NextPiece
  <2> QED
    BY <2>3 DEF Continues
<1>9. PICK q : q = SubSeq(buf[u], Len(pc) + 1, ChunkSize)
  OBVIOUS
<1>10. q \in Seq(Bytes) /\ Len(q) = ChunkSize - Len(pc)
  BY <1>1, <1>8, <1>9
<1>11. Filled(u) = pc \o q
  BY <1>7, <1>9 DEF Filled
<1>12. Filled(u) \in Seq(Bytes) /\ Len(Filled(u)) = ChunkSize /\ IsPrefix(pc, Filled(u))
  <2>1. pc \o q \in Seq(Bytes) /\ Len(pc \o q) = ChunkSize
    BY <1>1, <1>8, <1>10
  <2>2. IsPrefix(pc, pc \o q)
    BY <1>8, <1>10, PrefixOfConcat
  <2> QED
    BY <1>11, <2>1, <2>2
<1>13. PICK e : e = Append(h, pc)
  OBVIOUS
<1>14. /\ Len(e) = Len(h) + 1 /\ e # <<>> /\ e[Len(e)] = pc /\ \A i \in 1..Len(h) : e[i] = h[i]
  <2>1. PICK S : S = Seq(Bytes)
    OBVIOUS
  <2>2. h \in Seq(S) /\ pc \in S /\ e = Append(h, pc)
    BY <1>1, <1>8, <1>13, <2>1
  <2> HIDE DEF h
  <2> QED
    BY ONLY <2>2
<1>15. FlattenSeq(e) = FlattenSeq(h) \o pc
  <2> HIDE DEF h
  <2> QED
    BY <1>1, <1>8, <1>13, FlattenAppend
<1>16. FlattenSeq(h) = SubSeq(C, 1, k)
  BY <1>1, <1>2, <1>4 DEF Covers
<1>17. \A i \in 1..(Len(e) - 1) : Len(e[i]) = ChunkSize
  <2> SUFFICES ASSUME NEW i \in 1..(Len(e) - 1) PROVE Len(e[i]) = ChunkSize
    OBVIOUS
  <2> HIDE DEF C, h
  <2>1. i \in 1..Len(h) /\ e[i] = h[i]
    BY <1>3, <1>14
  <2>2. CASE i = Len(h)
    <3>1. h # <<>>
      BY <1>1, <2>1
    <3>2. Len(h[Len(h)]) = ChunkSize
      BY <1>1, <1>2, <1>4, <3>1 DEF Covers
    <3> QED
      BY <2>1, <2>2, <3>2
  <2>3. CASE i # Len(h)
    <3>1. i \in 1..(Len(h) - 1)
      BY <1>3, <2>1, <2>3
    <3> QED
      BY <1>1, <2>1, <3>1 DEF Covers
  <2> QED
    BY <2>2, <2>3
<1>18. Covers(e, C)
  <2> HIDE DEF C, h
  <2>1. ChunkSize * Len(e) = k + ChunkSize
    BY <1>3, <1>14
  <2> QED
    BY <1>8, <1>14, <1>15, <1>16, <1>17, <2>1 DEF Covers
<1> QED
  BY <1>7, <1>8, <1>12, <1>13, <1>18

\* SaveChunkedFile reads a chunk and notes its name.
LEMMA ReadChunkStep ==
    ASSUME ChunkStoreIInv, NEW u \in Uploads, ReadChunk(u)
    PROVE  ChunkStoreIInv'
<1>1. /\ u \in Writers /\ writerAt[u] = "read" /\ Rest(u) # <<>>
      /\ StoreTypes /\ HasName /\ WritesItsName /\ LinkedIsThere /\ CoversBeginning
      /\ StoredSoFar /\ AvailableIsDone /\ ContentAddressed
  BY DEF ChunkStoreIInv, ReadChunk, Writers
<1>2. PICK pc : pc = Piece(u)
  OBVIOUS
<1>3. PICK fl : fl = Filled(u)
  OBVIOUS
<1>4. /\ pc \in Seq(Bytes) /\ fl \in Seq(Bytes) /\ Len(fl) = ChunkSize /\ IsPrefix(pc, fl)
      /\ Covers(Append(hashes[u], pc), Content[u])
  BY <1>1, <1>2, <1>3, PieceFacts
<1>5. PICK e : e = Append(hashes[u], pc)
  OBVIOUS
<1>6. hashes[u] \in Seq(Seq(Bytes)) /\ Len(hashes[u]) \in Nat
  BY <1>1 DEF StoreTypes
<1>7. /\ e \in Seq(Seq(Bytes)) /\ Len(e) = Len(hashes[u]) + 1 /\ e # <<>> /\ e[Len(e)] = pc
      /\ \A i \in 1..Len(hashes[u]) : e[i] = hashes[u][i]
  BY <1>4, <1>5, <1>6
<1>8. /\ buf' = [buf EXCEPT ![u] = fl] /\ hashes' = [hashes EXCEPT ![u] = e]
      /\ writerAt' = [writerAt EXCEPT ![u] = "open"]
      /\ dir' = dir /\ cleaned' = cleaned /\ linked' = linked /\ available' = available /\ lost' = lost
  BY <1>2, <1>3, <1>5 DEF ReadChunk
<1>9. /\ hashes'[u] = e /\ buf'[u] = fl /\ writerAt'[u] = "open"
      /\ \A w \in Writers \ {u} : hashes'[w] = hashes[w] /\ buf'[w] = buf[w] /\ writerAt'[w] = writerAt[w]
  BY <1>1, <1>8 DEF StoreTypes, ChunkStoreTypeOK
<1>10. \A w \in Writers \ {u} : Name(w)' = Name(w)
  BY <1>9 DEF Name
<1>11. Name(u)' = pc
  BY <1>7, <1>9 DEF Name
<1>12. StoreTypes'
  <2>1. hashes' \in [Writers -> Seq(Seq(Bytes))] /\ buf' \in [Writers -> Seq(Bytes)]
    BY <1>1, <1>4, <1>7, <1>8 DEF StoreTypes
  <2>2. writerAt' \in [Writers -> {"read", "open", "write", "clean", "done", "failed"}]
    BY <1>1, <1>8 DEF StoreTypes, ChunkStoreTypeOK
  <2>3. \A w \in Uploads : Len(buf'[w]) = ChunkSize
    BY <1>1, <1>4, <1>9 DEF StoreTypes, ChunkStoreTypeOK, Writers
  <2>4. \A w \in Writers : cleaned'[w] \in 0..Len(hashes'[w])
    <3> SUFFICES ASSUME NEW w \in Writers PROVE cleaned'[w] \in 0..Len(hashes'[w])
      OBVIOUS
    <3>1. cleaned[w] \in 0..Len(hashes[w])
      BY <1>1 DEF StoreTypes, ChunkStoreTypeOK
    <3>2. CASE w = u
      BY <1>6, <1>7, <1>8, <1>9, <3>1, <3>2
    <3>3. CASE w # u
      BY <1>8, <1>9, <3>1, <3>3
    <3> QED
      BY <3>2, <3>3
  <2> QED
    BY <1>1, <1>8, <2>1, <2>2, <2>3, <2>4 DEF StoreTypes, ChunkStoreTypeOK
<1>13. HasName'
  BY <1>1, <1>7, <1>8, <1>9 DEF HasName
<1>14. WritesItsName'
  BY <1>1, <1>4, <1>9, <1>10, <1>11 DEF WritesItsName
<1>15. ~linked[u] /\ LinkedIsThere'
  BY <1>1, <1>8, <1>9, <1>10 DEF LinkedIsThere
<1>16. CoversBeginning'
  BY <1>1, <1>4, <1>5, <1>9 DEF CoversBeginning, Writers
<1>17. StoredSoFar'
  <2>1. Known' = Known
    BY <1>8 DEF Known
  <2>2. \A i \in 1..(Len(e) - 1) : e[i] \in Known
    <3>1. Len(e) - 1 = Len(hashes[u])
      BY <1>6, <1>7
    <3> QED
      BY <1>1, <1>7, <3>1 DEF StoredSoFar
  <2> QED
    BY <1>1, <1>9, <2>1, <2>2 DEF StoredSoFar, Writers
<1>18. AvailableIsDone'
  BY <1>1, <1>8, <1>9 DEF AvailableIsDone, StoreTypes, ChunkStoreTypeOK, Writers
<1>19. ContentAddressed'
  BY <1>1, <1>8, <1>10, <1>15 DEF ContentAddressed
<1> QED
  BY <1>12, <1>13, <1>14, <1>15, <1>16, <1>17, <1>18, <1>19 DEF ChunkStoreIInv

\* A step of one writer that leaves its names, its buffer and the directory alone.
Moves(w, pt) ==
    /\ writerAt[w] \in {"read", "open"} /\ writerAt' = [writerAt EXCEPT ![w] = pt]
    /\ pt \in {"done", "failed"} \/ (pt = "clean" /\ writerAt[w] = "open")
    /\ pt = "done" => writerAt[w] = "read"
    /\ dir' = dir /\ buf' = buf /\ hashes' = hashes /\ cleaned' = cleaned /\ linked' = linked /\ lost' = lost
    /\ \/ available' = available
       \/ /\ available' = available \cup {w} /\ w \in Uploads /\ pt = "done"
          /\ Len(Content[w]) <= ChunkSize * Len(hashes[w])

\* It keeps the invariant.
LEMMA MoveStep ==
    ASSUME ChunkStoreIInv, NEW w \in Writers, NEW pt, Moves(w, pt)
    PROVE  ChunkStoreIInv'
<1> USE DEF Moves
<1>1. /\ StoreTypes /\ HasName /\ WritesItsName /\ LinkedIsThere /\ CoversBeginning
      /\ StoredSoFar /\ AvailableIsDone /\ ContentAddressed
  BY DEF ChunkStoreIInv
<1>2. writerAt'[w] = pt /\ \A v \in Writers \ {w} : writerAt'[v] = writerAt[v]
  BY <1>1 DEF StoreTypes, ChunkStoreTypeOK
<1>3. \A v \in Writers : Name(v)' = Name(v)
  BY DEF Name
<1>4. StoreTypes'
  <2>1. writerAt' \in [Writers -> {"read", "open", "write", "clean", "done", "failed"}]
    BY <1>1 DEF StoreTypes, ChunkStoreTypeOK
  <2> QED
    BY <1>1, <2>1 DEF StoreTypes, ChunkStoreTypeOK
<1>5. HasName'
  <2>1. ASSUME NEW v \in Writers \ {w}
        PROVE  /\ writerAt'[v] \in {"open", "write", "clean"} => hashes'[v] # <<>>
               /\ writerAt'[v] = "clean" => cleaned'[v] < Len(hashes'[v])
               /\ writerAt'[v] \notin {"clean", "failed"} => cleaned'[v] = 0
    BY <1>1, <1>2 DEF HasName
  <2>2. hashes[w] \in Seq(Seq(Bytes)) /\ cleaned[w] = 0
    BY <1>1 DEF StoreTypes, HasName
  <2>3. writerAt[w] = "open" => hashes[w] # <<>> /\ cleaned[w] < Len(hashes[w])
    BY <1>1, <2>2 DEF HasName
  <2> QED
    BY <1>2, <2>1, <2>2, <2>3 DEF HasName
<1>6. WritesItsName'
  BY <1>1, <1>2, <1>3 DEF WritesItsName
<1>7. LinkedIsThere'
  BY <1>1, <1>2, <1>3 DEF LinkedIsThere
<1>8. CoversBeginning'
  BY <1>1 DEF CoversBeginning
<1>9. StoredSoFar'
  <2>1. Known' = Known
    BY DEF Known
  <2> QED
    BY <1>1, <1>2, <2>1 DEF StoredSoFar, Writers
<1>10. AvailableIsDone'
  <2>1. available \subseteq Writers
    BY <1>1 DEF StoreTypes, ChunkStoreTypeOK, Writers
  <2> QED
    BY <1>1, <1>2, <2>1 DEF AvailableIsDone
<1>11. ContentAddressed'
  BY <1>1, <1>3 DEF ContentAddressed
<1> QED
  BY <1>4, <1>5, <1>6, <1>7, <1>8, <1>9, <1>10, <1>11 DEF ChunkStoreIInv

\* The file cannot be read or opened, or was read to its end.
LEMMA EndStep ==
    ASSUME ChunkStoreIInv, NEW w \in Writers,
           OpenFails(w) \/ (w \in Uploads /\ (ReadFails(w) \/ Register(w)))
    PROVE  ChunkStoreIInv'
<1>1. CASE OpenFails(w)
  <2>1. Failed(w) \in {"clean", "failed"}
    BY DEF Failed
  <2>2. Moves(w, Failed(w))
    BY <1>1, <2>1 DEF OpenFails, Moves
  <2> QED
    BY <2>2, MoveStep
<1>2. CASE w \in Uploads /\ ReadFails(w)
  <2>1. Moves(w, "failed")
    BY <1>2 DEF ReadFails, Moves
  <2> QED
    BY <2>1, MoveStep
<1>3. CASE w \in Uploads /\ Register(w)
  <2>1. Content[w] \in Seq(Nat) /\ hashes[w] \in Seq(Seq(Bytes)) /\ ChunkSize \in Nat
    BY ContentBytes DEF ChunkStoreIInv, StoreTypes
  <2>2. PICK k : k = ChunkSize * Len(hashes[w])
    OBVIOUS
  <2>3. k \in Nat /\ Len(Content[w]) \in Nat
    BY <2>1, <2>2
  <2>4. Len(Content[w]) <= k
    <3> SUFFICES ASSUME k < Len(Content[w]) PROVE FALSE
      BY <2>3
    <3>1. Len(SubSeq(Content[w], k + 1, Len(Content[w]))) = Len(Content[w]) - k
      BY <2>1, <2>3
    <3>2. SubSeq(Content[w], k + 1, Len(Content[w])) = <<>>
      BY <1>3, <2>2 DEF Register, Rest
    <3>3. Len(Content[w]) - k = 0
      BY <3>1, <3>2
    <3> QED
      BY <2>3, <3>3
  <2>5. Moves(w, "done")
    BY <1>3, <2>2, <2>4 DEF Register, Moves
  <2> QED
    BY <2>5, MoveStep
<1> QED
  BY <1>1, <1>2, <1>3

\* os.WriteFile opens: the file is there, empty, and linked.
LEMMA OpenFileStep ==
    ASSUME ChunkStoreIInv, NEW w \in Writers, OpenFile(w)
    PROVE  ChunkStoreIInv'
<1>1. /\ StoreTypes /\ HasName /\ WritesItsName /\ LinkedIsThere /\ CoversBeginning
      /\ StoredSoFar /\ AvailableIsDone /\ ContentAddressed /\ writerAt[w] = "open"
  BY DEF ChunkStoreIInv, OpenFile
<1>2. PICK nm : nm = Name(w)
  OBVIOUS
<1>3. /\ dir' = [g \in DOMAIN dir \cup {nm} |-> IF g = nm THEN <<>> ELSE dir[g]]
      /\ linked' = [linked EXCEPT ![w] = TRUE] /\ writerAt' = [writerAt EXCEPT ![w] = "write"]
      /\ buf' = buf /\ hashes' = hashes /\ cleaned' = cleaned /\ available' = available /\ lost' = lost
  BY <1>2 DEF OpenFile, Opened
<1>4. /\ writerAt'[w] = "write" /\ linked'[w]
      /\ \A v \in Writers \ {w} : writerAt'[v] = writerAt[v] /\ linked'[v] = linked[v]
  BY <1>1, <1>3 DEF StoreTypes, ChunkStoreTypeOK
<1>5. \A v \in Writers : Name(v)' = Name(v)
  BY <1>3 DEF Name
<1>6. hashes[w] \in Seq(Seq(Bytes)) /\ hashes[w] # <<>> /\ nm = hashes[w][Len(hashes[w])] /\ nm \in Seq(Bytes)
  <2>1. hashes[w] \in Seq(Seq(Bytes)) /\ hashes[w] # <<>>
    BY <1>1 DEF StoreTypes, HasName
  <2>2. PICK S : S = Seq(Bytes)
    OBVIOUS
  <2>3. PICK h : h = hashes[w]
    OBVIOUS
  <2>4. h \in Seq(S) /\ h # <<>>
    BY <2>1, <2>2, <2>3
  <2>5. h[Len(h)] \in S
    BY ONLY <2>4
  <2> QED
    BY <1>2, <2>1, <2>2, <2>3, <2>5 DEF Name
<1>7. /\ DOMAIN dir' = DOMAIN dir \cup {nm} /\ dir'[nm] = <<>>
      /\ \A g \in DOMAIN dir \ {nm} : dir'[g] = dir[g]
  BY <1>3
<1>8. StoreTypes'
  <2>1. \A h \in DOMAIN dir' : h \in Seq(Bytes) /\ dir'[h] \in Seq(Bytes)
    <3>1. <<>> \in Seq(Bytes)
      OBVIOUS
    <3> QED
      BY <1>1, <1>6, <1>7, <3>1 DEF StoreTypes, ChunkStoreTypeOK
  <2>2. /\ writerAt' \in [Writers -> {"read", "open", "write", "clean", "done", "failed"}]
        /\ linked' \in [Writers -> BOOLEAN]
    BY <1>1, <1>3 DEF StoreTypes, ChunkStoreTypeOK
  <2> QED
    BY <1>1, <1>3, <2>1, <2>2 DEF StoreTypes, ChunkStoreTypeOK
<1>9. HasName'
  BY <1>1, <1>3, <1>4 DEF HasName
<1>10. WritesItsName'
  BY <1>1, <1>3, <1>4, <1>5 DEF WritesItsName
<1>11. LinkedIsThere'
  BY <1>1, <1>2, <1>4, <1>5, <1>7 DEF LinkedIsThere
<1>12. CoversBeginning'
  BY <1>1, <1>3 DEF CoversBeginning
<1>13. StoredSoFar'
  <2>1. \A x \in Known : x \in Known'
    BY <1>3, <1>7 DEF Known
  <2>2. nm \in Known'
    BY <1>7 DEF Known
  <2>3. w \in Uploads => \A i \in 1..Len(hashes[w]) : hashes[w][i] \in Known'
    <3> SUFFICES ASSUME w \in Uploads, NEW i \in 1..Len(hashes[w]) PROVE hashes[w][i] \in Known'
      OBVIOUS
    <3>1. Len(hashes[w]) \in Nat
      BY <1>6
    <3>2. i = Len(hashes[w]) \/ i \in 1..(Len(hashes[w]) - 1)
      BY <3>1
    <3> QED
      BY <1>1, <1>6, <2>1, <2>2, <3>2 DEF StoredSoFar
  <2> QED
    BY <1>1, <1>3, <1>4, <2>1, <2>3 DEF StoredSoFar, Writers
<1>14. AvailableIsDone'
  BY <1>1, <1>3, <1>4 DEF AvailableIsDone, StoreTypes, ChunkStoreTypeOK, Writers
<1>15. ContentAddressed'
  <2> SUFFICES ASSUME NEW g \in DOMAIN dir' \ lost'
               PROVE  IsPrefix(g, dir'[g]) \/ \E v \in Writers : linked'[v] /\ Name(v)' = g
    BY DEF ContentAddressed
  <2>1. CASE g = nm
    BY <1>2, <1>4, <1>5, <2>1
  <2>2. CASE g # nm
    <3>1. g \in DOMAIN dir \ lost /\ dir'[g] = dir[g]
      BY <1>3, <1>7, <2>2
    <3>2. IsPrefix(g, dir[g]) \/ \E v \in Writers : linked[v] /\ Name(v) = g
      BY <1>1, <3>1 DEF ContentAddressed
    <3>3. \A v \in Writers : linked[v] => linked'[v]
      BY <1>4
    <3> QED
      BY <1>5, <3>1, <3>2, <3>3
  <2> QED
    BY <2>1, <2>2
<1> QED
  BY <1>8, <1>9, <1>10, <1>11, <1>12, <1>13, <1>14, <1>15 DEF ChunkStoreIInv

\* The name a writer made last is a name.
LEMMA NameType ==
    ASSUME StoreTypes, NEW w \in Writers, hashes[w] # <<>>
    PROVE  Name(w) \in Seq(Bytes) /\ Name(w) = hashes[w][Len(hashes[w])] /\ Len(hashes[w]) \in Nat \ {0}
<1>1. PICK S : S = Seq(Bytes)
  OBVIOUS
<1>2. PICK h : h = hashes[w]
  OBVIOUS
<1>3. h \in Seq(S) /\ h # <<>>
  BY <1>1, <1>2 DEF StoreTypes
<1>4. h[Len(h)] \in S /\ Len(h) \in Nat \ {0}
  BY ONLY <1>3
<1> QED
  BY <1>1, <1>2, <1>4 DEF Name

\* os.WriteFile writes, or fails to.
LEMMA WriteStep ==
    ASSUME ChunkStoreIInv, NEW w \in Writers, WriteFile(w) \/ WriteFails(w)
    PROVE  ChunkStoreIInv'
<1>1. /\ StoreTypes /\ HasName /\ WritesItsName /\ LinkedIsThere /\ CoversBeginning
      /\ StoredSoFar /\ AvailableIsDone /\ ContentAddressed /\ writerAt[w] = "write"
  BY DEF ChunkStoreIInv, WriteFile, WriteFails
<1>2. PICK nm : nm = Name(w)
  OBVIOUS
<1>3. hashes[w] # <<>> /\ nm \in Seq(Bytes) /\ Len(hashes[w]) \in Nat \ {0} /\ cleaned[w] = 0
  BY <1>1, <1>2, NameType DEF HasName
<1>4. PICK pt : pt = writerAt'[w]
  OBVIOUS
<1>5. /\ writerAt' = [writerAt EXCEPT ![w] = pt] /\ linked' = [linked EXCEPT ![w] = FALSE]
      /\ buf' = buf /\ hashes' = hashes /\ cleaned' = cleaned /\ available' = available
      /\ pt \in {"read", "done", "clean", "failed"}
      /\ WriteFails(w) => pt \in {"clean", "failed"}
  <2>1. CASE WriteFile(w)
    <3>1. pt = Written(w) /\ Written(w) \in {"read", "done"} /\ ~WriteFails(w)
      BY <1>1, <1>4, <2>1 DEF WriteFile, WriteFails, Written, Failed, StoreTypes, ChunkStoreTypeOK
    <3> QED
      BY <2>1, <3>1 DEF WriteFile
  <2>2. CASE WriteFails(w)
    <3>1. pt = Failed(w) /\ Failed(w) \in {"clean", "failed"}
      BY <1>1, <1>4, <2>2 DEF WriteFails, Failed, StoreTypes, ChunkStoreTypeOK
    <3> QED
      BY <2>2, <3>1 DEF WriteFails
  <2> QED
    BY <2>1, <2>2
<1>6. /\ ~linked'[w]
      /\ \A v \in Writers \ {w} : writerAt'[v] = writerAt[v] /\ linked'[v] = linked[v]
  BY <1>1, <1>5 DEF StoreTypes, ChunkStoreTypeOK
<1>7. \A v \in Writers : Name(v)' = Name(v)
  BY <1>5 DEF Name
<1>8. /\ DOMAIN dir' = DOMAIN dir /\ \A g \in DOMAIN dir \ {nm} : dir'[g] = dir[g]
      /\ \/ linked[w] /\ nm \in DOMAIN dir /\ dir'[nm] = buf[w] /\ lost' = lost \ {nm}
         \/ dir' = dir /\ lost' = lost /\ ~linked[w]
         \/ dir' = dir /\ lost' = lost \cup {nm}
  <2>1. CASE WriteFile(w) /\ linked[w]
    <3>1. nm \in DOMAIN dir /\ dir' = [dir EXCEPT ![nm] = buf[w]] /\ lost' = lost \ {nm}
      BY <1>1, <1>2, <2>1 DEF WriteFile, LinkedIsThere
    <3> QED
      BY <2>1, <3>1
  <2>2. CASE WriteFile(w) /\ ~linked[w]
    BY <2>2 DEF WriteFile
  <2>3. CASE WriteFails(w)
    BY <1>2, <2>3 DEF WriteFails
  <2> QED
    BY <2>1, <2>2, <2>3
<1>9. StoreTypes'
  <2>1. \A h \in DOMAIN dir' : h \in Seq(Bytes) /\ dir'[h] \in Seq(Bytes)
    <3>1. buf[w] \in Seq(Bytes)
      BY <1>1 DEF StoreTypes
    <3> QED
      BY <1>1, <1>8, <3>1 DEF StoreTypes, ChunkStoreTypeOK
  <2>2. /\ writerAt' \in [Writers -> {"read", "open", "write", "clean", "done", "failed"}]
        /\ linked' \in [Writers -> BOOLEAN]
    BY <1>1, <1>5 DEF StoreTypes, ChunkStoreTypeOK
  <2> QED
    BY <1>1, <1>5, <2>1, <2>2 DEF StoreTypes, ChunkStoreTypeOK
<1>10. HasName'
  <2>1. ASSUME NEW v \in Writers \ {w}
        PROVE  /\ writerAt'[v] \in {"open", "write", "clean"} => hashes'[v] # <<>>
               /\ writerAt'[v] = "clean" => cleaned'[v] < Len(hashes'[v])
               /\ writerAt'[v] \notin {"clean", "failed"} => cleaned'[v] = 0
    BY <1>1, <1>5, <1>6 DEF HasName
  <2>2. cleaned[w] < Len(hashes[w])
    BY <1>3
  <2> QED
    BY <1>3, <1>5, <2>1, <2>2 DEF HasName
<1>11. WritesItsName'
  BY <1>1, <1>4, <1>5, <1>6, <1>7 DEF WritesItsName
<1>12. LinkedIsThere'
  BY <1>1, <1>5, <1>6, <1>7, <1>8 DEF LinkedIsThere
<1>13. CoversBeginning'
  BY <1>1, <1>5 DEF CoversBeginning
<1>14. StoredSoFar'
  <2>1. \A x \in Known : x \in Known'
    BY <1>8 DEF Known
  <2> QED
    BY <1>1, <1>4, <1>5, <1>6, <2>1 DEF StoredSoFar, Writers
<1>15. AvailableIsDone'
  BY <1>1, <1>5, <1>6 DEF AvailableIsDone, StoreTypes, ChunkStoreTypeOK, Writers
<1>16. ContentAddressed'
  <2> SUFFICES ASSUME NEW g \in DOMAIN dir' \ lost'
               PROVE  IsPrefix(g, dir'[g]) \/ \E v \in Writers : linked'[v] /\ Name(v)' = g
    BY DEF ContentAddressed
  <2>1. CASE g = nm /\ linked[w] /\ dir'[nm] = buf[w]
    BY <1>1, <1>2, <2>1 DEF WritesItsName
  <2>2. CASE g = nm /\ ~linked[w] /\ dir' = dir /\ lost' = lost
    <3>1. IsPrefix(g, dir[g]) \/ \E v \in Writers : linked[v] /\ Name(v) = g
      BY <1>1, <2>2 DEF ContentAddressed
    <3> QED
      BY <1>6, <1>7, <2>2, <3>1
  <2>3. CASE g # nm
    <3>1. g \in DOMAIN dir \ lost /\ dir'[g] = dir[g]
      BY <1>8, <2>3
    <3>2. IsPrefix(g, dir[g]) \/ \E v \in Writers : linked[v] /\ Name(v) = g
      BY <1>1, <3>1 DEF ContentAddressed
    <3> QED
      BY <1>2, <1>6, <1>7, <2>3, <3>1, <3>2
  <2> QED
    BY <1>8, <2>1, <2>2, <2>3
<1> QED
  BY <1>9, <1>10, <1>11, <1>12, <1>13, <1>14, <1>15, <1>16 DEF ChunkStoreIInv

\* The directory after a step of an upload's clean-up or of a put: a file may
\* be gone, and then its name is lost.
LEMMA MaybeRemoved ==
    ASSUME ChunkStoreIInv,
           UNCHANGED <<dir, linked, lost>> \/ \E h \in DOMAIN dir : RemoveFile(h)
    PROVE  /\ Known' = Known /\ linked' \in [Writers -> BOOLEAN]
           /\ \A g \in DOMAIN dir' : g \in DOMAIN dir /\ dir'[g] = dir[g]
           /\ \A v \in Writers : linked'[v] => linked[v] /\ Name(v) \in DOMAIN dir'
           /\ \A g \in DOMAIN dir' \ lost' :
                 IsPrefix(g, dir'[g]) \/ \E v \in Writers : linked'[v] /\ Name(v) = g
<1>1. CASE UNCHANGED <<dir, linked, lost>>
  BY <1>1 DEF ChunkStoreIInv, StoreTypes, ChunkStoreTypeOK, LinkedIsThere, ContentAddressed, Known
<1>2. CASE \E h \in DOMAIN dir : RemoveFile(h)
  BY <1>2, RemoveFacts
<1> QED
  BY <1>1, <1>2

\* PutFile: the file is named, and another one may be evicted for it.
LEMMA PutStep ==
    ASSUME ChunkStoreIInv, NEW p \in Puts, Put(p)
    PROVE  ChunkStoreIInv'
<1>1. /\ StoreTypes /\ HasName /\ WritesItsName /\ LinkedIsThere /\ CoversBeginning
      /\ StoredSoFar /\ AvailableIsDone /\ ContentAddressed /\ writerAt[p] = "read"
      /\ p \in Writers /\ p \notin Uploads
  BY ChunkStoreAssumption DEF ChunkStoreIInv, Put, Writers
<1>2. /\ buf' = [buf EXCEPT ![p] = Content[p]] /\ hashes' = [hashes EXCEPT ![p] = <<Content[p]>>]
      /\ writerAt' = [writerAt EXCEPT ![p] = "open"] /\ cleaned' = cleaned /\ available' = available
      /\ UNCHANGED <<dir, linked, lost>> \/ \E h \in DOMAIN dir : RemoveFile(h)
  BY DEF Put
<1>3. /\ Known' = Known /\ linked' \in [Writers -> BOOLEAN]
      /\ \A g \in DOMAIN dir' : g \in DOMAIN dir /\ dir'[g] = dir[g]
      /\ \A v \in Writers : linked'[v] => linked[v] /\ Name(v) \in DOMAIN dir'
      /\ \A g \in DOMAIN dir' \ lost' :
            IsPrefix(g, dir'[g]) \/ \E v \in Writers : linked'[v] /\ Name(v) = g
  BY <1>2, MaybeRemoved
<1>4. PICK c : c = Content[p]
  OBVIOUS
<1>5. /\ c \in Seq(Bytes) /\ <<c>> \in Seq(Seq(Bytes)) /\ Len(<<c>>) = 1 /\ <<c>>[1] = c /\ <<c>> # <<>>
      /\ Len(c) \in Nat /\ IsPrefix(c, c)
  <2>1. c \in Seq(Bytes)
    BY <1>1, <1>4, ContentBytes
  <2>2. Len(c) \in Nat
    BY <2>1
  <2> QED
    BY <2>1, <2>2 DEF IsPrefix
<1>6. /\ hashes'[p] = <<c>> /\ buf'[p] = c /\ writerAt'[p] = "open"
      /\ \A v \in Writers \ {p} : hashes'[v] = hashes[v] /\ buf'[v] = buf[v] /\ writerAt'[v] = writerAt[v]
  BY <1>1, <1>2, <1>4 DEF StoreTypes, ChunkStoreTypeOK
<1>7. Name(p)' = c /\ \A v \in Writers \ {p} : Name(v)' = Name(v)
  BY <1>5, <1>6 DEF Name
<1>8. ~linked[p] /\ ~linked'[p]
  BY <1>1, <1>3 DEF LinkedIsThere
<1>9. StoreTypes'
  <2>1. hashes' \in [Writers -> Seq(Seq(Bytes))] /\ buf' \in [Writers -> Seq(Bytes)]
    BY <1>1, <1>2, <1>4, <1>5 DEF StoreTypes
  <2>2. writerAt' \in [Writers -> {"read", "open", "write", "clean", "done", "failed"}]
    BY <1>1, <1>2 DEF StoreTypes, ChunkStoreTypeOK
  <2>3. \A u \in Uploads : Len(buf'[u]) = ChunkSize
    BY <1>1, <1>6 DEF StoreTypes, ChunkStoreTypeOK, Writers
  <2>4. \A v \in Writers : cleaned'[v] \in 0..Len(hashes'[v])
    <3>1. cleaned[p] = 0
      BY <1>1 DEF HasName
    <3> QED
      BY <1>1, <1>2, <1>5, <1>6, <3>1 DEF StoreTypes, ChunkStoreTypeOK
  <2>5. \A h \in DOMAIN dir' : h \in Seq(Bytes) /\ dir'[h] \in Seq(Bytes)
    BY <1>1, <1>3 DEF StoreTypes, ChunkStoreTypeOK
  <2> QED
    BY <1>1, <1>2, <1>3, <2>1, <2>2, <2>3, <2>4, <2>5 DEF StoreTypes, ChunkStoreTypeOK
<1>10. HasName'
  BY <1>1, <1>2, <1>5, <1>6 DEF HasName
<1>11. WritesItsName'
  BY <1>1, <1>5, <1>6, <1>7 DEF WritesItsName
<1>12. LinkedIsThere'
  BY <1>1, <1>3, <1>6, <1>7, <1>8 DEF LinkedIsThere
<1>13. CoversBeginning'
  BY <1>1, <1>6 DEF CoversBeginning, Writers
<1>14. StoredSoFar'
  BY <1>1, <1>3, <1>6 DEF StoredSoFar, Writers
<1>15. AvailableIsDone'
  BY <1>1, <1>2, <1>6 DEF AvailableIsDone, StoreTypes, ChunkStoreTypeOK, Writers
<1>16. ContentAddressed'
  BY <1>3, <1>7, <1>8 DEF ContentAddressed
<1> QED
  BY <1>9, <1>10, <1>11, <1>12, <1>13, <1>14, <1>15, <1>16 DEF ChunkStoreIInv

\* The clean-up of a failed upload removes the next name, or ends.
LEMMA CleanStep ==
    ASSUME ChunkStoreIInv, NEW u \in Uploads, Clean(u)
    PROVE  ChunkStoreIInv'
<1>1. /\ StoreTypes /\ HasName /\ WritesItsName /\ LinkedIsThere /\ CoversBeginning
      /\ StoredSoFar /\ AvailableIsDone /\ ContentAddressed /\ writerAt[u] = "clean" /\ u \in Writers
  BY DEF ChunkStoreIInv, Clean, Writers
<1>2. UNCHANGED <<dir, linked, lost>> \/ \E h \in DOMAIN dir : RemoveFile(h)
  BY DEF Clean
<1>3. /\ Known' = Known /\ linked' \in [Writers -> BOOLEAN]
      /\ \A g \in DOMAIN dir' : g \in DOMAIN dir /\ dir'[g] = dir[g]
      /\ \A v \in Writers : linked'[v] => linked[v] /\ Name(v) \in DOMAIN dir'
      /\ \A g \in DOMAIN dir' \ lost' :
            IsPrefix(g, dir'[g]) \/ \E v \in Writers : linked'[v] /\ Name(v) = g
  BY <1>2, MaybeRemoved
<1>4. /\ cleaned[u] \in Nat /\ Len(hashes[u]) \in Nat /\ cleaned[u] < Len(hashes[u])
  BY <1>1 DEF StoreTypes, HasName
<1>5. /\ buf' = buf /\ hashes' = hashes /\ available' = available
      /\ \E k \in {cleaned[u], cleaned[u] + 1} : \E pt \in {"clean", "failed"} :
            /\ cleaned' = [cleaned EXCEPT ![u] = k] /\ writerAt' = [writerAt EXCEPT ![u] = pt]
            /\ pt = "clean" => k < Len(hashes[u])
  <2> DEFINE removes == hashes[u][cleaned[u] + 1] \in DOMAIN dir
  <2>1. /\ cleaned' = [cleaned EXCEPT ![u] = IF removes THEN @ + 1 ELSE @]
        /\ writerAt' = [writerAt EXCEPT ![u] =
               IF removes /\ ~(cleaned[u] + 1 = Len(hashes[u])) THEN "clean" ELSE "failed"]
        /\ buf' = buf /\ hashes' = hashes /\ available' = available
    BY DEF Clean
  <2> HIDE DEF removes
  <2>2. CASE removes /\ ~(cleaned[u] + 1 = Len(hashes[u]))
    <3>1. cleaned' = [cleaned EXCEPT ![u] = cleaned[u] + 1] /\ writerAt' = [writerAt EXCEPT ![u] = "clean"]
      BY <2>1, <2>2
    <3>2. cleaned[u] + 1 < Len(hashes[u])
      BY <1>4, <2>2
    <3> QED
      BY <2>1, <3>1, <3>2
  <2>3. CASE removes /\ cleaned[u] + 1 = Len(hashes[u])
    <3>1. cleaned' = [cleaned EXCEPT ![u] = cleaned[u] + 1] /\ writerAt' = [writerAt EXCEPT ![u] = "failed"]
      BY <2>1, <2>3
    <3> QED
      BY <2>1, <3>1
  <2>4. CASE ~removes
    <3>1. cleaned' = [cleaned EXCEPT ![u] = cleaned[u]] /\ writerAt' = [writerAt EXCEPT ![u] = "failed"]
      BY <2>1, <2>4
    <3> QED
      BY <2>1, <3>1
  <2> QED
    BY <2>2, <2>3, <2>4
<1>6. PICK k \in {cleaned[u], cleaned[u] + 1} : \E pt \in {"clean", "failed"} :
            /\ cleaned' = [cleaned EXCEPT ![u] = k] /\ writerAt' = [writerAt EXCEPT ![u] = pt]
            /\ pt = "clean" => k < Len(hashes[u])
  BY <1>5
<1>7. PICK pt \in {"clean", "failed"} :
            /\ cleaned' = [cleaned EXCEPT ![u] = k] /\ writerAt' = [writerAt EXCEPT ![u] = pt]
            /\ pt = "clean" => k < Len(hashes[u])
  BY <1>6
<1>8. /\ cleaned'[u] = k /\ writerAt'[u] = pt /\ k \in 0..Len(hashes[u]) /\ k \in Nat
      /\ \A v \in Writers \ {u} : cleaned'[v] = cleaned[v] /\ writerAt'[v] = writerAt[v]
  BY <1>1, <1>4, <1>6, <1>7 DEF StoreTypes, ChunkStoreTypeOK
<1>9. \A v \in Writers : Name(v)' = Name(v)
  BY <1>5 DEF Name
<1>10. StoreTypes'
  <2>1. writerAt' \in [Writers -> {"read", "open", "write", "clean", "done", "failed"}]
    BY <1>1, <1>7 DEF StoreTypes, ChunkStoreTypeOK
  <2>2. cleaned' \in [Writers -> Nat]
    BY <1>1, <1>7, <1>8 DEF StoreTypes
  <2>3. \A v \in Writers : cleaned'[v] \in 0..Len(hashes'[v])
    BY <1>1, <1>5, <1>8 DEF StoreTypes, ChunkStoreTypeOK
  <2>4. \A h \in DOMAIN dir' : h \in Seq(Bytes) /\ dir'[h] \in Seq(Bytes)
    BY <1>1, <1>3 DEF StoreTypes, ChunkStoreTypeOK
  <2> QED
    BY <1>1, <1>3, <1>5, <2>1, <2>2, <2>3, <2>4 DEF StoreTypes, ChunkStoreTypeOK
<1>11. HasName'
  BY <1>1, <1>5, <1>7, <1>8 DEF HasName
<1>12. WritesItsName'
  BY <1>1, <1>5, <1>7, <1>8, <1>9 DEF WritesItsName
<1>13. LinkedIsThere'
  BY <1>1, <1>3, <1>8, <1>9 DEF LinkedIsThere
<1>14. CoversBeginning'
  BY <1>1, <1>5 DEF CoversBeginning
<1>15. StoredSoFar'
  BY <1>1, <1>3, <1>5, <1>7, <1>8 DEF StoredSoFar, Writers
<1>16. AvailableIsDone'
  BY <1>1, <1>5, <1>8 DEF AvailableIsDone, StoreTypes, ChunkStoreTypeOK, Writers
<1>17. ContentAddressed'
  BY <1>3, <1>9 DEF ContentAddressed
<1> QED
  BY <1>10, <1>11, <1>12, <1>13, <1>14, <1>15, <1>16, <1>17 DEF ChunkStoreIInv

\* Every step of the chunk store keeps the invariant.
LEMMA ChunkStoreNextIInv == ChunkStoreIInv /\ [ChunkStoreNext]_chunkStoreVars => ChunkStoreIInv'
<1> SUFFICES ASSUME ChunkStoreIInv, [ChunkStoreNext]_chunkStoreVars PROVE ChunkStoreIInv'
  OBVIOUS
<1>1. ASSUME NEW u \in Uploads, ReadChunk(u) \/ ReadFails(u) \/ Register(u) \/ Clean(u)
      PROVE  ChunkStoreIInv'
  BY <1>1, ReadChunkStep, EndStep, CleanStep DEF Writers
<1>2. ASSUME NEW w \in Writers, OpenFile(w) \/ OpenFails(w) \/ WriteFile(w) \/ WriteFails(w)
      PROVE  ChunkStoreIInv'
  BY <1>2, OpenFileStep, EndStep, WriteStep
<1>3. CASE UNCHANGED chunkStoreVars
  BY <1>3 DEF chunkStoreVars, ChunkStoreIInv, StoreTypes, ChunkStoreTypeOK, HasName, WritesItsName,
              LinkedIsThere, CoversBeginning, StoredSoFar, Known, AvailableIsDone, ContentAddressed, Name
<1> QED
  BY <1>1, <1>2, <1>3, PutStep DEF ChunkStoreNext

\* What an upload registered is in files/stored under its hash, unless another
\* writer's clean-up or eviction removed it, and adds up to the file, for any
\* uploads and puts, any contents and any size of a chunk.
THEOREM AvailableIsThere == ChunkStoreSpec => []ChunkStoreInvariant
<1>1. ChunkStoreInit => ChunkStoreIInv
  BY ChunkStoreInitIInv
<1>2. ChunkStoreIInv /\ [ChunkStoreNext]_chunkStoreVars => ChunkStoreIInv'
  BY ChunkStoreNextIInv
<1>3. ChunkStoreIInv => ChunkStoreInvariant
  BY ChunkStoreIInvImplies
<1> QED
  BY <1>1, <1>2, <1>3, PTL DEF ChunkStoreSpec

=============================================================================
