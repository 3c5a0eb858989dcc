------------------------- MODULE FileTransferProofs -------------------------
(***************************************************************************)
(* Proofs about FileTransfer for any number of jobs, "get"s, holders and   *)
(* files, and any chunk counts and offers.                                 *)
(***************************************************************************)
EXTENDS FileTransfer, JobTableProofs, WellFoundedInduction, FiniteSetTheorems

\* Job workers are workers, and the two kinds are apart.
LEMMA WorkerSets ==
    /\ JobIds \subseteq Workers
    /\ Gets \subseteq Workers
    /\ Workers \subseteq Int
BY MaxJobsAssumption, TransferAssumption DEF JobIds, Gets, Workers

\* A non-empty set of naturals has a least element.
LEMMA LeastNatural ==
    ASSUME NEW S, S \subseteq Nat, S # {}
    PROVE  \E n \in S : \A m \in S : n <= m
<1>1. PICK n \in S : \A m \in S : ~(<<m, n>> \in OpToRel(<, Nat))
  BY NatLessThanWellFounded, WFMin
<1>2. \A m \in S : ~(m < n)
  BY <1>1 DEF OpToRel
<1> QED
  BY <1>2

\* jobRoutine picks an offer that no other undercuts.
LEMMA BestHolderFacts ==
    ASSUME NEW offers \in Offers, offers # <<>>
    PROVE  /\ BestHolder(offers) \in Offer
           /\ \A k \in DOMAIN offers : BestHolder(offers).price <= offers[k].price
<1>1. offers \in Seq(Offer)
  BY TransferAssumption
<1>2. /\ DOMAIN offers \subseteq Nat
      /\ DOMAIN offers # {}
      /\ \A k \in DOMAIN offers : offers[k] \in Offer /\ offers[k].price \in Nat
  <2>1. Len(offers) \in Nat /\ DOMAIN offers = 1..Len(offers) /\ Len(offers) # 0
    BY <1>1
  <2>2. \A k \in DOMAIN offers : offers[k] \in Offer
    BY <1>1
  <2> QED
    BY <2>1, <2>2 DEF Offer
<1> DEFINE prices == {offers[k].price : k \in DOMAIN offers}
           Cheapest(i) == \A k \in DOMAIN offers : offers[i].price <= offers[k].price
           first == {i \in DOMAIN offers : Cheapest(i)}
<1>3. PICK p \in prices : \A q \in prices : p <= q
  <2>1. prices \subseteq Nat /\ prices # {}
    BY <1>2
  <2> QED
    BY <2>1, LeastNatural
<1>4. first \subseteq Nat /\ first # {}
  <2>1. PICK k \in DOMAIN offers : offers[k].price = p
    BY <1>3
  <2>2. k \in first
    BY <1>3, <2>1
  <2> QED
    BY <1>2, <2>2
<1>5. PICK i \in first : \A k \in first : i <= k
  BY <1>4, LeastNatural
<1> DEFINE Best(n) == \A k \in DOMAIN offers :
                        /\ offers[n].price <= offers[k].price
                        /\ offers[n].price = offers[k].price => n <= k
<1>6. Best(i)
  BY <1>2, <1>5
<1>7. PICK n \in DOMAIN offers : Best(n) /\ BestHolder(offers) = offers[n]
  BY <1>5, <1>6 DEF BestHolder
<1> QED
  BY <1>2, <1>7

-----------------------------------------------------------------------------
(* Types *)

\* A worker that has left "idle" knows its file.
FileKnown == \A w \in Workers : pc[w] # "idle" => file[w] \in Files

TypeInv == TypeOK /\ FileKnown

\* The transfer starts well typed, with every worker idle.
LEMMA InitTypeInv == Init => TypeInv
<1> SUFFICES ASSUME Init PROVE TypeInv
  OBVIOUS
<1>1. TableTypeOK
  BY TableInitTypeOK DEF Init
<1>2. NoOffer \in Offer \cup {NoOffer}
  OBVIOUS
<1>3. disk \in [Files -> Seq(Nat)]
  BY DEF Init
<1> QED
  BY <1>1, <1>2, <1>3 DEF Init, TypeInv, TypeOK, FileKnown

\* The actions of one worker that leave the table alone.
LEMMA QuietTable ==
    ASSUME TypeInv, jobs' = jobs, issued' = issued, scan' = scan
    PROVE  TableTypeOK'
BY DEF TypeInv, TypeOK, TableTypeOK

\* StatusChange only resets counters.
LEMMA StatusChangeType ==
    ASSUME TypeInv, NEW j \in JobIds, StatusChange(j)
    PROVE  late' \in [JobIds -> Nat] /\ misread' \in [JobIds -> Nat]
BY DEF TypeInv, TypeOK, StatusChange

\* AddJobHandler, get and the job routes keep the types.
LEMMA UserType ==
    ASSUME TypeInv, User
    PROVE  TypeInv'
<1> USE DEF TypeInv
<1>t. TableTypeOK
  BY DEF TypeOK
<1>0. JobIds \subseteq Workers /\ Gets \subseteq Workers
  BY WorkerSets
<1>1. ASSUME NEW j \in JobIds, NEW f \in Files, AddJobHandler(j, f)
      PROVE  TypeInv'
  <2>1. TableTypeOK'
    BY <1>1, <1>t, AddJobFacts DEF AddJobHandler
  <2> QED
    BY <1>0, <1>1, <2>1 DEF AddJobHandler, Goto, TypeOK, FileKnown, Running, ghostVars
<1>2. ASSUME NEW j \in JobIds,
             UserStarts(j) \/ UserPauses(j) \/ UserTerminates(j) \/ UserRemoves(j)
      PROVE  TypeInv'
  <2>1. \/ \E s \in Status : SetStatus(j, s)
        \/ RemoveFromHistory(j)
    BY <1>2 DEF UserStarts, UserPauses, UserTerminates, UserRemoves,
                StartJob, PauseJob, TerminateJob, Status
  <2>2. TableTypeOK'
    BY <1>t, <2>1, SetStatusFacts, RemoveFacts
  <2>3. OnlyTable(j) /\ revived' \in SUBSET JobIds
    BY <1>2 DEF UserStarts, UserPauses, UserTerminates, UserRemoves, TypeOK
  <2>4. late' \in [JobIds -> Nat] /\ misread' \in [JobIds -> Nat]
    BY <2>3, StatusChangeType DEF OnlyTable
  <2> QED
    BY <2>2, <2>3, <2>4 DEF OnlyTable, workerVars, TypeOK, FileKnown
<1>3. ASSUME NEW w \in Gets, NEW f \in Files, Get(w, f)
      PROVE  TypeInv'
  <2>1. TableTypeOK'
    BY <1>3, QuietTable DEF Get
  <2> QED
    BY <1>0, <1>3, <2>1 DEF Get, Goto, TypeOK, FileKnown, Running, ghostVars
<1> QED
  BY <1>1, <1>2, <1>3 DEF User

\* Every step of jobRoutine and GetFileOnce keeps the types.
LEMMA WorkerType ==
    ASSUME TypeInv, NEW w \in Workers, Worker(w)
    PROVE  TypeInv'
<1> USE DEF TypeInv
<1>t. TableTypeOK /\ holder[w].price \in Nat
  BY DEF TypeOK, Offer, NoOffer
<1>1. CASE Lookup(w)
  <2>1. TableTypeOK'
    BY <1>1, QuietTable DEF Lookup
  <2>2. holder' \in [Workers -> Offer \cup {NoOffer}]
    BY <1>1, BestHolderFacts DEF Lookup, TypeOK
  <2> QED
    BY <1>1, <2>1, <2>2 DEF Lookup, Goto, TypeOK, FileKnown, Running, Ended, ghostVars
<1>2. CASE Connect(w)
  BY <1>2, QuietTable DEF Connect, Goto, TypeOK, FileKnown, Running, Open, ghostVars
<1>3. CASE SendRequest(w)
  BY <1>3, QuietTable DEF SendRequest, Goto, TypeOK, FileKnown, Running, Open, ghostVars
<1>4. CASE Receive(w)
  BY <1>4, QuietTable DEF Receive, Goto, TypeOK, FileKnown, Running, Open, ghostVars
<1>5. CASE Pay(w)
  <2>1. TableTypeOK'
    BY <1>5, QuietTable DEF Pay
  <2>2. late' \in [JobIds -> Nat]
    <3>1. late \in [JobIds -> Nat] /\ \A j \in JobIds : late[j] + 1 \in Nat
      BY DEF TypeOK
    <3>2. CASE w \in JobIds /\ Stopped(w)
      <4>1. late' = late \/ late' = [late EXCEPT ![w] = late[w] + 1]
        BY <1>5, <3>2 DEF Pay
      <4> QED
        BY <3>1, <3>2, <4>1
    <3>3. CASE ~(w \in JobIds /\ Stopped(w))
      BY <1>5, <3>1, <3>3 DEF Pay
    <3> QED
      BY <3>2, <3>3
  <2>3. paid' \in [Workers -> Nat] /\ spent' \in [Workers -> Nat]
    <3>1. /\ paid \in [Workers -> Nat] /\ paid[w] + 1 \in Nat
          /\ spent \in [Workers -> Nat] /\ spent[w] + holder[w].price \in Nat
      BY <1>t DEF TypeOK
    <3>2. \/ paid' = paid /\ spent' = spent
          \/ /\ paid' = [paid EXCEPT ![w] = paid[w] + 1]
             /\ spent' = [spent EXCEPT ![w] = spent[w] + holder[w].price]
      BY <1>5 DEF Pay
    <3> QED
      BY <3>1, <3>2
  <2>4. pc' \in [Workers -> {"idle"} \cup Running \cup Ended] /\ FileKnown'
    BY <1>5 DEF Pay, Goto, TypeOK, FileKnown, Running
  <2> QED
    BY <1>5, <2>1, <2>2, <2>3, <2>4 DEF Pay, TypeOK
<1>6. CASE Account(w)
  <2>1. TableTypeOK'
    BY <1>6, <1>t, UpdateJobCostFacts, QuietTable DEF Account
  <2> QED
    BY <1>6, <2>1 DEF Account, Goto, TypeOK, FileKnown, Running, ghostVars
<1>7. CASE WriteChunk(w)
  <2> USE <1>7 DEF WriteChunk, WriteChunkWith
  <2>1. TableTypeOK'
    BY QuietTable
  <2>2. file[w] \in Files
    BY DEF FileKnown
  <2>3. disk' \in [Files -> Seq(Nat)]
    BY <2>2 DEF TypeOK
  <2>4. written' \in [Workers -> Nat] /\ next' \in [Workers -> Nat]
    <3>1. /\ written \in [Workers -> Nat] /\ written[w] + 1 \in Nat
          /\ next \in [Workers -> Nat] /\ next[w] + 1 \in Nat
      BY DEF TypeOK
    <3>2. /\ written' = [written EXCEPT ![w] = written[w] + 1]
          /\ next' = next \/ next' = [next EXCEPT ![w] = next[w] + 1]
      OBVIOUS
    <3> QED
      BY <3>1, <3>2
  <2>5. pc' \in [Workers -> {"idle"} \cup Running \cup Ended] /\ FileKnown'
    BY DEF Goto, TypeOK, FileKnown, Running
  <2> QED
    BY <2>1, <2>3, <2>4, <2>5 DEF TypeOK
<1>8. ASSUME NEW from \in Running, NEW s \in Status, NEW to \in Ended, Report(w, from, s, to)
      PROVE  TypeInv'
  <2> USE <1>8 DEF Report
  <2>1. TableTypeOK'
    BY <1>t, SetStatusFacts, QuietTable DEF UpdateJobStatus
  <2>2. late' \in [JobIds -> Nat] /\ misread' \in [JobIds -> Nat]
    BY StatusChangeType DEF TypeOK
  <2>3. pc' \in [Workers -> {"idle"} \cup Running \cup Ended] /\ FileKnown'
    BY DEF Goto, TypeOK, FileKnown, Running
  <2>4. stream' \in [Workers -> {"none", "closed"} \cup Open]
    BY DEF TypeOK
  <2> QED
    BY <2>1, <2>2, <2>3, <2>4 DEF TypeOK
<1>9. CASE Finish(w)
  BY <1>9, <1>8 DEF Finish, Running, Ended, Status
<1>10. CASE Fail(w)
  BY <1>10, <1>8 DEF Fail, Running, Ended, Status
<1>11. CASE w \in JobIds /\ BeginCheck(w)
  <2>1. TableTypeOK'
    BY <1>11, <1>t, ScanFacts DEF BeginCheck
  <2> QED
    BY <1>11, <2>1 DEF BeginCheck, Goto, TypeOK, FileKnown, Running, ghostVars
<1>12. ASSUME w \in JobIds, NEW s \in scan[w], NEW from \in Running,
              NEW to \in Running \cup Ended, EndScan(w, s, from, to)
       PROVE  TypeInv'
  <2> USE <1>12 DEF EndScan
  <2>1. TableTypeOK'
    BY <1>t, ScanFacts
  <2>2. misread' \in [JobIds -> Nat] /\ stream' \in [Workers -> {"none", "closed"} \cup Open]
    BY DEF TypeOK
  <2>3. pc' \in [Workers -> {"idle"} \cup Running \cup Ended] /\ FileKnown'
    BY DEF Goto, TypeOK, FileKnown, Running
  <2> QED
    BY <2>1, <2>2, <2>3 DEF TypeOK
<1>13. CASE w \in JobIds /\ (EndCheck(w) \/ EndPoll(w))
  BY <1>13, <1>12 DEF EndCheck, EndPoll, Running, Ended
<1> QED
  BY <1>1, <1>2, <1>3, <1>4, <1>5, <1>6, <1>7, <1>9, <1>10, <1>11, <1>13 DEF Worker

\* Holders, broken streams and the end of the process keep the types.
LEMMA NetworkType ==
    ASSUME TypeInv, Network \/ Kill
    PROVE  TypeInv'
<1> USE DEF TypeInv
<1>t. TableTypeOK
  BY DEF TypeOK
<1>1. ASSUME NEW w \in Workers, Serve(w) \/ Break(w)
      PROVE  TypeInv'
  BY <1>1, QuietTable DEF Serve, Break, TypeOK, FileKnown, Open, ghostVars
<1>2. ASSUME NEW p, HolderDies(p)
      PROVE  TypeInv'
  BY <1>2, QuietTable DEF HolderDies, TypeOK, FileKnown, ghostVars
<1>3. ASSUME NEW p \in Peers, NEW f \in Files, HolderRegisters(p, f)
      PROVE  TypeInv'
  BY <1>3, QuietTable DEF HolderRegisters, TypeOK, FileKnown, workerVars, ghostVars
<1>4. CASE Kill
  <2>1. TableTypeOK'
    BY <1>4, <1>t, RestartFacts DEF Kill
  <2> QED
    BY <1>4, <2>1 DEF Kill, TypeOK, FileKnown, Running, Ended
<1> QED
  BY <1>1, <1>2, <1>3, <1>4 DEF Network, HolderPanics

\* The type invariant is inductive.
LEMMA NextTypeInv == TypeInv /\ [Next]_vars => TypeInv'
<1> SUFFICES ASSUME TypeInv, [Next]_vars PROVE TypeInv'
  OBVIOUS
<1>1. CASE UNCHANGED vars
  BY <1>1 DEF vars, TypeInv, TypeOK, TableTypeOK, FileKnown
<1> QED
  BY <1>1, UserType, WorkerType, NetworkType DEF Next

-----------------------------------------------------------------------------
(* Payments and chunks *)

\* Where a worker has not asked for anything yet, where it has dealt with
\* every chunk below next, and where it has paid for chunk next.
Before == {"idle", "lookup", "connect", "unheld"}
Between == {"request", "recv", "pay", "check", "scan", "poll", "pollscan"}
Paid == {"account", "write"}

\* How payments, written chunks and the next index go together.
Worked(w) ==
    /\ pc[w] \in Before => next[w] = 0 /\ written[w] = 0 /\ paid[w] = 0
    /\ pc[w] \in Between => written[w] = next[w] /\ paid[w] = next[w]
    /\ pc[w] \in Paid => written[w] = next[w] /\ paid[w] = next[w] + 1
    /\ pc[w] \in {"finish", "finished"} =>
         written[w] = Chunks[file[w]] /\ paid[w] = Chunks[file[w]]
    /\ written[w] <= paid[w] /\ paid[w] <= written[w] + 1

\* Only index 0 of an empty file is ever asked for out of range.
InRange(w) ==
    /\ pc[w] \in Between \cup Paid => next[w] = 0 \/ next[w] < Chunks[file[w]]
    /\ pc[w] \in {"pay"} \cup Paid => next[w] < Chunks[file[w]]
    /\ stream[w] \in {"request", "response"} => pc[w] = "recv"
    /\ stream[w] = "response" => next[w] < Chunks[file[w]]

Money(w) == Worked(w) /\ InRange(w)

MoneyInv == \A w \in Workers : Money(w)

\* A step that does not touch a worker, except that it may close its stream.
LEMMA MoneySame ==
    ASSUME NEW w \in Workers, Money(w),
           pc'[w] = pc[w], file'[w] = file[w], next'[w] = next[w],
           written'[w] = written[w], paid'[w] = paid[w],
           stream'[w] = stream[w] \/ stream'[w] = "closed"
    PROVE  Money(w)'
BY DEF Money, Worked, InRange

\* Nothing is paid or written at the start.
LEMMA InitMoney == Init => MoneyInv
BY DEF Init, MoneyInv, Money, Worked, InRange, Before, Between, Paid

\* One step of worker w, seen by w.
LEMMA WorkerMoney ==
    ASSUME TypeInv, NEW w \in Workers, Money(w), Worker(w)
    PROVE  Money(w)'
<1> USE DEF Money, Before, Between, Paid
<1>t. /\ next[w] \in Nat /\ written[w] \in Nat /\ paid[w] \in Nat
      /\ pc \in [Workers -> {"idle"} \cup Running \cup Ended]
      /\ stream \in [Workers -> {"none", "closed"} \cup Open]
      /\ next \in [Workers -> Nat] /\ written \in [Workers -> Nat] /\ paid \in [Workers -> Nat]
  BY DEF TypeInv, TypeOK
<1>f. pc[w] # "idle" => Chunks[file[w]] \in Nat
  BY TransferAssumption DEF TypeInv, FileKnown
<1>1. CASE Lookup(w)
  BY <1>1, <1>t DEF Lookup, Goto, Worked, InRange, ghostVars
<1>2. CASE Connect(w)
  BY <1>2, <1>t DEF Connect, Goto, Worked, InRange, ghostVars
<1>3. CASE SendRequest(w)
  BY <1>3, <1>t DEF SendRequest, Goto, Worked, InRange, ghostVars
<1>4. CASE Receive(w)
  BY <1>4, <1>t DEF Receive, Goto, Worked, InRange, ghostVars
<1>5. CASE Pay(w)
  BY <1>5, <1>t DEF Pay, Goto, Worked, InRange
<1>6. CASE Account(w)
  BY <1>6, <1>t DEF Account, Goto, Worked, InRange, ghostVars
<1>7. CASE WriteChunk(w)
  BY <1>7, <1>t, <1>f DEF WriteChunk, WriteChunkWith, Goto, Worked, InRange
<1>8. ASSUME Finish(w) \/ Fail(w)
      PROVE  Money(w)'
  BY <1>8, <1>t DEF Finish, Fail, Report, Goto, Worked, InRange
<1>9. CASE w \in JobIds /\ BeginCheck(w)
  BY <1>9, <1>t DEF BeginCheck, Goto, Worked, InRange, ghostVars
<1>10. CASE w \in JobIds /\ EndCheck(w)
  BY <1>10, <1>t DEF EndCheck, EndScan, Goto, Worked, InRange
<1>11. CASE w \in JobIds /\ EndPoll(w)
  BY <1>11, <1>t DEF EndPoll, EndScan, Goto, Worked, InRange
<1> QED
  BY <1>1, <1>2, <1>3, <1>4, <1>5, <1>6, <1>7, <1>8, <1>9, <1>10, <1>11 DEF Worker

\* A worker's step changes nothing of another worker.
LEMMA WorkerLocal ==
    ASSUME TypeInv, NEW w \in Workers, NEW v \in Workers \ {w}, Worker(w)
    PROVE  /\ pc'[v] = pc[v] /\ file'[v] = file[v] /\ holder'[v] = holder[v]
           /\ next'[v] = next[v] /\ stream'[v] = stream[v]
           /\ paid'[v] = paid[v] /\ spent'[v] = spent[v] /\ written'[v] = written[v]
<1>t. /\ pc \in [Workers -> {"idle"} \cup Running \cup Ended]
      /\ stream \in [Workers -> {"none", "closed"} \cup Open]
      /\ holder \in [Workers -> Offer \cup {NoOffer}]
      /\ next \in [Workers -> Nat] /\ written \in [Workers -> Nat]
      /\ paid \in [Workers -> Nat] /\ spent \in [Workers -> Nat]
  BY DEF TypeInv, TypeOK
<1>1. CASE Lookup(w) \/ Connect(w) \/ SendRequest(w) \/ Receive(w) \/ Account(w)
  BY <1>1, <1>t DEF Lookup, Connect, SendRequest, Receive, Account, Goto, ghostVars
<1>2. CASE Pay(w) \/ WriteChunk(w)
  BY <1>2, <1>t DEF Pay, WriteChunk, WriteChunkWith, Goto
<1>3. CASE Finish(w) \/ Fail(w)
  BY <1>3, <1>t DEF Finish, Fail, Report, Goto
<1>4. CASE w \in JobIds /\ (BeginCheck(w) \/ EndCheck(w) \/ EndPoll(w))
  BY <1>4, <1>t DEF BeginCheck, EndCheck, EndPoll, EndScan, Goto, ghostVars
<1> QED
  BY <1>1, <1>2, <1>3, <1>4 DEF Worker

\* Steps of the user: they touch no worker, except to start one.
LEMMA UserMoney ==
    ASSUME TypeInv, User, NEW v \in Workers, Money(v)
    PROVE  Money(v)'
<1>t. pc \in [Workers -> {"idle"} \cup Running \cup Ended] /\ file \in [Workers -> Files \cup {None}]
  BY DEF TypeInv, TypeOK
<1>1. ASSUME NEW w \in Workers, Goto(w, "idle", "lookup"), NEW f, file' = [file EXCEPT ![w] = f],
             UNCHANGED <<next, stream, ghostVars>>
      PROVE  Money(v)'
  <2>1. CASE v = w
    BY <1>1, <1>t, <2>1 DEF Goto, Money, Worked, InRange, Before, Between, Paid, ghostVars
  <2>2. CASE v # w
    BY <1>1, <1>t, <2>2, MoneySame DEF Goto, ghostVars
  <2> QED
    BY <2>1, <2>2
<1>2. ASSUME NEW j \in JobIds, OnlyTable(j)
      PROVE  Money(v)'
  BY <1>2, MoneySame DEF OnlyTable, workerVars
<1> QED
  BY <1>1, <1>2, WorkerSets
  DEF User, AddJobHandler, Get, UserStarts, UserPauses, UserTerminates, UserRemoves

\* Steps of holders, of the network and of the process.
LEMMA NetworkMoney ==
    ASSUME TypeInv, Network \/ Kill, NEW v \in Workers, Money(v)
    PROVE  Money(v)'
<1>t. /\ pc \in [Workers -> {"idle"} \cup Running \cup Ended]
      /\ stream \in [Workers -> {"none", "closed"} \cup Open]
  BY DEF TypeInv, TypeOK
<1>1. ASSUME NEW w \in Workers, Serve(w)
      PROVE  Money(v)'
  <2>1. CASE v = w
    BY <1>1, <1>t, <2>1 DEF Serve, Money, Worked, InRange, ghostVars
  <2>2. CASE v # w
    BY <1>1, <1>t, <2>2, MoneySame DEF Serve, ghostVars
  <2> QED
    BY <2>1, <2>2
<1>2. ASSUME NEW w \in Workers, Break(w)
      PROVE  Money(v)'
  BY <1>2, <1>t, MoneySame DEF Break, ghostVars
<1>3. ASSUME NEW p, HolderDies(p)
      PROVE  Money(v)'
  BY <1>3, <1>t, MoneySame DEF HolderDies, ghostVars
<1>4. ASSUME NEW p \in Peers, NEW f \in Files, HolderRegisters(p, f)
      PROVE  Money(v)'
  BY <1>4, MoneySame DEF HolderRegisters, workerVars, ghostVars
<1>5. CASE Kill
  <2>1. CASE pc[v] \in Running
    BY <1>5, <1>t, <2>1 DEF Kill, Money, Worked, InRange, Before, Between, Paid, Running, Open
  <2>2. CASE pc[v] \notin Running
    BY <1>5, <1>t, <2>2, MoneySame DEF Kill
  <2> QED
    BY <2>1, <2>2
<1> QED
  BY <1>1, <1>2, <1>3, <1>4, <1>5 DEF Network, HolderPanics

\* The payments, the written chunks and the index stay together in every step.
LEMMA NextMoney == TypeInv /\ MoneyInv /\ [Next]_vars => MoneyInv'
<1> SUFFICES ASSUME TypeInv, MoneyInv, [Next]_vars, NEW v \in Workers
             PROVE  Money(v)'
  BY DEF MoneyInv
<1>0. Money(v)
  BY DEF MoneyInv
<1>1. CASE UNCHANGED vars
  BY <1>0, <1>1, MoneySame DEF vars
<1>2. CASE User
  BY <1>0, <1>2, UserMoney
<1>3. CASE \E w \in Workers : Worker(w)
  BY <1>0, <1>3, WorkerMoney, WorkerLocal, MoneySame
<1>4. CASE Network \/ Kill
  BY <1>0, <1>4, NetworkMoney
<1> QED
  BY <1>1, <1>2, <1>3, <1>4 DEF Next

-----------------------------------------------------------------------------
(* A job and its worker *)

\* AccumulatedCost against what was spent, exactly.
Costed(j) ==
    /\ InTable(j) => pc[j] # "idle"
    /\ pc[j] \in Before => spent[j] = 0
    /\ InTable(j) =>
         /\ pc[j] = "account" => spent[j] = jobs[j].cost + holder[j].price
         /\ pc[j] \in {"fail", "failed"} =>
              spent[j] = jobs[j].cost \/ spent[j] = jobs[j].cost + holder[j].price
         /\ pc[j] \notin {"account", "fail", "failed"} => spent[j] = jobs[j].cost

\* Where a stopped job can still pay before it looks at its status: a paused
\* worker whose job was terminated is among them.
Ahead(j) ==
    \/ pc[j] \in {"lookup", "connect", "request", "recv", "pay"}
    \/ pc[j] \in {"poll", "pollscan"} /\ jobs[j].status = "terminated"

Stopping(j) ==
    Stopped(j) => /\ late[j] <= 1 + misread[j]
                  /\ Ahead(j) => late[j] <= misread[j]

Finished(j) == jobs[j].status = "finished" => pc[j] = "finished"

Active(j) ==
    jobs[j].status = "active" =>
        pc[j] \in Running \/ pc[j] = "unheld" \/ j \in revived \/ misread[j] > 0

Job(j) == Costed(j) /\ Stopping(j) /\ Finished(j) /\ Active(j)

JobInv == \A j \in JobIds : Job(j)

\* There is no job at the start.
LEMMA InitJob == Init => JobInv
<1> SUFFICES ASSUME Init, NEW j \in JobIds PROVE Job(j)
  BY DEF JobInv
<1>1. j \in Workers
  BY WorkerSets
<1>2. jobs[j].status = "" /\ pc[j] = "idle" /\ spent[j] = 0
  BY <1>1 DEF Init, TableInit, Absent, NoStatus
<1> QED
  BY <1>2 DEF Job, Costed, Stopping, Stopped, Finished, Active, InTable, NoStatus

\* A step that touches neither job j nor its worker.
LEMMA JobSame ==
    ASSUME NEW j \in JobIds, Job(j),
           jobs'[j] = jobs[j], pc'[j] = pc[j], spent'[j] = spent[j], holder'[j] = holder[j],
           late'[j] = late[j], misread'[j] = misread[j], revived \subseteq revived'
    PROVE  Job(j)'
BY DEF Job, Costed, Stopping, Stopped, Ahead, Finished, Active, InTable

\* What is known of the variables a job's invariant is about.
JobTypes(j) ==
    /\ pc \in [Workers -> {"idle"} \cup Running \cup Ended]
    /\ jobs \in [JobIds -> Row]
    /\ jobs[j].cost \in Nat
    /\ jobs[j].status \in Status \cup {NoStatus}
    /\ spent \in [Workers -> Nat] /\ spent[j] \in Nat
    /\ holder \in [Workers -> Offer \cup {NoOffer}] /\ holder[j].price \in Nat
    /\ late \in [JobIds -> Nat] /\ late[j] \in Nat
    /\ misread \in [JobIds -> Nat] /\ misread[j] \in Nat

\* What the type invariant says of one job and its worker.
LEMMA TypeInvJob == ASSUME TypeInv, NEW j \in JobIds PROVE JobTypes(j) /\ j \in Workers
<1>1. j \in Workers
  BY WorkerSets
<1> QED
  BY <1>1 DEF TypeInv, TypeOK, TableTypeOK, JobTypes, Row, Offer, NoOffer

\* A worker's step changes nothing of another job.
LEMMA WorkerLocalJob ==
    ASSUME TypeInv, NEW w \in Workers, NEW j \in JobIds \ {w}, Worker(w)
    PROVE  jobs'[j] = jobs[j] /\ late'[j] = late[j] /\ misread'[j] = misread[j] /\ revived' = revived
<1>t. TableTypeOK /\ late \in [JobIds -> Nat] /\ misread \in [JobIds -> Nat] /\ holder[w].price \in Nat
  BY DEF TypeInv, TypeOK, Offer, NoOffer
<1>1. CASE Lookup(w) \/ Connect(w) \/ SendRequest(w) \/ Receive(w)
  BY <1>1 DEF Lookup, Connect, SendRequest, Receive, ghostVars
<1>2. CASE Pay(w)
  BY <1>2, <1>t DEF Pay
<1>3. CASE WriteChunk(w)
  BY <1>3 DEF WriteChunk, WriteChunkWith
<1>4. CASE Account(w)
  BY <1>4, <1>t, UpdateJobCostFacts DEF Account, ghostVars
<1>5. ASSUME NEW from, NEW s \in Status, NEW to, Report(w, from, s, to)
      PROVE  jobs'[j] = jobs[j] /\ late'[j] = late[j] /\ misread'[j] = misread[j] /\ revived' = revived
  <2>1. jobs'[j] = jobs[j]
    BY <1>5, <1>t, SetStatusFacts DEF Report, UpdateJobStatus
  <2> QED
    BY <1>5, <1>t, <2>1 DEF Report, StatusChange
<1>6. CASE Finish(w) \/ Fail(w)
  BY <1>5, <1>6 DEF Finish, Fail, Status
<1>7. CASE w \in JobIds /\ (BeginCheck(w) \/ EndCheck(w) \/ EndPoll(w))
  BY <1>7, <1>t DEF BeginCheck, EndCheck, EndPoll, EndScan, GetJobStatusBegin, GetJobStatusEnd,
                    ghostVars
<1> QED
  BY <1>1, <1>2, <1>3, <1>4, <1>6, <1>7 DEF Worker

\* One step of job j's own worker: the cost.
LEMMA WorkerCosted ==
    ASSUME TypeInv, NEW j \in JobIds, Job(j), Worker(j)
    PROVE  Costed(j)'
<1>t. JobTypes(j) /\ j \in Workers /\ TableTypeOK
  BY TypeInvJob DEF TypeInv, TypeOK
<1>0. Costed(j)
  BY DEF Job
<1> USE <1>0, <1>t DEF JobTypes, Costed, Before, Goto
<1>1. CASE Lookup(j) \/ Connect(j) \/ SendRequest(j) \/ Receive(j)
  BY <1>1 DEF Lookup, Connect, SendRequest, Receive, InTable, ghostVars
<1>2. CASE Pay(j)
  BY <1>2 DEF Pay, InTable
<1>3. CASE WriteChunk(j)
  BY <1>3 DEF WriteChunk, WriteChunkWith, InTable
<1>4. CASE Account(j)
  <2>1. UpdateJobCost(j, holder[j].price)
    BY <1>4 DEF Account
  <2>2. /\ InTable(j)' <=> InTable(j)
        /\ InTable(j) => jobs'[j].cost = jobs[j].cost + holder[j].price
    BY <2>1, UpdateJobCostFacts DEF InTable
  <2> QED
    BY <1>4, <2>2 DEF Account, ghostVars
<1>6. CASE Finish(j) \/ Fail(j)
  <2>1. SetStatus(j, "finished") \/ SetStatus(j, "terminated")
    BY <1>6 DEF Finish, Fail, Report, UpdateJobStatus
  <2>2. (InTable(j)' <=> InTable(j)) /\ jobs'[j].cost = jobs[j].cost
    BY <2>1, SetStatusFacts DEF Status
  <2> QED
    BY <1>6, <2>2 DEF Finish, Fail, Report
<1>7. CASE BeginCheck(j)
  BY <1>7 DEF BeginCheck, GetJobStatusBegin, InTable, ghostVars
<1>8. CASE EndCheck(j) \/ EndPoll(j)
  BY <1>8 DEF EndCheck, EndPoll, EndScan, GetJobStatusEnd, InTable
<1> QED
  BY <1>1, <1>2, <1>3, <1>4, <1>6, <1>7, <1>8 DEF Worker

\* One step of job j's own worker: the payments after a stop.
LEMMA WorkerStopping ==
    ASSUME TypeInv, NEW j \in JobIds, Job(j), Worker(j)
    PROVE  Stopping(j)'
<1>t. JobTypes(j) /\ j \in Workers /\ TableTypeOK
  BY TypeInvJob DEF TypeInv, TypeOK
<1>0. Stopping(j)
  BY DEF Job
<1> USE <1>0, <1>t DEF JobTypes, Stopping, Stopped, Ahead, Goto
<1>1. CASE Lookup(j) \/ Connect(j) \/ SendRequest(j) \/ Receive(j)
  BY <1>1 DEF Lookup, Connect, SendRequest, Receive, ghostVars
<1>2. CASE Pay(j)
  BY <1>2 DEF Pay
<1>3. CASE WriteChunk(j)
  BY <1>3 DEF WriteChunk, WriteChunkWith
<1>4. CASE Account(j)
  <2>1. jobs'[j].status = jobs[j].status
    BY <1>4, UpdateJobCostFacts DEF Account
  <2> QED
    BY <1>4, <2>1 DEF Account, ghostVars
<1>5. ASSUME NEW from, NEW s \in Status, NEW to \in Ended, Report(j, from, s, to)
      PROVE  Stopping(j)'
  BY <1>5 DEF Report, StatusChange, Ended
<1>6. CASE Finish(j) \/ Fail(j)
  BY <1>5, <1>6 DEF Finish, Fail, Status, Ended
<1>7. CASE BeginCheck(j)
  BY <1>7 DEF BeginCheck, GetJobStatusBegin, ghostVars
<1>8. CASE EndCheck(j)
  BY <1>8 DEF EndCheck, EndScan, GetJobStatusEnd
<1>9. CASE EndPoll(j)
  BY <1>9 DEF EndPoll, EndScan, GetJobStatusEnd
<1> QED
  BY <1>1, <1>2, <1>3, <1>4, <1>6, <1>7, <1>8, <1>9 DEF Worker

\* One step of job j's own worker: the status it shows.
LEMMA WorkerShows ==
    ASSUME TypeInv, NEW j \in JobIds, Job(j), Worker(j)
    PROVE  Finished(j)' /\ Active(j)'
<1>t. JobTypes(j) /\ j \in Workers /\ TableTypeOK
  BY TypeInvJob DEF TypeInv, TypeOK
<1>0. Finished(j) /\ Active(j)
  BY DEF Job
<1> USE <1>0, <1>t DEF JobTypes, Finished, Active, Goto, Running
<1>1. CASE Lookup(j) \/ Connect(j) \/ SendRequest(j) \/ Receive(j)
  BY <1>1 DEF Lookup, Connect, SendRequest, Receive, ghostVars
<1>2. CASE Pay(j)
  BY <1>2 DEF Pay
<1>3. CASE WriteChunk(j)
  BY <1>3 DEF WriteChunk, WriteChunkWith
<1>4. CASE Account(j)
  <2>1. jobs'[j].status = jobs[j].status
    BY <1>4, UpdateJobCostFacts DEF Account
  <2> QED
    BY <1>4, <2>1 DEF Account, ghostVars
<1>5. ASSUME NEW s \in Status, SetStatus(j, s)
      PROVE  jobs'[j].status = s \/ jobs'[j].status = NoStatus
  BY <1>5, SetStatusFacts DEF InTable
<1>6. CASE Finish(j)
  BY <1>5, <1>6 DEF Finish, Report, UpdateJobStatus, Status, NoStatus
<1>10. CASE Fail(j)
  BY <1>5, <1>10 DEF Fail, Report, UpdateJobStatus, Status, NoStatus
<1>7. CASE BeginCheck(j)
  BY <1>7 DEF BeginCheck, GetJobStatusBegin, ghostVars
<1>8. CASE EndCheck(j)
  BY <1>8 DEF EndCheck, EndScan, GetJobStatusEnd
<1>9. CASE EndPoll(j)
  BY <1>9 DEF EndPoll, EndScan, GetJobStatusEnd
<1> QED
  BY <1>1, <1>2, <1>3, <1>4, <1>6, <1>7, <1>8, <1>9, <1>10 DEF Worker

\* One of the user's steps on job k, seen by job j.
LEMMA UserJob ==
    ASSUME TypeInv, User, NEW j \in JobIds, Job(j)
    PROVE  Job(j)'
<1>t. JobTypes(j) /\ j \in Workers /\ TableTypeOK /\ JobIds \subseteq Workers
  BY TypeInvJob, WorkerSets DEF TypeInv, TypeOK
<1>1. ASSUME NEW k \in JobIds, NEW f \in Files, AddJobHandler(k, f)
      PROVE  Job(j)'
  <2>1. /\ jobs'[k] = [status |-> "active", cost |-> 0]
        /\ \A m \in JobIds \ {k} : jobs'[m] = jobs[m]
    BY <1>1, <1>t, AddJobFacts DEF AddJobHandler
  <2>2. CASE j # k
    BY <1>1, <1>t, <2>1, <2>2, JobSame DEF AddJobHandler, Goto, ghostVars, JobTypes
  <2>3. CASE j = k
    <3>1. /\ pc[j] = "idle" /\ pc'[j] = "lookup"
          /\ jobs'[j].status = "active" /\ jobs'[j].cost = 0
          /\ spent'[j] = spent[j]
      BY <1>1, <1>t, <2>1, <2>3 DEF AddJobHandler, Goto, ghostVars, JobTypes
    <3> QED
      BY <3>1 DEF Job, Costed, Stopping, Stopped, Finished, Active, Before, Running
  <2> QED
    BY <2>2, <2>3
<1>2. ASSUME NEW k \in JobIds, UserStarts(k) \/ UserPauses(k) \/ UserTerminates(k) \/ UserRemoves(k),
             j # k
      PROVE  Job(j)'
  <2>1. \/ \E s \in Status : SetStatus(k, s)
        \/ RemoveFromHistory(k)
    BY <1>2 DEF UserStarts, UserPauses, UserTerminates, UserRemoves,
                StartJob, PauseJob, TerminateJob, Status
  <2>2. jobs'[j] = jobs[j]
    BY <1>2, <1>t, <2>1, SetStatusFacts, RemoveFacts
  <2>3. OnlyTable(k) /\ revived \subseteq revived'
    BY <1>2 DEF UserStarts, UserPauses, UserTerminates, UserRemoves
  <2>4. late'[j] = late[j] /\ misread'[j] = misread[j]
    BY <1>2, <1>t, <2>3 DEF OnlyTable, StatusChange, JobTypes
  <2> QED
    BY <2>2, <2>3, <2>4, JobSame DEF OnlyTable, workerVars
<1>3. ASSUME NEW s \in Status, SetStatus(j, s), InTable(j), OnlyTable(j), revived \subseteq revived',
             s # "finished",
             s = "active" => pc[j] \notin Ended \/ j \in revived'
      PROVE  Job(j)'
  <2>1. /\ jobs'[j].status = s
        /\ jobs'[j].cost = jobs[j].cost
        /\ InTable(j)'
    BY <1>3, <1>t, SetStatusFacts
  <2>2. pc' = pc /\ spent' = spent /\ holder' = holder
    BY <1>3 DEF OnlyTable, workerVars
  <2>3. \/ s = jobs[j].status /\ late' = late /\ misread' = misread
        \/ s # jobs[j].status /\ late'[j] = 0 /\ misread'[j] = 0
    BY <1>3, <1>t, <2>1 DEF OnlyTable, StatusChange, JobTypes
  <2>4. Costed(j)'
    BY <1>3, <2>1, <2>2 DEF Job, Costed
  <2>5. Stopping(j)'
    BY <2>1, <2>2, <2>3 DEF Job, Stopping, Stopped, Ahead
  <2>6. Finished(j)' /\ Active(j)'
    <3>1. pc[j] \in Running \cup Ended
      BY <1>3, <1>t DEF Job, Costed, JobTypes
    <3> QED
      BY <1>3, <2>1, <2>2, <3>1 DEF Finished, Active
  <2> QED
    BY <2>4, <2>5, <2>6 DEF Job
<1>4. CASE UserStarts(j)
  <2>1. SetStatus(j, "active") /\ InTable(j) /\ OnlyTable(j) /\ revived \subseteq revived'
        /\ (pc[j] \notin Ended \/ j \in revived')
    BY <1>4 DEF UserStarts, StartJob
  <2> QED
    BY <1>3, <2>1 DEF Status
<1>5. CASE UserPauses(j)
  BY <1>3, <1>5 DEF UserPauses, PauseJob, Status
<1>6. CASE UserTerminates(j)
  BY <1>3, <1>6 DEF UserTerminates, TerminateJob, Status
<1>7. CASE UserRemoves(j)
  <2>1. jobs'[j].status = "" /\ ~InTable(j)'
    <3>1. jobs'[j] = Absent
      BY <1>7, <1>t, RemoveFacts DEF UserRemoves
    <3> QED
      <4>1. jobs'[j].status = NoStatus
        BY <3>1 DEF Absent
      <4> QED
        BY <4>1 DEF NoStatus, InTable
  <2>2. pc' = pc /\ spent' = spent
    BY <1>7 DEF UserRemoves, OnlyTable, workerVars
  <2> QED
    BY <2>1, <2>2 DEF Job, Costed, Stopping, Stopped, Finished, Active
<1>8. ASSUME NEW w \in Gets, NEW f \in Files, Get(w, f)
      PROVE  Job(j)'
  <2>1. j # w /\ w \in Workers
    BY WorkerSets, MaxJobsAssumption, TransferAssumption DEF Gets, JobIds
  <2> QED
    BY <1>8, <1>t, <2>1, JobSame DEF Get, Goto, ghostVars, JobTypes
<1> QED
  BY <1>1, <1>2, <1>4, <1>5, <1>6, <1>7, <1>8 DEF User

\* Holders and broken streams touch no job; the end of the process clears all.
LEMMA NetworkJob ==
    ASSUME TypeInv, Network \/ Kill, NEW j \in JobIds, Job(j)
    PROVE  Job(j)'
<1>t. JobTypes(j) /\ j \in Workers /\ TableTypeOK
  BY TypeInvJob DEF TypeInv, TypeOK
<1>1. ASSUME NEW w \in Workers, Serve(w) \/ Break(w)
      PROVE  Job(j)'
  BY <1>1, JobSame DEF Serve, Break, ghostVars
<1>2. ASSUME NEW p, HolderDies(p)
      PROVE  Job(j)'
  BY <1>2, JobSame DEF HolderDies, ghostVars
<1>3. ASSUME NEW p \in Peers, NEW f \in Files, HolderRegisters(p, f)
      PROVE  Job(j)'
  BY <1>3, JobSame DEF HolderRegisters, workerVars, ghostVars
<1>4. CASE Kill
  <2>1. jobs'[j].status = "" /\ ~InTable(j)'
    <3>1. jobs'[j] = Absent
      BY <1>4, <1>t, RestartFacts DEF Kill
    <3> QED
      <4>1. jobs'[j].status = NoStatus
        BY <3>1 DEF Absent
      <4> QED
        BY <4>1 DEF NoStatus, InTable
  <2>2. spent' = spent /\ (pc'[j] = pc[j] \/ pc'[j] = "killed")
    BY <1>4, <1>t DEF Kill
  <2> QED
    BY <2>1, <2>2 DEF Job, Costed, Stopping, Stopped, Finished, Active, Before
<1> QED
  BY <1>1, <1>2, <1>3, <1>4 DEF Network, HolderPanics

\* What relates a job to its worker is kept by every step.
LEMMA NextJob == TypeInv /\ JobInv /\ [Next]_vars => JobInv'
<1> SUFFICES ASSUME TypeInv, JobInv, [Next]_vars, NEW j \in JobIds
             PROVE  Job(j)'
  BY DEF JobInv
<1>0. Job(j) /\ j \in Workers
  BY WorkerSets DEF JobInv
<1>1. CASE UNCHANGED vars
  BY <1>0, <1>1, JobSame DEF vars
<1>2. CASE User
  BY <1>0, <1>2, UserJob
<1>3. ASSUME NEW w \in Workers, Worker(w)
      PROVE  Job(j)'
  <2>1. CASE w = j
    BY <1>0, <1>3, <2>1, WorkerCosted, WorkerStopping, WorkerShows DEF Job
  <2>2. CASE w # j
    <3>1. jobs'[j] = jobs[j] /\ late'[j] = late[j] /\ misread'[j] = misread[j] /\ revived' = revived
      BY <1>3, <2>2, WorkerLocalJob
    <3>2. pc'[j] = pc[j] /\ spent'[j] = spent[j] /\ holder'[j] = holder[j]
      BY <1>0, <1>3, <2>2, WorkerLocal
    <3> QED
      BY <1>0, <3>1, <3>2, JobSame
  <2> QED
    BY <2>1, <2>2
<1>4. CASE Network \/ Kill
  BY <1>0, <1>4, NetworkJob
<1> QED
  BY <1>1, <1>2, <1>3, <1>4 DEF Next

-----------------------------------------------------------------------------
(* The file on disk *)

\* Where chunk i is in the file of f, and who has written it there.
Places(f, i) == {n \in DOMAIN disk[f] : disk[f][n] = i}
Writers(f, i) == {w \in Workers : file[w] = f /\ written[w] > i}

\* The places where a chunk is in a file, and the workers that wrote it, are finitely many.
LEMMA DiskFinite ==
    ASSUME TypeInv, NEW f \in Files, NEW i
    PROVE  IsFiniteSet(Places(f, i)) /\ IsFiniteSet(Writers(f, i))
<1>1. disk[f] \in Seq(Nat) /\ DOMAIN disk[f] = 1..Len(disk[f]) /\ Len(disk[f]) \in Nat
  BY DEF TypeInv, TypeOK
<1>2. IsFiniteSet(DOMAIN disk[f])
  BY <1>1, FS_Interval
<1>3. 1 - MaxGets \in Int /\ MaxJobs \in Int
  BY MaxJobsAssumption, TransferAssumption
<1>4. IsFiniteSet(Workers)
  BY <1>3, FS_Interval DEF Workers
<1>5. Places(f, i) \subseteq DOMAIN disk[f] /\ Writers(f, i) \subseteq Workers
  BY DEF Places, Writers
<1> QED
  BY <1>2, <1>4, <1>5, FS_Subset

\* A step that writes no chunk: a worker that gets its file has written nothing.
LEMMA DiskSame ==
    ASSUME DiskAccounts, disk' = disk, written' = written,
           \A w \in Workers : file'[w] = file[w] \/ written[w] = 0
    PROVE  DiskAccounts'
<1> SUFFICES ASSUME NEW f \in Files, NEW i \in 0..Chunks[f]
             PROVE  Cardinality(Places(f, i)') = Cardinality(Writers(f, i)')
  BY DEF DiskAccounts, Places, Writers
<1>1. Places(f, i)' = Places(f, i)
  BY DEF Places
<1>2. i >= 0 /\ ~(0 > i)
  BY TransferAssumption
<1>3. Writers(f, i)' = Writers(f, i)
  BY <1>2 DEF Writers
<1>4. Cardinality(Places(f, i)) = Cardinality(Writers(f, i))
  BY DEF DiskAccounts, Places, Writers
<1> QED
  BY <1>1, <1>3, <1>4

\* WriteChunk appends the chunk that is due: written counts the chunks before it.
LEMMA WriteChunkDisk ==
    ASSUME TypeInv, NEW w \in Workers, Money(w), DiskAccounts, WriteChunk(w)
    PROVE  DiskAccounts'
<1>1. /\ pc[w] = "write" /\ disk' = [disk EXCEPT ![file[w]] = Append(disk[file[w]], next[w])]
      /\ written' = [written EXCEPT ![w] = written[w] + 1] /\ file' = file
  BY DEF WriteChunk, WriteChunkWith
<1>2. /\ written[w] = next[w] /\ written[w] \in Nat /\ written \in [Workers -> Nat] /\ file[w] \in Files
      /\ disk \in [Files -> Seq(Nat)]
  BY <1>1 DEF Money, Worked, Paid, Before, Between, TypeInv, TypeOK, FileKnown
<1>3. PICK h \in Files : h = file[w]
  BY <1>2
<1>4. PICK c \in Nat : c = next[w]
  BY <1>2
<1>5. PICK m \in Nat : m = Len(disk[h])
  BY <1>2
<1>6. /\ DOMAIN disk[h] = 1..m /\ DOMAIN disk'[h] = (1..m) \cup {m + 1} /\ m + 1 \notin 1..m
      /\ disk'[h][m + 1] = c /\ \A n \in 1..m : disk'[h][n] = disk[h][n]
  <2>1. disk[h] \in Seq(Nat) /\ disk'[h] = Append(disk[h], c)
    BY <1>1, <1>2, <1>3, <1>4
  <2> QED
    BY <1>5, <2>1
<1>7. \A f \in Files \ {h} : disk'[f] = disk[f]
  BY <1>1, <1>2, <1>3
<1>8. written'[w] = c + 1 /\ written[w] = c /\ \A v \in Workers \ {w} : written'[v] = written[v]
  BY <1>1, <1>2, <1>4
<1> SUFFICES ASSUME NEW f \in Files, NEW i \in 0..Chunks[f]
             PROVE  Cardinality(Places(f, i)') = Cardinality(Writers(f, i)')
  BY DEF DiskAccounts, Places, Writers
<1>9. Cardinality(Places(f, i)) = Cardinality(Writers(f, i))
  BY DEF DiskAccounts, Places, Writers
<1>10. i \in Nat
  BY TransferAssumption
<1>11. CASE f = h /\ i = c
  <2>1. Places(f, i)' = Places(f, i) \cup {m + 1} /\ m + 1 \notin Places(f, i)
    BY <1>6, <1>11 DEF Places
  <2>2. Writers(f, i)' = Writers(f, i) \cup {w} /\ w \notin Writers(f, i)
    <3>1. c + 1 > c /\ ~(c > c)
      OBVIOUS
    <3> QED
      BY <1>1, <1>3, <1>8, <1>11, <3>1 DEF Writers
  <2>3. IsFiniteSet(Places(f, i)) /\ IsFiniteSet(Writers(f, i))
    BY DiskFinite
  <2>4. /\ Cardinality(Places(f, i)') = Cardinality(Places(f, i)) + 1
        /\ Cardinality(Writers(f, i)') = Cardinality(Writers(f, i)) + 1
    BY <2>1, <2>2, <2>3, FS_AddElement
  <2> QED
    BY <1>9, <2>4
<1>12. CASE ~(f = h /\ i = c)
  <2>1. Places(f, i)' = Places(f, i)
    <3>1. CASE f = h
      BY <1>6, <1>12, <3>1 DEF Places
    <3>2. CASE f # h
      BY <1>7, <3>2 DEF Places
    <3> QED
      BY <3>1, <3>2
  <2>2. Writers(f, i)' = Writers(f, i)
    <3>1. CASE f = h
      <4>1. c + 1 > i <=> c > i
        BY <1>10, <1>12, <3>1
      <4> QED
        BY <1>1, <1>8, <4>1 DEF Writers
    <3>2. CASE f # h
      BY <1>1, <1>3, <1>8, <3>2 DEF Writers
    <3> QED
      BY <3>1, <3>2
  <2> QED
    BY <1>9, <2>1, <2>2
<1> QED
  BY <1>11, <1>12

\* At start the files are empty and nothing was written.
LEMMA InitDisk == Init => DiskAccounts
<1> SUFFICES ASSUME Init, NEW f \in Files, NEW i \in 0..Chunks[f]
             PROVE  Cardinality(Places(f, i)) = Cardinality(Writers(f, i))
  BY DEF DiskAccounts, Places, Writers
<1>1. Places(f, i) = {}
  BY DEF Init, Places
<1>2. i >= 0 /\ ~(0 > i)
  BY TransferAssumption
<1>3. Writers(f, i) = {}
  BY <1>2 DEF Init, Writers
<1> QED
  BY <1>1, <1>3

\* Every step keeps the count of a chunk in the file equal to that of the writes.
LEMMA NextDisk == TypeInv /\ MoneyInv /\ DiskAccounts /\ [Next]_vars => DiskAccounts'
<1> SUFFICES ASSUME TypeInv, MoneyInv, DiskAccounts, [Next]_vars PROVE DiskAccounts'
  OBVIOUS
<1>1. \A w \in Workers : pc[w] = "idle" => written[w] = 0
  BY DEF MoneyInv, Money, Worked, Before, Between, Paid
<1>2. CASE User
  <2>1. disk' = disk /\ written' = written
    BY <1>2 DEF User, AddJobHandler, UserStarts, UserPauses, UserTerminates, UserRemoves, OnlyTable, Get, ghostVars
  <2>2. \A w \in Workers : file'[w] = file[w] \/ pc[w] = "idle"
    BY <1>2, WorkerSets DEF User, AddJobHandler, UserStarts, UserPauses, UserTerminates, UserRemoves, OnlyTable, Get,
       Goto, workerVars, TypeInv, TypeOK
  <2> QED
    BY <1>1, <2>1, <2>2, DiskSame
<1>3. ASSUME NEW w \in Workers, Worker(w) PROVE DiskAccounts'
  <2>1. CASE WriteChunk(w)
    BY <2>1, WriteChunkDisk DEF MoneyInv
  <2>2. CASE ~WriteChunk(w)
    <3>1. disk' = disk /\ written' = written /\ file' = file
      BY <1>3, <2>2 DEF Worker, Lookup, Connect, SendRequest, Receive, Pay, Account, Finish, Fail, Report,
         BeginCheck, EndCheck, EndPoll, EndScan, ghostVars
    <3> QED
      BY <3>1, DiskSame
  <2> QED
    BY <2>1, <2>2
<1>4. CASE Network
  <2>1. disk' = disk /\ written' = written /\ file' = file
    BY <1>4 DEF Network, Serve, Break, HolderPanics, HolderDies, HolderRegisters, workerVars, ghostVars
  <2> QED
    BY <2>1, DiskSame
<1>5. CASE Kill
  BY <1>5, DiskSame DEF Kill
<1>6. CASE UNCHANGED vars
  BY <1>6, DiskSame DEF vars
<1> QED
  BY <1>2, <1>3, <1>4, <1>5, <1>6 DEF Next

-----------------------------------------------------------------------------
(* The theorems *)

\* The inductive invariant.
IInv == TypeInv /\ MoneyInv /\ JobInv

\* The inductive invariant holds in every reachable state.
THEOREM Invariance == Spec => []IInv
<1>1. Init => IInv
  BY InitTypeInv, InitMoney, InitJob DEF IInv
<1>2. IInv /\ [Next]_vars => IInv'
  BY NextTypeInv, NextMoney, NextJob DEF IInv
<1> QED
  BY <1>1, <1>2, PTL DEF Spec

\* The transfer's state is well typed, whatever breaks.
THEOREM TypeCorrect == Spec => []TypeOK
BY Invariance, PTL DEF IInv, TypeInv

\* GetFileOnce pays for every chunk it keeps, and for at most one it does not.
THEOREM PaysPerChunk == Spec => []PayPerChunk
<1>1. IInv => PayPerChunk
  BY DEF IInv, MoneyInv, Money, Worked, PayPerChunk
<1> QED
  BY <1>1, Invariance, PTL

\* A job's AccumulatedCost is what its worker spent, up to the payment that
\* is being accounted for.
THEOREM CostsWhatWasSpent == Spec => []CostIsSpent
<1>1. IInv => CostIsSpent
  BY DEF IInv, JobInv, Job, Costed, CostIsSpent
<1> QED
  BY <1>1, Invariance, PTL

\* A job that shows "finished" has its whole file, paid for once.
THEOREM FinishedIsComplete == Spec => []FinishedMeansComplete
<1>1. IInv => FinishedMeansComplete
  BY WorkerSets
  DEF IInv, JobInv, Job, Finished, MoneyInv, Money, Worked, FinishedMeansComplete
<1> QED
  BY <1>1, Invariance, PTL

\* After a pause or a termination at most one more chunk is paid for, plus
\* one for every status check that a racing writer spoiled.
THEOREM StopIsBounded == Spec => []StopBound
<1>1. IInv => StopBound
  BY DEF IInv, JobInv, Job, Stopping, StopBound
<1> QED
  BY <1>1, Invariance, PTL

\* A job that shows "active" has a live worker, with the exceptions that
\* ActiveMeansRunning lists.
THEOREM ActiveIsRunning == Spec => []ActiveMeansRunning
<1>1. IInv => ActiveMeansRunning
  BY DEF IInv, JobInv, Job, Active, ActiveMeansRunning
<1> QED
  BY <1>1, Invariance, PTL

\* Only an empty file makes a holder index past its chunk hashes.
THEOREM RequestsInRange == Spec => []RequestInRange
<1>1. IInv => RequestInRange
  <2> SUFFICES ASSUME IInv, NEW w \in Workers, OutOfRange(w)
               PROVE  Chunks[file[w]] = 0
    BY DEF RequestInRange
  <2>1. stream[w] = "request" /\ next[w] >= Chunks[file[w]]
    BY DEF OutOfRange
  <2>2. Money(w) /\ TypeInv
    BY DEF IInv, MoneyInv
  <2>3. pc[w] = "recv"
    BY <2>1, <2>2 DEF Money, InRange
  <2>4. next[w] = 0 \/ next[w] < Chunks[file[w]]
    BY <2>2, <2>3 DEF Money, InRange, Between
  <2>5. Chunks[file[w]] \in Nat /\ next[w] \in Nat
    BY <2>2, <2>3, TransferAssumption DEF TypeInv, TypeOK, FileKnown
  <2> QED
    BY <2>1, <2>4, <2>5
<1> QED
  BY <1>1, Invariance, PTL

\* What is in ./files/requested is what the workers wrote, chunk by chunk: no
\* chunk is lost, and no worker writes one twice, however workers of the same
\* file interleave and wherever they are killed.
THEOREM DiskIsAccounted == Spec => []DiskAccounts
<1>1. TypeInv /\ MoneyInv /\ DiskAccounts /\ [Next]_vars => DiskAccounts'
  BY NextDisk
<1>2. IInv => TypeInv /\ MoneyInv
  BY DEF IInv
<1> QED
  BY <1>1, <1>2, InitDisk, Invariance, PTL DEF Spec
=============================================================================
