------------------------------- MODULE Mempool -------------------------------
(***************************************************************************)
(* The pool of unconfirmed transactions of an OrcaNet node (mempool) with  *)
(* the callbacks that keep it in step with the chain                       *)
(* (netsync/manager.go, handleBlockchainNotification).                     *)
(*                                                                         *)
(* Two goroutines use it: the sync manager's, which handles transactions   *)
(* of peers and the notifications of blocks, and one that serves           *)
(* sendrawtransaction.  Every call holds mp.mtx; mpJob says who has it and *)
(* what is left to do.  The chain has a lock of its own, so a block may be *)
(* connected while the other goroutine is between reading the chain's      *)
(* outputs and adding its transaction.                                     *)
(*                                                                         *)
(* A transaction is an element of Tx; MpTx gives what the code looks at.   *)
(* An output is an element of TxOutPoint, made by one transaction or       *)
(* already there (BaseCoins).                                              *)
(***************************************************************************)
EXTENDS Integers, Sequences, SequencesExt, FiniteSets, FiniteSetsExt

CONSTANTS
    Tx, TxOutPoint,
    MpTx,               \* [Tx -> record]: ins, outs, fee, size, signals, fault, form
    BaseCoins,          \* the outputs that are unspent before the first block
    MpBlocks,           \* the blocks that may be connected, sequences of transactions
    MinRelayTxFee,      \* per 1000 bytes
    FreeTxRelayLimit,   \* bytes of low-fee transactions that pennyTotal may reach
    MaxOrphanTxs, MaxReplacementEvictions,
    PeerTag,            \* the peers that send transactions
    MaxChainMoves       \* a bound of the model

NoTx == "none"

\* "sanity": rejected before the inputs are looked at; "late": by the checks of
\* inputs, sequence locks, signature cost or scripts.  A transaction has inputs
\* (CheckTransactionSanity), and its outputs are its own: they bear its hash.
ASSUME MempoolAssumption ==
    /\ IsFiniteSet(Tx) /\ NoTx \notin Tx /\ BaseCoins \subseteq TxOutPoint /\ MpBlocks \subseteq Seq(Tx)
    /\ \A t \in Tx : /\ MpTx[t].ins \subseteq TxOutPoint /\ MpTx[t].outs \subseteq TxOutPoint
                     /\ MpTx[t].ins # {} /\ IsFiniteSet(MpTx[t].outs) /\ MpTx[t].outs \cap BaseCoins = {}
                     /\ MpTx[t].fee \in Nat /\ MpTx[t].size \in Nat \ {0}
                     /\ MpTx[t].fault \in {"none", "sanity", "late"}
    /\ \A t, u \in Tx : t # u => MpTx[t].outs \cap MpTx[u].outs = {}
    /\ MinRelayTxFee \in Nat /\ FreeTxRelayLimit \in Nat /\ MaxChainMoves \in Nat
    /\ MaxOrphanTxs \in Nat /\ MaxReplacementEvictions \in Nat

VARIABLES
    mpPool,         \* pool: the transactions in it
    outpoints,      \* who in the pool spends an output
    mpOrphans,      \* orphans: the transactions that wait for a parent, with the peer's tag
    orphansByPrev,  \* the orphans that spend an output
    pennyTotal,     \* bytes of low-fee transactions let through lately
    mpJob,          \* the call that has the mutex
    mpTodo,         \* what the sync goroutine has still to call for the last block
    mpChain,        \* the blocks connected to the chain
    mpCurrent,      \* sm.current()
    mpSkipped,      \* history variable: a block was connected while not current
    mpDropped,      \* history variable: a transaction of a disconnected block missed a parent
    mpMoves         \* how many blocks were connected or disconnected

mpVars == <<mpPool, outpoints, mpOrphans, orphansByPrev, pennyTotal, mpJob, mpTodo, mpChain,
            mpCurrent, mpSkipped, mpDropped, mpMoves>>
mpTables == <<mpPool, outpoints, mpOrphans, orphansByPrev>>

Free == [who |-> "nobody"]
Ins(t) == MpTx[t].ins
Outs(t) == MpTx[t].outs

Confirmed == UNION {Range(mpChain[i]) : i \in DOMAIN mpChain}
Coins == (BaseCoins \cup UNION {Outs(t) : t \in Confirmed}) \ UNION {Ins(t) : t \in Confirmed}

-----------------------------------------------------------------------------
(* Policy *)

MaxSatoshi == 2100000

\* calcMinRequiredTxRelayFee, which never rounds to a free transaction
CalcMinRequiredTxRelayFee(size) ==
    LET fee == (size * MinRelayTxFee) \div 1000
    IN  IF fee = 0 /\ MinRelayTxFee > 0 THEN MinRelayTxFee
        ELSE IF fee > MaxSatoshi THEN MaxSatoshi ELSE fee

\* GetDustThreshold: three times the bytes of the output and of its spending
GetDustThreshold(out) == 3 * (out.size + 41 + (IF out.class = "witness" THEN 107 \div 4 ELSE 107))

IsDust(out) ==
    out.class = "unspendable" \/ (out.value * 1000) \div GetDustThreshold(out) < MinRelayTxFee

\* checkPkScriptStandard: at most three keys, and no more signatures than keys
CheckPkScriptStandard(out) ==
    CASE out.class = "multisig" -> out.keys \in 1..3 /\ out.sigs \in 1..out.keys
      [] out.class = "nonstandard" -> FALSE
      [] OTHER -> TRUE

CheckTransactionStandard(f) ==
    /\ f.version \in 1..2 /\ f.final /\ f.weight <= 400000
    /\ f.sigScript <= 1650 /\ f.pushOnly
    /\ \A o \in f.outputs : CheckPkScriptStandard(o) /\ (o.class # "nulldata" => ~IsDust(o))
    /\ Cardinality({o \in f.outputs : o.class = "nulldata"}) <= 1

CheckInputsStandard(f) ==
    \A i \in f.inputs : i.class # "nonstandard" /\ (i.class = "scripthash" => i.sigops <= 15)

ValidateStandardness(t) ==
    CheckTransactionStandard(MpTx[t].form) /\ CheckInputsStandard(MpTx[t].form)

\* validateRelayFeeMet: "pass", "free" for a low fee that the limiter lets
\* through, or "reject"
ValidateRelayFeeMet(t, isNew, rateLimit) ==
    LET minFee == CalcMinRequiredTxRelayFee(MpTx[t].size)
    IN  CASE MpTx[t].size >= 49000 /\ MpTx[t].fee < minFee -> "reject"
          [] MpTx[t].fee >= minFee -> "pass"
          [] ~isNew /\ ~rateLimit -> "pass"
          [] isNew /\ ~MpTx[t].priority -> "reject"
          [] pennyTotal >= FreeTxRelayLimit -> "reject"
          [] OTHER -> "free"

-----------------------------------------------------------------------------
(* The graph of the pool *)

\* The transactions reached from S through the relation next.
Reach(S, next) ==
    LET grow[n \in 0..Cardinality(Tx)] ==
            IF n = 0 THEN S ELSE grow[n - 1] \cup UNION {next[t] : t \in grow[n - 1]}
    IN  grow[Cardinality(Tx)]

Redeemers(t) == {outpoints[o] : o \in Outs(t)} \ {NoTx}
Parents(t) == {p \in mpPool : Outs(p) \cap Ins(t) # {}}
TxDescendants(t) == Reach(Redeemers(t), [u \in Tx |-> Redeemers(u)])
TxAncestors(t) == Reach(Parents(t), [u \in Tx |-> Parents(u)])

SignalsReplacement(t) == \E a \in {t} \cup TxAncestors(t) : MpTx[a].signals

Spenders(t) == {outpoints[o] : o \in Ins(t)} \ {NoTx}

\* Mutation: the descendants of a conflict stay in the pool.
TxConflictsDirect(t) == Spenders(t)

TxConflicts(t) == Spenders(t) \cup UNION {TxDescendants(c) : c \in Spenders(t)}

\* checkPoolDoubleSpend
CheckPoolDoubleSpend(t) == \A c \in Spenders(t) : SignalsReplacement(c)

SumFees(S) == MapThenSumSet(LAMBDA t : MpTx[t].fee, S)
FeePerKB(t) == (MpTx[t].fee * 1000) \div MpTx[t].size

\* Mutation: the fees of the direct conflicts are enough.
ValidateReplacementCheap(t) ==
    /\ \A c \in TxConflicts(t) : FeePerKB(t) > FeePerKB(c)
    /\ MpTx[t].fee >= SumFees(Spenders(t))

ValidateReplacement(t) ==
    LET conflicts == TxConflicts(t)
    IN  /\ Cardinality(conflicts) <= MaxReplacementEvictions
        /\ TxAncestors(t) \cap conflicts = {}
        /\ \A c \in conflicts : FeePerKB(t) > FeePerKB(c)
        /\ MpTx[t].fee >= SumFees(conflicts) + CalcMinRequiredTxRelayFee(MpTx[t].size)
        /\ \A p \in Parents(t) : \E c \in conflicts : Outs(p) \cap Ins(c) # {}

-----------------------------------------------------------------------------
(* checkMempoolAcceptance, with the outputs of the chain as they were read *)

MissingParents(t, coins) ==
    {o \in Ins(t) : o \notin coins /\ ~\E p \in mpPool : o \in Outs(p)}

CheckMempoolAcceptance(t, coins, isNew, rateLimit, rejectDupOrphans) ==
    IF \/ t \in mpPool \/ (rejectDupOrphans /\ t \in DOMAIN mpOrphans)
       \/ MpTx[t].fault = "sanity" \/ ~CheckPoolDoubleSpend(t)
       \/ Outs(t) \cap coins # {}
    THEN "reject"
    ELSE IF MissingParents(t, coins) # {} THEN "missing"
    ELSE IF \/ MpTx[t].fault = "late" \/ ~ValidateStandardness(t)
            \/ ValidateRelayFeeMet(t, isNew, rateLimit) = "reject"
            \/ Spenders(t) # {} /\ ~ValidateReplacement(t)
    THEN "reject" ELSE "ok"

\* The limiter counts a low-fee transaction once it is past the fee check, even
\* if it is then refused as a replacement.
Penny(t, coins, isNew, rateLimit, rejectDupOrphans) ==
    IF /\ t \notin mpPool /\ ~(rejectDupOrphans /\ t \in DOMAIN mpOrphans)
       /\ MpTx[t].fault = "none" /\ CheckPoolDoubleSpend(t) /\ ValidateStandardness(t)
       /\ Outs(t) \cap coins = {} /\ MissingParents(t, coins) = {}
       /\ ValidateRelayFeeMet(t, isNew, rateLimit) = "free"
    THEN pennyTotal + MpTx[t].size ELSE pennyTotal

-----------------------------------------------------------------------------
(* The tables.  Every operator gives the value of all four. *)

Tables(p, op, o, by) == mpPool' = p /\ outpoints' = op /\ mpOrphans' = o /\ orphansByPrev' = by

\* outpoints without the inputs of S; removeTransaction of each of S
Unspend(S) == [o \in TxOutPoint |-> IF \E t \in S : o \in Ins(t) THEN NoTx ELSE outpoints[o]]

\* Mutation: only the first input is deleted from outpoints.
RemoveTransactionsLeak(S) ==
    /\ mpPool' = mpPool \ S
    /\ outpoints' = [o \in TxOutPoint |->
            IF \E t \in S \cap mpPool : o = CHOOSE i \in Ins(t) : TRUE THEN NoTx ELSE outpoints[o]]
    /\ UNCHANGED <<mpOrphans, orphansByPrev>>

RemoveTransactions(S) ==
    /\ mpPool' = mpPool \ S
    /\ outpoints' = Unspend(S \cap mpPool)
    /\ UNCHANGED <<mpOrphans, orphansByPrev>>

WithRedeemers(t) == {t} \cup TxDescendants(t)

OrphanRedeemers(t) == UNION {orphansByPrev[o] : o \in Outs(t)}
OrphanFamily(S) == Reach(S, [t \in Tx |-> OrphanRedeemers(t)])

\* Mutation: an orphan stays in orphansByPrev.
WithoutOrphansLeak(S) == orphansByPrev

\* orphansByPrev without the orphans S; removeOrphan of each of S
WithoutOrphans(S) == [o \in TxOutPoint |-> orphansByPrev[o] \ S]

RemoveOrphans(S) ==
    /\ mpOrphans' = [t \in DOMAIN mpOrphans \ S |-> mpOrphans[t]]
    /\ orphansByPrev' = WithoutOrphans(S \cap DOMAIN mpOrphans)
    /\ UNCHANGED <<mpPool, outpoints>>

\* limitNumOrphans: the choices of the orphan to evict, if there is no room
LimitNumOrphans(S) ==
    IF Cardinality(S) + 1 <= MaxOrphanTxs THEN {{}} ELSE {{t} : t \in S}

\* maybeAddOrphan: the orphans S have expired and go with all that spend them.
AddOrphan(t, tag, S) ==
    LET gone == OrphanFamily(S)
        kept == DOMAIN mpOrphans \ gone
    IN  IF MaxOrphanTxs = 0 THEN UNCHANGED mpTables
        ELSE \E evicted \in LimitNumOrphans(kept) :
            LET rest == (kept \ evicted) \cup {t}
            IN  /\ mpOrphans' = [u \in rest |-> IF u = t THEN tag ELSE mpOrphans[u]]
                /\ orphansByPrev' = [o \in TxOutPoint |->
                        WithoutOrphans(gone \cup evicted)[o]
                        \cup (IF o \in Ins(t) THEN {t} ELSE {})]
                /\ UNCHANGED <<mpPool, outpoints>>

\* The end of maybeAcceptTransaction; the orphans S leave the pool of orphans.
AddTransaction(t, S) ==
    LET out == IF Spenders(t) = {} THEN {} ELSE TxConflicts(t)
    IN  Tables((mpPool \ out) \cup {t},
               [o \in TxOutPoint |-> IF o \in Ins(t) THEN t ELSE Unspend(out)[o]],
               [u \in DOMAIN mpOrphans \ S |-> mpOrphans[u]],
               WithoutOrphans(S))

-----------------------------------------------------------------------------
(* Calls that take a transaction *)

MempoolInit ==
    /\ mpPool = {} /\ outpoints = [o \in TxOutPoint |-> NoTx]
    /\ mpOrphans = [t \in {} |-> NoTx] /\ orphansByPrev = [o \in TxOutPoint |-> {}]
    /\ pennyTotal = 0 /\ mpJob = Free /\ mpTodo = <<>>
    /\ mpChain = <<>> /\ mpCurrent = TRUE /\ mpSkipped = FALSE /\ mpDropped = FALSE /\ mpMoves = 0

SyncIdle == mpTodo = <<>> /\ mpJob.who # "sync"

\* ProcessTransaction, up to FetchUtxoView: for a peer, with its tag, or for
\* sendrawtransaction, which wants no orphans
BeginProcess(t, who, tag) ==
    /\ mpJob = Free /\ (who = "sync" => SyncIdle)
    /\ mpJob' = [who |-> who, call |-> "process", tx |-> t, tag |-> tag, coins |-> Coins]
    /\ UNCHANGED <<mpTables, pennyTotal, mpTodo, mpChain, mpCurrent, mpSkipped, mpDropped, mpMoves>>

\* The list of processOrphans: the outputs of the accepted transactions
OrphanJob(t, also) ==
    [who |-> mpJob.who, call |-> "orphans", list |-> SetToSeq(Outs(t)) \o also,
     done |-> {t}, tx |-> t]

\* The rest of ProcessTransaction, but for processOrphans
EndProcess ==
    LET t == mpJob.tx
        isRpc == mpJob.who = "rpc"
        verdict == CheckMempoolAcceptance(t, mpJob.coins, TRUE, ~isRpc, TRUE)
    IN  /\ mpJob # Free /\ mpJob.call = "process"
        /\ pennyTotal' = Penny(t, mpJob.coins, TRUE, ~isRpc, TRUE)
        /\ CASE verdict = "ok" -> AddTransaction(t, {}) /\ mpJob' = OrphanJob(t, <<>>)
             [] verdict = "missing" /\ ~isRpc ->
                    /\ \E S \in SUBSET DOMAIN mpOrphans : AddOrphan(t, mpJob.tag, S)
                    /\ mpJob' = Free
             [] OTHER -> UNCHANGED mpTables /\ mpJob' = Free
        /\ UNCHANGED <<mpTodo, mpChain, mpCurrent, mpSkipped, mpDropped, mpMoves>>

\* One output of processOrphans.  Its orphans are tried in the order of the
\* map; the first one that misses nothing ends the search, accepted or not.
ProcessOrphanOutput ==
    LET o == Head(mpJob.list)
        Verdict(t) == CheckMempoolAcceptance(t, Coins, TRUE, TRUE, FALSE)
        decided == {t \in orphansByPrev[o] : Verdict(t) # "missing"}
    IN  /\ mpJob # Free /\ mpJob.call = "orphans" /\ mpJob.list # <<>>
        /\ IF decided = {}
           THEN /\ mpJob' = [mpJob EXCEPT !.list = Tail(@)]
                /\ UNCHANGED <<mpTables, pennyTotal>>
           ELSE \E t \in decided :
                /\ pennyTotal' = Penny(t, Coins, TRUE, TRUE, FALSE)
                /\ IF Verdict(t) = "ok"
                   THEN /\ AddTransaction(t, {t})
                        /\ mpJob' = [mpJob EXCEPT !.list = Tail(@) \o SetToSeq(Outs(t)),
                                                  !.done = @ \cup {t}]
                   ELSE /\ RemoveOrphans(OrphanFamily({t}))
                        /\ mpJob' = [mpJob EXCEPT !.list = Tail(@)]
        /\ UNCHANGED <<mpTodo, mpChain, mpCurrent, mpSkipped, mpDropped, mpMoves>>

\* removeOrphanDoubleSpends at the end of processOrphans
EndProcessOrphans ==
    /\ mpJob # Free /\ mpJob.call = "orphans" /\ mpJob.list = <<>>
    /\ RemoveOrphans(OrphanFamily(UNION {orphansByPrev[o] : o \in UNION {Ins(t) : t \in mpJob.done}}))
    /\ mpJob' = Free
    /\ UNCHANGED <<pennyTotal, mpTodo, mpChain, mpCurrent, mpSkipped, mpDropped, mpMoves>>

\* RemoveOrphansByTag, when the peer has gone
RemoveOrphansByTag(tag) ==
    /\ mpJob = Free
    /\ RemoveOrphans(OrphanFamily({t \in DOMAIN mpOrphans : mpOrphans[t] = tag}))
    /\ UNCHANGED <<pennyTotal, mpJob, mpTodo, mpChain, mpCurrent, mpSkipped, mpDropped, mpMoves>>

\* Mutation: the total falls by a fixed amount.
DecayLinear ==
    /\ pennyTotal > 0 /\ pennyTotal' = pennyTotal - 2
    /\ UNCHANGED <<mpTables, mpJob, mpTodo, mpChain, mpCurrent, mpSkipped, mpDropped, mpMoves>>

\* pennyTotal decays with time.
Decay ==
    /\ pennyTotal > 0 /\ pennyTotal' = pennyTotal \div 2
    /\ UNCHANGED <<mpTables, mpJob, mpTodo, mpChain, mpCurrent, mpSkipped, mpDropped, mpMoves>>

-----------------------------------------------------------------------------
(* Blocks *)

Note(call, t) == [call |-> call, tx |-> t]

\* The calls of handleBlockchainNotification for NTBlockConnected: four for
\* each transaction, in the order of the block
ConnectNotes(b) ==
    LET calls == <<"remove", "doubles", "orphan", "process">>
    IN  [i \in 1..(4 * Len(b)) |-> Note(calls[((i - 1) % 4) + 1], b[((i - 1) \div 4) + 1])]

\* The chain connects a block and then notifies; the notification is ignored
\* unless the sync manager believes itself current.
ConnectBlockTxs(b) ==
    /\ SyncIdle /\ mpMoves < MaxChainMoves
    /\ Range(b) \cap Confirmed = {}
    /\ \A i \in DOMAIN b : Ins(b[i]) \subseteq Coins \cup UNION {Outs(b[j]) : j \in 1..(i - 1)}
    /\ \A i, j \in DOMAIN b : i # j => Ins(b[i]) \cap Ins(b[j]) = {}
    /\ mpChain' = Append(mpChain, b)
    /\ mpTodo' = IF mpCurrent THEN ConnectNotes(b) ELSE <<>>
    /\ mpSkipped' = (mpSkipped \/ ~mpCurrent)
    /\ mpMoves' = mpMoves + 1
    /\ UNCHANGED <<mpTables, pennyTotal, mpJob, mpCurrent, mpDropped>>

DisconnectBlockTxs ==
    /\ SyncIdle /\ mpMoves < MaxChainMoves /\ mpChain # <<>>
    /\ mpChain' = Front(mpChain)
    /\ mpTodo' = [i \in DOMAIN Last(mpChain) |-> Note("readd", Last(mpChain)[i])]
    /\ mpMoves' = mpMoves + 1
    /\ UNCHANGED <<mpTables, pennyTotal, mpJob, mpCurrent, mpSkipped, mpDropped>>

\* One call of the notification handler
HandleNotification ==
    LET n == Head(mpTodo)
        t == n.tx
        verdict == CheckMempoolAcceptance(t, Coins, FALSE, FALSE, TRUE)
    IN  /\ mpTodo # <<>> /\ mpJob = Free
        /\ CASE n.call = "remove" -> RemoveTransactions({t})
             [] n.call = "doubles" ->
                    RemoveTransactions(UNION {WithRedeemers(c) : c \in Spenders(t) \ {t}})
             [] n.call = "orphan" -> RemoveOrphans({t})
             [] n.call = "process" -> UNCHANGED mpTables
             [] n.call = "readd" ->
                    CASE verdict = "ok" -> AddTransaction(t, {})
                      [] verdict = "reject" -> RemoveTransactions(WithRedeemers(t))
                      [] OTHER -> UNCHANGED mpTables
        /\ mpJob' = IF n.call = "process"
                    THEN [who |-> "sync", call |-> "orphans", list |-> SetToSeq(Outs(t)),
                          done |-> {t}, tx |-> t]
                    ELSE Free
        /\ mpTodo' = Tail(mpTodo)
        /\ mpDropped' = (mpDropped \/ (n.call = "readd" /\ verdict = "missing"))
        /\ UNCHANGED <<pennyTotal, mpChain, mpCurrent, mpSkipped, mpMoves>>

\* sm.current() depends on the sync peer's last block.
ChangeCurrent ==
    /\ SyncIdle /\ mpCurrent' = ~mpCurrent
    /\ UNCHANGED <<mpTables, pennyTotal, mpJob, mpTodo, mpChain, mpSkipped, mpDropped, mpMoves>>

MempoolNext ==
    \/ \E t \in Tx : BeginProcess(t, "rpc", NoTx) \/ \E p \in PeerTag : BeginProcess(t, "sync", p)
    \/ EndProcess \/ ProcessOrphanOutput \/ EndProcessOrphans
    \/ \E p \in PeerTag : RemoveOrphansByTag(p)
    \/ Decay
    \/ \E b \in MpBlocks : ConnectBlockTxs(b)
    \/ DisconnectBlockTxs \/ HandleNotification \/ ChangeCurrent

MempoolSpec == MempoolInit /\ [][MempoolNext]_mpVars

-----------------------------------------------------------------------------
(* Properties *)

\* The types of the pool's tables.
MempoolTypeOK ==
    /\ mpPool \subseteq Tx /\ outpoints \in [TxOutPoint -> Tx \cup {NoTx}]
    /\ DOMAIN mpOrphans \subseteq Tx /\ \A t \in DOMAIN mpOrphans : mpOrphans[t] \in PeerTag
    /\ orphansByPrev \in [TxOutPoint -> SUBSET Tx]
    /\ pennyTotal \in Nat /\ mpMoves \in 0..MaxChainMoves

\* outpoints names for every output the one pool transaction that spends it, and
\* nobody who has left: so no two transactions of the pool spend one output.
SpendsIndexed ==
    \A o \in TxOutPoint :
        {t \in mpPool : o \in Ins(t)} = IF outpoints[o] = NoTx THEN {} ELSE {outpoints[o]}

\* The index of the orphans has exactly the orphans, there are never more than
\* MaxOrphanTxs of them, and none is in the pool as well.
OrphansIndexed ==
    /\ \A o \in TxOutPoint : orphansByPrev[o] = {t \in DOMAIN mpOrphans : o \in Ins(t)}
    /\ Cardinality(DOMAIN mpOrphans) <= MaxOrphanTxs
    /\ DOMAIN mpOrphans \cap mpPool = {}

Settled == mpTodo = <<>> /\ mpJob = Free /\ ~mpSkipped

Minable(t) ==
    /\ t \notin Confirmed
    /\ \A o \in Ins(t) : o \in Coins \/ \E p \in mpPool : o \in Outs(p)

\* When the notifications of the last block are handled and no call is under
\* way, every transaction in the pool could be mined: it is not yet in the chain
\* and its inputs are unspent there or come from the pool, whatever was replaced,
\* reorganized or accepted meanwhile.  Two cases are excepted: blocks connected
\* while the node was not current, and a transaction of a disconnected block
\* that missed a parent.
PoolMinable == Settled /\ ~mpDropped => \A t \in mpPool : Minable(t)

\* "Remove the transaction and all transactions that depend on it if it wasn't
\* accepted into the transaction pool." (manager.go)
DependentsRemoved == Settled => \A t \in mpPool : Minable(t)

\* Accepting a transaction never lowers the fees that the pool offers, although
\* it may evict others and all that depends on them.
FeesGrow == [][mpPool' \ mpPool # {} => SumFees(mpPool') >= SumFees(mpPool)]_mpVars

\* The tables of the pool agree with each other, and what is in the pool can be
\* mined, while blocks come and go between the calls.
MempoolInvariant ==
    /\ MempoolTypeOK /\ SpendsIndexed /\ OrphansIndexed /\ PoolMinable
=============================================================================
