------------------------------ MODULE Metering ------------------------------
(***************************************************************************)
(* The HTTP download of a stored file (sendFile, route /requestFile/) and  *)
(* the route /sendTransaction (handleTransaction) of peer/internal/server. *)
(*                                                                         *)
(* sendFile sends a file longer than chunkSize piece by piece and receives *)
(* from eventChannel after each piece; handleTransaction sends one event   *)
(* on it for each transaction.  The channel is one unbuffered channel for  *)
(* all downloads: a send and a receive happen together, in one step.       *)
(***************************************************************************)
EXTENDS Integers, FiniteSets, FiniteSetsExt

CONSTANTS
    Downloads,      \* the requests for files
    Pieces,         \* Pieces[d]: pieces of chunkSize bytes in d's file
    Transactions    \* the calls of /sendTransaction

ASSUME MeteringAssumption ==
    /\ Pieces \in [Downloads -> Nat]
    /\ IsFiniteSet(Downloads)
    /\ IsFiniteSet(Transactions)

VARIABLES
    download,       \* where each download is
    sent,           \* pieces each download was sent
    transaction     \* where each transaction's handler is

meteringVars == <<download, sent, transaction>>

\* The types of the downloads of sendFile and of the handlers of transactions.
MeteringTypeOK ==
    /\ download \in [Downloads -> {"new", "reading", "paywait", "done", "error"}]
    /\ sent \in [Downloads -> Nat] /\ \A d \in Downloads : sent[d] <= Pieces[d]
    /\ transaction \in [Transactions -> {"new", "signalling", "done", "rejected"}]

MeteringInit ==
    /\ download = [d \in Downloads |-> "new"]
    /\ sent = [d \in Downloads |-> 0]
    /\ transaction = [t \in Transactions |-> "new"]

-----------------------------------------------------------------------------
(* sendFile *)

\* The file is missing, or it fits into one piece and is sent at once, or
\* the loop begins.
Open(d) ==
    /\ download[d] = "new"
    /\ \/ download' = [download EXCEPT ![d] = "error"] /\ UNCHANGED sent
       \/ /\ Pieces[d] <= 1
          /\ download' = [download EXCEPT ![d] = "done"]
          /\ sent' = [sent EXCEPT ![d] = Pieces[d]]
       \/ /\ Pieces[d] > 1
          /\ download' = [download EXCEPT ![d] = "reading"]
          /\ UNCHANGED sent
    /\ UNCHANGED transaction

\* Mutation: a piece is sent without waiting for an event.
ReadPieceUnpaid(d) ==
    /\ download[d] = "reading"
    /\ IF sent[d] = Pieces[d]
         THEN download' = [download EXCEPT ![d] = "done"] /\ UNCHANGED sent
         ELSE sent' = [sent EXCEPT ![d] = @ + 1] /\ UNCHANGED download
    /\ UNCHANGED transaction

\* Mutation: the end of the file is not noticed.
ReadPieceEndless(d) ==
    /\ download[d] = "reading"
    /\ sent' = [sent EXCEPT ![d] = @ + 1]
    /\ download' = [download EXCEPT ![d] = "paywait"]
    /\ UNCHANGED transaction

\* The next piece is read and sent, or the end of the file is met.  Whether
\* the client is still there makes no difference: the error of w.Write is
\* ignored, and the download goes on consuming events.
ReadPiece(d) ==
    /\ download[d] = "reading"
    /\ IF sent[d] = Pieces[d]
         THEN download' = [download EXCEPT ![d] = "done"] /\ UNCHANGED sent
         ELSE /\ sent' = [sent EXCEPT ![d] = @ + 1]
              /\ download' = [download EXCEPT ![d] = "paywait"]
    /\ UNCHANGED transaction

ReadError(d) ==
    /\ download[d] = "reading"
    /\ download' = [download EXCEPT ![d] = "error"]
    /\ UNCHANGED <<sent, transaction>>

-----------------------------------------------------------------------------
(* handleTransaction *)

\* A body, key or transaction that does not parse, or a file that cannot be
\* written, ends the handler.  The signature is checked, but whatever comes
\* of it only a message is printed.
Receive(t) ==
    /\ transaction[t] = "new"
    /\ transaction' = [transaction EXCEPT ![t] = "signalling"]
    /\ UNCHANGED <<download, sent>>

Reject(t) ==
    /\ transaction[t] = "new"
    /\ transaction' = [transaction EXCEPT ![t] = "rejected"]
    /\ UNCHANGED <<download, sent>>

\* eventChannel <- true and <-eventChannel.
Event(t, d) ==
    /\ transaction[t] = "signalling"
    /\ download[d] = "paywait"
    /\ transaction' = [transaction EXCEPT ![t] = "done"]
    /\ download' = [download EXCEPT ![d] = "reading"]
    /\ UNCHANGED sent

MeteringNext ==
    \/ \E d \in Downloads : Open(d) \/ ReadPiece(d) \/ ReadError(d)
    \/ \E t \in Transactions : Receive(t) \/ Reject(t)
    \/ \E t \in Transactions, d \in Downloads : Event(t, d)

MeteringSpec == MeteringInit /\ [][MeteringNext]_meteringVars

-----------------------------------------------------------------------------
(* Properties *)

Used == {t \in Transactions : transaction[t] = "done"}

\* No piece is given away, and no transaction is used twice or lost between
\* two downloads: over all files longer than one piece, the transactions that
\* were taken are as many as the pieces sent, but for those still waited for.
PiecesArePaid ==
    Cardinality(Used) =
        MapThenSumSet(LAMBDA d : IF Pieces[d] <= 1 THEN 0
                                 ELSE sent[d] - (IF download[d] = "paywait" THEN 1 ELSE 0),
                      Downloads)

\* The shared channel of sendFile and handleTransaction pays for exactly the
\* pieces that were sent, whichever download takes a transaction.
MeteringInvariant ==
    /\ MeteringTypeOK /\ PiecesArePaid
=============================================================================
