---------------------------- MODULE Confirmation ----------------------------
(***************************************************************************)
(* Requests to store a file on a peer (storeFile of peer/internal/server)  *)
(* and the prompt of its command line, which share the variables           *)
(* confirming and confirmation of StartCLI without any lock.               *)
(*                                                                         *)
(* storeFile sets confirming and spins on confirmation, which it reads     *)
(* twice in each round.  The prompt looks at confirming when a line has    *)
(* been typed, and then writes the answer to confirmation.  A string is    *)
(* two words: a read that meets a write between "" and "yes" may see the   *)
(* length of "yes" with the nil pointer of "", which panics; net/http ends *)
(* that request and goes on.                                               *)
(***************************************************************************)
EXTENDS Integers, FiniteSets

CONSTANTS
    StoreRequests,       \* the requests to store a file
    MaxLines        \* how many answers are typed (a bound)

ASSUME ConfirmationAssumption == IsFiniteSet(StoreRequests) /\ MaxLines \in Nat

Answers == {"yes", "no"}
NoAnswer == ""

VARIABLES
    confirming,     \* the flag of StartCLI
    confirmation,   \* the answer of StartCLI
    line,           \* the answer the prompt is about to write
    storeAt,             \* where each request is in storeFile
    stored,         \* the requests whose file was stored
    lines,          \* how many lines were typed in confirming mode
    yeses,          \* history variable: how many of them were "yes"
    storesOverlapped      \* history variable: a request came while another waited

confirmationVars == <<confirming, confirmation, line, storeAt, stored, lines, yeses, storesOverlapped>>

Waiting == {"waiting", "seen"}
Leaving == {"accepted", "declined", "acceptedcleared", "declinedcleared"}
Over == {"confirmed", "stored", "refused", "died"}

\* The types of the prompt, of its two shared variables and of the storage requests.
ConfirmationTypeOK ==
    /\ confirming \in BOOLEAN
    /\ confirmation \in Answers \cup {NoAnswer}
    /\ line \in Answers \cup {NoAnswer}
    /\ storeAt \in [StoreRequests -> {"new"} \cup Waiting \cup Leaving \cup Over]
    /\ stored \subseteq StoreRequests
    /\ lines \in 0..MaxLines
    /\ yeses \in 0..lines
    /\ storesOverlapped \in BOOLEAN

ConfirmationInit ==
    /\ confirming = FALSE
    /\ confirmation = NoAnswer
    /\ line = NoAnswer
    /\ storeAt = [r \in StoreRequests |-> "new"]
    /\ stored = {}
    /\ lines = 0
    /\ yeses = 0
    /\ storesOverlapped = FALSE

StoreGoto(r, from, to) == storeAt[r] = from /\ storeAt' = [storeAt EXCEPT ![r] = to]

-----------------------------------------------------------------------------
(* storeFile *)

\* The body of the request does not parse.
BadRequest(r) ==
    /\ StoreGoto(r, "new", "refused")
    /\ UNCHANGED <<confirming, confirmation, line, stored, lines, yeses, storesOverlapped>>

Ask(r) ==
    /\ StoreGoto(r, "new", "waiting")
    /\ confirming' = TRUE
    /\ storesOverlapped' = (storesOverlapped \/ \E q \in StoreRequests : storeAt[q] \in Waiting \cup Leaving)
    /\ UNCHANGED <<confirmation, line, stored, lines, yeses>>

\* The loop's condition, *confirmation != "yes".
ReadFirst(r) ==
    /\ StoreGoto(r, "waiting", IF confirmation = "yes" THEN "accepted" ELSE "seen")
    /\ UNCHANGED <<confirming, confirmation, line, stored, lines, yeses, storesOverlapped>>

\* The condition inside, *confirmation != "": also a "yes" that came between
\* the two reads declines the request.  (A compiler that merges the reads
\* only leaves behaviours out.)
ReadAgain(r) ==
    /\ StoreGoto(r, "seen", IF confirmation # NoAnswer THEN "declined" ELSE "waiting")
    /\ UNCHANGED <<confirming, confirmation, line, stored, lines, yeses, storesOverlapped>>

\* A write of confirmation, by which the requests that it tears die, and the
\* request that makes it, if one does, moves on.
Write(new, moved) ==
    /\ confirmation' = new
    /\ \E torn \in SUBSET {q \in StoreRequests : storeAt[q] \in Waiting} :
         /\ torn # {} => {confirmation, new} = {"yes", NoAnswer}
         /\ storeAt' = [q \in StoreRequests |-> IF q \in torn THEN "died" ELSE moved[q]]

\* Mutation: the answer is left for the next request.
ClearConfirmationForgotten(r) ==
    /\ storeAt[r] \in {"accepted", "declined"}
    /\ storeAt' = [storeAt EXCEPT ![r] = IF @ = "accepted" THEN "acceptedcleared" ELSE "declinedcleared"]
    /\ UNCHANGED <<confirming, confirmation, line, stored, lines, yeses, storesOverlapped>>

ClearConfirmation(r) ==
    /\ storeAt[r] \in {"accepted", "declined"}
    /\ Write(NoAnswer, [storeAt EXCEPT ![r] = IF @ = "accepted" THEN "acceptedcleared"
                                                           ELSE "declinedcleared"])
    /\ UNCHANGED <<confirming, line, stored, lines, yeses, storesOverlapped>>

ClearConfirming(r) ==
    /\ StoreGoto(r, "acceptedcleared", "confirmed") \/ StoreGoto(r, "declinedcleared", "refused")
    /\ confirming' = FALSE
    /\ UNCHANGED <<confirmation, line, stored, lines, yeses, storesOverlapped>>

\* storage.PutFile, which may fail.
PutFile(r) ==
    /\ \/ StoreGoto(r, "confirmed", "stored") /\ stored' = stored \cup {r}
       \/ StoreGoto(r, "confirmed", "refused") /\ UNCHANGED stored
    /\ UNCHANGED <<confirming, confirmation, line, lines, yeses, storesOverlapped>>

-----------------------------------------------------------------------------
(* The prompt *)

\* Mutation: typing anything ends the question.
TypeLineEnds(answer) ==
    /\ line = NoAnswer
    /\ lines < MaxLines
    /\ confirming
    /\ confirming' = FALSE
    /\ line' = answer
    /\ lines' = lines + 1
    /\ yeses' = yeses + (IF answer = "yes" THEN 1 ELSE 0)
    /\ UNCHANGED <<confirmation, storeAt, stored, storesOverlapped>>

\* A line is typed while confirming is set; otherwise it is a command.
TypeLine(answer) ==
    /\ line = NoAnswer
    /\ lines < MaxLines
    /\ confirming
    /\ line' = answer
    /\ lines' = lines + 1
    /\ yeses' = yeses + (IF answer = "yes" THEN 1 ELSE 0)
    /\ UNCHANGED <<confirming, confirmation, storeAt, stored, storesOverlapped>>

\* Mutation: the prompt passes on the word that was typed.
WriteAnswerRaw ==
    /\ line # NoAnswer
    /\ confirmation' = IF line = "no" THEN "nope" ELSE line
    /\ line' = NoAnswer
    /\ UNCHANGED <<confirming, storeAt, stored, lines, yeses, storesOverlapped>>

\* Any word but "yes" is written as "no".
WriteAnswer ==
    /\ line # NoAnswer
    /\ Write(line, storeAt)
    /\ line' = NoAnswer
    /\ UNCHANGED <<confirming, stored, lines, yeses, storesOverlapped>>

ConfirmationNext ==
    \/ \E r \in StoreRequests :
         \/ BadRequest(r) \/ Ask(r) \/ ReadFirst(r) \/ ReadAgain(r)
         \/ ClearConfirmation(r) \/ ClearConfirming(r) \/ PutFile(r)
    \/ \E answer \in Answers : TypeLine(answer)
    \/ WriteAnswer

ConfirmationSpec == ConfirmationInit /\ [][ConfirmationNext]_confirmationVars

-----------------------------------------------------------------------------
(* Properties *)

\* A user who never typed "yes" to a question stores nothing, however the
\* reads and the writes of the two variables interleave.  Requests that do not
\* overlap are each stored by a "yes" of their own, although one that is typed
\* late may be taken by a request that asks after it was typed.  (Of
\* overlapping requests, several may read the same "yes".)
OneYesOneFile ==
    /\ stored # {} => yeses > 0
    /\ ~storesOverlapped => Cardinality(stored) <= yeses

\* A request that waits alone can still be answered: the prompt is in
\* confirming mode until that request has its answer.  (A second request
\* loses it: the first one to be answered clears confirming for both.)
PromptStaysOpen ==
    ~storesOverlapped => \A r \in StoreRequests : storeAt[r] \in Waiting => confirming

\* storeFile and the prompt share their variables without a lock; still a file
\* needs a "yes" of its own, and a request that waits alone can be answered.
ConfirmationInvariant ==
    /\ ConfirmationTypeOK /\ OneYesOneFile /\ PromptStaysOpen
=============================================================================
