--------------------------- MODULE MCFileTransfer ---------------------------
(* FileTransfer for TLC. *)
EXTENDS FileTransfer

CONSTANTS p1, p2, f1, f0

\* f1 has two chunks, f0 is empty.
MCChunks == [f \in Files |-> IF f = f0 THEN 0 ELSE 2]

\* What the market may answer: nobody, one holder, or two at two prices.
MCOffers == {<<>>, <<[id |-> p1, price |-> 1]>>,
             <<[id |-> p1, price |-> 2], [id |-> p2, price |-> 1]>>}
MCOneOffer == {<<[id |-> p1, price |-> 1]>>}
MCNoneOrOne == {<<>>, <<[id |-> p1, price |-> 2]>>}
=============================================================================
