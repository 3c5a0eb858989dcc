----------------------------- MODULE MCServices -----------------------------
(* The services of the application, each in behaviours of its own: the file  *)
(* market, the confirmation prompt, the payment of pieces, the chunk store and *)
(* the manager of the coin node.  part says which one moves.                 *)
EXTENDS MCMarket, Confirmation, Metering, ChunkStore, NodeManager

VARIABLE part  \* the component of this behaviour

CONSTANTS r1, r2, r3, d1, d2, d3, u1, u2, w1, w2, q1, q2, q3

\* Two long files, and one that fits into one piece.
MCPieces == [d \in Downloads |-> CASE d = d1 -> 2 [] d = d2 -> 3 [] OTHER -> 1]

\* A file whose last chunk is short, one with a chunk twice which it shares with the first,
\* and puts of a whole file that is also a chunk and of one that is too large for the drive.
MCContent == [w \in Writers |->
    CASE w = u1 -> <<1, 1, 2>> [] w = u2 -> <<1, 1, 1, 1>> [] w = w1 -> <<2>> [] OTHER -> <<2, 1, 1>>]

MCInit ==
    /\ part \in {"market", "prompt", "pieces", "chunks", "node"}
    /\ MarketInit /\ ConfirmationInit /\ MeteringInit /\ ChunkStoreInit /\ NodeManagerInit
    /\ part # "node" => made = 0

MCNext ==
    /\ UNCHANGED part
    /\ \/ part = "market" /\ MarketNext /\ UNCHANGED <<confirmationVars, meteringVars, chunkStoreVars, nodeManagerVars>>
       \/ part = "prompt" /\ ConfirmationNext /\ UNCHANGED <<marketVars, meteringVars, chunkStoreVars, nodeManagerVars>>
       \/ part = "pieces" /\ MeteringNext /\ UNCHANGED <<marketVars, confirmationVars, chunkStoreVars, nodeManagerVars>>
       \/ part = "chunks" /\ ChunkStoreNext /\ UNCHANGED <<marketVars, confirmationVars, meteringVars, nodeManagerVars>>
       \/ part = "node" /\ NodeManagerNext /\ UNCHANGED <<marketVars, confirmationVars, meteringVars, chunkStoreVars>>

MCSpec ==
    /\ MCInit /\ [][MCNext]_<<part, marketVars, confirmationVars, meteringVars, chunkStoreVars, nodeManagerVars>>
=============================================================================
