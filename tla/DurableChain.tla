---------------------------- MODULE DurableChain ----------------------------
(***************************************************************************)
(* What the chain of a node promises about its data base: the best block   *)
(* and the coins that can be spent change together, one valid block at a   *)
(* time, and a crash changes neither.  Chain implements it.                *)
(***************************************************************************)
CONSTANTS Block, Genesis, Prev, Creates, Spends, Fault

VARIABLES best, coins

DurableInit == best = Genesis /\ coins = {}

Connect(b) ==
    /\ Prev[b] = best /\ b # Genesis
    /\ Fault[b] = "none" /\ Spends[b] \subseteq coins
    /\ best' = b
    /\ coins' = (coins \ Spends[b]) \cup Creates[b]

Disconnect ==
    /\ best # Genesis
    /\ best' = Prev[best]
    /\ coins' = (coins \ Creates[best]) \cup Spends[best]

DurableNext == Disconnect \/ \E b \in Block : Connect(b)

DurableSpec == DurableInit /\ [][DurableNext]_<<best, coins>>
=============================================================================
