----------------------------- MODULE MCIndexers -----------------------------
(* Indexers for TLC: a fork of the genesis block with one and two blocks. *)
EXTENDS Indexers
MCIxParent == [b \in {"g", "a", "b", "c"} |-> CASE b = "g" -> "zero" [] b = "a" -> "g" [] b = "b" -> "g" [] b = "c" -> "b"]
=============================================================================
