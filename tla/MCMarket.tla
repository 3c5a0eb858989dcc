------------------------------ MODULE MCMarket ------------------------------
(* Market for TLC: two producers, and prices whose records differ in length *)
(* (a price is a varint in the protocol buffer).                            *)
EXTENDS Market, TLC

CONSTANTS n1, n2, s1, s2

MCBytes == (1 :> 10) @@ (200 :> 11)
MCNoSkew == [n \in Nodes |-> 0]
MCSkew == [n \in Nodes |-> IF n = n1 THEN 1 ELSE 0]
=============================================================================
