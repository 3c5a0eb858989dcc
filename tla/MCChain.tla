------------------------------- MODULE MCChain -------------------------------
(***************************************************************************)
(* Chain for TLC.  On the block c1 there are two branches:                 *)
(*                                                                         *)
(*     g - c1 - a1 - a2                                                    *)
(*           \- b1 - b2 - b3                                               *)
(*                     \- x3                                               *)
(*                                                                         *)
(* a1 spends the output of c1, and so does b2; the transaction of a2 is    *)
(* also in b3, at another height; x3 breaks a rule.                        *)
(***************************************************************************)
EXTENDS Chain

MCBlock == {"g", "c1", "a1", "a2", "b1", "b2", "b3", "x3"}
MCOut == {"oc", "oa", "ot"}
MCPrev == [b \in MCBlock |->
    CASE b = "c1" -> "g" [] b = "a1" -> "c1" [] b = "a2" -> "a1" [] b = "b1" -> "c1"
      [] b = "b2" -> "b1" [] b = "b3" -> "b2" [] b = "x3" -> "b2" [] OTHER -> "g"]
MCWork == [b \in MCBlock |-> 1]
MCCreates == [b \in MCBlock |->
    CASE b = "c1" -> {"oc"} [] b = "a1" -> {"oa"} [] b = "a2" -> {"ot"} [] b = "b2" -> {"oa"}
      [] b = "b3" -> {"ot"} [] OTHER -> {}]
MCSpends == [b \in MCBlock |->
    CASE b = "a1" -> {"oc"} [] b = "a2" -> {"oa"} [] b = "b2" -> {"oc"} [] b = "b3" -> {"oa"} [] OTHER -> {}]
MCFault == [b \in MCBlock |-> IF b = "x3" THEN "connect" ELSE "none"]
=============================================================================
