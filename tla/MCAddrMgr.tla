----------------------------- MODULE MCAddrMgr -----------------------------
(* AddrMgr for TLC: three addresses from two sources, two new buckets. *)
EXTENDS AddrMgr
MCAmNewBucket == [x \in AmAddrs \X AmSources |-> IF x[2] = "s" THEN 1 ELSE 2]
MCAmTriedBucket == [a \in AmAddrs |-> 1]
=============================================================================
