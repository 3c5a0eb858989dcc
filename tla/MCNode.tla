------------------------------- MODULE MCNode -------------------------------
(* The parts of the coin node that keep the chain, each in behaviours of its *)
(* own: the chain with its output cache and database, the memory pool, the   *)
(* sync manager, the indexes and the lists of the address index.             *)
EXTENDS MCChain, MCMempool, NetSync, MCIndexers, AddrLevels

VARIABLE part  \* the component of this behaviour

MCInit ==
    /\ part \in {"chain", "pool", "sync", "index", "levels"}
    /\ ChainInit /\ MempoolInit /\ NetSyncInit /\ IxInit /\ AlInit

MCNext ==
    /\ UNCHANGED part
    /\ \/ part = "chain" /\ ChainNext /\ UNCHANGED <<mpVars, nsVars, ixVars, alVars>>
       \/ part = "pool" /\ MempoolNext /\ UNCHANGED <<chainVars, nsVars, ixVars, alVars>>
       \/ part = "sync" /\ NetSyncNext /\ UNCHANGED <<chainVars, mpVars, ixVars, alVars>>
       \/ part = "index" /\ IxNext /\ UNCHANGED <<chainVars, mpVars, nsVars, alVars>>
       \/ part = "levels" /\ AlNext /\ UNCHANGED <<chainVars, mpVars, nsVars, ixVars>>

MCSpec ==
    /\ MCInit /\ [][MCNext]_<<part, chainVars, mpVars, nsVars, ixVars, alVars>>
    \* Fairness of NetSync
    /\ WF_nsVars(part = "sync" /\ BlockHandler)
    /\ WF_nsVars(part = "sync" /\ HandleStallSample)
    /\ \A p \in Peer : WF_nsVars(part = "sync" /\ DonePeer(p) /\ conn[p] = "closing")
    /\ \A p \in Peer \ Faulty : /\ WF_nsVars(part = "sync" /\ NewPeer(p))
                                /\ WF_nsVars(part = "sync" /\ PeerAnswers(p))
=============================================================================
