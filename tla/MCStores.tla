------------------------------ MODULE MCStores ------------------------------
(* The stores of the node and of the wallet, and the tables of connections,  *)
(* each in behaviours of its own: the block database, the transactions and the *)
(* keys of the wallet, the server with the connection manager, the address   *)
(* manager.                                                                  *)
EXTENDS Ffldb, MCWalletTx, KeyManager, MCServer, MCAddrMgr

VARIABLE part  \* the component of this behaviour

MCInit ==
    /\ part \in {"db", "wallet", "keys", "server", "addresses"}
    /\ FfldbInit /\ WalletTxInit /\ KeyManagerInit /\ ServerInit /\ AddrMgrInit

MCNext ==
    /\ UNCHANGED part
    /\ \/ part = "db" /\ FfldbNext /\ UNCHANGED <<wtVars, kmVars, svVars, amVars>>
       \/ part = "wallet" /\ WalletTxNext /\ UNCHANGED <<fdVars, kmVars, svVars, amVars>>
       \/ part = "keys" /\ KeyManagerNext /\ UNCHANGED <<fdVars, wtVars, svVars, amVars>>
       \/ part = "server" /\ ServerNext /\ UNCHANGED <<fdVars, wtVars, kmVars, amVars>>
       \/ part = "addresses" /\ AddrMgrNext /\ UNCHANGED <<fdVars, wtVars, kmVars, svVars>>

MCSpec ==
    /\ MCInit /\ [][MCNext]_<<part, fdVars, wtVars, kmVars, svVars, amVars>>
=============================================================================
