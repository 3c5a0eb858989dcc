------------------------------ MODULE MCWalletTx ------------------------------
EXTENDS WalletTx
\* c is a coinbase; a spends it, b the output of a, and d is another spender of
\* the coinbase.
MCWtTx == [t \in {"c", "a", "b", "d"} |->
    CASE t = "c" -> [ins |-> {}, outs |-> {"c0"}, coinbase |-> TRUE]
      [] t = "a" -> [ins |-> {"c0"}, outs |-> {"a0", "a1"}, coinbase |-> FALSE]
      [] t = "b" -> [ins |-> {"a0"}, outs |-> {"b0"}, coinbase |-> FALSE]
      [] t = "d" -> [ins |-> {"c0"}, outs |-> {"d0"}, coinbase |-> FALSE]]
MCWtValue == [op \in {"c0", "a0", "a1", "b0", "d0"} |->
    CASE op = "c0" -> 16 [] op = "a0" -> 8 [] op = "a1" -> 4 [] op = "b0" -> 2 [] op = "d0" -> 1]
MCWtBlock == [b \in {"k1", "k2", "k3", "k4", "k5"} |->
    CASE b = "k1" -> <<"c">> [] b = "k2" -> <<"c", "a">> [] b = "k3" -> <<"a", "b">>
      [] b = "k4" -> <<"d">> [] b = "k5" -> <<"a">>]
===============================================================================
