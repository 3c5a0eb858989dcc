------------------------------ MODULE MCMempool ------------------------------
EXTENDS Mempool

Form == [version |-> 1, final |-> TRUE, weight |-> 800, sigScript |-> 100, pushOnly |-> TRUE,
         outputs |-> {[class |-> "pubkeyhash", size |-> 34, value |-> 1000, keys |-> 1, sigs |-> 1]},
         inputs |-> {[class |-> "pubkeyhash", sigops |-> 1]}]
T(ins, outs, fee, signals) ==
    [ins |-> ins, outs |-> outs, fee |-> fee, size |-> 1, signals |-> signals,
     fault |-> "none", form |-> Form, priority |-> TRUE]

\* a spends a coin, c its output and a coin, d the output of c; r replaces a.
\* a pays no fee.
MCTx == {"a", "c", "d", "r"}
MCOutPoint == {"k", "l", "oa", "oc"}
MCMpTx == [t \in MCTx |->
    CASE t = "a" -> T({"k"}, {"oa"}, 0, TRUE)
      [] t = "c" -> T({"oa", "l"}, {"oc"}, 3, FALSE)
      [] t = "d" -> [T({"oc"}, {}, 4, FALSE) EXCEPT !.form.outputs = {}]
      [] t = "r" -> T({"k"}, {}, 5, FALSE)]
MCMpBlocks == {<<"a">>, <<"a", "c">>, <<"r">>}
==============================================================================
