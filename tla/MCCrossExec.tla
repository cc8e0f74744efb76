----------------------------- MODULE MCCrossExec -----------------------------
(* Inputs of the model-checking runs of CrossExec.                          *)
EXTENDS CrossExec

OnePairs == {<<"BTC", "USDT">>}
DefaultFees == [x \in Exchanges |->
                 CASE x = "bybit" -> 6 [] x = "okx" -> 8 [] OTHER -> 10]
TwoQuotes == {[bid |-> 9998, ask |-> 10000], [bid |-> 10060, ask |-> 10062]}
Losing   == {-2000}
==============================================================================
