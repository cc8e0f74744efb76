---------------------------- MODULE MCRiskEngine ----------------------------
(* Inputs of the model-checking runs of RiskEngine. *)
EXTENDS RiskEngine

OnePair    == {<<"ETH", "USDT">>}
MCRealized == {-20, 10}
OneDelta   == {[qty |-> 1, value |-> 10]}
=============================================================================
