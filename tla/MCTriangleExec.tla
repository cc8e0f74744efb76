---------------------------- MODULE MCTriangleExec ----------------------------
(* Inputs of the model-checking runs of TriangleExec.  The triangle is the   *)
(* first of the default configuration, at 20 USD for BTC, 2 USD for ETH and  *)
(* 0.1 BTC for ETH; prices are in tenths.                                    *)
EXTENDS TriangleExec, TLC

BTCUSDT == <<"BTC", "USDT">>
ETHUSDT == <<"ETH", "USDT">>
ETHBTC  == <<"ETH", "BTC">>

OneTriangle == {[AB |-> BTCUSDT, BC |-> ETHUSDT, CA |-> ETHBTC]}
OnePairs    == {BTCUSDT, ETHUSDT, ETHBTC}
ToyPrice    == (BTCUSDT :> 200) @@ (ETHUSDT :> 20) @@ (ETHBTC :> 1)
Losing      == {-2000}

(* Workers are told apart by nothing.                                        *)
WorkerSymmetry == Permutations(Workers)
(* States that differ only in what neither a step nor a property will read *)
(* count as one: the engine's last answer, the days its own properties     *)
(* compare with, and the locals of an execution that has ended or only     *)
(* unwinds, unless one of the properties of its result is about them.      *)
IsRead(j) ==
  \/ j.pc \notin {"unwind2", "unwind1", "done"}
  \/ j.result = "rejected2" /\ (j.pc = "unwind1" \/ j.unwound = {1})
  \/ j.result = "success" /\ \A w \in Workers : rounds[w] <= 1

WhatIsRead ==
  <<positions, dailyPnL, pnlNonFinite, softStopTriggered, hardStopTriggered, late, rounds,
    [w \in Workers |-> IF IsRead(job[w]) THEN <<job[w], net[w]>> ELSE <<job[w].pc>>]>>
=============================================================================
