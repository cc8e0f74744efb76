----------------------------- MODULE Evaluation -----------------------------
(***************************************************************************)
(* What one look at a triangle comes to: the slippage its order books      *)
(* would cost (internal/slippage/slippage.go), the gross and net gain of   *)
(* its two directions (internal/strategy), and which of them the goroutine *)
(* of Run takes (internal/arbitrage/engine.go:331-365 and 575-623).        *)
(* Prices are in thousandths, gains in hundredths of a basis point,        *)
(* rounded down where the code has a float.                                *)
(***************************************************************************)
EXTENDS Integers, Sequences, SequencesExt

CONSTANTS
  Markets,   \* what the three pairs may be quoted at: per market, a function
             \* from "AB", "BC", "CA" to [bid, ask, known, bids, asks], the
             \* last two being books of [price, qty] when known
  Notional   \* USD of the tentative order

Legs == {"AB", "BC", "CA"}

ASSUME EvaluationAssumption ==
  /\ Notional \in Nat \ {0}
  /\ \A m \in DOMAIN Markets, x \in Legs :
       {Markets[m][x].bid, Markets[m][x].ask} \subseteq Nat

(* "effectively reject".  1e9 bps in the code; gains are compared with it  *)
(* and TLC's integers have 32 bits, so it is scaled down as the prices are *)
(* (the default triangles gain about 1e11 bps forward).                    *)
Thin == 10000000

-----------------------------------------------------------------------------
(* The levels of one side are consumed until the quantity is filled; a     *)
(* level without quantity ends the walk.                                   *)
Walk(levels, qty) ==
  FoldLeft(LAMBDA w, level :
             LET use == IF level.qty < qty - w.filled THEN level.qty ELSE qty - w.filled
             IN IF w.ended \/ use <= 0 THEN [w EXCEPT !.ended = TRUE]
                ELSE [w EXCEPT !.filled = @ + use, !.cost = @ + use * level.price],
           [filled |-> 0, cost |-> 0, ended |-> FALSE], levels)

(* Half a basis point is added; mid2 is twice the middle of the quote.     *)
IntegralBps(pair, qty, isBuy) ==
  LET w    == Walk(IF isBuy THEN pair.asks ELSE pair.bids, qty)
      mid2 == pair.bid + pair.ask
      diff == IF isBuy THEN 2 * w.cost - mid2 * qty ELSE mid2 * qty - 2 * w.cost
  IN IF qty <= 0 \/ mid2 <= 0 THEN 0
     ELSE IF w.filled < qty THEN Thin
     ELSE (diff * 1000000) \div (mid2 * qty) + 50

(* The quantity of AB is used for all three books; BC is sold either way.  *)
estimateTriangleSlippageBps(m, qtyAB, dir, slippageBps) ==
  IF \E x \in Legs : ~m[x].known THEN slippageBps
  ELSE (IntegralBps(m["AB"], qtyAB, dir = "R") + IntegralBps(m["BC"], qtyAB, FALSE)
          + IntegralBps(m["CA"], qtyAB, dir = "R")) \div 3

QtyAB(m) ==
  LET price == IF m["AB"].bid > m["AB"].ask THEN m["AB"].bid ELSE m["AB"].ask
  IN IF price = 0 THEN Thin ELSE (Notional * 1000) \div price

(* 1.5 fees, 0.4 of the slippage and 0.2 of the reserve.                   *)
NetSpreadBps(gross, fee, slip, reserve) == gross - (15 * fee + 4 * slip + 2 * reserve) \div 10

(* Selling each pair at its bid, the product of the three; without three   *)
(* prices both gains are 0.  Pairs such as BTCUSDT, ETHUSDT and ETHBTC are *)
(* no cycle for it: the product is then not near 1 (the unit here).        *)
EvalTriangleForward(bidAB, bidBC, bidCA, fee, slip, reserve) ==
  IF 0 \in {bidAB, bidBC, bidCA} THEN 0
  ELSE NetSpreadBps(((bidAB * bidCA) \div 1000) * bidBC - 1000000, fee, slip, reserve)

(* Buying CA and AB at their asks, selling BC at its bid.                  *)
EvalTriangleReverse(askAB, bidBC, askCA, fee, slip, reserve) ==
  IF 0 \in {askAB, bidBC, askCA} THEN 0
  ELSE NetSpreadBps((((bidBC * 1000000) \div askAB) * 1000) \div askCA - 1000000, fee, slip, reserve)

(* The better direction and its net gain.                                  *)
Evaluate(m, fee, slippageBps, reserve) ==
  LET slip(dir) == estimateTriangleSlippageBps(m, QtyAB(m), dir, slippageBps)
      netF == EvalTriangleForward(m["AB"].bid, m["BC"].bid, m["CA"].bid, fee, slip("F"), reserve)
      netR == EvalTriangleReverse(m["AB"].ask, m["BC"].bid, m["CA"].ask, fee, slip("R"), reserve)
  IN IF netR > netF THEN [dir |-> "R", net |-> netR] ELSE [dir |-> "F", net |-> netF]
=============================================================================
