---------------------------- MODULE TriangleExec ----------------------------
(***************************************************************************)
(* executeTriangle and unwindPair (internal/arbitrage/live.go), run by     *)
(* several workers at once against one exchange and one risk engine.       *)
(* Every call that leaves the goroutine (Allow, PlaceOrder, the fill and   *)
(* status queries, each update of the risk engine) is one action; between  *)
(* two of them any other worker may run.                                   *)
(*                                                                         *)
(* Prices differ from pair to pair and do not move: a fill's average price *)
(* is the price its order was checked with.  A quantity is in the base of  *)
(* the pair it was computed for, money in USD / PriceUnit.  What the       *)
(* sizing, the skew and the order books decide is a choice from Sizes.     *)
(***************************************************************************)
EXTENDS RiskEngine, SpotExchange

CONSTANTS
  Workers,     \* executions that hold a slot of execSem
  Triangles,   \* [AB, BC, CA] of pairs
  Dirs,        \* subset of {"F", "R"}
  Sizes,       \* quantities the sizing may come to
  Price,       \* per pair: price of one base in quote / PriceUnit
  PriceUnit,
  Rounds       \* bound of the model on executions per worker

ASSUME ExecAssumption ==
  /\ Workers # {} /\ IsFiniteSet(Workers) /\ Dirs \subseteq {"F", "R"}
  /\ Triangles \subseteq [AB : Pairs, BC : Pairs, CA : Pairs]
  /\ Sizes \subseteq Nat /\ Rounds \in Nat
  /\ Exchanges = {"bybit"}
ASSUME PriceAssumption ==
  /\ Pairs \subseteq DOMAIN Price /\ Price \in [DOMAIN Price -> Nat \ {0}]
  /\ PriceUnit \in Nat \ {0}

VARIABLES
  job,    \* per worker: the local variables of its executeTriangle; see Job
  net,    \* per worker and leg: what this execution really bought (sold: negative)
  late,   \* history, per worker: leg orders sent while the hard stop was set
  rounds  \* per worker: executions begun

execVars == <<job, net, late, rounds>>
allVars  == <<vars, execVars>>

PCs == {"idle", "risk1", "place1", "query1", "risk2", "place2", "query2", "risk3",
        "place3", "unwind2", "unwind1", "pnl", "book", "done"}

(* The locals of executeTriangle, and besides them: back, the fill of the  *)
(* last order or the quantity to unwind; ordered, the quantity of the      *)
(* second order; known, the legs whose average price is known; leg, the    *)
(* next leg to book.  Only properties read got, what the first order       *)
(* really filled; sure, that every fill was answered; unwound, the unwind  *)
(* orders that filled; and result, the return.                             *)
Job(tri, dir, qty) ==
  [pc |-> "risk1", tri |-> tri, dir |-> dir, qty |-> qty, filled1 |-> 0, qty2 |-> 0,
   qty3 |-> 0, back |-> 0, ordered |-> 0, known |-> {}, leg |-> 1,
   got |-> 0, sure |-> TRUE, unwound |-> {}, result |-> "none"]

Buy == 1
Sell == -1

(* The three orders of each direction.                                     *)
Legs(j) ==
  IF j.dir = "F"
  THEN <<[sym |-> j.tri.AB, side |-> Sell], [sym |-> j.tri.BC, side |-> Sell],
         [sym |-> j.tri.CA, side |-> Sell]>>
  ELSE <<[sym |-> j.tri.CA, side |-> Buy], [sym |-> j.tri.BC, side |-> Sell],
         [sym |-> j.tri.AB, side |-> Buy]>>

ExecTypeOK ==
  /\ TypeOK
  /\ \A w \in Workers :
       /\ job[w].pc \in PCs /\ job[w].known \subseteq 1..3 /\ job[w].unwound \subseteq 1..3
       /\ {job[w].qty, job[w].filled1, job[w].qty2, job[w].qty3, job[w].back, job[w].got} \subseteq Nat
  /\ net \in [Workers -> [1..3 -> Int]]
  /\ late \in [Workers -> Nat] /\ rounds \in [Workers -> 0..Rounds]

ExecInit ==
  /\ Init
  /\ job = [w \in Workers |-> [Job(CHOOSE t \in Triangles : TRUE, "F", 0) EXCEPT !.pc = "idle"]]
  /\ net = [w \in Workers |-> [k \in 1..3 |-> 0]]
  /\ late = [w \in Workers |-> 0]
  /\ rounds = [w \in Workers |-> 0]

At(w, pc) == job[w].pc = pc
Become(w, j) == job' = [job EXCEPT ![w] = j]
Return(w, j, result) == Become(w, [j EXCEPT !.pc = "done", !.result = result])

(* An order of worker w did this on the exchange.                          *)
Executed(w, k, signedQty) == net' = [net EXCEPT ![w][k] = @ + signedQty]
CountLate(w) ==
  late' = [late EXCEPT ![w] = @ + (IF hardStopTriggered THEN 1 ELSE 0)]

-----------------------------------------------------------------------------
(* A worker that holds a slot starts on a triangle.                        *)
Begin(w) ==
  /\ job[w].pc \in {"idle", "done"} /\ rounds[w] < Rounds
  /\ \E tri \in Triangles, dir \in Dirs, qty \in Sizes : Become(w, Job(tri, dir, qty))
  /\ net' = [net EXCEPT ![w] = [k \in 1..3 |-> 0]]
  /\ rounds' = [rounds EXCEPT ![w] = @ + 1]
  /\ UNCHANGED <<vars, late>>

(* The value Allow is asked about is quantity times price, in whatever the  *)
(* quote currency of the leg is; it is taken for USD.                      *)
Request(j, k, qty) ==
  [symbol |-> Legs(j)[k].sym, exchange |-> "bybit", value |-> qty * Price[Legs(j)[k].sym]]

(* Quantity and value are reduced by the same factor.                      *)
Adjusted(j, k) == reply'.value \div Price[Legs(j)[k].sym]

(* USD per unit of an asset, from the ticker of asset USDT: 0 without one. *)
UsdPrice(asset) ==
  IF asset = <<"USDT">> THEN 1
  ELSE IF <<asset[1], "USDT">> \in DOMAIN Price THEN Price[<<asset[1], "USDT">>] \div PriceUnit
  ELSE 0

(* What a leg is booked with: here the quote is converted.                 *)
LegUSD(sym, qty) == qty * Price[sym] * UsdPrice(QuoteOf(sym))

Risk1(w) ==
  LET j == job[w]  qty == Adjusted(j, 1)
  IN /\ At(w, "risk1")
     /\ Allow(Request(j, 1, j.qty))
     /\ \/ ~reply'.ok /\ Return(w, j, "blocked1")
        \/ reply'.ok /\ (qty = 0 \/ TooSmall(qty)) /\ Return(w, j, "small1")
        \/ reply'.ok /\ qty > 0 /\ ~TooSmall(qty) /\ Become(w, [j EXCEPT !.pc = "place1", !.qty = qty])
     /\ UNCHANGED <<net, late, rounds>>

Place1(w) ==
  LET j == job[w]
  IN /\ At(w, "place1")
     /\ \E o \in PlaceOutcomes(j.qty) :
          /\ Executed(w, 1, Legs(j)[1].side * o.fill)
          /\ IF o.ok THEN Become(w, [j EXCEPT !.pc = "query1", !.filled1 = j.qty, !.back = o.fill,
                                               !.got = o.fill])
             ELSE Return(w, j, "rejected1")
     /\ CountLate(w)
     /\ UNCHANGED <<vars, rounds>>

(* Both queries, the cancel of an order that is not filled, and the        *)
(* minimum checks of the second leg.  None of the returns unwinds.         *)
Query1(w) ==
  LET j == job[w]  fill == j.back
  IN /\ At(w, "query1")
     /\ \E info \in Answered("no_info"), status \in Answered("no_status"),
           good \in GoodStatus(fill, j.qty) :
          LET filled == IF info \/ status THEN fill ELSE j.qty
              k == [j EXCEPT !.filled1 = filled, !.qty2 = filled, !.sure = info \/ status,
                             !.known = IF info /\ fill > 0 THEN {1} ELSE {}]
          IN \/ status /\ ~good /\ Return(w, k, "unfilled1")
             \/ ~(status /\ ~good) /\ TooSmall(filled) /\ Return(w, k, "small2")
             \/ ~(status /\ ~good) /\ ~TooSmall(filled) /\ Become(w, [k EXCEPT !.pc = "risk2"])
     /\ UNCHANGED <<vars, net, late, rounds>>

(* A refusal here returns without an unwind of the first leg.              *)
Risk2(w) ==
  LET j == job[w]
  IN /\ At(w, "risk2")
     /\ Allow(Request(j, 2, j.qty2))
     /\ \/ ~reply'.ok /\ Return(w, j, "blocked2")
        \/ reply'.ok /\ Become(w, [j EXCEPT !.pc = "place2", !.qty2 = Adjusted(j, 2)])
     /\ UNCHANGED <<net, late, rounds>>

(* PlaceOrder and the fill query.  An error starts the unwind of the first *)
(* leg with the quantity that was asked for, not the one that was filled.  *)
Place2(w) ==
  LET j == job[w]
  IN /\ At(w, "place2")
     /\ \E o \in PlaceOutcomes(j.qty2), info \in Answered("no_info") :
          /\ Executed(w, 2, Legs(j)[2].side * o.fill)
          /\ \/ ~o.ok /\ Become(w, [j EXCEPT !.pc = "unwind1", !.back = j.qty, !.result = "rejected2"])
             \/ o.ok /\ Become(w, [j EXCEPT !.pc = "query2", !.back = o.fill, !.ordered = j.qty2,
                                            !.qty2 = IF info THEN o.fill ELSE @, !.sure = @ /\ info,
                                            !.known = IF info /\ o.fill > 0 THEN @ \cup {2} ELSE @])
     /\ CountLate(w)
     /\ UNCHANGED <<vars, rounds>>

(* The minimum checks of the third leg come before the status query and    *)
(* return without an unwind.  An unfilled second leg is cancelled and the  *)
(* first one unwound, here with the quantity that was filled.  The third   *)
(* leg takes over the number of units the second one filled, although it   *)
(* is a quantity of another asset.                                         *)
Query2(w) ==
  LET j == job[w]  fill == j.back
  IN /\ At(w, "query2")
     /\ \/ TooSmall(j.qty2) /\ Return(w, j, "small3")
        \/ /\ ~TooSmall(j.qty2)
           /\ \E status \in Answered("no_status"), good \in GoodStatus(fill, j.ordered) :
                LET k == [j EXCEPT !.qty3 = IF status THEN fill ELSE j.qty2]
                IN \/ status /\ ~good
                      /\ Become(w, [k EXCEPT !.pc = "unwind1", !.back = j.filled1, !.result = "unfilled2"])
                   \/ ~(status /\ ~good) /\ Become(w, [k EXCEPT !.pc = "risk3"])
     /\ UNCHANGED <<vars, net, late, rounds>>

(* mutant: the third leg is sent whatever Allow says *)
Risk3Ignored(w) ==
  /\ At(w, "risk3")
  /\ Allow(Request(job[w], 3, job[w].qty3))
  /\ Become(w, [job[w] EXCEPT !.pc = "place3"])
  /\ UNCHANGED <<net, late, rounds>>

Risk3(w) ==
  LET j == job[w]
  IN /\ At(w, "risk3")
     /\ Allow(Request(j, 3, j.qty3))
     /\ \/ ~reply'.ok /\ Become(w, [j EXCEPT !.pc = "unwind2", !.back = j.qty, !.result = "blocked3"])
        \/ reply'.ok /\ Become(w, [j EXCEPT !.pc = "place3", !.qty3 = Adjusted(j, 3)])
     /\ UNCHANGED <<net, late, rounds>>

Place3(w) ==
  LET j == job[w]
  IN /\ At(w, "place3")
     /\ \E o \in PlaceOutcomes(j.qty3), info \in Answered("no_info") :
          /\ Executed(w, 3, Legs(j)[3].side * o.fill)
          /\ \/ ~o.ok /\ Become(w, [j EXCEPT !.pc = "unwind2", !.back = j.qty, !.result = "rejected3"])
             \/ o.ok /\ Become(w, [j EXCEPT !.pc = "pnl", !.qty3 = IF info THEN o.fill ELSE @,
                                            !.sure = @ /\ info,
                                            !.known = IF info /\ o.fill > 0 THEN @ \cup {3} ELSE @])
     /\ CountLate(w)
     /\ UNCHANGED <<vars, rounds>>

(* unwindPair: an IOC order whose outcome nobody looks at; none for a      *)
(* quantity of zero.                                                       *)
unwindPair(w, k, side, qty) ==
  \E o \in IF qty = 0 THEN {[ok |-> FALSE, fill |-> 0]} ELSE PlaceOutcomes(qty) :
    /\ Executed(w, k, side * o.fill)
    /\ Become(w, [job[w] EXCEPT !.pc = IF k = 2 THEN "unwind1" ELSE "done",
                                !.unwound = IF o.fill = qty /\ qty > 0 THEN @ \cup {k} ELSE @])

(* The second leg is unwound on the side it was placed on.                 *)
Unwind2(w) ==
  /\ At(w, "unwind2")
  /\ unwindPair(w, 2, Legs(job[w])[2].side, job[w].qty2)
  /\ UNCHANGED <<vars, late, rounds>>

(* mutant: the first leg is unwound on its own side *)
Unwind1SameSide(w) ==
  /\ At(w, "unwind1")
  /\ unwindPair(w, 1, Legs(job[w])[1].side, job[w].back)
  /\ UNCHANGED <<vars, late, rounds>>

Unwind1(w) ==
  /\ At(w, "unwind1")
  /\ unwindPair(w, 1, -Legs(job[w])[1].side, job[w].back)
  /\ UNCHANGED <<vars, late, rounds>>

(* The cycle's result from the average prices.  A price that is missing is *)
(* 0: a product with it loses the whole stake, a quotient by it is +Inf or *)
(* NaN (in the reverse direction the first and third price divide).        *)
BookPnL(w) ==
  LET j == job[w]
  IN /\ At(w, "pnl")
     /\ IF j.known = 1..3 THEN \E r \in RealizedUSD : UpdatePnL(r, 0)
        ELSE IF j.dir = "F" \/ {1, 3} \subseteq j.known
             THEN UpdatePnL(-(j.filled1 * UsdPrice(BaseOf(j.tri.AB)) * PriceUnit), 0)
        ELSE UpdatePnLNonFinite
     /\ Become(w, [j EXCEPT !.pc = "book", !.leg = 1])
     /\ UNCHANGED <<net, late, rounds>>

FilledAsAsked(j, k) == <<j.qty, j.qty2, j.qty3>>[k]    \* mutant: leg 1 as ordered
Filled(j, k) == <<j.filled1, j.qty2, j.qty3>>[k]

(* One UpdatePosition per leg, on the base asset of its pair.              *)
BookLeg(w) ==
  LET j == job[w]  k == j.leg  sym == Legs(j)[k].sym  side == Legs(j)[k].side
  IN /\ At(w, "book")
     /\ UpdatePosition(BaseOf(sym), "bybit", side * Filled(j, k), side * LegUSD(sym, Filled(j, k)))
     /\ IF k = 3 THEN Return(w, j, "success") ELSE Become(w, [j EXCEPT !.leg = k + 1])
     /\ UNCHANGED <<net, late, rounds>>

ExecStep(w) ==
  \/ Begin(w) \/ Risk1(w) \/ Place1(w) \/ Query1(w) \/ Risk2(w) \/ Place2(w) \/ Query2(w)
  \/ Risk3(w) \/ Place3(w) \/ Unwind2(w) \/ Unwind1(w) \/ BookPnL(w) \/ BookLeg(w)

(* The bound on rounds is reached everywhere.                              *)
Rest == /\ \A w \in Workers : At(w, "done") /\ rounds[w] = Rounds
        /\ UNCHANGED allVars

ExecNext == (\E w \in Workers : ExecStep(w)) \/ Rest

ExecSpec == ExecInit /\ [][ExecNext]_allVars

-----------------------------------------------------------------------------
(* Properties                                                              *)

Ended(w)     == job[w].pc \in {"idle", "done"}
Succeeded(w) == At(w, "done") /\ job[w].result = "success"

(* What execution w did to its balance of one asset, as base of the pairs  *)
(* it traded and as quote, in units / PriceUnit.                           *)
Flow(w, asset) ==
  LET part(k) == LET sym == Legs(job[w])[k].sym
                 IN (IF BaseOf(sym) = asset THEN net[w][k] * PriceUnit ELSE 0)
                      - (IF QuoteOf(sym) = asset THEN net[w][k] * Price[sym] ELSE 0)
  IN part(1) + part(2) + part(3)

(* Legs of a triangle that are booked on an asset.                         *)
LegsOn(tri, asset) ==
  LET one(sym) == IF BaseOf(sym) = asset THEN 1 ELSE 0
  IN one(tri.AB) + one(tri.BC) + one(tri.CA)

(* Once the hard stop is set, a worker sends at most one more leg order:   *)
(* the one whose Allow had already answered (live.go:222-249, 294-305,     *)
(* 357-376 against risk.go:79).                                            *)
AtMostOneLateLeg == \A w \in Workers : late[w] <= 1

(* When nothing is running, the risk engine's quantities are exactly what  *)
(* the successful executions bought and sold, partial fills, reduced legs  *)
(* and other workers included, provided every fill query was answered      *)
(* (live.go:257-282, 307-312, 379-383 and 436-475).                        *)
BooksMatchFills ==
  (\A w \in Workers : Ended(w) /\ rounds[w] <= 1 /\ (Succeeded(w) => job[w].sure)) =>
    \A asset \in Assets :
      positions[<<asset, "bybit">>].qty =
        SumFunction([wk \in Workers \X (1..3) |->
          IF Succeeded(wk[1]) /\ BaseOf(Legs(job[wk[1]])[wk[2]].sym) = asset
          THEN net[wk[1]][wk[2]] ELSE 0])

(* Whatever the exchange fills in part, loses or refuses: the unwind after *)
(* a rejected second leg leaves the first leg flat exactly when the first  *)
(* order had filled whole, for it sends the quantity that was ordered.     *)
(* What is left otherwise is never on the leg's own side: the execution    *)
(* ends with too much undone, not too little (live.go:319, 481-501).       *)
RejectedSecondLegIsFlat ==
  \A w \in Workers :
    At(w, "done") /\ job[w].result = "rejected2" /\ job[w].unwound = {1} =>
      /\ (net[w][1] = 0) <=> (job[w].got = job[w].qty)
      /\ Legs(job[w])[1].side * net[w][1] <= 0

(* The assets whose pairs are looked up under the name they are booked on   *)
(* (live.go:223, 295, 358 against 436-475), each with the dearest of its   *)
(* pairs, the largest size, and as many legs as a triangle has on it; and  *)
(* what one of these legs comes to for every worker.                       *)
Dearest ==
  {b \in [asset : Assets, pair : Pairs, qty : Sizes, legs : 1..3] :
     /\ \A q \in Sizes : q <= b.qty
     /\ \A sym \in Pairs : BaseOf(sym) = b.asset =>
          extractAsset(sym) = b.asset /\ LegUSD(sym, b.qty) <= LegUSD(b.pair, b.qty)
     /\ \A tri \in Triangles : LegsOn(tri, b.asset) <= b.legs}
Overshoots ==
  {[asset |-> b.asset, usd |-> b.legs * Cardinality(Workers) * LegUSD(b.pair, b.qty)] : b \in Dearest}

(* Approvals are not reservations, and a leg is checked with its value in  *)
(* the quote currency and booked with its value in USD.  So the limit per  *)
(* asset can be passed, but only by the legs that were approved before the *)
(* first of them was booked: for every worker as many as a triangle has on *)
(* the asset, each of at most the largest size at the dearest price.       *)
OvershootIsBounded ==
  MaxInventoryUSD > 0 =>
    \A o \in Overshoots : Abs(positions[<<o.asset, "bybit">>].value) <= MaxInventoryUSD + o.usd

-----------------------------------------------------------------------------
(* What the comments and documents say and the code does not do            *)

(* live.go:360 and 385 "Unwind second then first": when both unwind orders *)
(* fill, nothing of the two legs is left.                                  *)
UnwindsBothLegs ==
  \A w \in Workers :
    At(w, "done") /\ job[w].unwound = {1, 2} => net[w][1] = 0 /\ net[w][2] = 0

(* live.go:424 "reverse: buy C with A (CA), sell C->B (BC), buy A with B   *)
(* (AB)": of the assets of a reverse execution that fills its three orders *)
(* only A changes.                                                         *)
ReverseCycleCloses ==
  \A w \in Workers : Succeeded(w) /\ job[w].dir = "R" =>
    \A asset \in {BaseOf(job[w].tri.CA), QuoteOf(job[w].tri.AB)} : Flow(w, asset) = 0
=============================================================================
