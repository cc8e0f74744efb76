---------------------------- MODULE RiskEngine ----------------------------
(***************************************************************************)
(* The pre-trade risk engine (internal/risk/risk.go).  Every method holds  *)
(* e.mu from its first to its last line, so every method is one action.    *)
(* A definition marked "mutant" is a form a bug would give to the one that  *)
(* follows it; no specification uses it.                                    *)
(* Money is in whole USD and the percentage limits are whole percents; the *)
(* clock is reduced to the UTC day that Allow truncates it to.             *)
(***************************************************************************)
EXTENDS Integers, Sequences, FiniteSets, Functions, Symbols

CONSTANTS
  Pairs,             \* trading pairs a request may name, as <<base, quote>>
  Exchanges,         \* exchange names
  OrderValues,       \* ValueUSD of a request, multiples of 10 so that 30% is exact
  RealizedUSD,       \* realised results passed to UpdatePnL
  PortfolioValues,   \* totals passed to UpdatePortfolioValue
  PositionDeltas,    \* [qty, value] deltas passed to UpdatePosition
  MaxAssetPct, MaxExchangePct, MaxNotionalPct, DailyVar99Pct,  \* 0 = check off
  MaxInventoryUSD, SoftStopLossUSD, HardStopLossUSD,           \* 0 = check off
  HistoryCap,        \* ticks kept for VaR (1000 in the code)
  VarMinTicks,       \* ticks below which VaR is 0 (20 in the code)
  VarDivisor,        \* the percentile index is ticks / VarDivisor (100 in the code)
  PnLBound, ValueBound, LastDay  \* bounds of the model on |dailyPnL|, |position| and days

ASSUME LimitsAssumption ==
  /\ {MaxAssetPct, MaxExchangePct, MaxNotionalPct, DailyVar99Pct} \subseteq Nat
  /\ {MaxInventoryUSD, SoftStopLossUSD, HardStopLossUSD} \subseteq Nat
ASSUME HistoryAssumption == HistoryCap \in Nat /\ VarMinTicks \in Nat \ {0}
                            /\ VarDivisor \in Nat \ {0, 1}
ASSUME InputAssumption ==
  /\ IsFiniteSet(Pairs) /\ IsFiniteSet(Exchanges)
  /\ OrderValues \subseteq Nat /\ (\A v \in OrderValues : v % 10 = 0)
  /\ RealizedUSD \subseteq Int /\ PortfolioValues \subseteq Nat
  /\ PositionDeltas \subseteq [qty : Int, value : Int]
  /\ PnLBound \in Nat /\ ValueBound \in Nat /\ LastDay \in Nat \ {0}

VARIABLES
  positions,          \* qty and value per asset and exchange; the zero record = no entry
  pnlHistory,         \* the ticks kept for VaR, oldest first
  dailyPnL,           \* realised since the last reset
  pnlNonFinite,       \* dailyPnL has become +Inf or NaN: every comparison with it is false
  totalPortfolioUSD,
  softStopTriggered, hardStopTriggered,
  lastResetDate,      \* day of the last reset
  today,              \* the clock's day (environment)
  reply,              \* what the last Allow returned: (ok, adjusted value)
  lossDay, hardDay, softDay  \* history: see below

riskVars == <<positions, pnlHistory, dailyPnL, pnlNonFinite, totalPortfolioUSD,
              softStopTriggered, hardStopTriggered, lastResetDate>>
history == <<lossDay, hardDay, softDay>>
vars == <<riskVars, today, reply, history>>

Assets   == {BaseOf(s) : s \in Pairs}
Requests == [symbol : Pairs, exchange : Exchanges, value : OrderValues]
NoPosition == [qty |-> 0, value |-> 0]

(* The history variables are what the properties compare the engine with;  *)
(* no guard reads them.                                                    *)
(*   lossDay      last day on which an update left dailyPnL at or below    *)
(*                the hard limit                                           *)
(*   hardDay      last day on which Allow refused because of the hard stop *)
(*   softDay      last day on which Allow saw the soft limit passed        *)

TypeOK ==
  /\ positions \in [Assets \X Exchanges -> [qty : Int, value : Int]]
  /\ pnlHistory \in Seq(Int) /\ Len(pnlHistory) <= HistoryCap
  /\ dailyPnL \in Int
  /\ totalPortfolioUSD \in Nat
  /\ pnlNonFinite \in BOOLEAN
  /\ softStopTriggered \in BOOLEAN /\ hardStopTriggered \in BOOLEAN
  /\ lastResetDate \in Nat /\ today \in Nat
  /\ reply \in [ok : BOOLEAN, value : Nat]
  /\ lossDay \in Nat /\ hardDay \in Nat /\ softDay \in Nat

Init ==
  /\ positions = [k \in Assets \X Exchanges |-> NoPosition]
  /\ pnlHistory = <<>>
  /\ dailyPnL = 0 /\ pnlNonFinite = FALSE
  /\ totalPortfolioUSD = 0
  /\ softStopTriggered = FALSE /\ hardStopTriggered = FALSE
  /\ today = 1 /\ lastResetDate = 1
  /\ reply = [ok |-> FALSE, value |-> 0]
  /\ lossDay = 0 /\ hardDay = 0 /\ softDay = 0

-----------------------------------------------------------------------------
(* Allow, part by part in the order of the code.                           *)

Abs(n) == IF n < 0 THEN -n ELSE n

(* mutant: short positions count as negative exposure *)
SignedExposureUSD(asset) ==
  SumFunction([k \in Assets \X Exchanges |-> IF k[1] = asset THEN positions[k].value ELSE 0])
getAssetExposureUSD(asset) ==
  SumFunction([k \in Assets \X Exchanges |-> IF k[1] = asset THEN Abs(positions[k].value) ELSE 0])

getExchangeExposureUSD(exchange) ==
  SumFunction([k \in Assets \X Exchanges |-> IF k[2] = exchange THEN Abs(positions[k].value) ELSE 0])

(* The first percentile of the kept ticks, as an absolute value.           *)
Below(v) == Cardinality({i \in DOMAIN pnlHistory : pnlHistory[i] < v})
UpTo(v)  == Cardinality({i \in DOMAIN pnlHistory : pnlHistory[i] <= v})
RankFromOne    == Len(pnlHistory) \div VarDivisor + 1    \* mutant: counted from 1
percentileIdx  == Len(pnlHistory) \div VarDivisor
calculateVaR99 ==
  IF Len(pnlHistory) < VarMinTicks THEN 0
  ELSE Abs(CHOOSE v \in {pnlHistory[i] : i \in DOMAIN pnlHistory} :
             Below(v) <= percentileIdx /\ percentileIdx < UpTo(v))

(* The daily reset, done by Allow and by nothing else.                     *)
ResetDayLate   == today > lastResetDate + 1    \* mutant: a day late
ResetDue == today > lastResetDate
PnL  == IF ResetDue THEN 0 ELSE dailyPnL
Undefined == ~ResetDue /\ pnlNonFinite
Soft == ~ResetDue /\ softStopTriggered
Hard == ~ResetDue /\ hardStopTriggered

PastLimit(limit) == limit > 0 /\ ~Undefined /\ PnL <= -limit

(* mutant: the reduction ends when the loss is made good *)
AdjWhileLosing(req) ==
  IF Soft /\ PastLimit(SoftStopLossUSD) THEN (3 * req.value) \div 10 ELSE req.value
AdjValue(req) == IF Soft THEN (3 * req.value) \div 10 ELSE req.value

(* newValue / totalPortfolioUSD > pct, with both sides of the comparison off *)
(* when the limit or the total is zero.                                      *)
OverPct(newValue, pct) ==
  pct > 0 /\ totalPortfolioUSD > 0 /\ 100 * newValue > pct * totalPortfolioUSD

OverInventory(req) ==
  /\ MaxInventoryUSD > 0
  /\ getAssetExposureUSD(extractAsset(req.symbol)) + AdjValue(req) > MaxInventoryUSD

OverLimits(req) ==
  \/ PastLimit(HardStopLossUSD)
  \/ OverPct(getAssetExposureUSD(extractAsset(req.symbol)) + AdjValue(req), MaxAssetPct)
  \/ OverPct(getExchangeExposureUSD(req.exchange) + AdjValue(req), MaxExchangePct)
  \/ OverPct(AdjValue(req), MaxNotionalPct)
  \/ OverInventory(req)
  \/ DailyVar99Pct > 0 /\ OverPct(calculateVaR99, DailyVar99Pct)

RefusedUnlatched(req) == OverLimits(req)    \* mutant: the stop's latch is not looked at
Refused(req) == Hard \/ OverLimits(req)

(* IF   the day changed  THEN reset the daily counters and both stops;     *)
(* IF   the hard limit is passed THEN latch the hard stop and refuse;      *)
(* ELSE latch the soft stop when its limit is passed, check the exposures  *)
(*      and answer with the (possibly reduced) value.                      *)
Allow(req) ==
  LET hardNow == PastLimit(HardStopLossUSD)
  IN /\ dailyPnL' = PnL /\ pnlNonFinite' = Undefined
     /\ lastResetDate' = IF ResetDue THEN today ELSE lastResetDate
     /\ hardStopTriggered' = (Hard \/ hardNow)
     /\ softStopTriggered' = (Soft \/ (~Hard /\ ~hardNow /\ PastLimit(SoftStopLossUSD)))
     /\ reply' = [ok |-> ~Refused(req), value |-> IF Refused(req) THEN 0 ELSE AdjValue(req)]
     /\ hardDay' = IF Hard \/ hardNow THEN today ELSE hardDay
     /\ softDay' = IF PastLimit(SoftStopLossUSD) THEN today ELSE softDay
     /\ UNCHANGED <<positions, pnlHistory, totalPortfolioUSD, today, lossDay>>

-----------------------------------------------------------------------------
(* An entry is deleted when both its quantity and its value are (nearly) 0, *)
(* which the zero record stands for.                                        *)
UpdatePosition(asset, exchange, qtyDelta, valueDelta) ==
  /\ positions' = [positions EXCEPT ![<<asset, exchange>>] =
                     [qty |-> @.qty + qtyDelta, value |-> @.value + valueDelta]]
  /\ UNCHANGED <<pnlHistory, dailyPnL, pnlNonFinite, totalPortfolioUSD, softStopTriggered,
                 hardStopTriggered, lastResetDate, today, reply, history>>

(* mutant: the slice starts one tick early *)
KeepOneMore(ticks, tick) ==
  LET all == Append(ticks, tick)
      n == Len(all)
  IN IF n > HistoryCap THEN SubSeq(all, n - HistoryCap, n) ELSE all

(* The last HistoryCap elements of the ticks with the new one appended.    *)
Keep(ticks, tick) ==
  LET all == Append(ticks, tick)
      n == Len(all)
  IN IF n > HistoryCap THEN SubSeq(all, n - HistoryCap + 1, n) ELSE all

UpdatePnL(realizedUSD, unrealizedUSD) ==
  /\ dailyPnL' = dailyPnL + realizedUSD
  /\ pnlHistory' = Keep(pnlHistory, realizedUSD + unrealizedUSD)
  /\ lossDay' = IF dailyPnL' <= -HardStopLossUSD THEN today ELSE lossDay
  /\ UNCHANGED <<positions, pnlNonFinite, totalPortfolioUSD, softStopTriggered,
                 hardStopTriggered, lastResetDate, today, reply, hardDay, softDay>>

(* UpdatePnL with +Inf or NaN, which float64 arithmetic on a missing price *)
(* yields.  Ticks of that kind are left out of the history: they are not   *)
(* modelled together with the VaR check, which the program leaves off.     *)
UpdatePnLNonFinite ==
  /\ DailyVar99Pct = 0
  /\ pnlNonFinite' = TRUE
  /\ UNCHANGED <<positions, pnlHistory, dailyPnL, totalPortfolioUSD, softStopTriggered,
                 hardStopTriggered, lastResetDate, today, reply, history>>

UpdatePortfolioValue(totalUSD) ==
  /\ totalPortfolioUSD' = totalUSD
  /\ UNCHANGED <<positions, pnlHistory, dailyPnL, pnlNonFinite, softStopTriggered,
                 hardStopTriggered, lastResetDate, today, reply, history>>

(* Midnight UTC.                                                           *)
NextDay ==
  /\ today < LastDay
  /\ today' = today + 1
  /\ UNCHANGED <<riskVars, reply, history>>

-----------------------------------------------------------------------------
WithinBounds ==
  /\ Abs(dailyPnL) <= PnLBound
  /\ \A k \in DOMAIN positions : Abs(positions[k].value) <= ValueBound /\ Abs(positions[k].qty) <= 1

DoAllow == \E req \in Requests : Allow(req)
DoUpdatePosition ==
  \E asset \in Assets, exchange \in Exchanges, d \in PositionDeltas :
    UpdatePosition(asset, exchange, d.qty, d.value) /\ WithinBounds'
DoUpdatePnL == \E r \in RealizedUSD : UpdatePnL(r, 0) /\ WithinBounds'
DoUpdatePortfolioValue == \E total \in PortfolioValues : UpdatePortfolioValue(total)

Next ==
  \/ DoAllow
  \/ DoUpdatePosition
  \/ DoUpdatePnL
  \/ UpdatePnLNonFinite
  \/ DoUpdatePortfolioValue
  \/ NextDay

Spec == Init /\ [][Next]_vars

-----------------------------------------------------------------------------
(* Properties of the stops                                                 *)

Approves == DoAllow /\ reply'.ok

(* Once Allow has refused an order because of the hard stop, it approves   *)
(* no order for the rest of that day, whatever is realised meanwhile       *)
(* (risk.go:79-81 and 91-94, with the reset of 71-76).                     *)
StopLastsTheDay == [][Approves => hardDay # today]_vars

(* The hard stop is never left over from a day that has passed: when Allow *)
(* leaves it set, the loss limit was reached by a result booked the same   *)
(* day (risk.go:70-76 before 79).                                          *)
StopNeedsLossToday ==
  [][DoAllow /\ hardStopTriggered' => lossDay = today]_vars

(* After an Allow of the same day saw the soft limit passed, every later   *)
(* approval of that day is for 30% of the request, even when the loss has  *)
(* been made good since (risk.go:85-88 and 95-97).                         *)
SoftStopReduces ==
  [][\A req \in Requests :
       Allow(req) /\ reply'.ok /\ softDay = today
         => 10 * reply'.value = 3 * req.value]_vars

(* The value taken as 99% VaR covers the losses it is meant to cover: at   *)
(* most one tick in VarDivisor of the kept history is a larger loss        *)
(* (calculateVaR99, risk.go:226-251, over the window of 177-179).          *)
VarCoversLosses ==
  Len(pnlHistory) >= VarMinTicks =>
    Cardinality({i \in DOMAIN pnlHistory : pnlHistory[i] < -calculateVaR99}) * VarDivisor
      <= Len(pnlHistory)
=============================================================================
