-------------------------- MODULE RiskEngineProofs --------------------------
(***************************************************************************)
(* Proofs about the risk engine, for any limits, any number of exchanges   *)
(* and any inputs: the type invariant, the three properties of the daily   *)
(* stops and the cover of the VaR, which the run RiskStops checks on a     *)
(* small instance.  The lemmas about single calls hold for any caller, so  *)
(* that the proofs about the executions can use them.                      *)
(***************************************************************************)
EXTENDS RiskEngine, Sums

(* The counters the proofs need: no date lies in the future, and what the  *)
(* history records for today is what the latches still show today.         *)
Dates == /\ lastResetDate <= today
         /\ hardDay <= today /\ softDay <= today

HardLatched == hardDay = today => hardStopTriggered /\ lastResetDate = today

SoftLatched ==
  softDay = today =>
    (softStopTriggered \/ hardStopTriggered) /\ lastResetDate = today

LossBooked ==
  lastResetDate = today =>
    /\ hardStopTriggered => lossDay = today
    /\ HardStopLossUSD > 0 /\ dailyPnL <= -HardStopLossUSD => lossDay = today

StopInv == TypeOK /\ Dates /\ HardLatched /\ SoftLatched /\ LossBooked

-----------------------------------------------------------------------------
(* A value that is reduced remains a natural number.                       *)
LEMMA AdjValueNat ==
  ASSUME NEW req, req.value \in Nat PROVE AdjValue(req) \in Nat
BY DEF AdjValue

(* Keeping the last ticks keeps a sequence of integers of at most          *)
(* HistoryCap elements.                                                    *)
LEMMA KeepType ==
  ASSUME NEW h \in Seq(Int), Len(h) <= HistoryCap, NEW tick \in Int
  PROVE  Keep(h, tick) \in Seq(Int) /\ Len(Keep(h, tick)) <= HistoryCap
<1> DEFINE g == Append(h, tick)
<1>1. g \in Seq(Int) /\ Len(g) \in Nat
  OBVIOUS
<1>2. CASE Len(g) > HistoryCap
  <2>1. Len(g) - HistoryCap + 1 \in Nat \ {0} /\ Len(g) - HistoryCap + 1 <= Len(g) + 1
    BY <1>1, <1>2, HistoryAssumption
  <2>2. /\ SubSeq(g, Len(g) - HistoryCap + 1, Len(g)) \in Seq(Int)
        /\ Len(SubSeq(g, Len(g) - HistoryCap + 1, Len(g))) = HistoryCap
    BY <1>1, <2>1, HistoryAssumption
  <2>3. Keep(h, tick) = SubSeq(g, Len(g) - HistoryCap + 1, Len(g))
    BY <1>2 DEF Keep
  <2>4. Len(Keep(h, tick)) <= HistoryCap
    <3>1. HistoryCap <= HistoryCap
      BY HistoryAssumption
    <3> QED BY <2>2, <2>3, <3>1, Zenon
  <2> QED BY <2>2, <2>3, <2>4, Zenon
<1>3. CASE ~(Len(g) > HistoryCap)
  BY <1>1, <1>3, HistoryAssumption DEF Keep
<1> QED BY <1>2, <1>3

(* The initial states satisfy the invariant.                               *)
LEMMA StopInvInit == Init => StopInv
<1> SUFFICES ASSUME Init PROVE StopInv
  OBVIOUS
<1>1. positions \in [Assets \X Exchanges -> [qty : Int, value : Int]]
  BY DEF Init, NoPosition
<1>2. pnlHistory \in Seq(Int) /\ Len(pnlHistory) <= HistoryCap /\ reply \in [ok : BOOLEAN, value : Nat]
  BY HistoryAssumption DEF Init
<1>3. pnlNonFinite \in BOOLEAN /\ softStopTriggered \in BOOLEAN /\ hardStopTriggered \in BOOLEAN
  BY DEF Init
<1>4. /\ dailyPnL \in Int /\ totalPortfolioUSD \in Nat /\ lastResetDate \in Nat /\ today \in Nat
      /\ lossDay \in Nat /\ hardDay \in Nat /\ softDay \in Nat
  BY DEF Init
<1>5. TypeOK
  BY <1>1, <1>2, <1>3, <1>4 DEF TypeOK
<1> QED BY <1>5, LimitsAssumption
        DEF Init, StopInv, Dates, HardLatched, SoftLatched, LossBooked

-----------------------------------------------------------------------------
(* One lemma per action: each preserves the invariant, whoever calls it.   *)

LEMMA AllowType ==
  ASSUME TypeOK, NEW req, req.value \in Nat, Allow(req) PROVE TypeOK'
<1>1. PnL \in Int /\ Undefined \in BOOLEAN /\ Soft \in BOOLEAN /\ Hard \in BOOLEAN
  BY DEF TypeOK, PnL, Undefined, Soft, Hard
<1>2. dailyPnL' \in Int
  BY <1>1 DEF Allow
<1>3. pnlNonFinite' \in BOOLEAN /\ hardStopTriggered' \in BOOLEAN /\ softStopTriggered' \in BOOLEAN
  BY <1>1 DEF Allow
<1>4. reply' \in [ok : BOOLEAN, value : Nat]
  BY AdjValueNat DEF Allow
<1>5. lastResetDate' \in Nat /\ today' \in Nat
  BY DEF Allow, TypeOK
<1>6. lossDay' \in Nat /\ hardDay' \in Nat /\ softDay' \in Nat
  BY DEF Allow, TypeOK
<1>7. /\ positions' \in [Assets \X Exchanges -> [qty : Int, value : Int]]
      /\ pnlHistory' \in Seq(Int) /\ Len(pnlHistory') <= HistoryCap
      /\ totalPortfolioUSD' \in Nat
  BY DEF Allow, TypeOK
<1> QED BY <1>2, <1>3, <1>4, <1>5, <1>6, <1>7 DEF TypeOK

(* What a call of Allow does to the dates and the latches.                 *)
LEMMA AllowEffect ==
  ASSUME TypeOK, Dates, NEW req, Allow(req)
  PROVE  /\ lastResetDate' = today /\ today' = today
         /\ lastResetDate = today <=> ~ResetDue
         /\ hardStopTriggered' <=> Hard \/ PastLimit(HardStopLossUSD)
         /\ PastLimit(SoftStopLossUSD) => softStopTriggered' \/ hardStopTriggered'
         /\ Soft => softStopTriggered'
<1>1. lastResetDate' = today /\ today' = today /\ (lastResetDate = today <=> ~ResetDue)
  BY DEF TypeOK, Dates, Allow, ResetDue
<1>2. hardStopTriggered' <=> Hard \/ PastLimit(HardStopLossUSD)
  BY Zenon DEF Allow
<1>3. softStopTriggered' <=>
        Soft \/ (~Hard /\ ~PastLimit(HardStopLossUSD) /\ PastLimit(SoftStopLossUSD))
  BY Zenon DEF Allow
<1> QED BY <1>1, <1>2, <1>3, Zenon

(* Allow is the only action that latches a stop; the reset that precedes   *)
(* its checks is what keeps a stop of an earlier day from surviving.       *)
LEMMA AllowStops ==
  ASSUME StopInv, NEW req, req.value \in Nat, Allow(req) PROVE StopInv'
<1> USE DEF StopInv
<1>1. TypeOK'
  BY AllowType
<1>2. Dates'
  BY DEF TypeOK, Dates, Allow
<1>3. HardLatched'
  <2>1. hardDay' = IF Hard \/ PastLimit(HardStopLossUSD) THEN today ELSE hardDay
    BY DEF Allow
  <2>2. hardDay = today => Hard
    BY AllowEffect, Zenon DEF HardLatched, Hard
  <2> QED BY <2>1, <2>2, AllowEffect, Zenon DEF HardLatched
<1>4. SoftLatched'
  <2>1. softDay' = IF PastLimit(SoftStopLossUSD) THEN today ELSE softDay
    BY DEF Allow
  <2>2. softDay = today => Soft \/ Hard
    BY AllowEffect, Zenon DEF SoftLatched, Soft, Hard
  <2> QED BY <2>1, <2>2, AllowEffect, Zenon DEF SoftLatched
<1>5. LossBooked'
  <2>1. lossDay' = lossDay /\ dailyPnL' = PnL
    BY DEF Allow
  <2>2. HardStopLossUSD > 0 /\ PnL <= -HardStopLossUSD
          => ~ResetDue /\ dailyPnL <= -HardStopLossUSD
    BY LimitsAssumption DEF TypeOK, PnL
  <2>3. HardStopLossUSD > 0 /\ PnL <= -HardStopLossUSD => lossDay = today
    BY <2>2, AllowEffect, Zenon DEF LossBooked
  <2>4. Hard => lossDay = today
    BY AllowEffect, Zenon DEF LossBooked, Hard
  <2> QED BY <2>1, <2>3, <2>4, AllowEffect, Zenon DEF LossBooked, PastLimit
<1> QED BY <1>1, <1>2, <1>3, <1>4, <1>5

(* UpdatePnL books a loss without touching a stop.                         *)
LEMMA UpdatePnLStops ==
  ASSUME StopInv, NEW r \in Int, UpdatePnL(r, 0) PROVE StopInv'
<1> USE DEF StopInv
<1>1. r + 0 \in Int
  OBVIOUS
<1>2. pnlHistory' \in Seq(Int) /\ Len(pnlHistory') <= HistoryCap
  BY <1>1, KeepType DEF UpdatePnL, TypeOK
<1>3. dailyPnL' \in Int
  BY <1>1 DEF UpdatePnL, TypeOK
<1>4. lossDay' \in Nat
  BY <1>1 DEF UpdatePnL, TypeOK
<1>5. TypeOK'
  BY <1>2, <1>3, <1>4 DEF UpdatePnL, TypeOK
<1>6. Dates' /\ HardLatched' /\ SoftLatched'
  BY DEF UpdatePnL, TypeOK, Dates, HardLatched, SoftLatched
<1>7. LossBooked'
  BY LimitsAssumption DEF UpdatePnL, TypeOK, LossBooked
<1> QED BY <1>5, <1>6, <1>7

(* UpdatePosition changes the positions only (risk.go:145-162).            *)
LEMMA UpdatePositionStops ==
  ASSUME StopInv, NEW asset \in Assets, NEW exchange \in Exchanges, NEW q \in Int, NEW v \in Int,
         UpdatePosition(asset, exchange, q, v)
  PROVE  StopInv'
<1> USE DEF StopInv
<1>1. positions' \in [Assets \X Exchanges -> [qty : Int, value : Int]]
  BY DEF UpdatePosition, history, TypeOK
<1>2. TypeOK'
  BY <1>1 DEF UpdatePosition, history, TypeOK
<1> QED BY <1>2 DEF UpdatePosition, history, Dates, HardLatched, SoftLatched, LossBooked

(* A result that is no number changes the sum and no stop (risk.go:164).   *)
LEMMA NonFiniteStops ==
  ASSUME StopInv, UpdatePnLNonFinite PROVE StopInv'
BY DEF StopInv, UpdatePnLNonFinite, history, TypeOK, Dates, HardLatched, SoftLatched, LossBooked

(* A step of the caller that calls nothing of the engine.                  *)
LEMMA IdleStops ==
  ASSUME StopInv, UNCHANGED vars PROVE StopInv'
BY DEF StopInv, vars, riskVars, history, TypeOK, Dates, HardLatched, SoftLatched, LossBooked

(* The total of the portfolio, and midnight, leave the stops, the result   *)
(* and the reset date alone.                                               *)
LEMMA OthersKeepStops ==
  ASSUME StopInv, DoUpdatePortfolioValue \/ NextDay
  PROVE  StopInv'
<1> USE DEF StopInv
<1>1. CASE DoUpdatePortfolioValue
  <2>1. PICK total \in PortfolioValues : UpdatePortfolioValue(total)
    BY <1>1 DEF DoUpdatePortfolioValue
  <2>2. total \in Nat
    BY InputAssumption
  <2> QED BY <2>1, <2>2
          DEF UpdatePortfolioValue, history, TypeOK, Dates, HardLatched, SoftLatched, LossBooked
<1>2. CASE NextDay
  <2>1. TypeOK'
    BY <1>2 DEF NextDay, riskVars, history, TypeOK
  <2>2. Dates' /\ HardLatched' /\ SoftLatched' /\ LossBooked'
    BY <1>2 DEF NextDay, riskVars, history, TypeOK, Dates, HardLatched, SoftLatched, LossBooked
  <2> QED BY <2>1, <2>2
<1> QED BY <1>1, <1>2

LEMMA StopInvNext == StopInv /\ [Next]_vars => StopInv'
<1> SUFFICES ASSUME StopInv, [Next]_vars PROVE StopInv'
  OBVIOUS
<1>1. CASE DoAllow
  <2>1. PICK req \in Requests : Allow(req)
    BY <1>1 DEF DoAllow
  <2>2. req.value \in Nat
    BY InputAssumption DEF Requests
  <2> QED BY <2>1, <2>2, AllowStops
<1>2. CASE DoUpdatePnL
  <2>1. PICK r \in RealizedUSD : UpdatePnL(r, 0)
    BY <1>2 DEF DoUpdatePnL
  <2>2. r \in Int
    BY InputAssumption
  <2> QED BY <2>1, <2>2, UpdatePnLStops
<1>3. CASE DoUpdatePosition
  <2>1. PICK asset \in Assets, exchange \in Exchanges, d \in PositionDeltas :
          UpdatePosition(asset, exchange, d.qty, d.value)
    BY <1>3 DEF DoUpdatePosition
  <2>2. d.qty \in Int /\ d.value \in Int
    BY InputAssumption
  <2> QED BY <2>1, <2>2, UpdatePositionStops
<1>4. CASE DoUpdatePortfolioValue \/ NextDay
  BY <1>4, OthersKeepStops
<1> QED BY <1>1, <1>2, <1>3, <1>4, NonFiniteStops, IdleStops DEF Next

(* The inductive invariant holds in every reachable state.                 *)
THEOREM StopInvariant == Spec => []StopInv
BY StopInvInit, StopInvNext, PTL DEF Spec

(* The state of the risk engine always has its type.                       *)
THEOREM TypeCorrect == Spec => []TypeOK
<1>1. StopInv => TypeOK
  BY DEF StopInv
<1> QED BY <1>1, StopInvariant, PTL

-----------------------------------------------------------------------------
(* Whoever asks, an approval is never given on a day on which the hard     *)
(* stop has refused an order (risk.go:79-81).                              *)
LEMMA ApprovedIsNotStopped ==
  ASSUME StopInv, NEW req, Allow(req), reply'.ok PROVE hardDay # today
<1>1. ~Hard
  BY DEF Allow, Refused
<1> QED BY <1>1 DEF StopInv, TypeOK, HardLatched, Hard, ResetDue

(* Nor is it given for more than 30% of what is asked once the soft limit  *)
(* has been seen passed that day (risk.go:95-97).                          *)
LEMMA ApprovedIsReduced ==
  ASSUME StopInv, NEW req, Allow(req), reply'.ok, softDay = today
  PROVE  reply'.value = (3 * req.value) \div 10
<1>1. ~Refused(req) /\ ~Hard
  BY DEF Allow, Refused
<1>2. Soft
  BY <1>1 DEF StopInv, TypeOK, SoftLatched, Soft, Hard, ResetDue
<1> QED BY <1>1, <1>2 DEF Allow, AdjValue

(* A day on which Allow refused because of the hard stop sees no approval  *)
(* any more, for every limit and every sequence of calls.                  *)
THEOREM StopLasts == Spec => StopLastsTheDay
<1>1. StopInv /\ [Next]_vars => [Approves => hardDay # today]_vars
  BY ApprovedIsNotStopped DEF Approves, DoAllow
<1> QED BY <1>1, StopInvariant, PTL DEF Spec, StopLastsTheDay

(* A hard stop that Allow leaves set was earned by a loss booked the same  *)
(* day.                                                                    *)
THEOREM StopIsOfToday == Spec => StopNeedsLossToday
<1>1. StopInv /\ [Next]_vars
        => [DoAllow /\ hardStopTriggered' => lossDay = today]_vars
  <2> SUFFICES ASSUME StopInv, DoAllow, hardStopTriggered' PROVE lossDay = today
    OBVIOUS
  <2>1. PICK req \in Requests : Allow(req)
    BY DEF DoAllow
  <2>2. LossBooked'
    <3>1. req.value \in Nat
      BY InputAssumption DEF Requests
    <3> QED BY <2>1, <3>1, AllowStops DEF StopInv
  <2>3. lossDay' = lossDay /\ lastResetDate' = today /\ today' = today
    BY <2>1, AllowEffect DEF StopInv, Allow
  <2> QED BY <2>2, <2>3, Zenon DEF LossBooked
<1> QED BY <1>1, StopInvariant, PTL DEF Spec, StopNeedsLossToday

(* Once the soft limit has been seen passed, every later approval of the   *)
(* day is for 30% of what was asked.                                       *)
THEOREM SoftStopLasts == Spec => SoftStopReduces
<1> DEFINE Reduced == \A req \in Requests :
             Allow(req) /\ reply'.ok /\ softDay = today
               => 10 * reply'.value = 3 * req.value
<1>1. StopInv /\ [Next]_vars => [Reduced]_vars
  <2> SUFFICES ASSUME StopInv, NEW req \in Requests,
                      Allow(req), reply'.ok, softDay = today
               PROVE  10 * reply'.value = 3 * req.value
    OBVIOUS
  <2>1. reply'.value = (3 * req.value) \div 10
    BY ApprovedIsReduced
  <2>2. req.value \in Nat /\ req.value % 10 = 0
    BY InputAssumption DEF Requests
  <2> QED BY <2>1, <2>2
<1> QED BY <1>1, StopInvariant, PTL DEF Spec, SoftStopReduces

-----------------------------------------------------------------------------
(* The percentile of the kept ticks (risk.go:226-251): the ticks, those up *)
(* to a value and those below it.                                          *)
Ticks         == DOMAIN pnlHistory
TicksTo(v)    == {i \in Ticks : pnlHistory[i] <= v}
TicksBelow(v) == {i \in Ticks : pnlHistory[i] < v}

(* What it takes to count ticks (risk.go:174-179).                         *)
LEMMA TickCounts ==
  ASSUME TypeOK
  PROVE  /\ IsFiniteSet(Ticks) /\ Cardinality(Ticks) = Len(pnlHistory)
         /\ Len(pnlHistory) \in Nat /\ \A i \in Ticks : pnlHistory[i] \in Int
         /\ \A I \in SUBSET Ticks : /\ IsFiniteSet(I) /\ Cardinality(I) \in 0..Len(pnlHistory)
                                    /\ \A J \in SUBSET I : /\ Cardinality(J) <= Cardinality(I)
                                                           /\ Cardinality(J) = Cardinality(I) => I = J
         /\ \A v : UpTo(v) = Cardinality(TicksTo(v)) /\ Below(v) = Cardinality(TicksBelow(v))
<1>1. Ticks = 1..Len(pnlHistory) /\ Len(pnlHistory) \in Nat /\ \A i \in Ticks : pnlHistory[i] \in Int
  BY DEF TypeOK, Ticks
<1>2. IsFiniteSet(Ticks) /\ Cardinality(Ticks) = Len(pnlHistory)
  <2>1. IsFiniteSet(1..Len(pnlHistory)) /\ Cardinality(1..Len(pnlHistory)) =
              IF 1 > Len(pnlHistory) THEN 0 ELSE Len(pnlHistory) - 1 + 1
    BY <1>1, FS_Interval
  <2> QED BY <1>1, <2>1
<1>3. ASSUME NEW I \in SUBSET Ticks
      PROVE  /\ IsFiniteSet(I) /\ Cardinality(I) \in 0..Len(pnlHistory)
             /\ \A J \in SUBSET I : /\ Cardinality(J) <= Cardinality(I)
                                    /\ Cardinality(J) = Cardinality(I) => I = J
  <2>1. IsFiniteSet(I) /\ Cardinality(I) <= Len(pnlHistory)
    BY <1>2, FS_Subset
  <2>2. Cardinality(I) \in Nat
    BY <2>1, FS_CardinalityType
  <2>3. \A J \in SUBSET I : Cardinality(J) <= Cardinality(I) /\ (Cardinality(J) = Cardinality(I) => I = J)
    BY <2>1, FS_Subset
  <2> QED BY <1>1, <2>1, <2>2, <2>3
<1>4. \A v : UpTo(v) = Cardinality(TicksTo(v)) /\ Below(v) = Cardinality(TicksBelow(v))
  BY DEF UpTo, Below, TicksTo, TicksBelow, Ticks
<1> QED BY <1>1, <1>2, <1>3, <1>4

(* A larger tick has more ticks up to it, as in the sorted copy that the   *)
(* percentile is read from (risk.go:236-244).                              *)
LEMMA UpToGrows ==
  ASSUME TypeOK, NEW i \in Ticks, NEW k \in Ticks, pnlHistory[i] < pnlHistory[k]
  PROVE  UpTo(pnlHistory[i]) < UpTo(pnlHistory[k])
<1> DEFINE A == TicksTo(pnlHistory[i])
           B == TicksTo(pnlHistory[k])
<1>1. A \in SUBSET B /\ B \in SUBSET Ticks /\ k \in B /\ k \notin A
  BY TickCounts DEF TicksTo
<1>2. UpTo(pnlHistory[i]) = Cardinality(A) /\ UpTo(pnlHistory[k]) = Cardinality(B)
  BY TickCounts
<1> HIDE DEF A, B
<1>3. Cardinality(A) <= Cardinality(B) /\ Cardinality(A) # Cardinality(B)
  BY <1>1, TickCounts
<1>4. Cardinality(A) \in Int /\ Cardinality(B) \in Int
  BY <1>1, TickCounts
<1> QED BY <1>2, <1>3, <1>4

(* Among some of the ticks one is the largest: the one with the most ticks *)
(* up to it (risk.go:236-244).                                             *)
LEMMA LargestTick ==
  ASSUME TypeOK, NEW I \in SUBSET Ticks, I # {}
  PROVE  \E m \in I : \A i \in I : pnlHistory[i] <= pnlHistory[m]
<1> DEFINE n == Len(pnlHistory)
           T == {n - UpTo(pnlHistory[i]) : i \in I}
<1>1. \A i \in I : UpTo(pnlHistory[i]) \in 0..n /\ n \in Nat
  <2>1. \A i \in I : TicksTo(pnlHistory[i]) \in SUBSET Ticks
    BY DEF TicksTo
  <2> QED BY <2>1, TickCounts
<1>2. T \in SUBSET Nat /\ T # {}
  BY <1>1
<1>3. PICK t \in T : \A s \in T : t <= s
  BY <1>2, LeastNat
<1>4. PICK m \in I : t = n - UpTo(pnlHistory[m])
  OBVIOUS
<1>5. ASSUME NEW i \in I, ~(pnlHistory[i] <= pnlHistory[m]) PROVE FALSE
  <2>1. UpTo(pnlHistory[m]) < UpTo(pnlHistory[i])
    BY <1>5, TickCounts, UpToGrows
  <2>2. n - UpTo(pnlHistory[i]) \in T
    OBVIOUS
  <2>3. n - UpTo(pnlHistory[m]) <= n - UpTo(pnlHistory[i])
    BY <1>3, <1>4, <2>2
  <2> QED BY <1>1, <2>1, <2>3
<1> QED BY <1>5

(* Every rank is that of some tick: the one with the fewest ticks up to it *)
(* of those with more than the rank (risk.go:240-246).                     *)
LEMMA PercentileExists ==
  ASSUME TypeOK, NEW p \in Nat, p < Len(pnlHistory)
  PROVE  \E k \in Ticks : Below(pnlHistory[k]) <= p /\ p < UpTo(pnlHistory[k])
<1>1. \A i \in Ticks : /\ TicksTo(pnlHistory[i]) \in SUBSET Ticks
                       /\ TicksBelow(pnlHistory[i]) \in SUBSET TicksTo(pnlHistory[i])
                       /\ i \in TicksTo(pnlHistory[i]) /\ i \notin TicksBelow(pnlHistory[i])
  BY TickCounts DEF TicksTo, TicksBelow
<1>2. \A i \in Ticks : /\ UpTo(pnlHistory[i]) \in 0..Len(pnlHistory)
                       /\ Below(pnlHistory[i]) \in 0..Len(pnlHistory)
                       /\ Below(pnlHistory[i]) < UpTo(pnlHistory[i])
  <2> TAKE i \in Ticks
  <2> DEFINE A == TicksBelow(pnlHistory[i])
             B == TicksTo(pnlHistory[i])
  <2>1. A \in SUBSET B /\ B \in SUBSET Ticks /\ A \in SUBSET Ticks /\ A # B
    BY <1>1
  <2>2. UpTo(pnlHistory[i]) = Cardinality(B) /\ Below(pnlHistory[i]) = Cardinality(A)
    BY TickCounts
  <2> HIDE DEF A, B
  <2>3. /\ Cardinality(A) \in 0..Len(pnlHistory) /\ Cardinality(B) \in 0..Len(pnlHistory)
        /\ Cardinality(A) <= Cardinality(B) /\ Cardinality(A) # Cardinality(B)
    BY <2>1, TickCounts
  <2> QED BY <2>2, <2>3
<1> DEFINE J == {i \in Ticks : p < UpTo(pnlHistory[i])}
           T == {UpTo(pnlHistory[i]) : i \in J}
<1>3. J # {}
  <2>1. Ticks # {}
    BY TickCounts, FS_EmptySet
  <2>2. PICK m \in Ticks : \A i \in Ticks : pnlHistory[i] <= pnlHistory[m]
    BY <2>1, LargestTick
  <2>3. TicksTo(pnlHistory[m]) = Ticks
    BY <2>2 DEF TicksTo
  <2>4. UpTo(pnlHistory[m]) = Len(pnlHistory)
    BY <2>3, TickCounts
  <2> QED BY <2>2, <2>4
<1>4. T \in SUBSET Nat /\ T # {}
  BY <1>2, <1>3
<1>5. PICK t \in T : \A s \in T : t <= s
  BY <1>4, LeastNat
<1>6. PICK k \in J : t = UpTo(pnlHistory[k])
  OBVIOUS
<1>7. ASSUME ~(Below(pnlHistory[k]) <= p) PROVE FALSE
  <2> DEFINE B == TicksBelow(pnlHistory[k])
  <2>1. B \in SUBSET Ticks /\ Cardinality(B) = Below(pnlHistory[k])
    BY TickCounts DEF TicksBelow
  <2>2. B # {}
    <3>1. Below(pnlHistory[k]) # 0
      BY <1>2, <1>7
    <3> HIDE DEF B
    <3> QED BY <2>1, <3>1, FS_EmptySet
  <2>3. PICK b \in B : \A i \in B : pnlHistory[i] <= pnlHistory[b]
    BY <2>1, <2>2, LargestTick
  <2>4. TicksTo(pnlHistory[b]) = B
    BY <2>3, TickCounts DEF TicksTo, TicksBelow
  <2>5. UpTo(pnlHistory[b]) = Below(pnlHistory[k])
    BY <2>1, <2>4, TickCounts
  <2>6. b \in J
    BY <1>2, <1>7, <2>1, <2>5
  <2>7. t <= UpTo(pnlHistory[b])
    BY <1>5, <2>6
  <2> QED BY <1>2, <1>6, <2>5, <2>7
<1> QED BY <1>6, <1>7

(* The index of the percentile is one of a tick, and at most the share of  *)
(* the ticks that the divisor says (risk.go:240).                          *)
LEMMA PercentileIndex ==
  ASSUME NEW n \in Nat, NEW d \in Nat \ {0, 1}, n # 0
  PROVE  n \div d \in Nat /\ (n \div d) * d <= n /\ n \div d < n
<1>1. n \div d \in Nat
  OBVIOUS
<1>2. (n \div d) * d <= n
  OBVIOUS
<1> QED BY <1>1, <1>2

(* Whatever results are booked and however many are kept, no more than one *)
(* kept tick in VarDivisor is a larger loss than the value taken as VaR    *)
(* (risk.go:226-251).                                                      *)
THEOREM VarCoversLossesHolds == Spec => []VarCoversLosses
<1>1. TypeOK => VarCoversLosses
  <2> SUFFICES ASSUME TypeOK, Len(pnlHistory) >= VarMinTicks
               PROVE  Cardinality({i \in Ticks : pnlHistory[i] < -calculateVaR99}) * VarDivisor
                        <= Len(pnlHistory)
    BY DEF VarCoversLosses, Ticks
  <2> DEFINE n == Len(pnlHistory)
             Ok(v) == Below(v) <= percentileIdx /\ percentileIdx < UpTo(v)
             S == {pnlHistory[i] : i \in DOMAIN pnlHistory}
             v == CHOOSE v \in S : Ok(v)
  <2>1. n \in Nat /\ n # 0
    BY TickCounts, HistoryAssumption
  <2>2. percentileIdx \in Nat /\ percentileIdx * VarDivisor <= n /\ percentileIdx < n
    BY <2>1, PercentileIndex, HistoryAssumption DEF percentileIdx
  <2>3. \E u \in S : Ok(u)
    BY <2>2, PercentileExists DEF Ticks
  <2>4. v \in S /\ Ok(v)
    BY <2>3, Zenon
  <2>5. calculateVaR99 = Abs(v)
    BY <2>1, TickCounts, HistoryAssumption DEF calculateVaR99
  <2>6. v \in Int
    BY <2>4, TickCounts DEF Ticks
  <2> DEFINE L == {i \in Ticks : pnlHistory[i] < -Abs(v)}
  <2>7. L \in SUBSET TicksBelow(v) /\ TicksBelow(v) \in SUBSET Ticks
    <3> HIDE DEF v
    <3> QED BY <2>6, TickCounts DEF TicksBelow, Abs
  <2>8. Cardinality(L) <= Below(v) /\ Below(v) <= percentileIdx
    BY <2>4, <2>7, TickCounts
  <2>9. Cardinality(L) \in Nat /\ Below(v) \in Nat
    BY <2>7, TickCounts
  <2> HIDE DEF L, v
  <2>10. Cardinality(L) <= percentileIdx
    BY <2>2, <2>8, <2>9
  <2>11. Cardinality(L) * VarDivisor <= percentileIdx * VarDivisor
    BY <2>2, <2>9, <2>10, HistoryAssumption
  <2>12. Cardinality(L) * VarDivisor <= n
    BY <2>1, <2>2, <2>9, <2>11, HistoryAssumption
  <2> QED BY <2>5, <2>12 DEF L
<1> QED BY <1>1, TypeCorrect, PTL
=============================================================================
