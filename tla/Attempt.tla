------------------------------- MODULE Attempt -------------------------------
(***************************************************************************)
(* The goroutine of Run for one triangle, from the prices it has read to   *)
(* the end of the attempt (internal/arbitrage/engine.go:331-457), with the *)
(* statistics that ban a triangle and choose its threshold and its size    *)
(* (466-573).  The call of executeTriangle is module TriangleExec; here it *)
(* succeeds or fails.                                                      *)
(*                                                                         *)
(* Module TickLoop shows that no goroutine passes line 377: the lock there *)
(* is taken twice.  This module is about the lines behind it, as they run  *)
(* when dynamicMinNetBps reads the statistics under the lock its caller    *)
(* holds.                                                                  *)
(***************************************************************************)
EXTENDS Evaluation, Settings, FiniteSets

CONSTANTS
  MaxLanes,      \* bound of the model on triangles scanned
  MaxTicks,      \* bound of the model on ticks
  BanMin,        \* executions before a triangle may be banned, 20 in the code
  SizeMin,       \* executions before its ratio sizes it, 5 in the code
  ThresholdMin,  \* executions before its ratio raises its threshold, 3 in the code
  BanTicks,      \* ten minutes, in ticks
  TokensPerTick  \* what a tick adds to the tokens

ASSUME AttemptAssumption ==
  /\ {MaxLanes, MaxTicks, TokensPerTick} \subseteq Nat
  /\ {BanMin, SizeMin, ThresholdMin, BanTicks} \subseteq Nat \ {0}
  /\ \A d \in DOMAIN Deployments : /\ Load[d]["TRIANGLES"] \in Seq([Legs -> STRING])
                                   /\ Len(Load[d]["TRIANGLES"]) <= MaxLanes

VARIABLES
  deploy,   \* the deployment the process was started in
  scanned,  \* the triangles of the loop, in order; one may be there twice
  tick,     \* ticks so far
  lane,     \* per position in scanned: its goroutine of this tick; see Lane
  stats,    \* per triangle: the triStat objects it has had, the last in the map
  ban,      \* per triangle: the tick its ban ends
  hard,     \* the risk engine's hard stop
  stopped,  \* e.stopped
  tokens,   \* e.tokens
  slots     \* elements in e.execSem

attemptVars == <<deploy, scanned, tick, lane, stats, ban, hard, stopped, tokens, slots>>

Cfg     == Load[deploy]
Lanes   == 1..MaxLanes
Active  == DOMAIN scanned
Triangles == Range(Cfg["TRIANGLES"])
LegsOf(t) == {t["AB"], t["BC"], t["CA"]}

(* What a look at each market comes to: the prices decide it.              *)
Found ==
  [d \in DOMAIN Deployments |-> [m \in DOMAIN Markets |->
     Evaluate(Markets[m], Load[d]["FEES_BPS_BYBIT"], Load[d]["SLIPPAGE_BPS"], Load[d]["RISK_RESERVE_BPS"])]]

SlotCap == IF Cfg["MAX_CONCURRENT_TRIANGLES"] > 1 THEN Cfg["MAX_CONCURRENT_TRIANGLES"] ELSE 1

Executing == {"stat", "count", "ratio", "thenCount", "thenSuccess", "exec", "record", "end"}
LanePCs   == {"idle", "look", "hard", "stopped", "token", "slot"} \cup Executing

(* m, dir: the market found and the direction; ref: the triStat object     *)
(* that was in the map; a, b: the two of its fields read for the ratio;    *)
(* factor: in tenths; good: executeTriangle succeeded; after: e.stopped    *)
(* was set before the goroutine looked (read by a property only).          *)
Lane(pc, after) == [pc |-> pc, m |-> "none", dir |-> "F", ref |-> 0, a |-> 0, b |-> 0,
                    factor |-> 10, good |-> FALSE, after |-> after]

AttemptTypeOK ==
  /\ Len(scanned) <= MaxLanes /\ tick \in 0..MaxTicks
  /\ \A l \in Lanes : lane[l].pc \in LanePCs /\ {lane[l].a, lane[l].b} \subseteq Nat
  /\ \A t \in DOMAIN stats : \A i \in DOMAIN stats[t] : stats[t][i].success <= stats[t][i].count
  /\ {hard, stopped} \subseteq BOOLEAN
  /\ tokens \in 0..Cfg["MAX_ORDERS_PER_MIN"]
  /\ slots = Cardinality({l \in Active : lane[l].pc \in Executing})
  /\ slots <= SlotCap

Goto(l, pc)    == lane' = [lane EXCEPT ![l].pc = pc]
Become(l, rec) == lane' = [lane EXCEPT ![l] = rec]
At(l, pc)      == l \in Active /\ lane[l].pc = pc
Key(l)         == scanned[l]
AllIdle        == \A l \in Active : lane[l].pc = "idle"

-----------------------------------------------------------------------------
(* The statistics of a triangle: the object in the map, if there is one.   *)
Stat(key) == Last(stats[key])
NoStat(key) == stats[key] = <<>>

(* The threshold: half of MinNetBps without a record, else seven tenths of *)
(* it and a share for a low ratio and a low average; ema stands for the    *)
(* share of the average, at most a quarter of MinNetBps.                   *)
dynamicMinNetBps(key, ema) ==
  LET base  == Cfg["MIN_NET_BPS"]
      ratio == (100 * Stat(key).success) \div Stat(key).count
      low   == IF ratio < 30 THEN (30 - ratio) * 5 ELSE 0
      bump  == (IF low > 200 THEN 200 ELSE low) + ema
      out   == (base * 7) \div 10 + (IF bump > 300 THEN 300 ELSE bump)
  IN IF NoStat(key) \/ Stat(key).count < ThresholdMin THEN base \div 2
     ELSE IF out < 100 THEN 100 ELSE out

MinBps(key, ema) ==
  LET tenth == dynamicMinNetBps(key, ema) \div 10 IN IF tenth < 10 THEN 10 ELSE tenth

(* mutant: two of the three legs are looked up *)
allowedByTwoLegs(t) ==
  Cfg["ALLOWED_SYMBOLS"] = <<>> \/ {t["AB"], t["BC"]} \subseteq Range(Cfg["ALLOWED_SYMBOLS"])

(* No list allows everything.                                             *)
allowedForLive(t) ==
  Cfg["ALLOWED_SYMBOLS"] = <<>> \/ LegsOf(t) \subseteq Range(Cfg["ALLOWED_SYMBOLS"])

-----------------------------------------------------------------------------
(* The tickers are had or not; a banned triangle, and one whose better     *)
(* direction does not reach the threshold, is left until the next tick.    *)
Look(l) ==
  /\ At(l, "look")
  /\ \/ Goto(l, "idle")
     \/ /\ ban[Key(l)] <= tick
        /\ \E m \in DOMAIN Markets, ema \in {0, Cfg["MIN_NET_BPS"] \div 4} :
             /\ Found[deploy][m].net >= MinBps(Key(l), ema)
             /\ Become(l, [lane[l] EXCEPT !.pc = "hard", !.m = m, !.dir = Found[deploy][m].dir])
  /\ UNCHANGED <<deploy, scanned, tick, stats, ban, hard, stopped, tokens, slots>>

(* mutant: the stop of the loop follows the risk engine's *)
FollowHard(l) ==
  /\ At(l, "hard")
  /\ stopped' = hard
  /\ Become(l, [lane[l] EXCEPT !.pc = "stopped", !.m = "none", !.dir = "F"])
  /\ UNCHANGED <<deploy, scanned, tick, stats, ban, hard, tokens, slots>>

(* IsHardStopped, and e.stopped, which nothing resets.                     *)
CheckHard(l) ==
  /\ At(l, "hard")
  /\ stopped' = (stopped \/ hard)
  /\ Become(l, [lane[l] EXCEPT !.pc = "stopped", !.m = "none", !.dir = "F"])
  /\ UNCHANGED <<deploy, scanned, tick, stats, ban, hard, tokens, slots>>

CheckStopped(l) ==
  /\ At(l, "stopped")
  /\ Goto(l, IF Cfg["TRADING_LIVE"] /\ ~stopped /\ allowedForLive(Key(l)) THEN "token" ELSE "idle")
  /\ UNCHANGED <<deploy, scanned, tick, stats, ban, hard, stopped, tokens, slots>>

(* One token an attempt; it is not given back if there is no slot.         *)
TakeToken(l) ==
  /\ At(l, "token")
  /\ \/ tokens >= 1 /\ tokens' = tokens - 1 /\ Goto(l, "slot")
     \/ tokens < 1 /\ Goto(l, "idle") /\ UNCHANGED tokens
  /\ UNCHANGED <<deploy, scanned, tick, stats, ban, hard, stopped, slots>>

(* mutant: the slot is taken whether there is one or not *)
TakeAnySlot(l) ==
  /\ At(l, "slot")
  /\ slots' = slots + 1 /\ Goto(l, "stat")
  /\ UNCHANGED <<deploy, scanned, tick, stats, ban, hard, stopped, tokens>>

TakeSlot(l) ==
  /\ At(l, "slot")
  /\ \/ slots < SlotCap /\ slots' = slots + 1 /\ Goto(l, "stat")
     \/ slots >= SlotCap /\ Goto(l, "idle") /\ UNCHANGED slots
  /\ UNCHANGED <<deploy, scanned, tick, stats, ban, hard, stopped, tokens>>

-----------------------------------------------------------------------------
(* dynamicSizeFactor: the object is looked up under the lock, its fields   *)
(* are read without it, while updateTriStats of another goroutine may      *)
(* write them.  Go leaves open which field of the quotient is read first.  *)

NoFactor(l)  == Become(l, [lane[l] EXCEPT !.pc = "exec", !.factor = 8, !.ref = 0])
StatKept(A)  == A /\ UNCHANGED <<deploy, scanned, tick, stats, ban, hard, stopped, tokens, slots>>
Object(l)    == stats[Key(l)][lane[l].ref]

(* mutant: the quotient is taken as it comes *)
Unclamped(success, count) == 5 + (10 * success) \div count

Clamped(success, count) ==
  LET f == 5 + (10 * success) \div count IN IF f < 5 THEN 5 ELSE IF f > 15 THEN 15 ELSE f

LookUp(l) ==
  /\ At(l, "stat")
  /\ IF NoStat(Key(l)) THEN NoFactor(l)
     ELSE Become(l, [lane[l] EXCEPT !.pc = "count", !.ref = Len(stats[Key(l)])])

ReadCount(l) ==
  /\ At(l, "count")
  /\ IF Object(l).count < SizeMin THEN NoFactor(l) ELSE Goto(l, "ratio")

ReadFirst(l) ==
  /\ At(l, "ratio")
  /\ \/ Become(l, [lane[l] EXCEPT !.pc = "thenCount", !.b = Object(l).success])
     \/ Become(l, [lane[l] EXCEPT !.pc = "thenSuccess", !.a = Object(l).count])

ReadSecond(l) ==
  \/ /\ At(l, "thenCount")
     /\ Become(l, [lane[l] EXCEPT !.pc = "exec", !.factor = Clamped(lane[l].b, Object(l).count),
                                  !.ref = 0, !.b = 0])
  \/ /\ At(l, "thenSuccess")
     /\ Become(l, [lane[l] EXCEPT !.pc = "exec", !.factor = Clamped(Object(l).success, lane[l].a),
                                  !.ref = 0, !.a = 0])

dynamicSizeFactor(l) == StatKept(LookUp(l) \/ ReadCount(l) \/ ReadFirst(l) \/ ReadSecond(l))

-----------------------------------------------------------------------------
(* executeTriangle: its checks and results may set or, on a new day, end   *)
(* the hard stop, if there is a limit.                                     *)
executeTriangle(l) ==
  /\ At(l, "exec")
  /\ \E good \in BOOLEAN : Become(l, [lane[l] EXCEPT !.pc = "record", !.good = good, !.factor = 10])
  /\ hard' \in IF Cfg["DAILY_PNL_STOP_USD"] > 0 THEN BOOLEAN ELSE {hard}
  /\ UNCHANGED <<deploy, scanned, tick, stats, ban, stopped, tokens, slots>>

(* mutant: one execution too late *)
DueAfter(s) == s.count > BanMin /\ 5 * s.success < s.count

(* A success ratio below a fifth; no caller ever reports a partial fill.   *)
BanDue(s) == s.count >= BanMin /\ 5 * s.success < s.count

(* The update and the ban, under the lock.                                 *)
updateTriStats(l) ==
  LET key == Key(l)
      old == IF NoStat(key) THEN <<[count |-> 0, success |-> 0]>> ELSE stats[key]
      new == [count   |-> Last(old).count + 1,
              success |-> Last(old).success + (IF lane[l].good THEN 1 ELSE 0)]
      kept == [old EXCEPT ![Len(old)] = new]
  IN /\ At(l, "record")
     /\ stats' = [stats EXCEPT ![key] = IF BanDue(new) THEN Append(kept, [count |-> 0, success |-> 0]) ELSE kept]
     /\ ban' = [ban EXCEPT ![key] = IF BanDue(new) THEN tick + BanTicks ELSE @]
     /\ Goto(l, "end")
     /\ UNCHANGED <<deploy, scanned, tick, hard, stopped, tokens, slots>>

(* The deferred release of the slot, when the goroutine ends.              *)
Leave(l) ==
  /\ At(l, "end")
  /\ slots' = slots - 1
  /\ Become(l, Lane("idle", FALSE))
  /\ UNCHANGED <<deploy, scanned, tick, stats, ban, hard, stopped, tokens>>

AttemptStep(l) ==
  \/ Look(l) \/ CheckHard(l) \/ CheckStopped(l) \/ TakeToken(l) \/ TakeSlot(l)
  \/ dynamicSizeFactor(l) \/ executeTriangle(l) \/ updateTriStats(l) \/ Leave(l)

(* The next tick: tokens are added, and a goroutine is started for every   *)
(* triangle whose three names are there.                                   *)
NextTick ==
  /\ AllIdle /\ tick < MaxTicks
  /\ tick' = tick + 1
  /\ tokens' = IF tokens + TokensPerTick < Cfg["MAX_ORDERS_PER_MIN"] THEN tokens + TokensPerTick
               ELSE Cfg["MAX_ORDERS_PER_MIN"]
  /\ lane' = [l \in Lanes |-> IF l \in Active /\ "" \notin LegsOf(Key(l))
                              THEN Lane("look", stopped) ELSE Lane("idle", FALSE)]
  /\ UNCHANGED <<deploy, scanned, stats, ban, hard, stopped, slots>>

-----------------------------------------------------------------------------
(* Properties                                                              *)

(* The size factor stays within half and one and a half, also when another *)
(* goroutine of the same triangle writes the statistics between two reads  *)
(* (engine.go:548-573, against 466-478).                                   *)
SizeFactorInRange == \A l \in Active : At(l, "exec") => lane[l].factor \in 5..15

(* No triangle keeps a record of too many executions with too few          *)
(* successes: the update that makes it bad bans it and begins a new one    *)
(* (engine.go:488-497).                                                    *)
NoBadTriangleKept ==
  \A t \in DOMAIN stats :
    stats[t] # <<>> /\ Stat(t).count >= BanMin => 5 * Stat(t).success >= Stat(t).count

(* Once e.stopped is set, no goroutine started afterwards executes, on     *)
(* this day or any other (engine.go:403-412).                              *)
StopEndsAttempts == \A l \in Lanes : lane[l].after => lane[l].pc \notin {"token", "slot"} \cup Executing

(* What executes was allowed by the list of the topmost place that gives   *)
(* one, leg by leg (config.go:190-192, live.go:21-34).                     *)
GivenList(d) ==
  IF Getenv(d, "ALLOWED_SYMBOLS").given THEN Getenv(d, "ALLOWED_SYMBOLS").items
  ELSE Below(d, "ALLOWED_SYMBOLS")

AttemptsAreAllowed ==
  \A l \in Lanes : lane[l].pc \in Executing /\ GivenList(Deployments[deploy]) # <<>> =>
    \A x \in LegsOf(Key(l)) : x \in Range(GivenList(Deployments[deploy]))

-----------------------------------------------------------------------------
(* What a comment says and the code does not do                            *)

(* slippage.go:45 "effectively reject": a direction is not taken on when   *)
(* one of its three books, all of them known, cannot fill the tentative    *)
(* quantity (engine.go:354-400).                                           *)
ThinBooksAreRejected ==
  \A l \in Active : lane[l].m # "none" =>
    LET m == Markets[lane[l].m]
        side(x) == IF x = "BC" \/ lane[l].dir = "F" THEN m[x].bids ELSE m[x].asks
    IN (\A x \in Legs : m[x].known) =>
         \A x \in Legs : FoldLeft(LAMBDA sum, level : sum + level.qty, 0, side(x)) >= QtyAB(m)
=============================================================================
