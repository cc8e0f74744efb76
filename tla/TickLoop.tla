------------------------------ MODULE TickLoop ------------------------------
(***************************************************************************)
(* The scan loop of Run (internal/arbitrage/engine.go:284-463): the ticker *)
(* select, the refill of the order tokens, the pool that looks at every    *)
(* triangle, and the cross-exchange scan that follows it.  What this       *)
(* module is about is who waits for whom: the mutex e.mu, the channel sem  *)
(* and the wait group.  sync.Mutex is not reentrant: Lock waits until the  *)
(* mutex is free, also for the goroutine that holds it.                    *)
(***************************************************************************)
EXTENDS Integers, FiniteSets

CONSTANTS
  Triangles,  \* the triangles scanned
  Capacity,   \* goroutines at a time: workers, 8 in the code
  Tickers     \* what the three GetTicker calls may come to: "err", "ok"

Main == "main"
Free == "free"

ASSUME LoopAssumption ==
  /\ IsFiniteSet(Triangles) /\ Main \notin Triangles /\ Free \notin Triangles
  /\ Capacity \in Nat \ {0}
  /\ Tickers \subseteq {"err", "ok"}

VARIABLES
  pc,        \* where the loop and the goroutine of each triangle are
  mu,        \* e.mu: its holder, or Free
  sem,       \* elements in the channel sem
  wg,        \* counter of the wait group
  started,   \* triangles started in this tick
  cancelled  \* ctx is done

tickVars == <<pc, mu, sem, wg, started, cancelled>>

MainPCs == {"select", "refill", "refilling", "spawn", "wait", "cross", "returned"}
TriPCs  == {"idle", "tickers", "bump", "threshold", "thresholdRead", "bumping",
            "found", "leaving", "wgDone"}

TypeOK ==
  /\ pc \in [{Main} \cup Triangles -> MainPCs \cup TriPCs]
  /\ mu \in {Free, Main} \cup Triangles
  /\ sem \in 0..Capacity /\ wg \in Nat
  /\ started \in SUBSET Triangles
  /\ cancelled \in BOOLEAN

Init ==
  /\ pc = [p \in {Main} \cup Triangles |-> IF p = Main THEN "select" ELSE "idle"]
  /\ mu = Free
  /\ sem = 0 /\ wg = 0
  /\ started = {} /\ cancelled = FALSE

Goto(p, where) == pc' = [pc EXCEPT ![p] = where]

-----------------------------------------------------------------------------
(* Every e.mu.Lock() of the loop, with the statement it leads to, and every *)
(* e.mu.Unlock(): "refill" is 297-306; "bump" is 371, which leads to the    *)
(* call of dynamicMinNetBps (377), whose own Lock and Unlock are 518-520    *)
(* ("threshold"); "bumping" is 378-395.  No triangle is banned here: only   *)
(* the outcome of an execution bans one.                                    *)
LockSite   == [refill |-> "refilling", bump |-> "threshold", threshold |-> "thresholdRead"]
UnlockSite == [refilling |-> "spawn", thresholdRead |-> "bumping", bumping |-> "found"]

(* mutant: a mutex its holder may lock again *)
LockReentrant(p) ==
  /\ pc[p] \in DOMAIN LockSite
  /\ mu \in {Free, p}
  /\ mu' = p
  /\ Goto(p, LockSite[pc[p]])
  /\ UNCHANGED <<sem, wg, started, cancelled>>

(* mutant: e.mu is released before dynamicMinNetBps is called *)
LockThenRelease(p) ==
  /\ pc[p] \in DOMAIN LockSite
  /\ mu = Free
  /\ mu' = IF pc[p] = "bump" THEN Free ELSE p
  /\ Goto(p, LockSite[pc[p]])
  /\ UNCHANGED <<sem, wg, started, cancelled>>

Lock(p) ==
  /\ pc[p] \in DOMAIN LockSite
  /\ mu = Free
  /\ mu' = p
  /\ Goto(p, LockSite[pc[p]])
  /\ UNCHANGED <<sem, wg, started, cancelled>>

Unlock(p) ==
  /\ pc[p] \in DOMAIN UnlockSite
  /\ mu = p
  /\ mu' = Free
  /\ Goto(p, UnlockSite[pc[p]])
  /\ UNCHANGED <<sem, wg, started, cancelled>>

-----------------------------------------------------------------------------
(* The select: ctx.Done() or a tick.                                       *)
Tick ==
  /\ pc[Main] = "select"
  /\ Goto(Main, "refill")
  /\ started' = {}
  /\ UNCHANGED <<mu, sem, wg, cancelled>>

Stop ==
  /\ pc[Main] = "select" /\ cancelled
  /\ Goto(Main, "returned")
  /\ UNCHANGED <<mu, sem, wg, started, cancelled>>

(* mutant: the goroutine takes its slot itself, so nothing waits for one *)
SpawnAtOnce(t) ==
  /\ pc[Main] = "spawn" /\ t \notin started
  /\ sem' = sem + 1 /\ wg' = wg + 1
  /\ started' = started \cup {t}
  /\ Goto(t, "tickers")
  /\ UNCHANGED <<mu, cancelled>>

(* sem <- struct{}{}; wg.Add(1); go func() ...                             *)
Spawn(t) ==
  /\ pc[Main] = "spawn" /\ t \notin started /\ sem < Capacity
  /\ sem' = sem + 1 /\ wg' = wg + 1
  /\ started' = started \cup {t}
  /\ Goto(t, "tickers")
  /\ UNCHANGED <<mu, cancelled>>

AllSpawned ==
  /\ pc[Main] = "spawn" /\ started = Triangles
  /\ Goto(Main, "wait")
  /\ UNCHANGED <<mu, sem, wg, started, cancelled>>

(* wg.Wait(), then scanCrossTick, which returns (module RunLoop).          *)
Wait ==
  /\ pc[Main] = "wait" /\ wg = 0
  /\ Goto(Main, "cross")
  /\ UNCHANGED <<mu, sem, wg, started, cancelled>>

CrossReturns ==
  /\ pc[Main] = "cross"
  /\ Goto(Main, "select")
  /\ UNCHANGED <<mu, sem, wg, started, cancelled>>

(* Three GetTicker calls with one deadline; then the prices are evaluated. *)
GetTickers(t) ==
  /\ pc[t] = "tickers"
  /\ \E r \in Tickers : Goto(t, IF r = "err" THEN "leaving" ELSE "bump")
  /\ UNCHANGED <<mu, sem, wg, started, cancelled>>

(* mutant: an early return forgets the wait group *)
LeaveUncounted(t) ==
  /\ pc[t] \in {"leaving", "found"}
  /\ sem' = sem - 1
  /\ Goto(t, "idle")
  /\ UNCHANGED <<mu, wg, started, cancelled>>

(* The end of the goroutine's body: an early return, or what follows 400   *)
(* (module Attempt).  The deferred function gives the slot back, then      *)
(* counts down.                                                            *)
Leave(t) ==
  /\ pc[t] \in {"leaving", "found"}
  /\ sem' = sem - 1
  /\ Goto(t, "wgDone")
  /\ UNCHANGED <<mu, wg, started, cancelled>>

CountDown(t) ==
  /\ pc[t] = "wgDone"
  /\ wg' = wg - 1
  /\ Goto(t, "idle")
  /\ UNCHANGED <<mu, sem, started, cancelled>>

(* The environment cancels the context (shutdown).                         *)
Cancel ==
  /\ ~cancelled /\ cancelled' = TRUE
  /\ UNCHANGED <<pc, mu, sem, wg, started>>

Returned == pc[Main] = "returned" /\ UNCHANGED tickVars

MainStep == Tick \/ Stop \/ Lock(Main) \/ Unlock(Main) \/ AllSpawned \/ Wait \/ CrossReturns
TriStep(t) == Lock(t) \/ Unlock(t) \/ GetTickers(t) \/ Leave(t) \/ CountDown(t)

Next ==
  \/ MainStep \/ Cancel \/ Returned
  \/ \E t \in Triangles : Spawn(t) \/ TriStep(t)

Spec == Init /\ [][Next]_tickVars

-----------------------------------------------------------------------------
(* Properties                                                              *)

NoPrices == [](\A t \in Triangles : pc[t] # "bump")

(* As long as no triangle's tickers can be had, every tick comes to its    *)
(* cross scan (engine.go:308-461).                                         *)
EveryTickScansCross == NoPrices => (pc[Main] = "spawn" ~> pc[Main] = "cross")

(* ... and the loop ends when its context is cancelled (288-289).          *)
CancelEndsRun == NoPrices => (cancelled ~> pc[Main] = "returned")

(* A goroutine that has reached dynamicMinNetBps holds the mutex it waits  *)
(* for (371 and 518).                                                      *)
ThresholdHoldsMutex == \A t \in Triangles : pc[t] = "threshold" => mu = t

(* So no triangle is ever found worth an attempt: none passes line 377.    *)
NothingIsFound ==
  \A t \in Triangles : pc[t] \notin {"thresholdRead", "bumping", "found"}

-----------------------------------------------------------------------------
(* engine.go:443 "we trade continuously": a scan that has begun ends, and  *)
(* the next one can begin.                                                 *)
TradesContinuously == pc[Main] = "spawn" ~> pc[Main] = "select"
=============================================================================
