------------------------------ MODULE RunLoop ------------------------------
(***************************************************************************)
(* One worker of the engine: the loop of Run with its triangle scan        *)
(* (module TickLoop) and the cross-exchange scan it calls at the end of    *)
(* every tick (module CrossScan), internal/arbitrage/engine.go:284-463.    *)
(* The loop waits for scanCrossTick as for any call: between ticks no scan *)
(* is under way, and while it runs the loop stands at 461.                 *)
(***************************************************************************)
EXTENDS TickLoop, CrossScan

runVars == <<pc, mu, sem, wg, started, cancelled, collector, spawned, received, crossSem, at>>

RunInit == Init /\ ScanInit

(* A step of the loop that is not the call at 461, or of one of its        *)
(* triangle goroutines.                                                    *)
LoopStep  == Tick \/ Stop \/ Lock(Main) \/ Unlock(Main) \/ AllSpawned \/ Wait
InLoop(A) == A /\ UNCHANGED scanVars

(* A step of the scan while the loop waits for it.                         *)
InScan(A) == pc[Main] = "cross" /\ A /\ UNCHANGED tickVars

(* mutant: the scan is started as a goroutine and not waited for *)
CrossCallAsync == CrossReturns /\ UNCHANGED scanVars

(* scanCrossTick returns to the loop; the next call makes new channels and *)
(* starts all jobs again.                                                  *)
CrossCall == CrossReturns /\ NextScan

JobStep(j) == EndBody(j) \/ Release(j) \/ Receive(j)

RunNext ==
  \/ InLoop(LoopStep) \/ InLoop(Cancel) \/ InLoop(Returned)
  \/ \E t \in Triangles : InLoop(Spawn(t)) \/ InLoop(TriStep(t))
  \/ InScan(SpawnJob) \/ InScan(AllJobsSpawned) \/ InScan(ReturnScan)
  \/ \E j \in Jobs : InScan(JobStep(j))
  \/ CrossCall

RunSpec == RunInit /\ [][RunNext]_runVars

(* The scheduler runs every goroutine that can go on, and the body of      *)
(* every job returns because each of its adapter calls has a deadline;     *)
(* select takes the closed channel of a cancelled context some time,       *)
(* though not at once; nothing says when a context is cancelled.           *)
RunFairSpec ==
  /\ RunSpec
  /\ WF_runVars(InLoop(LoopStep)) /\ SF_runVars(InLoop(Stop)) /\ WF_runVars(CrossCall)
  /\ \A t \in Triangles : WF_runVars(InLoop(Spawn(t))) /\ WF_runVars(InLoop(TriStep(t)))
  /\ WF_runVars(InScan(SpawnJob)) /\ WF_runVars(InScan(AllJobsSpawned)) /\ WF_runVars(InScan(ReturnScan))
  /\ \A j \in Jobs : WF_runVars(InScan(JobStep(j)))

-----------------------------------------------------------------------------
(* Properties                                                              *)

(* Every variable keeps to its type; the sites of the loop and those of    *)
(* the scan (engine.go:284-463 and cross.go:16-78).                        *)
RunTypeOK == TypeOK /\ ScanTypeOK

(* No job of a cross-exchange scan runs while a triangle goroutine does,   *)
(* or while the loop waits for its ticker: both spend the same tokens and  *)
(* the same limits (engine.go:458-461, cross.go:77).                       *)
ScansTakeTurns ==
  Running # {} => /\ pc[Main] = "cross"
                  /\ \A t \in Triangles : pc[t] = "idle"

(* Every cross-exchange scan returns to the loop, although the collector   *)
(* receives nothing while it is still starting goroutines and done has no  *)
(* buffer: this rests on each goroutine giving its slot back before it     *)
(* sends (cross.go:44-46 and 77).                                          *)
CrossScanReturns == pc[Main] = "cross" ~> pc[Main] = "select"
=============================================================================
