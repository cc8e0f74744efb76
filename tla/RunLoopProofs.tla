--------------------------- MODULE RunLoopProofs ---------------------------
(***************************************************************************)
(* Proofs about the worker as a whole: each of its two parts behaves as    *)
(* its own module says, so what is proved of a part holds of the worker,   *)
(* and the two scans take turns.  The invariants count: the wait group is  *)
(* the number of triangle goroutines that have not counted down, and the   *)
(* slots in use are those of the goroutines between taking and giving back.*)
(***************************************************************************)
EXTENDS RunLoop, CrossScanProofs

-----------------------------------------------------------------------------
(* The loop by itself, for any set of triangles, any pool and whatever the *)
(* ticker calls come to: the loop and the goroutines it starts.            *)
Procs == {Main} \cup Triangles

(* The loop and the goroutines keep to their own sites, and the second     *)
(* Lock never succeeds because its caller holds the mutex.                 *)
StuckInv ==
  /\ pc \in [Procs -> MainPCs \cup TriPCs]
  /\ pc[Main] \in MainPCs
  /\ \A t \in Triangles : pc[t] \in TriPCs
  /\ ThresholdHoldsMutex
  /\ NothingIsFound

(* The loop and its goroutines begin outside every critical section        *)
(* (engine.go:284-286).                                                    *)
LEMMA StuckInit == Init => StuckInv
BY LoopAssumption
   DEF Init, StuckInv, Procs, ThresholdHoldsMutex, NothingIsFound, MainPCs, TriPCs, Main

(* A step that moves one goroutine, and not to a site behind the second    *)
(* Lock, keeps StuckInv when it keeps the first part about the mutex.      *)
LEMMA MoveStep ==
  ASSUME StuckInv, NEW p \in Procs, NEW where, Goto(p, where),
         p = Main => where \in MainPCs,
         p \in Triangles => where \in TriPCs \ {"thresholdRead", "bumping", "found"},
         ThresholdHoldsMutex'
  PROVE  StuckInv'
<1>1. where \in MainPCs \cup TriPCs
  BY DEF Procs
<1>2. /\ pc' \in [Procs -> MainPCs \cup TriPCs]
      /\ pc'[p] = where
      /\ \A q \in Procs : q # p => pc'[q] = pc[q]
  BY <1>1 DEF Goto, StuckInv
<1>3. pc'[Main] \in MainPCs
  BY <1>2 DEF StuckInv, Procs
<1>4. \A t \in Triangles : pc'[t] \in TriPCs
  BY <1>2 DEF StuckInv, Procs
<1>5. NothingIsFound'
  BY <1>2 DEF StuckInv, NothingIsFound, Procs
<1> QED BY <1>2, <1>3, <1>4, <1>5 DEF StuckInv

(* A step that leaves the mutex alone and does not lead to the second Lock *)
(* keeps StuckInv.                                                         *)
LEMMA PlainStep ==
  ASSUME StuckInv, NEW p \in Procs, NEW where, Goto(p, where), mu' = mu,
         p = Main => where \in MainPCs,
         p \in Triangles => where \in TriPCs \ {"threshold", "thresholdRead", "bumping", "found"}
  PROVE  StuckInv'
<1>1. ThresholdHoldsMutex'
  <2>1. \A t \in Triangles : pc'[t] = "threshold" => pc[t] = "threshold"
    BY DEF Goto, StuckInv, Procs
  <2> QED BY <2>1 DEF StuckInv, ThresholdHoldsMutex
<1> QED BY <1>1, MoveStep

(* Lock succeeds at its first two sites only (engine.go:297 and 371): at   *)
(* the third (518) the caller holds the mutex.                             *)
LEMMA LockStep ==
  ASSUME StuckInv, NEW p \in Procs, Lock(p)
  PROVE  StuckInv'
<1>1. mu = Free /\ mu' = p
  BY DEF Lock
<1>2. \A t \in Triangles : pc[t] # "threshold"
  BY <1>1, LoopAssumption DEF StuckInv, ThresholdHoldsMutex
<1>3. \/ pc[p] = "refill" /\ Goto(p, "refilling") /\ p = Main
      \/ pc[p] = "bump" /\ Goto(p, "threshold") /\ p \in Triangles
  BY <1>2 DEF Lock, LockSite, StuckInv, MainPCs, TriPCs, Procs
<1>4. CASE pc[p] = "refill" /\ Goto(p, "refilling") /\ p = Main
  <2>1. ThresholdHoldsMutex'
    BY <1>2, <1>4, LoopAssumption DEF Goto, StuckInv, ThresholdHoldsMutex, Procs
  <2> QED BY <1>4, <2>1, MoveStep, LoopAssumption DEF MainPCs
<1>5. CASE pc[p] = "bump" /\ Goto(p, "threshold") /\ p \in Triangles
  <2>1. ThresholdHoldsMutex'
    BY <1>1, <1>2, <1>5 DEF Goto, StuckInv, ThresholdHoldsMutex, Procs
  <2> QED BY <1>5, <2>1, MoveStep, LoopAssumption DEF TriPCs
<1> QED BY <1>3, <1>4, <1>5

(* Only the loop itself ever gives the mutex back (engine.go:306).         *)
LEMMA UnlockStep ==
  ASSUME StuckInv, NEW p \in Procs, Unlock(p)
  PROVE  StuckInv'
<1>1. mu = p /\ pc[p] \in {"refilling", "thresholdRead", "bumping"} /\ Goto(p, UnlockSite[pc[p]])
  BY DEF Unlock, UnlockSite
<1>2. p = Main /\ pc[p] = "refilling"
  BY <1>1 DEF StuckInv, NothingIsFound, MainPCs, TriPCs, Procs
<1>3. Goto(p, "spawn")
  BY <1>1, <1>2 DEF UnlockSite
<1>4. \A t \in Triangles : pc[t] # "threshold"
  BY <1>1, <1>2, LoopAssumption DEF StuckInv, ThresholdHoldsMutex
<1>5. ThresholdHoldsMutex'
  BY <1>2, <1>3, <1>4, LoopAssumption DEF Goto, StuckInv, ThresholdHoldsMutex, Procs
<1> QED BY <1>2, <1>3, <1>5, MoveStep, LoopAssumption DEF MainPCs

(* Every step of the loop and of its goroutines keeps StuckInv             *)
(* (engine.go:287-463).                                                    *)
LEMMA StuckNext == StuckInv /\ [Next]_tickVars => StuckInv'
<1> SUFFICES ASSUME StuckInv, [Next]_tickVars PROVE StuckInv'
  OBVIOUS
<1> USE LoopAssumption
<1>0. Main \in Procs /\ (\A t \in Triangles : t \in Procs /\ t # Main)
  BY DEF Procs
<1>1. CASE Tick
  BY <1>0, <1>1, PlainStep DEF Tick, MainPCs
<1>2. CASE Stop
  BY <1>0, <1>2, PlainStep DEF Stop, MainPCs
<1>3. CASE Lock(Main) \/ Unlock(Main)
  BY <1>0, <1>3, LockStep, UnlockStep
<1>4. CASE AllSpawned
  BY <1>0, <1>4, PlainStep DEF AllSpawned, MainPCs
<1>5. CASE Wait
  BY <1>0, <1>5, PlainStep DEF Wait, MainPCs
<1>6. CASE CrossReturns
  BY <1>0, <1>6, PlainStep DEF CrossReturns, MainPCs
<1>7. CASE UNCHANGED tickVars \/ Cancel \/ Returned
  BY <1>7 DEF Cancel, Returned, tickVars, StuckInv, ThresholdHoldsMutex, NothingIsFound
<1>8. ASSUME NEW t \in Triangles, Spawn(t) PROVE StuckInv'
  BY <1>0, <1>8, PlainStep DEF Spawn, TriPCs
<1>9. ASSUME NEW t \in Triangles, Lock(t) \/ Unlock(t) PROVE StuckInv'
  BY <1>0, <1>9, LockStep, UnlockStep
<1>10. ASSUME NEW t \in Triangles, GetTickers(t) PROVE StuckInv'
  <2>1. PICK where \in {"leaving", "bump"} : Goto(t, where)
    BY <1>10 DEF GetTickers
  <2> QED BY <1>0, <1>10, <2>1, PlainStep DEF GetTickers, TriPCs
<1>11. ASSUME NEW t \in Triangles, Leave(t) PROVE StuckInv'
  BY <1>0, <1>11, PlainStep DEF Leave, TriPCs
<1>12. ASSUME NEW t \in Triangles, CountDown(t) PROVE StuckInv'
  BY <1>0, <1>12, PlainStep DEF CountDown, TriPCs
<1> QED BY <1>1, <1>2, <1>3, <1>4, <1>5, <1>6, <1>7, <1>8, <1>9, <1>10, <1>11, <1>12
        DEF Next, MainStep, TriStep

(* Whatever the interleaving, a goroutine that has come to                 *)
(* dynamicMinNetBps holds e.mu already (engine.go:371, 377 and 518).       *)
THEOREM CallerHoldsMutex == Spec => []ThresholdHoldsMutex
<1>1. StuckInv => ThresholdHoldsMutex
  BY DEF StuckInv
<1> QED BY <1>1, StuckInit, StuckNext, PTL DEF Spec

(* So no triangle ever passes the threshold, and none is attempted         *)
(* (engine.go:377-400).                                                    *)
THEOREM NoTriangleIsAttempted == Spec => []NothingIsFound
<1>1. StuckInv => NothingIsFound
  BY DEF StuckInv
<1> QED BY <1>1, StuckInit, StuckNext, PTL DEF Spec

-----------------------------------------------------------------------------
(* A step of the worker is a step of the loop or leaves its variables      *)
(* alone, and the same goes for the scan (engine.go:284-463).              *)
LEMMA StepOfParts == [RunNext]_runVars => [Next]_tickVars /\ [ScanNext]_scanVars
<1> SUFFICES ASSUME [RunNext]_runVars PROVE [Next]_tickVars /\ [ScanNext]_scanVars
  OBVIOUS
<1>1. CASE InLoop(LoopStep) \/ InLoop(Cancel) \/ InLoop(Returned)
  BY <1>1 DEF InLoop, LoopStep, Next, MainStep
<1>2. ASSUME NEW t \in Triangles, InLoop(Spawn(t)) \/ InLoop(TriStep(t))
      PROVE  [Next]_tickVars /\ [ScanNext]_scanVars
  BY <1>2 DEF InLoop, Next
<1>3. CASE InScan(SpawnJob) \/ InScan(AllJobsSpawned) \/ InScan(ReturnScan)
  BY <1>3 DEF InScan, ScanNext
<1>4. ASSUME NEW j \in Jobs, InScan(JobStep(j)) PROVE [Next]_tickVars /\ [ScanNext]_scanVars
  BY <1>4 DEF InScan, JobStep, ScanNext
<1>5. CASE CrossCall
  BY <1>5 DEF CrossCall, Next, MainStep, ScanNext
<1>6. CASE UNCHANGED runVars
  BY <1>6 DEF runVars, tickVars, scanVars
<1> QED BY <1>1, <1>2, <1>3, <1>4, <1>5, <1>6 DEF RunNext

(* The worker's loop is the loop of TickLoop, and its scan the scan of     *)
(* CrossScan (engine.go:284-463, cross.go:16-78).                          *)
THEOREM WorkerHasBothParts == RunSpec => Spec /\ ScanSpec
BY StepOfParts, PTL DEF RunSpec, RunInit, Spec, ScanSpec

(* So in the whole worker, too, no triangle ever passes the threshold      *)
(* (engine.go:377).                                                        *)
THEOREM WorkerAttemptsNoTriangle == RunSpec => []NothingIsFound
BY WorkerHasBothParts, NoTriangleIsAttempted, PTL

(* ... and its cross-exchange scans keep the promise of ScanPromise        *)
(* (cross.go:16-78).                                                       *)
THEOREM WorkerKeepsPromise == RunSpec => KeepsPromise
BY WorkerHasBothParts, PoolImplementsPromise, PTL
-----------------------------------------------------------------------------
(* The triangle goroutines that have not counted down.                     *)
Busy == {t \in Triangles : pc[t] # "idle"}

BusyInv ==
  /\ StuckInv
  /\ wg = Cardinality(Busy)
  /\ Busy \subseteq started
  /\ pc[Main] \notin {"spawn", "wait"} => Busy = {}

(* The goroutines not counted down are finitely many (engine.go:312).      *)
LEMMA BusyFinite == Busy \in SUBSET Triangles /\ IsFiniteSet(Busy) /\ Cardinality(Busy) \in Nat
<1>1. Busy \in SUBSET Triangles
  BY DEF Busy
<1> QED BY <1>1, LoopAssumption, FS_Subset, FS_CardinalityType

(* At the start nothing is counted (engine.go:284-286).                    *)
LEMMA BusyInit == Init => BusyInv
<1> SUFFICES ASSUME Init PROVE BusyInv
  OBVIOUS
<1>1. Busy = {}
  BY LoopAssumption DEF Init, Busy
<1>2. Cardinality(Busy) = 0
  BY <1>1, FS_EmptySet
<1> QED BY <1>1, <1>2, StuckInit DEF BusyInv, Init

(* A step that moves the loop leaves the goroutines where they are.        *)
LEMMA MainMoves ==
  ASSUME BusyInv, StuckInv', NEW where, Goto(Main, where), wg' = wg,
         started' = started \/ Busy = {},
         where \notin {"spawn", "wait"} => Busy = {}
  PROVE  BusyInv'
<1>1. /\ \A t \in Triangles : pc'[t] = pc[t]
      /\ pc'[Main] = where
  BY LoopAssumption DEF Goto, BusyInv, StuckInv, Procs
<1>2. Busy' = Busy
  BY <1>1 DEF Busy
<1> QED BY <1>1, <1>2 DEF BusyInv

(* A goroutine that goes on between its start and its CountDown stays      *)
(* counted.                                                                *)
LEMMA BusyMoves ==
  ASSUME BusyInv, StuckInv', NEW t \in Triangles, NEW where, Goto(t, where), wg' = wg, started' = started,
         pc[t] # "idle", where # "idle"
  PROVE  BusyInv'
<1>1. /\ pc'[Main] = pc[Main]
      /\ \A u \in Triangles : pc'[u] # "idle" <=> pc[u] # "idle"
  BY LoopAssumption DEF Goto, BusyInv, StuckInv, Procs
<1>2. Busy' = Busy
  BY <1>1 DEF Busy
<1> QED BY <1>1, <1>2 DEF BusyInv

(* wg.Add(1) counts the goroutine that is started (engine.go:317).         *)
LEMMA SpawnCounts == ASSUME BusyInv, StuckInv', NEW t \in Triangles, Spawn(t) PROVE BusyInv'
<1>1. /\ pc'[Main] = pc[Main] /\ pc'[t] = "tickers" /\ pc[Main] = "spawn"
      /\ \A u \in Triangles : u # t => pc'[u] = pc[u]
  BY LoopAssumption DEF Spawn, Goto, BusyInv, StuckInv, Procs
<1>2. Busy' = Busy \cup {t} /\ t \notin Busy /\ started' = started \cup {t}
  BY <1>1 DEF Busy, BusyInv, Spawn
<1>3. Cardinality(Busy)' = Cardinality(Busy) + 1
  BY <1>2, BusyFinite, FS_AddElement
<1> QED BY <1>1, <1>2, <1>3 DEF BusyInv, Spawn

(* wg.Done() counts down the goroutine that ends (engine.go:320).          *)
LEMMA DoneCounts == ASSUME BusyInv, StuckInv', NEW t \in Triangles, CountDown(t) PROVE BusyInv'
<1>1. /\ pc'[Main] = pc[Main] /\ pc'[t] = "idle" /\ pc[t] # "idle"
      /\ \A u \in Triangles : u # t => pc'[u] = pc[u]
  BY LoopAssumption DEF CountDown, Goto, BusyInv, StuckInv, Procs
<1>2. Busy' = Busy \ {t} /\ t \in Busy
  BY <1>1 DEF Busy
<1>3. Cardinality(Busy)' = Cardinality(Busy) - 1
  BY <1>2, BusyFinite, FS_RemoveElement
<1> QED BY <1>1, <1>2, <1>3 DEF BusyInv, CountDown

(* Every step of the loop and its goroutines keeps the count               *)
(* (engine.go:287-463).                                                    *)
LEMMA BusyNext == BusyInv /\ [Next]_tickVars => BusyInv'
<1> SUFFICES ASSUME BusyInv, [Next]_tickVars PROVE BusyInv'
  OBVIOUS
<1>0. StuckInv' /\ (\A t \in Triangles : pc[t] \in TriPCs) /\ pc[Main] \in MainPCs
  BY StuckNext DEF BusyInv, StuckInv
<1>1. CASE Tick
  BY <1>0, <1>1, MainMoves DEF Tick, BusyInv
<1>2. CASE Stop
  BY <1>0, <1>2, MainMoves DEF Stop, BusyInv
<1>3. CASE Lock(Main) \/ Unlock(Main)
  <2>1. /\ Goto(Main, "refilling") \/ Goto(Main, "spawn")
        /\ pc[Main] \in {"refill", "refilling"}
    BY <1>0, <1>3 DEF Lock, Unlock, LockSite, UnlockSite, MainPCs
  <2> QED BY <1>0, <1>3, <2>1, MainMoves DEF Lock, Unlock, BusyInv
<1>4. CASE AllSpawned
  BY <1>0, <1>4, MainMoves DEF AllSpawned, BusyInv
<1>5. CASE Wait
  <2>1. Busy = {}
    BY <1>5, BusyFinite, FS_EmptySet DEF Wait, BusyInv
  <2> QED BY <1>0, <1>5, <2>1, MainMoves DEF Wait, BusyInv
<1>6. CASE CrossReturns
  BY <1>0, <1>6, MainMoves DEF CrossReturns, BusyInv
<1>7. CASE UNCHANGED tickVars \/ Cancel \/ Returned
  BY <1>0, <1>7 DEF Cancel, Returned, tickVars, BusyInv, Busy
<1>8. ASSUME NEW t \in Triangles, Spawn(t) PROVE BusyInv'
  BY <1>0, <1>8, SpawnCounts
<1>9. ASSUME NEW t \in Triangles, Lock(t) \/ Unlock(t) PROVE BusyInv'
  <2>1. PICK where \in {"threshold", "thresholdRead", "bumping", "found", "refilling", "spawn"} :
           Goto(t, where) /\ pc[t] # "idle" /\ wg' = wg /\ started' = started
    BY <1>0, <1>9 DEF Lock, Unlock, LockSite, UnlockSite, TriPCs
  <2> QED BY <1>0, <2>1, BusyMoves
<1>10. ASSUME NEW t \in Triangles, GetTickers(t) PROVE BusyInv'
  <2>1. PICK where \in {"leaving", "bump"} : Goto(t, where)
    BY <1>10 DEF GetTickers
  <2> QED BY <1>0, <1>10, <2>1, BusyMoves DEF GetTickers
<1>11. ASSUME NEW t \in Triangles, Leave(t) PROVE BusyInv'
  BY <1>0, <1>11, BusyMoves DEF Leave
<1>12. ASSUME NEW t \in Triangles, CountDown(t) PROVE BusyInv'
  BY <1>0, <1>12, DoneCounts
<1> QED BY <1>1, <1>2, <1>3, <1>4, <1>5, <1>6, <1>7, <1>8, <1>9, <1>10, <1>11, <1>12
        DEF Next, MainStep, TriStep

-----------------------------------------------------------------------------
(* While the loop is elsewhere, no job of the scan has been started.       *)
QuietInv == ScanTypeOK /\ (pc[Main] # "cross" => \A j \in Jobs : at[j] = "new")

TurnInv == BusyInv /\ PoolInv /\ QuietInv

(* At the start neither scan is under way (engine.go:284-286).             *)
LEMMA TurnInit == RunInit => TurnInv
<1> SUFFICES ASSUME RunInit PROVE TurnInv
  OBVIOUS
<1>1. BusyInv /\ PoolInv
  BY BusyInit, PoolInvInit DEF RunInit
<1> QED BY <1>1 DEF TurnInv, QuietInv, PoolInv, RunInit, ScanInit

(* The scan moves only while the loop waits for it, and is taken down      *)
(* before the loop goes on (engine.go:461).                                *)
LEMMA TurnNext == TurnInv /\ [RunNext]_runVars => TurnInv'
<1> SUFFICES ASSUME TurnInv, [RunNext]_runVars PROVE TurnInv'
  OBVIOUS
<1>1. BusyInv' /\ PoolInv'
  <2>1. PoolInv /\ [ScanNext]_scanVars => PoolInv'
    BY SpawnStep, EndBodyStep, ReleaseStep, ReceiveStep, CollectorStep DEF ScanNext
  <2> QED BY <2>1, StepOfParts, BusyNext DEF TurnInv
<1>2. pc'[Main] # "cross" => \A j \in Jobs : at'[j] = "new"
  <2>1. CASE UNCHANGED scanVars /\ pc[Main] # "cross"
    BY <2>1 DEF TurnInv, QuietInv, scanVars
  <2>2. CASE UNCHANGED tickVars /\ pc[Main] = "cross"
    BY <2>2 DEF tickVars
  <2>3. CASE UNCHANGED scanVars /\ pc'[Main] = pc[Main]
    BY <2>3 DEF TurnInv, QuietInv, scanVars
  <2>4. CASE CrossCall
    BY <2>4 DEF CrossCall, NextScan
  <2>5. CASE InLoop(LoopStep)
    BY <2>1, <2>5 DEF InLoop, LoopStep, Tick, Stop, Lock, Unlock, AllSpawned, Wait, LockSite, UnlockSite
  <2>6. CASE InLoop(Cancel) \/ InLoop(Returned) \/ UNCHANGED runVars
    BY <2>3, <2>6 DEF InLoop, Cancel, Returned, runVars, tickVars, scanVars
  <2>7. ASSUME NEW t \in Triangles, InLoop(Spawn(t)) \/ InLoop(TriStep(t))
        PROVE  pc'[Main] # "cross" => \A j \in Jobs : at'[j] = "new"
    <3>1. PICK where : Goto(t, where)
      BY <2>7 DEF InLoop, Spawn, TriStep, Lock, Unlock, GetTickers, Leave, CountDown
    <3>2. pc'[Main] = pc[Main]
      BY <3>1, LoopAssumption DEF Goto
    <3> QED BY <2>3, <2>7, <3>2 DEF InLoop
  <2>8. CASE InScan(SpawnJob) \/ InScan(AllJobsSpawned) \/ InScan(ReturnScan) \/ \E j \in Jobs : InScan(JobStep(j))
    BY <2>2, <2>8 DEF InScan
  <2> QED BY <2>4, <2>5, <2>6, <2>7, <2>8 DEF RunNext
<1> QED BY <1>1, <1>2 DEF TurnInv, QuietInv, PoolInv

(* The two scans of the worker take turns, for any number of triangles and *)
(* jobs (engine.go:458-461).                                               *)
THEOREM TurnsAreTaken == RunSpec => []ScansTakeTurns
<1>1. TurnInv => ScansTakeTurns
  <2> SUFFICES ASSUME TurnInv, Running # {} PROVE pc[Main] = "cross" /\ \A t \in Triangles : pc[t] = "idle"
    BY DEF ScansTakeTurns
  <2>1. pc[Main] = "cross"
    BY DEF TurnInv, QuietInv, Running
  <2> QED BY <2>1 DEF TurnInv, BusyInv, Busy
<1> QED BY <1>1, TurnInit, TurnNext, PTL DEF RunSpec
-----------------------------------------------------------------------------
(* The slots of the pool: one for every goroutine between its start and    *)
(* the deferred function that gives the slot back.                         *)
Out  == {"idle", "wgDone"}
Held == {t \in Triangles : pc[t] \notin Out}

HeldInv == BusyInv /\ TypeOK /\ sem = Cardinality(Held)

(* The slots taken are finitely many (engine.go:312-320).                  *)
LEMMA HeldFinite == IsFiniteSet(Held) /\ Cardinality(Held) \in Nat
<1>1. Held \in SUBSET Triangles
  BY DEF Held
<1> QED BY <1>1, LoopAssumption, FS_Subset, FS_CardinalityType

(* What a step keeps of the types when it says what it does to the slots.  *)
LEMMA HeldParts ==
  ASSUME HeldInv, BusyInv', mu' \in {Free, Main} \cup Triangles, started' \in SUBSET Triangles,
         cancelled' \in BOOLEAN, sem' \in 0..Capacity, sem' = Cardinality(Held)'
  PROVE  HeldInv'
<1>1. IsFiniteSet(Busy') /\ Busy' \in SUBSET Triangles
  BY LoopAssumption, FS_Subset DEF Busy
<1>2. wg' \in Nat
  BY <1>1, FS_CardinalityType DEF BusyInv
<1> QED BY <1>2 DEF HeldInv, TypeOK, BusyInv, StuckInv, Procs

(* A step that takes no slot and gives none back.                          *)
LEMMA HeldStays ==
  ASSUME HeldInv, BusyInv', UNCHANGED <<sem, cancelled>>, mu' \in {Free, Main} \cup Triangles,
         started' \in SUBSET Triangles, \A t \in Triangles : pc'[t] \in Out <=> pc[t] \in Out
  PROVE  HeldInv'
<1>1. Held' = Held
  BY DEF Held
<1> QED BY <1>1, HeldParts DEF HeldInv, TypeOK

(* A goroutine is started only when its slot is free (engine.go:312-317).  *)
LEMMA SpawnHolds == ASSUME HeldInv, BusyInv', NEW t \in Triangles, Spawn(t) PROVE HeldInv'
<1>1. /\ pc'[t] = "tickers" /\ pc[t] = "idle" /\ sem' = sem + 1 /\ sem < Capacity
      /\ \A u \in Triangles : u # t => pc'[u] = pc[u]
  BY LoopAssumption DEF Spawn, Goto, HeldInv, BusyInv, Busy, StuckInv, Procs
<1>2. Held' = Held \cup {t} /\ t \notin Held
  BY <1>1 DEF Held, Out
<1>3. Cardinality(Held)' = Cardinality(Held) + 1
  BY <1>2, HeldFinite, FS_AddElement
<1>4. sem + 1 \in 0..Capacity
  BY <1>1, LoopAssumption DEF HeldInv, TypeOK
<1>5. sem' \in 0..Capacity /\ sem' = Cardinality(Held)'
  BY <1>1, <1>3, <1>4 DEF HeldInv
<1> QED BY <1>5, HeldParts DEF Spawn, HeldInv, TypeOK

(* The deferred function gives the slot back (engine.go:319-320).          *)
LEMMA LeaveReleases == ASSUME HeldInv, BusyInv', NEW t \in Triangles, Leave(t) PROVE HeldInv'
<1>1. /\ pc'[t] = "wgDone" /\ pc[t] \notin Out /\ sem' = sem - 1
      /\ \A u \in Triangles : u # t => pc'[u] = pc[u]
  BY LoopAssumption DEF Leave, Goto, HeldInv, BusyInv, StuckInv, Procs, Out
<1>2. Held' = Held \ {t} /\ t \in Held
  BY <1>1 DEF Held, Out
<1>3. Cardinality(Held)' = Cardinality(Held) - 1
  BY <1>2, HeldFinite, FS_RemoveElement
<1>4. Cardinality(Held) # 0
  BY <1>2, HeldFinite, FS_EmptySet
<1>5. sem - 1 \in 0..Capacity
  BY <1>4, HeldFinite, LoopAssumption DEF HeldInv, TypeOK
<1>6. sem' \in 0..Capacity /\ sem' = Cardinality(Held)'
  BY <1>1, <1>3, <1>5 DEF HeldInv
<1> QED BY <1>6, HeldParts DEF Leave, HeldInv, TypeOK

(* Every step of the loop and its goroutines keeps types and slots         *)
(* (engine.go:287-463).                                                    *)
LEMMA HeldNext == HeldInv /\ [Next]_tickVars => HeldInv'
<1> SUFFICES ASSUME HeldInv, [Next]_tickVars PROVE HeldInv'
  OBVIOUS
<1>0. /\ BusyInv' /\ (\A t \in Triangles : pc[t] \in TriPCs) /\ pc \in [Procs -> MainPCs \cup TriPCs]
      /\ mu \in {Free, Main} \cup Triangles /\ started \in SUBSET Triangles
  BY BusyNext DEF HeldInv, BusyInv, StuckInv, TypeOK
<1>1. ASSUME NEW where, Goto(Main, where), UNCHANGED <<sem, cancelled>>,
             mu' \in {mu, Free, Main}, started' \in {started, {}}
      PROVE  HeldInv'
  <2>1. \A t \in Triangles : pc'[t] = pc[t]
    BY <1>0, <1>1, LoopAssumption DEF Goto, Procs
  <2> QED BY <1>0, <1>1, <2>1, HeldStays
<1>2. ASSUME NEW t \in Triangles, NEW where, Goto(t, where), UNCHANGED <<sem, cancelled, started>>,
             mu' \in {mu, Free, t}, where \in Out <=> pc[t] \in Out
      PROVE  HeldInv'
  <2>1. \A u \in Triangles : pc'[u] \in Out <=> pc[u] \in Out
    BY <1>0, <1>2, LoopAssumption DEF Goto, Procs
  <2> QED BY <1>0, <1>2, <2>1, HeldStays
<1>3. CASE Tick \/ Stop \/ AllSpawned \/ Wait \/ CrossReturns
  BY <1>1, <1>3 DEF Tick, Stop, AllSpawned, Wait, CrossReturns
<1>4. CASE Lock(Main) \/ Unlock(Main)
  BY <1>1, <1>4 DEF Lock, Unlock
<1>5. CASE Cancel
  <2>1. Held' = Held
    BY <1>5 DEF Cancel, Held
  <2> QED BY <1>0, <1>5, <2>1, HeldParts DEF Cancel, HeldInv, TypeOK
<1>6. CASE UNCHANGED tickVars \/ Returned
  BY <1>0, <1>6, HeldStays DEF Returned, tickVars, HeldInv, TypeOK
<1>7. ASSUME NEW t \in Triangles, Spawn(t) \/ TriStep(t) PROVE HeldInv'
  <2>1. CASE Lock(t)
    <3>1. Goto(t, LockSite[pc[t]]) /\ LockSite[pc[t]] \notin Out /\ pc[t] \notin Out
      BY <2>1 DEF Lock, LockSite, Out
    <3> QED BY <1>2, <2>1, <3>1 DEF Lock
  <2>2. CASE Unlock(t)
    <3>1. Goto(t, UnlockSite[pc[t]]) /\ UnlockSite[pc[t]] \notin Out /\ pc[t] \notin Out
      BY <2>2 DEF Unlock, UnlockSite, Out
    <3> QED BY <1>2, <2>2, <3>1 DEF Unlock
  <2>3. CASE GetTickers(t)
    <3>1. PICK where \in {"leaving", "bump"} : Goto(t, where)
      BY <2>3 DEF GetTickers
    <3> QED BY <1>2, <2>3, <3>1 DEF GetTickers, Out
  <2>4. CASE CountDown(t)
    BY <1>2, <2>4 DEF CountDown, Out
  <2> QED BY <1>0, <1>7, <2>1, <2>2, <2>3, <2>4, SpawnHolds, LeaveReleases DEF TriStep
<1> QED BY <1>3, <1>4, <1>5, <1>6, <1>7 DEF Next, MainStep

(* Every variable of the worker keeps to its type: the pool never has more *)
(* goroutines than slots, and the wait group never goes below zero         *)
(* (engine.go:312-320, cross.go:16-78).                                    *)
THEOREM WorkerTypeCorrect == RunSpec => []RunTypeOK
<1>1. RunInit => HeldInv /\ PoolInv
  <2> SUFFICES ASSUME RunInit PROVE HeldInv /\ PoolInv
    OBVIOUS
  <2>1. Init /\ PoolInv
    BY PoolInvInit DEF RunInit
  <2>2. BusyInv
    BY <2>1, BusyInit
  <2>3. Held = {} /\ Cardinality(Held) = 0
    <3>1. Held = {}
      BY <2>1, LoopAssumption DEF Init, Held, Out
    <3> QED BY <3>1, FS_EmptySet
  <2>4. TypeOK
    <3>1. mu = Free /\ sem = 0 /\ wg = 0 /\ started = {} /\ cancelled = FALSE
      BY <2>1 DEF Init
    <3>2. 0 \in 0..Capacity
      BY LoopAssumption
    <3>3. pc \in [{Main} \cup Triangles -> MainPCs \cup TriPCs]
      BY <2>2 DEF BusyInv, StuckInv, Procs
    <3> QED BY <3>1, <3>2, <3>3 DEF TypeOK
  <2> QED BY <2>1, <2>2, <2>3, <2>4 DEF HeldInv, Init
<1>2. HeldInv /\ PoolInv /\ [RunNext]_runVars => HeldInv' /\ PoolInv'
  <2>1. PoolInv /\ [ScanNext]_scanVars => PoolInv'
    BY SpawnStep, EndBodyStep, ReleaseStep, ReceiveStep, CollectorStep DEF ScanNext
  <2> QED BY <2>1, StepOfParts, HeldNext
<1>3. HeldInv /\ PoolInv => RunTypeOK
  BY DEF HeldInv, PoolInv, RunTypeOK
<1> QED BY <1>1, <1>2, <1>3, PTL DEF RunSpec
=============================================================================
