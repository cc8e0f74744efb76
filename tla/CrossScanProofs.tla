-------------------------- MODULE CrossScanProofs --------------------------
(***************************************************************************)
(* Proofs about the worker pool of scanCrossTick, for any number of jobs   *)
(* and any capacity.  The invariant counts: the elements in sem are the    *)
(* goroutines that hold a slot, and the messages received are the          *)
(* goroutines that have ended.                                             *)
(***************************************************************************)
EXTENDS CrossScan, FiniteSetTheorems, TLAPS

EndedJobs == {j \in Jobs : at[j] = "ended"}

PoolInv ==
  /\ ScanTypeOK
  /\ \A j \in Jobs : at[j] = "new" <=> j > spawned
  /\ crossSem = Cardinality(Running)
  /\ received = Cardinality(EndedJobs)
  /\ collector # "spawning" => spawned = NumJobs
  /\ collector = "returned" => received = NumJobs

-----------------------------------------------------------------------------
(* The jobs are a finite set of NumJobs elements, and so are its subsets.  *)
LEMMA JobsFinite ==
  /\ IsFiniteSet(Jobs) /\ Cardinality(Jobs) = NumJobs
  /\ \A S \in SUBSET Jobs : IsFiniteSet(S) /\ Cardinality(S) \in Nat
<1>1. IsFiniteSet(Jobs) /\ Cardinality(Jobs) = NumJobs
  BY FS_Interval, PoolAssumption DEF Jobs
<1>2. \A S \in SUBSET Jobs : IsFiniteSet(S)
  BY <1>1, FS_Subset
<1> QED BY <1>1, <1>2, FS_CardinalityType

(* A job that leaves a set of jobs lowers its size by one, a job that      *)
(* enters it raises it by one.                                             *)
LEMMA OneJob ==
  ASSUME NEW S \in SUBSET Jobs, NEW j \in Jobs
  PROVE  /\ j \in S => Cardinality(S \ {j}) = Cardinality(S) - 1
         /\ j \notin S => Cardinality(S \cup {j}) = Cardinality(S) + 1
<1>1. IsFiniteSet(S)
  BY JobsFinite
<1> QED BY <1>1, FS_AddElement, FS_RemoveElement

LEMMA PoolInvInit == ScanInit => PoolInv
<1> SUFFICES ASSUME ScanInit PROVE PoolInv
  OBVIOUS
<1>1. Running = {} /\ EndedJobs = {}
  BY DEF ScanInit, Running, EndedJobs
<1>2. Cardinality(Running) = 0 /\ Cardinality(EndedJobs) = 0
  BY <1>1, FS_EmptySet
<1>3. ScanTypeOK
  BY PoolAssumption DEF ScanInit, ScanTypeOK, JobPCs, Jobs
<1> QED BY <1>2, <1>3 DEF ScanInit, PoolInv, Jobs

(* Starting a goroutine puts one element into crossSem and one job into Running. *)
LEMMA SpawnStep == ASSUME PoolInv, SpawnJob PROVE PoolInv'
<1> DEFINE k == spawned + 1
<1>1. k \in Jobs /\ at[k] = "new" /\ at' = [at EXCEPT ![k] = "body"]
  BY PoolAssumption DEF PoolInv, ScanTypeOK, SpawnJob, Jobs
<1>2. ScanTypeOK'
  BY <1>1, PoolAssumption DEF PoolInv, ScanTypeOK, SpawnJob, SlotFree, JobPCs, Jobs
<1>3. Running' = Running \cup {k} /\ k \notin Running /\ EndedJobs' = EndedJobs
  BY <1>1 DEF PoolInv, ScanTypeOK, Running, EndedJobs
<1>4. crossSem' = Cardinality(Running)'
  <2>1. Running \in SUBSET Jobs
    BY DEF Running
  <2> QED BY <1>1, <1>3, <2>1, OneJob DEF PoolInv, SpawnJob
<1>5. \A j \in Jobs : at'[j] = "new" <=> j > spawned'
  BY <1>1 DEF PoolInv, ScanTypeOK, SpawnJob, Jobs
<1> QED BY <1>2, <1>3, <1>4, <1>5 DEF PoolInv, SpawnJob

(* The end of a body moves a job that keeps its slot.                      *)
LEMMA EndBodyStep == ASSUME PoolInv, NEW j \in Jobs, EndBody(j) PROVE PoolInv'
<1>1. at' = [at EXCEPT ![j] = "release"] /\ at[j] = "body"
  BY DEF EndBody, After
<1>2. ScanTypeOK'
  BY <1>1 DEF PoolInv, ScanTypeOK, EndBody, JobPCs
<1>3. Running' = Running /\ EndedJobs' = EndedJobs
  BY <1>1 DEF PoolInv, ScanTypeOK, Running, EndedJobs
<1>4. \A i \in Jobs : at'[i] = "new" <=> i > spawned'
  BY <1>1 DEF PoolInv, ScanTypeOK, EndBody
<1> QED BY <1>2, <1>3, <1>4 DEF PoolInv, EndBody

(* Giving the slot back takes the job out of Running.                      *)
LEMMA ReleaseStep == ASSUME PoolInv, NEW j \in Jobs, Release(j) PROVE PoolInv'
<1>1. at' = [at EXCEPT ![j] = "send"] /\ at[j] = "release"
  BY DEF Release, After
<1>2. ScanTypeOK'
  <2>1. crossSem' \in 0..CrossCapacity
    BY PoolAssumption DEF PoolInv, ScanTypeOK, Release
  <2> QED BY <1>1, <2>1 DEF PoolInv, ScanTypeOK, Release, JobPCs
<1>3. Running' = Running \ {j} /\ j \in Running /\ EndedJobs' = EndedJobs
  BY <1>1 DEF PoolInv, ScanTypeOK, Running, EndedJobs
<1>4. crossSem' = Cardinality(Running)'
  <2>1. Running \in SUBSET Jobs
    BY DEF Running
  <2> QED BY <1>3, <2>1, OneJob DEF PoolInv, Release
<1>5. \A i \in Jobs : at'[i] = "new" <=> i > spawned'
  BY <1>1 DEF PoolInv, ScanTypeOK, Release
<1> QED BY <1>2, <1>3, <1>4, <1>5 DEF PoolInv, Release

(* A message received is a job ended.                                      *)
LEMMA ReceiveStep == ASSUME PoolInv, NEW j \in Jobs, Receive(j) PROVE PoolInv'
<1>1. at' = [at EXCEPT ![j] = "ended"] /\ at[j] = "send"
  BY DEF Receive, After
<1>2. ScanTypeOK'
  BY <1>1 DEF PoolInv, ScanTypeOK, Receive, JobPCs
<1>3. Running' = Running /\ EndedJobs' = EndedJobs \cup {j} /\ j \notin EndedJobs
  BY <1>1 DEF PoolInv, ScanTypeOK, Running, EndedJobs
<1>4. received' = Cardinality(EndedJobs)'
  <2>1. EndedJobs \in SUBSET Jobs
    BY DEF EndedJobs
  <2> QED BY <1>3, <2>1, OneJob DEF PoolInv, Receive
<1>5. \A i \in Jobs : at'[i] = "new" <=> i > spawned'
  BY <1>1 DEF PoolInv, ScanTypeOK, Receive
<1> QED BY <1>2, <1>3, <1>4, <1>5 DEF PoolInv, Receive

(* The collector's own steps.                                              *)
LEMMA CollectorStep ==
  ASSUME PoolInv, AllJobsSpawned \/ ReturnScan \/ NextScan \/ UNCHANGED scanVars PROVE PoolInv'
<1>1. CASE AllJobsSpawned
  BY <1>1 DEF PoolInv, ScanTypeOK, AllJobsSpawned, Running, EndedJobs
<1>2. CASE ReturnScan
  BY <1>2 DEF PoolInv, ScanTypeOK, ReturnScan, Running, EndedJobs
<1>3. CASE NextScan
  <2>1. ScanInit'
    BY <1>3 DEF NextScan, ScanInit
  <2>2. Running' = {} /\ EndedJobs' = {}
    BY <1>3 DEF NextScan, Running, EndedJobs
  <2>3. Cardinality(Running)' = 0 /\ Cardinality(EndedJobs)' = 0
    BY <2>2, FS_EmptySet
  <2>4. ScanTypeOK'
    BY <1>3, PoolAssumption DEF NextScan, ScanTypeOK, JobPCs, Jobs
  <2> QED BY <1>3, <2>3, <2>4 DEF NextScan, PoolInv, Jobs
<1>4. CASE UNCHANGED scanVars
  BY <1>4 DEF scanVars, PoolInv, ScanTypeOK, Running, EndedJobs
<1> QED BY <1>1, <1>2, <1>3, <1>4

(* The inductive invariant holds in every reachable state.                 *)
THEOREM PoolInvariant == ScanSpec => []PoolInv
<1>1. PoolInv /\ [ScanNext]_scanVars => PoolInv'
  BY SpawnStep, EndBodyStep, ReleaseStep, ReceiveStep, CollectorStep DEF ScanNext
<1> QED BY <1>1, PoolInvInit, PTL DEF ScanSpec

-----------------------------------------------------------------------------
(* The pool never runs more bodies than its capacity.                      *)
THEOREM PoolIsBounded == ScanSpec => []BoundedBodies
<1>1. PoolInv => BoundedBodies
  BY PoolAssumption DEF PoolInv, ScanTypeOK, BoundedBodies
<1> QED BY <1>1, PoolInvariant, PTL

(* When the scan returns, every goroutine it started has ended and no slot *)
(* is taken.                                                               *)
THEOREM ScanIsBarrier == ScanSpec => []NoJobOutlivesScan
<1>1. PoolInv => NoJobOutlivesScan
  <2> SUFFICES ASSUME PoolInv, collector = "returned"
               PROVE  crossSem = 0 /\ \A j \in Jobs : at[j] = "ended"
    BY DEF NoJobOutlivesScan
  <2>1. EndedJobs \in SUBSET Jobs /\ Cardinality(EndedJobs) = Cardinality(Jobs)
    BY JobsFinite DEF PoolInv, EndedJobs
  <2>2. EndedJobs = Jobs
    BY <2>1, JobsFinite, FS_Subset
  <2>3. Running = {}
    BY <2>2 DEF EndedJobs, Running
  <2>4. crossSem = 0
    BY <2>3, FS_EmptySet DEF PoolInv
  <2> QED BY <2>2, <2>4 DEF EndedJobs
<1> QED BY <1>1, PoolInvariant, PTL

(* A collector that waits for a slot waits for a goroutine that does not   *)
(* wait for it.                                                            *)
THEOREM SpawnNeverStuck == ScanSpec => []BlockedSpawnHasRunner
<1>1. PoolInv => BlockedSpawnHasRunner
  <2> SUFFICES ASSUME PoolInv, crossSem = CrossCapacity PROVE Running # {}
    BY DEF BlockedSpawnHasRunner, Running
  <2>1. Cardinality(Running) # 0
    BY PoolAssumption DEF PoolInv, ScanTypeOK
  <2> QED BY <2>1, FS_EmptySet
<1> QED BY <1>1, PoolInvariant, PTL
-----------------------------------------------------------------------------
(* Every variable of the scan keeps to its type (cross.go:16-78).          *)
THEOREM ScanTypeCorrect == ScanSpec => []ScanTypeOK
<1>1. PoolInv => ScanTypeOK
  BY DEF PoolInv
<1> QED BY <1>1, PoolInvariant, PTL

-----------------------------------------------------------------------------
(* The refinement: the jobs that have given their slot back.               *)
Done == {j \in Jobs : at[j] \in {"send", "ended"}}

(* Before the first goroutine nothing runs and nothing is finished.        *)
LEMMA PromiseInit == ScanInit => Pool!Init
BY DEF ScanInit, Pool!Init, Running

(* Starting a goroutine starts its job: the channel sem has a free slot    *)
(* only while fewer jobs than slots run (cross.go:44).                     *)
LEMMA PromiseStart == ASSUME PoolInv, SpawnJob PROVE Pool!Next
<1> DEFINE k == spawned + 1
<1>1. k \in Jobs /\ at[k] = "new" /\ at' = [at EXCEPT ![k] = "body"]
  BY PoolAssumption DEF PoolInv, ScanTypeOK, SpawnJob, Jobs
<1>2. Running' = Running \cup {k} /\ Done' = Done /\ k \notin Running \cup Done
  BY <1>1 DEF PoolInv, ScanTypeOK, Running, Done
<1>3. Cardinality(Running) < CrossCapacity
  BY DEF PoolInv, SpawnJob, SlotFree
<1>4. collector = "spawning" /\ collector' = "spawning"
  BY DEF SpawnJob
<1>5. Pool!Cardinality(Running) < CrossCapacity
  BY <1>3 DEF Cardinality, Pool!Cardinality
<1>6. Pool!Start(k)
  BY <1>2, <1>4, <1>5 DEF Pool!Start, Done
<1> QED BY <1>1, <1>6 DEF Pool!Next

(* Giving the slot back finishes the job (cross.go:46).                    *)
LEMMA PromiseFinish == ASSUME PoolInv, NEW j \in Jobs, Release(j) PROVE Pool!Next
<1>1. at' = [at EXCEPT ![j] = "send"] /\ at[j] = "release" /\ collector' = collector
  BY DEF Release, After
<1>2. Running' = Running \ {j} /\ j \in Running /\ Done' = Done \cup {j}
  BY <1>1 DEF PoolInv, ScanTypeOK, Running, Done
<1>3. Pool!Finish(j)
  BY <1>1, <1>2 DEF Pool!Finish, Done
<1> QED BY <1>3 DEF Pool!Next

(* The collector has received a message of every job when it returns, and  *)
(* a job that has sent its message is finished (cross.go:77).              *)
LEMMA PromiseReturn == ASSUME PoolInv, ReturnScan PROVE Pool!Next
<1>1. EndedJobs \in SUBSET Jobs /\ Cardinality(EndedJobs) = Cardinality(Jobs)
  BY JobsFinite DEF PoolInv, ReturnScan, EndedJobs
<1>2. EndedJobs = Jobs
  BY <1>1, JobsFinite, FS_Subset
<1>3. Done = Jobs
  BY <1>2 DEF EndedJobs, Done
<1>4. Running' = Running /\ Done' = Done
  BY DEF ReturnScan, Running, Done
<1>5. Pool!Return
  BY <1>3, <1>4 DEF Pool!Return, ReturnScan, Done
<1> QED BY <1>5 DEF Pool!Next

(* The other steps: the next call begins anew, and the rest changes        *)
(* nothing the caller can tell.                                            *)
LEMMA PromiseStutter ==
  ASSUME PoolInv, AllJobsSpawned \/ NextScan \/ UNCHANGED scanVars \/ (\E j \in Jobs : EndBody(j) \/ Receive(j))
  PROVE  Pool!Next \/ UNCHANGED Pool!promiseVars
<1>1. CASE AllJobsSpawned
  BY <1>1 DEF AllJobsSpawned, Pool!promiseVars, Running
<1>2. CASE NextScan
  <2>1. Running' = {} /\ Done' = {}
    BY <1>2 DEF NextScan, Running, Done
  <2>2. Pool!Again
    BY <1>2, <2>1 DEF NextScan, Pool!Again, Done
  <2> QED BY <2>2 DEF Pool!Next
<1>3. CASE UNCHANGED scanVars
  BY <1>3 DEF scanVars, Pool!promiseVars, Running
<1>4. ASSUME NEW j \in Jobs, EndBody(j) PROVE UNCHANGED Pool!promiseVars
  <2>1. at' = [at EXCEPT ![j] = "release"] /\ at[j] = "body" /\ collector' = collector
    BY <1>4 DEF EndBody, After
  <2>2. Running' = Running /\ Done' = Done
    BY <2>1 DEF PoolInv, ScanTypeOK, Running, Done
  <2> QED BY <2>1, <2>2 DEF Pool!promiseVars, Done
<1>5. ASSUME NEW j \in Jobs, Receive(j) PROVE UNCHANGED Pool!promiseVars
  <2>1. at' = [at EXCEPT ![j] = "ended"] /\ at[j] = "send" /\ collector' = collector
    BY <1>5 DEF Receive, After
  <2>2. Running' = Running /\ Done' = Done
    BY <2>1 DEF PoolInv, ScanTypeOK, Running, Done
  <2> QED BY <2>1, <2>2 DEF Pool!promiseVars, Done
<1> QED BY <1>1, <1>2, <1>3, <1>4, <1>5

(* For any number of jobs and slots, the pool of scanCrossTick with its    *)
(* two channels implements the promised scan (cross.go:16-78).             *)
THEOREM PoolImplementsPromise == ScanSpec => KeepsPromise
<1>1. PoolInv /\ [ScanNext]_scanVars => [Pool!Next]_Pool!promiseVars
  BY PromiseStart, PromiseFinish, PromiseReturn, PromiseStutter DEF ScanNext
<1> QED BY <1>1, PromiseInit, PoolInvariant, PTL DEF ScanSpec, Pool!Spec, KeepsPromise
=============================================================================
