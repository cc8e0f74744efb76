----------------------------- MODULE CrossScan -----------------------------
(***************************************************************************)
(* The worker pool of scanCrossTick (internal/arbitrage/cross.go:16-78):   *)
(* one goroutine per (pair, buy exchange, sell exchange), as many at a     *)
(* time as its buffered channel sem has slots, and a collector that        *)
(* receives one message per job on the unbuffered channel done.  The loop  *)
(* of Run calls it once per tick (module RunLoop), so a scan begins again  *)
(* after it has returned.                                                  *)
(***************************************************************************)
EXTENDS Integers, FiniteSets

CONSTANTS
  NumJobs,   \* len(jobs)
  CrossCapacity   \* cap(sem), 6 in the code

ASSUME PoolAssumption == NumJobs \in Nat /\ CrossCapacity \in Nat \ {0}

Jobs == 1..NumJobs

VARIABLES
  collector,  \* "spawning" (42-75), "waiting" (77) or "returned"
  spawned,    \* goroutines started
  received,   \* messages received on done
  crossSem,   \* elements in the channel sem of the scan
  at          \* per job: where its goroutine is

scanVars == <<collector, spawned, received, crossSem, at>>

(* A job holds its slot while its body runs and until the first deferred   *)
(* statement gives it back.                                                *)
JobPCs == {"new", "body", "release", "send", "ended"}

ScanTypeOK ==
  /\ collector \in {"spawning", "waiting", "returned"}
  /\ spawned \in 0..NumJobs /\ received \in 0..NumJobs
  /\ crossSem \in 0..CrossCapacity
  /\ at \in [Jobs -> JobPCs]

ScanInit ==
  /\ collector = "spawning"
  /\ spawned = 0 /\ received = 0 /\ crossSem = 0
  /\ at = [j \in Jobs |-> "new"]

-----------------------------------------------------------------------------
(* The order in which a goroutine goes through its deferred function.      *)
DoneFirst == [body |-> "send", send |-> "release", release |-> "ended"]  \* mutant
After     == [body |-> "release", release |-> "send", send |-> "ended"]

(* mutant: one slot too many *)
SlotOrOneMore == crossSem <= CrossCapacity
SlotFree      == crossSem < CrossCapacity

(* sem <- struct{}{}; go func() ...                                        *)
SpawnJob ==
  /\ collector = "spawning" /\ spawned < NumJobs
  /\ SlotFree
  /\ crossSem' = crossSem + 1
  /\ spawned' = spawned + 1
  /\ at' = [at EXCEPT ![spawned + 1] = "body"]
  /\ UNCHANGED <<collector, received>>

(* All jobs are started: the collector turns to done.                      *)
AllJobsSpawned ==
  /\ collector = "spawning" /\ spawned = NumJobs
  /\ collector' = "waiting"
  /\ UNCHANGED <<spawned, received, crossSem, at>>

(* The body ends, by one of its early returns or after tryExecuteCross:    *)
(* every adapter call it makes has a deadline.                             *)
EndBody(j) ==
  /\ at[j] = "body"
  /\ at' = [at EXCEPT ![j] = After.body]
  /\ UNCHANGED <<collector, spawned, received, crossSem>>

(* <-sem                                                                   *)
Release(j) ==
  /\ at[j] = "release" /\ crossSem > 0
  /\ crossSem' = crossSem - 1
  /\ at' = [at EXCEPT ![j] = After.release]
  /\ UNCHANGED <<collector, spawned, received>>

(* done <- struct{}{} meets <-done: nothing is buffered, so the sender goes *)
(* on only when the collector receives.                                     *)
Receive(j) ==
  /\ collector = "waiting" /\ received < NumJobs
  /\ at[j] = "send"
  /\ received' = received + 1
  /\ at' = [at EXCEPT ![j] = After.send]
  /\ UNCHANGED <<collector, spawned, crossSem>>

(* mutant: the loop stops one receive early *)
ReturnOneEarly ==
  /\ collector = "waiting" /\ received >= NumJobs - 1
  /\ collector' = "returned"
  /\ UNCHANGED <<spawned, received, crossSem, at>>

ReturnScan ==
  /\ collector = "waiting" /\ received = NumJobs
  /\ collector' = "returned"
  /\ UNCHANGED <<spawned, received, crossSem, at>>

(* The next tick: new channels, new jobs.                                  *)
NextScan ==
  /\ collector = "returned"
  /\ collector' = "spawning"
  /\ spawned' = 0 /\ received' = 0 /\ crossSem' = 0
  /\ at' = [j \in Jobs |-> "new"]

ScanNext ==
  \/ SpawnJob \/ AllJobsSpawned \/ ReturnScan \/ NextScan
  \/ \E j \in Jobs : EndBody(j) \/ Release(j) \/ Receive(j)

ScanSpec == ScanInit /\ [][ScanNext]_scanVars

-----------------------------------------------------------------------------
(* Properties                                                              *)

Running == {j \in Jobs : at[j] \in {"body", "release"}}

(* No more bodies than slots run at a time (cross.go:27-28 and 44-46).     *)
BoundedBodies == Cardinality(Running) <= CrossCapacity

(* A scan returns only after the goroutines it started are gone and sem is *)
(* empty again, so no body of one tick runs into the next (cross.go:77).   *)
NoJobOutlivesScan ==
  collector = "returned" => crossSem = 0 /\ \A j \in Jobs : at[j] = "ended"

(* While the collector waits for a slot, some goroutine that holds one is  *)
(* not waiting for the collector: what keeps the scan free of deadlock     *)
(* (cross.go:44 against the order of the two statements in 46).            *)
BlockedSpawnHasRunner ==
  collector = "spawning" /\ crossSem = CrossCapacity => \E j \in Jobs : at[j] \in {"body", "release"}

-----------------------------------------------------------------------------
(* What the pool promises its caller, whatever channels it uses: a job is  *)
(* finished, for the caller, when it has given its slot back.              *)
Pool == INSTANCE ScanPromise
          WITH Slots    <- CrossCapacity,
               running  <- Running,
               finished <- {j \in Jobs : at[j] \in {"send", "ended"}},
               returned <- collector = "returned"

(* The channels of scanCrossTick, its goroutines and their deferred        *)
(* functions implement the promised scan (cross.go:27-78).                 *)
KeepsPromise == Pool!Spec
=============================================================================
