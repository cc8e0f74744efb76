---------------------------- MODULE ScanPromise ----------------------------
(***************************************************************************)
(* What a scan over a set of jobs promises to the loop that calls it,      *)
(* without the channels and goroutines it is made of: every job is run     *)
(* once, at most Slots of them at a time, and the call returns after the   *)
(* last one (internal/arbitrage/cross.go:16-78, module CrossScan).         *)
(***************************************************************************)
EXTENDS Integers, FiniteSets

CONSTANTS
  Jobs,   \* the jobs of a scan
  Slots   \* how many may run at a time

VARIABLES
  running,   \* the jobs under way
  finished,  \* the jobs done
  returned   \* the call has returned

promiseVars == <<running, finished, returned>>

Init == running = {} /\ finished = {} /\ returned = FALSE

Start(j) ==
  /\ ~returned /\ j \notin running \cup finished
  /\ Cardinality(running) < Slots
  /\ running' = running \cup {j}
  /\ UNCHANGED <<finished, returned>>

Finish(j) ==
  /\ j \in running
  /\ running' = running \ {j}
  /\ finished' = finished \cup {j}
  /\ UNCHANGED returned

Return ==
  /\ ~returned /\ finished = Jobs
  /\ returned' = TRUE
  /\ UNCHANGED <<running, finished>>

(* The next call.                                                          *)
Again ==
  /\ returned
  /\ running' = {} /\ finished' = {} /\ returned' = FALSE

Next == Return \/ Again \/ \E j \in Jobs : Start(j) \/ Finish(j)

Spec == Init /\ [][Next]_promiseVars
=============================================================================
