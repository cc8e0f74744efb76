------------------------------- MODULE Process -------------------------------
(***************************************************************************)
(* The process (cmd/arbitrage/main.go): main itself, the goroutine of the  *)
(* HTTP server with the requests it has in hand, and the goroutine of the  *)
(* worker, which prepares its triangles (internal/arbitrage/engine.go:     *)
(* 73-194) and then goes through its ticks, with the attempts of module    *)
(* Attempt and the cross scan.  Nothing is kept over a restart, so a       *)
(* process that was started again is another behaviour of this module.     *)
(***************************************************************************)
EXTENDS Attempt

CONSTANTS
  Listings  \* the sets of symbols Bybit may list

VARIABLES
  main,     \* where main is
  ready,    \* health.ready
  request,  \* a request was in hand when the server was shut down, and still is
  signal,   \* SIGINT or SIGTERM has been sent
  worker,   \* "none", "startup", "loop"
  listed,   \* the symbols Bybit has listed; {} when it did not answer
  feed,     \* the symbols SubscribeSymbols was called with
  cross     \* the cross scan of this tick: "due", "over"

mainVars   == <<main, ready, request, signal>>
workerVars == <<worker, listed, feed, cross>>
vars       == <<attemptVars, mainVars, workerVars>>

Early == {"load", "work", "ready", "notify"}  \* until signal.Notify returns
Alive == main # "gone"

ProcessTypeOK ==
  /\ AttemptTypeOK
  /\ main \in Early \cup {"select", "shutdown", "draining", "gone"}
  /\ worker \in {"none", "startup", "loop"}
  /\ cross \in {"due", "over"}
  /\ {ready, request, signal} \subseteq BOOLEAN
  /\ feed \subseteq listed

(* engine.New: full tokens, empty maps.                                    *)
ProcessInit ==
  /\ deploy \in DOMAIN Deployments
  /\ scanned = <<>> /\ tick = 0
  /\ lane = [l \in Lanes |-> Lane("idle", FALSE)]
  /\ stats = [t \in Triangles |-> <<>>]
  /\ ban = [t \in Triangles |-> 0]
  /\ hard = FALSE /\ stopped = FALSE
  /\ tokens = Cfg["MAX_ORDERS_PER_MIN"]
  /\ slots = 0
  /\ main = "load" /\ ready = FALSE /\ request = FALSE /\ signal = FALSE
  /\ worker = "none" /\ listed = {} /\ feed = {} /\ cross = "over"

-----------------------------------------------------------------------------
(* main, in the order of its lines; what loadEnvFile and config.Load give  *)
(* is Cfg from here on.  The goroutine of the HTTP server tells main       *)
(* nothing, also when it cannot listen: all main meets of it are requests  *)
(* that are in hand when it shuts the server down.                         *)
MainGoes(from, to) == main = from /\ main' = to

ReadSettings ==
  /\ MainGoes("load", "work")
  /\ UNCHANGED <<ready, request, signal, attemptVars, workerVars>>

StartWorker ==
  /\ MainGoes("work", "ready") /\ worker' = "startup"
  /\ UNCHANGED <<ready, request, signal, attemptVars, listed, feed, cross>>

SetReady ==
  /\ MainGoes("ready", "notify") /\ ready' = TRUE
  /\ UNCHANGED <<request, signal, attemptVars, workerVars>>

Notify ==
  /\ MainGoes("notify", "select")
  /\ UNCHANGED <<ready, request, signal, attemptVars, workerVars>>

(* The signal, and SetReady(false).  The other two cases of the select     *)
(* never come: the context is cancelled by main's own return, and Run      *)
(* returns when the context is.                                            *)
Select ==
  /\ MainGoes("select", "shutdown") /\ signal /\ ready' = FALSE
  /\ UNCHANGED <<request, signal, attemptVars, workerVars>>

(* The server takes no further request.                                    *)
Shutdown ==
  /\ MainGoes("shutdown", "draining") /\ request' \in BOOLEAN
  /\ UNCHANGED <<ready, signal, attemptVars, workerVars>>

(* mutant: the shutdown has no time limit *)
DrainFully ==
  /\ MainGoes("draining", "gone") /\ ~request
  /\ UNCHANGED <<ready, request, signal, attemptVars, workerVars>>

(* When no request is in hand, or five seconds later; with main's return   *)
(* the process ends, wherever the worker is.                               *)
Drain ==
  /\ MainGoes("draining", "gone")
  /\ UNCHANGED <<ready, request, signal, attemptVars, workerVars>>

MainStep == ReadSettings \/ StartWorker \/ SetReady \/ Notify \/ Select \/ Shutdown \/ Drain

-----------------------------------------------------------------------------
(* Who sends the signal; until main has asked for it, it ends the process. *)
Signal ==
  /\ Alive /\ ~signal /\ signal' = TRUE
  /\ main' = IF main \in Early THEN "gone" ELSE main
  /\ UNCHANGED <<ready, request, attemptVars, workerVars>>

(* The handler of the request in hand ends.                                *)
Answer ==
  /\ Alive /\ request /\ request' = FALSE
  /\ UNCHANGED <<main, ready, signal, attemptVars, workerVars>>

-----------------------------------------------------------------------------
(* mutant: two of a triangle's symbols are looked up *)
MostlyListed(t, syms) == {t["AB"], t["BC"]} \subseteq syms

Listed(t, syms) == LegsOf(t) \subseteq syms
Named(t)        == "" \notin LegsOf(t)

(* What the loop over a list appends to a new one: its members in chosen.  *)
Filtered(list, chosen) ==
  FoldLeft(LAMBDA kept, t : IF t \in chosen THEN Append(kept, t) ELSE kept, <<>>, list)

(* With triangles that are listed, their steps are prefetched and their    *)
(* symbols subscribed to; without any, or without an answer, all that have *)
(* three names are scanned, and nothing is subscribed to.                  *)
Startup ==
  /\ Alive /\ worker = "startup" /\ worker' = "loop"
  /\ listed' \in Listings \cup {{}}
  /\ LET found == Filtered(Cfg["TRIANGLES"], {t \in Triangles : Listed(t, listed')})
     IN IF found = <<>> THEN /\ scanned' = Filtered(Cfg["TRIANGLES"], {t \in Triangles : Named(t)})
                             /\ UNCHANGED feed
        ELSE /\ scanned' = found
             /\ feed' = UNION {LegsOf(t) : t \in Range(found)}
  /\ UNCHANGED <<deploy, tick, lane, stats, ban, hard, stopped, tokens, slots, mainVars, cross>>

Tick ==
  /\ Alive /\ worker = "loop" /\ cross # "due"
  /\ NextTick /\ cross' = "due"
  /\ UNCHANGED <<mainVars, worker, listed, feed>>

Triangle(l) == Alive /\ AttemptStep(l) /\ UNCHANGED <<mainVars, workerVars>>

(* After the goroutines of the tick: k cross-exchange attempts take two    *)
(* tokens each, and each may send orders and book a result.  Neither       *)
(* TRADING_LIVE nor e.stopped is read.                                     *)
scanCrossTick ==
  /\ Alive /\ worker = "loop" /\ cross = "due" /\ AllIdle
  /\ cross' = "over"
  /\ \/ UNCHANGED <<tokens, hard>>
     \/ /\ Cfg["TRADING_PAIRS"] # <<>>
        /\ \E k \in 1..(tokens \div 2) :
             /\ tokens' = tokens - 2 * k
             /\ hard' \in IF Cfg["DAILY_PNL_STOP_USD"] > 0 THEN BOOLEAN ELSE {hard}
  /\ UNCHANGED <<deploy, scanned, tick, lane, stats, ban, stopped, slots, mainVars, worker, listed, feed>>

WorkerStep == Startup \/ Tick \/ (\E l \in Active : Triangle(l)) \/ scanCrossTick

Next == MainStep \/ Signal \/ Answer \/ WorkerStep

(* main is never blocked but where its lines say; nobody has to send a     *)
(* signal, and a request may take as long as it likes.                     *)
ProcessSpec == ProcessInit /\ [][Next]_vars /\ WF_vars(MainStep)

-----------------------------------------------------------------------------
(* Properties                                                              *)

(* A signal ends the process, whatever its requests and its worker are     *)
(* doing: the shutdown is limited and the worker is not waited for         *)
(* (main.go:96-115).                                                       *)
SignalEndsProcess == signal ~> (main = "gone")

(* The loop goes through triangles Bybit lists and the feed carries; or,   *)
(* when not one configured triangle is listed, through configured ones     *)
(* without any feed (engine.go:91-193).                                    *)
ScannedAreListed ==
  worker = "loop" =>
    \/ UNION {LegsOf(scanned[l]) : l \in Active} \subseteq (feed \cap listed)
    \/ /\ feed = {} /\ \A l \in Active : Named(scanned[l])
       /\ \A t \in Triangles : ~(LegsOf(t) \subseteq listed)
=============================================================================
