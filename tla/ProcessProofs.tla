---------------------------- MODULE ProcessProofs ----------------------------
(***************************************************************************)
(* Proofs about the process, for any number of triangles and ticks and any *)
(* deployments and markets within the assumptions of the modules.  One     *)
(* theorem names what it needs beyond them: the type invariant, that limits*)
(* are numbers (LimitsAreNumbers).                                         *)
(* Each invariant is proved action by action; a goroutine's step changes   *)
(* its own lane only, which Stepped says once.                             *)
(***************************************************************************)
EXTENDS Process, Sums, TLAPS

Past == {"token", "slot"} \cup Executing  \* beyond the check at 412

(* Lanes are records with at least the two fields the proofs are about.    *)
Shape ==
  /\ DOMAIN lane = Lanes
  /\ \A k \in Lanes : /\ "pc" \in DOMAIN lane[k] /\ "after" \in DOMAIN lane[k]
                      /\ lane[k].after \in BOOLEAN

(* The goroutine of lane l goes to a place in to.                          *)
Stepped(l, to) ==
  /\ DOMAIN lane' = Lanes
  /\ \A k \in Lanes : k # l => lane'[k] = lane[k]
  /\ l \in Lanes => /\ "pc" \in DOMAIN lane'[l] /\ "after" \in DOMAIN lane'[l]
                    /\ lane'[l].after = lane[l].after
                    /\ lane'[l].pc \in to

(* What the two ways to write a lane do to the fields the proofs are about *)
(* (the locals of one goroutine, engine.go:319-456).                       *)
LEMMA GotoSteps ==
  ASSUME Shape, NEW l, NEW to, NEW pc \in to, Goto(l, pc)
  PROVE  Stepped(l, to)
BY DEF Shape, Goto, Stepped

LEMMA BecomeSteps ==
  ASSUME Shape, NEW l, NEW to, NEW r, Become(l, r),
         l \in Lanes => /\ "pc" \in DOMAIN r /\ "after" \in DOMAIN r
                        /\ r.pc \in to /\ r.after = lane[l].after
  PROVE  Stepped(l, to)
BY DEF Shape, Become, Stepped

-----------------------------------------------------------------------------
(* The four kinds of steps of a goroutine: one that does not come beyond   *)
(* the check, the check passed, one beyond it, and the end.                *)
Before(l)   == Stepped(l, LanePCs \ Past)
Passes(l)   == Stepped(l, {"token"}) /\ ~stopped /\ allowedForLive(Key(l))
Beyond(l)   == lane[l].pc \in Past /\ Stepped(l, Past)
Ends(l)     == Become(l, Lane("idle", FALSE))
Move(l)     == Before(l) \/ Passes(l) \/ Beyond(l) \/ Ends(l)

USE DEF Past, Executing, LanePCs

(* The steps up to the check (engine.go:321-412).                          *)
LEMMA EarlyMoves ==
  ASSUME Shape, NEW l, Look(l) \/ CheckHard(l) \/ CheckStopped(l)
  PROVE  Move(l)
<1>1. CASE Look(l)
  <2>1. CASE Goto(l, "idle")
    BY <2>1, GotoSteps DEF Move, Before
  <2>2. ASSUME NEW m, NEW d, Become(l, [lane[l] EXCEPT !.pc = "hard", !.m = m, !.dir = d])
        PROVE  Move(l)
    <3> DEFINE r == [lane[l] EXCEPT !.pc = "hard", !.m = m, !.dir = d]
    <3>1. l \in Lanes => /\ "pc" \in DOMAIN r /\ "after" \in DOMAIN r
                         /\ r.pc = "hard" /\ r.after = lane[l].after
      BY DEF Shape
    <3>2. "hard" \in LanePCs \ Past
      OBVIOUS
    <3>3. Become(l, r)
      BY <2>2
    <3> HIDE DEF r
    <3>4. Stepped(l, LanePCs \ Past)
      BY <3>1, <3>2, <3>3, BecomeSteps
    <3> QED BY <3>4 DEF Move, Before
  <2> QED BY <1>1, <2>1, <2>2 DEF Look
<1>2. CASE CheckHard(l)
  <2> DEFINE r == [lane[l] EXCEPT !.pc = "stopped", !.m = "none", !.dir = "F"]
  <2>1. l \in Lanes => /\ "pc" \in DOMAIN r /\ "after" \in DOMAIN r
                       /\ r.pc = "stopped" /\ r.after = lane[l].after
    BY DEF Shape
  <2>2. "stopped" \in LanePCs \ Past
    OBVIOUS
  <2>3. Become(l, r)
    BY <1>2 DEF CheckHard
  <2> HIDE DEF r
  <2>4. Stepped(l, LanePCs \ Past)
    BY <2>1, <2>2, <2>3, BecomeSteps
  <2> QED BY <2>4 DEF Move, Before
<1>3. CASE CheckStopped(l)
  <2>1. CASE Goto(l, "idle")
    BY <2>1, GotoSteps DEF Move, Before
  <2>2. CASE ~stopped /\ allowedForLive(Key(l)) /\ Goto(l, "token")
    BY <2>2, GotoSteps DEF Move, Passes
  <2> QED BY <1>3, <2>1, <2>2 DEF CheckStopped
<1> QED BY <1>1, <1>2, <1>3

(* The tokens and the slots (engine.go:413-430).                           *)
LEMMA TakeMoves ==
  ASSUME Shape, NEW l, TakeToken(l) \/ TakeSlot(l)
  PROVE  Move(l)
<1>1. CASE Goto(l, "idle")
  BY <1>1, GotoSteps DEF Move, Before
<1>2. CASE lane[l].pc \in {"token", "slot"} /\ (Goto(l, "slot") \/ Goto(l, "stat"))
  BY <1>2, GotoSteps DEF Move, Beyond
<1> QED BY <1>1, <1>2 DEF TakeToken, TakeSlot, At

(* The size, the execution and the record (engine.go:431-573).             *)
LEMMA ExecMoves ==
  ASSUME Shape, NEW l, dynamicSizeFactor(l) \/ executeTriangle(l) \/ updateTriStats(l)
  PROVE  Move(l)
<1>1. lane[l].pc \in Past
  BY DEF dynamicSizeFactor, StatKept, LookUp, ReadCount, ReadFirst, ReadSecond,
         executeTriangle, updateTriStats, At
<1>2. ASSUME NEW r, Become(l, r),
             l \in Lanes => /\ "pc" \in DOMAIN r /\ "after" \in DOMAIN r
                            /\ r.pc \in Past /\ r.after = lane[l].after
      PROVE  Move(l)
  <2>1. Stepped(l, Past)
    BY <1>2, BecomeSteps
  <2> QED BY <1>1, <2>1 DEF Move, Beyond
<1>3. ASSUME NEW pc \in Past, Goto(l, pc) PROVE Move(l)
  BY <1>1, <1>3, GotoSteps DEF Move, Beyond
<1>4. CASE LookUp(l)
  BY <1>2, <1>4 DEF LookUp, NoFactor, Shape
<1>5. CASE ReadCount(l)
  BY <1>2, <1>3, <1>5 DEF ReadCount, NoFactor, Shape
<1>6. CASE ReadFirst(l)
  BY <1>2, <1>6 DEF ReadFirst, Shape
<1>7. CASE ReadSecond(l)
  BY <1>2, <1>7 DEF ReadSecond, Shape
<1>8. CASE executeTriangle(l)
  <2>1. PICK good \in BOOLEAN :
          Become(l, [lane[l] EXCEPT !.pc = "record", !.good = good, !.factor = 10])
    BY <1>8 DEF executeTriangle
  <2> QED BY <1>2, <2>1 DEF Shape
<1>9. CASE updateTriStats(l)
  BY <1>3, <1>9 DEF updateTriStats
<1> QED BY <1>4, <1>5, <1>6, <1>7, <1>8, <1>9 DEF dynamicSizeFactor, StatKept

(* Every step of a goroutine is of one of the four kinds                   *)
(* (engine.go:319-456).                                                    *)
LEMMA AttemptMoves ==
  ASSUME Shape, NEW l, AttemptStep(l)
  PROVE  /\ Move(l)
         /\ UNCHANGED <<deploy, scanned>>
         /\ stopped' = stopped \/ stopped' = (stopped \/ hard)
<1>1. Move(l)
  <2>1. CASE Leave(l)
    BY <2>1 DEF Leave, Move, Ends
  <2> QED BY <2>1, EarlyMoves, TakeMoves, ExecMoves DEF AttemptStep
<1>2. UNCHANGED <<deploy, scanned>>
  BY DEF AttemptStep, Look, CheckHard, CheckStopped, TakeToken, TakeSlot, dynamicSizeFactor,
         StatKept, executeTriangle, updateTriStats, Leave
<1>3. stopped' = stopped \/ stopped' = (stopped \/ hard)
  BY DEF AttemptStep, Look, CheckHard, CheckStopped, TakeToken, TakeSlot, dynamicSizeFactor,
         StatKept, executeTriangle, updateTriStats, Leave
<1> QED BY <1>1, <1>2, <1>3

-----------------------------------------------------------------------------
(* Whoever was started after the stop was set is not beyond the check.     *)
StopInv ==
  /\ Shape
  /\ stopped \in BOOLEAN
  /\ \A k \in Lanes : lane[k].after => stopped /\ lane[k].pc \notin Past

(* A goroutine's step keeps it: the check passes only while stopped is not *)
(* set (engine.go:403-412).                                                *)
LEMMA MoveKeepsStop ==
  ASSUME StopInv, NEW l, Move(l), stopped' = stopped \/ stopped' = (stopped \/ hard)
  PROVE  StopInv'
<1>1. Lanes' = Lanes
  BY DEF Lanes
<1>2. stopped' \in BOOLEAN /\ (stopped => stopped')
  BY DEF StopInv
<1>3. ASSUME NEW to, Stepped(l, to), l \in Lanes /\ lane[l].after => to \cap Past = {}
      PROVE  StopInv'
  BY <1>1, <1>2, <1>3 DEF Stepped, StopInv, Shape
<1>4. CASE Before(l)
  BY <1>3, <1>4 DEF Before
<1>5. CASE Passes(l)
  BY <1>3, <1>5 DEF Passes, StopInv
<1>6. CASE Beyond(l)
  BY <1>3, <1>6 DEF Beyond, StopInv
<1>7. CASE Ends(l)
  BY <1>1, <1>2, <1>7 DEF Ends, Become, Lane, StopInv, Shape
<1> QED BY <1>4, <1>5, <1>6, <1>7 DEF Move

(* The tick starts its goroutines anew, and writes down whether the stop   *)
(* was set before (engine.go:296-320).                                     *)
LEMMA TickKeepsStop ==
  ASSUME StopInv, NextTick
  PROVE  StopInv'
BY DEF StopInv, Shape, NextTick, Lane, Lanes

(* Whoever passed was started before the stop (engine.go:403-412).         *)
LEMMA StopInvHolds == ProcessSpec => []StopInv
<1>1. ProcessInit => StopInv
  <2> SUFFICES ASSUME ProcessInit PROVE StopInv
    OBVIOUS
  <2>1. stopped = FALSE /\ lane = [k \in Lanes |-> Lane("idle", FALSE)]
    BY DEF ProcessInit
  <2> QED BY <2>1 DEF StopInv, Shape, Lane
<1>2. StopInv /\ [Next]_vars => StopInv'
  <2> SUFFICES ASSUME StopInv, [Next]_vars PROVE StopInv'
    OBVIOUS
  <2>1. ASSUME UNCHANGED <<lane, stopped>> PROVE StopInv'
    BY <2>1 DEF StopInv, Shape, Lanes
  <2>2. CASE MainStep \/ Signal \/ Answer \/ Startup \/ scanCrossTick \/ UNCHANGED vars
    BY <2>1, <2>2 DEF MainStep, ReadSettings, StartWorker, SetReady, Notify, Select, Shutdown,
       Drain, Signal, Answer, Startup, scanCrossTick, vars, attemptVars
  <2>3. CASE Tick
    BY <2>3, TickKeepsStop DEF Tick
  <2>4. ASSUME NEW l \in Active, Triangle(l) PROVE StopInv'
    BY <2>4, AttemptMoves, MoveKeepsStop DEF Triangle, StopInv
  <2> QED BY <2>2, <2>3, <2>4 DEF Next, WorkerStep
<1> QED BY <1>1, <1>2, PTL DEF ProcessSpec

(* For every deployment, every number of triangles and every history of    *)
(* ticks: once e.stopped is set, no goroutine started afterwards comes     *)
(* beyond the check of engine.go:412.                                      *)
THEOREM StopEndsAttemptsHolds == ProcessSpec => []StopEndsAttempts
<1>1. StopInv => StopEndsAttempts
  BY DEF StopInv, StopEndsAttempts
<1> QED BY <1>1, StopInvHolds, PTL

-----------------------------------------------------------------------------
(* What executes passed allowedForLive, and the list of triangles is not   *)
(* made again once a goroutine may have passed it.                         *)
AllowedInv ==
  /\ StopInv
  /\ deploy \in DOMAIN Deployments
  /\ main \in {"load", "work"} => worker = "none"
  /\ worker # "loop" => scanned = <<>> /\ \A k \in Lanes : lane[k].pc = "idle"
  /\ \A k \in Lanes : lane[k].pc \in Past => allowedForLive(Key(k))

(* A step of a goroutine, of a list that stays as it is (engine.go:412).   *)
LEMMA MoveKeepsAllowed ==
  ASSUME AllowedInv, NEW l, Move(l), UNCHANGED <<deploy, scanned, worker, main>>, worker = "loop",
         StopInv'
  PROVE  AllowedInv'
<1>1. Lanes' = Lanes
  BY DEF Lanes
<1>2. \A k : allowedForLive(Key(k)) <=> allowedForLive(Key(k))'
  BY DEF allowedForLive, Key, Cfg, LegsOf, Load
<1>3. ASSUME NEW to, Stepped(l, to), l \in Lanes => to \cap Past = {} \/ allowedForLive(Key(l))
      PROVE  AllowedInv'
  BY <1>1, <1>2, <1>3 DEF Stepped, AllowedInv
<1>4. CASE Before(l)
  BY <1>3, <1>4 DEF Before
<1>5. CASE Passes(l)
  BY <1>3, <1>5 DEF Passes
<1>6. CASE Beyond(l)
  BY <1>3, <1>6 DEF Beyond, AllowedInv
<1>7. CASE Ends(l)
  BY <1>1, <1>2, <1>7 DEF Ends, Become, Lane, AllowedInv, StopInv, Shape
<1> QED BY <1>4, <1>5, <1>6, <1>7 DEF Move

(* The list stays while goroutines may have passed (engine.go:91-193).     *)
LEMMA AllowedInvHolds == ProcessSpec => []AllowedInv
<1>1. ProcessInit /\ StopInv => AllowedInv
  <2> SUFFICES ASSUME ProcessInit, StopInv PROVE AllowedInv
    OBVIOUS
  <2>1. /\ lane = [k \in Lanes |-> Lane("idle", FALSE)] /\ scanned = <<>>
        /\ worker = "none" /\ deploy \in DOMAIN Deployments
    BY DEF ProcessInit
  <2> QED BY <2>1 DEF AllowedInv, Lane
<1>2. AllowedInv /\ StopInv' /\ [Next]_vars => AllowedInv'
  <2> SUFFICES ASSUME AllowedInv, StopInv', [Next]_vars PROVE AllowedInv'
    OBVIOUS
  <2>1. ASSUME UNCHANGED <<deploy, scanned, lane>>,
               worker' = worker \/ (worker = "none" /\ worker' # "loop"),
               main' \in {"load", "work"} => worker' = "none"
        PROVE  AllowedInv'
    BY <2>1 DEF AllowedInv, Lanes, allowedForLive, Key, Cfg, LegsOf, Load
  <2>2. CASE MainStep
    <3>1. UNCHANGED <<deploy, scanned, lane>>
      BY <2>2 DEF MainStep, ReadSettings, StartWorker, SetReady, Notify, Select, Shutdown,
         Drain, attemptVars
    <3>2. /\ worker' = worker \/ (worker = "none" /\ worker' # "loop")
          /\ main' \in {"load", "work"} => worker' = "none"
      <4>1. CASE StartWorker
        BY <4>1 DEF StartWorker, MainGoes, AllowedInv
      <4>2. CASE ReadSettings
        BY <4>2 DEF ReadSettings, MainGoes, workerVars, AllowedInv
      <4>3. CASE SetReady \/ Notify \/ Select \/ Shutdown \/ Drain
        BY <4>3 DEF SetReady, Notify, Select, Shutdown, Drain, MainGoes, workerVars
      <4> QED BY <2>2, <4>1, <4>2, <4>3 DEF MainStep
    <3> QED BY <2>1, <3>1, <3>2
  <2>3. CASE Signal \/ Answer \/ scanCrossTick \/ UNCHANGED vars
    <3>1. UNCHANGED <<deploy, scanned, lane>>
      BY <2>3 DEF Signal, Answer, scanCrossTick, vars, attemptVars
    <3>2. worker' = worker /\ (main' = main \/ main' = "gone")
      BY <2>3 DEF Signal, Answer, scanCrossTick, vars, mainVars, workerVars
    <3>3. main' \in {"load", "work"} => worker' = "none"
      BY <3>2 DEF AllowedInv
    <3> QED BY <2>1, <3>1, <3>2, <3>3
  <2>4. CASE Startup
    <3>1. /\ worker = "startup" /\ worker' = "loop" /\ UNCHANGED <<deploy, lane, main>>
      BY <2>4 DEF Startup, mainVars
    <3> QED BY <3>1 DEF AllowedInv, Lanes
  <2>5. CASE Tick
    <3>1. /\ worker = "loop" /\ UNCHANGED <<deploy, worker, main>>
          /\ lane' = [k \in Lanes |-> IF k \in Active /\ "" \notin LegsOf(Key(k))
                                      THEN Lane("look", stopped) ELSE Lane("idle", FALSE)]
      BY <2>5 DEF Tick, NextTick, mainVars
    <3> QED BY <3>1 DEF AllowedInv, Lane, Lanes
  <2>6. ASSUME NEW l \in Active, Triangle(l) PROVE AllowedInv'
    <3>1. worker = "loop"
      BY DEF Active, AllowedInv
    <3>2. UNCHANGED <<worker, main>> /\ AttemptStep(l)
      BY <2>6 DEF Triangle, workerVars, mainVars
    <3>3. Move(l) /\ UNCHANGED <<deploy, scanned>>
      BY <3>2, AttemptMoves DEF AllowedInv, StopInv
    <3> QED BY <3>1, <3>2, <3>3, MoveKeepsAllowed
  <2> QED BY <2>2, <2>3, <2>4, <2>5, <2>6 DEF Next, WorkerStep
<1> QED BY <1>1, <1>2, StopInvHolds, PTL DEF ProcessSpec

(* Whatever is in force is what the topmost place gives: for every file,   *)
(* every environment and every .env, what executes has its three legs on   *)
(* that list (config.go:190-192, live.go:21-34).                           *)
THEOREM AttemptsAreAllowedHolds == ProcessSpec => []AttemptsAreAllowed
<1>1. ASSUME NEW d \in DOMAIN Deployments
      PROVE  Load[d]["ALLOWED_SYMBOLS"] = GivenList(Deployments[d])
  <2>1. Setting(Deployments[d], "ALLOWED_SYMBOLS") = GivenList(Deployments[d])
    BY DEF Setting, Switches, Texts, Decimals, Counts, Limits, Given, GivenList
  <2> QED BY <2>1, SettingsAssumption DEF Load, Texts
<1>2. AllowedInv => AttemptsAreAllowed
  <2> SUFFICES ASSUME AllowedInv, NEW l \in Lanes, lane[l].pc \in Executing,
                      GivenList(Deployments[deploy]) # <<>>,
                      NEW x \in LegsOf(Key(l))
               PROVE  x \in Range(GivenList(Deployments[deploy]))
    BY DEF AttemptsAreAllowed
  <2>1. Cfg["ALLOWED_SYMBOLS"] = GivenList(Deployments[deploy])
    BY <1>1 DEF Cfg, AllowedInv
  <2>2. allowedForLive(Key(l))
    BY DEF AllowedInv
  <2> QED BY <2>1, <2>2 DEF allowedForLive
<1> QED BY <1>2, AllowedInvHolds, PTL

-----------------------------------------------------------------------------
(* Every triangle's objects are pairs of numbers, and the one in the map   *)
(* is not due for a ban.                                                   *)
Records == [count : Nat, success : Nat]

KeptInv ==
  \A t \in DOMAIN stats :
    /\ stats[t] \in Seq(Records)
    /\ stats[t] # <<>> => ~BanDue(Last(stats[t]))

(* updateTriStats counts in the object of the map and, when that is due    *)
(* for a ban, puts a new one into the map (engine.go:466-497).             *)
LEMMA UpdateKeepsKept ==
  ASSUME KeptInv, NEW l, updateTriStats(l)
  PROVE  KeptInv'
<1> DEFINE key  == Key(l)
           old  == IF NoStat(key) THEN <<[count |-> 0, success |-> 0]>> ELSE stats[key]
           new  == [count   |-> Last(old).count + 1,
                    success |-> Last(old).success + (IF lane[l].good THEN 1 ELSE 0)]
           kept == [old EXCEPT ![Len(old)] = new]
           fresh == [count |-> 0, success |-> 0]
           next == IF BanDue(new) THEN Append(kept, fresh) ELSE kept
<1>1. stats' = [stats EXCEPT ![key] = next]
  BY DEF updateTriStats
<1>2. ASSUME key \in DOMAIN stats
      PROVE  next \in Seq(Records) /\ next # <<>> /\ ~BanDue(Last(next))
  <2>1. old \in Seq(Records) /\ Len(old) \in Nat \ {0}
    <3>1. CASE NoStat(key)
      <4>1. [count |-> 0, success |-> 0] \in Records
        BY DEF Records
      <4> QED BY <3>1, <4>1
    <3>2. CASE ~NoStat(key)
      <4>1. stats[key] \in Seq(Records) /\ stats[key] # <<>>
        BY <1>2, <3>2 DEF KeptInv, NoStat
      <4>2. old = stats[key]
        BY <3>2
      <4> QED BY <4>1, <4>2
    <3> QED BY <3>1, <3>2
  <2>2. Last(old) \in Records
    BY <2>1 DEF Last
  <2>3. new \in Records
    BY <2>2 DEF Records
  <2> HIDE DEF new, old
  <2>4. kept \in Seq(Records) /\ Len(kept) = Len(old) /\ kept[Len(kept)] = new
    BY <2>1, <2>3
  <2> HIDE DEF kept
  <2>5. fresh \in Records /\ ~BanDue(fresh)
    BY AttemptAssumption DEF Records, BanDue
  <2> HIDE DEF fresh
  <2>6. CASE BanDue(new)
    <3>1. next = Append(kept, fresh)
      BY <2>6
    <3>2. /\ Append(kept, fresh) \in Seq(Records)
          /\ Len(Append(kept, fresh)) = Len(kept) + 1
          /\ Append(kept, fresh)[Len(kept) + 1] = fresh
      BY <2>4, <2>5
    <3> QED BY <2>1, <2>4, <2>5, <3>1, <3>2 DEF Last
  <2>7. CASE ~BanDue(new)
    BY <2>1, <2>4, <2>7 DEF Last
  <2> QED BY <2>6, <2>7
<1> HIDE DEF next, key
<1> QED BY <1>1, <1>2 DEF KeptInv

(* Only updateTriStats writes the objects of the map (engine.go:466-497).  *)
LEMMA KeptInvHolds == ProcessSpec => []KeptInv
<1>1. ProcessInit => KeptInv
  <2> SUFFICES ASSUME ProcessInit PROVE KeptInv
    OBVIOUS
  <2>1. stats = [t \in Triangles |-> <<>>]
    BY DEF ProcessInit
  <2> QED BY <2>1 DEF KeptInv
<1>2. KeptInv /\ [Next]_vars => KeptInv'
  <2> SUFFICES ASSUME KeptInv, [Next]_vars PROVE KeptInv'
    OBVIOUS
  <2>1. CASE UNCHANGED stats
    BY <2>1 DEF KeptInv, BanDue
  <2>2. CASE MainStep \/ Signal \/ Answer \/ Startup \/ Tick \/ scanCrossTick \/ UNCHANGED vars
    BY <2>1, <2>2 DEF MainStep, ReadSettings, StartWorker, SetReady, Notify, Select, Shutdown,
       Drain, Signal, Answer, Startup, Tick, NextTick, scanCrossTick, vars, attemptVars
  <2>3. ASSUME NEW l \in Active, Triangle(l) PROVE KeptInv'
    <3>1. UNCHANGED stats \/ updateTriStats(l)
      BY <2>3 DEF Triangle, AttemptStep, Look, CheckHard, CheckStopped, TakeToken, TakeSlot,
         dynamicSizeFactor, StatKept, executeTriangle, Leave
    <3> QED BY <2>1, <3>1, UpdateKeepsKept
  <2> QED BY <2>2, <2>3 DEF Next, WorkerStep
<1> QED BY <1>1, <1>2, PTL DEF ProcessSpec

(* However many goroutines of one triangle record their executions, and in *)
(* whatever order, the object in the map never is one the rule of          *)
(* engine.go:488-497 bans.                                                 *)
THEOREM NoBadTriangleKeptHolds == ProcessSpec => []NoBadTriangleKept
<1>1. KeptInv => NoBadTriangleKept
  <2> SUFFICES ASSUME KeptInv, NEW t \in DOMAIN stats, stats[t] # <<>>, Stat(t).count >= BanMin
               PROVE  5 * Stat(t).success >= Stat(t).count
    BY DEF NoBadTriangleKept
  <2>1. Stat(t) \in Records /\ ~BanDue(Stat(t))
    BY DEF KeptInv, Stat, Last
  <2> QED BY <2>1 DEF Records, BanDue
<1> QED BY <1>1, KeptInvHolds, PTL

-----------------------------------------------------------------------------
(* The recursion behind the fold over a list, which takes its last element *)
(* away, and what it is for a function to follow it.                       *)
FilterStep(list, chosen, g, s) ==
  IF s = {} THEN <<>>
  ELSE IF list[Max(s)] \in chosen THEN Append(g[s \ {Max(s)}], list[Max(s)]) ELSE g[s \ {Max(s)}]

FilterEquation(list, chosen, g) ==
  g = [s \in SUBSET (DOMAIN list) |-> FilterStep(list, chosen, g, s)]

(* The list made is the value of a function that follows it                *)
(* (engine.go:103-128).                                                    *)
LEMMA FilterExpand ==
  ASSUME NEW list, NEW chosen
  PROVE  Filtered(list, chosen) = (CHOOSE g : FilterEquation(list, chosen, g))[DOMAIN list]
BY DEF Filtered, FoldLeft, MapThenFoldSet, FilterEquation, FilterStep

(* A part of a list that is not empty has a last position.                 *)
LEMMA LastPosition ==
  ASSUME NEW n \in Nat, NEW s \in SUBSET (1..n), s # {}
  PROVE  Max(s) \in s
<1> DEFINE T == {n - x : x \in s}
<1>1. T \in SUBSET Nat /\ T # {}
  <2>1. \A x \in s : n - x \in Nat
    OBVIOUS
  <2> QED BY <2>1
<1>2. PICK m \in T : \A k \in T : m <= k
  BY <1>1, LeastNat
<1>3. PICK x \in s : m = n - x
  OBVIOUS
<1>4. \A y \in s : x >= y
  <2> TAKE y \in s
  <2>1. m <= n - y
    BY <1>2
  <2> HIDE DEF T
  <2>2. x \in Int /\ y \in Int
    OBVIOUS
  <2> QED BY <1>3, <2>1, <2>2
<1> QED BY <1>4 DEF Max

(* What the loop makes of a list: no longer a list, of those members of it *)
(* that are chosen, and empty only if there are none (engine.go:103-128).  *)
LEMMA FilteredFacts ==
  ASSUME NEW T, NEW list \in Seq(T), NEW chosen
  PROVE  /\ Filtered(list, chosen) \in Seq(T)
         /\ Len(Filtered(list, chosen)) <= Len(list)
         /\ \A i \in 1..Len(Filtered(list, chosen)) : Filtered(list, chosen)[i] \in chosen
         /\ (\E i \in 1..Len(list) : list[i] \in chosen) => Filtered(list, chosen) # <<>>
<1> DEFINE S == 1..Len(list)
           h == CHOOSE g : FilterEquation(list, chosen, g)
<1>1. /\ DOMAIN list = S /\ Len(list) \in Nat /\ IsFiniteSet(S) /\ Cardinality(S) = Len(list)
      /\ \A i \in S : list[i] \in T
  <2>1. 1 \in Int /\ Len(list) \in Nat
    OBVIOUS
  <2>2. IsFiniteSet(S) /\ Cardinality(S) = Len(list)
    BY <2>1, FS_Interval
  <2> QED BY <2>1, <2>2
<1> DEFINE c == [s \in SUBSET S |-> Max(s)]
           F == [p \in (SUBSET S) \X Seq(T) |->
                   IF p[1] = {} THEN <<>>
                   ELSE IF list[Max(p[1])] \in chosen THEN Append(p[2], list[Max(p[1])]) ELSE p[2]]
<1>2. \A s \in SUBSET S : s # {} => Max(s) \in s
  BY <1>1, LastPosition
<1>3. F \in [(SUBSET S) \X Seq(T) -> Seq(T)]
  <2>1. ASSUME NEW s \in SUBSET S, NEW q \in Seq(T), s # {} PROVE Append(q, list[Max(s)]) \in Seq(T)
    <3>1. Max(s) \in S
      BY <1>2, <2>1
    <3>2. list[Max(s)] \in T
      BY <1>1, <3>1
    <3> QED BY <3>2
  <2> QED BY <2>1
<1>4. \A s \in SUBSET S, q \in Seq(T) : s # {} =>
        F[<<s, q>>] = IF list[Max(s)] \in chosen THEN Append(q, list[Max(s)]) ELSE q
  OBVIOUS
<1>5. \A s \in SUBSET S : c[s] = Max(s)
  OBVIOUS
<1> HIDE DEF S, c, F
<1>6. PICK g \in [SUBSET S -> Seq(T)] : Follows(S, <<>>, c, F, g)
  <2>1. \A s \in SUBSET S : s # {} => c[s] \in s
    BY <1>2, <1>5
  <2>2. <<>> \in Seq(T)
    OBVIOUS
  <2> QED BY <1>1, <1>3, <2>1, <2>2, Recursion
<1>7. FilterEquation(list, chosen, g)
  <2>1. ASSUME NEW s \in SUBSET S PROVE g[s] = FilterStep(list, chosen, g, s)
    <3>1. s \ {c[s]} \in SUBSET S /\ g[s \ {c[s]}] \in Seq(T)
      OBVIOUS
    <3>2. CASE s = {}
      BY <1>6, <3>2 DEF FilterStep, Follows
    <3>3. CASE s # {}
      <4>1. g[s] = F[<<s, g[s \ {c[s]}]>>]
        BY <1>6, <3>3 DEF Follows
      <4>2. c[s] = Max(s)
        BY <1>5
      <4> QED BY <1>4, <3>1, <3>3, <4>1, <4>2 DEF FilterStep
    <3> QED BY <3>2, <3>3
  <2> QED BY <1>1, <2>1 DEF FilterEquation
<1>8. \A s \in SUBSET S : h[s] = FilterStep(list, chosen, h, s)
  <2>1. FilterEquation(list, chosen, h)
    BY <1>7
  <2> HIDE DEF h
  <2> QED BY <1>1, <2>1 DEF FilterEquation
<1> HIDE DEF h
<1> DEFINE P(s) == /\ h[s] \in Seq(T) /\ Len(h[s]) <= Cardinality(s)
                   /\ \A i \in 1..Len(h[s]) : h[s][i] \in chosen
                   /\ (\E i \in s : list[i] \in chosen) => h[s] # <<>>
           B == {s \in SUBSET S : ~P(s)}
<1>9. ASSUME B # {} PROVE FALSE
  <2>1. PICK s \in B : \A x \in s : s \ {x} \notin B
    BY <1>1, <1>9, LeastSubset
  <2>2. CASE s = {}
    <3>1. h[s] = <<>> /\ Cardinality(s) = 0
      BY <1>8, <2>2, FS_EmptySet DEF FilterStep
    <3>2. P(s)
      BY <2>2, <3>1
    <3> QED BY <2>1, <3>2
  <2>3. CASE s # {}
    <3> DEFINE m == Max(s)
               r == s \ {m}
    <3>1. m \in s /\ list[m] \in T
      BY <1>1, <1>2, <2>3
    <3>2. P(r)
      BY <2>1, <3>1
    <3>3. Cardinality(s) \in Nat /\ Cardinality(r) = Cardinality(s) - 1
      <4>1. IsFiniteSet(s)
        BY <1>1, FS_Subset
      <4> QED BY <3>1, <4>1, FS_CardinalityType, FS_RemoveElement
    <3>4. h[s] = IF list[m] \in chosen THEN Append(h[r], list[m]) ELSE h[r]
      BY <1>8, <2>3 DEF FilterStep
    <3> HIDE DEF m
    <3>5. CASE list[m] \in chosen
      <4>1. h[s] = Append(h[r], list[m])
        BY <3>4, <3>5
      <4> DEFINE q == h[r]
      <4> HIDE DEF q
      <4>2. q \in Seq(T) /\ Len(q) <= Cardinality(s) - 1 /\ \A i \in 1..Len(q) : q[i] \in chosen
        BY <3>2, <3>3 DEF q
      <4>3. /\ Append(q, list[m]) \in Seq(T) /\ Len(Append(q, list[m])) = Len(q) + 1
            /\ \A i \in 1..Len(q) : Append(q, list[m])[i] = q[i]
            /\ Append(q, list[m])[Len(q) + 1] = list[m]
        BY <3>1, <4>2
      <4>4. Len(q) \in Nat
        BY <4>2
      <4>5. h[s] = Append(q, list[m])
        BY <4>1 DEF q
      <4>6. \A i \in 1..(Len(q) + 1) : Append(q, list[m])[i] \in chosen
        BY <3>5, <4>2, <4>3, <4>4
      <4>7. Append(q, list[m]) # <<>>
        BY <4>3, <4>4
      <4>8. Len(q) + 1 <= Cardinality(s)
        BY <3>3, <4>2, <4>4
      <4>9. P(s)
        BY <4>3, <4>5, <4>6, <4>7, <4>8
      <4> QED BY <2>1, <4>9
    <3>6. CASE list[m] \notin chosen
      <4>1. h[s] = h[r]
        BY <3>4, <3>6
      <4>2. P(s)
        <5>1. Len(h[s]) <= Cardinality(s)
          <6>1. Len(h[r]) \in Nat
            BY <3>2
          <6> QED BY <3>2, <3>3, <4>1, <6>1
        <5> QED BY <3>2, <3>6, <4>1, <5>1
      <4> QED BY <2>1, <4>2
    <3> QED BY <3>5, <3>6
  <2> QED BY <2>2, <2>3
<1>10. S \in SUBSET S
  OBVIOUS
<1>11. P(S)
  BY <1>9, <1>10
<1>12. Filtered(list, chosen) = h[S]
  BY <1>1, FilterExpand DEF h
<1> QED BY <1>1, <1>11, <1>12 DEF S

(* The triangles of the loop are configured ones, and of one kind: listed  *)
(* and carried by the feed or, when none is listed, with three names and   *)
(* without a feed.                                                         *)
ListedInv ==
  /\ worker \in {"none", "startup", "loop"}
  /\ worker # "loop" => scanned = <<>> /\ feed = {}
  /\ feed \subseteq listed
  /\ scanned \in Seq(Triangles) /\ Len(scanned) <= MaxLanes
  /\ ScannedAreListed

(* The two loops over the configured triangles (engine.go:91-128).         *)
LEMMA StartupLists ==
  ASSUME deploy \in DOMAIN Deployments, ListedInv, Startup
  PROVE  ListedInv'
<1> DEFINE list == Cfg["TRIANGLES"]
           good == {t \in Triangles : Listed(t, listed')}
           named == {t \in Triangles : Named(t)}
<1>1. list \in Seq(Triangles) /\ Len(list) \in Nat /\ Len(list) <= MaxLanes /\ MaxLanes \in Nat
      /\ \A t \in Triangles : \E i \in 1..Len(list) : list[i] = t
  <2>1. list \in Seq([Legs -> STRING]) /\ Len(list) <= MaxLanes /\ MaxLanes \in Nat
    BY AttemptAssumption DEF Cfg
  <2> HIDE DEF list
  <2>2. Triangles = {list[i] : i \in 1..Len(list)}
    BY <2>1 DEF Triangles, Range, list
  <2>3. \A i \in 1..Len(list) : list[i] \in Triangles
    BY <2>2
  <2> QED BY <2>1, <2>2, <2>3
<1>2. UNCHANGED deploy /\ worker' = "loop" /\ worker = "startup" /\ feed = {}
  BY DEF Startup, ListedInv
<1>3. Triangles' = Triangles
  BY <1>2 DEF Triangles, Cfg, Load
<1> HIDE DEF list
<1> DEFINE found == Filtered(list, good)
<1>4. /\ found \in Seq(Triangles) /\ Len(found) <= MaxLanes
      /\ \A i \in 1..Len(found) : found[i] \in good
      /\ (\E i \in 1..Len(list) : list[i] \in good) => found # <<>>
  <2> HIDE DEF good
  <2>1. /\ found \in Seq(Triangles) /\ Len(found) <= Len(list)
        /\ \A i \in 1..Len(found) : found[i] \in good
        /\ (\E i \in 1..Len(list) : list[i] \in good) => found # <<>>
    BY <1>1, FilteredFacts
  <2> HIDE DEF found
  <2>2. Len(found) \in Nat
    BY <2>1
  <2> QED BY <1>1, <2>1, <2>2
<1> DEFINE others == Filtered(list, named)
<1>5. /\ others \in Seq(Triangles) /\ Len(others) <= MaxLanes
      /\ \A i \in 1..Len(others) : others[i] \in named
  <2> HIDE DEF named
  <2>1. /\ others \in Seq(Triangles) /\ Len(others) <= Len(list)
        /\ \A i \in 1..Len(others) : others[i] \in named
    BY <1>1, FilteredFacts
  <2> HIDE DEF others
  <2>2. Len(others) \in Nat
    BY <2>1
  <2> QED BY <1>1, <2>1, <2>2
<1>6. IF found = <<>> THEN scanned' = others /\ feed' = feed
      ELSE scanned' = found /\ feed' = UNION {LegsOf(t) : t \in Range(found)}
  BY DEF Startup, list
<1> HIDE DEF found, others
<1>7. CASE found = <<>>
  <2>1. scanned' = others /\ feed' = {}
    BY <1>2, <1>6, <1>7
  <2>2. \A l \in Active' : Named(scanned'[l])
    BY <1>5, <2>1 DEF Active
  <2>3. ASSUME NEW t \in Triangles PROVE ~(LegsOf(t) \subseteq listed')
    <3>1. PICK i \in 1..Len(list) : list[i] = t
      BY <1>1
    <3>2. list[i] \notin good
      BY <1>4, <1>7
    <3> QED BY <3>1, <3>2 DEF Listed
  <2>4. ScannedAreListed'
    BY <1>3, <2>1, <2>2, <2>3 DEF ScannedAreListed, Named, LegsOf
  <2> QED BY <1>2, <1>3, <1>5, <2>1, <2>4 DEF ListedInv
<1>8. CASE found # <<>>
  <2>1. scanned' = found /\ feed' = UNION {LegsOf(t) : t \in Range(found)}
    BY <1>6, <1>8
  <2>2. DOMAIN found = 1..Len(found) /\ Range(found) = {found[i] : i \in 1..Len(found)}
    BY <1>4 DEF Range
  <2>3. \A i \in 1..Len(found) : LegsOf(found[i]) \subseteq listed'
    BY <1>4 DEF Listed
  <2>4. feed' \subseteq listed'
    BY <2>1, <2>2, <2>3
  <2>5. \A l \in Active' : LegsOf(scanned'[l]) \subseteq feed' \cap listed'
    BY <2>1, <2>2, <2>4 DEF Active
  <2>6. ScannedAreListed'
    BY <2>5 DEF ScannedAreListed, LegsOf
  <2> QED BY <1>2, <1>3, <1>4, <2>1, <2>4, <2>6 DEF ListedInv
<1> QED BY <1>7, <1>8

(* Only the start makes the list and the feed (engine.go:73-194).          *)
LEMMA ListedInvHolds == ProcessSpec => []ListedInv
<1>1. ProcessInit => ListedInv
  <2> SUFFICES ASSUME ProcessInit PROVE ListedInv
    OBVIOUS
  <2>1. worker = "none" /\ scanned = <<>> /\ feed = {} /\ MaxLanes \in Nat
    BY AttemptAssumption DEF ProcessInit
  <2> QED BY <2>1 DEF ListedInv, ScannedAreListed
<1>2. AllowedInv /\ ListedInv /\ [Next]_vars => ListedInv'
  <2> SUFFICES ASSUME AllowedInv, ListedInv, [Next]_vars PROVE ListedInv'
    OBVIOUS
  <2>1. ASSUME UNCHANGED <<deploy, scanned, feed, listed>>,
               worker' = worker \/ (worker = "none" /\ worker' = "startup")
        PROVE  ListedInv'
    <3>1. Triangles' = Triangles
      BY <2>1 DEF Triangles, Cfg, Load
    <3>2. worker' \in {"none", "startup", "loop"} /\ (worker' = "loop" => worker = "loop")
          /\ (worker' # "loop" => worker # "loop")
      BY <2>1 DEF ListedInv
    <3>3. ScannedAreListed'
      <4>1. ScannedAreListed /\ (worker' = "loop" => worker = "loop") /\ Active' = Active
        BY <2>1, <3>2 DEF ListedInv, Active
      <4>2. (UNION {LegsOf(scanned[l]) : l \in Active})' = UNION {LegsOf(scanned[l]) : l \in Active}
        BY <2>1, <4>1 DEF LegsOf
      <4>3. /\ (\A l \in Active : Named(scanned[l])) => (\A l \in Active : Named(scanned[l]))'
            /\ (\A t \in Triangles : ~(LegsOf(t) \subseteq listed)) =>
                 (\A t \in Triangles : ~(LegsOf(t) \subseteq listed))'
        BY <2>1, <3>1, <4>1 DEF Named, LegsOf
      <4> QED BY <2>1, <4>1, <4>2, <4>3 DEF ScannedAreListed
    <3>4. /\ worker' # "loop" => scanned' = <<>> /\ feed' = {}
          /\ feed' \subseteq listed'
          /\ scanned' \in Seq(Triangles') /\ Len(scanned') <= MaxLanes
      BY <2>1, <3>1, <3>2 DEF ListedInv
    <3> QED BY <3>2, <3>3, <3>4 DEF ListedInv
  <2>2. CASE MainStep \/ Signal \/ Answer \/ UNCHANGED vars
    <3>1. UNCHANGED <<deploy, scanned, feed, listed>>
      BY <2>2 DEF MainStep, ReadSettings, StartWorker, SetReady, Notify, Select, Shutdown,
         Drain, Signal, Answer, vars, attemptVars, workerVars
    <3>2. worker' = worker \/ (worker = "none" /\ worker' = "startup")
      <4>1. CASE StartWorker
        BY <4>1 DEF StartWorker, MainGoes, AllowedInv
      <4>2. CASE ReadSettings \/ SetReady \/ Notify \/ Select \/ Shutdown \/ Drain
        BY <4>2 DEF ReadSettings, SetReady, Notify, Select, Shutdown, Drain, workerVars
      <4> QED BY <2>2, <4>1, <4>2 DEF MainStep, Signal, Answer, vars, workerVars
    <3> QED BY <2>1, <3>1, <3>2
  <2>3. CASE Startup
    BY <2>3, StartupLists DEF AllowedInv
  <2>4. CASE Tick \/ scanCrossTick
    BY <2>1, <2>4 DEF Tick, NextTick, scanCrossTick
  <2>5. ASSUME NEW l \in Active, Triangle(l) PROVE ListedInv'
    <3>1. UNCHANGED <<deploy, scanned>>
      BY <2>5, AttemptMoves DEF Triangle, AllowedInv, StopInv
    <3> QED BY <2>1, <2>5, <3>1 DEF Triangle, workerVars
  <2> QED BY <2>2, <2>3, <2>4, <2>5 DEF Next, WorkerStep
<1> QED BY <1>1, <1>2, AllowedInvHolds, PTL DEF ProcessSpec

(* Whatever list of triangles is configured and whatever Bybit lists, also *)
(* when it does not answer: the loop goes through triangles that are       *)
(* listed and carried by the feed or, when none is listed, through named   *)
(* ones without a feed (engine.go:91-193).                                 *)
THEOREM ScannedAreListedHolds == ProcessSpec => []ScannedAreListed
<1>1. ListedInv => ScannedAreListed
  BY DEF ListedInv
<1> QED BY <1>1, ListedInvHolds, PTL


-----------------------------------------------------------------------------
(* The local values of a goroutine: it reads an object of its triangle     *)
(* that is there, of one execution at least, and the factor it comes to is *)
(* in range.  r: a lane, objs: the objects its triangle has had.           *)
Sized(r, objs) ==
  /\ {"pc", "ref", "a", "b", "factor"} \subseteq DOMAIN r
  /\ r.pc \in LanePCs /\ r.a \in Nat /\ r.b \in Nat
  /\ r.pc \in {"count", "ratio", "thenCount", "thenSuccess"} => r.ref \in 1..Len(objs)
  /\ r.pc \in {"ratio", "thenCount", "thenSuccess"} => objs[r.ref].count >= 1
  /\ r.pc = "thenSuccess" => r.a >= 1
  /\ r.pc = "exec" => r.factor \in 5..15

(* The objects of a triangle: none counts more successes than executions.  *)
Counted(objs) == objs \in Seq(Records) /\ \A i \in 1..Len(objs) : objs[i].success <= objs[i].count

Objects(k) == IF k \in Active THEN stats[scanned[k]] ELSE <<>>

SizeInv ==
  /\ DOMAIN lane = Lanes /\ DOMAIN stats = Triangles
  /\ \A t \in Triangles : Counted(stats[t])
  /\ \A k \in Lanes : Sized(lane[k], Objects(k))

(* The two clamps at the end (engine.go:565-572).                          *)
LEMMA ClampedInRange ==
  ASSUME NEW success \in Nat, NEW count \in Nat, count >= 1
  PROVE  Clamped(success, count) \in 5..15
<1> DEFINE q == (10 * success) \div count
<1>1. q \in Int
  OBVIOUS
<1> HIDE DEF q
<1>2. 5 + q \in Int
  BY <1>1
<1>3. Clamped(success, count) = IF 5 + q < 5 THEN 5 ELSE IF 5 + q > 15 THEN 15 ELSE 5 + q
  BY DEF Clamped, q
<1> QED BY <1>2, <1>3

(* A goroutine that begins anew, or not at all (engine.go:296-320).        *)
LEMMA FreshIsSized ==
  ASSUME NEW pc \in {"idle", "look"}, NEW after, NEW objs
  PROVE  Sized(Lane(pc, after), objs)
BY DEF Sized, Lane

(* One goroutine's step that writes no statistics (engine.go:319-573).     *)
LEMMA StepKeepsSize ==
  ASSUME ListedInv, SizeInv, NEW l \in Active, NEW r, UNCHANGED <<deploy, scanned, stats>>,
         Become(l, r), Sized(r, stats[Key(l)])
  PROVE  SizeInv'
<1>1. Lanes' = Lanes /\ Active' = Active /\ Triangles' = Triangles
  BY DEF Lanes, Active, Triangles, Cfg, Load
<1>2. \A k \in Lanes : Objects(k)' = Objects(k)
  BY <1>1 DEF Objects
<1>3. l \in Lanes => Objects(l) = stats[Key(l)]
  BY DEF Objects, Key
<1>4. DOMAIN lane' = Lanes /\ \A k \in Lanes : lane'[k] = IF k = l THEN r ELSE lane[k]
  BY DEF Become, SizeInv
<1>5. \A k \in Lanes : Sized(lane'[k], Objects(k)')
  BY <1>2, <1>3, <1>4 DEF SizeInv
<1>6. \A t \in Triangles : Counted(stats'[t])
  BY DEF SizeInv
<1> QED BY <1>1, <1>4, <1>5, <1>6 DEF SizeInv

(* The same with Goto.                                                     *)
LEMMA GotoKeepsSize ==
  ASSUME ListedInv, SizeInv, NEW l \in Active, l \in Lanes, NEW pc, UNCHANGED <<deploy, scanned, stats>>,
         Goto(l, pc),
         pc \in {"idle", "hard", "stopped", "token", "slot", "stat", "record", "end"}
           \/ (pc = "ratio" /\ lane[l].ref \in 1..Len(stats[Key(l)]) /\ Object(l).count >= 1)
  PROVE  SizeInv'
<1> DEFINE r == [lane[l] EXCEPT !.pc = pc]
<1>1. Become(l, r)
  BY DEF Goto, Become
<1>2. Sized(lane[l], stats[Key(l)])
  BY DEF SizeInv, Objects, Key
<1>3. DOMAIN r = DOMAIN lane[l] /\ r.pc = pc /\ r.ref = lane[l].ref /\ r.a = lane[l].a /\ r.b = lane[l].b
      /\ r.factor = lane[l].factor
  BY <1>2 DEF Sized
<1> HIDE DEF r
<1>4. Sized(r, stats[Key(l)])
  BY <1>2, <1>3 DEF Sized, Object
<1> QED BY <1>1, <1>4, StepKeepsSize

(* The reads for the size, one by one, whatever another goroutine of the   *)
(* triangle has counted in between (engine.go:548-573).                    *)
LEMMA FactorKeepsSize ==
  ASSUME ListedInv, SizeInv, NEW l \in Active, l \in Lanes, dynamicSizeFactor(l)
  PROVE  SizeInv'
<1> DEFINE objs == stats[Key(l)]
<1>1. UNCHANGED <<deploy, scanned, stats>>
  BY DEF dynamicSizeFactor, StatKept
<1>2. Sized(lane[l], objs) /\ Key(l) \in Triangles
  BY DEF SizeInv, Objects, Key, ListedInv, Active
<1>3. Counted(objs)
  BY <1>2 DEF SizeInv
<1> HIDE DEF objs
<1>4. objs \in Seq(Records)
  BY <1>3 DEF Counted
<1>5. \A i \in 1..Len(objs) : objs[i].count \in Nat /\ objs[i].success \in Nat
  <2> TAKE i \in 1..Len(objs)
  <2>1. objs[i] \in Records
    BY <1>4
  <2> QED BY <2>1 DEF Records
<1>6. ASSUME NEW r, Become(l, r), Sized(r, objs) PROVE SizeInv'
  BY <1>1, <1>6, StepKeepsSize DEF objs
<1>7. CASE NoFactor(l)
  <2> DEFINE r == [lane[l] EXCEPT !.pc = "exec", !.factor = 8, !.ref = 0]
  <2>1. /\ DOMAIN r = DOMAIN lane[l] /\ r.pc = "exec" /\ r.a = lane[l].a /\ r.b = lane[l].b
        /\ r.factor = 8
    BY <1>2 DEF Sized
  <2>2. Become(l, r)
    BY <1>7 DEF NoFactor
  <2> HIDE DEF r
  <2>3. Sized(r, objs)
    BY <1>2, <2>1 DEF Sized
  <2> QED BY <1>6, <2>2, <2>3
<1>8. CASE LookUp(l)
  <2>1. CASE ~NoStat(Key(l))
    <3> DEFINE r == [lane[l] EXCEPT !.pc = "count", !.ref = Len(objs)]
    <3>1. /\ DOMAIN r = DOMAIN lane[l] /\ r.pc = "count" /\ r.a = lane[l].a /\ r.b = lane[l].b
          /\ r.ref = Len(objs)
      BY <1>2 DEF Sized
    <3>2. Become(l, r)
      BY <1>8, <2>1 DEF LookUp, objs
    <3> HIDE DEF r
    <3>3. Len(objs) \in 1..Len(objs)
      BY <1>4, <2>1 DEF NoStat, objs
    <3>4. Sized(r, objs)
      BY <1>2, <3>1, <3>3 DEF Sized
    <3> QED BY <1>6, <3>2, <3>4
  <2> QED BY <1>7, <1>8, <2>1 DEF LookUp
<1>9. CASE ReadCount(l)
  <2>1. CASE ~(Object(l).count < SizeMin)
    <3>1. lane[l].ref \in 1..Len(objs) /\ Object(l).count = objs[lane[l].ref].count
      BY <1>2, <1>9 DEF ReadCount, At, Sized, Object, objs
    <3>2. SizeMin \in Nat \ {0} /\ Object(l).count \in Nat
      BY <1>5, <3>1, AttemptAssumption
    <3>3. Object(l).count >= 1
      BY <2>1, <3>2
    <3>4. Goto(l, "ratio")
      BY <1>9, <2>1 DEF ReadCount
    <3> QED BY <1>1, <3>1, <3>3, <3>4, GotoKeepsSize DEF objs
  <2> QED BY <1>7, <1>9, <2>1 DEF ReadCount
<1>10. CASE ReadFirst(l)
  <2> DEFINE o == Object(l)
             r == [lane[l] EXCEPT !.pc = "thenCount", !.b = o.success]
             q == [lane[l] EXCEPT !.pc = "thenSuccess", !.a = o.count]
  <2>1. /\ lane[l].ref \in 1..Len(objs) /\ o.count \in Nat /\ o.success \in Nat
        /\ o = objs[lane[l].ref] /\ o.count >= 1
    BY <1>2, <1>5, <1>10 DEF ReadFirst, At, Sized, Object, objs
  <2>2. Become(l, r) \/ Become(l, q)
    BY <1>10 DEF ReadFirst
  <2> HIDE DEF o
  <2>3. /\ DOMAIN r = DOMAIN lane[l] /\ r.pc = "thenCount" /\ r.a = lane[l].a /\ r.b = o.success
        /\ r.ref = lane[l].ref
    BY <1>2 DEF Sized
  <2>4. /\ DOMAIN q = DOMAIN lane[l] /\ q.pc = "thenSuccess" /\ q.a = o.count /\ q.b = lane[l].b
        /\ q.ref = lane[l].ref
    BY <1>2 DEF Sized
  <2> HIDE DEF r, q
  <2>5. Sized(r, objs)
    BY <1>2, <2>1, <2>3 DEF Sized
  <2>6. Sized(q, objs)
    BY <1>2, <2>1, <2>4 DEF Sized
  <2> QED BY <1>6, <2>2, <2>5, <2>6
<1>11. CASE ReadSecond(l)
  <2> DEFINE o == Object(l)
             f == Clamped(lane[l].b, o.count)
             g == Clamped(o.success, lane[l].a)
             r == [lane[l] EXCEPT !.pc = "exec", !.factor = f, !.ref = 0, !.b = 0]
             q == [lane[l] EXCEPT !.pc = "exec", !.factor = g, !.ref = 0, !.a = 0]
  <2>1. /\ o.count \in Nat /\ o.success \in Nat /\ o.count >= 1 /\ lane[l].a \in Nat /\ lane[l].b \in Nat
    BY <1>2, <1>5, <1>11 DEF ReadSecond, At, Sized, Object, objs
  <2>2. \/ Become(l, r)
        \/ lane[l].pc = "thenSuccess" /\ Become(l, q)
    BY <1>11 DEF ReadSecond, At
  <2>3. f \in 5..15
    BY <2>1, ClampedInRange
  <2>4. lane[l].pc = "thenSuccess" => g \in 5..15
    BY <1>2, <2>1, ClampedInRange DEF Sized
  <2> HIDE DEF f, g, o
  <2>5. /\ DOMAIN r = DOMAIN lane[l] /\ r.pc = "exec" /\ r.a = lane[l].a /\ r.b = 0 /\ r.factor = f
    BY <1>2 DEF Sized
  <2>6. /\ DOMAIN q = DOMAIN lane[l] /\ q.pc = "exec" /\ q.a = 0 /\ q.b = lane[l].b /\ q.factor = g
    BY <1>2 DEF Sized
  <2> HIDE DEF r, q
  <2>7. Sized(r, objs)
    BY <1>2, <2>3, <2>5 DEF Sized
  <2>8. lane[l].pc = "thenSuccess" => Sized(q, objs)
    BY <1>2, <2>4, <2>6 DEF Sized
  <2> QED BY <1>6, <2>2, <2>7, <2>8
<1> QED BY <1>8, <1>9, <1>10, <1>11 DEF dynamicSizeFactor, StatKept

(* Objects that are counted further, and a new one, leave every goroutine  *)
(* what it has looked up (engine.go:466-497).                              *)
LEMMA SizedGrows ==
  ASSUME NEW r, NEW objs, NEW next, Sized(r, objs), Len(objs) \in Nat, Len(next) \in Nat,
         Len(objs) <= Len(next),
         \A i \in 1..Len(objs) : objs[i].count \in Nat /\ next[i].count \in Nat /\ objs[i].count <= next[i].count
  PROVE  Sized(r, next)
<1>1. r.pc \in {"count", "ratio", "thenCount", "thenSuccess"} => r.ref \in 1..Len(objs) /\ r.ref \in 1..Len(next)
  BY DEF Sized
<1>2. r.pc \in {"ratio", "thenCount", "thenSuccess"} => next[r.ref].count >= 1
  BY <1>1 DEF Sized
<1> QED BY <1>1, <1>2 DEF Sized

(* updateTriStats (engine.go:466-497).                                     *)
LEMMA UpdateKeepsSize ==
  ASSUME ListedInv, SizeInv, NEW l \in Active, l \in Lanes, updateTriStats(l)
  PROVE  SizeInv'
<1> DEFINE key   == Key(l)
           zero  == [count |-> 0, success |-> 0]
           old   == IF NoStat(key) THEN <<zero>> ELSE stats[key]
           new   == [count   |-> Last(old).count + 1,
                     success |-> Last(old).success + (IF lane[l].good THEN 1 ELSE 0)]
           kept  == [old EXCEPT ![Len(old)] = new]
           next  == IF BanDue(new) THEN Append(kept, zero) ELSE kept
<1>1. /\ stats' = [stats EXCEPT ![key] = next] /\ Goto(l, "end") /\ UNCHANGED <<deploy, scanned>>
      /\ key \in Triangles
  BY DEF updateTriStats, Key, ListedInv, Active
<1>2. zero \in Records /\ zero.count = 0 /\ zero.success = 0
  BY DEF Records
<1>3. Counted(stats[key])
  BY <1>1 DEF SizeInv
<1> HIDE DEF zero
<1>4. Counted(old) /\ Len(old) \in Nat \ {0}
  <2>1. CASE NoStat(key)
    <3>1. old = <<zero>> /\ Len(old) = 1 /\ old[1] = zero /\ <<zero>> \in Seq(Records)
      BY <1>2, <2>1
    <3> HIDE DEF old
    <3>2. \A i \in 1..Len(old) : old[i] = zero
      BY <3>1
    <3> QED BY <1>2, <3>1, <3>2 DEF Counted
  <2>2. CASE ~NoStat(key)
    BY <1>3, <2>2 DEF Counted, NoStat
  <2> QED BY <2>1, <2>2
<1>5. \A i \in 1..Len(stats[key]) : stats[key][i] = old[i] /\ Len(stats[key]) = Len(old)
  <2>1. CASE NoStat(key)
    BY <2>1 DEF NoStat
  <2>2. CASE ~NoStat(key)
    BY <2>2
  <2> QED BY <2>1, <2>2
<1>6. Len(stats[key]) \in Nat /\ Len(stats[key]) <= Len(old)
  <2>1. CASE NoStat(key)
    BY <2>1, <1>4 DEF NoStat
  <2>2. CASE ~NoStat(key)
    BY <2>2, <1>4
  <2> QED BY <2>1, <2>2
<1> HIDE DEF old
<1> DEFINE last == old[Len(old)]
<1>7. last \in Records /\ last.success <= last.count /\ Last(old) = last
  BY <1>4 DEF Counted, Last
<1>8. new \in Records /\ new.success <= new.count /\ new.count = last.count + 1 /\ last.count \in Nat
  <2>1. /\ last.count \in Nat /\ last.success \in Nat
    BY <1>7 DEF Records
  <2>2. new.count = last.count + 1 /\ new.success \in {last.success, last.success + 1}
    <3> HIDE DEF last
    <3>1. new.count = last.count + 1 /\ new.success = last.success + (IF lane[l].good THEN 1 ELSE 0)
      BY <1>7
    <3>2. last.success + 0 = last.success
      BY <2>1
    <3> QED BY <3>1, <3>2
  <2>3. new = [count |-> new.count, success |-> new.success]
    OBVIOUS
  <2> HIDE DEF new, last
  <2>4. new.count \in Nat /\ new.success \in Nat /\ new.success <= new.count
    BY <1>7, <2>1, <2>2
  <2> QED BY <2>1, <2>2, <2>3, <2>4 DEF Records
<1> HIDE DEF new
<1>9. /\ kept \in Seq(Records) /\ Len(kept) = Len(old) /\ kept[Len(old)] = new
      /\ \A i \in 1..Len(old) : i # Len(old) => kept[i] = old[i]
  BY <1>4, <1>8 DEF Counted
<1> HIDE DEF kept
<1>10. Counted(kept) /\ \A i \in 1..Len(old) : /\ old[i].count \in Nat /\ kept[i].count \in Nat
                                                /\ old[i].count <= kept[i].count
  <2>1. ASSUME NEW i \in 1..Len(old)
        PROVE  /\ kept[i].success <= kept[i].count /\ old[i].count \in Nat /\ kept[i].count \in Nat
               /\ old[i].count <= kept[i].count
    <3>1. old[i] \in Records /\ kept[i] \in Records /\ old[i].success <= old[i].count
      BY <1>4, <1>9 DEF Counted
    <3>2. old[i].count \in Nat /\ kept[i].count \in Nat
      BY <3>1 DEF Records
    <3>3. CASE i = Len(old)
      BY <1>8, <1>9, <3>2, <3>3
    <3>4. CASE i # Len(old)
      BY <1>9, <3>1, <3>2, <3>4
    <3> QED BY <3>2, <3>3, <3>4
  <2> QED BY <1>9, <2>1 DEF Counted
<1>11. /\ Counted(next) /\ Len(next) \in Nat /\ Len(old) <= Len(next)
       /\ \A i \in 1..Len(old) : next[i] = kept[i]
  <2>1. CASE BanDue(new)
    <3>1. next = Append(kept, zero)
      BY <2>1
    <3>2. /\ Append(kept, zero) \in Seq(Records) /\ Len(Append(kept, zero)) = Len(old) + 1
          /\ Append(kept, zero)[Len(old) + 1] = zero
          /\ \A i \in 1..Len(old) : Append(kept, zero)[i] = kept[i]
      BY <1>2, <1>4, <1>9
    <3> HIDE DEF next
    <3>3. Len(next) = Len(old) + 1 /\ \A i \in 1..Len(old) : next[i] = kept[i]
      BY <3>1, <3>2
    <3>4. \A i \in 1..Len(next) : next[i].success <= next[i].count
      <4> TAKE i \in 1..Len(next)
      <4>1. CASE i \in 1..Len(old)
        BY <1>9, <1>10, <3>3, <4>1 DEF Counted
      <4>2. CASE i = Len(old) + 1
        BY <1>2, <3>1, <3>2, <4>2
      <4> QED BY <1>4, <3>3, <4>1, <4>2
    <3> QED BY <1>4, <3>1, <3>2, <3>3, <3>4 DEF Counted
  <2>2. CASE ~BanDue(new)
    BY <1>4, <1>9, <1>10, <2>2
  <2> QED BY <2>1, <2>2
<1> HIDE DEF next
<1>12. Lanes' = Lanes /\ Active' = Active /\ Triangles' = Triangles
  BY <1>1 DEF Lanes, Active, Triangles, Cfg, Load
<1>13. DOMAIN stats' = Triangles /\ \A t \in Triangles : stats'[t] = IF t = key THEN next ELSE stats[t]
  BY <1>1 DEF SizeInv
<1>14. \A t \in Triangles : Counted(stats'[t])
  BY <1>11, <1>13 DEF SizeInv
<1>15. ASSUME NEW r, NEW t \in Triangles, Sized(r, stats[t]) PROVE Sized(r, stats'[t])
  <2>1. CASE t = key
    <3>1. \A i \in 1..Len(stats[key]) : /\ i \in 1..Len(old) /\ stats[key][i].count \in Nat
                                         /\ next[i].count \in Nat /\ stats[key][i].count <= next[i].count
      BY <1>4, <1>5, <1>6, <1>10, <1>11
    <3>2. Len(stats[key]) <= Len(next)
      BY <1>4, <1>6, <1>11
    <3>3. Sized(r, next)
      BY <1>6, <1>11, <1>15, <2>1, <3>1, <3>2, SizedGrows
    <3> QED BY <1>13, <2>1, <3>3
  <2>2. CASE t # key
    BY <1>13, <1>15, <2>2
  <2> QED BY <2>1, <2>2
<1>16. \A k \in Lanes : Sized(lane[k], Objects(k)')
  <2> TAKE k \in Lanes
  <2>1. CASE k \in Active
    <3>1. Objects(k) = stats[scanned[k]] /\ Objects(k)' = stats'[scanned[k]] /\ scanned[k] \in Triangles
      BY <1>1, <1>12, <2>1 DEF Objects, ListedInv, Active
    <3> QED BY <1>15, <3>1 DEF SizeInv
  <2>2. CASE k \notin Active
    BY <1>12, <2>2 DEF Objects, SizeInv
  <2> QED BY <2>1, <2>2
<1>17. /\ DOMAIN lane' = Lanes /\ \A k \in Lanes : k # l => lane'[k] = lane[k]
       /\ lane'[l] = [lane[l] EXCEPT !.pc = "end"]
  BY <1>1 DEF Goto, SizeInv
<1>18. Sized(lane'[l], Objects(l)')
  BY <1>16, <1>17 DEF Sized
<1> QED BY <1>12, <1>13, <1>14, <1>16, <1>17, <1>18 DEF SizeInv

(* Every step of a goroutine (engine.go:319-573).                          *)
LEMMA AttemptKeepsSize ==
  ASSUME ListedInv, SizeInv, NEW l \in Active, l \in Lanes, AttemptStep(l)
  PROVE  SizeInv'
<1>1. UNCHANGED <<deploy, scanned>> /\ (UNCHANGED stats \/ updateTriStats(l))
  BY DEF AttemptStep, Look, CheckHard, CheckStopped, TakeToken, TakeSlot, dynamicSizeFactor,
         StatKept, executeTriangle, updateTriStats, Leave
<1>2. Sized(lane[l], stats[Key(l)])
  BY DEF SizeInv, Objects, Key
<1>3. ASSUME NEW pc \in {"idle", "hard", "stopped", "token", "slot", "stat", "record", "end"}, NEW r,
             UNCHANGED stats, Become(l, r), DOMAIN r = DOMAIN lane[l], r.pc = pc,
             r.a = lane[l].a, r.b = lane[l].b
      PROVE  SizeInv'
  <2>1. Sized(r, stats[Key(l)])
    BY <1>2, <1>3 DEF Sized
  <2> QED BY <1>1, <1>3, <2>1, StepKeepsSize
<1>4. ASSUME NEW pc \in {"idle", "token", "slot", "stat"}, UNCHANGED stats, Goto(l, pc)
      PROVE  SizeInv'
  BY <1>1, <1>4, GotoKeepsSize
<1>5. CASE Look(l)
  <2>1. CASE Goto(l, "idle")
    BY <1>4, <1>5, <2>1 DEF Look
  <2>2. ASSUME NEW m, NEW d, Become(l, [lane[l] EXCEPT !.pc = "hard", !.m = m, !.dir = d])
        PROVE  SizeInv'
    <3> DEFINE r == [lane[l] EXCEPT !.pc = "hard", !.m = m, !.dir = d]
    <3>1. DOMAIN r = DOMAIN lane[l] /\ r.pc = "hard" /\ r.a = lane[l].a /\ r.b = lane[l].b
      BY <1>2 DEF Sized
    <3>2. Become(l, r) /\ UNCHANGED stats
      BY <1>5, <2>2 DEF Look
    <3> HIDE DEF r
    <3> QED BY <1>3, <3>1, <3>2
  <2> QED BY <1>5, <2>1, <2>2 DEF Look
<1>6. CASE CheckHard(l)
  <2> DEFINE r == [lane[l] EXCEPT !.pc = "stopped", !.m = "none", !.dir = "F"]
  <2>1. DOMAIN r = DOMAIN lane[l] /\ r.pc = "stopped" /\ r.a = lane[l].a /\ r.b = lane[l].b
    BY <1>2 DEF Sized
  <2>2. Become(l, r) /\ UNCHANGED stats
    BY <1>6 DEF CheckHard
  <2> HIDE DEF r
  <2> QED BY <1>3, <2>1, <2>2
<1>7. CASE CheckStopped(l) \/ TakeToken(l) \/ TakeSlot(l)
  BY <1>4, <1>7 DEF CheckStopped, TakeToken, TakeSlot
<1>8. CASE executeTriangle(l)
  <2>1. PICK good \in BOOLEAN :
          Become(l, [lane[l] EXCEPT !.pc = "record", !.good = good, !.factor = 10])
    BY <1>8 DEF executeTriangle
  <2> DEFINE r == [lane[l] EXCEPT !.pc = "record", !.good = good, !.factor = 10]
  <2>2. DOMAIN r = DOMAIN lane[l] /\ r.pc = "record" /\ r.a = lane[l].a /\ r.b = lane[l].b
    BY <1>2 DEF Sized
  <2>3. Become(l, r) /\ UNCHANGED stats
    BY <1>8, <2>1 DEF executeTriangle
  <2> HIDE DEF r
  <2> QED BY <1>3, <2>2, <2>3
<1>9. CASE Leave(l)
  <2>1. Become(l, Lane("idle", FALSE)) /\ UNCHANGED stats
    BY <1>9 DEF Leave
  <2> QED BY <1>1, <2>1, FreshIsSized, StepKeepsSize
<1> QED BY <1>5, <1>6, <1>7, <1>8, <1>9, FactorKeepsSize, UpdateKeepsSize DEF AttemptStep

(* Goroutines, their objects and the list they index fit together at every *)
(* step of the process (engine.go:73-573).                                 *)
LEMMA SizeInvHolds == ProcessSpec => []SizeInv
<1>1. ProcessInit => SizeInv
  <2> SUFFICES ASSUME ProcessInit PROVE SizeInv
    OBVIOUS
  <2>1. lane = [k \in Lanes |-> Lane("idle", FALSE)] /\ stats = [t \in Triangles |-> <<>>]
    BY DEF ProcessInit
  <2>2. Counted(<<>>)
    BY DEF Counted
  <2>3. \A k \in Lanes : Sized(lane[k], Objects(k))
    BY <2>1, FreshIsSized
  <2> QED BY <2>1, <2>2, <2>3 DEF SizeInv
<1>2. AllowedInv /\ ListedInv /\ ListedInv' /\ SizeInv /\ [Next]_vars => SizeInv'
  <2> SUFFICES ASSUME AllowedInv, ListedInv, ListedInv', SizeInv, [Next]_vars PROVE SizeInv'
    OBVIOUS
  <2>1. ASSUME UNCHANGED <<deploy, stats>>, DOMAIN lane' = Lanes,
               \A k \in Lanes : Sized(lane'[k], Objects(k)')
        PROVE  SizeInv'
    <3>1. Lanes' = Lanes /\ Triangles' = Triangles
      BY <2>1 DEF Lanes, Triangles, Cfg, Load
    <3>2. \A t \in Triangles : Counted(stats'[t])
      BY <2>1 DEF SizeInv
    <3> QED BY <2>1, <3>1, <3>2 DEF SizeInv
  <2>2. CASE MainStep \/ Signal \/ Answer \/ scanCrossTick \/ UNCHANGED vars
    <3>1. UNCHANGED <<deploy, scanned, lane, stats>>
      BY <2>2 DEF MainStep, ReadSettings, StartWorker, SetReady, Notify, Select, Shutdown,
         Drain, Signal, Answer, scanCrossTick, vars, attemptVars
    <3>2. \A k \in Lanes : Objects(k)' = Objects(k)
      BY <3>1 DEF Objects, Active
    <3> QED BY <2>1, <3>1, <3>2 DEF SizeInv
  <2>3. CASE Startup
    <3>1. UNCHANGED <<deploy, lane, stats>> /\ worker = "startup"
      BY <2>3 DEF Startup
    <3>2. \A k \in Lanes : Sized(lane[k], Objects(k)) /\ lane[k].pc = "idle"
      BY <3>1 DEF SizeInv, AllowedInv
    <3>3. \A k \in Lanes : Sized(lane[k], Objects(k)')
      BY <3>2 DEF Sized
    <3> QED BY <2>1, <3>1, <3>3 DEF SizeInv
  <2>4. CASE Tick
    <3>1. /\ UNCHANGED <<deploy, scanned, stats>>
          /\ lane' = [k \in Lanes |-> IF k \in Active /\ "" \notin LegsOf(Key(k))
                                      THEN Lane("look", stopped) ELSE Lane("idle", FALSE)]
      BY <2>4 DEF Tick, NextTick
    <3>2. \A k \in Lanes : Sized(lane'[k], Objects(k)')
      BY <3>1, FreshIsSized
    <3> QED BY <2>1, <3>1, <3>2
  <2>5. ASSUME NEW l \in Active, Triangle(l) PROVE SizeInv'
    <3>1. l \in Lanes
      BY AttemptAssumption DEF Active, Lanes, ListedInv
    <3> QED BY <2>5, <3>1, AttemptKeepsSize DEF Triangle
  <2> QED BY <2>2, <2>3, <2>4, <2>5 DEF Next, WorkerStep
<1> QED BY <1>1, <1>2, AllowedInvHolds, ListedInvHolds, PTL DEF ProcessSpec

(* However many goroutines of one triangle count their executions between  *)
(* the unlocked reads of another, and in whichever order Go reads the two  *)
(* fields: the quotient is never taken by zero, and what is executed has   *)
(* a size of half to one and a half (engine.go:548-573, 466-497).          *)
THEOREM SizeFactorInRangeHolds == ProcessSpec => []SizeFactorInRange
<1>1. ListedInv /\ SizeInv => SizeFactorInRange
  <2> SUFFICES ASSUME ListedInv, SizeInv, NEW l \in Active, At(l, "exec")
               PROVE  lane[l].factor \in 5..15
    BY DEF SizeFactorInRange
  <2>1. l \in Lanes
    BY AttemptAssumption DEF Active, Lanes, ListedInv
  <2> QED BY <2>1 DEF SizeInv, Sized, At
<1> QED BY <1>1, ListedInvHolds, SizeInvHolds, PTL


-----------------------------------------------------------------------------
(* The flags and the places of main and of the worker.                     *)
FlagInv ==
  /\ tick \in 0..MaxTicks
  /\ hard \in BOOLEAN /\ stopped \in BOOLEAN
  /\ ready \in BOOLEAN /\ request \in BOOLEAN /\ signal \in BOOLEAN
  /\ main \in Early \cup {"select", "shutdown", "draining", "gone"}
  /\ cross \in {"due", "over"}

(* Every step leaves them what they are (main.go:27-117, engine.go:296-    *)
(* 457).                                                                   *)
LEMMA FlagInvHolds == ProcessSpec => []FlagInv
<1> USE DEF FlagInv, Early
<1>1. ProcessInit => FlagInv
  <2> SUFFICES ASSUME ProcessInit PROVE FlagInv
    OBVIOUS
  <2>1. 0 \in 0..MaxTicks
    BY AttemptAssumption
  <2> QED BY <2>1 DEF ProcessInit
<1>2. FlagInv /\ [Next]_vars => FlagInv'
  <2> SUFFICES ASSUME FlagInv, [Next]_vars PROVE FlagInv'
    OBVIOUS
  <2>1. CASE UNCHANGED vars
    BY <2>1 DEF vars, attemptVars, mainVars, workerVars
  <2>2. CASE MainStep
    <3>1. UNCHANGED <<tick, hard, stopped, signal, cross>>
      BY <2>2 DEF MainStep, ReadSettings, StartWorker, SetReady, Notify, Select, Shutdown,
         Drain, attemptVars, workerVars
    <3>2. /\ ready' \in BOOLEAN /\ request' \in BOOLEAN
          /\ main' \in Early \cup {"select", "shutdown", "draining", "gone"}
      BY <2>2 DEF MainStep, ReadSettings, StartWorker, SetReady, Notify, Select, Shutdown,
         Drain, MainGoes
    <3> QED BY <3>1, <3>2
  <2>3. CASE Signal \/ Answer
    BY <2>3 DEF Signal, Answer, attemptVars, workerVars
  <2>4. CASE Startup
    BY <2>4 DEF Startup, mainVars
  <2>5. CASE Tick
    <3>1. tick' = tick + 1 /\ tick < MaxTicks /\ cross' = "due" /\ UNCHANGED <<hard, stopped, mainVars>>
      BY <2>5 DEF Tick, NextTick
    <3>2. tick + 1 \in 0..MaxTicks
      BY <3>1, AttemptAssumption
    <3> QED BY <3>1, <3>2 DEF mainVars
  <2>6. ASSUME NEW l \in Active, Triangle(l) PROVE FlagInv'
    <3>1. UNCHANGED <<mainVars, workerVars>> /\ AttemptStep(l)
      BY <2>6 DEF Triangle
    <3>2. UNCHANGED tick /\ hard' \in BOOLEAN /\ stopped' \in BOOLEAN
      BY <3>1 DEF AttemptStep, Look, CheckHard, CheckStopped, TakeToken, TakeSlot, dynamicSizeFactor,
         StatKept, executeTriangle, updateTriStats, Leave
    <3> QED BY <3>1, <3>2 DEF mainVars, workerVars
  <2>7. CASE scanCrossTick
    BY <2>7 DEF scanCrossTick, mainVars
  <2> QED BY <2>1, <2>2, <2>3, <2>4, <2>5, <2>6, <2>7 DEF Next, WorkerStep
<1> QED BY <1>1, <1>2, PTL DEF ProcessSpec

(* Numbers as Go's int: a limit of orders that is not negative, and any    *)
(* number of slots.                                                        *)
LimitsAreNumbers ==
  \A d \in DOMAIN Deployments : /\ Load[d]["MAX_ORDERS_PER_MIN"] \in Nat
                                /\ Load[d]["MAX_CONCURRENT_TRIANGLES"] \in Int

TokenInv == tokens \in 0..Cfg["MAX_ORDERS_PER_MIN"]

(* Tokens are taken only if they are there, two for each cross-exchange    *)
(* attempt, and added up to the limit (engine.go:264-290, 413-420,         *)
(* cross.go:25-58).                                                        *)
LEMMA TokenInvHolds == ASSUME LimitsAreNumbers PROVE ProcessSpec => []TokenInv
<1>1. ProcessInit => TokenInv
  <2> SUFFICES ASSUME ProcessInit PROVE TokenInv
    OBVIOUS
  <2>1. tokens = Cfg["MAX_ORDERS_PER_MIN"] /\ Cfg["MAX_ORDERS_PER_MIN"] \in Nat
    BY DEF ProcessInit, LimitsAreNumbers, Cfg
  <2> QED BY <2>1 DEF TokenInv
<1>2. AllowedInv /\ TokenInv /\ [Next]_vars => TokenInv'
  <2> SUFFICES ASSUME AllowedInv, TokenInv, [Next]_vars PROVE TokenInv'
    OBVIOUS
  <2> DEFINE m == Cfg["MAX_ORDERS_PER_MIN"]
  <2>1. m \in Nat /\ tokens \in 0..m
    BY DEF LimitsAreNumbers, Cfg, AllowedInv, TokenInv
  <2>2. UNCHANGED deploy
    <3>1. ASSUME NEW l \in Active, Triangle(l) PROVE UNCHANGED deploy
      BY <3>1, AttemptMoves DEF Triangle, AllowedInv, StopInv
    <3> QED BY <3>1 DEF Next, MainStep, ReadSettings, StartWorker, SetReady, Notify, Select, Shutdown, Drain,
           Signal, Answer, WorkerStep, Startup, Tick, NextTick, scanCrossTick, vars, attemptVars
  <2>3. m' = m
    BY <2>2 DEF Cfg, Load
  <2> HIDE DEF m
  <2>4. SUFFICES tokens' \in 0..m
    BY <2>3 DEF TokenInv, m
  <2>5. CASE UNCHANGED tokens
    BY <2>1, <2>5
  <2>6. CASE Tick
    <3>1. tokens' = IF tokens + TokensPerTick < m THEN tokens + TokensPerTick ELSE m
      BY <2>6 DEF Tick, NextTick, m
    <3>2. PICK t \in 0..m : t = tokens
      BY <2>1
    <3>3. tokens' = IF t + TokensPerTick < m THEN t + TokensPerTick ELSE m
      BY <3>1, <3>2
    <3>4. (IF t + TokensPerTick < m THEN t + TokensPerTick ELSE m) \in 0..m
      BY <2>1, AttemptAssumption
    <3> QED BY <3>3, <3>4
  <2>7. ASSUME NEW l \in Active, TakeToken(l), tokens >= 1, tokens' = tokens - 1 PROVE tokens' \in 0..m
    <3>1. tokens - 1 \in 0..m
      BY <2>1, <2>7
    <3> QED BY <2>7, <3>1
  <2>8. CASE scanCrossTick
    <3>1. SUFFICES ASSUME NEW k \in 1..(tokens \div 2), tokens' = tokens - 2 * k PROVE tokens' \in 0..m
      BY <2>5, <2>8 DEF scanCrossTick
    <3>2. tokens - 2 * k \in 0..m
      BY <2>1
    <3> QED BY <3>1, <3>2
  <2>9. ASSUME NEW l \in Active, Triangle(l) PROVE tokens' \in 0..m
    <3>1. UNCHANGED tokens \/ TakeToken(l)
      BY <2>9 DEF Triangle, AttemptStep, Look, CheckHard, CheckStopped, TakeSlot, dynamicSizeFactor,
         StatKept, executeTriangle, updateTriStats, Leave
    <3> QED BY <2>5, <2>7, <3>1 DEF TakeToken
  <2>10. CASE MainStep \/ Signal \/ Answer \/ Startup \/ UNCHANGED vars
    BY <2>5, <2>10 DEF MainStep, ReadSettings, StartWorker, SetReady, Notify, Select, Shutdown,
       Drain, Signal, Answer, Startup, vars, attemptVars
  <2> QED BY <2>6, <2>8, <2>9, <2>10 DEF Next, WorkerStep
<1> QED BY <1>1, <1>2, AllowedInvHolds, PTL DEF ProcessSpec

(* The goroutines that hold an element of e.execSem.                       *)
Holders == {k \in Active : lane[k].pc \in Executing}

SlotInv == slots = Cardinality(Holders) /\ slots <= SlotCap

(* A goroutine's step takes a slot that is free, gives its own back, or    *)
(* leaves it held or not held (engine.go:421-430).                         *)
LEMMA SlotMoves ==
  ASSUME Shape, NEW l \in Lanes, AttemptStep(l)
  PROVE  /\ DOMAIN lane' = Lanes
         /\ \A k \in Lanes : k # l => lane'[k] = lane[k]
         /\ \/ /\ UNCHANGED slots
               /\ lane[l].pc \in Executing <=> lane'[l].pc \in Executing
            \/ /\ slots < SlotCap /\ slots' = slots + 1
               /\ lane[l].pc \notin Executing /\ lane'[l].pc \in Executing
            \/ /\ slots' = slots - 1
               /\ lane[l].pc \in Executing /\ lane'[l].pc \notin Executing
<1> DEFINE Others == DOMAIN lane' = Lanes /\ \A k \in Lanes : k # l => lane'[k] = lane[k]
<1>1. ASSUME NEW r, Become(l, r) PROVE Others /\ lane'[l] = r
  BY <1>1 DEF Shape, Become
<1>2. ASSUME NEW pc, Goto(l, pc) PROVE Others /\ lane'[l].pc = pc
  BY <1>2 DEF Shape, Goto
<1>3. "pc" \in DOMAIN lane[l]
  BY DEF Shape
<1> HIDE DEF Others
<1>4. CASE Look(l)
  <2>1. CASE Goto(l, "idle")
    <3>1. Others /\ lane'[l].pc = "idle"
      BY <1>2, <2>1
    <3>2. UNCHANGED slots /\ lane[l].pc = "look"
      BY <1>4 DEF Look, At
    <3> QED BY <3>1, <3>2 DEF Others
  <2>2. ASSUME NEW m, NEW d, Become(l, [lane[l] EXCEPT !.pc = "hard", !.m = m, !.dir = d])
        PROVE  Others /\ lane'[l].pc = "hard"
    <3> DEFINE r == [lane[l] EXCEPT !.pc = "hard", !.m = m, !.dir = d]
    <3>1. r.pc = "hard"
      BY <1>3
    <3>2. Become(l, r)
      BY <2>2
    <3> HIDE DEF r
    <3> QED BY <1>1, <3>1, <3>2
  <2> QED BY <1>4, <2>1, <2>2 DEF Look, At, Others
<1>5. CASE CheckHard(l)
  <2> DEFINE r == [lane[l] EXCEPT !.pc = "stopped", !.m = "none", !.dir = "F"]
  <2>1. r.pc = "stopped" /\ Become(l, r)
    BY <1>3, <1>5 DEF CheckHard
  <2> HIDE DEF r
  <2>2. Others /\ lane'[l].pc = "stopped"
    BY <1>1, <2>1
  <2> QED BY <1>5, <2>2 DEF CheckHard, At, Others
<1>6. CASE CheckStopped(l) \/ TakeToken(l) \/ TakeSlot(l) \/ updateTriStats(l)
  BY <1>2, <1>6 DEF CheckStopped, TakeToken, TakeSlot, updateTriStats, At, Others
<1>7. CASE dynamicSizeFactor(l)
  <2>1. ASSUME NEW r, Become(l, r), r.pc \in Executing
        PROVE  Others /\ lane'[l].pc \in Executing
    BY <1>1, <2>1
  <2>2. Others /\ lane'[l].pc \in Executing
    <3>1. CASE LookUp(l)
      BY <1>3, <2>1, <3>1 DEF LookUp, NoFactor
    <3>2. CASE ReadCount(l)
      BY <1>2, <1>3, <2>1, <3>2 DEF ReadCount, NoFactor
    <3>3. CASE ReadFirst(l)
      BY <1>3, <2>1, <3>3 DEF ReadFirst
    <3>4. CASE ReadSecond(l)
      BY <1>3, <2>1, <3>4 DEF ReadSecond
    <3> QED BY <1>7, <3>1, <3>2, <3>3, <3>4 DEF dynamicSizeFactor, StatKept
  <2>3. lane[l].pc \in Executing /\ UNCHANGED slots
    BY <1>7 DEF dynamicSizeFactor, StatKept, LookUp, ReadCount, ReadFirst, ReadSecond, At
  <2> QED BY <2>2, <2>3 DEF Others
<1>8. CASE executeTriangle(l)
  <2>1. PICK good \in BOOLEAN :
          Become(l, [lane[l] EXCEPT !.pc = "record", !.good = good, !.factor = 10])
    BY <1>8 DEF executeTriangle
  <2> DEFINE r == [lane[l] EXCEPT !.pc = "record", !.good = good, !.factor = 10]
  <2>2. r.pc = "record" /\ Become(l, r)
    BY <1>3, <2>1
  <2> HIDE DEF r
  <2>3. Others /\ lane'[l].pc = "record"
    BY <1>1, <2>2
  <2> QED BY <1>8, <2>3 DEF executeTriangle, At, Others
<1>9. CASE Leave(l)
  <2>1. Others /\ lane'[l].pc = "idle"
    BY <1>1, <1>9 DEF Leave, Lane
  <2> QED BY <1>9, <2>1 DEF Leave, At, Others
<1> QED BY <1>4, <1>5, <1>6, <1>7, <1>8, <1>9 DEF AttemptStep

(* The elements in the channel are those of the goroutines that put one    *)
(* there, and never more than it holds (engine.go:66-71, 421-430).         *)
LEMMA SlotInvHolds == ASSUME LimitsAreNumbers PROVE ProcessSpec => []SlotInv
<1>1. ProcessInit => SlotInv
  <2> SUFFICES ASSUME ProcessInit PROVE SlotInv
    OBVIOUS
  <2>1. slots = 0 /\ scanned = <<>> /\ Cfg["MAX_CONCURRENT_TRIANGLES"] \in Int
    BY DEF ProcessInit, LimitsAreNumbers, Cfg
  <2>2. Holders = {}
    BY <2>1 DEF Holders, Active
  <2>3. 0 <= SlotCap
    BY <2>1 DEF SlotCap
  <2> QED BY <2>1, <2>2, <2>3, FS_EmptySet DEF SlotInv
<1>2. AllowedInv /\ ListedInv /\ ListedInv' /\ SlotInv /\ [Next]_vars => SlotInv'
  <2> SUFFICES ASSUME AllowedInv, ListedInv, ListedInv', SlotInv, [Next]_vars PROVE SlotInv'
    OBVIOUS
  <2>1. /\ Active \subseteq Lanes /\ IsFiniteSet(Active) /\ IsFiniteSet(Holders)
        /\ slots \in Nat /\ SlotCap \in Int
    <3>1. Active = 1..Len(scanned) /\ Len(scanned) \in Nat /\ 1 \in Int
      BY DEF ListedInv, Active
    <3>2. IsFiniteSet(Active) /\ Active \subseteq Lanes
      <4>1. IsFiniteSet(1..Len(scanned))
        BY <3>1, FS_Interval
      <4> QED BY <3>1, <4>1, AttemptAssumption DEF Lanes, ListedInv
    <3>3. IsFiniteSet(Holders)
      BY <3>2, FS_Subset DEF Holders
    <3>4. Cfg["MAX_CONCURRENT_TRIANGLES"] \in Int
      BY DEF AllowedInv, LimitsAreNumbers, Cfg
    <3> QED BY <3>2, <3>3, <3>4, FS_CardinalityType DEF SlotInv, SlotCap
  <2>2. ASSUME UNCHANGED <<deploy, slots>>, Holders' = Holders PROVE SlotInv'
    BY <2>2 DEF SlotInv, SlotCap, Cfg, Load
  <2>3. CASE MainStep \/ Signal \/ Answer \/ scanCrossTick \/ UNCHANGED vars
    <3>1. UNCHANGED <<deploy, scanned, lane, slots>>
      BY <2>3 DEF MainStep, ReadSettings, StartWorker, SetReady, Notify, Select, Shutdown,
         Drain, Signal, Answer, scanCrossTick, vars, attemptVars
    <3> QED BY <2>2, <3>1 DEF Holders, Active
  <2>4. CASE Startup
    <3>1. UNCHANGED <<deploy, lane, slots>> /\ worker = "startup" /\ scanned = <<>>
      BY <2>4 DEF Startup, ListedInv
    <3>2. Active' \subseteq Lanes
      BY AttemptAssumption DEF ListedInv, Active, Lanes
    <3>3. \A k \in Lanes : lane[k].pc = "idle"
      BY <3>1 DEF AllowedInv
    <3>4. Holders' = {} /\ Holders = {}
      BY <3>1, <3>2, <3>3 DEF Holders, Active
    <3> QED BY <2>2, <3>1, <3>4
  <2>5. CASE Tick
    <3>1. /\ UNCHANGED <<deploy, scanned, slots>> /\ \A k \in Active : lane[k].pc = "idle"
          /\ lane' = [k \in Lanes |-> IF k \in Active /\ "" \notin LegsOf(Key(k))
                                      THEN Lane("look", stopped) ELSE Lane("idle", FALSE)]
      BY <2>5 DEF Tick, NextTick, AllIdle
    <3>2. \A k \in Lanes : lane'[k].pc \notin Executing
      BY <3>1 DEF Lane
    <3>3. Holders = {} /\ Holders' = {}
      BY <2>1, <3>1, <3>2 DEF Holders, Active
    <3> QED BY <2>2, <3>1, <3>3
  <2>6. ASSUME NEW l \in Active, Triangle(l) PROVE SlotInv'
    <3>1. l \in Lanes /\ UNCHANGED <<deploy, scanned>> /\ AttemptStep(l)
      BY <2>1, <2>6, AttemptMoves DEF Triangle, AllowedInv, StopInv
    <3>2. Active' = Active /\ SlotCap' = SlotCap
      BY <3>1 DEF Active, SlotCap, Cfg, Load
    <3>3. \A k \in Active : k # l => lane'[k] = lane[k]
      BY <2>1, <3>1, SlotMoves DEF AllowedInv, StopInv
    <3>4. CASE UNCHANGED slots /\ (lane[l].pc \in Executing <=> lane'[l].pc \in Executing)
      <4>1. Holders' = Holders
        BY <3>2, <3>3, <3>4 DEF Holders
      <4> QED BY <2>2, <3>1, <3>4, <4>1
    <3>5. CASE /\ slots < SlotCap /\ slots' = slots + 1
               /\ lane[l].pc \notin Executing /\ lane'[l].pc \in Executing
      <4>1. Holders' = Holders \cup {l} /\ l \notin Holders
        BY <3>2, <3>3, <3>5 DEF Holders
      <4>2. Cardinality(Holders \cup {l}) = Cardinality(Holders) + 1
        BY <2>1, <4>1, FS_AddElement
      <4>3. slots + 1 <= SlotCap
        BY <2>1, <3>5
      <4> QED BY <3>2, <3>5, <4>1, <4>2, <4>3 DEF SlotInv
    <3>6. CASE /\ slots' = slots - 1
               /\ lane[l].pc \in Executing /\ lane'[l].pc \notin Executing
      <4>1. Holders' = Holders \ {l} /\ l \in Holders
        BY <3>2, <3>3, <3>6 DEF Holders
      <4>2. Cardinality(Holders \ {l}) = Cardinality(Holders) - 1
        BY <2>1, <4>1, FS_RemoveElement
      <4>3. slots - 1 <= SlotCap
        BY <2>1 DEF SlotInv
      <4> QED BY <3>2, <3>6, <4>1, <4>2, <4>3 DEF SlotInv
    <3> QED BY <3>1, <3>4, <3>5, <3>6, SlotMoves DEF AllowedInv, StopInv
  <2> QED BY <2>3, <2>4, <2>5, <2>6 DEF Next, WorkerStep
<1> QED BY <1>1, <1>2, AllowedInvHolds, ListedInvHolds, PTL DEF ProcessSpec

(* For every deployment whose limit of orders is not negative: the type    *)
(* invariant of the process; above all, the tokens stay within the limit,  *)
(* and the slots in use are those of the goroutines between engine.go:421  *)
(* and their end, no more than the channel holds.                          *)
THEOREM ProcessTypeCorrect == ASSUME LimitsAreNumbers PROVE ProcessSpec => []ProcessTypeOK
<1>1. ListedInv /\ SizeInv /\ FlagInv /\ TokenInv /\ SlotInv => ProcessTypeOK
  <2> SUFFICES ASSUME ListedInv, SizeInv, FlagInv, TokenInv, SlotInv PROVE ProcessTypeOK
    OBVIOUS
  <2>1. \A t \in DOMAIN stats : \A i \in DOMAIN stats[t] : stats[t][i].success <= stats[t][i].count
    BY DEF SizeInv, Counted
  <2>2. \A l \in Lanes : lane[l].pc \in LanePCs /\ {lane[l].a, lane[l].b} \subseteq Nat
    BY DEF SizeInv, Sized
  <2>3. slots = Cardinality({l \in Active : lane[l].pc \in Executing}) /\ slots <= SlotCap
    BY DEF SlotInv, Holders
  <2>4. AttemptTypeOK
    BY <2>1, <2>2, <2>3 DEF AttemptTypeOK, ListedInv, FlagInv, TokenInv
  <2> QED BY <2>4 DEF ProcessTypeOK, ListedInv, FlagInv
<1> QED BY <1>1, ListedInvHolds, SizeInvHolds, FlagInvHolds, TokenInvHolds, SlotInvHolds, PTL
=============================================================================
