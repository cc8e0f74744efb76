------------------------ MODULE TriangleExecProofs ------------------------
(***************************************************************************)
(* Proofs about the triangle execution, for any number of workers, any     *)
(* triangles, sizes, prices and limits, and every fault of the exchange.   *)
(* Account says for every place in executeTriangle what the worker has     *)
(* bought and sold when it is there, PendingLegs which legs were approved  *)
(* and are still to be booked.                                             *)
(***************************************************************************)
EXTENDS TriangleExec, RiskEngineProofs

Placing == {"place1", "place2", "place3"}

(* The locals are records with a place, whatever else is in them.          *)
Shape == DOMAIN job = Workers /\ \A w \in Workers : "pc" \in DOMAIN job[w]

(* The clock stands at the day of the last reset, and who has sent an      *)
(* order under the hard stop is not about to send another.                 *)
LateInv ==
  /\ Shape
  /\ today = 1 /\ lastResetDate = 1
  /\ late \in [Workers -> {0, 1}]
  /\ hardStopTriggered \in BOOLEAN
  /\ \A w \in Workers : late[w] = 1 => hardStopTriggered /\ job[w].pc \notin Placing

(* Worker w goes to a place in to.                                         *)
Goes(w, to) ==
  /\ DOMAIN job' = Workers
  /\ \A v \in Workers : v # w => job'[v] = job[v]
  /\ "pc" \in DOMAIN job'[w] /\ job'[w].pc \in to

(* The risk engine keeps its dates and, if it is set, its hard stop.       *)
StopKept ==
  /\ UNCHANGED <<today, lastResetDate>>
  /\ hardStopTriggered' \in BOOLEAN /\ (hardStopTriggered => hardStopTriggered')

-----------------------------------------------------------------------------
(* What writing the locals does to the place (live.go:161-479).            *)
LEMMA BecomeGoes ==
  ASSUME Shape, NEW w \in Workers, NEW j, NEW to, Become(w, j), "pc" \in DOMAIN j, j.pc \in to
  PROVE  Goes(w, to)
BY DEF Shape, Become, Goes

(* Going to a place where no order is sent, and going anywhere while the   *)
(* hard stop is not set.                                                   *)
LEMMA QuietStep ==
  ASSUME LateInv, NEW w \in Workers, NEW to, Goes(w, to), UNCHANGED late, StopKept,
         to \cap Placing = {} \/ ~hardStopTriggered
  PROVE  LateInv'
BY DEF LateInv, Goes, Shape, StopKept

(* Sending an order, at a place where one is sent, and leaving it.         *)
LEMMA PlaceStep ==
  ASSUME LateInv, NEW w \in Workers, NEW to, Goes(w, to), to \cap Placing = {},
         job[w].pc \in Placing, CountLate(w), UNCHANGED vars
  PROVE  LateInv'
<1>1. late[w] = 0
  BY DEF LateInv
<1>2. UNCHANGED <<today, lastResetDate, hardStopTriggered>>
  BY DEF vars, riskVars
<1>3. late' = [late EXCEPT ![w] = IF hardStopTriggered THEN 1 ELSE 0]
  BY <1>1 DEF CountLate, LateInv
<1> QED BY <1>1, <1>2, <1>3 DEF LateInv, Goes, Shape

(* Allow keeps the stop of its day, and approves nothing under it          *)
(* (risk.go:70-94).                                                        *)
LEMMA AllowKeepsStop ==
  ASSUME LateInv, NEW req, Allow(req)
  PROVE  StopKept /\ (reply'.ok => ~hardStopTriggered)
<1>1. ~ResetDue
  BY DEF ResetDue, LateInv
<1>2. Hard <=> hardStopTriggered
  BY <1>1 DEF Hard
<1>3. hardStopTriggered' <=> Hard \/ PastLimit(HardStopLossUSD)
  BY Zenon DEF Allow
<1>4. hardStopTriggered' \in BOOLEAN
  BY Zenon DEF Allow
<1>5. UNCHANGED <<today, lastResetDate>>
  BY <1>1 DEF Allow
<1>6. reply'.ok = ~Refused(req)
  BY DEF Allow
<1>7. reply'.ok => ~hardStopTriggered
  BY <1>2, <1>6 DEF Refused
<1> QED BY <1>2, <1>3, <1>4, <1>5, <1>7 DEF StopKept

-----------------------------------------------------------------------------
(* The three checks before a leg (live.go:221-245, 294-303, 357-366).      *)
LEMMA RiskKeepsLate ==
  ASSUME LateInv, NEW w \in Workers, Risk1(w) \/ Risk2(w) \/ Risk3(w)
  PROVE  LateInv'
<1> DEFINE Calm == {"done", "unwind2"}
<1>1. PICK req : Allow(req)
  BY DEF Risk1, Risk2, Risk3
<1>2. StopKept /\ (reply'.ok => ~hardStopTriggered)
  BY <1>1, AllowKeepsStop
<1>3. UNCHANGED late
  BY DEF Risk1, Risk2, Risk3
<1>4. Shape /\ "pc" \in DOMAIN job[w]
  BY DEF LateInv, Shape
<1>5. \/ Goes(w, Calm)
      \/ reply'.ok /\ Goes(w, Placing \cup Calm)
  <2>1. CASE Risk1(w)
    BY <1>4, <2>1, BecomeGoes DEF Risk1, Return, Placing
  <2>2. CASE Risk2(w)
    BY <1>4, <2>2, BecomeGoes DEF Risk2, Return, Placing
  <2>3. CASE Risk3(w)
    BY <1>4, <2>3, BecomeGoes DEF Risk3, Placing
  <2> QED BY <2>1, <2>2, <2>3
<1>6. CASE Goes(w, Calm)
  BY <1>2, <1>3, <1>6, QuietStep DEF Placing
<1>7. CASE reply'.ok /\ Goes(w, Placing \cup Calm)
  BY <1>2, <1>3, <1>7, QuietStep
<1> QED BY <1>5, <1>6, <1>7

(* The three orders (live.go:247-257, 304-321, 367-390).                   *)
LEMMA PlaceKeepsLate ==
  ASSUME LateInv, NEW w \in Workers, Place1(w) \/ Place2(w) \/ Place3(w)
  PROVE  LateInv'
<1> DEFINE After == {"query1", "query2", "pnl", "done", "unwind1", "unwind2"}
<1>1. /\ job[w].pc \in Placing /\ CountLate(w) /\ UNCHANGED vars
      /\ Shape /\ "pc" \in DOMAIN job[w]
  BY DEF Place1, Place2, Place3, At, Placing, LateInv, Shape
<1>2. Goes(w, After)
  <2>1. CASE Place1(w)
    BY <1>1, <2>1, BecomeGoes DEF Place1, Return
  <2>2. CASE Place2(w)
    BY <1>1, <2>2, BecomeGoes DEF Place2
  <2>3. CASE Place3(w)
    BY <1>1, <2>3, BecomeGoes DEF Place3
  <2> QED BY <2>1, <2>2, <2>3
<1> QED BY <1>1, <1>2, PlaceStep DEF Placing

(* The other calls of an execution: none goes to a place where an order of *)
(* a leg is sent, and none touches the stop (live.go:256-293, 323-356,     *)
(* 391-501).                                                               *)
LEMMA OthersKeepLate ==
  ASSUME LateInv, NEW w \in Workers,
         \/ Begin(w) \/ Query1(w) \/ Query2(w) \/ Unwind2(w) \/ Unwind1(w)
         \/ BookPnL(w) \/ BookLeg(w)
  PROVE  LateInv'
<1> DEFINE Calm == {"risk1", "risk2", "risk3", "done", "unwind1", "book"}
<1>1. UNCHANGED <<late, today, lastResetDate, hardStopTriggered>>
  BY DEF Begin, Query1, Query2, Unwind2, Unwind1, BookPnL, BookLeg, UpdatePnL,
         UpdatePnLNonFinite, UpdatePosition, vars, riskVars
<1>2. Shape /\ "pc" \in DOMAIN job[w]
  BY DEF LateInv, Shape
<1>3. Goes(w, Calm)
  <2>1. CASE Begin(w)
    BY <1>2, <2>1, BecomeGoes DEF Begin, Job
  <2>2. CASE Query1(w)
    <3>1. PICK k : /\ DOMAIN k = DOMAIN job[w]
                   /\ \/ Return(w, k, "unfilled1") \/ Return(w, k, "small2")
                      \/ Become(w, [k EXCEPT !.pc = "risk2"])
      <4>1. PICK info \in Answered("no_info"), status \in Answered("no_status"),
                 good \in GoodStatus(job[w].back, job[w].qty) :
              LET filled == IF info \/ status THEN job[w].back ELSE job[w].qty
                  k == [job[w] EXCEPT !.filled1 = filled, !.qty2 = filled, !.sure = info \/ status,
                                      !.known = IF info /\ job[w].back > 0 THEN {1} ELSE {}]
              IN \/ Return(w, k, "unfilled1") \/ Return(w, k, "small2")
                 \/ Become(w, [k EXCEPT !.pc = "risk2"])
        BY <2>2 DEF Query1
      <4> DEFINE filled == IF info \/ status THEN job[w].back ELSE job[w].qty
                 k == [job[w] EXCEPT !.filled1 = filled, !.qty2 = filled, !.sure = info \/ status,
                                     !.known = IF info /\ job[w].back > 0 THEN {1} ELSE {}]
      <4>2. DOMAIN k = DOMAIN job[w]
        OBVIOUS
      <4> QED BY <4>1, <4>2
    <3>2. PICK r \in {"unfilled1", "small2", "risk2"} :
            \/ Become(w, [k EXCEPT !.pc = "done", !.result = r])
            \/ Become(w, [k EXCEPT !.pc = "risk2"])
      BY <3>1 DEF Return
    <3> QED BY <1>2, <3>1, <3>2, BecomeGoes
  <2>3. CASE Query2(w)
    BY <1>2, <2>3, BecomeGoes DEF Query2, Return
  <2>4. CASE Unwind2(w) \/ Unwind1(w)
    BY <1>2, <2>4, BecomeGoes DEF Unwind2, Unwind1, unwindPair
  <2>5. CASE BookPnL(w)
    BY <1>2, <2>5, BecomeGoes DEF BookPnL
  <2>6. CASE BookLeg(w)
    <3>1. CASE Return(w, job[w], "success")
      BY <1>2, <3>1, BecomeGoes DEF Return
    <3>2. CASE Become(w, [job[w] EXCEPT !.leg = job[w].leg + 1])
      <4>1. job[w].pc = "book"
        BY <2>6 DEF BookLeg, At
      <4>2. [job[w] EXCEPT !.leg = job[w].leg + 1].pc = "book"
        BY <1>2, <4>1
      <4> QED BY <1>2, <3>2, <4>2, BecomeGoes
    <3> QED BY <2>6, <3>1, <3>2 DEF BookLeg
  <2> QED BY <2>1, <2>2, <2>3, <2>4, <2>5, <2>6
<1>4. StopKept
  BY <1>1 DEF StopKept, LateInv
<1> QED BY <1>1, <1>3, <1>4, QuietStep DEF Placing

(* Whoever has sent an order under the hard stop sends no other one        *)
(* (live.go:222-249, 294-305, 357-376).                                    *)
THEOREM LateInvHolds == ExecSpec => []LateInv
<1>1. ExecInit => LateInv
  <2> SUFFICES ASSUME ExecInit PROVE LateInv
    OBVIOUS
  <2>1. today = 1 /\ lastResetDate = 1 /\ hardStopTriggered = FALSE
    BY DEF ExecInit, Init
  <2>2. late = [w \in Workers |-> 0]
    BY DEF ExecInit
  <2>3. Shape
    BY DEF ExecInit, Shape, Job
  <2>4. late \in [Workers -> {0, 1}] /\ \A w \in Workers : late[w] = 0
    BY <2>2
  <2>5. \A w \in Workers : late[w] = 1 => hardStopTriggered /\ job[w].pc \notin Placing
    BY <2>4
  <2>6. hardStopTriggered \in BOOLEAN
    BY <2>1
  <2> QED BY <2>1, <2>3, <2>4, <2>5, <2>6 DEF LateInv
<1>2. LateInv /\ [ExecNext]_allVars => LateInv'
  <2> SUFFICES ASSUME LateInv, [ExecNext]_allVars PROVE LateInv'
    OBVIOUS
  <2>1. ASSUME NEW w \in Workers, ExecStep(w) PROVE LateInv'
    BY <2>1, RiskKeepsLate, PlaceKeepsLate, OthersKeepLate DEF ExecStep
  <2>2. CASE UNCHANGED allVars
    BY <2>2 DEF allVars, vars, riskVars, execVars, LateInv, Shape
  <2> QED BY <2>1, <2>2 DEF ExecNext, Rest
<1> QED BY <1>1, <1>2, PTL DEF ExecSpec

(* However many workers run and whatever they lose meanwhile: once the     *)
(* hard stop is set, a worker sends at most the one leg order whose check  *)
(* had already been answered (live.go:222-249, 294-305, 357-376 against    *)
(* risk.go:79).                                                            *)
THEOREM AtMostOneLateLegHolds == ExecSpec => []AtMostOneLateLeg
<1>1. LateInv => AtMostOneLateLeg
  BY DEF LateInv, AtMostOneLateLeg
<1> QED BY <1>1, LateInvHolds, PTL
-----------------------------------------------------------------------------
(* The books of an execution at every place of executeTriangle.            *)

Results == {"none", "blocked1", "small1", "rejected1", "unfilled1", "small2", "blocked2",
            "rejected2", "small3", "unfilled2", "blocked3", "rejected3", "success"}

Jobs == [pc : PCs, tri : Triangles \cup {CHOOSE t \in Triangles : TRUE}, dir : {"F", "R"},
         qty : Nat, filled1 : Nat, qty2 : Nat, qty3 : Nat, back : Nat, ordered : Nat,
         got : Nat, known : SUBSET (1..3), sure : BOOLEAN, leg : 1..3, unwound : SUBSET (1..3),
         result : Results]
Nets == [1..3 -> Int]

Side(j, k) == Legs(j)[k].side

(* The places before the fill of each leg, and those where the variable of *)
(* the leg stands for what it filled.                                      *)
Before1 == {"idle", "risk1", "place1"}
Before2 == Before1 \cup {"query1", "risk2", "place2"}
Before3 == Before2 \cup {"query2", "risk3", "place3"}
After3  == {"pnl", "book"}
After2  == After3 \cup {"query2", "risk3", "place3"}
After1  == After2 \cup {"risk2", "place2"}

(* What the books n of an execution with the locals j are, as far as the   *)
(* exchange's answers tell.                                                *)
Account(j, n) ==
  /\ j.pc # "idle" => j.tri \in Triangles
  /\ j.pc \in Before1 => n[1] = 0
  /\ j.pc \in Before2 => n[2] = 0
  /\ j.pc \in Before3 => n[3] = 0
  /\ j.pc = "query1" => j.back = j.got /\ j.filled1 = j.qty
  /\ j.pc \in {"query1", "risk2", "place2"} => n[1] = Side(j, 1) * j.got /\ j.got <= j.qty
  /\ j.sure /\ j.pc \in After1 => n[1] = Side(j, 1) * j.filled1
  /\ j.sure /\ j.pc \in After2 => n[2] = Side(j, 2) * j.qty2
  /\ j.sure /\ j.pc \in After3 => n[3] = Side(j, 3) * j.qty3
  /\ j.result # "none" => j.pc \in {"done", "unwind1", "unwind2"}
  /\ j.result = "success" =>
       /\ j.pc = "done"
       /\ j.sure => \A k \in 1..3 : n[k] = Side(j, k) * Filled(j, k)
  /\ j.pc \notin {"unwind1", "unwind2", "done"} => j.unwound = {}
  /\ j.pc = "idle" => j.result = "none"
  /\ j.pc = "unwind1" => j.result # "none"
  /\ j.pc = "unwind2" => j.result \notin {"none", "rejected2"}
  /\ j.result = "rejected2" =>
       /\ j.pc = "unwind1" => n[1] = Side(j, 1) * j.got /\ j.back = j.qty /\ j.unwound = {}
       /\ j.pc = "done" /\ j.unwound = {1} => n[1] = Side(j, 1) * j.got + (-Side(j, 1)) * j.qty
       /\ j.got <= j.qty

(* No quantity is above m.                                                 *)
Within(j, m) == {j.qty, j.filled1, j.qty2, j.qty3, j.back} \subseteq 0..m

Good(j, n) == j \in Jobs /\ n \in Nets /\ Account(j, n)

(* Legs that are approved and still to be booked.                          *)
PendingLegs(j) ==
  IF j.pc \in {"place1", "query1", "risk2"} THEN {1}
  ELSE IF j.pc \in {"place2", "query2", "risk3"} THEN {1, 2}
  ELSE IF j.pc \in {"place3", "pnl"} THEN {1, 2, 3}
  ELSE IF j.pc = "book" THEN {i \in 1..3 : j.leg <= i}
  ELSE {}

(* Legs that are booked, and what they are booked with.                    *)
IsBooked(j, k) == (j.pc = "book" /\ k < j.leg) \/ (j.pc = "done" /\ j.result = "success")
Booked(j, k, asset) ==
  IF IsBooked(j, k) /\ BaseOf(Legs(j)[k].sym) = asset THEN Side(j, k) * Filled(j, k) ELSE 0
Unbooked(j) == \A k \in 1..3 : ~IsBooked(j, k)

(* A step that neither approves nor books a leg.                           *)
Quiet(j, k) ==
  /\ Unbooked(j) /\ Unbooked(k)
  /\ \/ PendingLegs(k) = {}
     \/ k.tri = j.tri /\ k.dir = j.dir /\ PendingLegs(k) \subseteq PendingLegs(j)

TriInv ==
  /\ job \in [Workers -> Jobs] /\ net \in [Workers -> Nets]
  /\ \A w \in Workers : Good(job[w], net[w])
  /\ rounds \in [Workers -> 0..Rounds] /\ \A w \in Workers : rounds[w] = 0 => job[w].pc = "idle"

BookedOf(asset) == [wk \in Workers \X (1..3) |-> Booked(job[wk[1]], wk[2], asset)]

(* Nothing but the booked legs has moved the engine's quantities, as long  *)
(* as every worker is in its first execution.                              *)
BooksInv ==
  (\A w \in Workers : rounds[w] <= 1) =>
    \A asset \in Assets :
      positions[<<asset, "bybit">>].qty = SumFunctionOnSet(BookedOf(asset), Workers \X (1..3))

-----------------------------------------------------------------------------
(* Helpers: the sides of the legs, the outcomes of an order, one step.     *)

(* Every leg is a buy or a sell of a pair (live.go:155-176).               *)
LEMMA LegsAreOrders ==
  ASSUME NEW j \in Jobs, NEW k \in 1..3
  PROVE  Side(j, k) \in {1, -1} /\ (j.tri \in Triangles => Legs(j)[k].sym \in Pairs)
BY ExecAssumption DEF Side, Legs, Buy, Sell, Jobs

(* The legs depend on the triangle and the direction only.                 *)
LEMMA SameLegs ==
  ASSUME NEW j, NEW k, k.tri = j.tri, k.dir = j.dir
  PROVE  Legs(k) = Legs(j) /\ \A i : Side(k, i) = Side(j, i)
BY DEF Legs, Side

LEMMA SignedQuantity ==
  ASSUME NEW s \in {1, -1}, NEW q \in Nat
  PROVE  s * q \in Int /\ 0 + s * q = s * q /\ s * q + (-s) * q = 0
<1>1. CASE s = 1
  BY <1>1
<1>2. CASE s = -1
  <2>1. s * q = -q /\ (-s) * q = q
    BY <1>2
  <2> QED BY <2>1
<1> QED BY <1>1, <1>2

(* An order executes no more than its quantity (live.go:247-257).          *)
LEMMA OutcomeFills ==
  ASSUME NEW qty \in Nat, NEW o \in PlaceOutcomes(qty)
  PROVE  o.fill \in 0..qty /\ o.ok \in BOOLEAN
<1>1. qty \div 2 \in 0..qty
  OBVIOUS
<1>2. NotSent.fill = 0 /\ NotSent.ok = FALSE
  BY DEF NotSent
<1>3. CASE o = NotSent
  BY <1>3 DEF NotSent
<1>4. CASE ~TooSmall(qty) /\ qty # 0 /\ o \in Executions(qty)
  <2>1. o \in [ok : BOOLEAN, fill : {0, qty \div 2, qty}]
    BY <1>4 DEF Executions
  <2> QED BY <1>1, <2>1
<1> QED BY <1>3, <1>4 DEF PlaceOutcomes, Executions

(* Worker w goes on with the locals k and the books n.                     *)
Moves(w, k, n) ==
  /\ job[w].pc # "idle" /\ k.pc # "idle"
  /\ job' = [job EXCEPT ![w] = k] /\ net' = [net EXCEPT ![w] = n] /\ UNCHANGED rounds
  /\ Good(k, n)
  /\ \A m \in Nat : Within(job[w], m) => Within(k, m)

(* The locals of the others stay as they are.                              *)
LEMMA OneExecution ==
  ASSUME TriInv, NEW w \in Workers, NEW k, NEW n, Moves(w, k, n) PROVE TriInv'
<1>1. job' \in [Workers -> Jobs] /\ net' \in [Workers -> Nets]
  BY DEF TriInv, Moves, Good
<1>2. ASSUME NEW v \in Workers
      PROVE  Good(job'[v], net'[v]) /\ (rounds'[v] = 0 => job'[v].pc = "idle")
  <2>1. CASE v = w
    BY <2>1 DEF TriInv, Moves
  <2>2. CASE v # w
    BY <2>2 DEF TriInv, Moves
  <2> QED BY <2>1, <2>2
<1>3. rounds' \in [Workers -> 0..Rounds]
  BY DEF TriInv, Moves
<1> QED BY <1>1, <1>2, <1>3 DEF TriInv

(* A return, and the first step of an unwind, leave nothing to be booked;  *)
(* only the return after a rejected second leg says more (live.go:313).    *)
LEMMA EndMoves ==
  ASSUME TriInv, NEW w \in Workers, job[w].pc # "idle", Unbooked(job[w]),
         NEW k \in Jobs, NEW n \in Nets, k.pc \in {"done", "unwind1", "unwind2"}, k.tri \in Triangles,
         k.result \notin {"none", "success", "rejected2"},
         job' = [job EXCEPT ![w] = k], net' = [net EXCEPT ![w] = n], UNCHANGED rounds,
         \A m \in Nat : Within(job[w], m) => Within(k, m)
  PROVE  Moves(w, k, n) /\ Quiet(job[w], k)
<1>1. Account(k, n)
  BY DEF Account, Before1, Before2, Before3, After1, After2, After3
<1>2. Quiet(job[w], k)
  BY DEF Quiet, Unbooked, IsBooked, PendingLegs
<1> QED BY <1>1, <1>2 DEF Moves, Good

-----------------------------------------------------------------------------
(* One lemma per call that leaves the goroutine.                           *)

(* The first order (live.go:247-257).                                      *)
LEMMA Place1Moves ==
  ASSUME TriInv, NEW w \in Workers, Place1(w)
  PROVE  \E k, n : Moves(w, k, n) /\ Quiet(job[w], k)
<1> DEFINE j == job[w]
<1>1. j \in Jobs /\ net[w] \in Nets /\ Good(j, net[w]) /\ j.pc = "place1"
  BY DEF TriInv, Place1, At
<1>2. PICK o \in PlaceOutcomes(j.qty) :
        /\ net' = [net EXCEPT ![w][1] = @ + Side(j, 1) * o.fill]
        /\ \/ o.ok /\ job' = [job EXCEPT ![w] = [j EXCEPT !.pc = "query1", !.filled1 = j.qty,
                                                        !.back = o.fill, !.got = o.fill]]
           \/ ~o.ok /\ job' = [job EXCEPT ![w] = [j EXCEPT !.pc = "done", !.result = "rejected1"]]
  BY DEF Place1, Executed, Return, Become, Side
<1>3. j.qty \in Nat /\ o.fill \in Nat /\ o.fill <= j.qty
  BY <1>1, OutcomeFills DEF Jobs
<1> DEFINE n == [net[w] EXCEPT ![1] = @ + Side(j, 1) * o.fill]
           a == [j EXCEPT !.pc = "query1", !.filled1 = j.qty, !.back = o.fill, !.got = o.fill]
           r == [j EXCEPT !.pc = "done", !.result = "rejected1"]
<1>4. net' = [net EXCEPT ![w] = n] /\ UNCHANGED rounds
  BY <1>2 DEF Place1
<1>5. n \in Nets /\ n[1] = Side(j, 1) * o.fill /\ n[2] = 0 /\ n[3] = 0
  <2>1. Side(j, 1) * o.fill \in Int
    BY <1>1, <1>3, LegsAreOrders, SignedQuantity
  <2> QED BY <1>1, <2>1 DEF Good, Account, Before1, Before2, Before3, Nets
<1>6. /\ j.result = "none" /\ j.unwound = {} /\ j.tri \in Triangles /\ Unbooked(j)
  BY <1>1 DEF Good, Account, Unbooked, IsBooked, Jobs
<1>7. /\ a \in Jobs /\ a.pc = "query1" /\ a.qty = j.qty /\ a.filled1 = j.qty
      /\ a.back = o.fill /\ a.got = o.fill
      /\ a.tri = j.tri /\ a.dir = j.dir /\ a.result = j.result /\ a.unwound = j.unwound
      /\ a.qty2 = j.qty2 /\ a.qty3 = j.qty3
  BY <1>1, <1>3 DEF Jobs, PCs
<1>8. /\ r \in Jobs /\ r.pc = "done" /\ r.result = "rejected1" /\ r.tri = j.tri
      /\ r.qty = j.qty /\ r.filled1 = j.filled1 /\ r.back = j.back /\ r.qty2 = j.qty2 /\ r.qty3 = j.qty3
  BY <1>1, <1>3 DEF Jobs, PCs, Results
<1> HIDE DEF n, a, r, j
<1>9. ASSUME o.ok PROVE Moves(w, a, n) /\ Quiet(j, a)
  <2>1. Account(a, n)
    BY <1>3, <1>5, <1>6, <1>7, SameLegs DEF Account, Before1, Before2, Before3, After1, After2, After3
  <2>2. Quiet(j, a)
    BY <1>1, <1>6, <1>7 DEF Quiet, Unbooked, IsBooked, PendingLegs
  <2>3. ASSUME NEW m \in Nat, Within(j, m) PROVE Within(a, m)
    BY <1>1, <1>3, <1>7, <2>3 DEF Within, Jobs
  <2>4. job' = [job EXCEPT ![w] = a]
    BY <1>2, <1>9 DEF a
  <2> QED BY <1>1, <1>4, <1>5, <1>7, <2>1, <2>2, <2>3, <2>4 DEF Moves, Good, j
<1>10. ASSUME ~o.ok PROVE Moves(w, r, n) /\ Quiet(j, r)
  <2>1. \A m \in Nat : Within(j, m) => Within(r, m)
    BY <1>8 DEF Within
  <2>2. job' = [job EXCEPT ![w] = r]
    BY <1>2, <1>10 DEF r
  <2> QED BY <1>1, <1>4, <1>5, <1>6, <1>8, <2>1, <2>2, EndMoves DEF j
<1> QED BY <1>2, <1>9, <1>10 DEF j

(* A step that approves leg i.                                             *)
Approving(j, k, i) ==
  /\ Unbooked(j) /\ Unbooked(k) /\ k.tri = j.tri /\ k.dir = j.dir
  /\ PendingLegs(k) \subseteq PendingLegs(j) \cup {i}
  /\ reply'.ok /\ \E v \in Nat : Allow(Request(j, i, v))

(* The amount that a unit of money buys is never more than was asked for.  *)
LEMMA Division ==
  ASSUME NEW v \in Nat, NEW p \in Nat \ {0}, NEW q \in Nat, v <= q * p
  PROVE  v \div p \in 0..q
<1> DEFINE d == v \div p
<1>1. d \in Nat /\ p * d <= v
  OBVIOUS
<1> HIDE DEF d
<1>2. CASE d <= q
  BY <1>1, <1>2 DEF d
<1>3. CASE d >= q + 1
  <2>1. p * (q + 1) <= p * d
    BY <1>1, <1>3
  <2>2. p * (q + 1) = q * p + p
    OBVIOUS
  <2>3. q * p \in Nat /\ p * d \in Nat
    BY <1>1
  <2> QED BY <1>1, <2>1, <2>2, <2>3
<1> QED BY <1>1, <1>2, <1>3

(* What is asked of Allow is a natural number.                             *)
LEMMA RequestNat ==
  ASSUME NEW j \in Jobs, j.tri \in Triangles, NEW i \in 1..3, NEW q \in Nat
  PROVE  /\ Price[Legs(j)[i].sym] \in Nat \ {0} /\ Legs(j)[i].sym \in Pairs
         /\ Request(j, i, q).value \in Nat
         /\ Request(j, i, q).value = q * Price[Legs(j)[i].sym]
         /\ Request(j, i, q).symbol = Legs(j)[i].sym
BY LegsAreOrders, PriceAssumption DEF Request

(* What an approval does to the quantity that is asked for                 *)
(* (live.go:226-233 with risk.go:95-97).                                   *)
LEMMA ApprovalAdjusts ==
  ASSUME NEW j \in Jobs, j.tri \in Triangles, NEW i \in 1..3, NEW q \in Nat,
         Allow(Request(j, i, q)), reply'.ok
  PROVE  Adjusted(j, i) \in Nat /\ Adjusted(j, i) \in 0..q
<1> DEFINE p == Price[Legs(j)[i].sym]
           v == Request(j, i, q).value
           a == AdjValue(Request(j, i, q))
<1>1. p \in Nat \ {0} /\ v \in Nat /\ v = q * p
  BY RequestNat
<1>2. reply'.value = a
  BY DEF Allow
<1>3. a = v \/ a = (3 * v) \div 10
  BY DEF AdjValue
<1>4. Adjusted(j, i) = a \div p
  BY <1>2 DEF Adjusted
<1> HIDE DEF a, p, v
<1>5. a \in Nat /\ a <= v
  BY <1>1, <1>3
<1> QED BY <1>1, <1>4, <1>5, Division

(* The check of the first leg (live.go:221-245).                           *)
LEMMA Risk1Moves ==
  ASSUME TriInv, NEW w \in Workers, Risk1(w)
  PROVE  \E k, n : Moves(w, k, n) /\ (Quiet(job[w], k) \/ Approving(job[w], k, 1))
<1> DEFINE j == job[w]
           n == net[w]
           req == Request(j, 1, j.qty)
           qty == Adjusted(j, 1)
           b == [j EXCEPT !.pc = "done", !.result = "blocked1"]
           s == [j EXCEPT !.pc = "done", !.result = "small1"]
           a == [j EXCEPT !.pc = "place1", !.qty = qty]
<1>1. j \in Jobs /\ n \in Nets /\ Good(j, n) /\ j.pc = "risk1"
  BY DEF TriInv, Risk1, At
<1>2. Allow(req) /\ j.qty \in Nat
  BY <1>1 DEF Risk1, Jobs
<1>3. \/ job' = [job EXCEPT ![w] = b] \/ job' = [job EXCEPT ![w] = s]
      \/ reply'.ok /\ job' = [job EXCEPT ![w] = a]
  BY DEF Risk1, Return, Become
<1>4. net' = [net EXCEPT ![w] = n] /\ UNCHANGED rounds
  BY DEF Risk1, TriInv
<1>5. j.result = "none" /\ j.unwound = {} /\ j.tri \in Triangles /\ Unbooked(j)
  BY <1>1 DEF Good, Account, Unbooked, IsBooked, Jobs
<1>6. n[1] = 0 /\ n[2] = 0 /\ n[3] = 0
  BY <1>1 DEF Good, Account, Before1, Before2, Before3
<1>7. reply'.ok => qty \in Nat /\ qty \in 0..j.qty
  BY <1>1, <1>2, <1>5, ApprovalAdjusts
<1>8. /\ b \in Jobs /\ b.pc = "done" /\ b.result = "blocked1" /\ b.tri = j.tri /\ b.qty = j.qty
      /\ b.filled1 = j.filled1 /\ b.qty2 = j.qty2 /\ b.qty3 = j.qty3 /\ b.back = j.back
  BY <1>1 DEF Jobs, PCs, Results
<1>9. /\ s \in Jobs /\ s.pc = "done" /\ s.result = "small1" /\ s.tri = j.tri /\ s.qty = j.qty
      /\ s.filled1 = j.filled1 /\ s.qty2 = j.qty2 /\ s.qty3 = j.qty3 /\ s.back = j.back
  BY <1>1 DEF Jobs, PCs, Results
<1>10. reply'.ok =>
      /\ a \in Jobs /\ a.pc = "place1" /\ a.result = j.result /\ a.tri = j.tri /\ a.dir = j.dir /\ a.qty = qty
      /\ a.filled1 = j.filled1 /\ a.qty2 = j.qty2 /\ a.qty3 = j.qty3 /\ a.back = j.back /\ a.unwound = j.unwound
  BY <1>1, <1>7 DEF Jobs, PCs
<1> HIDE DEF a, b, s, n, j, req, qty
<1>11. CASE job' = [job EXCEPT ![w] = b]
  <2>1. \A m \in Nat : Within(j, m) => Within(b, m)
    BY <1>8 DEF Within
  <2> QED BY <1>1, <1>4, <1>5, <1>8, <1>11, <2>1, EndMoves DEF j
<1>12. CASE job' = [job EXCEPT ![w] = s]
  <2>1. \A m \in Nat : Within(j, m) => Within(s, m)
    BY <1>9 DEF Within
  <2> QED BY <1>1, <1>4, <1>5, <1>9, <1>12, <2>1, EndMoves DEF j
<1>13. CASE reply'.ok /\ job' = [job EXCEPT ![w] = a]
  <2>1. Account(a, n)
    BY <1>5, <1>6, <1>10, <1>13 DEF Account, Before1, Before2, Before3, After1, After2, After3
  <2>2. \A m \in Nat : Within(j, m) => Within(a, m)
    BY <1>2, <1>7, <1>10, <1>13 DEF Within
  <2>3. Moves(w, a, n)
    BY <1>1, <1>4, <1>10, <1>13, <2>1, <2>2 DEF Moves, Good, j
  <2>4. PendingLegs(a) \subseteq PendingLegs(j) \cup {1} /\ Unbooked(a)
    BY <1>1, <1>10, <1>13 DEF PendingLegs, Unbooked, IsBooked
  <2>5. Approving(j, a, 1)
    BY <1>2, <1>5, <1>10, <1>13, <2>4 DEF Approving, req
  <2> QED BY <2>3, <2>5 DEF j
<1> QED BY <1>3, <1>11, <1>12, <1>13

(* The queries about the first fill (live.go:256-293).                     *)
LEMMA Query1Moves ==
  ASSUME TriInv, NEW w \in Workers, Query1(w)
  PROVE  \E k, n : Moves(w, k, n) /\ Quiet(job[w], k)
<1> DEFINE j == job[w]
           n == net[w]
<1>1. j \in Jobs /\ n \in Nets /\ Good(j, n) /\ j.pc = "query1"
  BY DEF TriInv, Query1, At
<1>2. PICK info \in Answered("no_info"), status \in Answered("no_status") :
        LET filled == IF info \/ status THEN j.back ELSE j.qty
            q == [j EXCEPT !.filled1 = filled, !.qty2 = filled, !.sure = info \/ status,
                           !.known = IF info /\ j.back > 0 THEN {1} ELSE {}]
        IN \/ job' = [job EXCEPT ![w] = [q EXCEPT !.pc = "done", !.result = "unfilled1"]]
           \/ job' = [job EXCEPT ![w] = [q EXCEPT !.pc = "done", !.result = "small2"]]
           \/ job' = [job EXCEPT ![w] = [q EXCEPT !.pc = "risk2"]]
  BY DEF Query1, Return, Become
<1> DEFINE filled == IF info \/ status THEN j.back ELSE j.qty
           known == IF info /\ j.back > 0 THEN {1} ELSE {}
           sure == info \/ status
           q == [j EXCEPT !.filled1 = filled, !.qty2 = filled, !.sure = sure, !.known = known]
           b == [q EXCEPT !.pc = "done", !.result = "unfilled1"]
           s == [q EXCEPT !.pc = "done", !.result = "small2"]
           a == [q EXCEPT !.pc = "risk2"]
<1>3. net' = [net EXCEPT ![w] = n] /\ UNCHANGED rounds
  BY DEF Query1, TriInv
<1>4. /\ n[1] = Side(j, 1) * j.back /\ n[2] = 0 /\ n[3] = 0 /\ j.filled1 = j.qty /\ j.back <= j.qty
      /\ j.result = "none" /\ j.unwound = {} /\ j.tri \in Triangles /\ Unbooked(j)
      /\ j.back = j.got
  BY <1>1 DEF Good, Account, Unbooked, IsBooked, Jobs, Before1, Before2, Before3
<1>5. /\ filled \in Nat /\ filled <= j.qty /\ (filled = j.back \/ filled = j.qty)
      /\ sure \in BOOLEAN /\ (sure => filled = j.back) /\ known \in SUBSET (1..3)
      /\ j.back \in Nat /\ j.qty \in Nat
  BY <1>1, <1>4 DEF Jobs, Answered
<1>6. job' = [job EXCEPT ![w] = b] \/ job' = [job EXCEPT ![w] = s] \/ job' = [job EXCEPT ![w] = a]
  BY <1>2
<1> HIDE DEF filled, known, sure
<1>7. /\ b \in Jobs /\ b.pc = "done" /\ b.result = "unfilled1" /\ b.tri = j.tri /\ b.qty = j.qty
      /\ b.filled1 = filled /\ b.qty2 = filled /\ b.qty3 = j.qty3 /\ b.back = j.back
  BY <1>1, <1>5 DEF Jobs, PCs, Results
<1>8. /\ s \in Jobs /\ s.pc = "done" /\ s.result = "small2" /\ s.tri = j.tri /\ s.qty = j.qty
      /\ s.filled1 = filled /\ s.qty2 = filled /\ s.qty3 = j.qty3 /\ s.back = j.back
  BY <1>1, <1>5 DEF Jobs, PCs, Results
<1>9. /\ a \in Jobs /\ a.pc = "risk2" /\ a.result = j.result /\ a.tri = j.tri /\ a.dir = j.dir
      /\ a.qty = j.qty /\ a.filled1 = filled /\ a.qty2 = filled /\ a.qty3 = j.qty3
      /\ a.back = j.back /\ a.got = j.got /\ a.unwound = j.unwound /\ (a.sure => filled = j.back)
  BY <1>1, <1>5 DEF Jobs, PCs
<1> HIDE DEF a, b, s, q, n, j
<1>10. CASE job' = [job EXCEPT ![w] = b]
  <2>1. \A m \in Nat : Within(j, m) => Within(b, m)
    BY <1>5, <1>7 DEF Within
  <2> QED BY <1>1, <1>3, <1>4, <1>7, <1>10, <2>1, EndMoves DEF j
<1>11. CASE job' = [job EXCEPT ![w] = s]
  <2>1. \A m \in Nat : Within(j, m) => Within(s, m)
    BY <1>5, <1>8 DEF Within
  <2> QED BY <1>1, <1>3, <1>4, <1>8, <1>11, <2>1, EndMoves DEF j
<1>12. CASE job' = [job EXCEPT ![w] = a]
  <2>1. Account(a, n)
    BY <1>4, <1>9, SameLegs DEF Account, Before1, Before2, Before3, After1, After2, After3
  <2>2. \A m \in Nat : Within(j, m) => Within(a, m)
    BY <1>5, <1>9 DEF Within
  <2>3. Quiet(j, a)
    BY <1>1, <1>4, <1>9 DEF Quiet, Unbooked, IsBooked, PendingLegs
  <2> QED BY <1>1, <1>3, <1>9, <1>12, <2>1, <2>2, <2>3 DEF Moves, Good, j
<1> QED BY <1>6, <1>10, <1>11, <1>12

(* The check of the second leg (live.go:294-303).                          *)
LEMMA Risk2Moves ==
  ASSUME TriInv, NEW w \in Workers, Risk2(w)
  PROVE  \E k, n : Moves(w, k, n) /\ (Quiet(job[w], k) \/ Approving(job[w], k, 2))
<1> DEFINE j == job[w]
           n == net[w]
           req == Request(j, 2, j.qty2)
           qty == Adjusted(j, 2)
           b == [j EXCEPT !.pc = "done", !.result = "blocked2"]
           a == [j EXCEPT !.pc = "place2", !.qty2 = qty]
<1>1. j \in Jobs /\ n \in Nets /\ Good(j, n) /\ j.pc = "risk2"
  BY DEF TriInv, Risk2, At
<1>2. Allow(req) /\ j.qty2 \in Nat
  BY <1>1 DEF Risk2, Jobs
<1>3. \/ job' = [job EXCEPT ![w] = b]
      \/ reply'.ok /\ job' = [job EXCEPT ![w] = a]
  BY DEF Risk2, Return, Become
<1>4. net' = [net EXCEPT ![w] = n] /\ UNCHANGED rounds
  BY DEF Risk2, TriInv
<1>5. j.result = "none" /\ j.unwound = {} /\ j.tri \in Triangles /\ Unbooked(j)
  BY <1>1 DEF Good, Account, Unbooked, IsBooked, Jobs
<1>6. reply'.ok => qty \in Nat /\ qty \in 0..j.qty2
  BY <1>1, <1>2, <1>5, ApprovalAdjusts
<1>7. /\ b \in Jobs /\ b.pc = "done" /\ b.result = "blocked2" /\ b.tri = j.tri /\ b.qty = j.qty
      /\ b.filled1 = j.filled1 /\ b.qty2 = j.qty2 /\ b.qty3 = j.qty3 /\ b.back = j.back
  BY <1>1 DEF Jobs, PCs, Results
<1>8. reply'.ok =>
      /\ a \in Jobs /\ a.pc = "place2" /\ a.result = j.result /\ a.tri = j.tri /\ a.dir = j.dir
      /\ a.qty = j.qty /\ a.filled1 = j.filled1 /\ a.qty2 = qty /\ a.qty3 = j.qty3
      /\ a.back = j.back /\ a.got = j.got /\ a.unwound = j.unwound /\ (a.sure => j.sure)
  BY <1>1, <1>6 DEF Jobs, PCs
<1> HIDE DEF a, b, n, j, req, qty
<1>9. CASE job' = [job EXCEPT ![w] = b]
  <2>1. \A m \in Nat : Within(j, m) => Within(b, m)
    BY <1>7 DEF Within
  <2> QED BY <1>1, <1>4, <1>5, <1>7, <1>9, <2>1, EndMoves DEF j
<1>10. CASE reply'.ok /\ job' = [job EXCEPT ![w] = a]
  <2>1. Account(a, n)
    BY <1>1, <1>5, <1>8, <1>10, SameLegs
       DEF Good, Account, Before1, Before2, Before3, After1, After2, After3
  <2>2. \A m \in Nat : Within(j, m) => Within(a, m)
    BY <1>2, <1>6, <1>8, <1>10 DEF Within
  <2>3. Moves(w, a, n)
    BY <1>1, <1>4, <1>8, <1>10, <2>1, <2>2 DEF Moves, Good, j
  <2>4. PendingLegs(a) \subseteq PendingLegs(j) \cup {2} /\ Unbooked(a)
    BY <1>1, <1>8, <1>10 DEF PendingLegs, Unbooked, IsBooked
  <2>5. Approving(j, a, 2)
    BY <1>2, <1>5, <1>8, <1>10, <2>4 DEF Approving, req
  <2> QED BY <2>3, <2>5 DEF j
<1> QED BY <1>3, <1>9, <1>10

(* The second order and the query about its fill (live.go:304-331).        *)
LEMMA Place2Moves ==
  ASSUME TriInv, NEW w \in Workers, Place2(w)
  PROVE  \E k, n : Moves(w, k, n) /\ Quiet(job[w], k)
<1> DEFINE j == job[w]
<1>1. j \in Jobs /\ net[w] \in Nets /\ Good(j, net[w]) /\ j.pc = "place2"
  BY DEF TriInv, Place2, At
<1>2. PICK o \in PlaceOutcomes(j.qty2), info \in Answered("no_info") :
        /\ net' = [net EXCEPT ![w][2] = @ + Side(j, 2) * o.fill]
        /\ \/ ~o.ok /\ job' = [job EXCEPT ![w] = [j EXCEPT !.pc = "unwind1", !.back = j.qty,
                                                           !.result = "rejected2"]]
           \/ o.ok /\ job' = [job EXCEPT ![w] =
                 [j EXCEPT !.pc = "query2", !.back = o.fill, !.ordered = j.qty2,
                           !.qty2 = IF info THEN o.fill ELSE @, !.sure = @ /\ info,
                           !.known = IF info /\ o.fill > 0 THEN @ \cup {2} ELSE @]]
  BY DEF Place2, Executed, Become, Side
<1>3. j.qty2 \in Nat /\ o.fill \in Nat /\ o.fill <= j.qty2 /\ info \in BOOLEAN /\ j.sure \in BOOLEAN
  <2>1. j.qty2 \in Nat /\ info \in BOOLEAN /\ j.sure \in BOOLEAN
    BY <1>1 DEF Jobs, Answered
  <2>2. o.fill \in 0..j.qty2
    BY <2>1, OutcomeFills
  <2> QED BY <2>1, <2>2
<1> DEFINE n == [net[w] EXCEPT ![2] = @ + Side(j, 2) * o.fill]
           qty == IF info THEN o.fill ELSE j.qty2
           known == IF info /\ o.fill > 0 THEN j.known \cup {2} ELSE j.known
           sure == j.sure /\ info
           a == [j EXCEPT !.pc = "query2", !.back = o.fill, !.ordered = j.qty2,
                          !.qty2 = qty, !.sure = sure, !.known = known]
           r == [j EXCEPT !.pc = "unwind1", !.back = j.qty, !.result = "rejected2"]
<1>4. net' = [net EXCEPT ![w] = n] /\ UNCHANGED rounds
  BY <1>2 DEF Place2
<1>5. n \in Nets /\ n[2] = Side(j, 2) * o.fill /\ n[1] = net[w][1] /\ n[3] = 0
  <2>1. Side(j, 2) * o.fill \in Int
    BY <1>1, <1>3, LegsAreOrders, SignedQuantity
  <2> QED BY <1>1, <2>1, SignedQuantity DEF Good, Account, Before1, Before2, Before3, Nets
<1>6. j.result = "none" /\ j.unwound = {} /\ j.tri \in Triangles /\ Unbooked(j)
  BY <1>1 DEF Good, Account, Unbooked, IsBooked, Jobs
<1>7. /\ qty \in Nat /\ qty <= j.qty2 /\ known \in SUBSET (1..3) /\ sure \in BOOLEAN
      /\ (sure => j.sure /\ qty = o.fill)
  BY <1>1, <1>3 DEF Jobs
<1>8. (o.ok /\ job' = [job EXCEPT ![w] = a]) \/ (~o.ok /\ job' = [job EXCEPT ![w] = r])
  BY <1>2
<1> HIDE DEF qty, known, sure
<1>9. /\ a \in Jobs /\ a.pc = "query2" /\ a.qty = j.qty /\ a.filled1 = j.filled1 /\ a.back = o.fill
      /\ a.tri = j.tri /\ a.dir = j.dir /\ a.result = j.result /\ a.unwound = j.unwound
      /\ a.qty2 = qty /\ a.qty3 = j.qty3 /\ (a.sure => sure)
  BY <1>1, <1>3, <1>7 DEF Jobs, PCs
<1>10. /\ r \in Jobs /\ r.pc = "unwind1" /\ r.result = "rejected2" /\ r.tri = j.tri /\ r.dir = j.dir
       /\ r.qty = j.qty /\ r.filled1 = j.filled1 /\ r.back = j.qty /\ r.qty2 = j.qty2 /\ r.qty3 = j.qty3
       /\ r.unwound = j.unwound /\ r.got = j.got
  BY <1>1, <1>3 DEF Jobs, PCs, Results
<1> HIDE DEF n, a, r, j
<1>11. ASSUME o.ok PROVE Moves(w, a, n) /\ Quiet(j, a)
  <2>1. Account(a, n)
    BY <1>1, <1>3, <1>5, <1>6, <1>7, <1>9, SameLegs
       DEF Good, Account, Before1, Before2, Before3, After1, After2, After3
  <2>2. Quiet(j, a)
    BY <1>1, <1>6, <1>9 DEF Quiet, Unbooked, IsBooked, PendingLegs
  <2>3. ASSUME NEW m \in Nat, Within(j, m) PROVE Within(a, m)
    BY <1>1, <1>3, <1>7, <1>9, <2>3 DEF Within, Jobs
  <2> QED BY <1>1, <1>4, <1>5, <1>8, <1>9, <1>11, <2>1, <2>2, <2>3 DEF Moves, Good, j
<1>12. ASSUME ~o.ok PROVE Moves(w, r, n) /\ Quiet(j, r)
  <2>1. Account(r, n)
    BY <1>1, <1>5, <1>6, <1>10, SameLegs
       DEF Good, Account, Before1, Before2, Before3, After1, After2, After3
  <2>2. Quiet(j, r)
    BY <1>6, <1>10 DEF Quiet, Unbooked, IsBooked, PendingLegs
  <2>3. ASSUME NEW m \in Nat, Within(j, m) PROVE Within(r, m)
    BY <1>10, <2>3 DEF Within
  <2> QED BY <1>1, <1>4, <1>5, <1>8, <1>10, <1>12, <2>1, <2>2, <2>3 DEF Moves, Good, j
<1> QED BY <1>8, <1>11, <1>12 DEF j

(* The minimum checks of the third leg and the status query                *)
(* (live.go:332-356).                                                      *)
LEMMA Query2Moves ==
  ASSUME TriInv, NEW w \in Workers, Query2(w)
  PROVE  \E k, n : Moves(w, k, n) /\ Quiet(job[w], k)
<1> DEFINE j == job[w]
           n == net[w]
           s == [j EXCEPT !.pc = "done", !.result = "small3"]
<1>1. j \in Jobs /\ n \in Nets /\ Good(j, n) /\ j.pc = "query2"
  BY DEF TriInv, Query2, At
<1>2. \/ job' = [job EXCEPT ![w] = s]
      \/ \E status \in Answered("no_status") :
           LET q == [j EXCEPT !.qty3 = IF status THEN j.back ELSE j.qty2]
           IN \/ job' = [job EXCEPT ![w] = [q EXCEPT !.pc = "unwind1", !.back = j.filled1,
                                                     !.result = "unfilled2"]]
              \/ job' = [job EXCEPT ![w] = [q EXCEPT !.pc = "risk3"]]
  BY DEF Query2, Return, Become
<1>3. net' = [net EXCEPT ![w] = n] /\ UNCHANGED rounds
  BY DEF Query2, TriInv
<1>4. j.result = "none" /\ j.unwound = {} /\ j.tri \in Triangles /\ Unbooked(j)
  BY <1>1 DEF Good, Account, Unbooked, IsBooked, Jobs
<1>5. CASE job' = [job EXCEPT ![w] = s]
  <2>1. /\ s \in Jobs /\ s.pc = "done" /\ s.result = "small3" /\ s.tri = j.tri /\ s.qty = j.qty
        /\ s.filled1 = j.filled1 /\ s.qty2 = j.qty2 /\ s.qty3 = j.qty3 /\ s.back = j.back
    BY <1>1 DEF Jobs, PCs, Results
  <2> HIDE DEF s, n, j
  <2>2. \A m \in Nat : Within(j, m) => Within(s, m)
    BY <2>1 DEF Within
  <2> QED BY <1>1, <1>3, <1>4, <1>5, <2>1, <2>2, EndMoves DEF j
<1>6. ASSUME NEW status \in Answered("no_status"),
             LET q == [j EXCEPT !.qty3 = IF status THEN j.back ELSE j.qty2]
             IN \/ job' = [job EXCEPT ![w] = [q EXCEPT !.pc = "unwind1", !.back = j.filled1,
                                                       !.result = "unfilled2"]]
                \/ job' = [job EXCEPT ![w] = [q EXCEPT !.pc = "risk3"]]
      PROVE  \E k, m : Moves(w, k, m) /\ Quiet(j, k)
  <2> DEFINE qty == IF status THEN j.back ELSE j.qty2
             q == [j EXCEPT !.qty3 = qty]
             u == [q EXCEPT !.pc = "unwind1", !.back = j.filled1, !.result = "unfilled2"]
             a == [q EXCEPT !.pc = "risk3"]
  <2>1. qty \in Nat /\ (qty = j.back \/ qty = j.qty2)
    BY <1>1 DEF Jobs
  <2>2. job' = [job EXCEPT ![w] = u] \/ job' = [job EXCEPT ![w] = a]
    BY <1>6
  <2> HIDE DEF qty
  <2>3. /\ u \in Jobs /\ u.pc = "unwind1" /\ u.result = "unfilled2" /\ u.tri = j.tri /\ u.qty = j.qty
        /\ u.filled1 = j.filled1 /\ u.qty2 = j.qty2 /\ u.qty3 = qty /\ u.back = j.filled1
    BY <1>1, <2>1 DEF Jobs, PCs, Results
  <2>4. /\ a \in Jobs /\ a.pc = "risk3" /\ a.result = j.result /\ a.tri = j.tri /\ a.dir = j.dir
        /\ a.qty = j.qty /\ a.filled1 = j.filled1 /\ a.qty2 = j.qty2 /\ a.qty3 = qty
        /\ a.back = j.back /\ a.unwound = j.unwound /\ (a.sure => j.sure)
    BY <1>1, <2>1 DEF Jobs, PCs
  <2> HIDE DEF q, a, u, n, j
  <2>5. CASE job' = [job EXCEPT ![w] = u]
    <3>1. \A m \in Nat : Within(j, m) => Within(u, m)
      BY <2>1, <2>3 DEF Within
    <3> QED BY <1>1, <1>3, <1>4, <2>3, <2>5, <3>1, EndMoves DEF j
  <2>6. CASE job' = [job EXCEPT ![w] = a]
    <3>1. Account(a, n)
      BY <1>1, <1>4, <2>4, SameLegs DEF Good, Account, Before1, Before2, Before3, After1, After2, After3
    <3>2. \A m \in Nat : Within(j, m) => Within(a, m)
      BY <2>1, <2>4 DEF Within
    <3>3. Quiet(j, a)
      BY <1>1, <1>4, <2>4 DEF Quiet, Unbooked, IsBooked, PendingLegs
    <3> QED BY <1>1, <1>3, <2>4, <2>6, <3>1, <3>2, <3>3 DEF Moves, Good, j
  <2> QED BY <2>2, <2>5, <2>6
<1> QED BY <1>2, <1>5, <1>6

(* The check of the third leg (live.go:357-366).                           *)
LEMMA Risk3Moves ==
  ASSUME TriInv, NEW w \in Workers, Risk3(w)
  PROVE  \E k, n : Moves(w, k, n) /\ (Quiet(job[w], k) \/ Approving(job[w], k, 3))
<1> DEFINE j == job[w]
           n == net[w]
           req == Request(j, 3, j.qty3)
           qty == Adjusted(j, 3)
           u == [j EXCEPT !.pc = "unwind2", !.back = j.qty, !.result = "blocked3"]
           a == [j EXCEPT !.pc = "place3", !.qty3 = qty]
<1>1. j \in Jobs /\ n \in Nets /\ Good(j, n) /\ j.pc = "risk3"
  BY DEF TriInv, Risk3, At
<1>2. Allow(req) /\ j.qty3 \in Nat
  BY <1>1 DEF Risk3, Jobs
<1>3. \/ job' = [job EXCEPT ![w] = u]
      \/ reply'.ok /\ job' = [job EXCEPT ![w] = a]
  BY DEF Risk3, Become
<1>4. net' = [net EXCEPT ![w] = n] /\ UNCHANGED rounds
  BY DEF Risk3, TriInv
<1>5. j.result = "none" /\ j.unwound = {} /\ j.tri \in Triangles /\ Unbooked(j)
  BY <1>1 DEF Good, Account, Unbooked, IsBooked, Jobs
<1>6. reply'.ok => qty \in Nat /\ qty \in 0..j.qty3
  BY <1>1, <1>2, <1>5, ApprovalAdjusts
<1>7. /\ u \in Jobs /\ u.pc = "unwind2" /\ u.result = "blocked3" /\ u.tri = j.tri /\ u.qty = j.qty
      /\ u.filled1 = j.filled1 /\ u.qty2 = j.qty2 /\ u.qty3 = j.qty3 /\ u.back = j.qty
  BY <1>1 DEF Jobs, PCs, Results
<1>8. reply'.ok =>
      /\ a \in Jobs /\ a.pc = "place3" /\ a.result = j.result /\ a.tri = j.tri /\ a.dir = j.dir
      /\ a.qty = j.qty /\ a.filled1 = j.filled1 /\ a.qty2 = j.qty2 /\ a.qty3 = qty
      /\ a.back = j.back /\ a.got = j.got /\ a.unwound = j.unwound /\ (a.sure => j.sure)
  BY <1>1, <1>6 DEF Jobs, PCs
<1> HIDE DEF a, u, n, j, req, qty
<1>9. CASE job' = [job EXCEPT ![w] = u]
  <2>1. \A m \in Nat : Within(j, m) => Within(u, m)
    BY <1>7 DEF Within
  <2> QED BY <1>1, <1>4, <1>5, <1>7, <1>9, <2>1, EndMoves DEF j
<1>10. CASE reply'.ok /\ job' = [job EXCEPT ![w] = a]
  <2>1. Account(a, n)
    BY <1>1, <1>5, <1>8, <1>10, SameLegs
       DEF Good, Account, Before1, Before2, Before3, After1, After2, After3
  <2>2. \A m \in Nat : Within(j, m) => Within(a, m)
    BY <1>2, <1>6, <1>8, <1>10 DEF Within
  <2>3. Moves(w, a, n)
    BY <1>1, <1>4, <1>8, <1>10, <2>1, <2>2 DEF Moves, Good, j
  <2>4. PendingLegs(a) \subseteq PendingLegs(j) \cup {3} /\ Unbooked(a)
    BY <1>1, <1>8, <1>10 DEF PendingLegs, Unbooked, IsBooked
  <2>5. Approving(j, a, 3)
    BY <1>2, <1>5, <1>8, <1>10, <2>4 DEF Approving, req
  <2> QED BY <2>3, <2>5 DEF j
<1> QED BY <1>3, <1>9, <1>10

(* The third order and the query about its fill (live.go:367-390).         *)
LEMMA Place3Moves ==
  ASSUME TriInv, NEW w \in Workers, Place3(w)
  PROVE  \E k, n : Moves(w, k, n) /\ Quiet(job[w], k)
<1> DEFINE j == job[w]
<1>1. j \in Jobs /\ net[w] \in Nets /\ Good(j, net[w]) /\ j.pc = "place3"
  BY DEF TriInv, Place3, At
<1>2. PICK o \in PlaceOutcomes(j.qty3), info \in Answered("no_info") :
        /\ net' = [net EXCEPT ![w][3] = @ + Side(j, 3) * o.fill]
        /\ \/ ~o.ok /\ job' = [job EXCEPT ![w] = [j EXCEPT !.pc = "unwind2", !.back = j.qty,
                                                           !.result = "rejected3"]]
           \/ o.ok /\ job' = [job EXCEPT ![w] =
                 [j EXCEPT !.pc = "pnl", !.qty3 = IF info THEN o.fill ELSE @, !.sure = @ /\ info,
                           !.known = IF info /\ o.fill > 0 THEN @ \cup {3} ELSE @]]
  BY DEF Place3, Executed, Become, Side
<1>3. j.qty3 \in Nat /\ o.fill \in Nat /\ o.fill <= j.qty3 /\ info \in BOOLEAN /\ j.sure \in BOOLEAN
  <2>1. j.qty3 \in Nat /\ info \in BOOLEAN /\ j.sure \in BOOLEAN
    BY <1>1 DEF Jobs, Answered
  <2>2. o.fill \in 0..j.qty3
    BY <2>1, OutcomeFills
  <2> QED BY <2>1, <2>2
<1> DEFINE n == [net[w] EXCEPT ![3] = @ + Side(j, 3) * o.fill]
           qty == IF info THEN o.fill ELSE j.qty3
           known == IF info /\ o.fill > 0 THEN j.known \cup {3} ELSE j.known
           sure == j.sure /\ info
           a == [j EXCEPT !.pc = "pnl", !.qty3 = qty, !.sure = sure, !.known = known]
           r == [j EXCEPT !.pc = "unwind2", !.back = j.qty, !.result = "rejected3"]
<1>4. net' = [net EXCEPT ![w] = n] /\ UNCHANGED rounds
  BY <1>2 DEF Place3
<1>5. n \in Nets /\ n[3] = Side(j, 3) * o.fill /\ n[1] = net[w][1] /\ n[2] = net[w][2]
  <2>1. Side(j, 3) * o.fill \in Int
    BY <1>1, <1>3, LegsAreOrders, SignedQuantity
  <2> QED BY <1>1, <2>1, SignedQuantity DEF Good, Account, Before1, Before2, Before3, Nets
<1>6. j.result = "none" /\ j.unwound = {} /\ j.tri \in Triangles /\ Unbooked(j)
  BY <1>1 DEF Good, Account, Unbooked, IsBooked, Jobs
<1>7. /\ qty \in Nat /\ qty <= j.qty3 /\ known \in SUBSET (1..3) /\ sure \in BOOLEAN
      /\ (sure => j.sure /\ qty = o.fill)
  BY <1>1, <1>3 DEF Jobs
<1>8. (o.ok /\ job' = [job EXCEPT ![w] = a]) \/ (~o.ok /\ job' = [job EXCEPT ![w] = r])
  BY <1>2
<1> HIDE DEF qty, known, sure
<1>9. /\ a \in Jobs /\ a.pc = "pnl" /\ a.qty = j.qty /\ a.filled1 = j.filled1 /\ a.back = j.back
      /\ a.tri = j.tri /\ a.dir = j.dir /\ a.result = j.result /\ a.unwound = j.unwound
      /\ a.qty2 = j.qty2 /\ a.qty3 = qty /\ (a.sure => sure)
  BY <1>1, <1>3, <1>7 DEF Jobs, PCs
<1>10. /\ r \in Jobs /\ r.pc = "unwind2" /\ r.result = "rejected3" /\ r.tri = j.tri
       /\ r.qty = j.qty /\ r.filled1 = j.filled1 /\ r.back = j.qty /\ r.qty2 = j.qty2 /\ r.qty3 = j.qty3
  BY <1>1, <1>3 DEF Jobs, PCs, Results
<1> HIDE DEF n, a, r, j
<1>11. ASSUME o.ok PROVE Moves(w, a, n) /\ Quiet(j, a)
  <2>1. Account(a, n)
    BY <1>1, <1>3, <1>5, <1>6, <1>7, <1>9, SameLegs
       DEF Good, Account, Before1, Before2, Before3, After1, After2, After3
  <2>2. Quiet(j, a)
    BY <1>1, <1>6, <1>9 DEF Quiet, Unbooked, IsBooked, PendingLegs
  <2>3. ASSUME NEW m \in Nat, Within(j, m) PROVE Within(a, m)
    BY <1>1, <1>3, <1>7, <1>9, <2>3 DEF Within, Jobs
  <2> QED BY <1>1, <1>4, <1>5, <1>8, <1>9, <1>11, <2>1, <2>2, <2>3 DEF Moves, Good, j
<1>12. ASSUME ~o.ok PROVE Moves(w, r, n) /\ Quiet(j, r)
  <2>1. \A m \in Nat : Within(j, m) => Within(r, m)
    BY <1>10 DEF Within
  <2> QED BY <1>1, <1>4, <1>5, <1>6, <1>8, <1>10, <1>12, <2>1, EndMoves DEF j
<1> QED BY <1>8, <1>11, <1>12 DEF j

(* The two unwind orders (live.go:360-365, 385-390, 481-501).              *)
LEMMA UnwindMoves ==
  ASSUME TriInv, NEW w \in Workers, Unwind2(w) \/ Unwind1(w)
  PROVE  \E k, n : Moves(w, k, n) /\ Quiet(job[w], k)
<1> DEFINE j == job[w]
           leg == IF j.pc = "unwind2" THEN 2 ELSE 1
           side == IF j.pc = "unwind2" THEN Side(j, 2) ELSE -Side(j, 1)
           qty == IF j.pc = "unwind2" THEN j.qty2 ELSE j.back
           to == IF leg = 2 THEN "unwind1" ELSE "done"
<1>1. j \in Jobs /\ net[w] \in Nets /\ Good(j, net[w]) /\ j.pc \in {"unwind1", "unwind2"}
  BY DEF TriInv, Unwind1, Unwind2, At
<1>2. unwindPair(w, leg, side, qty) /\ UNCHANGED rounds
  BY DEF Unwind1, Unwind2, At, Side
<1>3. qty \in Nat /\ leg \in 1..2 /\ side \in {1, -1}
  BY <1>1, LegsAreOrders DEF Jobs
<1>4. PICK o \in IF qty = 0 THEN {[ok |-> FALSE, fill |-> 0]} ELSE PlaceOutcomes(qty) :
        /\ net' = [net EXCEPT ![w][leg] = @ + side * o.fill]
        /\ job' = [job EXCEPT ![w] = [j EXCEPT !.pc = to,
                      !.unwound = IF o.fill = qty /\ qty > 0 THEN @ \cup {leg} ELSE @]]
  BY <1>2 DEF unwindPair, Executed, Become
<1>5. o.fill \in Nat
  <2>1. CASE qty = 0
    BY <1>4, <2>1
  <2>2. CASE qty # 0
    BY <1>3, <1>4, <2>2, OutcomeFills
  <2> QED BY <2>1, <2>2
<1> DEFINE n == [net[w] EXCEPT ![leg] = @ + side * o.fill]
           un == IF o.fill = qty /\ qty > 0 THEN j.unwound \cup {leg} ELSE j.unwound
           k == [j EXCEPT !.pc = to, !.unwound = un]
<1>6. net' = [net EXCEPT ![w] = n] /\ job' = [job EXCEPT ![w] = k]
  BY <1>4
<1>7. n \in Nets /\ n[leg] = net[w][leg] + side * o.fill /\ \A i \in 1..3 : i # leg => n[i] = net[w][i]
  <2>1. side * o.fill \in Int
    BY <1>3, <1>5, SignedQuantity
  <2> QED BY <1>1, <1>3, <2>1 DEF Nets
<1>8. un \in SUBSET (1..3) /\ to \in {"unwind1", "done"}
  BY <1>1, <1>3 DEF Jobs
<1>9. Unbooked(j) /\ j.tri \in Triangles /\ j.result \notin {"none", "success"}
      /\ (j.result = "rejected2" => j.pc = "unwind1")
  BY <1>1 DEF Good, Account, Unbooked, IsBooked
<1>10. j.pc = "unwind1" => leg = 1 /\ qty = j.back /\ side = -Side(j, 1) /\ to = "done"
  OBVIOUS
<1>11. un = {1} /\ j.unwound = {} => o.fill = qty
  OBVIOUS
<1> HIDE DEF leg, side, qty, un, to
<1>12. /\ k \in Jobs /\ k.pc = to /\ k.result = j.result /\ k.tri = j.tri /\ k.dir = j.dir
       /\ k.unwound = un /\ k.qty = j.qty
       /\ k.filled1 = j.filled1 /\ k.qty2 = j.qty2 /\ k.qty3 = j.qty3 /\ k.back = j.back
       /\ k.got = j.got
  BY <1>1, <1>8 DEF Jobs, PCs
<1> HIDE DEF k, n, j
<1>13. \A m \in Nat : Within(j, m) => Within(k, m)
  BY <1>12 DEF Within
<1>14. CASE j.result # "rejected2"
  BY <1>1, <1>2, <1>6, <1>7, <1>8, <1>9, <1>12, <1>13, <1>14, EndMoves DEF j
<1>15. CASE j.result = "rejected2"
  <2>1. /\ net[w][1] = Side(j, 1) * j.got /\ j.got <= j.qty /\ j.back = j.qty /\ j.unwound = {}
        /\ leg = 1 /\ side = -Side(j, 1) /\ qty = j.qty /\ k.pc = "done"
    BY <1>1, <1>9, <1>10, <1>12, <1>15 DEF Good, Account
  <2>2. k.unwound = {1} => n[1] = Side(j, 1) * j.got + (-Side(j, 1)) * j.qty
    BY <1>7, <1>11, <1>12, <2>1
  <2>3. Account(k, n)
    BY <1>9, <1>12, <1>15, <2>1, <2>2, SameLegs
       DEF Account, Before1, Before2, Before3, After1, After2, After3
  <2>4. Quiet(j, k)
    BY <1>9, <1>12, <2>1, <1>15 DEF Quiet, Unbooked, IsBooked, PendingLegs
  <2> QED BY <1>1, <1>2, <1>6, <1>7, <1>12, <1>13, <2>1, <2>3, <2>4 DEF Moves, Good, j
<1> QED BY <1>14, <1>15

(* The result of the cycle (live.go:391-434).                              *)
LEMMA BookPnLMoves ==
  ASSUME TriInv, NEW w \in Workers, BookPnL(w)
  PROVE  \E k, n : Moves(w, k, n) /\ Quiet(job[w], k)
<1> DEFINE j == job[w]
           n == net[w]
           first == 1
           k == [j EXCEPT !.pc = "book", !.leg = first]
<1>1. j \in Jobs /\ n \in Nets /\ Good(j, n) /\ j.pc = "pnl"
  BY DEF TriInv, BookPnL, At
<1>2. job' = [job EXCEPT ![w] = k] /\ net' = [net EXCEPT ![w] = n] /\ UNCHANGED rounds
  BY DEF BookPnL, Become, TriInv
<1>3. j.result = "none" /\ j.unwound = {} /\ j.tri \in Triangles /\ Unbooked(j)
  BY <1>1 DEF Good, Account, Unbooked, IsBooked, Jobs
<1>4. /\ k \in Jobs /\ k.pc = "book" /\ k.leg = 1 /\ k.result = j.result /\ k.tri = j.tri /\ k.dir = j.dir
      /\ k.unwound = j.unwound /\ k.qty = j.qty /\ k.filled1 = j.filled1 /\ k.qty2 = j.qty2
      /\ k.qty3 = j.qty3 /\ k.back = j.back /\ (k.sure => j.sure)
  <2>1. first \in 1..3 /\ first = 1
    OBVIOUS
  <2> HIDE DEF first
  <2> QED BY <1>1, <2>1 DEF Jobs, PCs
<1> HIDE DEF j, n, k
<1>5. Account(k, n)
  BY <1>1, <1>3, <1>4, SameLegs DEF Good, Account, Before1, Before2, Before3, After1, After2, After3
<1>6. \A m \in Nat : Within(j, m) => Within(k, m)
  BY <1>4 DEF Within
<1>7. Quiet(j, k)
  BY <1>1, <1>3, <1>4 DEF Quiet, Unbooked, IsBooked, PendingLegs
<1> QED BY <1>1, <1>2, <1>4, <1>5, <1>6, <1>7 DEF Moves, Good, j

(* A step that books the next leg.                                         *)
Books(j, k) ==
  /\ j.pc = "book" /\ j.leg \in 1..3 /\ k.tri = j.tri /\ k.dir = j.dir
  /\ j.leg \in PendingLegs(j) /\ PendingLegs(k) = PendingLegs(j) \ {j.leg}
  /\ ~IsBooked(j, j.leg) /\ IsBooked(k, j.leg)
  /\ \A i \in 1..3 : /\ Filled(k, i) = Filled(j, i)
                     /\ i # j.leg => (IsBooked(k, i) <=> IsBooked(j, i))

(* The positions of the three legs (live.go:436-479).                      *)
LEMMA BookLegMoves ==
  ASSUME TriInv, NEW w \in Workers, BookLeg(w)
  PROVE  \E k, n : Moves(w, k, n) /\ Books(job[w], k)
<1> DEFINE j == job[w]
           n == net[w]
           f == [j EXCEPT !.pc = "done", !.result = "success"]
           next == j.leg + 1
           a == [j EXCEPT !.leg = next]
<1>1. j \in Jobs /\ n \in Nets /\ Good(j, n) /\ j.pc = "book" /\ j.leg \in 1..3
  BY DEF TriInv, BookLeg, At, Jobs
<1>2. net' = [net EXCEPT ![w] = n] /\ UNCHANGED rounds
  BY DEF BookLeg, TriInv
<1>3. \/ j.leg = 3 /\ job' = [job EXCEPT ![w] = f]
      \/ j.leg # 3 /\ job' = [job EXCEPT ![w] = a]
  BY DEF BookLeg, Return, Become
<1>4. j.result = "none" /\ j.unwound = {} /\ j.tri \in Triangles
  BY <1>1 DEF Good, Account
<1>5. /\ f \in Jobs /\ f.pc = "done" /\ f.result = "success" /\ f.tri = j.tri /\ f.dir = j.dir
      /\ f.qty = j.qty /\ f.filled1 = j.filled1 /\ f.qty2 = j.qty2 /\ f.qty3 = j.qty3
      /\ f.back = j.back /\ (f.sure => j.sure)
  BY <1>1 DEF Jobs, PCs, Results
<1>9. j.leg # 3 => next \in 1..3
  BY <1>1
<1> HIDE DEF next
<1>6. j.leg # 3 =>
      /\ a \in Jobs /\ a.pc = "book" /\ a.result = j.result /\ a.tri = j.tri /\ a.dir = j.dir
      /\ a.qty = j.qty /\ a.filled1 = j.filled1 /\ a.qty2 = j.qty2 /\ a.qty3 = j.qty3
      /\ a.back = j.back /\ (a.sure => j.sure) /\ a.unwound = j.unwound /\ a.leg = next
  BY <1>1, <1>9 DEF Jobs, PCs
<1> HIDE DEF j, n, f, a
<1>7. CASE j.leg = 3 /\ job' = [job EXCEPT ![w] = f]
  <2>1. \A i \in 1..3 : Filled(f, i) = Filled(j, i) /\ Filled(j, i) = <<j.filled1, j.qty2, j.qty3>>[i]
    BY <1>5 DEF Filled
  <2>2. Account(f, n)
    BY <1>1, <1>5, <2>1, SameLegs DEF Good, Account, Before1, Before2, Before3, After1, After2, After3
  <2>3. \A m \in Nat : Within(j, m) => Within(f, m)
    BY <1>5 DEF Within
  <2>4. Books(j, f)
    BY <1>1, <1>5, <1>7, <2>1 DEF Books, IsBooked, PendingLegs
  <2> QED BY <1>1, <1>2, <1>5, <1>7, <2>2, <2>3, <2>4 DEF Moves, Good, j
<1>8. CASE j.leg # 3 /\ job' = [job EXCEPT ![w] = a]
  <2>1. \A i \in 1..3 : Filled(a, i) = Filled(j, i) /\ Filled(j, i) = <<j.filled1, j.qty2, j.qty3>>[i]
    BY <1>6, <1>8 DEF Filled
  <2>2. Account(a, n)
    BY <1>1, <1>4, <1>6, <1>8, SameLegs DEF Good, Account, Before1, Before2, Before3, After1, After2, After3
  <2>3. \A m \in Nat : Within(j, m) => Within(a, m)
    BY <1>6, <1>8 DEF Within
  <2>4. Books(j, a)
    BY <1>1, <1>6, <1>8, <2>1 DEF next, Books, IsBooked, PendingLegs
  <2> QED BY <1>1, <1>2, <1>6, <1>8, <2>2, <2>3, <2>4 DEF Moves, Good, j
<1> QED BY <1>3, <1>7, <1>8

(* A new execution begins with empty books and nothing approved            *)
(* (live.go:148-180).                                                      *)
LEMMA BeginMoves ==
  ASSUME TriInv, NEW w \in Workers, Begin(w)
  PROVE  /\ TriInv'
         /\ rounds' = [rounds EXCEPT ![w] = @ + 1] /\ (rounds[w] = 0 => Unbooked(job[w]))
         /\ \E k : /\ job' = [job EXCEPT ![w] = k]
                   /\ Unbooked(k) /\ PendingLegs(k) = {}
                   /\ \A m \in Nat : (\A q \in Sizes : q <= m) => Within(k, m)
<1>1. PICK tri \in Triangles, dir \in Dirs, qty \in Sizes : job' = [job EXCEPT ![w] = Job(tri, dir, qty)]
  BY DEF Begin, Become
<1> DEFINE k == Job(tri, dir, qty)
           n == [i \in 1..3 |-> 0]
<1>2. net' = [net EXCEPT ![w] = n] /\ rounds' = [rounds EXCEPT ![w] = @ + 1] /\ rounds[w] < Rounds
  BY DEF Begin
<1>3. qty \in Nat /\ dir \in {"F", "R"}
  BY ExecAssumption
<1>4. n \in Nets /\ n[1] = 0 /\ n[2] = 0 /\ n[3] = 0
  BY DEF Nets
<1>5. /\ k \in Jobs /\ k.pc = "risk1" /\ k.tri = tri /\ k.result = "none" /\ k.unwound = {} /\ k.qty = qty
      /\ k.filled1 = 0 /\ k.qty2 = 0 /\ k.qty3 = 0 /\ k.back = 0
  BY <1>3 DEF Job, Jobs, PCs, Results
<1> HIDE DEF k, n
<1>6. Account(k, n)
  BY <1>4, <1>5 DEF Account, Before1, Before2, Before3, After1, After2, After3
<1>7. TriInv'
  <2>1. job' \in [Workers -> Jobs] /\ net' \in [Workers -> Nets] /\ rounds' \in [Workers -> 0..Rounds]
    BY <1>1, <1>2, <1>4, <1>5, ExecAssumption DEF TriInv, k
  <2>2. ASSUME NEW v \in Workers
        PROVE  Good(job'[v], net'[v]) /\ (rounds'[v] = 0 => job'[v].pc = "idle")
    <3>1. CASE v = w
      BY <1>1, <1>2, <1>4, <1>5, <1>6, <3>1, ExecAssumption DEF TriInv, Good, k
    <3>2. CASE v # w
      BY <1>1, <1>2, <3>2 DEF TriInv
    <3> QED BY <3>1, <3>2
  <2> QED BY <2>1, <2>2 DEF TriInv
<1>8. rounds[w] = 0 => Unbooked(job[w])
  BY DEF TriInv, Unbooked, IsBooked
<1>9. Unbooked(k) /\ PendingLegs(k) = {}
  BY <1>5 DEF Unbooked, IsBooked, PendingLegs
<1>10. ASSUME NEW m \in Nat, \A q \in Sizes : q <= m PROVE Within(k, m)
  BY <1>3, <1>5, <1>10 DEF Within
<1> QED BY <1>1, <1>2, <1>7, <1>8, <1>9, <1>10 DEF k

-----------------------------------------------------------------------------
(* The invariant of the executions and of the engine they share.           *)

(* An asset has a price in USD, or counts for nothing (live.go:444-465).   *)
LEMMA UsdPriceNat == \A a : UsdPrice(a) \in Nat
<1>1. ASSUME NEW a PROVE UsdPrice(a) \in Nat
  <2>1. CASE <<a[1], "USDT">> \in DOMAIN Price
    <3>1. Price[<<a[1], "USDT">>] \in Nat /\ PriceUnit \in Nat \ {0}
      BY <2>1, PriceAssumption
    <3> DEFINE x == Price[<<a[1], "USDT">>]
    <3>2. x \div PriceUnit \in Nat
      <4> HIDE DEF x
      <4> QED BY <3>1 DEF x
    <3> QED BY <3>2 DEF UsdPrice
  <2>2. CASE <<a[1], "USDT">> \notin DOMAIN Price
    BY <2>2 DEF UsdPrice
  <2> QED BY <2>1, <2>2
<1> QED BY <1>1

(* What a quantity is booked with grows with it (live.go:436-475).         *)
LEMMA LegUSDGrows ==
  ASSUME NEW sym \in Pairs, NEW q \in Nat, NEW m \in Nat, q <= m
  PROVE  LegUSD(sym, q) \in Nat /\ LegUSD(sym, m) \in Nat /\ LegUSD(sym, q) <= LegUSD(sym, m)
<1> DEFINE x == Price[sym]
           y == UsdPrice(QuoteOf(sym))
<1>1. x \in Nat /\ y \in Nat
  BY PriceAssumption, UsdPriceNat
<1>2. LegUSD(sym, q) = (q * x) * y /\ LegUSD(sym, m) = (m * x) * y
  BY DEF LegUSD
<1> HIDE DEF x, y
<1>3. q * x \in Nat /\ m * x \in Nat /\ q * x <= m * x
  BY <1>1
<1> DEFINE a == q * x
           b == m * x
<1> HIDE DEF a, b
<1>4. a \in Nat /\ b \in Nat /\ a <= b
  BY <1>3 DEF a, b
<1>5. a * y \in Nat /\ b * y \in Nat /\ a * y <= b * y
  BY <1>1, <1>4
<1> QED BY <1>2, <1>5 DEF a, b

(* A leg is booked with an integer on an asset of the engine               *)
(* (live.go:436-475, risk.go:139-165).                                     *)
LEMMA LegIsBookable ==
  ASSUME NEW j, NEW n, Good(j, n), j.pc # "idle", NEW k \in 1..3
  PROVE  /\ Filled(j, k) \in Nat /\ Side(j, k) \in {1, -1} /\ Legs(j)[k].sym \in Pairs
         /\ Side(j, k) * Filled(j, k) \in Int /\ BaseOf(Legs(j)[k].sym) \in Assets
         /\ Side(j, k) * LegUSD(Legs(j)[k].sym, Filled(j, k)) \in Int
<1>1. j \in Jobs /\ j.tri \in Triangles
  BY DEF Good, Account
<1>2. Filled(j, k) \in Nat
  BY <1>1 DEF Filled, Jobs
<1>3. Side(j, k) \in {1, -1} /\ Legs(j)[k].sym \in Pairs
  BY <1>1, LegsAreOrders
<1>4. LegUSD(Legs(j)[k].sym, Filled(j, k)) \in Nat
  BY <1>2, <1>3, LegUSDGrows
<1>5. /\ Side(j, k) * Filled(j, k) \in Int
      /\ Side(j, k) * LegUSD(Legs(j)[k].sym, Filled(j, k)) \in Int
  BY <1>2, <1>3, <1>4, SignedQuantity
<1> QED BY <1>2, <1>3, <1>5 DEF Assets

(* Every call on the risk engine, in whatever order the workers make them. *)
LEMMA ExecKeepsEngine ==
  ASSUME TriInv, StopInv, NEW w \in Workers, ExecStep(w) PROVE StopInv'
<1> DEFINE j == job[w]
<1>1. j \in Jobs /\ Good(j, net[w]) /\ (j.pc # "idle" => j.tri \in Triangles)
  BY DEF TriInv, Good, Account
<1>2. CASE Risk1(w)
  <2>1. Request(j, 1, j.qty).value \in Nat /\ Allow(Request(j, 1, j.qty))
    BY <1>1, <1>2, RequestNat DEF Risk1, At, Jobs
  <2> QED BY <2>1, AllowStops
<1>3. CASE Risk2(w)
  <2>1. Request(j, 2, j.qty2).value \in Nat /\ Allow(Request(j, 2, j.qty2))
    BY <1>1, <1>3, RequestNat DEF Risk2, At, Jobs
  <2> QED BY <2>1, AllowStops
<1>4. CASE Risk3(w)
  <2>1. Request(j, 3, j.qty3).value \in Nat /\ Allow(Request(j, 3, j.qty3))
    BY <1>1, <1>4, RequestNat DEF Risk3, At, Jobs
  <2> QED BY <2>1, AllowStops
<1>5. CASE BookPnL(w)
  <2> DEFINE loss == (j.filled1 * UsdPrice(BaseOf(j.tri.AB))) * PriceUnit
  <2>1. -loss \in Int
    <3>1. j.filled1 \in Int /\ UsdPrice(BaseOf(j.tri.AB)) \in Int /\ PriceUnit \in Int
      BY <1>1, UsdPriceNat, PriceAssumption DEF Jobs
    <3> QED BY <3>1
  <2>2. (\E r \in RealizedUSD : UpdatePnL(r, 0)) \/ UpdatePnL(-loss, 0) \/ UpdatePnLNonFinite
    BY <1>5, Zenon DEF BookPnL
  <2> HIDE DEF loss
  <2>3. (\E r \in Int : UpdatePnL(r, 0)) \/ UpdatePnLNonFinite
    BY <2>1, <2>2, InputAssumption
  <2> QED BY <2>3, UpdatePnLStops, NonFiniteStops
<1>6. CASE BookLeg(w)
  <2> DEFINE signed == Side(j, j.leg) * Filled(j, j.leg)
             value == Side(j, j.leg) * LegUSD(Legs(j)[j.leg].sym, Filled(j, j.leg))
             asset == BaseOf(Legs(j)[j.leg].sym)
  <2>1. UpdatePosition(asset, "bybit", signed, value) /\ j.pc = "book"
    BY <1>6 DEF BookLeg, At, Side
  <2>2. signed \in Int /\ value \in Int /\ asset \in Assets
    <3>1. j.leg \in 1..3
      BY <1>1 DEF Jobs
    <3> QED BY <1>1, <2>1, <3>1, LegIsBookable
  <2>3. "bybit" \in Exchanges
    BY ExecAssumption
  <2> HIDE DEF asset, signed, value
  <2> QED BY <2>1, <2>2, <2>3, UpdatePositionStops
<1>7. CASE UNCHANGED vars
  BY <1>7, IdleStops
<1> QED BY <1>2, <1>3, <1>4, <1>5, <1>6, <1>7
        DEF ExecStep, Begin, Place1, Query1, Place2, Query2, Place3, Unwind2, Unwind1

(* Every step but Begin and BookLeg is quiet or approves a leg.            *)
LEMMA StepMoves ==
  ASSUME TriInv, NEW w \in Workers, ExecStep(w)
  PROVE  \/ Begin(w)
         \/ \E k, n : Moves(w, k, n) /\ UNCHANGED positions
                      /\ (Quiet(job[w], k) \/ \E i \in 1..3 : Approving(job[w], k, i))
         \/ BookLeg(w)
<1>1. Begin(w) \/ BookLeg(w) \/ UNCHANGED positions
  BY DEF ExecStep, Begin, Risk1, Place1, Query1, Risk2, Place2, Query2, Risk3, Place3, Unwind2, Unwind1,
         BookPnL, Allow, UpdatePnL, UpdatePnLNonFinite, vars, riskVars
<1> QED BY <1>1, Risk1Moves, Place1Moves, Query1Moves, Risk2Moves, Place2Moves, Query2Moves,
           Risk3Moves, Place3Moves, UnwindMoves, BookPnLMoves DEF ExecStep

LEMMA TriInvInit == ExecInit => TriInv /\ StopInv
<1> SUFFICES ASSUME ExecInit PROVE TriInv /\ StopInv
  OBVIOUS
<1> DEFINE t == CHOOSE t \in Triangles : TRUE
           k == [Job(t, "F", 0) EXCEPT !.pc = "idle"]
           n == [i \in 1..3 |-> 0]
<1>1. job = [w \in Workers |-> k] /\ net = [w \in Workers |-> n] /\ rounds = [w \in Workers |-> 0]
  BY DEF ExecInit
<1>2. n \in Nets /\ n[1] = 0 /\ n[2] = 0 /\ n[3] = 0
  BY DEF Nets
<1>8. t \in Triangles \cup {CHOOSE u \in Triangles : TRUE}
  OBVIOUS
<1> HIDE DEF t
<1>3. k \in Jobs /\ k.pc = "idle" /\ k.result = "none" /\ k.unwound = {}
  <2> DEFINE g == Job(t, "F", 0)
  <2>1. g \in Jobs /\ g.result = "none" /\ g.unwound = {}
    BY <1>8 DEF Job, Jobs, PCs, Results
  <2> HIDE DEF g
  <2>2. [g EXCEPT !.pc = "idle"] \in Jobs
    BY <2>1 DEF Jobs, PCs
  <2>3. k = [g EXCEPT !.pc = "idle"]
    BY DEF g
  <2> HIDE DEF k
  <2>4. /\ [g EXCEPT !.pc = "idle"].pc = "idle"
        /\ [g EXCEPT !.pc = "idle"].result = g.result /\ [g EXCEPT !.pc = "idle"].unwound = g.unwound
    BY <2>1 DEF Jobs
  <2> QED BY <2>1, <2>2, <2>3, <2>4
<1> HIDE DEF k, n
<1>4. Account(k, n)
  BY <1>2, <1>3 DEF Account, Before1, Before2, Before3, After1, After2, After3
<1>5. rounds \in [Workers -> 0..Rounds]
  BY <1>1, ExecAssumption
<1>6. TriInv
  BY <1>1, <1>2, <1>3, <1>4, <1>5 DEF TriInv, Good
<1>7. StopInv
  BY StopInvInit DEF ExecInit
<1> QED BY <1>6, <1>7

LEMMA TriInvNext == TriInv /\ StopInv /\ [ExecNext]_allVars => TriInv' /\ StopInv'
<1> SUFFICES ASSUME TriInv, StopInv, [ExecNext]_allVars PROVE TriInv' /\ StopInv'
  OBVIOUS
<1>1. ASSUME NEW w \in Workers, ExecStep(w) PROVE TriInv' /\ StopInv'
  BY <1>1, StepMoves, ExecKeepsEngine, OneExecution, BeginMoves, BookLegMoves
<1>2. CASE UNCHANGED allVars
  <2>1. UNCHANGED vars /\ UNCHANGED <<job, net, rounds>>
    BY <1>2 DEF allVars, execVars
  <2>2. TriInv'
    BY <2>1 DEF TriInv
  <2> QED BY <2>1, <2>2, IdleStops
<1> QED BY <1>1, <1>2 DEF ExecNext, Rest

(* The books of every execution agree with its place in executeTriangle,   *)
(* and the engine with itself.                                             *)
THEOREM TriInvHolds == ExecSpec => [](TriInv /\ StopInv)
BY TriInvInit, TriInvNext, PTL DEF ExecSpec

(* Whatever the exchange fills, loses or refuses: when the unwind after a  *)
(* rejected second leg fills, nothing is left of the first leg exactly if  *)
(* its order had filled whole, and otherwise the execution ends on the     *)
(* other side of it (live.go:313-321, 481-501).                            *)
THEOREM RejectedSecondLegIsFlatHolds == ExecSpec => []RejectedSecondLegIsFlat
<1>1. TriInv => RejectedSecondLegIsFlat
  <2> SUFFICES ASSUME TriInv, NEW w \in Workers, At(w, "done"), job[w].result = "rejected2",
                      job[w].unwound = {1}
               PROVE  /\ (net[w][1] = 0) <=> (job[w].got = job[w].qty)
                      /\ Legs(job[w])[1].side * net[w][1] <= 0
    BY DEF RejectedSecondLegIsFlat
  <2> DEFINE g == job[w].got
             q == job[w].qty
             x == Side(job[w], 1)
  <2>1. net[w][1] = x * g + (-x) * q /\ g \in Nat /\ q \in Nat /\ g <= q /\ x \in {1, -1}
    BY LegsAreOrders DEF TriInv, Good, Account, Jobs, At
  <2>2. Legs(job[w])[1].side = x
    BY DEF Side
  <2> HIDE DEF g, q, x
  <2>3. CASE x = 1
    <3>1. net[w][1] = g - q
      BY <2>1, <2>3
    <3> QED BY <2>1, <2>2, <2>3, <3>1 DEF g, q
  <2>4. CASE x = -1
    <3>1. net[w][1] = q - g
      BY <2>1, <2>4
    <3>2. x * net[w][1] = g - q
      BY <2>1, <2>4, <3>1
    <3> QED BY <2>1, <2>2, <3>1, <3>2 DEF g, q
  <2> QED BY <2>1, <2>3, <2>4
<1> QED BY <1>1, TriInvHolds, PTL

(* The locals of the workers, their books and the engine keep their types. *)
THEOREM ExecTypeCorrect == ExecSpec => []ExecTypeOK
<1>1. TriInv /\ StopInv /\ LateInv => ExecTypeOK
  <2> SUFFICES ASSUME TriInv, StopInv, LateInv PROVE ExecTypeOK
    OBVIOUS
  <2>1. TypeOK
    BY DEF StopInv
  <2>2. ASSUME NEW w \in Workers
        PROVE  /\ job[w].pc \in PCs /\ job[w].known \subseteq 1..3 /\ job[w].unwound \subseteq 1..3
               /\ {job[w].qty, job[w].filled1, job[w].qty2, job[w].qty3, job[w].back, job[w].got} \subseteq Nat
    BY DEF TriInv, Jobs
  <2>3. net \in [Workers -> [1..3 -> Int]] /\ rounds \in [Workers -> 0..Rounds]
    BY DEF TriInv, Nets
  <2>4. late \in [Workers -> Nat]
    BY DEF LateInv
  <2> QED BY <2>1, <2>2, <2>3, <2>4 DEF ExecTypeOK
<1> QED BY <1>1, TriInvHolds, LateInvHolds, PTL

-----------------------------------------------------------------------------
(* The engine's quantities against the fills of the executions.            *)

(* A leg is booked with an integer, or not at all (live.go:436-475).       *)
LEMMA BookedInt ==
  ASSUME NEW j, NEW n, Good(j, n), NEW i \in 1..3, NEW a PROVE Booked(j, i, a) \in Int
<1>1. CASE IsBooked(j, i)
  <2>1. j.pc # "idle"
    BY <1>1 DEF IsBooked
  <2> QED BY <2>1, LegIsBookable DEF Booked
<1>2. CASE ~IsBooked(j, i)
  BY <1>2 DEF Booked
<1> QED BY <1>1, <1>2

(* The legs of all workers are finitely many (execSem, engine.go:70).     *)
LEMMA LegsFinite == IsFiniteSet(Workers \X (1..3))
<1>1. IsFiniteSet(1..3)
  <2>1. 1 \in Int /\ 3 \in Int
    OBVIOUS
  <2> QED BY <2>1, FS_Interval
<1>2. IsFiniteSet(Workers)
  BY ExecAssumption
<1> QED BY <1>1, <1>2, FS_Product

(* What the legs are booked with.                                          *)
LEMMA BookedType ==
  ASSUME TriInv, NEW a PROVE BookedOf(a) \in [Workers \X (1..3) -> Int]
<1>1. ASSUME NEW w \in Workers, NEW i \in 1..3 PROVE Booked(job[w], i, a) \in Int
  <2>1. Good(job[w], net[w])
    BY DEF TriInv
  <2> QED BY <2>1, BookedInt
<1> QED BY <1>1 DEF BookedOf

(* A step of a worker with nothing booked before and after it.             *)
LEMMA BookedSame ==
  ASSUME TriInv, NEW w \in Workers, NEW k, job' = [job EXCEPT ![w] = k], Unbooked(job[w]), Unbooked(k),
         NEW a
  PROVE  BookedOf(a)' = BookedOf(a)
<1>1. \A v \in Workers, i \in 1..3 : Booked(job'[v], i, a) = Booked(job[v], i, a)
  <2> TAKE v \in Workers, i \in 1..3
  <2>1. CASE v = w
    BY <2>1 DEF TriInv, Booked, Unbooked
  <2>2. CASE v # w
    BY <2>2 DEF TriInv
  <2> QED BY <2>1, <2>2
<1> QED BY <1>1 DEF BookedOf

(* Booking a leg adds it to the position of its asset and to what is       *)
(* booked on it (live.go:436-475, risk.go:139-165).                        *)
LEMMA BookLegKeepsBooks ==
  ASSUME TriInv, TypeOK, BooksInv, NEW w \in Workers, BookLeg(w) PROVE BooksInv'
<1> DEFINE j == job[w]
           l == j.leg
           signed == Side(j, l) * Filled(j, l)
           value == Side(j, l) * LegUSD(Legs(j)[l].sym, Filled(j, l))
           asset == BaseOf(Legs(j)[l].sym)
<1>1. PICK k, n : Moves(w, k, n) /\ Books(j, k)
  BY BookLegMoves
<1>2. /\ positions' = [positions EXCEPT ![<<asset, "bybit">>] =
                         [qty |-> @.qty + signed, value |-> @.value + value]]
      /\ UNCHANGED rounds /\ job' = [job EXCEPT ![w] = k] /\ l \in 1..3
  BY <1>1 DEF BookLeg, UpdatePosition, Side, Moves, Books
<1>3. signed \in Int /\ asset \in Assets /\ "bybit" \in Exchanges
  BY <1>1, <1>2, ExecAssumption, LegIsBookable DEF TriInv, Books
<1>4. TriInv'
  BY <1>1, OneExecution
<1>5. Legs(k) = Legs(j) /\ \A i : Side(k, i) = Side(j, i)
  BY <1>1, SameLegs DEF Books
<1>6. ASSUME NEW a \in Assets, \A v \in Workers : rounds[v] <= 1
      PROVE  positions'[<<a, "bybit">>].qty = SumFunctionOnSet(BookedOf(a)', Workers \X (1..3))
  <2> DEFINE f == BookedOf(a)
             g == BookedOf(a)'
             x == <<w, l>>
             added == IF a = asset THEN signed ELSE 0
  <2>2. g = [wk \in Workers \X (1..3) |-> Booked(job'[wk[1]], wk[2], a)]
    BY DEF BookedOf
  <2>1. f \in [Workers \X (1..3) -> Int] /\ g \in [Workers \X (1..3) -> Int] /\ IsFiniteSet(Workers \X (1..3))
    <3>1. ASSUME NEW v \in Workers, NEW i \in 1..3 PROVE Booked(job'[v], i, a) \in Int
      <4>1. Good(job'[v], net'[v])
        BY <1>4 DEF TriInv
      <4> QED BY <4>1, BookedInt
    <3>2. g \in [Workers \X (1..3) -> Int]
      BY <2>2, <3>1
    <3> QED BY <3>2, BookedType, LegsFinite
  <2>3. f[x] = 0 /\ g[x] = added /\ x \in Workers \X (1..3)
    <3>1. f[x] = Booked(j, l, a) /\ g[x] = Booked(k, l, a)
      BY <1>2, <2>2 DEF BookedOf, TriInv
    <3> QED BY <1>1, <1>2, <1>5, <3>1 DEF Books, Booked
  <2>4. \A y \in (Workers \X (1..3)) \ {x} : g[y] = f[y]
    <3>1. ASSUME NEW v \in Workers, NEW i \in 1..3, v # w \/ i # l
          PROVE  Booked(job'[v], i, a) = Booked(job[v], i, a)
      <4>1. CASE v # w
        BY <1>2, <4>1 DEF TriInv
      <4>2. CASE v = w
        <5>1. i # l /\ job'[v] = k
          BY <1>2, <3>1, <4>2 DEF TriInv
        <5> QED BY <1>1, <1>5, <4>2, <5>1 DEF Books, Booked
      <4> QED BY <4>1, <4>2
    <3> QED BY <2>2, <3>1 DEF BookedOf
  <2> HIDE DEF f, g, x, added
  <2>5. SumFunctionOnSet(g, Workers \X (1..3)) = SumFunctionOnSet(f, Workers \X (1..3)) - f[x] + g[x]
    BY <2>1, <2>3, <2>4, SumChange
  <2>6. SumFunctionOnSet(f, Workers \X (1..3)) \in Int
    BY <2>1, SumRec
  <2>7. added \in Int
    BY <1>3 DEF added
  <2>8. SumFunctionOnSet(g, Workers \X (1..3)) = SumFunctionOnSet(f, Workers \X (1..3)) + added
    BY <2>3, <2>5, <2>6, <2>7
  <2>9. positions[<<a, "bybit">>].qty = SumFunctionOnSet(f, Workers \X (1..3))
    BY <1>6 DEF BooksInv, f
  <2>10. positions'[<<a, "bybit">>].qty = positions[<<a, "bybit">>].qty + added
    <3>1. positions \in [Assets \X Exchanges -> [qty : Int, value : Int]]
      BY DEF TypeOK
    <3> HIDE DEF asset, signed, value
    <3>2. CASE a = asset
      BY <1>2, <1>3, <3>1, <3>2 DEF added
    <3>3. CASE a # asset
      BY <1>2, <1>3, <3>1, <3>3 DEF added
    <3> QED BY <3>2, <3>3
  <2> QED BY <2>8, <2>9, <2>10 DEF g
<1> QED BY <1>2, <1>6 DEF BooksInv

LEMMA BooksNext == TriInv /\ StopInv /\ BooksInv /\ [ExecNext]_allVars => BooksInv'
<1> SUFFICES ASSUME TriInv, StopInv, BooksInv, [ExecNext]_allVars PROVE BooksInv'
  OBVIOUS
<1>1. ASSUME NEW w \in Workers, ExecStep(w) PROVE BooksInv'
  <2>1. CASE BookLeg(w)
    BY <2>1, BookLegKeepsBooks DEF StopInv
  <2>2. CASE Begin(w)
    <3> SUFFICES ASSUME \A v \in Workers : rounds'[v] <= 1, NEW a \in Assets
                 PROVE  positions'[<<a, "bybit">>].qty = SumFunctionOnSet(BookedOf(a)', Workers \X (1..3))
      BY DEF BooksInv
    <3>1. /\ rounds' = [rounds EXCEPT ![w] = @ + 1] /\ (rounds[w] = 0 => Unbooked(job[w]))
          /\ rounds \in [Workers -> 0..Rounds]
      BY <2>2, BeginMoves DEF TriInv
    <3>2. PICK k : job' = [job EXCEPT ![w] = k] /\ Unbooked(k)
      BY <2>2, BeginMoves
    <3>3. rounds[w] = 0 /\ \A v \in Workers : rounds[v] <= 1
      BY <3>1, ExecAssumption
    <3>4. BookedOf(a)' = BookedOf(a)
      BY <3>1, <3>2, <3>3, BookedSame
    <3>5. UNCHANGED positions
      BY <2>2 DEF Begin, vars, riskVars
    <3> QED BY <3>3, <3>4, <3>5 DEF BooksInv
  <2>3. ASSUME NEW k, NEW n, Moves(w, k, n), UNCHANGED positions, Unbooked(job[w]), Unbooked(k)
        PROVE  BooksInv'
    <3>1. \A a \in Assets : BookedOf(a)' = BookedOf(a)
      BY <2>3, BookedSame DEF Moves
    <3> QED BY <2>3, <3>1 DEF BooksInv, Moves
  <2> QED BY <1>1, <2>1, <2>2, <2>3, StepMoves DEF Quiet, Approving
<1>2. CASE UNCHANGED allVars
  BY <1>2 DEF allVars, execVars, vars, riskVars, BooksInv, BookedOf
<1> QED BY <1>1, <1>2 DEF ExecNext, Rest

LEMMA BooksInit == ExecInit => BooksInv
<1> SUFFICES ASSUME ExecInit, NEW a \in Assets
             PROVE  positions[<<a, "bybit">>].qty = SumFunctionOnSet(BookedOf(a), Workers \X (1..3))
  BY DEF BooksInv
<1> DEFINE S == Workers \X (1..3)
           z == [x \in S |-> 0]
<1>1. TriInv
  BY TriInvInit
<1>2. BookedOf(a) \in [S -> Int] /\ IsFiniteSet(S)
  BY <1>1, BookedType, LegsFinite
<1>3. \A w \in Workers, i \in 1..3 : Booked(job[w], i, a) = 0
  BY DEF ExecInit, Booked, IsBooked, Job
<1>4. \A x \in S : BookedOf(a)[x] = 0
  BY <1>3 DEF BookedOf
<1> HIDE DEF S
<1>5. SumFunctionOnSet(BookedOf(a), S) = 0
  <2>1. \A x \in S : BookedOf(a)[x] <= 0 /\ BookedOf(a)[x] \in Nat
    BY <1>4
  <2>2. BookedOf(a) \in [S -> Nat]
    BY <1>2, <2>1
  <2>3. SumFunctionOnSet(BookedOf(a), S) \in Nat
    BY <1>2, <2>2, SumNat
  <2>4. SumFunctionOnSet(BookedOf(a), S) <= 0 * Cardinality(S)
    BY <1>2, <2>1, SumAtMost
  <2>5. 0 * Cardinality(S) = 0
    BY <1>2, FS_CardinalityType
  <2> QED BY <2>3, <2>4, <2>5
<1>6. positions[<<a, "bybit">>].qty = 0
  <2>1. "bybit" \in Exchanges
    BY ExecAssumption
  <2> QED BY <2>1 DEF ExecInit, Init, NoPosition
<1> QED BY <1>5, <1>6 DEF S

(* Whatever the exchange fills in part, refuses or loses, whatever the     *)
(* engine reduces and however the workers interleave: when nothing runs,   *)
(* the engine's quantities are those that the successful executions        *)
(* bought and sold (live.go:257-282, 307-312, 379-383, 436-475).           *)
THEOREM BooksMatchFillsHolds == ExecSpec => []BooksMatchFills
<1>1. TriInv /\ BooksInv => BooksMatchFills
  <2> SUFFICES ASSUME TriInv, BooksInv, NEW a \in Assets,
                      \A w \in Workers : Ended(w) /\ rounds[w] <= 1 /\ (Succeeded(w) => job[w].sure)
               PROVE  positions[<<a, "bybit">>].qty =
                        SumFunction([wk \in Workers \X (1..3) |->
                          IF Succeeded(wk[1]) /\ BaseOf(Legs(job[wk[1]])[wk[2]].sym) = a
                          THEN net[wk[1]][wk[2]] ELSE 0])
    BY DEF BooksMatchFills
  <2> DEFINE F == [wk \in Workers \X (1..3) |->
                    IF Succeeded(wk[1]) /\ BaseOf(Legs(job[wk[1]])[wk[2]].sym) = a
                    THEN net[wk[1]][wk[2]] ELSE 0]
  <2>1. ASSUME NEW w \in Workers, NEW i \in 1..3
        PROVE  Booked(job[w], i, a) =
                 IF Succeeded(w) /\ BaseOf(Legs(job[w])[i].sym) = a THEN net[w][i] ELSE 0
    <3>1. IsBooked(job[w], i) <=> Succeeded(w)
      BY DEF IsBooked, Succeeded, Ended, At
    <3>2. Succeeded(w) => net[w][i] = Side(job[w], i) * Filled(job[w], i)
      BY DEF TriInv, Good, Account, Succeeded, At
    <3> QED BY <3>1, <3>2 DEF Booked
  <2>2. F = BookedOf(a)
    BY <2>1 DEF BookedOf
  <2>3. SumFunction(F) = SumFunctionOnSet(BookedOf(a), Workers \X (1..3))
    <3>1. DOMAIN F = Workers \X (1..3)
      OBVIOUS
    <3> HIDE DEF F
    <3> QED BY <2>2, <3>1 DEF SumFunction
  <2> QED BY <2>3 DEF BooksInv
<1> QED BY <1>1, BooksInit, BooksNext, TriInvHolds, PTL DEF ExecSpec

-----------------------------------------------------------------------------
(* How far the limit per asset can be passed.                              *)

(* What one leg comes to at most, and all that the workers can have        *)
(* pending on the asset of b.                                              *)
Cost(b) == LegUSD(b.pair, b.qty)
Room(b) == (b.legs * Cost(b)) * Cardinality(Workers)

LegOn(j, i, b) ==
  IF i \in PendingLegs(j) /\ BaseOf(Legs(j)[i].sym) = b.asset THEN Cost(b) ELSE 0
PendingOn(j, b) == LegOn(j, 1, b) + LegOn(j, 2, b) + LegOn(j, 3, b)
PendingOf(b) == [w \in Workers |-> PendingOn(job[w], b)]

WithinInv == \A b \in Dearest : \A w \in Workers : Within(job[w], b.qty)

(* What is booked on an asset and what is approved and still to be booked. *)
Overshoot(b) ==
  Abs(positions[<<b.asset, "bybit">>].value) + SumFunctionOnSet(PendingOf(b), Workers)
    <= MaxInventoryUSD + Room(b)
OvershootInv == \A b \in Dearest : Overshoot(b)

(* The dearest leg of an asset bounds each of its legs (live.go:436-475).  *)
LEMMA DearestBounds ==
  ASSUME NEW b \in Dearest
  PROVE  /\ b.asset \in Assets /\ b.qty \in Nat /\ b.legs \in 1..3 /\ Cost(b) \in Nat
         /\ \A q \in Sizes : q <= b.qty
         /\ \A sym \in Pairs : BaseOf(sym) = b.asset =>
              extractAsset(sym) = b.asset
              /\ \A q \in Nat : q <= b.qty => LegUSD(sym, q) \in Nat /\ LegUSD(sym, q) <= Cost(b)
         /\ \A tri \in Triangles : LegsOn(tri, b.asset) <= b.legs
<1>1. /\ b \in [asset : Assets, pair : Pairs, qty : Sizes, legs : 1..3]
      /\ \A q \in Sizes : q <= b.qty
      /\ \A sym \in Pairs : BaseOf(sym) = b.asset =>
           extractAsset(sym) = b.asset /\ LegUSD(sym, b.qty) <= LegUSD(b.pair, b.qty)
      /\ \A tri \in Triangles : LegsOn(tri, b.asset) <= b.legs
  BY DEF Dearest
<1>2. b.asset \in Assets /\ b.pair \in Pairs /\ b.qty \in Nat /\ b.legs \in 1..3
  BY <1>1, ExecAssumption
<1>3. Cost(b) \in Nat
  BY <1>2, LegUSDGrows DEF Cost
<1>4. ASSUME NEW sym \in Pairs, BaseOf(sym) = b.asset, NEW q \in Nat, q <= b.qty
      PROVE  LegUSD(sym, q) \in Nat /\ LegUSD(sym, q) <= Cost(b)
  <2>1. LegUSD(sym, q) \in Nat /\ LegUSD(sym, b.qty) \in Nat /\ LegUSD(sym, q) <= LegUSD(sym, b.qty)
    BY <1>2, <1>4, LegUSDGrows
  <2>2. LegUSD(sym, b.qty) <= Cost(b)
    BY <1>1, <1>4 DEF Cost
  <2> QED BY <1>3, <2>1, <2>2
<1> QED BY <1>1, <1>2, <1>3, <1>4

(* What all the workers can have pending is a natural number.              *)
LEMMA RoomNat ==
  ASSUME NEW b \in Dearest
  PROVE  /\ b.legs * Cost(b) \in Nat /\ Room(b) \in Nat /\ Cardinality(Workers) \in Nat
         /\ Room(b) = (b.legs * Cardinality(Workers)) * Cost(b)
<1> DEFINE x == b.legs
           y == Cost(b)
           z == Cardinality(Workers)
<1>1. x \in Nat /\ y \in Nat /\ z \in Nat
  BY DearestBounds, ExecAssumption, FS_CardinalityType
<1> HIDE DEF x, y, z
<1>2. x * y \in Nat /\ x * z \in Nat
  BY <1>1
<1>3. (x * y) * z \in Nat /\ (x * y) * z = (x * z) * y
  BY <1>1, <1>2
<1> QED BY <1>1, <1>2, <1>3 DEF Room, x, y, z

(* The assets are finitely many, as the pairs are (risk.go:206-224).       *)
LEMMA AssetsFinite == IsFiniteSet(Assets \X Exchanges)
<1> DEFINE f == [s \in Pairs |-> BaseOf(s)]
<1>1. f \in Surjection(Pairs, Assets)
  BY DEF Surjection, Assets
<1>2. IsFiniteSet(Assets)
  BY <1>1, InputAssumption, FS_Surjection
<1> QED BY <1>2, InputAssumption, FS_Product

(* An execution has no more pending on an asset than its triangle has legs *)
(* on it (live.go:155-176).                                                *)
LEMMA PendingOnRange ==
  ASSUME NEW b \in Dearest, NEW j, NEW n, Good(j, n)
  PROVE  /\ PendingOn(j, b) \in Nat /\ PendingOn(j, b) <= b.legs * Cost(b)
         /\ \A i \in 1..3 : LegOn(j, i, b) \in {0, Cost(b)}
<1> DEFINE m == Cost(b)
           on(sym) == IF BaseOf(sym) = b.asset THEN 1 ELSE 0
<1>1. m \in Nat /\ b.legs \in 1..3
  BY DearestBounds
<1>2. \A i \in 1..3 : LegOn(j, i, b) \in {0, m}
  BY DEF LegOn
<1>3. LegOn(j, 1, b) \in {0, m} /\ LegOn(j, 2, b) \in {0, m} /\ LegOn(j, 3, b) \in {0, m}
  BY <1>2
<1>4. b.legs * m \in Nat
  BY RoomNat
<1>5. PendingOn(j, b) <= b.legs * m
  <2>1. CASE j.pc = "idle"
    <3>1. LegOn(j, 1, b) = 0 /\ LegOn(j, 2, b) = 0 /\ LegOn(j, 3, b) = 0
      BY <2>1 DEF LegOn, PendingLegs
    <3> QED BY <1>4, <3>1 DEF PendingOn
  <2>2. CASE j.pc # "idle"
    <3>1. j.tri \in Triangles /\ j.dir \in {"F", "R"}
      BY <2>2 DEF Good, Account, Jobs
    <3>2. on(j.tri.AB) + on(j.tri.BC) + on(j.tri.CA) <= b.legs
      BY <3>1, DearestBounds DEF LegsOn
    <3>3. \A i \in 1..3 : LegOn(j, i, b) <= on(Legs(j)[i].sym) * m
      <4>1. ASSUME NEW i \in 1..3 PROVE LegOn(j, i, b) <= on(Legs(j)[i].sym) * m
        <5>1. CASE BaseOf(Legs(j)[i].sym) = b.asset
          BY <1>1, <1>2, <5>1
        <5>2. CASE BaseOf(Legs(j)[i].sym) # b.asset
          BY <1>1, <5>2 DEF LegOn
        <5> QED BY <5>1, <5>2
      <4> QED BY <4>1
    <3> DEFINE x == on(j.tri.AB)
               y == on(j.tri.BC)
               z == on(j.tri.CA)
    <3>4. x \in {0, 1} /\ y \in {0, 1} /\ z \in {0, 1}
      OBVIOUS
    <3>5. /\ LegOn(j, 2, b) <= y * m
          /\ \/ LegOn(j, 1, b) <= x * m /\ LegOn(j, 3, b) <= z * m
             \/ LegOn(j, 1, b) <= z * m /\ LegOn(j, 3, b) <= x * m
      <4>1. CASE j.dir = "F"
        <5>1. Legs(j)[1].sym = j.tri.AB /\ Legs(j)[2].sym = j.tri.BC /\ Legs(j)[3].sym = j.tri.CA
          BY <4>1 DEF Legs
        <5> HIDE DEF on, m
        <5> QED BY <3>3, <5>1
      <4>2. CASE j.dir = "R"
        <5>1. Legs(j)[1].sym = j.tri.CA /\ Legs(j)[2].sym = j.tri.BC /\ Legs(j)[3].sym = j.tri.AB
          BY <4>2 DEF Legs
        <5> HIDE DEF on, m
        <5> QED BY <3>3, <5>1
      <4> QED BY <3>1, <4>1, <4>2
    <3> HIDE DEF on, m, x, y, z
    <3>6. PendingOn(j, b) <= (x + y + z) * m
      <4>1. (x + y + z) * m = x * m + y * m + z * m
        BY <1>1, <3>4
      <4>2. x * m \in Nat /\ y * m \in Nat /\ z * m \in Nat
        BY <1>1, <3>4
      <4> QED BY <1>1, <1>3, <3>5, <4>1, <4>2 DEF PendingOn
    <3>7. (x + y + z) * m <= b.legs * m
      <4>1. x + y + z \in Nat /\ x + y + z <= b.legs
        BY <3>2, <3>4 DEF x, y, z
      <4> QED BY <1>1, <4>1
    <3>8. PendingOn(j, b) \in Nat /\ (x + y + z) * m \in Nat
      BY <1>1, <1>3, <3>4 DEF PendingOn
    <3> QED BY <1>4, <3>6, <3>7, <3>8
  <2> QED BY <2>1, <2>2
<1>6. PendingOn(j, b) \in Nat
  BY <1>1, <1>3 DEF PendingOn
<1> QED BY <1>2, <1>5, <1>6

(* A step that approves nothing on the asset adds nothing that is pending. *)
LEMMA FewerPending ==
  ASSUME NEW b \in Dearest, NEW j, NEW n, Good(j, n), NEW k, NEW o, Good(k, o),
         \A i \in 1..3 : LegOn(j, i, b) = 0 => LegOn(k, i, b) = 0
  PROVE  PendingOn(k, b) <= PendingOn(j, b)
<1>1. /\ LegOn(j, 1, b) \in {0, Cost(b)} /\ LegOn(j, 2, b) \in {0, Cost(b)} /\ LegOn(j, 3, b) \in {0, Cost(b)}
      /\ LegOn(k, 1, b) \in {0, Cost(b)} /\ LegOn(k, 2, b) \in {0, Cost(b)} /\ LegOn(k, 3, b) \in {0, Cost(b)}
  BY PendingOnRange
<1>2. /\ LegOn(j, 1, b) = 0 => LegOn(k, 1, b) = 0
      /\ LegOn(j, 2, b) = 0 => LegOn(k, 2, b) = 0
      /\ LegOn(j, 3, b) = 0 => LegOn(k, 3, b) = 0
  OBVIOUS
<1>3. Cost(b) \in Nat
  BY DearestBounds
<1> QED BY <1>1, <1>2, <1>3 DEF PendingOn

LEMMA QuietOn ==
  ASSUME NEW b \in Dearest, NEW j, NEW n, Good(j, n), NEW k, NEW o, Good(k, o), Quiet(j, k)
  PROVE  PendingOn(k, b) <= PendingOn(j, b)
<1>1. CASE PendingLegs(k) = {}
  <2>1. \A i \in 1..3 : LegOn(k, i, b) = 0
    BY <1>1 DEF LegOn
  <2> QED BY <2>1, FewerPending
<1>2. CASE k.tri = j.tri /\ k.dir = j.dir /\ PendingLegs(k) \subseteq PendingLegs(j)
  <2>1. Legs(k) = Legs(j)
    BY <1>2, SameLegs
  <2>2. \A i \in 1..3 : LegOn(j, i, b) = 0 => LegOn(k, i, b) = 0
    BY <1>2, <2>1 DEF LegOn
  <2> QED BY <2>2, FewerPending
<1> QED BY <1>1, <1>2 DEF Quiet

(* The approval of a leg of another asset is none of this one.             *)
LEMMA ApprovingOther ==
  ASSUME NEW b \in Dearest, NEW j, NEW n, Good(j, n), NEW k, NEW o, Good(k, o), NEW i \in 1..3,
         Approving(j, k, i), BaseOf(Legs(j)[i].sym) # b.asset
  PROVE  PendingOn(k, b) <= PendingOn(j, b)
<1>1. Legs(k) = Legs(j) /\ PendingLegs(k) \subseteq PendingLegs(j) \cup {i}
  BY SameLegs DEF Approving
<1>2. \A l \in 1..3 : LegOn(j, l, b) = 0 => LegOn(k, l, b) = 0
  BY <1>1 DEF LegOn
<1> QED BY <1>2, FewerPending

(* A leg that is booked is pending no longer (live.go:436-475).            *)
LEMMA BookedOn ==
  ASSUME NEW b \in Dearest, NEW j, NEW n, Good(j, n), NEW k, NEW o, Good(k, o), Books(j, k)
  PROVE  PendingOn(k, b) = PendingOn(j, b)
                             - (IF BaseOf(Legs(j)[j.leg].sym) = b.asset THEN Cost(b) ELSE 0)
<1>1. /\ LegOn(j, 1, b) \in {0, Cost(b)} /\ LegOn(j, 2, b) \in {0, Cost(b)} /\ LegOn(j, 3, b) \in {0, Cost(b)}
      /\ LegOn(k, 1, b) \in {0, Cost(b)} /\ LegOn(k, 2, b) \in {0, Cost(b)} /\ LegOn(k, 3, b) \in {0, Cost(b)}
      /\ Cost(b) \in Nat
  BY PendingOnRange, DearestBounds
<1>2. Legs(k) = Legs(j)
  BY SameLegs DEF Books
<1>3. j.leg \in 1..3 /\ \A l \in (1..3) \ {j.leg} : LegOn(k, l, b) = LegOn(j, l, b)
  BY <1>2 DEF Books, LegOn
<1> DEFINE d == IF BaseOf(Legs(j)[j.leg].sym) = b.asset THEN Cost(b) ELSE 0
<1>4. LegOn(j, j.leg, b) = d /\ LegOn(k, j.leg, b) = 0
  BY <1>2 DEF Books, LegOn
<1> HIDE DEF d
<1> QED BY <1>1, <1>3, <1>4 DEF PendingOn, d

(* What Allow approves finds the position of its asset within the limit    *)
(* (risk.go:98-124, 206-213).                                              *)
LEMMA ApprovedWithin ==
  ASSUME TypeOK, MaxInventoryUSD > 0, NEW req, req.symbol \in Pairs, req.value \in Nat,
         extractAsset(req.symbol) = BaseOf(req.symbol), Allow(req), reply'.ok
  PROVE  Abs(positions[<<BaseOf(req.symbol), "bybit">>].value) <= MaxInventoryUSD
<1> DEFINE a == BaseOf(req.symbol)
           h == [k \in Assets \X Exchanges |-> IF k[1] = a THEN Abs(positions[k].value) ELSE 0]
           x == <<a, "bybit">>
           v == AdjValue(req)
<1>1. ~OverInventory(req) /\ v \in Nat
  <2>1. ~Refused(req)
    BY DEF Allow
  <2>2. v \in Nat
    BY AdjValueNat
  <2> QED BY <2>1, <2>2 DEF Refused, OverLimits
<1>2. x \in Assets \X Exchanges
  BY ExecAssumption DEF Assets
<1>3. h \in [Assets \X Exchanges -> Nat]
  BY DEF TypeOK, Abs
<1>4. getAssetExposureUSD(extractAsset(req.symbol)) = SumFunctionOnSet(h, Assets \X Exchanges)
  BY DEF getAssetExposureUSD, SumFunction
<1>5. h[x] = Abs(positions[x].value)
  BY <1>2
<1> HIDE DEF h, x, v
<1>6. SumFunctionOnSet(h, Assets \X Exchanges) \in Nat /\ h[x] <= SumFunctionOnSet(h, Assets \X Exchanges)
  BY <1>2, <1>3, AssetsFinite, SumNat
<1>7. ~(SumFunctionOnSet(h, Assets \X Exchanges) + v > MaxInventoryUSD)
  BY <1>1, <1>4 DEF OverInventory, v
<1>8. h[x] \in Nat
  BY <1>2, <1>3
<1>9. h[x] <= MaxInventoryUSD
  BY <1>1, <1>6, <1>7, <1>8, LimitsAssumption
<1> QED BY <1>5, <1>9 DEF x

(* No step takes a quantity above the largest size.                        *)
LEMMA WithinNext ==
  ASSUME TriInv, WithinInv, NEW w \in Workers, ExecStep(w) PROVE WithinInv'
<1>1. ASSUME NEW b \in Dearest, NEW v \in Workers PROVE Within(job'[v], b.qty)
  <2>1. b.qty \in Nat /\ \A q \in Sizes : q <= b.qty
    BY DearestBounds
  <2>2. PICK k : job' = [job EXCEPT ![w] = k] /\ Within(k, b.qty)
    <3>1. Within(job[w], b.qty)
      BY DEF WithinInv
    <3> QED BY <2>1, <3>1, StepMoves, BeginMoves, BookLegMoves DEF Moves
  <2>3. CASE v = w
    BY <2>2, <2>3 DEF TriInv
  <2>4. CASE v # w
    BY <2>2, <2>4 DEF TriInv, WithinInv
  <2> QED BY <2>3, <2>4
<1> QED BY <1>1 DEF WithinInv

(* What is pending altogether is bounded, and follows the worker that      *)
(* moves.                                                                  *)
LEMMA PendingSum ==
  ASSUME TriInv, NEW b \in Dearest
  PROVE  /\ PendingOf(b) \in [Workers -> Nat] /\ IsFiniteSet(Workers)
         /\ SumFunctionOnSet(PendingOf(b), Workers) \in Nat
         /\ SumFunctionOnSet(PendingOf(b), Workers) <= Room(b)
<1> DEFINE f == PendingOf(b)
           m == b.legs * Cost(b)
<1>1. IsFiniteSet(Workers) /\ m \in Nat
  BY ExecAssumption, RoomNat
<1>2. \A v \in Workers : PendingOn(job[v], b) \in Nat /\ PendingOn(job[v], b) <= m
  BY PendingOnRange DEF TriInv
<1>3. f \in [Workers -> Nat] /\ f \in [Workers -> Int] /\ \A v \in Workers : f[v] <= m
  BY <1>2 DEF PendingOf
<1> HIDE DEF f, m
<1>4. SumFunctionOnSet(f, Workers) \in Nat /\ SumFunctionOnSet(f, Workers) <= m * Cardinality(Workers)
  BY <1>1, <1>3, SumNat, SumAtMost
<1> QED BY <1>1, <1>3, <1>4 DEF f, m, Room

LEMMA PendingMoves ==
  ASSUME TriInv, TriInv', NEW w \in Workers, NEW k, job' = [job EXCEPT ![w] = k], NEW b \in Dearest
  PROVE  /\ PendingOn(job[w], b) \in Nat /\ PendingOn(k, b) \in Nat
         /\ SumFunctionOnSet(PendingOf(b), Workers) \in Nat
         /\ SumFunctionOnSet(PendingOf(b)', Workers) =
              SumFunctionOnSet(PendingOf(b), Workers) - PendingOn(job[w], b) + PendingOn(k, b)
         /\ SumFunctionOnSet(PendingOf(b)', Workers) <= Room(b)
<1> DEFINE f == PendingOf(b)
           g == PendingOf(b)'
<1>1. /\ f \in [Workers -> Nat] /\ IsFiniteSet(Workers) /\ SumFunctionOnSet(f, Workers) \in Nat
  BY PendingSum
<1>2. \A v \in Workers : /\ Good(job'[v], net'[v])
                         /\ PendingOn(job'[v], b) \in Nat /\ PendingOn(job'[v], b) <= b.legs * Cost(b)
  BY PendingOnRange DEF TriInv
<1>3. g = [v \in Workers |-> PendingOn(job'[v], b)]
  BY DEF PendingOf
<1>4. job'[w] = k /\ \A v \in Workers \ {w} : job'[v] = job[v]
  BY DEF TriInv
<1>5. /\ f \in [Workers -> Int] /\ f[w] = PendingOn(job[w], b) /\ f[w] \in Nat
      /\ g \in [Workers -> Int] /\ g[w] = PendingOn(k, b) /\ g[w] \in Nat
      /\ \A v \in Workers \ {w} : g[v] = f[v]
      /\ \A v \in Workers : g[v] <= b.legs * Cost(b)
  BY <1>1, <1>2, <1>3, <1>4 DEF PendingOf
<1>6. b.legs * Cost(b) \in Nat
  BY RoomNat
<1> DEFINE m == b.legs * Cost(b)
<1> HIDE DEF f, g, m
<1>7. SumFunctionOnSet(g, Workers) = SumFunctionOnSet(f, Workers) - f[w] + g[w]
  BY <1>1, <1>5, SumChange
<1>8. SumFunctionOnSet(g, Workers) <= m * Cardinality(Workers)
  <2>1. m \in Nat /\ \A v \in Workers : g[v] <= m
    BY <1>5, <1>6 DEF m
  <2> QED BY <1>1, <1>5, <2>1, SumAtMost
<1> QED BY <1>1, <1>5, <1>7, <1>8 DEF f, g, m, Room

LEMMA BookingArithmetic ==
  ASSUME NEW p \in Int, NEW s \in {1, -1}, NEW q \in Nat
  PROVE  Abs(p + s * q) \in Nat /\ Abs(p) \in Nat /\ Abs(p + s * q) <= Abs(p) + q
<1>1. CASE s = 1
  BY <1>1 DEF Abs
<1>2. CASE s = -1
  <2>1. s * q = -q
    BY <1>2
  <2> QED BY <2>1 DEF Abs
<1> QED BY <1>1, <1>2

(* The position of an asset is a number.                                   *)
LEMMA PositionInt ==
  ASSUME TypeOK, NEW b \in Dearest
  PROVE  /\ positions[<<b.asset, "bybit">>].value \in Int
         /\ Abs(positions[<<b.asset, "bybit">>].value) \in Nat
<1>1. b.asset \in Assets /\ "bybit" \in Exchanges
  BY DearestBounds, ExecAssumption
<1>2. positions[<<b.asset, "bybit">>].value \in Int
  BY <1>1 DEF TypeOK
<1> QED BY <1>2 DEF Abs

(* A step that leaves the positions alone (live.go:221-435).  One that     *)
(* approves a leg on the asset has found its position within the limit, so *)
(* what is pending afterwards, however much it is, is all that is above.   *)
LEMMA ApprovalKeepsOvershoot ==
  ASSUME TypeOK, MaxInventoryUSD > 0, TriInv, OvershootInv, TriInv', UNCHANGED positions,
         NEW w \in Workers, NEW k, NEW n, Moves(w, k, n),
         Quiet(job[w], k) \/ \E i \in 1..3 : Approving(job[w], k, i)
  PROVE  OvershootInv'
<1> DEFINE j == job[w]
<1>1. job' = [job EXCEPT ![w] = k] /\ Good(j, net[w]) /\ Good(k, n) /\ j.pc # "idle"
  BY DEF Moves, TriInv
<1>2. ASSUME NEW b \in Dearest PROVE Overshoot(b)'
  <2> DEFINE p == Abs(positions[<<b.asset, "bybit">>].value)
             s == SumFunctionOnSet(PendingOf(b), Workers)
             t == SumFunctionOnSet(PendingOf(b)', Workers)
             before == PendingOn(j, b)
             after == PendingOn(k, b)
             room == Room(b)
  <2>1. /\ before \in Nat /\ after \in Nat /\ s \in Nat /\ t = s - before + after /\ t <= room
    BY <1>1, PendingMoves
  <2>2. p \in Nat /\ p + s <= MaxInventoryUSD + room
    BY PositionInt DEF OvershootInv, Overshoot
  <2>3. room \in Nat /\ MaxInventoryUSD \in Nat
    BY RoomNat, LimitsAssumption
  <2>4. p + t <= MaxInventoryUSD + room => Overshoot(b)'
    BY DEF Overshoot, Room
  <2>5. CASE after <= before
    <3> HIDE DEF p, s, t, before, after, room
    <3>1. p + t <= MaxInventoryUSD + room
      BY <2>1, <2>2, <2>3, <2>5
    <3> QED BY <2>4, <3>1
  <2>6. ASSUME NEW i \in 1..3, Approving(j, k, i), BaseOf(Legs(j)[i].sym) = b.asset
        PROVE  Overshoot(b)'
    <3>1. PICK v \in Nat : Allow(Request(j, i, v))
      BY <2>6 DEF Approving
    <3>2. j \in Jobs /\ j.tri \in Triangles
      BY <1>1 DEF Good, Account
    <3>3. /\ Request(j, i, v).symbol = Legs(j)[i].sym /\ Legs(j)[i].sym \in Pairs
          /\ Request(j, i, v).value \in Nat
      BY <3>2, RequestNat
    <3>4. extractAsset(Legs(j)[i].sym) = b.asset
      BY <2>6, <3>3, DearestBounds
    <3>5. reply'.ok
      BY <2>6 DEF Approving
    <3>6. p <= MaxInventoryUSD
      BY <2>6, <3>1, <3>3, <3>4, <3>5, ApprovedWithin
    <3> HIDE DEF p, s, t, before, after, room
    <3>7. p + t <= MaxInventoryUSD + room
      BY <2>1, <2>2, <2>3, <3>6
    <3> QED BY <2>4, <3>7
  <2>7. CASE Quiet(j, k)
    BY <1>1, <2>5, <2>7, QuietOn
  <2>8. ASSUME NEW i \in 1..3, Approving(j, k, i), BaseOf(Legs(j)[i].sym) # b.asset
        PROVE  Overshoot(b)'
    BY <1>1, <2>5, <2>8, ApprovingOther
  <2> QED BY <2>6, <2>7, <2>8
<1> QED BY <1>2 DEF OvershootInv

(* A leg that is booked moves from what is pending to the position.        *)
LEMMA BookLegKeepsOvershoot ==
  ASSUME TypeOK, TriInv, WithinInv, OvershootInv, TriInv', NEW w \in Workers, BookLeg(w)
  PROVE  OvershootInv'
<1> DEFINE j == job[w]
           l == j.leg
           sym == Legs(j)[l].sym
           q == LegUSD(sym, Filled(j, l))
           asset == BaseOf(sym)
<1>1. PICK k, n : Moves(w, k, n) /\ Books(j, k)
  BY BookLegMoves
<1>2. positions' = [positions EXCEPT ![<<asset, "bybit">>] =
                      [qty |-> @.qty + Side(j, l) * Filled(j, l), value |-> @.value + Side(j, l) * q]]
  BY DEF BookLeg, UpdatePosition, Side
<1>3. job' = [job EXCEPT ![w] = k] /\ Good(j, net[w]) /\ Good(k, n)
  BY <1>1 DEF Moves, TriInv
<1>4. /\ l \in 1..3 /\ Filled(j, l) \in Nat /\ Side(j, l) \in {1, -1} /\ sym \in Pairs
      /\ asset \in Assets /\ "bybit" \in Exchanges
  BY <1>1, <1>3, ExecAssumption, LegIsBookable DEF Books
<1>5. q \in Nat
  BY <1>4, LegUSDGrows
<1>6. ASSUME NEW b \in Dearest PROVE Overshoot(b)'
  <2> DEFINE p == positions[<<b.asset, "bybit">>].value
             s == SumFunctionOnSet(PendingOf(b), Workers)
             t == SumFunctionOnSet(PendingOf(b)', Workers)
             before == PendingOn(j, b)
             after == PendingOn(k, b)
             room == Room(b)
             sd == Side(j, l)
             m == Cost(b)
  <2>1. before \in Nat /\ after \in Nat /\ s \in Nat /\ t = s - before + after
    BY <1>3, PendingMoves
  <2>2. after = before - (IF asset = b.asset THEN m ELSE 0)
    BY <1>1, <1>3, BookedOn
  <2>3. p \in Int /\ Abs(p) \in Nat /\ Abs(p) + s <= MaxInventoryUSD + room
    BY PositionInt DEF OvershootInv, Overshoot
  <2>4. room \in Nat /\ MaxInventoryUSD \in Nat /\ m \in Nat
    BY RoomNat, LimitsAssumption, DearestBounds
  <2>5. positions'[<<b.asset, "bybit">>].value = IF b.asset = asset THEN p + sd * q ELSE p
    <3>1. positions \in [Assets \X Exchanges -> [qty : Int, value : Int]] /\ b.asset \in Assets
      BY DearestBounds DEF TypeOK
    <3> HIDE DEF asset, q, l, sym
    <3>2. CASE b.asset = asset
      BY <1>2, <1>4, <3>1, <3>2
    <3>3. CASE b.asset # asset
      BY <1>2, <1>4, <3>1, <3>3
    <3> QED BY <3>2, <3>3
  <2>6. Abs(p + sd * q) \in Nat /\ Abs(p + sd * q) <= Abs(p) + q
    BY <1>4, <1>5, <2>3, BookingArithmetic
  <2>7. asset = b.asset => q <= m
    <3>1. Within(j, b.qty)
      BY DEF WithinInv
    <3>2. Filled(j, l) \in {j.filled1, j.qty2, j.qty3}
      BY <1>4 DEF Filled
    <3>3. Filled(j, l) <= b.qty
      <4>1. j.filled1 \in 0..b.qty /\ j.qty2 \in 0..b.qty /\ j.qty3 \in 0..b.qty
        BY <3>1 DEF Within
      <4> QED BY <3>2, <4>1
    <3> QED BY <1>4, <3>3, DearestBounds
  <2>8. Abs(positions'[<<b.asset, "bybit">>].value) + t <= MaxInventoryUSD + room => Overshoot(b)'
    BY DEF Overshoot, Room
  <2> HIDE DEF p, s, t, before, after, room, sd, q, asset, l, m
  <2>9. CASE b.asset = asset
    <3>1. Abs(p + sd * q) + t <= MaxInventoryUSD + room
      BY <1>5, <2>1, <2>2, <2>3, <2>4, <2>6, <2>7, <2>9
    <3> QED BY <2>5, <2>8, <2>9, <3>1
  <2>10. CASE b.asset # asset
    <3>1. Abs(p) + t <= MaxInventoryUSD + room
      BY <2>1, <2>2, <2>3, <2>4, <2>10
    <3> QED BY <2>5, <2>8, <2>10, <3>1
  <2> QED BY <2>9, <2>10
<1> QED BY <1>6 DEF OvershootInv

(* A new execution has nothing pending (live.go:148-180).                  *)
LEMMA BeginKeepsOvershoot ==
  ASSUME TypeOK, TriInv, OvershootInv, TriInv', NEW w \in Workers, Begin(w) PROVE OvershootInv'
<1>1. UNCHANGED positions
  BY DEF Begin, vars, riskVars
<1>2. PICK k : job' = [job EXCEPT ![w] = k] /\ PendingLegs(k) = {}
  BY BeginMoves
<1>3. ASSUME NEW b \in Dearest PROVE Overshoot(b)'
  <2> DEFINE p == Abs(positions[<<b.asset, "bybit">>].value)
             s == SumFunctionOnSet(PendingOf(b), Workers)
             t == SumFunctionOnSet(PendingOf(b)', Workers)
             before == PendingOn(job[w], b)
             after == PendingOn(k, b)
             room == Room(b)
  <2>1. before \in Nat /\ s \in Nat /\ t = s - before + after
    BY <1>2, PendingMoves
  <2>2. after = 0
    <3>1. LegOn(k, 1, b) = 0 /\ LegOn(k, 2, b) = 0 /\ LegOn(k, 3, b) = 0
      BY <1>2 DEF LegOn
    <3> QED BY <3>1 DEF PendingOn
  <2>3. p \in Nat /\ p + s <= MaxInventoryUSD + room /\ room \in Nat /\ MaxInventoryUSD \in Nat
    BY PositionInt, RoomNat, LimitsAssumption DEF OvershootInv, Overshoot
  <2>4. p + t <= MaxInventoryUSD + room => Overshoot(b)'
    BY <1>1 DEF Overshoot, Room
  <2> HIDE DEF p, s, t, before, after, room
  <2>5. p + t <= MaxInventoryUSD + room
    BY <2>1, <2>2, <2>3
  <2> QED BY <2>4, <2>5
<1> QED BY <1>3 DEF OvershootInv

LEMMA OvershootNext ==
  MaxInventoryUSD > 0 /\ TriInv /\ StopInv /\ WithinInv /\ OvershootInv /\ [ExecNext]_allVars
    => WithinInv' /\ OvershootInv'
<1> SUFFICES ASSUME MaxInventoryUSD > 0, TriInv, StopInv, WithinInv, OvershootInv, [ExecNext]_allVars
             PROVE  WithinInv' /\ OvershootInv'
  OBVIOUS
<1>1. TypeOK /\ TriInv'
  BY TriInvNext DEF StopInv
<1>2. ASSUME NEW w \in Workers, ExecStep(w) PROVE WithinInv' /\ OvershootInv'
  <2>1. WithinInv'
    BY <1>2, WithinNext
  <2>2. CASE Begin(w)
    BY <1>1, <2>1, <2>2, BeginKeepsOvershoot
  <2>3. CASE BookLeg(w)
    BY <1>1, <2>1, <2>3, BookLegKeepsOvershoot
  <2>4. ASSUME NEW k, NEW n, Moves(w, k, n), UNCHANGED positions,
               Quiet(job[w], k) \/ \E i \in 1..3 : Approving(job[w], k, i)
        PROVE  OvershootInv'
    BY <1>1, <2>4, ApprovalKeepsOvershoot
  <2> QED BY <1>2, <2>1, <2>2, <2>3, <2>4, StepMoves
<1>3. CASE UNCHANGED allVars
  BY <1>3 DEF allVars, execVars, vars, riskVars, WithinInv, OvershootInv, Overshoot, Room, PendingOf
<1> QED BY <1>2, <1>3 DEF ExecNext, Rest

LEMMA OvershootInit == ExecInit => WithinInv /\ OvershootInv
<1> SUFFICES ASSUME ExecInit PROVE WithinInv /\ OvershootInv
  OBVIOUS
<1>1. TriInv
  BY TriInvInit
<1>2. ASSUME NEW w \in Workers
      PROVE  /\ job[w].pc = "idle" /\ job[w].qty = 0 /\ job[w].filled1 = 0 /\ job[w].qty2 = 0
             /\ job[w].qty3 = 0 /\ job[w].back = 0
  BY DEF ExecInit, Job
<1>3. WithinInv
  BY <1>2, DearestBounds DEF WithinInv, Within
<1>4. ASSUME NEW b \in Dearest PROVE Overshoot(b)
  <2> DEFINE s == SumFunctionOnSet(PendingOf(b), Workers)
             room == Room(b)
             p == positions[<<b.asset, "bybit">>].value
  <2>1. s \in Nat /\ s <= room /\ room \in Nat /\ MaxInventoryUSD \in Nat
    BY <1>1, PendingSum, RoomNat, LimitsAssumption
  <2>2. p = 0
    BY DearestBounds, ExecAssumption DEF ExecInit, Init, NoPosition
  <2>3. Abs(p) = 0
    BY <2>2 DEF Abs
  <2> HIDE DEF s, room, p
  <2>4. Abs(p) + s <= MaxInventoryUSD + room
    BY <2>1, <2>3
  <2> QED BY <2>4 DEF Overshoot, s, room, p
<1> QED BY <1>3, <1>4 DEF OvershootInv

(* Approvals are not reservations, and the value that is checked is not    *)
(* the one that is booked: a leg quoted in BTC is checked with its number  *)
(* of BTC.  Even so the limit per asset is passed by no more than the legs *)
(* that were approved before the first of them was booked, whatever the    *)
(* prices and whatever fills, is lost or is refused meanwhile              *)
(* (live.go:221-245, 294-303, 357-366 and 436-475 against risk.go:98-124). *)
THEOREM OvershootIsBoundedHolds == ExecSpec => []OvershootIsBounded
<1>1. CASE MaxInventoryUSD > 0
  <2>1. ExecInit => TriInv /\ StopInv /\ WithinInv /\ OvershootInv
    BY TriInvInit, OvershootInit
  <2>2. TriInv /\ StopInv /\ WithinInv /\ OvershootInv /\ [ExecNext]_allVars
          => TriInv' /\ StopInv' /\ WithinInv' /\ OvershootInv'
    BY <1>1, TriInvNext, OvershootNext
  <2>3. TriInv /\ StopInv /\ OvershootInv => OvershootIsBounded
    <3> SUFFICES ASSUME TriInv, StopInv, OvershootInv, NEW o \in Overshoots
                 PROVE  Abs(positions[<<o.asset, "bybit">>].value) <= MaxInventoryUSD + o.usd
      BY DEF OvershootIsBounded
    <3>0. PICK b \in Dearest :
            o = [asset |-> b.asset, usd |-> b.legs * Cardinality(Workers) * LegUSD(b.pair, b.qty)]
      BY DEF Overshoots
    <3> DEFINE p == Abs(positions[<<b.asset, "bybit">>].value)
               s == SumFunctionOnSet(PendingOf(b), Workers)
               room == Room(b)
    <3>1. p \in Nat /\ s \in Nat /\ room \in Nat /\ MaxInventoryUSD \in Nat
      BY PositionInt, PendingSum, RoomNat, LimitsAssumption DEF StopInv
    <3>2. p + s <= MaxInventoryUSD + room
      BY DEF OvershootInv, Overshoot
    <3>3. o.asset = b.asset /\ o.usd = room
      <4>1. room = (b.legs * Cardinality(Workers)) * LegUSD(b.pair, b.qty)
        BY RoomNat DEF Cost
      <4> HIDE DEF room
      <4> QED BY <3>0, <4>1
    <3> HIDE DEF p, s, room
    <3>4. p <= MaxInventoryUSD + room
      BY <3>1, <3>2
    <3> QED BY <3>3, <3>4 DEF p
  <2> QED BY <2>1, <2>2, <2>3, PTL DEF ExecSpec
<1>2. CASE ~(MaxInventoryUSD > 0)
  <2>1. OvershootIsBounded
    BY <1>2 DEF OvershootIsBounded
  <2> QED BY <2>1, PTL
<1> QED BY <1>1, <1>2
=============================================================================
