-------------------------- MODULE CrossExecProofs --------------------------
(***************************************************************************)
(* Proofs about the cross-exchange execution, for any number of bodies at  *)
(* a time, any sizes, exchanges, keys and minima, and every fault of an    *)
(* exchange: what an attempt leaves on its two exchanges.  Account says,   *)
(* for every place in tryExecuteCross, what the attempt has bought and     *)
(* sold when it is there; PaidInv what the bodies together have sent and   *)
(* may still send for the tokens they took.                                *)
(***************************************************************************)
EXTENDS CrossExec, RiskEngineProofs

Results == {"none", "small", "blocked", "rejectedBuy", "unfilled", "rejectedSell", "success"}

Jobs == [pc : PCs, symbol : Pairs \cup {CHOOSE s \in Pairs : TRUE},
         buy : Exchanges, sell : Exchanges, qty : Nat, filled : Nat, bought : Nat,
         blind : BOOLEAN, unseen : BOOLEAN, closed : BOOLEAN, result : Results]
Nets == [Exchanges -> Int]

Flat(n) == \A x \in Exchanges : n[x] = 0

(* What was bought is on the buying exchange, what an error hid is gone    *)
(* from the selling one, and there is nothing elsewhere.                   *)
Holds(j, n) ==
  /\ n[j.buy] = j.bought /\ n[j.sell] = -SoldUnseen(j)
  /\ \A x \in Exchanges \ {j.buy, j.sell} : n[x] = 0

(* What is offered for sale is what was bought and what is taken for it.   *)
Offers(j) == j.filled = j.bought + Unbought(j)

(* The books n of a body with the locals j.                                *)
Account(j, n) ==
  /\ j.pc \in {"ready", "risk", "buy"} => Flat(n) /\ j.result = "none" /\ j.bought = 0
  /\ j.pc # "ready" => j.buy # j.sell
  /\ j.pc \in {"ready", "risk", "buy", "query"} => ~j.blind
  /\ j.pc \in {"ready", "risk", "buy", "query", "sell"} => ~j.unseen
  /\ j.pc \in {"query", "sell", "unwind"} => Holds(j, n)
  /\ j.pc \in {"sell", "unwind"} => Offers(j)
  /\ n[j.buy] + n[j.sell] >= -Unbought(j) - SoldUnseen(j)
  /\ j.pc = "done" /\ j.result = "rejectedSell" /\ j.closed =>
       /\ n[j.buy] = -Unbought(j) /\ n[j.sell] = -SoldUnseen(j)
       /\ \A x \in Exchanges \ {j.buy, j.sell} : n[x] = 0

CrossInv ==
  /\ job \in [Workers -> Jobs]
  /\ net \in [Workers -> Nets]
  /\ \A w \in Workers : Account(job[w], net[w])

(* A step of one body leaves the others' locals and books as they are.     *)
LEMMA OneBody ==
  ASSUME CrossInv, NEW w \in Workers, NEW j \in Jobs, NEW n \in Nets, Account(j, n),
         job' = [job EXCEPT ![w] = j], net' = [net EXCEPT ![w] = n]
  PROVE  CrossInv'
<1>1. job' \in [Workers -> Jobs] /\ net' \in [Workers -> Nets]
  BY DEF CrossInv
<1>2. ASSUME NEW v \in Workers PROVE Account(job'[v], net'[v])
  <2>1. CASE v = w
    BY <2>1 DEF CrossInv
  <2>2. CASE v # w
    BY <2>2 DEF CrossInv
  <2> QED BY <2>1, <2>2
<1>3. Jobs' = Jobs /\ Nets' = Nets
  BY DEF Jobs, Nets
<1> QED BY <1>1, <1>2, <1>3 DEF CrossInv, Account, Flat, Holds, Offers, Unbought, SoldUnseen

-----------------------------------------------------------------------------
(* What the adapters do (internal/exchange): an order executes no more     *)
(* than its quantity, and a query tells the quantity filled or nothing.    *)
LEMMA PlaceOrderFills ==
  ASSUME NEW x \in Exchanges, NEW qty \in Nat, NEW o \in PlaceOrder(x, qty)
  PROVE  o.fill \in 0..qty /\ o.ok \in BOOLEAN
<1>1. qty \div 2 \in 0..qty
  OBVIOUS
<1>2. NotSent.fill \in 0..qty /\ NotSent.ok \in BOOLEAN
  BY DEF NotSent
<1>3. \A p \in Executions(qty) : p.fill \in 0..qty /\ p.ok \in BOOLEAN
  <2>1. CASE qty = 0
    BY <1>2, <2>1 DEF Executions
  <2>2. CASE qty # 0
    <3>1. Executions(qty) \subseteq [ok : BOOLEAN, fill : {0, qty \div 2, qty}]
      BY <2>2 DEF Executions
    <3> QED BY <1>1, <3>1
  <2> QED BY <2>1, <2>2
<1>4. \A p \in PlaceOutcomes(qty) : p.fill \in 0..qty /\ p.ok \in BOOLEAN
  BY <1>2, <1>3 DEF PlaceOutcomes
<1>5. x \in {"bybit", "okx", "mexc", "binance"}
  BY CrossAssumption
<1>6. o = NotSent \/ o \in PlaceOutcomes(qty) \/ o \in Executions(qty)
  BY <1>5 DEF PlaceOrder, BybitPlace, OkxPlace, MexcPlace, BinancePlace
<1> QED BY <1>2, <1>3, <1>4, <1>6

(* An order for which an error came back executed whole or not at all.     *)
LEMMA RefusedFillsWhole ==
  ASSUME NEW x \in Exchanges, NEW qty \in Nat, NEW o \in PlaceOrder(x, qty), ~o.ok
  PROVE  o.fill \in {0, qty}
<1>1. NotSent.fill = 0
  BY DEF NotSent
<1>2. \A p \in Executions(qty) : ~p.ok => p.fill \in {0, qty}
  <2>1. CASE qty = 0
    BY <1>1, <2>1 DEF Executions
  <2>2. CASE qty # 0
    BY <2>2 DEF Executions
  <2> QED BY <2>1, <2>2
<1>3. \A p \in PlaceOutcomes(qty) : ~p.ok => p.fill \in {0, qty}
  BY <1>1, <1>2 DEF PlaceOutcomes
<1>4. x \in {"bybit", "okx", "mexc", "binance"}
  BY CrossAssumption
<1>5. o = NotSent \/ o \in PlaceOutcomes(qty) \/ o \in Executions(qty)
  BY <1>4 DEF PlaceOrder, BybitPlace, OkxPlace, MexcPlace, BinancePlace
<1> QED BY <1>1, <1>2, <1>3, <1>5

(* Of a reply with an answer the quantity, of any other nothing.           *)
LEMMA GetOrderTells ==
  ASSUME NEW x \in Exchanges, NEW answer, NEW fill \in Nat
  PROVE  GetOrder(x, answer, fill).val \in {0, fill}
<1>1. x \in {"bybit", "okx", "mexc", "binance"}
  BY CrossAssumption
<1> QED BY <1>1 DEF GetOrder, BybitOrder, OkxOrder, MexcOrder, BinanceOrder, Checked, Unchecked

-----------------------------------------------------------------------------
(* One lemma per call that leaves the goroutine.                           *)

(* A new attempt begins with empty books (cross.go:80-134).                *)
LEMMA TakeAccounts ==
  ASSUME CrossInv, NEW w \in Workers, Take(w) PROVE CrossInv'
<1>1. PICK symbol \in Pairs, buy \in Exchanges, sell \in Exchanges, qty \in Sizes :
        /\ buy # sell
        /\ LET j == Job(symbol, buy, sell, qty)
           IN \/ job' = [job EXCEPT ![w] = [j EXCEPT !.pc = "done", !.result = "small"]]
              \/ job' = [job EXCEPT ![w] = j]
  <2>1. PICK symbol \in Pairs, buy \in Exchanges, sell \in Exchanges, qty \in Sizes :
          /\ buy # sell
          /\ \E minQty \in MinQtys(buy, sell) :
               IF qty = 0 \/ qty < minQty THEN Return(w, Job(symbol, buy, sell, qty), "small")
               ELSE Become(w, Job(symbol, buy, sell, qty))
    BY DEF Take
  <2>2. \/ Return(w, Job(symbol, buy, sell, qty), "small")
        \/ Become(w, Job(symbol, buy, sell, qty))
    BY <2>1
  <2> QED BY <2>1, <2>2 DEF Return, Become
<1> DEFINE j == Job(symbol, buy, sell, qty)
           d == [j EXCEPT !.pc = "done", !.result = "small"]
           n == [x \in Exchanges |-> 0]
<1>2. qty \in Nat
  BY CrossAssumption
<1>3. n \in Nets /\ Flat(n) /\ net' = [net EXCEPT ![w] = n]
  BY DEF Nets, Flat, Take
<1>4. n[buy] = 0 /\ n[sell] = 0
  OBVIOUS
<1> HIDE DEF n
<1>5. j \in Jobs /\ j.pc = "risk" /\ j.result = "none" /\ j.buy = buy /\ j.sell = sell
      /\ j.bought = 0 /\ ~j.blind /\ ~j.unseen
  BY <1>2 DEF Jobs, PCs, Results, Job
<1>6. d \in Jobs /\ d.pc = "done" /\ d.result = "small" /\ d.buy = buy /\ d.sell = sell
      /\ ~d.blind /\ ~d.unseen
  BY <1>2 DEF Jobs, PCs, Results, Job
<1>7. job' = [job EXCEPT ![w] = d] \/ job' = [job EXCEPT ![w] = j]
  BY <1>1
<1> HIDE DEF j, d
<1>8. Account(j, n) /\ Account(d, n)
  BY <1>1, <1>3, <1>4, <1>5, <1>6 DEF Account, Unbought, SoldUnseen
<1> QED BY <1>3, <1>5, <1>6, <1>7, <1>8, OneBody

(* A check that approves answers with a natural number (risk.go:95-97).    *)
LEMMA RiskAccounts ==
  ASSUME CrossInv, NEW w \in Workers, Risk(w) PROVE CrossInv'
<1> DEFINE j == job[w]
           b == [j EXCEPT !.pc = "done", !.result = "blocked"]
           q == [j EXCEPT !.pc = "buy", !.qty = IF reply'.value > 0 THEN reply'.value ELSE @]
<1>1. j \in Jobs /\ net[w] \in Nets /\ Account(j, net[w]) /\ j.pc = "risk"
  BY DEF CrossInv, Risk, At
<1>2. net' = [net EXCEPT ![w] = net[w]]
  BY DEF Risk, CrossInv
<1>3. job' = [job EXCEPT ![w] = b] \/ job' = [job EXCEPT ![w] = q]
  BY DEF Risk, Return, Become
<1>4. reply'.value \in Nat
  <2> DEFINE req == [symbol |-> j.symbol, exchange |-> j.buy, value |-> j.qty]
  <2>1. AdjValue(req) \in Nat
    BY <1>1 DEF AdjValue, Jobs
  <2>2. Allow(req)
    BY DEF Risk
  <2> QED BY <2>1, <2>2 DEF Allow
<1>5. b \in Jobs /\ Account(b, net[w])
  BY <1>1 DEF Jobs, PCs, Results, Account, Flat, Nets, Unbought, SoldUnseen
<1>6. q \in Jobs /\ Account(q, net[w])
  BY <1>1, <1>4 DEF Jobs, PCs, Results, Account, Flat, Nets, Unbought, SoldUnseen
<1> QED BY <1>1, <1>2, <1>3, <1>5, <1>6, OneBody

(* What the buy executed, all of it on its exchange (cross.go:135-139).    *)
LEMMA BuyAccounts ==
  ASSUME CrossInv, NEW w \in Workers, BuyOrder(w) PROVE CrossInv'
<1> DEFINE j == job[w]
<1>1. j \in Jobs /\ net[w] \in Nets /\ Account(j, net[w]) /\ j.pc = "buy"
  BY DEF CrossInv, BuyOrder, At
<1>2. PICK o \in PlaceOrder(j.buy, j.qty) :
        /\ net' = [net EXCEPT ![w][j.buy] = @ + o.fill]
        /\ \/ job' = [job EXCEPT ![w] = [j EXCEPT !.pc = "query", !.bought = o.fill]]
           \/ job' = [job EXCEPT ![w] = [j EXCEPT !.pc = "done", !.result = "rejectedBuy"]]
  BY DEF BuyOrder, Executed, Return, Become
<1>3. o.fill \in Nat
  BY <1>1, PlaceOrderFills DEF Jobs
<1> DEFINE n == [net[w] EXCEPT ![j.buy] = @ + o.fill]
           q == [j EXCEPT !.pc = "query", !.bought = o.fill]
           r == [j EXCEPT !.pc = "done", !.result = "rejectedBuy"]
<1>4. net' = [net EXCEPT ![w] = n]
  BY <1>2
<1>5. n \in Nets /\ n[j.buy] = o.fill /\ \A x \in Exchanges : x # j.buy => n[x] = 0
  BY <1>1, <1>3 DEF Nets, Account, Flat, Jobs
<1>6. q \in Jobs /\ Account(q, n)
  <2>1. q \in Jobs
    BY <1>1, <1>3 DEF Jobs, PCs, Results
  <2>2. q.pc = "query" /\ q.buy = j.buy /\ q.sell = j.sell /\ q.bought = o.fill /\ ~q.blind /\ ~q.unseen
    BY <1>1 DEF Jobs, Account
  <2>3. j.buy # j.sell /\ j.sell \in Exchanges
    BY <1>1 DEF Jobs, Account
  <2> HIDE DEF q, n
  <2> QED BY <2>1, <2>2, <2>3, <1>3, <1>5 DEF Account, Holds, Unbought, SoldUnseen
<1>7. r \in Jobs /\ Account(r, n)
  <2>1. r \in Jobs
    BY <1>1 DEF Jobs, PCs, Results
  <2>2. /\ r.pc = "done" /\ r.result = "rejectedBuy" /\ r.buy = j.buy /\ r.sell = j.sell
        /\ ~r.blind /\ ~r.unseen
    BY <1>1 DEF Jobs, Account
  <2>3. j.buy # j.sell /\ j.sell \in Exchanges
    BY <1>1 DEF Jobs, Account
  <2> HIDE DEF r, n
  <2> QED BY <2>1, <2>2, <2>3, <1>3, <1>5 DEF Account, Unbought, SoldUnseen
<1> QED BY <1>2, <1>4, <1>5, <1>6, <1>7, OneBody

(* The queries tell what was bought, or the ordered quantity is taken for  *)
(* it (cross.go:140-152).                                                  *)
LEMMA QueryAccounts ==
  ASSUME CrossInv, NEW w \in Workers, Query(w) PROVE CrossInv'
<1> DEFINE j == job[w]
<1>1. j \in Jobs /\ net[w] \in Nets /\ Account(j, net[w]) /\ j.pc = "query"
  BY DEF CrossInv, Query, At
<1>2. PICK info \in Replies("no_info"), status \in Replies("no_status") :
        LET byInfo   == GetOrder(j.buy, info, j.bought)
            byStatus == GetOrder(j.buy, status, j.bought)
            told     == IF byStatus.val > 0 THEN byStatus.val ELSE byInfo.val
            k == [j EXCEPT !.filled = IF told = 0 THEN j.qty ELSE told, !.blind = told = 0]
        IN \/ job' = [job EXCEPT ![w] = [k EXCEPT !.pc = "done", !.result = "unfilled"]]
           \/ job' = [job EXCEPT ![w] = [k EXCEPT !.pc = "sell"]]
  BY DEF Query, Return, Become
<1> DEFINE byInfo   == GetOrder(j.buy, info, j.bought)
           byStatus == GetOrder(j.buy, status, j.bought)
           told     == IF byStatus.val > 0 THEN byStatus.val ELSE byInfo.val
           k == [j EXCEPT !.filled = IF told = 0 THEN j.qty ELSE told, !.blind = told = 0]
<1>3. told \in {0, j.bought} /\ j.bought \in Nat /\ j.qty \in Nat
  BY <1>1, GetOrderTells DEF Jobs
<1>4. net' = [net EXCEPT ![w] = net[w]]
  BY DEF Query, CrossInv
<1> HIDE DEF told
<1>5. /\ k \in Jobs /\ k.buy = j.buy /\ k.sell = j.sell /\ ~k.unseen
      /\ k.bought = j.bought /\ k.qty = j.qty /\ k.filled = IF k.blind THEN j.qty ELSE j.bought
  BY <1>1, <1>3 DEF Jobs, Account
<1>6. /\ net[w][j.buy] = j.bought /\ net[w][j.sell] = 0 /\ j.buy # j.sell
      /\ \A x \in Exchanges \ {j.buy, j.sell} : net[w][x] = 0
  BY <1>1, <1>3 DEF Account, Holds, Jobs, SoldUnseen
<1> DEFINE s == [k EXCEPT !.pc = "sell"]
           u == [k EXCEPT !.pc = "done", !.result = "unfilled"]
<1> HIDE DEF k
<1>a. /\ s \in Jobs /\ s.pc = "sell" /\ s.buy = j.buy /\ s.sell = j.sell /\ ~s.unseen
      /\ s.bought = j.bought /\ s.qty = j.qty /\ s.filled = IF s.blind THEN j.qty ELSE j.bought
  BY <1>5 DEF Jobs, PCs, Results
<1>b. /\ u \in Jobs /\ u.pc = "done" /\ u.result = "unfilled" /\ u.buy = j.buy /\ u.sell = j.sell
      /\ ~u.unseen /\ u.bought = j.bought /\ u.qty = j.qty
  BY <1>5 DEF Jobs, PCs, Results
<1> HIDE DEF s, u
<1>7. Account(s, net[w])
  <2>1. Offers(s)
    BY <1>3, <1>a DEF Offers, Unbought
  <2>2. net[w][s.buy] + net[w][s.sell] >= -Unbought(s) - SoldUnseen(s)
    BY <1>3, <1>6, <1>a DEF Unbought, SoldUnseen
  <2> QED BY <1>6, <1>a, <2>1, <2>2 DEF Account, Holds, SoldUnseen
<1>8. Account(u, net[w])
  <2>1. net[w][u.buy] + net[w][u.sell] >= -Unbought(u) - SoldUnseen(u)
    BY <1>3, <1>6, <1>b DEF Unbought, SoldUnseen
  <2> QED BY <1>6, <1>b, <2>1 DEF Account
<1>9. job' = [job EXCEPT ![w] = u] \/ job' = [job EXCEPT ![w] = s]
  BY <1>2 DEF k, told, s, u
<1> QED BY <1>1, <1>4, <1>7, <1>8, <1>9, <1>a, <1>b, OneBody

(* The sell is for filled, so it leaves no less than what was not bought   *)
(* (cross.go:154-157).                                                     *)
LEMMA SellAccounts ==
  ASSUME CrossInv, NEW w \in Workers, SellOrder(w) PROVE CrossInv'
<1> DEFINE j == job[w]
<1>1. j \in Jobs /\ net[w] \in Nets /\ Account(j, net[w]) /\ j.pc = "sell"
  BY DEF CrossInv, SellOrder, At
<1>2. PICK o \in PlaceOrder(j.sell, j.filled) :
        /\ net' = [net EXCEPT ![w][j.sell] = @ + (-o.fill)]
        /\ job' = [job EXCEPT ![w] = [j EXCEPT !.pc = IF o.ok THEN "pnl" ELSE "unwind",
                                               !.unseen = ~o.ok /\ o.fill > 0]]
  BY DEF SellOrder, Executed, Become
<1>3. o.fill \in 0..j.filled /\ o.ok \in BOOLEAN /\ j.filled \in Nat
  BY <1>1, PlaceOrderFills DEF Jobs
<1> DEFINE n == [net[w] EXCEPT ![j.sell] = @ + (-o.fill)]
           k == [j EXCEPT !.pc = IF o.ok THEN "pnl" ELSE "unwind",
                          !.unseen = ~o.ok /\ o.fill > 0]
<1>4. net' = [net EXCEPT ![w] = n]
  BY <1>2
<1>5. n \in Nets /\ n[j.sell] = net[w][j.sell] - o.fill
      /\ \A x \in Exchanges : x # j.sell => n[x] = net[w][x]
  BY <1>1, <1>3 DEF Nets, Jobs
<1>6. k \in Jobs /\ k.buy = j.buy /\ k.sell = j.sell /\ k.filled = j.filled
      /\ k.bought = j.bought /\ k.blind = j.blind /\ k.qty = j.qty
      /\ k.pc \in {"pnl", "unwind"} /\ (k.pc = "unwind" => ~o.ok)
      /\ (k.unseen <=> ~o.ok /\ o.fill > 0)
  BY <1>1, <1>3 DEF Jobs, PCs, Results
<1> HIDE DEF k, n
<1>7. Account(k, n)
  <2>1. j.buy # j.sell /\ j.buy \in Exchanges /\ j.sell \in Exchanges /\ net[w] \in [Exchanges -> Int]
    BY <1>1 DEF Account, Jobs, Nets
  <2>2. /\ net[w][j.buy] = j.bought /\ net[w][j.sell] = 0 /\ j.bought \in Nat /\ j.qty \in Nat
        /\ \A x \in Exchanges \ {j.buy, j.sell} : net[w][x] = 0
        /\ j.filled = j.bought + Unbought(j)
    BY <1>1 DEF Account, Holds, SoldUnseen, Offers, Jobs
  <2>5. Unbought(k) = Unbought(j) /\ Unbought(j) \in Int
    BY <1>6, <2>2 DEF Unbought
  <2>6. SoldUnseen(k) = IF k.unseen THEN j.filled ELSE 0
    BY <1>6 DEF SoldUnseen
  <2>3. n[k.buy] + n[k.sell] >= -Unbought(k) - SoldUnseen(k)
    BY <1>3, <1>5, <1>6, <2>1, <2>2, <2>5, <2>6
  <2>4. k.pc = "unwind" => Holds(k, n) /\ Offers(k)
    <3>1. ~o.ok => o.fill = 0 \/ o.fill = j.filled
      BY <1>1, <1>2, RefusedFillsWhole DEF Jobs
    <3>2. ASSUME k.pc = "unwind" PROVE n[k.sell] = -SoldUnseen(k)
      <4>1. n[k.sell] = -o.fill /\ o.fill \in Int /\ (o.fill = 0 \/ o.fill = j.filled)
        BY <1>3, <1>5, <1>6, <2>1, <2>2, <3>1, <3>2
      <4>2. CASE o.fill > 0
        <5>1. k.unseen /\ o.fill = j.filled
          BY <1>6, <3>2, <4>1, <4>2
        <5> QED BY <2>6, <4>1, <5>1
      <4>3. CASE ~(o.fill > 0)
        <5>1. ~k.unseen /\ o.fill = 0
          BY <1>3, <1>6, <4>1, <4>3
        <5> QED BY <2>6, <4>1, <5>1
      <4> QED BY <4>2, <4>3
    <3> QED BY <1>5, <1>6, <2>1, <2>2, <2>5, <3>2 DEF Holds, Offers
  <2> QED BY <1>6, <2>1, <2>3, <2>4 DEF Account
<1> QED BY <1>2, <1>4, <1>5, <1>6, <1>7, OneBody DEF k

(* The unwind sells filled where it was bought (cross.go:162-166).         *)
LEMMA UnwindAccounts ==
  ASSUME CrossInv, NEW w \in Workers, Unwind(w) PROVE CrossInv'
<1> DEFINE j == job[w]
<1>1. j \in Jobs /\ net[w] \in Nets /\ Account(j, net[w]) /\ j.pc = "unwind"
  BY DEF CrossInv, Unwind, At
<1>2. PICK o \in PlaceOrder(j.buy, j.filled) :
        /\ net' = [net EXCEPT ![w][j.buy] = @ + (-o.fill)]
        /\ job' = [job EXCEPT ![w] = [[j EXCEPT !.closed = (o.fill = j.filled)]
                                        EXCEPT !.pc = "done", !.result = "rejectedSell"]]
  BY DEF Unwind, Executed, Return, Become
<1>3. o.fill \in 0..j.filled /\ j.filled \in Nat
  BY <1>1, PlaceOrderFills DEF Jobs
<1> DEFINE n == [net[w] EXCEPT ![j.buy] = @ + (-o.fill)]
           k == [[j EXCEPT !.closed = (o.fill = j.filled)]
                   EXCEPT !.pc = "done", !.result = "rejectedSell"]
<1>4. net' = [net EXCEPT ![w] = n]
  BY <1>2
<1>5. n \in Nets /\ n[j.buy] = net[w][j.buy] - o.fill
      /\ \A x \in Exchanges : x # j.buy => n[x] = net[w][x]
  BY <1>1, <1>3 DEF Nets, Jobs
<1>6. k \in Jobs /\ k.buy = j.buy /\ k.sell = j.sell /\ k.pc = "done"
      /\ k.blind = j.blind /\ k.unseen = j.unseen /\ k.qty = j.qty /\ k.bought = j.bought
      /\ k.filled = j.filled /\ (k.closed => o.fill = j.filled)
  BY <1>1, <1>3 DEF Jobs, PCs, Results
<1> HIDE DEF k, n
<1>7. Account(k, n)
  <2>1. j.buy # j.sell /\ j.buy \in Exchanges /\ j.sell \in Exchanges /\ net[w] \in [Exchanges -> Int]
    BY <1>1 DEF Account, Jobs, Nets
  <2>2. /\ net[w][j.buy] = j.bought /\ net[w][j.sell] = -SoldUnseen(j)
        /\ \A x \in Exchanges \ {j.buy, j.sell} : net[w][x] = 0
        /\ j.filled = j.bought + Unbought(j)
    BY <1>1 DEF Account, Holds, Offers
  <2>5. /\ Unbought(k) = Unbought(j) /\ Unbought(j) \in Int /\ j.bought \in Nat
        /\ SoldUnseen(k) = SoldUnseen(j) /\ SoldUnseen(j) \in Int
    BY <1>1, <1>6 DEF Unbought, SoldUnseen, Jobs
  <2>3. n[k.buy] + n[k.sell] >= -Unbought(k) - SoldUnseen(k)
    BY <1>3, <1>5, <1>6, <2>1, <2>2, <2>5
  <2>4. k.closed => /\ n[k.buy] = -Unbought(k) /\ n[k.sell] = -SoldUnseen(k)
                    /\ \A x \in Exchanges \ {k.buy, k.sell} : n[x] = 0
    BY <1>3, <1>5, <1>6, <2>1, <2>2, <2>5
  <2> QED BY <1>6, <2>1, <2>3, <2>4 DEF Account
<1> QED BY <1>2, <1>4, <1>5, <1>6, <1>7, OneBody DEF k

(* Booking the result touches no books of an exchange (cross.go:167-172).  *)
LEMMA BookAccounts ==
  ASSUME CrossInv, NEW w \in Workers, BookPnL(w) PROVE CrossInv'
<1> DEFINE j == job[w]
           k == [j EXCEPT !.pc = "done", !.result = "success"]
<1>1. j \in Jobs /\ net[w] \in Nets /\ Account(j, net[w]) /\ j.pc = "pnl"
  BY DEF CrossInv, BookPnL, At
<1>2. net' = [net EXCEPT ![w] = net[w]] /\ job' = [job EXCEPT ![w] = k]
  BY DEF BookPnL, Return, Become, CrossInv
<1>3. k \in Jobs /\ Account(k, net[w])
  BY <1>1 DEF Jobs, PCs, Results, Account, Unbought, SoldUnseen
<1> QED BY <1>1, <1>2, <1>3, OneBody

-----------------------------------------------------------------------------
(* The books of every body agree with its place in tryExecuteCross.        *)
THEOREM CrossInvHolds == CrossSpec => []CrossInv
<1>1. CrossInit => CrossInv
  <2> SUFFICES ASSUME CrossInit PROVE CrossInv
    OBVIOUS
  <2> DEFINE n == [x \in Exchanges |-> 0]
  <2>1. job = [w \in Workers |-> Ready] /\ net = [w \in Workers |-> n]
    BY DEF CrossInit
  <2>2. n \in Nets /\ Flat(n)
    BY DEF Nets, Flat
  <2>3. Ready \in Jobs /\ Account(Ready, n)
    <3> DEFINE x0 == CHOOSE x \in Exchanges : TRUE
    <3>1. x0 \in Exchanges
      BY CrossAssumption
    <3>2. Ready = [Job(CHOOSE s \in Pairs : TRUE, x0, x0, 0) EXCEPT !.pc = "ready"]
      BY DEF Ready
    <3> HIDE DEF x0, n
    <3>3. Ready \in Jobs
      BY <3>1, <3>2 DEF Job, Jobs, PCs, Results
    <3>4. /\ Ready.pc = "ready" /\ Ready.result = "none"
          /\ Ready.buy \in Exchanges /\ Ready.sell \in Exchanges
          /\ Ready.bought = 0 /\ ~Ready.blind /\ ~Ready.unseen
      BY <3>1, <3>2 DEF Job
    <3>5. n[Ready.buy] = 0 /\ n[Ready.sell] = 0
      BY <2>2, <3>4 DEF Flat
    <3> QED BY <2>2, <3>3, <3>4, <3>5 DEF Account, Unbought, SoldUnseen
  <2> QED BY <2>1, <2>2, <2>3 DEF CrossInv
<1>2. CrossInv /\ [CrossNext]_allVars => CrossInv'
  <2> SUFFICES ASSUME CrossInv, [CrossNext]_allVars PROVE CrossInv'
    OBVIOUS
  <2>1. ASSUME NEW w \in Workers,
               \/ Take(w) \/ Risk(w) \/ BuyOrder(w) \/ Query(w) \/ SellOrder(w)
               \/ Unwind(w) \/ BookPnL(w)
        PROVE  CrossInv'
    BY <2>1, TakeAccounts, RiskAccounts, BuyAccounts, QueryAccounts, SellAccounts,
       UnwindAccounts, BookAccounts
  <2>2. CASE UNCHANGED <<job, net>>
    BY <2>2 DEF CrossInv, Jobs, Nets, Account, Flat, Holds, Offers, Unbought, SoldUnseen
  <2> QED BY <2>1, <2>2 DEF CrossNext, NextScan, Rest, allVars, crossVars
<1> QED BY <1>1, <1>2, PTL DEF CrossSpec

(* Whatever the exchanges fill, refuse, lose or leave unanswered, and      *)
(* however many bodies run: an attempt is short of no more than the rest   *)
(* of a buy of whose fill no query told and a sell that executed behind an *)
(* error (cross.go:142-166).                                               *)
THEOREM NeverShortHolds == CrossSpec => []NeverShort
<1>1. CrossInv => NeverShort
  BY DEF CrossInv, Account, NeverShort, NetOf
<1> QED BY <1>1, CrossInvHolds, PTL

(* The unwind of a refused sell, once it has filled, leaves the exchange   *)
(* of the buy short of the first of these, that of the sell short of the   *)
(* second and the others untouched, for all faults (cross.go:162-166).     *)
THEOREM RejectedSellIsFlatHolds == CrossSpec => []RejectedSellIsFlat
<1>1. CrossInv => RejectedSellIsFlat
  BY DEF CrossInv, Account, RejectedSellIsFlat, At
<1> QED BY <1>1, CrossInvHolds, PTL

-----------------------------------------------------------------------------
(* The risk engine under the bodies: whatever order their calls come in,   *)
(* its invariant holds, so what RiskEngineProofs says of its answers does. *)

(* The engine is called in two places of tryExecuteCross, with a natural   *)
(* value and an integer result (cross.go:126, 172).                        *)
LEMMA BodyKeepsEngine ==
  ASSUME CrossInv, StopInv, [CrossNext]_allVars PROVE StopInv'
<1>1. ASSUME NEW w \in Workers, Risk(w) PROVE StopInv'
  <2> DEFINE req == [symbol |-> job[w].symbol, exchange |-> job[w].buy, value |-> job[w].qty]
  <2>1. Allow(req)
    BY <1>1 DEF Risk
  <2>2. req.value \in Nat
    BY DEF CrossInv, Jobs
  <2> HIDE DEF req
  <2> QED BY <2>1, <2>2, AllowStops
<1>2. ASSUME NEW w \in Workers, BookPnL(w) PROVE StopInv'
  BY <1>2, InputAssumption, UpdatePnLStops DEF BookPnL
<1>3. CASE UNCHANGED vars
  BY <1>3, IdleStops
<1> QED BY <1>1, <1>2, <1>3
        DEF CrossNext, Take, BuyOrder, Query, SellOrder, Unwind, NextScan, Rest, allVars

(* The invariant of the engine and the books of the bodies hold together.  *)
THEOREM EngineInCross == CrossSpec => [](CrossInv /\ StopInv)
<1>1. CrossInit => StopInv
  BY StopInvInit DEF CrossInit
<1>2. CrossInv /\ StopInv /\ [CrossNext]_allVars => StopInv'
  BY BodyKeepsEngine
<1> QED BY <1>1, <1>2, CrossInvHolds, PTL DEF CrossSpec

(* However many bodies run, none goes on to its buy on a day on which the  *)
(* hard stop has refused an order of any of them (cross.go:126-133 against *)
(* risk.go:79-94).                                                         *)
THEOREM NoBuyAfterStop ==
  CrossSpec => [][\A w \in Workers : At(w, "risk") /\ job'[w].pc = "buy" => hardDay # today]_allVars
<1>1. CrossInv /\ StopInv /\ [CrossNext]_allVars
        => [\A w \in Workers : At(w, "risk") /\ job'[w].pc = "buy" => hardDay # today]_allVars
  <2> SUFFICES ASSUME CrossInv, StopInv, CrossNext, NEW w \in Workers,
                      At(w, "risk"), job'[w].pc = "buy"
               PROVE  hardDay # today
    OBVIOUS
  <2>1. Risk(w)
    <3>1. job \in [Workers -> Jobs] /\ job[w].pc = "risk"
      BY DEF CrossInv, At
    <3>2. ASSUME NEW v \in Workers, v # w, Become(v, job'[v]) PROVE FALSE
      BY <3>1, <3>2 DEF Become
    <3>3. ASSUME NEW v \in Workers,
                 Take(v) \/ Risk(v) \/ BuyOrder(v) \/ Query(v) \/ SellOrder(v) \/ Unwind(v) \/ BookPnL(v)
          PROVE  \A u \in Workers : u # v => job'[u] = job[u]
      BY <3>1, <3>3 DEF Take, Risk, BuyOrder, Query, SellOrder, Unwind, BookPnL, Become, Return
    <3>4. \A v \in Workers : v # w =>
            ~(Take(v) \/ Risk(v) \/ BuyOrder(v) \/ Query(v) \/ SellOrder(v) \/ Unwind(v) \/ BookPnL(v))
      BY <3>1, <3>3
    <3>5. ~NextScan /\ ~Rest
      BY <3>1 DEF NextScan, Rest, Idle
    <3> QED BY <3>1, <3>4, <3>5
            DEF CrossNext, Take, Idle, BuyOrder, Query, SellOrder, Unwind, BookPnL, At
  <2>2. reply'.ok
    <3>1. job \in [Workers -> Jobs]
      BY DEF CrossInv
    <3>2. ASSUME ~reply'.ok PROVE FALSE
      <4>1. job' = [job EXCEPT ![w] = [job[w] EXCEPT !.pc = "done", !.result = "blocked"]]
        BY <2>1, <3>2 DEF Risk, Return, Become
      <4> QED BY <3>1, <4>1 DEF Jobs
    <3> QED BY <3>2
  <2> QED BY <2>1, <2>2, ApprovedIsNotStopped DEF Risk
<1> QED BY <1>1, EngineInCross, PTL DEF CrossSpec

-----------------------------------------------------------------------------
(* The orders of all bodies against the tokens of the bucket.              *)

(* The orders a body may still send from a place of tryExecuteCross: a     *)
(* buy, a sell and an unwind; a sell and an unwind; an unwind.             *)
Owed(pc) == IF pc \in {"risk", "buy"} THEN 3
            ELSE IF pc \in {"query", "sell"} THEN 2
            ELSE IF pc = "unwind" THEN 1 ELSE 0

OwedOf == [w \in Workers |-> Owed(job[w].pc)]

(* Two tokens pay for three orders, those of the past and those that may   *)
(* still come (cross.go:82-86).                                            *)
PaidInv ==
  /\ tokens \in 0..MaxOrdersPerMin /\ granted \in Nat /\ sent \in Nat /\ scans \in 1..Scans
  /\ 2 * sent + 2 * SumFunctionOnSet(OwedOf, Workers) + 3 * tokens <= 3 * granted

BodyStep(w) == \/ Take(w) \/ Risk(w) \/ BuyOrder(w) \/ Query(w) \/ SellOrder(w)
               \/ Unwind(w) \/ BookPnL(w)

LEMMA OwedType == OwedOf \in [Workers -> Nat] /\ OwedOf \in [Workers -> Int]
BY DEF OwedOf, Owed

(* Where a call leaves its body, and what it has sent and paid.            *)
LEMMA BodyMoves ==
  ASSUME CrossInv, NEW w \in Workers, BodyStep(w)
  PROVE  LET from == job[w].pc  to == job'[w].pc
         IN \/ /\ from \in {"ready", "done"} /\ to \in {"risk", "done"}
               /\ tokens >= 2 /\ tokens' = tokens - 2 /\ sent' = sent
            \/ /\ \/ from = "risk" /\ to \in {"buy", "done"}
                  \/ from = "query" /\ to \in {"sell", "done"}
                  \/ from = "pnl" /\ to = "done"
               /\ tokens' = tokens /\ sent' = sent
            \/ /\ \/ from = "buy" /\ to \in {"query", "done"}
                  \/ from = "sell" /\ to \in {"pnl", "unwind"}
                  \/ from = "unwind" /\ to = "done"
               /\ tokens' = tokens /\ sent' = sent + 1
<1>1. job \in [Workers -> Jobs] /\ "pc" \in DOMAIN job[w]
  BY DEF CrossInv, Jobs
<1>2. CASE Take(w)
  <2>1. PICK j : j.pc \in {"risk", "done"} /\ job' = [job EXCEPT ![w] = j]
    <3>1. PICK symbol \in Pairs, buy \in Exchanges, sell \in Exchanges, qty \in Sizes :
            \/ Return(w, Job(symbol, buy, sell, qty), "small")
            \/ Become(w, Job(symbol, buy, sell, qty))
      BY <1>2 DEF Take
    <3> DEFINE j == Job(symbol, buy, sell, qty)
               k == [j EXCEPT !.pc = "done", !.result = "small"]
    <3>2. j.pc = "risk" /\ k.pc = "done"
      BY DEF Job
    <3>3. Become(w, j) \/ Become(w, k)
      BY <3>1 DEF Return
    <3> HIDE DEF j, k
    <3> QED BY <3>2, <3>3 DEF Become
  <2> QED BY <1>1, <1>2, <2>1 DEF Take, Idle
<1>3. CASE Risk(w)
  <2>1. job'[w].pc \in {"buy", "done"}
    <3> DEFINE amount == IF reply'.value > 0 THEN reply'.value ELSE job[w].qty
               b == [job[w] EXCEPT !.pc = "done", !.result = "blocked"]
               q == [job[w] EXCEPT !.pc = "buy", !.qty = amount]
    <3>1. Become(w, b) \/ Become(w, q)
      BY <1>3 DEF Risk, Return
    <3>2. b.pc = "done" /\ q.pc = "buy"
      BY <1>1
    <3> HIDE DEF b, q
    <3> QED BY <1>1, <3>1, <3>2 DEF Become
  <2> QED BY <1>3, <2>1 DEF Risk, At
<1>4. CASE BuyOrder(w)
  <2>1. job'[w].pc \in {"query", "done"}
    BY <1>1, <1>4 DEF BuyOrder, Return, Become
  <2> QED BY <1>4, <2>1 DEF BuyOrder, Executed, At
<1>5. CASE Query(w)
  <2>1. job'[w].pc \in {"sell", "done"}
    <3>1. PICK info \in Replies("no_info"), status \in Replies("no_status") :
            LET byInfo   == GetOrder(job[w].buy, info, job[w].bought)
                byStatus == GetOrder(job[w].buy, status, job[w].bought)
                told     == IF byStatus.val > 0 THEN byStatus.val ELSE byInfo.val
                k == [job[w] EXCEPT !.filled = IF told = 0 THEN job[w].qty ELSE told, !.blind = told = 0]
            IN Return(w, k, "unfilled") \/ Become(w, [k EXCEPT !.pc = "sell"])
      BY <1>5 DEF Query
    <3> DEFINE byInfo   == GetOrder(job[w].buy, info, job[w].bought)
               byStatus == GetOrder(job[w].buy, status, job[w].bought)
               told     == IF byStatus.val > 0 THEN byStatus.val ELSE byInfo.val
               k == [job[w] EXCEPT !.filled = IF told = 0 THEN job[w].qty ELSE told, !.blind = told = 0]
    <3>2. "pc" \in DOMAIN k
      BY <1>1 DEF Jobs
    <3>3. Return(w, k, "unfilled") \/ Become(w, [k EXCEPT !.pc = "sell"])
      BY <3>1
    <3> HIDE DEF k
    <3>4. [k EXCEPT !.pc = "sell"].pc = "sell" /\ [k EXCEPT !.pc = "done", !.result = "unfilled"].pc = "done"
      BY <3>2
    <3> QED BY <1>1, <3>3, <3>4 DEF Return, Become
  <2> QED BY <1>5, <2>1 DEF Query, At
<1>6. CASE SellOrder(w)
  <2>1. job'[w].pc \in {"pnl", "unwind"}
    BY <1>1, <1>6 DEF SellOrder, Become
  <2> QED BY <1>6, <2>1 DEF SellOrder, Executed, At
<1>7. CASE Unwind(w)
  <2>1. job'[w].pc = "done"
    BY <1>1, <1>7 DEF Unwind, Return, Become
  <2> QED BY <1>7, <2>1 DEF Unwind, Executed, At
<1>8. CASE BookPnL(w)
  <2>1. job'[w].pc = "done"
    BY <1>1, <1>8 DEF BookPnL, Return, Become
  <2> QED BY <1>8, <2>1 DEF BookPnL, At
<1> QED BY <1>2, <1>3, <1>4, <1>5, <1>6, <1>7, <1>8 DEF BodyStep

(* No call of one body owes or pays for another.                           *)
LEMMA OthersOwe ==
  ASSUME CrossInv, CrossInv', NEW w \in Workers, BodyStep(w)
  PROVE  OwedOf' = [OwedOf EXCEPT ![w] = Owed(job'[w].pc)] /\ UNCHANGED <<granted, scans>>
<1>1. \A v \in Workers : v # w => job'[v] = job[v]
  BY DEF BodyStep, CrossInv, Take, Risk, BuyOrder, Query, SellOrder, Unwind, BookPnL, Become, Return
<1>2. OwedOf' = [v \in Workers |-> Owed(job'[v].pc)]
  BY DEF OwedOf
<1> QED BY <1>1, <1>2 DEF OwedOf, BodyStep, Take, Risk, BuyOrder, Query, SellOrder, Unwind, BookPnL

(* The sums of the ledger: a step of one body, and the tokens of a tick.   *)
LEMMA LedgerStep ==
  ASSUME NEW s \in Int, NEW a \in Int, NEW t \in Int, NEW g \in Int, NEW s1 \in Int,
         NEW t1 \in Int, NEW from \in Int, NEW to \in Int,
         2 * s + 2 * a + 3 * t <= 3 * g,
         2 * s1 + 2 * to + 3 * t1 <= 2 * s + 2 * from + 3 * t
  PROVE  2 * s1 + 2 * (a - from + to) + 3 * t1 <= 3 * g
OBVIOUS

LEMMA LedgerTick ==
  ASSUME NEW s \in Int, NEW a \in Int, NEW t \in Int, NEW g \in Int, NEW t1 \in Int,
         2 * s + 2 * a + 3 * t <= 3 * g
  PROVE  2 * s + 2 * a + 3 * t1 <= 3 * (g + (t1 - t))
OBVIOUS

(* An order is sent only by a body that owes it, and an attempt begins     *)
(* only with two tokens in hand.                                           *)
LEMMA BodyPays ==
  ASSUME CrossInv, CrossInv', PaidInv, NEW w \in Workers, BodyStep(w) PROVE PaidInv'
<1> DEFINE from == Owed(job[w].pc)
           to   == Owed(job'[w].pc)
           all  == SumFunctionOnSet(OwedOf, Workers)
<1>1. /\ OwedOf' = [OwedOf EXCEPT ![w] = to]
      /\ UNCHANGED <<granted, scans>> /\ OwedOf[w] = from
      /\ to \in Nat /\ from \in Nat
  BY OthersOwe DEF OwedOf, Owed
<1>2. IsFiniteSet(Workers)
  BY CrossAssumption
<1>3. SumFunctionOnSet(OwedOf', Workers) = all - from + to
  <2>1. OwedOf \in [Workers -> Int] /\ OwedOf' \in [Workers -> Int]
    BY <1>1, OwedType
  <2>2. OwedOf'[w] = to /\ \A v \in Workers \ {w} : OwedOf'[v] = OwedOf[v]
    BY <1>1, <2>1
  <2>3. SumFunctionOnSet(OwedOf', Workers) = all - OwedOf[w] + OwedOf'[w]
    BY <1>2, <2>1, <2>2, SumChange
  <2> QED BY <1>1, <2>2, <2>3
<1>4. all \in Int
  BY <1>2, OwedType, SumRec
<1>5. /\ 2 * sent' + 2 * to + 3 * tokens' <= 2 * sent + 2 * from + 3 * tokens
      /\ tokens' \in 0..MaxOrdersPerMin /\ sent' \in Nat
  BY BodyMoves, CrossAssumption DEF Owed, PaidInv
<1>6. 2 * sent + 2 * all + 3 * tokens <= 3 * granted
  BY DEF PaidInv
<1>7. /\ tokens \in Nat /\ granted \in Nat /\ sent \in Nat
      /\ tokens' \in Nat /\ granted' = granted /\ scans' = scans /\ scans \in 1..Scans
  BY <1>1, <1>5, CrossAssumption DEF PaidInv
<1> HIDE DEF from, to, all
<1>a. PICK s1 \in Nat, t1 \in Nat : s1 = sent' /\ t1 = tokens'
  BY <1>5, <1>7
<1>b. 2 * s1 + 2 * to + 3 * t1 <= 2 * sent + 2 * from + 3 * tokens
  BY <1>5, <1>a
<1>8. 2 * s1 + 2 * (all - from + to) + 3 * t1 <= 3 * granted
  BY <1>1, <1>4, <1>6, <1>7, <1>b, LedgerStep
<1>9. 2 * sent' + 2 * SumFunctionOnSet(OwedOf', Workers) + 3 * tokens' <= 3 * granted'
  BY <1>3, <1>7, <1>8, <1>a
<1> QED BY <1>5, <1>7, <1>9 DEF PaidInv

(* Between two scans nothing is owed more, and what is added to the bucket *)
(* is counted as granted (engine.go:308-316).                              *)
LEMMA ScanPays ==
  ASSUME CrossInv, PaidInv, NextScan \/ Rest PROVE PaidInv'
<1>1. OwedOf' = OwedOf /\ sent' = sent
  BY DEF OwedOf, NextScan, Rest, allVars, crossVars
<1>2. SumFunctionOnSet(OwedOf, Workers) \in Int
  BY CrossAssumption, OwedType, SumRec
<1>3. CASE NextScan
  <2>1. tokens' \in 0..MaxOrdersPerMin /\ scans' \in 1..Scans
    BY <1>3, CrossAssumption DEF NextScan, PaidInv
  <2>8. tokens' >= tokens /\ granted' = granted + (tokens' - tokens)
    BY <1>3, CrossAssumption DEF NextScan, PaidInv
  <2>2. SumFunctionOnSet(OwedOf', Workers) = SumFunctionOnSet(OwedOf, Workers)
    BY <1>1
  <2>3. tokens \in Nat /\ tokens' \in Nat /\ granted \in Nat /\ sent \in Nat
    BY <2>1, CrossAssumption DEF PaidInv
  <2> DEFINE all == SumFunctionOnSet(OwedOf, Workers)
  <2>5. all \in Int /\ 2 * sent + 2 * all + 3 * tokens <= 3 * granted
    BY <1>2 DEF PaidInv
  <2> HIDE DEF all
  <2>9. PICK t1 \in Nat : t1 = tokens'
    BY <2>3
  <2>6. 2 * sent + 2 * all + 3 * t1 <= 3 * (granted + (t1 - tokens))
    BY <2>3, <2>5, LedgerTick
  <2>7. granted' \in Nat
    <3>1. t1 >= tokens /\ granted' = granted + (t1 - tokens)
      BY <2>8, <2>9
    <3>2. tokens \in Nat /\ granted \in Nat
      BY <2>3
    <3> QED BY <3>1, <3>2
  <2>4. 2 * sent' + 2 * SumFunctionOnSet(OwedOf', Workers) + 3 * tokens' <= 3 * granted'
    BY <1>1, <2>2, <2>6, <2>8, <2>9 DEF all
  <2> QED BY <1>1, <2>1, <2>3, <2>4, <2>7 DEF PaidInv
<1>4. CASE Rest
  BY <1>1, <1>4 DEF PaidInv, Rest, allVars, crossVars
<1> QED BY <1>3, <1>4

(* The bucket begins with all its tokens and nothing owed (engine.go:62).  *)
LEMMA PaidInit == CrossInit => PaidInv
<1> SUFFICES ASSUME CrossInit PROVE PaidInv
  OBVIOUS
<1>1. OwedOf \in [Workers -> Int] /\ \A w \in Workers : OwedOf[w] <= 0
  BY DEF CrossInit, OwedOf, Owed, Ready, Job
<1>2. SumFunctionOnSet(OwedOf, Workers) <= 0 * Cardinality(Workers)
  BY <1>1, CrossAssumption, SumAtMost
<1>3. Cardinality(Workers) \in Nat /\ SumFunctionOnSet(OwedOf, Workers) \in Int
  BY <1>1, CrossAssumption, FS_CardinalityType, SumRec
<1> QED BY <1>2, <1>3, CrossAssumption DEF CrossInit, PaidInv

(* The tokens and the orders of all bodies together, in every state.       *)
THEOREM PaidInvHolds == CrossSpec => []PaidInv
<1>1. CrossInv /\ CrossInv' /\ PaidInv /\ [CrossNext]_allVars => PaidInv'
  <2> SUFFICES ASSUME CrossInv, CrossInv', PaidInv, [CrossNext]_allVars PROVE PaidInv'
    OBVIOUS
  <2>1. ASSUME NEW w \in Workers, BodyStep(w) PROVE PaidInv'
    BY <2>1, BodyPays
  <2>2. CASE UNCHANGED allVars
    BY <2>2 DEF PaidInv, OwedOf, allVars, crossVars
  <2> QED BY <2>1, <2>2, ScanPays DEF CrossNext, BodyStep
<1> QED BY <1>1, PaidInit, CrossInvHolds, PTL DEF CrossSpec

(* However many bodies run, and whatever the exchanges answer: three       *)
(* orders for every two tokens the bucket was given (cross.go:82-86).      *)
THEOREM OrdersAreBoundedHolds == CrossSpec => []OrdersAreBounded
<1>1. PaidInv => OrdersAreBounded
  <2>1. IsFiniteSet(Workers) /\ Workers \in SUBSET Workers
    BY CrossAssumption
  <2>2. SumFunctionOnSet(OwedOf, Workers) \in Nat
    BY <2>1, OwedType, SumNat
  <2> QED BY <2>2 DEF PaidInv, OrdersAreBounded
<1> QED BY <1>1, PaidInvHolds, PTL

(* The bodies, the bucket and the engine keep their types; the tokens stay *)
(* within the capacity of the bucket (cross.go:82-86, engine.go:308-316).  *)
THEOREM CrossTypeCorrect == CrossSpec => []CrossTypeOK
<1>1. CrossInv /\ StopInv /\ PaidInv => CrossTypeOK
  <2> SUFFICES ASSUME CrossInv, StopInv, PaidInv PROVE CrossTypeOK
    OBVIOUS
  <2>1. TypeOK
    BY DEF StopInv
  <2>2. \A w \in Workers : job[w].pc \in PCs /\ {job[w].qty, job[w].filled, job[w].bought} \subseteq Nat
    BY DEF CrossInv, Jobs
  <2>3. net \in [Workers -> [Exchanges -> Int]]
    BY DEF CrossInv, Nets
  <2> QED BY <2>1, <2>2, <2>3 DEF PaidInv, CrossTypeOK
<1> QED BY <1>1, EngineInCross, PaidInvHolds, PTL
=============================================================================
