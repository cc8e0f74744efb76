----------------------------- MODULE CrossExec -----------------------------
(***************************************************************************)
(* tryExecuteCross (internal/arbitrage/cross.go:80-177), run by the bodies *)
(* of the pool of module CrossScan: buy on one exchange, sell what was     *)
(* bought on another.  The bodies share the order tokens (under e.mu) and  *)
(* the risk engine; every call that leaves the goroutine is one action.    *)
(* Between two scans the loop of Run adds tokens.  Quantities are counted  *)
(* in dollars: prices decide only whether an attempt begins.               *)
(***************************************************************************)
EXTENDS RiskEngine, SpotAdapters
LOCAL INSTANCE FiniteSetsExt

CONSTANTS
  Workers,          \* bodies that run at a time, 6 in the code
  Sizes,            \* quantities the sizing may come to
  FeesBps,          \* Trading.FeesBps of each exchange
  SlippageBps, RiskReserveBps, MinNetBps,
  MaxOrdersPerMin,  \* capacity of the token bucket
  TokensPerTick,    \* what a tick of one second adds: MaxOrdersPerMin / 60
  Scans             \* bound of the model on scans

ASSUME CrossAssumption ==
  /\ Workers # {} /\ IsFiniteSet(Workers) /\ Exchanges # {} /\ Sizes \subseteq Nat
  /\ Exchanges \subseteq {"bybit", "okx", "mexc", "binance"}
  /\ FeesBps \in [Exchanges -> Nat]
  /\ {SlippageBps, RiskReserveBps} \subseteq Nat /\ MinNetBps \in Int
  /\ {MaxOrdersPerMin, TokensPerTick} \subseteq Nat /\ Scans \in Nat \ {0}

VARIABLES
  job,      \* per body: the locals of its tryExecuteCross; see Job
  net,      \* per body and exchange: what its attempt really bought (sold: negative)
  tokens,   \* e.tokens
  scans,    \* scans begun
  granted,  \* history: tokens the bucket began with and was given since
  sent      \* history: calls of PlaceOrder

crossVars == <<job, net, tokens, scans, granted, sent>>
allVars   == <<vars, crossVars>>

PCs == {"ready", "risk", "buy", "query", "sell", "unwind", "pnl", "done"}

(* Only properties read bought, what the buy really filled; blind, that no *)
(* query told of a fill; unseen, that the sell executed although an error  *)
(* came back; closed, that the unwind order filled; and result.            *)
Job(symbol, buy, sell, qty) ==
  [pc |-> "risk", symbol |-> symbol, buy |-> buy, sell |-> sell, qty |-> qty,
   filled |-> 0, bought |-> 0, blind |-> FALSE, unseen |-> FALSE, closed |-> FALSE,
   result |-> "none"]

CrossTypeOK ==
  /\ TypeOK
  /\ \A w \in Workers : job[w].pc \in PCs /\ {job[w].qty, job[w].filled, job[w].bought} \subseteq Nat
  /\ net \in [Workers -> [Exchanges -> Int]]
  /\ tokens \in 0..MaxOrdersPerMin
  /\ scans \in 1..Scans /\ granted \in Nat /\ sent \in Nat

Ready == [Job(CHOOSE s \in Pairs : TRUE, CHOOSE x \in Exchanges : TRUE,
              CHOOSE x \in Exchanges : TRUE, 0) EXCEPT !.pc = "ready"]

CrossInit ==
  /\ Init
  /\ job = [w \in Workers |-> Ready]
  /\ net = [w \in Workers |-> [x \in Exchanges |-> 0]]
  /\ tokens = MaxOrdersPerMin /\ granted = MaxOrdersPerMin
  /\ scans = 1 /\ sent = 0

At(w, pc) == job[w].pc = pc
Idle(w) == job[w].pc \in {"ready", "done"}
Become(w, j) == job' = [job EXCEPT ![w] = j]
Return(w, j, result) == Become(w, [j EXCEPT !.pc = "done", !.result = result])

(* An order of worker w was sent to an exchange and did this there.        *)
Executed(w, exchange, signedQty) ==
  /\ net' = [net EXCEPT ![w][exchange] = @ + signedQty]
  /\ sent' = sent + 1

-----------------------------------------------------------------------------
(* The body of a job: two tickers that come without an error, and a net of *)
(* fees, slippage and reserve that reaches the threshold.                  *)
Profitable(buy, sell, ask, bid) ==
  LET costs == FeesBps[buy] + FeesBps[sell] + SlippageBps + RiskReserveBps
  IN ask > 0 /\ bid > 0 /\ (bid - ask) * 10000 >= (costs + MinNetBps) * ask

Found(buy, sell) ==
  \E rb, rs \in Replies("no_info"), qb, qs \in Quotes :
    LET tb == GetTicker(buy, rb, qb)
        ts == GetTicker(sell, rs, qs)
    IN ~tb.err /\ ~ts.err /\ Profitable(buy, sell, tb.val.ask, ts.val.bid)

(* The larger of the two exchanges' minimum quantities; a filter query     *)
(* without an answer counts as none.                                       *)
MinQtys(buy, sell) ==
  {Max({GetMinQty(buy, rb), GetMinQty(sell, rs)}) : rb, rs \in Replies("no_info")}

(* mutant: the tokens of the attempt are not paid for the sell *)
TakeOne(w) ==
  /\ Idle(w) /\ tokens >= 2
  /\ tokens' = tokens - 1
  /\ \E symbol \in Pairs, buy \in Exchanges, sell \in Exchanges, qty \in Sizes :
       /\ buy # sell /\ Found(buy, sell) /\ qty > 0
       /\ Become(w, Job(symbol, buy, sell, qty))
  /\ net' = [net EXCEPT ![w] = [x \in Exchanges |-> 0]]
  /\ UNCHANGED <<vars, scans, granted, sent>>

(* Two tokens and an order above the minimum.  A body that finds no        *)
(* opportunity, or too few tokens, returns and changes nothing; the next   *)
(* job of the scan then has its slot.                                      *)
Take(w) ==
  /\ Idle(w) /\ tokens >= 2
  /\ tokens' = tokens - 2
  /\ \E symbol \in Pairs, buy \in Exchanges, sell \in Exchanges, qty \in Sizes :
       /\ buy # sell /\ Found(buy, sell)
       /\ \E minQty \in MinQtys(buy, sell) :
            LET j == Job(symbol, buy, sell, qty)
            IN IF qty = 0 \/ qty < minQty THEN Return(w, j, "small") ELSE Become(w, j)
  /\ net' = [net EXCEPT ![w] = [x \in Exchanges |-> 0]]
  /\ UNCHANGED <<vars, scans, granted, sent>>

(* Only the buy is checked, and by its value on the buying exchange.       *)
Risk(w) ==
  LET j == job[w]
  IN /\ At(w, "risk")
     /\ Allow([symbol |-> j.symbol, exchange |-> j.buy, value |-> j.qty])
     /\ IF ~reply'.ok THEN Return(w, j, "blocked")
        ELSE Become(w, [j EXCEPT !.pc = "buy", !.qty = IF reply'.value > 0 THEN reply'.value ELSE @])
     /\ UNCHANGED <<net, tokens, scans, granted, sent>>

BuyOrder(w) ==
  LET j == job[w]
  IN /\ At(w, "buy")
     /\ \E o \in PlaceOrder(j.buy, j.qty) :
          /\ Executed(w, j.buy, o.fill)
          /\ IF o.ok THEN Become(w, [j EXCEPT !.pc = "query", !.bought = o.fill])
             ELSE Return(w, j, "rejectedBuy")
     /\ UNCHANGED <<vars, tokens, scans, granted>>

(* mutant: the answers about the fill are asked for and not used *)
QueryUnused(w) ==
  /\ At(w, "query")
  /\ Become(w, [job[w] EXCEPT !.pc = "sell", !.filled = job[w].qty])
  /\ UNCHANGED <<vars, net, tokens, scans, granted, sent>>

(* Fill and status query.  A status other than the two words of Bybit,     *)
(* that of a refusal included, ends the attempt; an error of either query, *)
(* and a fill of zero, leave filled as it was, qty at first: a buy that    *)
(* filled nothing is taken for one that filled whole when the status query *)
(* fails.                                                                  *)
Query(w) ==
  LET j == job[w]
  IN /\ At(w, "query")
     /\ \E info \in Replies("no_info"), status \in Replies("no_status") :
        \E good \in GoodWord(j.buy, status, j.bought, j.qty) :
          LET byInfo   == GetOrder(j.buy, info, j.bought)
              byStatus == GetOrder(j.buy, status, j.bought)
              told     == IF byStatus.val > 0 THEN byStatus.val ELSE byInfo.val
              k == [j EXCEPT !.filled = IF told = 0 THEN j.qty ELSE told, !.blind = told = 0]
          IN IF ~byStatus.err /\ ~good THEN Return(w, k, "unfilled")
             ELSE Become(w, [k EXCEPT !.pc = "sell"])
     /\ UNCHANGED <<vars, net, tokens, scans, granted, sent>>

(* Nobody asks how much of the sell was filled.                            *)
SellOrder(w) ==
  LET j == job[w]
  IN /\ At(w, "sell")
     /\ \E o \in PlaceOrder(j.sell, j.filled) :
          /\ Executed(w, j.sell, -o.fill)
          /\ Become(w, [j EXCEPT !.pc = IF o.ok THEN "pnl" ELSE "unwind",
                                 !.unseen = ~o.ok /\ o.fill > 0])
     /\ UNCHANGED <<vars, tokens, scans, granted>>

(* mutant: the unwind buys again *)
UnwindBuys(w) ==
  LET j == job[w]
  IN /\ At(w, "unwind")
     /\ \E o \in PlaceOrder(j.buy, j.filled) :
          /\ Executed(w, j.buy, o.fill)
          /\ Return(w, [j EXCEPT !.closed = o.fill = j.filled], "rejectedSell")
     /\ UNCHANGED <<vars, tokens, scans, granted>>

(* unwindPair: an order whose outcome nobody looks at.                     *)
Unwind(w) ==
  LET j == job[w]
  IN /\ At(w, "unwind")
     /\ \E o \in PlaceOrder(j.buy, j.filled) :
          /\ Executed(w, j.buy, -o.fill)
          /\ Return(w, [j EXCEPT !.closed = o.fill = j.filled], "rejectedSell")
     /\ UNCHANGED <<vars, tokens, scans, granted>>

(* The result is booked; no position ever is.                              *)
BookPnL(w) ==
  /\ At(w, "pnl")
  /\ \E r \in RealizedUSD : UpdatePnL(r, 0)
  /\ Return(w, job[w], "success")
  /\ UNCHANGED <<net, tokens, scans, granted, sent>>

(* The scan returns when no body is left (module CrossScan); the next tick *)
(* adds tokens, up to the capacity of the bucket.                          *)
NextScan ==
  /\ (\A w \in Workers : Idle(w)) /\ scans < Scans
  /\ scans' = scans + 1
  /\ tokens' = IF tokens + TokensPerTick < MaxOrdersPerMin THEN tokens + TokensPerTick
               ELSE MaxOrdersPerMin
  /\ granted' = granted + (tokens' - tokens)
  /\ UNCHANGED <<vars, job, net, sent>>

(* The bound on scans is reached.                                          *)
Rest == /\ scans = Scans /\ (\A w \in Workers : Idle(w))
        /\ UNCHANGED allVars

CrossNext ==
  \/ \E w \in Workers : \/ Take(w) \/ Risk(w) \/ BuyOrder(w) \/ Query(w) \/ SellOrder(w)
                        \/ Unwind(w) \/ BookPnL(w)
  \/ NextScan \/ Rest

CrossSpec == CrossInit /\ [][CrossNext]_allVars

-----------------------------------------------------------------------------
(* Properties                                                              *)

NetOf(w) == net[w][job[w].buy] + net[w][job[w].sell]

(* What an attempt may sell and does not have: the rest of a buy of whose  *)
(* fill no query told, and a sell that executed behind an error.           *)
Unbought(j) == IF j.blind THEN j.qty - j.bought ELSE 0
SoldUnseen(j) == IF j.unseen THEN j.filled ELSE 0

(* Whatever the exchanges fill, refuse, lose or leave unanswered: on the   *)
(* two exchanges taken together, the unwind included, an attempt is never  *)
(* short of more than these two (cross.go:142-156 and 163-166).            *)
NeverShort == \A w \in Workers : NetOf(w) >= -Unbought(job[w]) - SoldUnseen(job[w])

(* A sell that is refused, once its unwind has filled, leaves each of the  *)
(* two exchanges short of its part of them and nothing anywhere else: the  *)
(* unwind goes to the exchange of the buy and for the quantity that was    *)
(* offered for sale (cross.go:162-166).                                    *)
RejectedSellIsFlat ==
  \A w \in Workers :
    LET j == job[w]
    IN At(w, "done") /\ j.result = "rejectedSell" /\ j.closed =>
         /\ net[w][j.buy] = -Unbought(j) /\ net[w][j.sell] = -SoldUnseen(j)
         /\ \A x \in Exchanges \ {j.buy, j.sell} : net[w][x] = 0

(* The bucket bounds the orders of all bodies together: two tokens pay for *)
(* a buy, a sell and at most one unwind (cross.go:82-86, 138, 158, 164).   *)
OrdersAreBounded == 2 * sent <= 3 * granted

-----------------------------------------------------------------------------
(* What a comment says and the code does not do                            *)

(* engine.go:460 "buy on one exchange, sell on another": an attempt that   *)
(* has bought goes on to sell, on the other exchange or by the unwind.     *)
BuyIsFollowedBySell ==
  \A w \in Workers :
    At(w, "done") /\ net[w][job[w].buy] > 0 => job[w].result \in {"success", "rejectedSell"}
=============================================================================
