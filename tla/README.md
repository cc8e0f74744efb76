# Verification of arbitr

arbitr is a Go program that looks for price differences on spot exchanges and trades
them: cycles of three pairs on Bybit ("triangles"), and a buy on one exchange with a sell
on another ("cross").  This directory holds TLA+ models of its trading core, the TLC
configurations that check them and the proofs that TLAPS checks.

## 1. The system

| Part | Source | State it keeps | Operations |
| --- | --- | --- | --- |
| Risk engine | `internal/risk/risk.go` | positions per asset and exchange, the day's result, the history for VaR, the soft and the hard stop, day of the last reset | `Allow`, `UpdatePosition`, `UpdatePnL`, `UpdatePortfolioValue`, getters |
| Scan loop | `internal/arbitrage/engine.go` `Run` | `e.mu`, `e.tokens`, the per-tick channel `sem` and wait group, bans and counters per triangle, `stopped` | startup, ticker loop, one goroutine per triangle |
| Triangle execution | `internal/arbitrage/live.go` | locals of `executeTriangle`; slots in `e.execSem` | three orders in turn, fill and status queries, unwind, booking |
| Cross scan | `internal/arbitrage/cross.go` | channels `sem`, `done` | one goroutine per (pair, buyer, seller) |
| Cross execution | `internal/arbitrage/cross.go` `tryExecuteCross` | tokens (shared) | buy, queries, sell, unwind, booking |
| Triangle statistics | `engine.go` 466-573 | success ratio, average, bans | `updateTriStats`, `dynamicMinNetBps`, `dynamicSizeFactor` |
| Evaluation | `internal/strategy`, `internal/slippage` | none | net return of a cycle, price of a quantity in a book |
| Bybit adapter | `internal/exchange/bybit` | ticker and book caches with the time of the last update, filters | REST orders and queries; `SubscribeSymbols`: per connection a reader goroutine, one supervisor that reconnects |
| OKX, MEXC, Binance adapters | `internal/exchange/*` | none | REST orders and queries |
| Configuration | `internal/config` | settings | defaults, file, environment |
| Process | `cmd/arbitrage/main.go`, `infra/runner`, `infra/health` | readiness | start, signal handling, shutdown |

How they interact: `main` starts one worker that builds the adapters and calls
`Engine.Run`.  Every second `Run` refills the order tokens under `e.mu`, looks at all
triangles with up to 8 goroutines, waits for them, and then calls `scanCrossTick`, which
runs up to 6 bodies of its own.  Executions of both kinds call the adapters (each call has
a deadline; tickers and books come from the caches the Bybit readers fill), ask `Allow`
before an order and report results to the risk engine, which has a mutex of its own.
Nothing is persisted: a restart begins with empty positions, no stop and no record of a
triangle, so a crash is in the models what the end of the process is (`Process`), and what
a restarted process does is another behaviour of the same specification.

What is hard here: goroutines that spend common tokens and limits between their own calls;
orders that fill in part, are refused, or whose answer is lost; the unwind after such a
leg; four adapters that return different replies as errors; the daily stops with their
lazy reset; statistics that are read without their lock; settings of four layers; caches that several readers fill, and that are
read long after; and the waiting of the loop on locks, slots and goroutines.  `PROJECT.json` lists each hazard at its line.

### What makes each part correct

* Risk engine: a stop lasts for its day and no longer; a reduction stays; limits are per
  base asset; VaR covers the losses it names.
* Triangle execution: the books agree with the fills; an unwind undoes what was filled and
  nothing else; a cycle returns to the asset it began with; the limit of an asset is passed
  by no more than legs in flight; at most one leg is late after a stop.
* Cross execution: no more sold than bought but what no answer told of; a buy is followed by a sell or an unwind;
  the orders of all bodies stay within what the tokens pay for.
* Market data: no crossed book is quoted; a stale feed reconnects; a subscription that is
  over stops writing.
* Pools and loop: bounded, no deadlock, every scan ends, nothing of one scan runs into the
  next, and the two kinds of scan take turns.
* Attempts: only what the books can fill is found; only what is allowed is attempted; a stop
  that was seen is kept; a bad triangle is banned; a size factor stays in its range.
* Configuration: what the topmost layer says is in force.
* Process: a signal ends it; what is scanned is listed and fed, or the fallback is in force.

## 2. Modules

| Module | Models | Uses |
| --- | --- | --- |
| `Symbols` | the two ways the program takes a pair apart | |
| `RiskEngine` | `risk.go`, one action per method (each holds the mutex throughout) | `Symbols` |
| `Sums` | facts about sums over finite sets and about recursion, for the proofs | |
| `RiskEngineProofs` | proofs about `RiskEngine` | `RiskEngine`, `Sums` |
| `SpotExchange` | what an exchange may do with an order, and the replies to Bybit's order calls | |
| `SpotAdapters` | the four adapters side by side: what each makes of a reply | `SpotExchange` |
| `TriangleExec`, `TriangleExecProofs` | `executeTriangle`, `unwindPair`, several workers, with the risk engine | `RiskEngine`, `SpotExchange` |
| `CrossExec`, `CrossExecProofs` | a job of the cross scan from its tickers on: several bodies, tokens, with the risk engine | `RiskEngine`, `SpotAdapters` |
| `ScanPromise` | abstract: what a scan promises the loop | |
| `CrossScan`, `CrossScanProofs` | the pool of `scanCrossTick`, and proofs | `ScanPromise` |
| `TickLoop` | the loop of `Run`: mutex, slots, wait group | |
| `RunLoop`, `RunLoopProofs` | one worker: the loop and the cross scan it calls, and proofs about the loop and the worker | `TickLoop`, `CrossScan` |
| `Settings` | `config.Load`: layers and rules | |
| `Evaluation` | `internal/strategy`, `internal/slippage` and the choice of a direction | |
| `Attempt` | the goroutine of a triangle from its prices to its end, statistics, bans | `Evaluation`, `Settings` |
| `Process`, `ProcessProofs` | `main`, the startup of the worker and its ticks; proofs about these, `Attempt` and `Evaluation` | `Attempt`, `Sums` |
| `BybitFeed`, `BybitFeedProofs` | `SubscribeSymbols`, its readers and supervisor, the caches, `GetTicker`, `GetOrderbookL2`, and proofs | |
| `MC*` | inputs for TLC | the module named |

Definitions marked "mutant" are faulty forms of the definition after them.  No
specification uses them; each shows that a property would notice the fault.

### RiskEngine

State is that of `risk.Engine`; `positions` is a total function in which the zero record
stands for an absent entry (which is what the code deletes).  `dailyPnL` is an integer;
`pnlNonFinite` says that it has become +Inf or NaN, after which no comparison with it
holds.  The clock is the UTC day (`today`), advanced by `NextDay`.  `Allow` is one action
in the order of the code: reset, hard stop, size, loss limits, exposures.  Three history
variables (`lossDay`, `hardDay`, `softDay`) record what the properties
compare with; no guard reads them.  Order values are multiples of 10 so that 30% is exact.
`Allow` returns quantity and value scaled alike, so the reply holds the value only.

### TriangleExec

`job[w]` holds the locals of one `executeTriangle`; every call that leaves the goroutine
is one action (`Risk1`, `Place1`, `Query1`, ... `BookPnL`, three `BookLeg`), so workers
interleave exactly at the calls.  `net[w]` is what the exchange really did.  A fill query
and the status query that follows it are one action because nothing shared changes between
them.

Prices differ from pair to pair and do not move.  A quantity is in the base of the pair it
was computed for, and the code's four uses of it are kept apart: `Request` asks `Allow`
about quantity times price, which is in the leg's quote currency and taken for USD;
`BookLeg` books `LegUSD`, where the quote is converted with `UsdPrice`; `Query1` and
`Query2` take the number of units one leg filled for the quantity of the next, whatever its
base; `Flow` is what an execution did to one asset.  Money is in USD / `PriceUnit`.  A
minimum quantity, one for all pairs, stands for minimum notionals too.  `PlaceOutcomes` and the other operators of `SpotExchange` say what an exchange
may do; each run chooses its `Faults`.  A fill of half the quantity stands for every
partial fill.

### CrossExec

The same style: `Take` (tokens, sizing, minimums), `Risk`, `BuyOrder`, `Query`,
`SellOrder`, `Unwind`, `BookPnL`, and `NextScan` for the refill of the loop, which happens
only when no body runs (`NoJobOutlivesScan` of `CrossScan`).  `Take` begins an attempt when
two tickers, as their adapters return them, leave more than fees, slippage, reserve and
threshold (`Profitable`).  Both orders are for one pair, so quantities are counted in dollars.
Three fields of a job are read by properties only: `bought` is what the buy really filled,
`blind` that no query told of a fill (a fill of 0 that is reported counts as none, as in
`cross.go:143`), `unseen` that the sell executed behind an error.  Not modelled: an average price of 0 in a fill answer, with which
the unwind would send nothing.

### SpotAdapters

One operator per adapter and call.  A reply is an answer, a refusal (a body with an error
status or code) or silence; `Checked` adapters return the second as an error, `Unchecked`
ones (Binance's ticker, the order queries of MEXC and Binance) read its missing fields as
zero and the empty word.  Status words are Bybit's own only from Bybit: it says Filled, OKX
filled, MEXC and Binance FILLED, and the adapters hand them on (`GoodWord`).

### CrossScan, TickLoop and RunLoop

Channels are counters, an unbuffered send meets its receive in one action.  In `TickLoop`
every `Lock` and `Unlock` of `e.mu` is an action at a named site, the same operator for
all of them, because a Go mutex is not reentrant: `Lock` waits until the mutex is free, for
its holder too.  `RunLoop` puts the two together: a step of the scan happens only while the
loop stands at its call, and `CrossCall` is the return to the loop, after which new channels
are made.  `ScanPromise` knows neither channels nor goroutines: jobs start, at most so many
at a time, finish, and the call returns after the last.  `Pool` in `CrossScan` is the
mapping (a job is finished when its slot is given back) and `KeepsPromise` the refinement.

### Settings, Evaluation, Attempt and Process

`Settings` takes a deployment (what the file, `.env` and the environment say) to the value
of every setting; a text is reduced to what the rules look at: is there one, which number
does it begin with, is that number all of it, which parts does a comma leave.  The three
amounts of money go through `decimal.NewFromString`, which refuses `12abc`; all other numbers
through `fmt.Sscan`, which reads 12.  `Evaluation` computes in thousandths
of a price and hundredths of a basis point, rounding down.  TLC's integers have 32 bits, so
the 1e9 bps of a book that is too thin (`Thin`) and the prices of the default triangle in
`MCProcess` are scaled down together: the forward product, 1e11 bps at market prices of BTC
and ETH, is 3e4 here, and `Thin` 1e5 for 1e9, which is to the disadvantage of the thin book's
being found: the code's gain is 700 times the cost that should outweigh it, the model's twice.

In `Attempt`, `lane[l]` is the goroutine of the l-th triangle of this tick, one action per
section of `e.mu`, per attempt at a channel and per read without a lock.  `stats[t]` keeps
every `triStat` object a triangle has had, because a goroutine may still read one that a
ban has replaced; the map holds the last.  `executeTriangle` succeeds or fails and may set
or, on a new day, lift the hard stop: what it does is module `TriangleExec`.

As the code stands no goroutine reaches the lines of `Attempt` behind 377 (`NothingIsFound`
of `RunLoop`): `dynamicMinNetBps` takes the lock its caller holds.  `Attempt` reads the
statistics in the caller's section, which is what these lines do once the second lock is gone.

`Process` has `main` line by line, the signal (which before `signal.Notify` ends the process
at once), requests in hand when the server is shut down, and the worker: `Startup` chooses
the triangles, `Tick` and `scanCrossTick` alternate, the latter reduced to what it shares
with the rest (tokens, the hard stop, that an order was sent).  The server's goroutine is no
variable: `main` learns nothing of it, not even that it cannot listen.

### BybitFeed

The caller of `SubscribeSymbols` (`Dial`, `StartSupervisor`, then `CancelS`, which is the
engine's), the supervisor (`SuperCheck` to `SuperWake`) and one reader per connection.  A
reader takes a message, decides what to write (`Read`, and `Rebuild` for a crossed book)
and writes it (`Store`) in separate steps, because it holds no lock in between.  A ticker
or a book is its shape: good, crossed, or without one side, which also stands for no entry.
`recent` says that `lastWS` is at most 5 s old; a pong renews it too.  The caches are total
functions.  A snapshot from REST is a choice that the exchange makes, a crossed one
included; `failed` remembers that one failed or was crossed.  A dial of a context that is
done fails, as `DialContext` does.

## 3. Runs

Passing runs (each cfg has the run's name):

| Run | Module | Question | Shows |
| --- | --- | --- | --- |
| `RiskStops` | `MCRiskEngine` | do stops, reduction and VaR do what they are for? | type; the hard stop lasts for its day and is never left over from another; the reduction stays; the percentile covers its losses |
| `TriExec` | `MCTriangleExec` | what may executions leave, do the books agree with the fills, and how far may two pass the limits? | type; at most one leg order of a worker goes out after the hard stop; the unwind after a refused second leg leaves the first flat exactly when it had filled whole, and undoes too much otherwise; the inventory limit is passed by legs in flight only, although legs are checked in one currency and booked in another; the risk engine's quantities are those of the successful executions |
| `CrossHedge` | `MCCrossExec` | what may cross attempts leave, and how many orders do they send? | type; an attempt is short of no more than what it sold unbought, because no query told of a fill, or unseen, behind an error; a refused sell with a filled unwind leaves exactly that, on each exchange; at most three orders for two tokens, between any two of the four exchanges |
| `BybitFeed` | `BybitFeed` | what may the caches hold, and what goes on after the subscription? | type; while snapshots are sane, the books add no crossed quote with two connections, and with a single one a crossed book never replaces a good one; each connection writes at most once more; the supervisor ends |
| `RunLoop` | `MCRunLoop` | who waits for whom in one worker? | both pools bounded and free of deadlock among themselves; the two scans take turns; without prices every tick reaches its cross scan and a cancelled loop ends; every cross scan returns; with prices no goroutine passes its second `Lock`; the pool implements `ScanPromise` |
| `Process` | `MCProcess` | what is attempted, with which settings, and how does it end? | slots are never exceeded; only allowed triangles are executed; a stop that was seen stays; a size factor is in its range whatever is written between two reads; no bad record survives; scanned triangles are listed and fed; a signal ends the process |

Runs that end in a violation are the findings of `PROJECT.json`: each states a sentence of
a comment or a document and shows an execution of the code that contradicts it.

| Run | Sentence | What the execution shows |
| --- | --- | --- |
| `TriBothLegs` | live.go:360 "Unwind second then first" | the second leg is "unwound" on its own side, which doubles it |
| `TriCloses` | live.go:424 "buy C with A (CA), sell C->B (BC), buy A with B (AB)" | the units the second leg sold, of ETH, are taken for the quantity of the third, of BTC: 40 ETH bring 80 USDT, and 40 BTC are bought for 800, so the cycle does not close although every order fills |
| `CrossNaked` | engine.go:460 "buy on one exchange, sell on another" | a filled buy with another exchange's status word is followed by nothing |
| `TickContinuous` | engine.go:443 (we trade continuously) | the first triangle with prices stops the loop |
| `FeedStale` | adapter.go:641 "if no WS updates for 5s, reconnect" | the engine cancels the subscription's context when the call returns, the supervisor ends, and nothing reconnects |
| `ThinBook` | slippage.go:45 "effectively reject" | with pairs such as BTCUSDT, ETHUSDT and ETHBTC, which are no cycle forward, the product of the three bids outweighs the 1e9 bps of a book too thin, and the direction is taken on |

`TickContinuous` deserves a word: as the code stands, the first triangle whose three
tickers are answered locks `e.mu` twice and stops the loop.  So from `Run` the code behind
line 377, and with it `executeTriangle`, is not reached, and the cross scan runs only in
ticks in which no triangle gets that far.  `TriangleExec` models `executeTriangle`,
and `Attempt` its caller, as written, for the code after a repair.

### Disagreements met while modelling, without a run

The models contain these behaviours; no property states the sentence they contradict.

* risk.go:82 "Soft stop check - reduce size": the flag is set at 95-97, after the size was
  chosen at 83-88, so the first order past the limit goes out in full.
* risk.go:158 "Remove zero positions": a position with quantity zero and another value,
  left by a buy and a sell at different prices, stays and counts in every exposure.
* risk.go:254 "Extract base asset": `extractAsset` knows the quotes USDT, BTC and ETH only;
  a pair with another quote, such as XRPSOL of the default triangles (config.go:133), is
  looked up under its whole name, while live.go books it under its base asset.
* risk.go:237 "take 1st percentile (99% VaR)": `math.Abs` (250) makes a gain a loss.
* live.go:283 "approximate as same qty": under the soft stop each `Allow` reduces again, so
  legs are 30%, 9% and 2.7% of the size.
* live.go:314 "Unwind first leg": with the quantity ordered, not the one filled; an order of
  which half filled is over-undone by the other half (`RejectedSecondLegIsFlat` says so).
* live.go:223, 295 and 358: `ValueUSD` is quantity times price, so for ETHBTC the limits see
  BTC for USD; live.go:437-474 books the converted value, so a leg that passed as 4 may be
  booked as 80.  `OvershootIsBounded` says what the limit is worth then.
* cross.go:143 takes a reported fill over only when it is more than 0.  A buy that filled
  nothing, and whose status query fails, is therefore followed by a sell of the whole
  quantity, and if that is refused by an unwind that sells it on the other side.
  `NeverShort` and `RejectedSellIsFlat` count this quantity (`Unbought`).
* README.md:27 "Environment overrides (take precedence over file)" and README.md:34
  "ARBITR_TRADING_LIVE (true/false)": config.go:172 only switches on, so false leaves what the
  default or the file says; and the cross scan does not read the setting at all.
* live.go:415 "exact cycle return": a missing average price is 0, and the reverse
  direction divides by it (426-428), so +Inf or NaN is booked and disables the loss limits
  until the next reset.
* triangular.go:8 "you sell the base asset at each leg": with the default triangles
  (config.go:116-135, BC is quoted in USDT like AB) the forward direction is no cycle.
* TRADING_SETUP.md:51 (automatic unwind on partial execution): the returns at live.go:278,
  289, 292 and 297 leave a partly filled first leg without an unwind order, and what a
  partial cross sell leaves is kept (cross.go:160-172).
* SAFE_TRADING_300.md:25 (at most 100 orders a minute): the bucket starts full and is
  refilled during the same minute, and an attempt with an unwind sends three orders for two tokens.
* risk.go:18 "hard daily stop loss": the reset runs in `Allow` only (70-76), so a loss booked
  between midnight and the day's first `Allow` belongs to the old day and is wiped.
* risk.go:16 "max USD value per base asset": approvals reserve nothing and positions are
  booked after the third leg (live.go:458-475), so legs in flight pass the limit together;
  `OvershootIsBounded` says by how much.
* bybit/adapter.go:601 "attempt snapshot rebuild via REST": `GetOrderbookL2` prefers the cached
  book (432-436), so once a symbol has a book with two sides the "rebuild" stores that old
  book again, with a fresh `lastWS`, and no snapshot is asked for.
* risk.go:16 again: cross-exchange holdings are never booked as positions (cross.go:168-171).
* main.go:93 "mark ready after initialization completes": the flag is set when the worker's
  goroutine has been started, before it has done anything; and it stays set when the worker
  waits for itself at 377, so neither probe notices.
* main.go:114 "shutdown complete": the worker's context is not cancelled before, nor is it
  waited for; the process ends under an execution between two of its legs.
* engine.go:131 "symbols list unavailable": also logged, and the filter skipped, when the
  list came and holds no configured triangle; these are then scanned without a feed.
* engine.go:403 "check global hard stop": `e.stopped` is never cleared, so the loop stays
  stopped after the day whose stop it was; a restart forgets the stop of the day.
* engine.go:413 "conservative": one token pays for an attempt of three orders and up to two unwinds.
* config.go:293 "API keys only from env": the file may set them too.
* README.md:25 "addr :9090": the default is :19091 (config.go:94).
* triangular.go:23 "total fees are 3*feesPerLegBps": they are 1.5 times.
* A number that cannot be read counts as 0 where 0 is allowed (`fmt.Sscan`), so
  `ARBITR_DAILY_PNL_STOP_USD=much` switches the stop off; `ARBITR_ALLOWED_SYMBOLS=,` allows
  everything.
* engine.go:613-620: the quantity of AB is used for the books of all three pairs.

### Bounds, and why they are enough

* `RiskStops`: three days (`LastDay`) let a stop be set, last, be reset and be set again;
  results of -20 and 10 with limits of 10 and 20 (`PnLBound` 20) reach both limits and
  leave them.  The window keeps 3 ticks, VaR needs 3 and divides by 2 (1000, 20 and 100 in
  the code), so the window slides, is too short, and the percentile is not the smallest
  tick.  Portfolio totals 0 and 40 with limits of 60, 70 and 20 percent switch each
  percentage check on and off.  One position step of one quantity (`ValueBound` 20).
* `TriExec`: two workers show every pairwise interleaving of checks, orders and bookings; two
  executions each (`Rounds`) fill the inventory limit, pass the soft one and set the hard stop
  while the other worker is anywhere.  The first default triangle in both directions, with
  ETH at 2 USD, BTC at 20 USD and, between them, 0.1; one size of 40, whose half passes the
  minimum of 12, as 30% of it does, and 9% does not.  Refused, partly filled and unfilled
  orders; every query is answered here (a query without an answer multiplies the states by
  ten), so `sure` of `BooksMatchFills` is always true in this run; the theorem has the others.
* `TriCloses`, `TriBothLegs`: one worker, one execution, no fault but, in the second, refusal.
* `CrossHedge`: two bodies, all four exchanges, one of them without keys, all faults; three
  tokens make the bodies compete, and the second scan refills the bucket.
* `RunLoop`: four triangles and five jobs, each in a pool of two, so that both starters wait
  for a slot.
* `Process`: three ticks (`MaxTicks`): one to gather a record, one in which two goroutines
  of one triangle read and write it and the ban falls due, one after the ban.  `BanMin` 3,
  `SizeMin` 2 and `ThresholdMin` 1 keep the order of 20, 5 and 3; `BanTicks` 1.  Two tokens
  and one per tick let attempts run out of them.  Two triangles of the default list; five
  deployments that use every layer and every rule; seven markets, of which six have a gain,
  one of them a default triangle that is no cycle forward.
* `BybitFeed`: two connections (`Conns`) show what a second reader, which the supervisor adds
  while the first still runs, does to the first's write; two symbols, both topics, all shapes.
* `SYMMETRY` of the workers in `TriExec`, which nothing tells apart; it checks invariants only.
* `CHECK_DEADLOCK FALSE` in `RunLoop` and `TickContinuous`, where the program really stops,
  which is the point of both, in `BybitFeed` and `FeedStale`, where the feed ends, and in
  `Process` and `ThinBook`, where the process ends.

### Fairness

`RunLoop` assumes weak fairness of every step a goroutine can take: the Go
scheduler runs what can run, and each body ends because every adapter call has a context
with a deadline or the total timeout of 8 s of the HTTP client
(`infra/network/httpclient.go`).  `Stop` has strong fairness: `select` chooses at random
among ready cases, so a closed `Done` channel is taken in the end although ticks come too.
`Process` assumes weak fairness of `main` alone: its waits are the `select`, and a shutdown with a
time limit; requests may take as long as they like and nobody has to send a signal.
`BybitFeed` assumes weak fairness of the call (dials end with their context) and of the
supervisor (a sleep ends), and nothing of the readers, which may wait for a message for good.
Nothing is assumed of the environment: `Cancel` may never happen.

## 4. Proofs

Every safety invariant and every action property of the passing runs is a theorem, for
every value of the constants that satisfies the named assumptions and, where a theorem has
hypotheses of its own, these; the configuration of the run that checks the property
satisfies them.

* `Sums` (from no assumption): what the proofs about tokens, exposures and books share.
  TLAPS can instantiate no induction theorem, so `LeastNat` and `LeastSubset` take a
  smallest counterexample (a set of numbers has a least element, a family of finite sets a
  smallest one); `Recursion` shows that there is a function that follows a recursion over
  the subsets of a finite set, which is how the folds are defined, and `SumRec` that the sum
  follows its own.  `SumRemove`,
  `SumChange`, `SumSame`, `SumNat` and `SumAtMost` say what one changed value does to a sum
  and how a sum is bounded.
* `RiskEngineProofs` (from `LimitsAssumption`, `HistoryAssumption`, `InputAssumption`):
  `TypeCorrect`, `StopLasts`, `StopIsOfToday`, `SoftStopLasts`.  The three action
  properties are not inductive: `StopInv` adds that the reset date is never ahead of the
  clock, that a hard stop recorded today is still set or still implied by the flag, and that a
  set flag goes back to a loss of the day of the reset.  `AllowEffect` says once what
  `Allow` does to the flags; `OthersKeepStops` covers the remaining actions.
  `VarCoversLossesHolds` counts: the percentile is the least kept result with more ticks up
  to it than the index, so the ticks below it are no more than the index.
* `CrossScanProofs` (from `PoolAssumption`): `PoolIsBounded`, `ScanIsBarrier`,
  `SpawnNeverStuck`, `ScanTypeCorrect` and `PoolImplementsPromise`.  `PoolInv` ties `sem` to the number of goroutines that hold a slot, and
  `received` to those that have ended; cardinalities change by one per step.
  The refinement rests on it: a job starts with fewer than `CrossCapacity` under way because
  `sem` counts exactly these.
* `RunLoopProofs` (from `LoopAssumption` and `PoolAssumption`).  Of the loop by itself,
  `CallerHoldsMutex` and `NoTriangleIsAttempted`: a goroutine at its second `Lock` holds the
  mutex, so the step behind it is never taken, whatever the triangles, slots and tickers;
  `StuckInv` is the two together with the sites of each process.  Of the worker,
  `WorkerHasBothParts` shows that the composition implements either part, so
  `WorkerAttemptsNoTriangle` and `WorkerKeepsPromise` follow from the parts' own theorems;
  `TurnsAreTaken`: while the loop is not at its call, the scan is between two of its calls
  and all goroutines of either kind are gone.  `BusyInv` ties the wait group to the
  goroutines that have not counted down, `HeldInv` the slots to those that have not given
  theirs back; `WorkerTypeCorrect` follows from them.
* `TriangleExecProofs` (from `ExecAssumption` and the assumptions of `RiskEngine` and
  `SpotExchange`), for every price and every fault.  `AtMostOneLateLegHolds` is not inductive:
  `LateInv` adds that whoever has
  sent an order under the stop is not at a place where another is sent, which holds because
  `Allow` approves nothing while the stop is set and no reset comes within the day
  (`AllowKeepsStop`).  The others rest on `TriInv`: `Account` says for every place of
  `executeTriangle` which legs the exchange has filled and by how much, as far as its answers tell.
  - `ExecTypeCorrect` and `BooksMatchFillsHolds` hold for every fault.  The second needs
    `BooksInv`: while every worker is in its first execution, the engine's quantity of an
    asset is the sum of the legs that successful executions have booked so far, so it speaks
    of the three `BookLeg` of several workers in any order.
  - `OvershootIsBoundedHolds`: `OvershootInv` bounds what is booked on an asset plus, for every
    worker, one dearest leg per leg that is approved and still to be booked (`PendingLegs`).
    A check adds a leg only when the asset was within the limit, and then everything pending
    fits in `Room`, whatever the check took the leg's value for; a booking moves a value from
    one to the other.  The property has its proviso in itself: it speaks of the assets whose
    pairs are looked up under the name they are booked on (not XRPSOL, see above), and a
    reduction never makes a quantity larger (`ApprovalAdjusts`).
  - `RejectedSecondLegIsFlatHolds`: `Account` keeps what the first order really filled (`got`)
    beside what is taken for it, up to the end of the unwind, which is for what was ordered.
* `CrossExecProofs` (from `CrossAssumption` and the assumptions of the modules below it):
  `NeverShortHolds` and `RejectedSellIsFlatHolds`, for every fault.  `Account` says for every
  place of `tryExecuteCross` what the attempt then holds: nothing before the buy, the buy's
  fill on the buying exchange before the sell (`Holds`), and what it offers for sale, which is
  what was bought and what is taken for it (`Offers`).  Both properties follow at the end
  because the sell and the
  unwind are for what is offered, and an order that is refused without an execution leaves nothing.  Each call has a lemma; `OneBody` says that it
  leaves the other bodies alone, and `PlaceOrderFills` and `GetOrderTells` are all that is used
  of the four adapters.  `OrdersAreBoundedHolds` needs the ledger `PaidInv`: twice the orders
  sent, twice those every body may still send from its place, and three times the tokens left
  are together at most three times the tokens granted.  `EngineInCross` carries `StopInv` of
  the risk engine over to the calls of the bodies; `NoBuyAfterStop` and `CrossTypeCorrect`
  follow from it.
* `ProcessProofs` (from `SettingsAssumption` and `AttemptAssumption`): `StopEndsAttemptsHolds`,
  `AttemptsAreAllowedHolds` and `NoBadTriangleKeptHolds`.  `Stepped`
  says once what a step of a goroutine does to the lanes, and `Move` sorts the steps into those
  before the check of line 412, the check passed, those beyond it and the end; `StopInv` and
  `AllowedInv` are proved over these four, not over the nine actions.  `AllowedInv` adds that
  the worker starts once and that no goroutine is there before the triangles are chosen;
  without it, a new list could be made under a goroutine that has passed.  `KeptInv` adds to
  the property that records are pairs of numbers.
  - `ScannedAreListedHolds`: `FilteredFacts` says what the loops that filter a list keep,
    for lists of any length.
  - `SizeFactorInRangeHolds`: `SizeInv` says of each of the reads of `dynamicSizeFactor` what
    still holds of it when others have written since: the object it looked up is still there,
    what was counted in it stays at least 1, and no object counts more successes than executions.
  - `ProcessTypeCorrect`, for deployments whose two limits are numbers: `TokenInv` keeps the
    tokens within the limit, `SlotInv` equates the slots with the goroutines between line 421
    and their end.
* `BybitFeedProofs` (from no assumption): `FeedTypeCorrect`, `OneMoreUpdateAtMost` and
  `BooksQuoteUncrossed`.  The properties are not inductive, because a reader writes one step
  after it chose what to write: `LateOnce` adds that a reader which has written late is back
  at its check or has ended, `SaneBooks` that no reader about to write holds a crossed book.
  `CrossedKeepsGoodHolds` is about a single connection and needs no sane snapshots: `GoodInv`
  says that a reader which holds a crossed book has no good one in the cache beside it.

Only model-checked: the liveness properties `EveryTickScansCross`, `CancelEndsRun`,
`CrossScanReturns`, `SignalEndsProcess` and `SupervisorEnds` (fairness and ENABLED are
beyond the prover), and the runs that end in a violation.

## 5. Not modelled

* Floating point: rounding, and step sizes; +Inf and NaN are modelled where they arise.
* Prices that move during an execution, and the size of a realised result, which is a choice;
  a minimum quantity per pair.
* A repeated answer that differs from the first, fees, errors of the USD conversion.
* The moving average of a triangle's net gain, but as a share of its threshold.
* A lost or late answer of the exchange in `Process`: it is in `TriangleExec` and `CrossExec`.
* JSON, signing, HTTP, metrics, logging, the balances that are logged at startup.
* The parts listed as `not_modelled` in `PROJECT.json`: stubs, packages nothing imports, and
  request plumbing without state that the trading logic reads.

## 6. What is left

1. An abstract specification of an execution (what an attempt may leave on the accounts)
   that `TriangleExec` and `CrossExec` implement by a refinement mapping.
2. The refinement of `Attempt`'s `executeTriangle` by `TriangleExec`, with the token and slot
   of the caller.
3. Proofs for the operators of `Settings` and `SpotAdapters` beyond what the theorems use.
