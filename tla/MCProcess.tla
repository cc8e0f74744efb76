------------------------------ MODULE MCProcess ------------------------------
(* Inputs of the model-checking runs of Process.                            *)
EXTENDS Process

BTCETH  == [AB |-> "BTCUSDT", BC |-> "ETHUSDT", CA |-> "ETHBTC"]
BTCSOL  == [AB |-> "BTCUSDT", BC |-> "SOLUSDT", CA |-> "SOLBTC"]
Unnamed == [AB |-> "BTCUSDT", BC |-> "SOLUSDT", CA |-> ""]

(* defaultConfig with two of its triangles and few tokens; the credentials  *)
(* and the settings of the server are left out.                             *)
TwoTriangles ==
  [TRADING_ENABLED |-> TRUE, TRADING_LIVE |-> TRUE, TRADING_PAIRS |-> <<"BTCUSDT">>,
   ALLOWED_SYMBOLS |-> <<>>, TRIANGLES |-> <<BTCETH, BTCSOL>>, REGION |-> <<"EU-West">>,
   BYBIT_API_KEY |-> <<>>, MAX_ORDERS_PER_MIN |-> 2, MIN_NET_BPS |-> 150,
   MAX_CONCURRENT_TRIANGLES |-> 2, DAILY_PNL_STOP_USD |-> 0,
   SLIPPAGE_BPS |-> 200, FEES_BPS_BYBIT |-> 600, RISK_RESERVE_BPS |-> 100]

Text(items) == [given |-> TRUE, num |-> FALSE, whole |-> FALSE, n |-> 0, items |-> items]
Number(n)   == [given |-> TRUE, num |-> TRUE, whole |-> TRUE, n |-> n, items |-> <<"number">>]
Leading(n)  == [Number(n) EXCEPT !.whole = FALSE]
None        == [v \in {} |-> Absent]

(* "twice": one triangle twice, so that two goroutines share its record;    *)
(* "off": live trading switched off in the environment; "on": switched off  *)
(* by the file and on again, with one slot, a low slippage, and two texts   *)
(* that only begin with a number; "paper": switched off by the file;        *)
(* "listed": a list in .env over those of the environment and the file, a   *)
(* stop that is no number and a triangle without a name.                    *)
FiveDeployments ==
  [twice  |-> [file |-> [TRIANGLES |-> <<BTCETH, BTCETH>>], dotenv |-> None,
               env |-> [DAILY_PNL_STOP_USD |-> Number(50), MAX_CONCURRENT_TRIANGLES |-> Number(0)]],
   off    |-> [file |-> None, dotenv |-> None,
               env |-> [TRADING_LIVE |-> Text(<<"false">>), REGION |-> Text(<<"US-East">>)]],
   on     |-> [file |-> [TRADING_LIVE |-> FALSE, MAX_CONCURRENT_TRIANGLES |-> 0, TRADING_PAIRS |-> <<"ETHUSDT">>],
               dotenv |-> None,
               env |-> [TRADING_LIVE |-> Text(<<"1">>), SLIPPAGE_BPS |-> Number(150), TRADING_PAIRS |-> Text(<<>>),
                        MIN_NET_BPS |-> Leading(20), MAX_ORDERS_PER_MIN |-> Leading(2)]],
   paper  |-> [file |-> [TRADING_LIVE |-> FALSE, TRIANGLES |-> <<BTCETH>>], dotenv |-> None,
               env |-> [TRADING_ENABLED |-> Text(<<"true">>), FEES_BPS_BYBIT |-> Number(-1)]],
   listed |-> [file |-> [ALLOWED_SYMBOLS |-> <<"ETHBTC">>, TRIANGLES |-> <<BTCETH, Unnamed, BTCSOL>>,
                         DAILY_PNL_STOP_USD |-> 50],
               env |-> [ALLOWED_SYMBOLS |-> Text(<<>>), DAILY_PNL_STOP_USD |-> Text(<<"much">>)],
               dotenv |-> [ALLOWED_SYMBOLS |-> Text(<<"BTCUSDT", "ETHUSDT", "SOLUSDT", "SOLBTC">>),
                           BYBIT_API_KEY |-> Absent]]]

Pair(bid, ask)               == [bid |-> bid, ask |-> ask, known |-> FALSE, bids |-> <<>>, asks |-> <<>>]
Level(price, qty)            == [price |-> price, qty |-> qty]
Booked(bid, ask, first, next) ==
  [bid |-> bid, ask |-> ask, known |-> TRUE,
   bids |-> <<Level(bid, first), Level(bid - 1, next)>>, asks |-> <<Level(ask, first), Level(ask + 1, next)>>]

(* Gains forward and in reverse without books; forward in books that hold   *)
(* the quantity, and in books that do not; a gain that only the lowest      *)
(* threshold lets through; a quote without a bid; and the pairs of a        *)
(* default triangle, with a book that is too thin: 4 USDT for BTC, 2 for    *)
(* ETH, half a BTC for ETH.                                                 *)
SevenMarkets ==
  [forward |-> [AB |-> Pair(1010, 1011), BC |-> Pair(1000, 1001), CA |-> Pair(1000, 1001)],
   reverse |-> [AB |-> Pair(999, 1000), BC |-> Pair(1010, 1011), CA |-> Pair(999, 1000)],
   deep    |-> [AB |-> Booked(1010, 1011, 30, 30), BC |-> Booked(1000, 1001, 30, 30), CA |-> Booked(1000, 1001, 60, 0)],
   thin    |-> [AB |-> Booked(1010, 1011, 30, 10), BC |-> Booked(1000, 1001, 30, 30), CA |-> Booked(1000, 1001, 60, 0)],
   edge    |-> [AB |-> Pair(1001, 1002), BC |-> Pair(1000, 1001), CA |-> Pair(1000, 1001)],
   noBid   |-> [AB |-> Pair(0, 1011), BC |-> Pair(1000, 1001), CA |-> Pair(1000, 1001)],
   default |-> [AB |-> Booked(4000, 4001, 3, 3), BC |-> Booked(2000, 2001, 30, 30), CA |-> Booked(500, 501, 60, 0)]]

OneListing == {{"BTCUSDT", "ETHUSDT", "ETHBTC", "SOLUSDT"}}
=============================================================================
