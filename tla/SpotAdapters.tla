---------------------------- MODULE SpotAdapters ----------------------------
(***************************************************************************)
(* The four adapters of the program side by side (internal/exchange): what *)
(* each makes of the same reply of its exchange.  A reply to a question is *)
(* an "answer", a "refusal" (a body with an error status or code) or       *)
(* "silence" (no body, or none in time).  The adapters differ in which of  *)
(* them they return as an error; those that do not look at the status read *)
(* the missing fields of a refusal as zero and the empty word.             *)
(***************************************************************************)
EXTENDS SpotExchange

CONSTANTS
  Keyed,   \* exchanges whose API key and secret are configured
  Quotes   \* [bid, ask] an exchange may answer with

ASSUME AdapterAssumption ==
  /\ Keyed \subseteq {"bybit", "okx", "mexc", "binance"}
  /\ Quotes \subseteq [bid : Nat, ask : Nat]

Replies(fault) ==
  {"answer"} \cup (IF fault \in Faults THEN {"silence"} ELSE {})
             \cup (IF "error_body" \in Faults THEN {"refusal"} ELSE {})

(* A caller that is given an error, and one that is given what there is.   *)
Checked(reply, found, nothing) ==
  [err |-> reply # "answer", val |-> IF reply = "answer" THEN found ELSE nothing]
Unchecked(reply, found, nothing) ==
  [Checked(reply, found, nothing) EXCEPT !.err = reply = "silence"]

-----------------------------------------------------------------------------
(* GetTicker                                                               *)

NoQuote == [bid |-> 0, ask |-> 0]

BybitTicker(reply, q)   == Checked(reply, q, NoQuote)
OkxTicker(reply, q)     == Checked(reply, q, NoQuote)
MexcTicker(reply, q)    == Checked(reply, q, NoQuote)
BinanceTicker(reply, q) == Unchecked(reply, q, NoQuote)

GetTicker(x, reply, q) ==
  CASE x = "bybit" -> BybitTicker(reply, q) [] x = "okx"     -> OkxTicker(reply, q)
    [] x = "mexc"  -> MexcTicker(reply, q)  [] x = "binance" -> BinanceTicker(reply, q)

-----------------------------------------------------------------------------
(* GetSymbolFilters: the minimum quantity of a symbol; the caller takes no *)
(* answer for no minimum.  OKX is not asked for one.                       *)

BybitMinQty(reply)   == IF reply = "answer" THEN MinQty ELSE 0
OkxMinQty(reply)     == 0
MexcMinQty(reply)    == IF reply = "answer" THEN MinQty ELSE 0
BinanceMinQty(reply) == IF reply = "answer" THEN MinQty ELSE 0

GetMinQty(x, reply) ==
  CASE x = "bybit" -> BybitMinQty(reply) [] x = "okx"     -> OkxMinQty(reply)
    [] x = "mexc"  -> MexcMinQty(reply)  [] x = "binance" -> BinanceMinQty(reply)

-----------------------------------------------------------------------------
(* PlaceOrder: without keys it is refused before it is sent, and so is a   *)
(* quantity of zero; only the Bybit adapter looks at the minimum again.    *)

BybitPlace(qty)   == PlaceOutcomes(qty)
OkxPlace(qty)     == Executions(qty)
MexcPlace(qty)    == Executions(qty)
BinancePlace(qty) == Executions(qty)

PlaceOrder(x, qty) ==
  CASE x \notin Keyed -> {NotSent}
    [] x \in Keyed /\ x = "bybit" -> BybitPlace(qty)
    [] x \in Keyed /\ x = "okx"   -> OkxPlace(qty)
    [] x \in Keyed /\ x = "mexc"  -> MexcPlace(qty)
    [] x \in Keyed /\ x = "binance" -> BinancePlace(qty)

-----------------------------------------------------------------------------
(* GetOrderStatus and GetOrderFillInfo: the quantity filled.               *)

BybitOrder(reply, fill)   == Checked(reply, fill, 0)
OkxOrder(reply, fill)     == Checked(reply, fill, 0)
MexcOrder(reply, fill)    == Unchecked(reply, fill, 0)
BinanceOrder(reply, fill) == Unchecked(reply, fill, 0)

GetOrder(x, reply, fill) ==
  CASE x = "bybit" -> BybitOrder(reply, fill) [] x = "okx"     -> OkxOrder(reply, fill)
    [] x = "mexc"  -> MexcOrder(reply, fill)  [] x = "binance" -> BinanceOrder(reply, fill)

(* Whether the status word can be one of the two the engine knows: only    *)
(* Bybit's own words are; the other adapters hand on what they read.       *)
GoodWord(x, reply, fill, qty) ==
  IF x = "bybit" /\ reply = "answer" THEN GoodStatus(fill, qty) ELSE {FALSE}
=============================================================================
