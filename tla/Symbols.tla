------------------------------ MODULE Symbols ------------------------------
(***************************************************************************)
(* Names of assets and trading pairs, and the two ways the program takes a *)
(* pair apart.  A pair is written <<base, quote>> and an asset <<base>>,   *)
(* so that a string the code fails to split stays the whole pair.  Every   *)
(* asset and quote of the default configuration has three or four letters. *)
(***************************************************************************)
LOCAL INSTANCE Sequences

(* risk.extractAsset: only the quotes USDT, BTC and ETH are cut off.  A    *)
(* pair in any other quote is returned whole.                              *)
extractAsset(sym) ==
  IF sym[2] \in {"USDT", "BTC", "ETH"} THEN <<sym[1]>> ELSE sym

(* arbitrage.splitSymbol: the known suffixes, then the last three letters; *)
(* both cut a three-letter quote and USDT off, so the base is what is left *)
(* for every pair the configuration names.                                 *)
BaseOf(sym)  == <<sym[1]>>
QuoteOf(sym) == <<sym[2]>>
=============================================================================
