------------------------------ MODULE Settings ------------------------------
(***************************************************************************)
(* How the program comes to its configuration (internal/config/config.go): *)
(* defaults, a YAML file that is taken as it is, and environment variables *)
(* ARBITR_*, which the lines of a file .env set before they are read.      *)
(* Every kind of variable has its own rule for what it does to the value   *)
(* below it.  Names are those of the environment without the prefix.       *)
(***************************************************************************)
EXTENDS Integers, Sequences

CONSTANTS
  Defaults,    \* the value of every setting
  Deployments  \* per deployment: [file, env, dotenv], each a function from
               \* the names it mentions; a file to values, the others to texts

(* A text: not empty; the number it begins with, if it does, and whether   *)
(* that number is all of it; the parts that are left when it is cut at its *)
(* commas.                                                                 *)
IsText(t) == /\ {t.given, t.num, t.whole} \subseteq BOOLEAN /\ t.n \in Int
             /\ \A i \in DOMAIN t.items : t.items[i] \in STRING

ASSUME SettingsAssumption ==
  /\ \A d \in DOMAIN Deployments :
       /\ \A v \in DOMAIN Deployments[d].env : IsText(Deployments[d].env[v])
       /\ \A v \in DOMAIN Deployments[d].dotenv : IsText(Deployments[d].dotenv[v])
  /\ {"TRADING_LIVE", "ALLOWED_SYMBOLS"} \subseteq DOMAIN Defaults

Absent == [given |-> FALSE, num |-> FALSE, whole |-> FALSE, n |-> 0, items |-> <<>>]

-----------------------------------------------------------------------------
Switches == {"PPROF", "TRADING_ENABLED", "TRADING_LIVE"}
Texts    == {"ADMIN_ALLOW_CIDRS", "TRADING_PAIRS", "ALLOWED_SYMBOLS",
             "REGION", "LOG_LEVEL", "HTTP_ADDR",
             "BYBIT_API_KEY", "BYBIT_SECRET", "OKX_API_KEY", "OKX_SECRET", "OKX_PASSPHRASE",
             "MEXC_API_KEY", "MEXC_SECRET", "BINANCE_API_KEY", "BINANCE_SECRET",
             "BYBIT_BASE_URL", "OKX_BASE_URL", "MEXC_BASE_URL", "BINANCE_BASE_URL"}
Decimals == {"MAX_NOTIONAL_USD", "MIN_NET_BPS", "NOTIONAL_USD"}
Counts   == {"MAX_ORDERS_PER_MIN", "ORDER_TTL_MS", "MAX_CONCURRENT_TRIANGLES"}
Limits   == {"ENTRY_CONFIRM_TICKS", "TRIANGLE_COOLDOWN_SECONDS", "DAILY_PNL_STOP_USD",
             "MAX_INVENTORY_USD_PER_BASE", "PRICE_SKEW_BPS", "MAX_UNWIND_SLIPPAGE_BPS",
             "SLIPPAGE_BPS", "FEES_BPS_BYBIT", "FEES_BPS_OKX", "FEES_BPS_MEXC", "FEES_BPS_BINANCE",
             "RISK_RESERVE_BPS"}

(* os.Setenv for every line of .env: it replaces what the environment had, *)
(* also when it is empty.                                                  *)
Getenv(d, v) ==
  IF v \in DOMAIN d.dotenv THEN d.dotenv[v]
  ELSE IF v \in DOMAIN d.env THEN d.env[v] ELSE Absent

(* yaml.Unmarshal over the defaults: what the file does not mention stays. *)
Below(d, v) == IF v \in DOMAIN d.file THEN d.file[v] ELSE Defaults[v]

(* "1" and "true" switch on, and nothing switches off (a switch is given  *)
(* without commas).                                                        *)
Switch(below, t) == below \/ (t.given /\ t.items \in {<<"1">>, <<"true">>})

(* What is given; of a list splitCSV's parts, and "," has none.            *)
Given(below, t) == IF t.given THEN t.items ELSE below

(* fmt.Sscan reads the number a text begins with and leaves 0 without one; *)
(* decimal.NewFromString fails when anything follows the number (here 0,   *)
(* which is refused as an error is).                                       *)
Sscan(t)         == IF t.num THEN t.n ELSE 0
NewFromString(t) == IF t.num /\ t.whole THEN t.n ELSE 0
Positive(below, t, n)    == IF t.given /\ n > 0  THEN n ELSE below
NonNegative(below, t, n) == IF t.given /\ n >= 0 THEN n ELSE below

Setting(d, v) ==
  LET below == Below(d, v)
      t     == Getenv(d, v)
  IN CASE v \in Switches          -> Switch(below, t)
       [] v \in Texts             -> Given(below, t)
       [] v \in Decimals          -> Positive(below, t, NewFromString(t))
       [] v \in Counts            -> Positive(below, t, Sscan(t))
       [] v \in Limits            -> NonNegative(below, t, Sscan(t))
       [] OTHER                   -> below  \* "TRIANGLES": by YAML only

Load == [d \in DOMAIN Deployments |-> [v \in DOMAIN Defaults |-> Setting(Deployments[d], v)]]
=============================================================================
