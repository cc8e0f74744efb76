----------------------------- MODULE BybitFeed -----------------------------
(***************************************************************************)
(* The market data of the Bybit adapter (internal/exchange/bybit):         *)
(* SubscribeSymbols with its connections, reader goroutines and            *)
(* supervisor, the ticker and book caches they fill, and GetTicker and     *)
(* GetOrderbookL2, which prefer the caches.  Run (engine.go:187-189) calls *)
(* SubscribeSymbols with a context that it cancels when the call returns.  *)
(*                                                                         *)
(* Of a ticker and of a book only the shape matters.  The goroutines for   *)
(* the pings and for the staleness gauge change nothing modelled here.     *)
(***************************************************************************)
EXTENDS Integers, FiniteSets

CONSTANTS
  Symbols,   \* symbols subscribed to
  Conns      \* bound of the model: connections that can be opened

VARIABLES
  caller,   \* where the call of SubscribeSymbols is
  super,    \* where the supervisor goroutine is
  reader,   \* per connection: where its reader is, and the message it holds
  ctxDone,  \* the context of the subscription is done
  recent,   \* a.lastWS is at most 5 s ago
  tickers,  \* the ticker cache: a shape per symbol, "onesided" when there is no entry
  books,    \* the book cache, likewise
  late,     \* history, per connection: messages stored after the context was done
  failed    \* history: a snapshot from the exchange failed, or was crossed itself

memory   == <<recent, tickers, books>>
history  == <<late, failed>>
feedVars == <<caller, super, reader, ctxDone, memory, history>>

(* Two sides with bid < ask; two sides with bid >= ask; a side is missing. *)
Shapes == {"good", "crossed", "onesided"}
Messages == [topic : {"ticker", "book"}, sym : Symbols, shape : Shapes]
NoMessage == [topic |-> "none"]
ReaderPCs == {"none", "check", "read", "rebuild", "store", "ended"}

FeedTypeOK ==
  /\ caller \in {"dial", "spawn", "cancel", "returned"}
  /\ super \in {"none", "check", "probe", "dial", "sleep", "ended"}
  /\ reader \in [Conns -> [pc : ReaderPCs, msg : Messages \cup {NoMessage}]]
  /\ \A c \in Conns : reader[c].pc \in {"rebuild", "store"} => reader[c].msg \in Messages
  /\ ctxDone \in BOOLEAN /\ recent \in BOOLEAN
  /\ tickers \in [Symbols -> Shapes] /\ books \in [Symbols -> Shapes]
  /\ late \in [Conns -> Nat] /\ failed \in BOOLEAN

FeedInit ==
  /\ caller = "dial" /\ super = "none"
  /\ reader = [c \in Conns |-> [pc |-> "none", msg |-> NoMessage]]
  /\ ctxDone = FALSE /\ recent = FALSE
  /\ tickers = [s \in Symbols |-> "onesided"] /\ books = tickers
  /\ late = [c \in Conns |-> 0] /\ failed = FALSE

ReaderGoes(c, pc, msg) == reader' = [reader EXCEPT ![c] = [pc |-> pc, msg |-> msg]]

-----------------------------------------------------------------------------
(* run: a connection with a reader of its own, or an error; never a        *)
(* connection when the context is done.  The one before is not closed.     *)
run ==
  \/ UNCHANGED reader
  \/ ~ctxDone /\ \E c \in Conns : reader[c].pc = "none" /\ ReaderGoes(c, "check", NoMessage)

(* SubscribeSymbols: run once, start the supervisor, return; the caller    *)
(* then cancels the context.                                               *)
Dial ==
  /\ caller = "dial" /\ caller' = "spawn"
  /\ run
  /\ UNCHANGED <<super, ctxDone, memory, history>>

StartSupervisor ==
  /\ caller = "spawn" /\ caller' = "cancel"
  /\ super' = "check"
  /\ UNCHANGED <<reader, ctxDone, memory, history>>

CancelS ==
  /\ caller = "cancel" /\ caller' = "returned"
  /\ ctxDone' = TRUE
  /\ UNCHANGED <<super, reader, memory, history>>

(* The deadline of 5 s passes while the call is under way.                 *)
Deadline ==
  /\ caller # "returned" /\ ~ctxDone /\ ctxDone' = TRUE
  /\ UNCHANGED <<caller, super, reader, memory, history>>

-----------------------------------------------------------------------------
(* The supervisor: done?  stale?  then run again, sleep, and once more.    *)
SuperGoes(from, to) ==
  /\ super = from /\ super' = to
  /\ UNCHANGED <<caller, ctxDone, memory, history>>

(* mutant: the supervisor does not look at the context *)
SuperCheckBlind == SuperGoes("check", "probe") /\ UNCHANGED reader
SuperCheck == SuperGoes("check", IF ctxDone THEN "ended" ELSE "probe") /\ UNCHANGED reader
SuperProbe == SuperGoes("probe", IF recent THEN "sleep" ELSE "dial") /\ UNCHANGED reader
SuperDial  == SuperGoes("dial", "sleep") /\ run
SuperWake  == SuperGoes("sleep", "check") /\ UNCHANGED reader

SuperStep == SuperCheck \/ SuperProbe \/ SuperDial \/ SuperWake

-----------------------------------------------------------------------------
(* mutant: the reader goes on until its connection breaks *)
CheckBlind(c) ==
  /\ reader[c].pc = "check"
  /\ ReaderGoes(c, "read", NoMessage)
  /\ UNCHANGED <<caller, super, ctxDone, memory, history>>

(* A reader: done?  read a message, store it, and once more.               *)
Check(c) ==
  /\ reader[c].pc = "check"
  /\ ReaderGoes(c, IF ctxDone THEN "ended" ELSE "read", NoMessage)
  /\ UNCHANGED <<caller, super, ctxDone, memory, history>>

(* ReadJSON blocks until a message comes or the connection breaks; it does *)
(* not know of the context.  Other topics, and tickers with a missing      *)
(* side, are passed over.                                                  *)
Read(c) ==
  /\ reader[c].pc = "read"
  /\ \/ \E pc \in {"ended", "check"} : ReaderGoes(c, pc, NoMessage)
     \/ \E m \in Messages :
          /\ m # [topic |-> "ticker", sym |-> m.sym, shape |-> "onesided"]
          /\ ReaderGoes(c, IF m.topic = "book" /\ m.shape = "crossed" THEN "rebuild" ELSE "store", m)
  /\ UNCHANGED <<caller, super, ctxDone, memory, history>>

(* The pong handler, which ReadJSON calls.                                 *)
Pong(c) ==
  /\ reader[c].pc = "read"
  /\ recent' = TRUE
  /\ UNCHANGED <<caller, super, reader, ctxDone, tickers, books, history>>

(* GetOrderbookL2: the cached book when it has two sides, crossed or not;  *)
(* else the snapshot of the exchange, which is not looked at; or no        *)
(* answer, as always when the context is done.                             *)
NoAnswer == "none"
GetOrderbookL2(s) ==
  IF books[s] # "onesided" THEN {books[s]}
  ELSE {NoAnswer} \cup (IF ctxDone THEN {} ELSE Shapes)

(* mutant: the rebuild is counted, but not made *)
RebuildSkipped(c) ==
  /\ reader[c].pc = "rebuild"
  /\ ReaderGoes(c, "store", reader[c].msg)
  /\ UNCHANGED <<caller, super, ctxDone, memory, history>>

(* mutant: the answer is taken without looking at ok *)
RebuildUnchecked(c) ==
  /\ reader[c].pc = "rebuild"
  /\ \E b \in GetOrderbookL2(reader[c].msg.sym) :
       ReaderGoes(c, "store", [reader[c].msg EXCEPT !.shape = b])
  /\ UNCHANGED <<caller, super, ctxDone, memory, history>>

(* A crossed book is replaced by what GetOrderbookL2 answers, and kept     *)
(* when it fails.                                                          *)
Rebuild(c) ==
  LET m == reader[c].msg
  IN /\ reader[c].pc = "rebuild"
     /\ \E b \in GetOrderbookL2(m.sym) :
          /\ ReaderGoes(c, "store", IF b = NoAnswer THEN m ELSE [m EXCEPT !.shape = b])
          /\ failed' = (failed \/ (books[m.sym] = "onesided" /\ b \in {NoAnswer, "crossed"}))
     /\ UNCHANGED <<caller, super, ctxDone, memory, late>>

Store(c) ==
  LET m == reader[c].msg
  IN /\ reader[c].pc = "store"
     /\ tickers' = IF m.topic = "ticker" THEN [tickers EXCEPT ![m.sym] = m.shape] ELSE tickers
     /\ books' = IF m.topic = "book" THEN [books EXCEPT ![m.sym] = m.shape] ELSE books
     /\ recent' = TRUE
     /\ late' = IF ctxDone THEN [late EXCEPT ![c] = @ + 1] ELSE late
     /\ ReaderGoes(c, "check", NoMessage)
     /\ UNCHANGED <<caller, super, ctxDone, failed>>

ReaderStep(c) == Check(c) \/ Read(c) \/ Pong(c) \/ Rebuild(c) \/ Store(c)

(* Five seconds pass without an update.                                    *)
FiveSeconds ==
  /\ recent /\ recent' = FALSE
  /\ UNCHANGED <<caller, super, reader, ctxDone, tickers, books, history>>

-----------------------------------------------------------------------------
CallStep == Dial \/ StartSupervisor \/ CancelS

FeedNext ==
  \/ CallStep \/ Deadline \/ SuperStep \/ FiveSeconds
  \/ \E c \in Conns : ReaderStep(c)

FeedSpec == FeedInit /\ [][FeedNext]_feedVars

(* The call and the supervisor run on: a dial ends with its context, a     *)
(* sleep ends.  Nothing is assumed of a reader, which may block for good.  *)
FeedFairSpec == FeedSpec /\ WF_feedVars(CallStep) /\ WF_feedVars(SuperStep)

-----------------------------------------------------------------------------
(* Properties                                                              *)

(* What GetTicker answers without asking the exchange: the cached ticker,  *)
(* else the top of the cached book when it has two sides; else nothing.    *)
GetTicker(s) ==
  CASE tickers[s] # "onesided" -> tickers[s]
    [] tickers[s] = "onesided" /\ books[s] # "onesided" -> books[s]
    [] OTHER -> NoAnswer

(* As long as every snapshot asked for came and was sane, a crossed price  *)
(* that GetTicker quotes from memory is a ticker that the exchange sent    *)
(* crossed: the books add none, whatever the connections deliver and in    *)
(* whatever order their readers store it (adapter.go:141-161, 600-613).    *)
NoCrossedQuote ==
  ~failed => \A s \in Symbols : GetTicker(s) = "crossed" => tickers[s] = "crossed"

(* On a single connection a crossed book never replaces a good one, even   *)
(* when rebuilds fail, because the cached book stands in (adapter.go:432-  *)
(* 436 and 600-611).                                                       *)
Opened == {c \in Conns : reader[c].pc # "none"}
CrossedKeepsGood ==
  [][Cardinality(Opened) <= 1 =>
       \A s \in Symbols : books[s] = "good" => books'[s] # "crossed"]_feedVars

(* A subscription that is over writes at most once more per connection:    *)
(* the message its reader was waiting for (adapter.go:532-545).            *)
AtMostOneMoreUpdate == \A c \in Conns : late[c] <= 1

(* The supervisor ends with the context (adapter.go:636-640).              *)
SupervisorEnds == ctxDone /\ super # "none" ~> super = "ended"

-----------------------------------------------------------------------------
(* adapter.go:641 "if no WS updates for 5s, reconnect": a subscription     *)
(* that hears nothing for 5 s tries a new connection, or hears something   *)
(* after all.                                                              *)
StaleFeedReconnects == super # "none" /\ ~recent ~> super = "dial" \/ recent
=============================================================================
