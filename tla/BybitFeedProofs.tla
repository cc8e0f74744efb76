-------------------------- MODULE BybitFeedProofs --------------------------
(***************************************************************************)
(* Proofs about the market data of the Bybit adapter, for any symbols and  *)
(* any number of connections.  The properties speak of caches and          *)
(* counters that readers write one step after they chose what to write, so *)
(* the invariant speaks of the messages the readers hold, too.             *)
(***************************************************************************)
EXTENDS BybitFeed, FiniteSetTheorems, TLAPS

(* A reader that stored a message after the context was done has gone back *)
(* to its check, and the check ends it.                                    *)
LateOnce ==
  \A c \in Conns :
    /\ late[c] \in {0, 1}
    /\ late[c] = 1 => ctxDone /\ reader[c].pc \in {"check", "ended"}

(* Without a bad snapshot neither the cache nor a reader about to store    *)
(* has a crossed book.                                                     *)
HoldsCrossed(c) ==
  reader[c].pc = "store" /\ reader[c].msg.topic = "book" /\ reader[c].msg.shape = "crossed"
SaneBooks ==
  ~failed => /\ \A s \in Symbols : books[s] # "crossed"
             /\ \A c \in Conns : ~HoldsCrossed(c)

FeedInv == FeedTypeOK /\ LateOnce /\ SaneBooks

-----------------------------------------------------------------------------
LEMMA FeedInvInit == FeedInit => FeedInv
<1> SUFFICES ASSUME FeedInit PROVE FeedInv
  OBVIOUS
<1>1. FeedTypeOK
  BY DEF FeedInit, FeedTypeOK, ReaderPCs, Shapes
<1> QED BY <1>1 DEF FeedInit, FeedInv, LateOnce, SaneBooks, HoldsCrossed

-----------------------------------------------------------------------------
(* A reader that moves on with nothing in hand, its caches and counters    *)
(* left alone, keeps the invariant, unless it comes late to a read.        *)
LEMMA IdleMove ==
  ASSUME FeedInv, NEW c \in Conns, NEW pc \in {"check", "read", "ended"},
         ReaderGoes(c, pc, NoMessage), late[c] = 1 => pc \in {"check", "ended"},
         ctxDone' \in BOOLEAN, ctxDone => ctxDone',
         UNCHANGED <<memory, history>>,
         caller' \in {"dial", "spawn", "cancel", "returned"},
         super' \in {"none", "check", "probe", "dial", "sleep", "ended"}
  PROVE  FeedInv'
<1> USE DEF FeedInv, ReaderGoes, memory, history
<1>1. \A d \in Conns : reader'[d] = IF d = c THEN [pc |-> pc, msg |-> NoMessage] ELSE reader[d]
  BY DEF FeedTypeOK
<1>2. reader' \in [Conns -> [pc : ReaderPCs, msg : Messages \cup {NoMessage}]]
  BY DEF FeedTypeOK, ReaderPCs
<1>3. FeedTypeOK'
  BY <1>1, <1>2 DEF FeedTypeOK
<1>4. LateOnce'
  BY <1>1 DEF LateOnce
<1>5. SaneBooks'
  BY <1>1 DEF SaneBooks, HoldsCrossed
<1> QED BY <1>3, <1>4, <1>5

(* A step that touches no reader, cache or counter keeps it.               *)
LEMMA StillReaders ==
  ASSUME FeedInv, UNCHANGED <<reader, tickers, books, history>>,
         ctxDone' \in BOOLEAN, ctxDone => ctxDone', recent' \in BOOLEAN,
         caller' \in {"dial", "spawn", "cancel", "returned"},
         super' \in {"none", "check", "probe", "dial", "sleep", "ended"}
  PROVE  FeedInv'
<1> USE DEF FeedInv, history
<1>1. FeedTypeOK'
  BY DEF FeedTypeOK
<1>2. LateOnce' /\ SaneBooks'
  BY DEF LateOnce, SaneBooks, HoldsCrossed
<1> QED BY <1>1, <1>2

(* Dial and SuperDial: run adds a reader only before the context is done.  *)
LEMMA RunStep ==
  ASSUME FeedInv, run, UNCHANGED <<ctxDone, memory, history>>,
         caller' \in {"dial", "spawn", "cancel", "returned"},
         super' \in {"none", "check", "probe", "dial", "sleep", "ended"}
  PROVE  FeedInv'
<1>0. ctxDone' \in BOOLEAN /\ (ctxDone => ctxDone')
  BY DEF FeedInv, FeedTypeOK
<1>1. CASE UNCHANGED reader
  <2>1. recent' \in BOOLEAN
    BY DEF FeedInv, FeedTypeOK, memory
  <2> QED BY <1>0, <1>1, <2>1, StillReaders DEF memory
<1>2. ASSUME NEW c \in Conns, ReaderGoes(c, "check", NoMessage) PROVE FeedInv'
  BY <1>0, <1>2, IdleMove
<1> QED BY <1>1, <1>2 DEF run

LEMMA ReadStep == ASSUME FeedInv, NEW c \in Conns, Read(c) PROVE FeedInv'
<1> USE DEF FeedInv
<1>0. ctxDone' = ctxDone /\ ctxDone \in BOOLEAN /\ UNCHANGED <<memory, history>>
  BY DEF Read, FeedTypeOK
<1>1. /\ caller' \in {"dial", "spawn", "cancel", "returned"}
      /\ super' \in {"none", "check", "probe", "dial", "sleep", "ended"}
  BY DEF Read, FeedTypeOK
<1>2. ASSUME NEW pc \in {"ended", "check"}, ReaderGoes(c, pc, NoMessage) PROVE FeedInv'
  BY <1>0, <1>1, <1>2, IdleMove
<1>3. ASSUME NEW m \in Messages,
             ReaderGoes(c, IF m.topic = "book" /\ m.shape = "crossed" THEN "rebuild" ELSE "store", m)
      PROVE  FeedInv'
  <2> USE DEF ReaderGoes
  <2>1. PICK pc \in {"rebuild", "store"} :
          /\ reader' = [reader EXCEPT ![c] = [pc |-> pc, msg |-> m]]
          /\ pc = "store" => ~(m.topic = "book" /\ m.shape = "crossed")
    BY <1>3
  <2>2. \A d \in Conns : reader'[d] = IF d = c THEN [pc |-> pc, msg |-> m] ELSE reader[d]
    BY <2>1 DEF FeedTypeOK
  <2>3. reader' \in [Conns -> [pc : ReaderPCs, msg : Messages \cup {NoMessage}]]
    BY <2>1 DEF FeedTypeOK, ReaderPCs
  <2>4. FeedTypeOK'
    BY <1>0, <1>1, <2>2, <2>3 DEF FeedTypeOK, memory, history
  <2>5. late[c] = 0
    BY DEF Read, LateOnce
  <2>6. LateOnce'
    BY <1>0, <2>2, <2>5 DEF LateOnce, history
  <2>7. SaneBooks'
    BY <1>0, <2>1, <2>2 DEF SaneBooks, HoldsCrossed, memory, history
  <2> QED BY <2>4, <2>6, <2>7
<1> QED BY <1>2, <1>3 DEF Read

(* A rebuild that gets a sane snapshot leaves nothing crossed; the cached  *)
(* book that may stand in is not crossed either.                           *)
LEMMA RebuildStep == ASSUME FeedInv, NEW c \in Conns, Rebuild(c) PROVE FeedInv'
<1> USE DEF FeedInv
<1> DEFINE m == reader[c].msg
<1>1. m \in Messages /\ m.sym \in Symbols /\ reader[c].pc = "rebuild"
  BY DEF Rebuild, FeedTypeOK, Messages
<1>2. PICK b \in GetOrderbookL2(m.sym) :
        /\ ReaderGoes(c, "store", IF b = NoAnswer THEN m ELSE [m EXCEPT !.shape = b])
        /\ failed' = (failed \/ (books[m.sym] = "onesided" /\ b \in {NoAnswer, "crossed"}))
  BY DEF Rebuild
<1> DEFINE n == IF b = NoAnswer THEN m ELSE [m EXCEPT !.shape = b]
<1>3. b = NoAnswer \/ b \in Shapes
  BY <1>1 DEF GetOrderbookL2, FeedTypeOK
<1>4. n \in Messages
  BY <1>1, <1>3 DEF Messages
<1>5. UNCHANGED <<caller, super, ctxDone, recent, tickers, books, late>>
  BY DEF Rebuild, memory
<1>6. \A d \in Conns : reader'[d] = IF d = c THEN [pc |-> "store", msg |-> n] ELSE reader[d]
  BY <1>2 DEF ReaderGoes, FeedTypeOK
<1>7. reader' \in [Conns -> [pc : ReaderPCs, msg : Messages \cup {NoMessage}]]
  BY <1>2, <1>4 DEF ReaderGoes, FeedTypeOK, ReaderPCs
<1>8. failed' \in BOOLEAN
  BY <1>2 DEF FeedTypeOK
<1> HIDE DEF n
<1>9. FeedTypeOK'
  BY <1>4, <1>5, <1>6, <1>7, <1>8 DEF FeedTypeOK
<1>10. LateOnce'
  BY <1>1, <1>5, <1>6 DEF LateOnce
<1>11. SaneBooks'
  <2> SUFFICES ASSUME ~failed' PROVE /\ \A s \in Symbols : books'[s] # "crossed"
                                     /\ \A d \in Conns : ~HoldsCrossed(d)'
    BY DEF SaneBooks
  <2>1. ~failed /\ ~(books[m.sym] = "onesided" /\ b \in {NoAnswer, "crossed"})
    BY <1>2
  <2>2. books[m.sym] # "crossed"
    BY <1>1, <2>1 DEF SaneBooks
  <2>3. b \in {"good", "onesided"}
    BY <1>1, <2>1, <2>2 DEF GetOrderbookL2, FeedTypeOK, Shapes, NoAnswer
  <2>4. n.shape # "crossed"
    BY <1>1, <2>3 DEF Messages, NoAnswer, n
  <2>5. \A d \in Conns : ~HoldsCrossed(d)'
    BY <1>6, <2>1, <2>4 DEF SaneBooks, HoldsCrossed
  <2> QED BY <1>5, <2>1, <2>5 DEF SaneBooks
<1> QED BY <1>9, <1>10, <1>11

LEMMA StoreStep == ASSUME FeedInv, NEW c \in Conns, Store(c) PROVE FeedInv'
<1> USE DEF FeedInv
<1> DEFINE m == reader[c].msg
<1>1. /\ reader[c].pc = "store" /\ m \in Messages
      /\ m.sym \in Symbols /\ m.shape \in Shapes /\ m.topic \in {"ticker", "book"}
  BY DEF Store, FeedTypeOK, Messages
<1>2. UNCHANGED <<caller, super, ctxDone, failed>> /\ recent' = TRUE
  BY DEF Store
<1>3. \A d \in Conns : reader'[d] = IF d = c THEN [pc |-> "check", msg |-> NoMessage] ELSE reader[d]
  BY DEF Store, ReaderGoes, FeedTypeOK
<1>4. reader' \in [Conns -> [pc : ReaderPCs, msg : Messages \cup {NoMessage}]]
  BY DEF Store, ReaderGoes, FeedTypeOK, ReaderPCs
<1>5. tickers' \in [Symbols -> Shapes] /\ books' \in [Symbols -> Shapes]
  BY <1>1 DEF Store, FeedTypeOK
<1>6. late[c] = 0
  BY <1>1 DEF LateOnce
<1>7. late' \in [Conns -> Nat] /\ \A d \in Conns : late'[d] = IF d = c /\ ctxDone THEN 1 ELSE late[d]
  BY <1>6 DEF Store, FeedTypeOK
<1>8. FeedTypeOK'
  BY <1>2, <1>3, <1>4, <1>5, <1>7 DEF FeedTypeOK
<1>9. LateOnce'
  BY <1>2, <1>3, <1>7 DEF LateOnce
<1>10. SaneBooks'
  <2>1. \A s \in Symbols : books'[s] = IF m.topic = "book" /\ s = m.sym THEN m.shape ELSE books[s]
    BY <1>1 DEF Store, FeedTypeOK
  <2> QED BY <1>1, <1>2, <1>3, <2>1 DEF SaneBooks, HoldsCrossed
<1> QED BY <1>8, <1>9, <1>10

-----------------------------------------------------------------------------
LEMMA FeedInvNext == FeedInv /\ [FeedNext]_feedVars => FeedInv'
<1> SUFFICES ASSUME FeedInv, [FeedNext]_feedVars PROVE FeedInv'
  OBVIOUS
<1> USE DEF FeedInv
<1>0. ctxDone \in BOOLEAN /\ recent \in BOOLEAN
  BY DEF FeedTypeOK
<1>1. /\ caller \in {"dial", "spawn", "cancel", "returned"}
      /\ super \in {"none", "check", "probe", "dial", "sleep", "ended"}
  BY DEF FeedTypeOK
<1>2. CASE Dial
  BY <1>1, <1>2, RunStep DEF Dial
<1>3. CASE StartSupervisor \/ CancelS \/ Deadline \/ FiveSeconds
  BY <1>0, <1>1, <1>3, StillReaders DEF StartSupervisor, CancelS, Deadline, FiveSeconds, memory
<1>4. CASE SuperCheck \/ SuperProbe \/ SuperWake
  BY <1>0, <1>1, <1>4, StillReaders DEF SuperCheck, SuperProbe, SuperWake, SuperGoes, memory
<1>5. CASE SuperDial
  BY <1>1, <1>5, RunStep DEF SuperDial, SuperGoes
<1>6. ASSUME NEW c \in Conns, Check(c) PROVE FeedInv'
  BY <1>0, <1>1, <1>6, IdleMove DEF Check, LateOnce
<1>7. ASSUME NEW c \in Conns, Pong(c) PROVE FeedInv'
  BY <1>0, <1>1, <1>7, StillReaders DEF Pong
<1>8. ASSUME NEW c \in Conns, Read(c) \/ Rebuild(c) \/ Store(c) PROVE FeedInv'
  BY <1>8, ReadStep, RebuildStep, StoreStep
<1>9. CASE UNCHANGED feedVars
  BY <1>0, <1>1, <1>9, StillReaders DEF feedVars, memory
<1> QED BY <1>2, <1>3, <1>4, <1>5, <1>6, <1>7, <1>8, <1>9
        DEF FeedNext, CallStep, SuperStep, ReaderStep

(* The caches only ever hold quotes of the subscribed symbols, and a       *)
(* reader that stores or rebuilds has a message in hand (adapter.go:       *)
(* 532-614).                                                               *)
THEOREM FeedTypeCorrect == FeedSpec => []FeedTypeOK
<1>1. FeedInv => FeedTypeOK
  BY DEF FeedInv
<1> QED BY <1>1, FeedInvInit, FeedInvNext, PTL DEF FeedSpec

(* Whatever the connections deliver, each writes at most one message after *)
(* its subscription is over (adapter.go:532-545).                          *)
THEOREM OneMoreUpdateAtMost == FeedSpec => []AtMostOneMoreUpdate
<1>1. FeedInv => AtMostOneMoreUpdate
  BY DEF FeedInv, LateOnce, AtMostOneMoreUpdate
<1> QED BY <1>1, FeedInvInit, FeedInvNext, PTL DEF FeedSpec

(* As long as the snapshots are sane, the books add no crossed quote       *)
(* (adapter.go:141-161 and 600-613).                                       *)
THEOREM BooksQuoteUncrossed == FeedSpec => []NoCrossedQuote
<1>1. FeedInv => NoCrossedQuote
  BY DEF FeedInv, FeedTypeOK, SaneBooks, NoCrossedQuote, GetTicker, NoAnswer
<1> QED BY <1>1, FeedInvInit, FeedInvNext, PTL DEF FeedSpec

-----------------------------------------------------------------------------
(* With one reader at most, nobody stores between its rebuild and its      *)
(* store: the crossed book it holds was crossed when no good one was       *)
(* cached, and none is now.                                                *)
OnlyOne == \A c, d \in Opened : c = d

GoodInv ==
  /\ IsFiniteSet(Opened)
  /\ OnlyOne => \A c \in Conns : HoldsCrossed(c) => books[reader[c].msg.sym] # "good"

(* A step of one reader leaves the others and the cache (adapter.go:       *)
(* 474-611).                                                               *)
LEMMA ReaderMoves ==
  ASSUME FeedInv, GoodInv, NEW c \in Conns, NEW pc \in ReaderPCs \ {"none"}, NEW m, ReaderGoes(c, pc, m),
         UNCHANGED books, pc = "store" /\ m.topic = "book" /\ m.shape = "crossed" => books[m.sym] # "good"
  PROVE  GoodInv'
<1>1. \A d \in Conns : reader'[d] = IF d = c THEN [pc |-> pc, msg |-> m] ELSE reader[d]
  BY DEF FeedInv, FeedTypeOK, ReaderGoes
<1>2. Opened' = Opened \cup {c}
  BY <1>1 DEF Opened
<1>3. IsFiniteSet(Opened')
  BY <1>2, FS_AddElement DEF GoodInv
<1>4. ASSUME OnlyOne', NEW d \in Conns, HoldsCrossed(d)' PROVE books'[reader'[d].msg.sym] # "good"
  <2>1. OnlyOne
    BY <1>2, <1>4 DEF OnlyOne
  <2>2. CASE d = c
    BY <1>1, <1>4, <2>1, <2>2 DEF HoldsCrossed
  <2>3. CASE d # c
    <3>1. d \in Opened /\ HoldsCrossed(d) /\ reader'[d] = reader[d]
      BY <1>1, <1>4, <2>3 DEF HoldsCrossed, Opened
    <3>2. FALSE
      BY <1>2, <1>4, <2>3, <3>1 DEF OnlyOne
    <3> QED BY <3>2
  <2> QED BY <2>2, <2>3
<1> QED BY <1>3, <1>4 DEF GoodInv

LEMMA GoodInvNext == FeedInv /\ GoodInv /\ [FeedNext]_feedVars => GoodInv'
<1> SUFFICES ASSUME FeedInv, GoodInv, [FeedNext]_feedVars PROVE GoodInv'
  OBVIOUS
<1>1. ASSUME UNCHANGED <<reader, books>> PROVE GoodInv'
  BY <1>1 DEF GoodInv, OnlyOne, Opened, HoldsCrossed
<1>2. ASSUME NEW c \in Conns, NEW pc \in {"check", "read", "ended"}, ReaderGoes(c, pc, NoMessage), UNCHANGED books
      PROVE  GoodInv'
  <2>1. pc \in ReaderPCs \ {"none"} /\ pc # "store"
    BY DEF ReaderPCs
  <2> QED BY <1>2, <2>1, ReaderMoves
<1>3. ASSUME run, UNCHANGED books PROVE GoodInv'
  BY <1>1, <1>2, <1>3 DEF run
<1>4. CASE Dial \/ SuperDial
  BY <1>3, <1>4 DEF Dial, SuperDial, SuperGoes, memory
<1>5. CASE StartSupervisor \/ CancelS \/ Deadline \/ FiveSeconds \/ SuperCheck \/ SuperProbe \/ SuperWake
           \/ UNCHANGED feedVars
  BY <1>1, <1>5 DEF StartSupervisor, CancelS, Deadline, FiveSeconds, SuperCheck, SuperProbe, SuperWake,
     SuperGoes, feedVars, memory
<1>6. ASSUME NEW c \in Conns, Check(c) \/ Pong(c) PROVE GoodInv'
  BY <1>1, <1>2, <1>6 DEF Check, Pong, memory
<1>7. ASSUME NEW c \in Conns, Read(c) PROVE GoodInv'
  <2>1. UNCHANGED books
    BY <1>7 DEF Read, memory
  <2>2. ASSUME NEW pc \in {"ended", "check"}, ReaderGoes(c, pc, NoMessage) PROVE GoodInv'
    BY <1>2, <2>1, <2>2
  <2>3. ASSUME NEW m \in Messages,
               ReaderGoes(c, IF m.topic = "book" /\ m.shape = "crossed" THEN "rebuild" ELSE "store", m)
        PROVE  GoodInv'
    <3> DEFINE pc == IF m.topic = "book" /\ m.shape = "crossed" THEN "rebuild" ELSE "store"
    <3>1. /\ pc \in ReaderPCs \ {"none"} /\ ReaderGoes(c, pc, m)
          /\ ~(pc = "store" /\ m.topic = "book" /\ m.shape = "crossed")
      BY <2>3 DEF ReaderPCs
    <3> HIDE DEF pc
    <3> QED BY <2>1, <3>1, ReaderMoves
  <2> QED BY <1>7, <2>2, <2>3 DEF Read
<1>8. ASSUME NEW c \in Conns, Rebuild(c) PROVE GoodInv'
  <2> DEFINE m == reader[c].msg
  <2>1. m \in Messages /\ m.sym \in Symbols /\ UNCHANGED books
    BY <1>8 DEF Rebuild, FeedInv, FeedTypeOK, Messages, memory
  <2>2. PICK b \in GetOrderbookL2(m.sym) : ReaderGoes(c, "store", IF b = NoAnswer THEN m ELSE [m EXCEPT !.shape = b])
    BY <1>8 DEF Rebuild
  <2> DEFINE n == IF b = NoAnswer THEN m ELSE [m EXCEPT !.shape = b]
  <2>3. n.sym = m.sym /\ (books[m.sym] = "good" => n.shape # "crossed")
    BY <2>1, <2>2 DEF Messages, GetOrderbookL2, NoAnswer
  <2>4. ReaderGoes(c, "store", n) /\ "store" \in ReaderPCs \ {"none"}
    BY <2>2 DEF ReaderPCs
  <2> HIDE DEF n, m
  <2> QED BY <2>1, <2>3, <2>4, ReaderMoves
<1>9. ASSUME NEW c \in Conns, Store(c) PROVE GoodInv'
  <2>1. ReaderGoes(c, "check", NoMessage) /\ "check" \in ReaderPCs \ {"none"} /\ reader[c].pc = "store"
    BY <1>9 DEF Store, ReaderPCs
  <2>2. \A d \in Conns : reader'[d] = IF d = c THEN [pc |-> "check", msg |-> NoMessage] ELSE reader[d]
    BY <2>1 DEF FeedInv, FeedTypeOK, ReaderGoes
  <2>3. Opened' = Opened /\ c \in Opened
    BY <2>1, <2>2 DEF Opened
  <2>4. ASSUME OnlyOne', NEW d \in Conns, HoldsCrossed(d)' PROVE FALSE
    <3>1. d # c /\ d \in Opened
      BY <2>2, <2>3, <2>4 DEF HoldsCrossed, Opened
    <3> QED BY <2>3, <2>4, <3>1 DEF OnlyOne
  <2> QED BY <2>3, <2>4 DEF GoodInv
<1> QED BY <1>4, <1>5, <1>6, <1>7, <1>8, <1>9 DEF FeedNext, CallStep, SuperStep, ReaderStep

(* On a single connection a crossed book never replaces a good one, also   *)
(* when snapshots fail or are crossed themselves: between the rebuild and  *)
(* the store of its only reader nothing else writes the cache, and a good  *)
(* book in the cache is what the rebuild takes (adapter.go:432-436 and     *)
(* 600-611).                                                               *)
THEOREM CrossedKeepsGoodHolds == FeedSpec => CrossedKeepsGood
<1>1. FeedInit => GoodInv
  <2> SUFFICES ASSUME FeedInit PROVE GoodInv
    OBVIOUS
  <2>1. Opened = {} /\ \A c \in Conns : ~HoldsCrossed(c)
    BY DEF FeedInit, Opened, HoldsCrossed
  <2> QED BY <2>1, FS_EmptySet DEF GoodInv
<1>2. FeedInv /\ GoodInv /\ [FeedNext]_feedVars
        => [Cardinality(Opened) <= 1 => \A s \in Symbols : books[s] = "good" => books'[s] # "crossed"]_feedVars
  <2> SUFFICES ASSUME FeedInv, GoodInv, [FeedNext]_feedVars, Cardinality(Opened) <= 1,
                      NEW s \in Symbols, books[s] = "good", books'[s] = "crossed"
               PROVE  FALSE
    OBVIOUS
  <2>1. PICK c \in Conns : Store(c)
    BY DEF FeedNext, CallStep, SuperStep, ReaderStep, Dial, StartSupervisor, CancelS, Deadline, FiveSeconds,
       SuperCheck, SuperProbe, SuperDial, SuperWake, SuperGoes, Check, Read, Pong, Rebuild, feedVars, memory
  <2>2. OnlyOne
    <3>1. ASSUME NEW d \in Opened, NEW e \in Opened, d # e PROVE FALSE
      <4>1. IsFiniteSet(Opened) /\ Cardinality(Opened) \in Nat
        BY FS_CardinalityType DEF GoodInv
      <4>2. {d, e} \subseteq Opened /\ Cardinality({d, e}) = 2
        <5>1. IsFiniteSet({d}) /\ Cardinality({d}) = 1 /\ e \notin {d} /\ {d, e} = {d} \cup {e}
          BY <3>1, FS_Singleton
        <5>2. Cardinality({d} \cup {e}) = Cardinality({d}) + 1
          BY <5>1, FS_AddElement
        <5> QED BY <3>1, <5>1, <5>2
      <4>3. Cardinality({d, e}) <= Cardinality(Opened)
        BY <4>1, <4>2, FS_Subset
      <4> QED BY <4>1, <4>2, <4>3
    <3> QED BY <3>1 DEF OnlyOne
  <2>3. HoldsCrossed(c) /\ reader[c].msg.sym = s
    BY <2>1 DEF Store, HoldsCrossed, FeedInv, FeedTypeOK
  <2> QED BY <2>2, <2>3 DEF GoodInv
<1> QED BY <1>1, <1>2, FeedInvInit, FeedInvNext, GoodInvNext, PTL DEF FeedSpec, CrossedKeepsGood
=============================================================================
