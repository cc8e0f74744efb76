---------------------------- MODULE SpotExchange ----------------------------
(***************************************************************************)
(* What an exchange may do with an order, seen through the adapter that    *)
(* sends it; the adapters themselves are compared in module SpotAdapters.  *)
(* The exchange is not in the repository; the adapters decide which of its *)
(* answers become an error.  Faults names what it may do besides filling   *)
(* and answering.                                                          *)
(***************************************************************************)
EXTENDS Integers

CONSTANTS
  MinQty,  \* minimum of every symbol's filters; 0 = none
  Faults

ASSUME ExchangeAssumption ==
  /\ MinQty \in Nat
  /\ Faults \subseteq {"reject", "lost", "nofill", "partial", "raw_status",
                       "no_info", "no_status", "error_body"}

TooSmall(qty) == qty < MinQty

(* An error, and nothing executed.                                         *)
NotSent == [ok |-> FALSE, fill |-> 0]

(* An order that is sent: an acknowledged IOC order fills, in part or in   *)
(* whole; an error is returned for one that is refused or, when the answer *)
(* is lost or comes after the deadline, for one that did execute.          *)
Executions(qty) ==
  IF qty = 0 THEN {NotSent}
  ELSE {o \in [ok : BOOLEAN, fill : {0, qty \div 2, qty}] :
          \/ o.ok /\ o.fill = qty
          \/ o.ok /\ o.fill = 0 /\ "nofill" \in Faults
          \/ o.ok /\ o.fill = qty \div 2 /\ "partial" \in Faults
          \/ ~o.ok /\ o.fill = 0 /\ "reject" \in Faults
          \/ ~o.ok /\ o.fill = qty /\ "lost" \in Faults}

(* Bybit's PlaceOrder refuses a quantity below the symbol's minimum.       *)
PlaceOutcomes(qty) == IF TooSmall(qty) THEN {NotSent} ELSE Executions(qty)

(* GetOrderFillInfo and GetOrderStatus answer with the filled quantity or  *)
(* fail.  A partly filled order may carry a status the code does not know. *)
Answered(fault) == IF fault \in Faults THEN BOOLEAN ELSE {TRUE}
GoodStatus(fill, qty) ==
  IF fill = qty THEN {TRUE} ELSE IF fill = 0 THEN {FALSE}
  ELSE IF "raw_status" \in Faults THEN BOOLEAN ELSE {TRUE}
=============================================================================
