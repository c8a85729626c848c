--------------------------- MODULE PurchaseReceipts ---------------------------
(* What was ordered and what arrived (app/procurement/orders.py, receipts.py): *)
(* a purchase order and its revisions, the approval each of them needs, goods *)
(* receipts drafted against them and posted, and the order being closed.      *)
(*                                                                            *)
(* One chain of revisions of an order with one line.  A posting reads the     *)
(* receipt and the order when it begins and writes absolute values when it    *)
(* commits; the other operations read and commit at once.                     *)
EXTENDS Integers, Sequences, FiniteSetsExt

CONSTANTS
  Receipts,      \* goods receipts
  Sessions,      \* the sessions that may post one
  AmendedToo,    \* whether goods are received against an order that was amended,
                 \* and an order is amended while goods are received
  MaxRevisions,  \* revisions of the order (a bound, not code)
  MaxQuantity    \* the quantity of an order or of a receipt (a bound)

SwitchAssumption == AmendedToo \in BOOLEAN
BoundsAssumption == MaxRevisions \in Nat \ {0} /\ MaxQuantity \in Nat \ {0}

VARIABLES
  orders,    \* the revisions, oldest first: status, quantity, received, short
  receipts,  \* receipts[r]: the order it was raised against, what it accepts, its state
  movements, \* movements[r]: how often the stock of r was moved
  tx         \* tx[s]: the open posting of s

vars == <<orders, receipts, movements, tx>>

None == "none"
Idle == [receipt |-> None, received |-> 0, over |-> FALSE]
Quantities == 1..MaxQuantity

Statuses == {"draft", "pending", "approved", "acknowledged", "returned", "rejected", "closed"}
Released == {"approved", "acknowledged"}

Init ==
  /\ \E q \in Quantities : orders = <<[status |-> "draft", quantity |-> q, received |-> 0,
                                       short |-> FALSE]>>
  /\ receipts = [r \in Receipts |-> [state |-> "absent", order |-> 1, accepted |-> 0,
                                     reason |-> FALSE]]
  /\ movements = [r \in Receipts |-> 0]
  /\ tx = [s \in Sessions |-> Idle]

Latest == Len(orders)

SetStatus(o, status) == orders' = [orders EXCEPT ![o].status = status]

(* submit_order: no level applies, or the chain is asked.                     *)
Submit(o, routed) ==
  /\ orders[o].status = "draft"
  /\ SetStatus(o, IF routed THEN "pending" ELSE "approved")
  /\ UNCHANGED <<receipts, movements, tx>>

(* decide_order: the decision that ends the chain (module Approval).          *)
Decide(o, outcome) ==
  /\ orders[o].status = "pending"
  /\ SetStatus(o, outcome)
  /\ UNCHANGED <<receipts, movements, tx>>

Acknowledge(o) ==
  /\ orders[o].status = "approved"
  /\ SetStatus(o, "acknowledged")
  /\ UNCHANGED <<receipts, movements, tx>>

(* Mutant of Amend: the revision starts with nothing received.                *)
MutForgetReceived(o, quantity) ==
  /\ o = Latest
  /\ o < MaxRevisions
  /\ orders[o].status # "draft"
  /\ quantity >= orders[o].received
  /\ AmendedToo \/ \A s \in Sessions : tx[s] = Idle
  /\ orders' = Append(orders, [status |-> "draft", quantity |-> quantity,
                               received |-> 0, short |-> FALSE])
  /\ UNCHANGED <<receipts, movements, tx>>

(* amend: a draft that carries the received quantity forward.  The amended    *)
(* order keeps its status.                                                    *)
Amend(o, quantity) ==
  /\ o = Latest
  /\ o < MaxRevisions
  /\ orders[o].status # "draft"
  /\ quantity >= orders[o].received
  /\ AmendedToo \/ \A s \in Sessions : tx[s] = Idle
  /\ orders' = Append(orders, [status |-> "draft", quantity |-> quantity,
                               received |-> orders[o].received, short |-> FALSE])
  /\ UNCHANGED <<receipts, movements, tx>>

(* Mutant of Close: nobody asks what is outstanding.                          *)
MutCloseAnyhow(o, short) ==
  /\ orders[o].status \in Released
  /\ orders' = [orders EXCEPT ![o].status = "closed", ![o].short = short]
  /\ UNCHANGED <<receipts, movements, tx>>

(* close_order: complete, or short with a stated reason.                      *)
Close(o, short) ==
  /\ orders[o].status \in Released
  /\ orders[o].quantity > orders[o].received => short
  /\ orders' = [orders EXCEPT ![o].status = "closed", ![o].short = short]
  /\ UNCHANGED <<receipts, movements, tx>>

(* create_receipt: a draft, of any quantity.  uq_goods_receipt_line_once lets *)
(* a receipt name an order line once, so it has the one line.                 *)
Draft(r, o, quantity) ==
  /\ receipts[r].state = "absent"
  /\ orders[o].status \in Released
  /\ receipts' = [receipts EXCEPT ![r] = [state |-> "draft", order |-> o,
                                          accepted |-> quantity, reason |-> FALSE]]
  /\ UNCHANGED <<orders, movements, tx>>

Postable(s, r) ==
  /\ tx[s] = Idle
  /\ receipts[r].state = "draft"
  /\ orders[receipts[r].order].status \in Released
  /\ AmendedToo \/ receipts[r].order = Latest

(* The receipt brings more than the order still expects.                      *)
Over(r) ==
  LET order == orders[receipts[r].order] IN order.received + receipts[r].accepted > order.quantity

Takes(s, r, over) ==
  tx' = [tx EXCEPT ![s] = [receipt |-> r, received |-> orders[receipts[r].order].received,
                           over |-> over]]

(* Mutant of Begin: over-receipt is not refused.                              *)
MutAnyQuantity(s, r, reason) ==
  /\ Postable(s, r)
  /\ Takes(s, r, Over(r) /\ reason)
  /\ UNCHANGED <<orders, receipts, movements>>

(* post_receipt checks, and reads what had arrived; a reason is recorded only *)
(* when it is needed.                                                         *)
Begin(s, r, reason) ==
  /\ Postable(s, r)
  /\ Over(r) => reason
  /\ Takes(s, r, Over(r))
  /\ UNCHANGED <<orders, receipts, movements>>

(* Mutant of Commit: the receipt gets a state unknown to the table.          *)
MutReceivedState(s) ==
  LET r == tx[s].receipt IN
  /\ tx[s] # Idle
  /\ orders' = [orders EXCEPT ![receipts[r].order].received =
                  tx[s].received + receipts[r].accepted]
  /\ receipts' = [receipts EXCEPT ![r].state = "received", ![r].reason = tx[s].over]
  /\ movements' = [movements EXCEPT ![r] = @ + 1]
  /\ tx' = [tx EXCEPT ![s] = Idle]

(* ... moves the stock, and commits the received quantity and the state of    *)
(* the receipt.                                                               *)
Commit(s) ==
  LET r == tx[s].receipt IN
  /\ tx[s] # Idle
  /\ orders' = [orders EXCEPT ![receipts[r].order].received =
                  tx[s].received + receipts[r].accepted]
  /\ receipts' = [receipts EXCEPT ![r].state = "posted", ![r].reason = tx[s].over]
  /\ movements' = [movements EXCEPT ![r] = @ + 1]
  /\ tx' = [tx EXCEPT ![s] = Idle]

(* The posting fails before its commit.                                       *)
Abort(s) ==
  /\ tx[s] # Idle
  /\ tx' = [tx EXCEPT ![s] = Idle]
  /\ UNCHANGED <<orders, receipts, movements>>

Next ==
  \/ \E o \in 1..Latest :
       \/ \E routed \in BOOLEAN : Submit(o, routed)
       \/ \E outcome \in {"approved", "returned", "rejected"} : Decide(o, outcome)
       \/ Acknowledge(o)
       \/ \E q \in Quantities : Amend(o, q)
       \/ \E short \in BOOLEAN : Close(o, short)
       \/ \E r \in Receipts, q \in Quantities : Draft(r, o, q)
  \/ \E s \in Sessions :
       \/ \E r \in Receipts, reason \in BOOLEAN : Begin(s, r, reason)
       \/ Commit(s)
       \/ Abort(s)

Spec == Init /\ [][Next]_vars

(* -------------------------------- properties ------------------------------ *)

TypeOK ==
  /\ orders \in Seq([status : Statuses, quantity : Quantities, received : Nat, short : BOOLEAN])
  /\ receipts \in [Receipts -> [state : {"absent", "draft", "posted"}, order : 1..MaxRevisions,
                                accepted : Nat, reason : BOOLEAN]]
  /\ movements \in [Receipts -> Nat]
  /\ tx \in [Sessions -> [receipt : Receipts \cup {None}, received : Nat, over : BOOLEAN]]

Posted == {r \in Receipts : movements[r] > 0}
Arrived == MapThenSumSet(LAMBDA r : movements[r] * receipts[r].accepted, Posted)

(* "What is still expected stops being a guess": the order, in its latest     *)
(* revision, knows how much of it has arrived.                                *)
ReceivedTellsArrived == orders[Latest].received = Arrived

(* "Receiving more than the order asked for is refused unless a reason is     *)
(* stated": when more has arrived than any revision asked for, a receipt says *)
(* why.                                                                       *)
OverReceiptIsDecided ==
  (\A o \in 1..Latest : Arrived > orders[o].quantity) => \E r \in Posted : receipts[r].reason

(* "Refused while it still expects goods": an order closed without a reason   *)
(* has received all of it.                                                    *)
ClosedIsComplete ==
  \A o \in 1..Latest :
    (orders[o].status = "closed" /\ ~orders[o].short) => orders[o].received >= orders[o].quantity
=============================================================================
