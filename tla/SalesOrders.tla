----------------------------- MODULE SalesOrders -----------------------------
(* From an offer to the money for it (app/sales/quotations.py, orders.py,     *)
(* fulfilment.py, app/ar/invoices.py, exposure.py): a quotation is priced,    *)
(* becomes one order, the order is confirmed against the customer's credit,   *)
(* picked, shipped in parts, billed and paid.                                 *)
(*                                                                            *)
(* One customer, one warehouse, one line per document.  A quotation becomes   *)
(* at most one order, so a quotation names its order too.  Repricing,         *)
(* converting, confirming and shipping read when they begin and write what    *)
(* they computed when they commit; the other requests do both at once.        *)
EXTENDS Integers, FiniteSets

CONSTANTS
  Quotes,     \* quotations, and the orders they become
  Quantity,   \* Quantity[q]: the units on the line of q
  Prices,     \* unit prices
  Invoices,   \* customer invoices
  Nets,       \* the amounts invoices are raised for
  Payments,   \* the amounts the customer pays
  Stated,     \* what a caller may state as the exposure, instead of the live one
  Sessions,   \* database sessions
  Limit,      \* the credit limit agreed with the customer, or Null
  Tax,        \* the tax on an invoice
  StartModes, \* the credit-check modes to start from (a bound, not code)
  Serial,     \* whether one session at a time works on an order, and one confirms
  Stocked,    \* units in the warehouse
  LastDay     \* the days of a run (a bound, not code)

None == "none"
Null == -1   \* a number that was not stated

QuantityAssumption ==
  IsFiniteSet(Quotes) /\ None \notin Quotes /\ Quantity \in [Quotes -> Nat \ {0}]
AmountAssumption ==
  /\ IsFiniteSet(Invoices)
  /\ Prices \subseteq Nat /\ Nets \subseteq Nat \ {0} /\ Payments \subseteq Nat \ {0}
  /\ Stated \subseteq Nat
  /\ Tax \in Nat /\ Stocked \in Nat /\ LastDay \in Nat \ {0} /\ Limit \in Nat \cup {Null}
SerialAssumption == Serial \in BOOLEAN /\ StartModes \subseteq {"off", "warn", "block", None}

VARIABLES
  today,     \* the date
  mode,      \* the company's credit-check mode, or None where it stated none
  quotes,    \* the quotation rows
  orders,    \* the order rows, with what the credit decision recorded
  picked,    \* picked[q]: what the picker of q found, or Null without a pick list
  left,      \* left[q]: units on the shipment rows of q
  bin,       \* on_hand of the warehouse
  invoices,  \* the customer invoices with what settled them
  onAccount, \* receipts of the customer that name no invoice
  withheld,  \* history: by how much the exposures callers stated fell short of the live
             \* ones
  tx         \* tx[s]: the open request of s

vars == <<today, mode, quotes, orders, picked, left, bin, invoices, onAccount, withheld,
          tx>>

Days == 1..LastDay
Modes == {"off", "warn", "block", None}

QuoteRows == [status : {"absent", "open"}, price : Prices \cup {Null},
              until : Days \cup {Null}]
OrderRows == [status : {"absent", "draft", "confirmed"}, price : Prices \cup {0},
              shipped : Nat, exposure : Nat, breached : BOOLEAN, acknowledged : BOOLEAN]
InvoiceRows == [status : {"absent", "draft", "posted"}, order : Quotes \cup {None},
                net : Nets \cup {0}, settled : Nat]
PickRows == Nat \cup {Null}

Idle == [op |-> None, quote |-> None, read |-> 0, asked |-> 0]
NoOrder == [status |-> "absent", price |-> 0, shipped |-> 0, exposure |-> 0,
            breached |-> FALSE, acknowledged |-> FALSE]

Init ==
  /\ today = 1
  /\ mode \in StartModes
  /\ quotes = [q \in Quotes |-> [status |-> "absent", price |-> Null, until |-> Null]]
  /\ orders = [q \in Quotes |-> NoOrder]
  /\ picked = [q \in Quotes |-> Null]
  /\ left = [q \in Quotes |-> 0]
  /\ bin = Stocked
  /\ invoices = [i \in Invoices |-> [status |-> "absent", order |-> None, net |-> 0,
                                     settled |-> 0]]
  /\ onAccount = 0
  /\ withheld = 0
  /\ tx = [s \in Sessions |-> Idle]

Largest(a, b) == IF a > b THEN a ELSE b

(* Amounts are not negative: their sum is counted in units.                   *)
Counted(amounts) == UNION {{x} \X (1..amounts[x]) : x \in DOMAIN amounts}
Total(amounts) == Cardinality(Counted(amounts))

(* ------------------------------- quotations ------------------------------- *)

(* create_quotation: the number is new.                                       *)
CreateQuotation(q, until) ==
  /\ quotes[q].status = "absent"
  /\ quotes' = [quotes EXCEPT ![q] = [status |-> "open", price |-> Null, until |-> until]]
  /\ UNCHANGED <<today, mode, orders, picked, left, bin, invoices, onAccount, withheld, tx>>

Converted(q) == orders[q].status # "absent"
Expired(q) == quotes[q].until # Null /\ today > quotes[q].until

(* add_line: the line number is new, and the offer is not an order yet.       *)
AddLine(q, price) ==
  /\ quotes[q].status = "open"
  /\ quotes[q].price = Null
  /\ ~Converted(q)
  /\ quotes' = [quotes EXCEPT ![q].price = price]
  /\ UNCHANGED <<today, mode, orders, picked, left, bin, invoices, onAccount, withheld, tx>>

(* The request of s begins.  Where the users take turns, no other request is  *)
(* at the same order, and no two are confirming.                              *)
Starts(s, op, q, read, asked) ==
  /\ tx[s] = Idle
  /\ Serial => \A t \in Sessions : /\ tx[t].quote # q
                                   /\ ~(op = "confirm" /\ tx[t].op = "confirm")
  /\ tx' = [tx EXCEPT ![s] = [op |-> op, quote |-> q, read |-> read, asked |-> asked]]
  /\ UNCHANGED <<today, mode, quotes, orders, picked, left, bin, invoices, onAccount, withheld>>

(* reprice_quotation: every line, with a new window.                          *)
BeginReprice(s, q, price) ==
  /\ quotes[q].price # Null
  /\ ~Converted(q)
  /\ Starts(s, "reprice", q, 0, price)

Ends(s, op) ==
  /\ tx[s].op = op
  /\ tx' = [tx EXCEPT ![s] = Idle]

CommitReprice(s) ==
  /\ Ends(s, "reprice")
  /\ today < LastDay
  /\ quotes' = [quotes EXCEPT ![tx[s].quote].price = tx[s].asked,
                              ![tx[s].quote].until = LastDay]
  /\ UNCHANGED <<today, mode, orders, picked, left, bin, invoices, onAccount, withheld>>

(* ---------------------------------- orders -------------------------------- *)

(* convert_quotation_to_order: once, with identical lines, inside the window. *)
BeginConvert(s, q) ==
  /\ ~Converted(q)
  /\ quotes[q].price # Null
  /\ ~Expired(q)
  /\ Starts(s, "convert", q, quotes[q].price, 0)

(* The unique index on the quotation of an order decides a race.              *)
CommitConvert(s) ==
  LET q == tx[s].quote IN
  /\ Ends(s, "convert")
  /\ ~Converted(q)
  /\ orders' = [orders EXCEPT ![q] = [NoOrder EXCEPT !.status = "draft", !.price = tx[s].read]]
  /\ UNCHANGED <<today, mode, quotes, picked, left, bin, invoices, onAccount, withheld>>

OrderTotal(q) == Quantity[q] * orders[q].price
Posted == {i \in Invoices : invoices[i].status = "posted"}

(* What an order has been invoiced for, net of tax; with None, what was        *)
(* invoiced without an order.                                                 *)
BilledNet(q) == Total([i \in {j \in Posted : invoices[j].order = q} |-> invoices[i].net])

(* Mutant of Unbilled: what has been shipped is no longer a commitment.       *)
MutUnshipped(q) ==
  IF orders[q].status = "confirmed"
  THEN Largest(0, orders[q].price * (Quantity[q] - orders[q].shipped)) ELSE 0

(* What a confirmed order still commits the customer to: its total less what  *)
(* has been invoiced, not less what has been shipped.                         *)
Unbilled(q) ==
  IF orders[q].status = "confirmed" THEN Largest(0, OrderTotal(q) - BilledNet(q)) ELSE 0

Gross(i) == invoices[i].net + Tax
OpenAmount(i) == Gross(i) - invoices[i].settled

(* Mutant of Exposure: what is on account may exceed what is owed.             *)
MutSigned ==
  Total([i \in Posted |-> OpenAmount(i)]) + Total([q \in Quotes |-> Unbilled(q)]) - onAccount

(* customer_exposure: open invoices and commitments less what is on account,  *)
(* never negative.                                                            *)
Exposure ==
  Largest(0, Total([i \in Posted |-> OpenAmount(i)]) + Total([q \in Quotes |-> Unbilled(q)])
             - onAccount)

Within(value) == Limit = Null \/ value <= Limit

(* The live exposure, or the one the caller states.                           *)
Judged(stated) == IF stated = Null THEN Exposure ELSE stated
Short(stated) == Largest(0, Exposure - Judged(stated))

(* Mutant of BeginConfirm: the order itself is not part of what is compared.  *)
MutConfirmAlone(s, q, acknowledge, stated) ==
  /\ orders[q].status = "draft"
  /\ mode # None
  /\ mode = "block" => Within(Judged(stated))
  /\ mode = "warn" => Within(Judged(stated)) \/ acknowledge
  /\ Starts(s, "confirm", q, Judged(stated), Short(stated))

(* confirm_order judges what the order would leave the customer owing; a      *)
(* company without a mode confirms nothing.                                   *)
BeginConfirm(s, q, acknowledge, stated) ==
  /\ orders[q].status = "draft"
  /\ mode # None
  /\ mode = "block" => Within(Judged(stated) + OrderTotal(q))
  /\ mode = "warn" => Within(Judged(stated) + OrderTotal(q)) \/ acknowledge
  /\ Starts(s, "confirm", q, Judged(stated), Short(stated))

(* The order and the decision that confirmed it.                              *)
CommitConfirm(s) ==
  LET q == tx[s].quote
      over == ~Within(tx[s].read + OrderTotal(q)) IN
  /\ Ends(s, "confirm")
  /\ orders' = [orders EXCEPT ![q].status = "confirmed", ![q].exposure = tx[s].read,
                              ![q].breached = over,
                              ![q].acknowledged = over /\ mode = "warn"]
  /\ withheld' = withheld + tx[s].asked
  /\ UNCHANGED <<today, mode, quotes, picked, left, bin, invoices, onAccount>>

(* -------------------------------- fulfilment ------------------------------ *)

(* generate_pick_list: a confirmed order gets one.                            *)
GeneratePickList(q) ==
  /\ orders[q].status = "confirmed"
  /\ picked[q] = Null
  /\ picked' = [picked EXCEPT ![q] = 0]
  /\ UNCHANGED <<today, mode, quotes, orders, left, bin, invoices, onAccount, withheld, tx>>

(* record_picked states the quantity, at most what the line asks for.         *)
RecordPicked(q, quantity) ==
  /\ picked[q] # Null
  /\ quantity <= Quantity[q]
  /\ picked' = [picked EXCEPT ![q] = quantity]
  /\ UNCHANGED <<today, mode, quotes, orders, left, bin, invoices, onAccount, withheld, tx>>

Remaining(q) == Quantity[q] - orders[q].shipped

(* Mutant of BeginShip: the whole line is owed, whatever has left already.    *)
MutShipWhole(s, q, units) ==
  /\ orders[q].status = "confirmed"
  /\ units \in 1..Quantity[q]
  /\ Starts(s, "ship", q, orders[q].shipped, units)

(* ship_order: at most what the order still owes, as the session read it.     *)
BeginShip(s, q, units) ==
  /\ orders[q].status = "confirmed"
  /\ units \in 1..Remaining(q)
  /\ Starts(s, "ship", q, orders[q].shipped, units)

(* issue takes the lock of the bin, refuses to take it negative, and writes;  *)
(* the order line gets an absolute value.                                     *)
CommitShip(s) ==
  LET q == tx[s].quote IN
  /\ Ends(s, "ship")
  /\ bin >= tx[s].asked
  /\ bin' = bin - tx[s].asked
  /\ left' = [left EXCEPT ![q] = @ + tx[s].asked]
  /\ orders' = [orders EXCEPT ![q].shipped = tx[s].read + tx[s].asked]
  /\ UNCHANGED <<today, mode, quotes, picked, invoices, onAccount, withheld>>

(* -------------------------------- receivables ----------------------------- *)

(* create_invoice bills an order for which something has shipped, one gross   *)
(* amount once, or names no order at all.                                     *)
CreateInvoice(i, q, net) ==
  /\ invoices[i].status = "absent"
  /\ q # None => /\ left[q] > 0
                 /\ \A j \in Invoices : invoices[j].order = q => invoices[j].net # net
  /\ invoices' = [invoices EXCEPT ![i] = [status |-> "draft", order |-> q, net |-> net,
                                          settled |-> 0]]
  /\ UNCHANGED <<today, mode, quotes, orders, picked, left, bin, onAccount, withheld, tx>>

(* post_invoice: a draft, once.                                               *)
PostInvoice(i) ==
  /\ invoices[i].status = "draft"
  /\ invoices' = [invoices EXCEPT ![i].status = "posted"]
  /\ UNCHANGED <<today, mode, quotes, orders, picked, left, bin, onAccount, withheld, tx>>

(* settle: under the lock of the invoice, at most what is open.               *)
Settle(i, amount) ==
  /\ invoices[i].status = "posted"
  /\ amount \in 1..OpenAmount(i)
  /\ invoices' = [invoices EXCEPT ![i].settled = @ + amount]

Receive(i, amount) ==
  /\ Settle(i, amount)
  /\ UNCHANGED <<today, mode, quotes, orders, picked, left, bin, onAccount, withheld, tx>>

(* A receipt that names no invoice, until somebody places it (app/ar/gateway.py). *)
Park(amount) ==
  /\ onAccount = 0
  /\ onAccount' = amount
  /\ UNCHANGED <<today, mode, quotes, orders, picked, left, bin, invoices, withheld, tx>>

Place(i) ==
  /\ onAccount > 0
  /\ Settle(i, onAccount)
  /\ onAccount' = 0
  /\ UNCHANGED <<today, mode, quotes, orders, picked, left, bin, withheld, tx>>

(* ----------------------------------- runs --------------------------------- *)

Abort(s) ==
  /\ tx[s] # Idle
  /\ tx' = [tx EXCEPT ![s] = Idle]
  /\ UNCHANGED <<today, mode, quotes, orders, picked, left, bin, invoices, onAccount, withheld>>

Tomorrow ==
  /\ today < LastDay
  /\ today' = today + 1
  /\ UNCHANGED <<mode, quotes, orders, picked, left, bin, invoices, onAccount, withheld, tx>>

Request(s) ==
  \/ \E q \in Quotes :
       \/ \E p \in Prices : BeginReprice(s, q, p)
       \/ BeginConvert(s, q)
       \/ \E acknowledge \in BOOLEAN, stated \in Stated \cup {Null} :
            BeginConfirm(s, q, acknowledge, stated)
       \/ \E units \in 1..Quantity[q] : BeginShip(s, q, units)
  \/ CommitReprice(s)
  \/ CommitConvert(s)
  \/ CommitConfirm(s)
  \/ CommitShip(s)
  \/ Abort(s)

Next ==
  \/ \E s \in Sessions : Request(s)
  \/ \E q \in Quotes :
       \/ \E until \in {1, Null} : CreateQuotation(q, until)
       \/ \E p \in Prices : AddLine(q, p)
       \/ GeneratePickList(q)
       \/ RecordPicked(q, Quantity[q])
  \/ \E i \in Invoices :
       \/ \E q \in Quotes \cup {None}, net \in Nets : CreateInvoice(i, q, net)
       \/ PostInvoice(i)
       \/ \E amount \in Payments : Receive(i, amount)
       \/ Place(i)
  \/ \E amount \in Payments : Park(amount)
  \/ Tomorrow

Spec == Init /\ [][Next]_vars

(* -------------------------------- properties ------------------------------ *)

TypeOK ==
  /\ today \in Days
  /\ mode \in Modes
  /\ quotes \in [Quotes -> QuoteRows]
  /\ orders \in [Quotes -> OrderRows]
  /\ picked \in [Quotes -> PickRows]
  /\ left \in [Quotes -> Nat]
  /\ bin \in Nat
  /\ invoices \in [Invoices -> InvoiceRows]
  /\ onAccount \in Nat
  /\ withheld \in Nat

(* "A credit limit is only a control if the number it is compared against is  *)
(* the whole picture": what left, and what was invoiced without an order, less *)
(* what was paid, is in the exposure, however far its invoice has come.       *)
ExposureCoversGoods ==
  Exposure >= Total([q \in Quotes |-> left[q] * orders[q].price]) + BilledNet(None)
              - Total([i \in Posted |-> invoices[i].settled]) - onAccount

(* "`block` refuses the confirmation": while nothing is billed beyond its     *)
(* order, the customer owes beyond the limit only what no confirmation is     *)
(* asked about, tax and invoices without an order, and what callers who state *)
(* an exposure of their own left out of it.                                   *)
BlockedWithinLimit ==
  (mode = "block" /\ \A q \in Quotes : BilledNet(q) <= OrderTotal(q)) =>
     Within(Exposure - Tax * Cardinality(Posted) - BilledNet(None) - withheld)

(* "An order fulfilled in two shipments cannot hand out the same quantity     *)
(* twice."                                                                    *)
Promise == INSTANCE OrderPromise WITH
  Orders <- Quotes,
  owed <- [q \in Quotes |-> IF orders[q].status = "confirmed" THEN Quantity[q] - left[q] ELSE -1],
  bin <- bin
KeepsPromise == Promise!Spec
=============================================================================
