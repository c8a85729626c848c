------------------------------- MODULE Production ------------------------------
(* One work order on the shop floor (app/manufacturing/work_orders.py,        *)
(* issues.py, job_cards.py, receipts.py, costing.py): material is issued to   *)
(* it, time is booked on it, finished goods are received from it, and it is   *)
(* costed once.                                                               *)
(*                                                                            *)
(* Material is valued at a fixed unit cost and time at one rate per minute.   *)
(* Issuing, booking, receiving and costing read in one step and write in      *)
(* another: what was found is not looked at again, no row is locked and no    *)
(* index refuses a second issue, booking or receipt.                          *)
EXTENDS Integers, FiniteSets, FiniteSetsExt, Functions

CONSTANTS
  Parts,     \* the items the bill explodes into
  Direct,    \* those at its first level
  Required,  \* Required[p]: what the whole order takes of p
  Cost,      \* Cost[p]: the stock's unit cost of p
  Stocked,   \* Stocked[p]: units of p in the store
  Tolerance, \* issuing more than this per cent over needs an override
  Ordered,   \* units to make
  Steps,     \* the operations of the route
  Rated,     \* those whose work centre has a rate
  Planned,   \* minutes an operation may book before an overrun
  Rate,      \* cost of a minute
  Standard,  \* standard cost of the order
  Given,     \* quantities a request may name
  Booked,    \* minutes a booking may name
  LastEntry, \* bookings (a bound, not code)
  Serial,    \* whether one issue, booking or receipt of the order is under way at a time
  Sessions   \* database sessions

None == "none"
OrderAssumption ==
  /\ Direct \subseteq Parts /\ Rated \subseteq Steps /\ IsFiniteSet(Parts)
  /\ Required \in [Parts -> Nat \ {0}] /\ Cost \in [Parts -> Nat] /\ Stocked \in [Parts -> Nat]
  /\ Ordered \in Nat \ {0} /\ Planned \in Nat /\ Rate \in Nat /\ Standard \in Nat
  /\ Tolerance \in Nat /\ Given \cup Booked \subseteq Nat \ {0} /\ LastEntry \in Nat
  /\ Serial \in BOOLEAN

VARIABLES
  status,   \* of the work order
  issued,   \* issued[p]: units issued
  signed,   \* signed[p]: whether an issue over the ceiling was overridden
  receipts, \* the receipts: received units, their value, whether one completes
  cards,    \* cards[k]: the job card of operation k
  entries,  \* the bookings
  cost,     \* the cost row
  books,    \* balances this order posted: work in progress, inventory, variance
  posted,   \* journal entries of the costing
  asked,    \* asked[s]: the issue, booking or receipt s has checked and not written
  costing   \* costing[s]: what an open costing of s computed

vars == <<status, issued, signed, receipts, cards, entries, cost, books, posted, asked,
          costing>>
floor == <<cards, entries>>
finance == <<cost, books, posted, costing>>

Statuses == {None, "planned", "released", "in_progress", "completed", "closed"}
ReceiptRows == [units : 0..Ordered, value : Nat, completes : BOOLEAN, material : Nat]
EntryRows == [n : 1..LastEntry, step : Steps, minutes : Nat \ {0},
              acknowledged : BOOLEAN, correction : BOOLEAN]
CostRows == [material : Nat, labour : Nat, capitalised : Nat]
Balances == [wip : Int, inventory : Int, labour : Int, variance : Int]
Uncosted == [material |-> -1, labour |-> 0, capitalised |-> 0]
Idle == [op |-> None]
Requests ==
  {Idle}
  \cup [op : {"issue"}, part : Parts, quantity : Given, override : BOOLEAN]
  \cup [op : {"book"}, step : Steps, minutes : Booked, acknowledged : BOOLEAN]
  \cup [op : {"receive"}, units : Given, drawn : [Parts -> Nat], value : Nat \ {0},
        completes : BOOLEAN]

Init ==
  /\ status = None
  /\ issued = [p \in Parts |-> 0] /\ signed = [p \in Parts |-> FALSE]
  /\ receipts = [units |-> 0, value |-> 0, completes |-> FALSE, material |-> 0]
  /\ cards = [k \in Steps |-> None] /\ entries = {}
  /\ cost = Uncosted /\ posted = 0
  /\ books = [wip |-> 0, inventory |-> 0, labour |-> 0, variance |-> 0]
  /\ asked = [s \in Sessions |-> Idle]
  /\ costing = [s \in Sessions |-> Uncosted]

Total(S, f(_)) == MapThenSumSet(f, S)

(* ------------------------------- work order ------------------------------- *)

CreateWorkOrder ==
  /\ status = None
  /\ status' = "planned"
  /\ UNCHANGED <<issued, signed, receipts, floor, finance, asked>>

Transitions == [planned |-> "released", released |-> "in_progress",
                in_progress |-> "completed", completed |-> "closed"]

Advance ==
  /\ status \in DOMAIN Transitions
  /\ status' = Transitions[status]
  /\ UNCHANGED <<issued, signed, receipts, floor, finance, asked>>

(* -------------------------------- requests -------------------------------- *)

(* What s asks for has passed its checks.  Where the users take turns, no     *)
(* other issue, booking or receipt is between its checks and its commit.      *)
Asks(s, request) ==
  /\ asked[s] = Idle
  /\ Serial => \A t \in Sessions : asked[t] = Idle
  /\ asked' = [asked EXCEPT ![s] = request]
  /\ UNCHANGED <<status, issued, signed, receipts, floor, finance>>

Answers(s, op) ==
  /\ asked[s].op = op
  /\ asked' = [asked EXCEPT ![s] = Idle]

(* The request ends without effect: what it needs is not in the store, or its *)
(* session died.                                                              *)
Drop(s) ==
  /\ asked[s] # Idle
  /\ asked' = [asked EXCEPT ![s] = Idle]
  /\ UNCHANGED <<status, issued, signed, receipts, floor, finance>>

(* --------------------------------- issues --------------------------------- *)

IssuedValue(given) == Total(Parts, LAMBDA p : given[p] * Cost[p])
Ceiling(p) == (Required[p] * (100 + Tolerance)) \div 100

(* issue_material compares what was issued so far with the ceiling.           *)
BeginIssue(s, p, quantity, override) ==
  /\ status # None
  /\ issued[p] + quantity <= Ceiling(p) \/ override
  /\ Asks(s, [op |-> "issue", part |-> p, quantity |-> quantity, override |-> override])

(* The stock ledger, under the lock of the bin, takes the material out of the *)
(* store into the work in progress account.                                   *)
CommitIssue(s) ==
  LET p == asked[s].part
      quantity == asked[s].quantity IN
  /\ Answers(s, "issue")
  /\ issued[p] + quantity <= Stocked[p]
  /\ issued' = [issued EXCEPT ![p] = @ + quantity]
  /\ signed' = [signed EXCEPT ![p] = @ \/ asked[s].override]
  /\ books' = [books EXCEPT !.wip = @ + quantity * Cost[p],
                            !.inventory = @ - quantity * Cost[p]]
  /\ UNCHANGED <<status, receipts, floor, cost, posted, costing>>

(* -------------------------------- job cards ------------------------------- *)

OpenCard(k) ==
  /\ status # None /\ cards[k] = None
  /\ cards' = [cards EXCEPT ![k] = "open"]
  /\ UNCHANGED <<status, issued, signed, receipts, entries, finance, asked>>

Minutes(S) == Total(S, LAMBDA e : e.minutes)
BookedMinutes(k) == Minutes({e \in entries : e.step = k})
(* Mutant of Overrun: the booking alone is held against the plan.             *)
MutBookingAlone(k, minutes) == minutes > Planned
Overrun(k, minutes) == BookedMinutes(k) + minutes > Planned

Entry(k, minutes, acknowledged, correction) ==
  /\ Cardinality(entries) < LastEntry
  /\ entries' = entries \cup
       {[n |-> Cardinality(entries) + 1, step |-> k, minutes |-> minutes,
         acknowledged |-> acknowledged, correction |-> correction]}
  /\ UNCHANGED <<status, issued, signed, receipts, cards, finance>>

(* book_time adds up what the operation was booked so far.                    *)
BeginBook(s, k, minutes, acknowledge) ==
  /\ cards[k] = "open"
  /\ Overrun(k, minutes) => acknowledge
  /\ Asks(s, [op |-> "book", step |-> k, minutes |-> minutes,
              acknowledged |-> acknowledge /\ Overrun(k, minutes)])

CommitBook(s) ==
  /\ Answers(s, "book")
  /\ Entry(asked[s].step, asked[s].minutes, asked[s].acknowledged, FALSE)

(* A correction is one more entry on a closed card, with no limit.            *)
CorrectEntry(k, minutes) ==
  /\ cards[k] = "closed" /\ \E e \in entries : e.step = k
  /\ Entry(k, minutes, FALSE, TRUE)
  /\ UNCHANGED asked

CloseCard(k) ==
  /\ cards[k] = "open"
  /\ cards' = [cards EXCEPT ![k] = "closed"]
  /\ UNCHANGED <<status, issued, signed, receipts, entries, finance, asked>>

(* -------------------------------- receipts -------------------------------- *)

(* Rounding is half to even, in the smallest unit.                            *)
Rounded(n, d) ==
  LET low == n \div d rest == 2 * (n % d) IN
  IF rest > d \/ (rest = d /\ low % 2 = 1) THEN low + 1 ELSE low

(* What units of output take of a direct part.                                *)
Target(p, units) == Rounded(Required[p] * units, Ordered)
(* Mutant of Due: this receipt is covered, whatever the earlier ones took.    *)
MutThisReceipt(units) == units
Due(units) == receipts.units + units

Covered(units) == \A p \in Direct : issued[p] >= Target(p, Due(units))

(* Backflushing issues what a direct part is short of.                        *)
Backflushed(units) ==
  [p \in Parts |-> IF p \in Direct THEN Max({issued[p], Target(p, Due(units))}) ELSE issued[p]]

(* Mutant of ValueOf: the last receipt takes its share like the others.       *)
MutShare(given, units) ==
  LET left == IssuedValue(given) - receipts.value IN
  Min({Rounded(IssuedValue(given) * units, Ordered), left})
ValueOf(given, units) ==
  LET left == IssuedValue(given) - receipts.value IN
  IF receipts.units + units = Ordered THEN left
  ELSE Min({Rounded(IssuedValue(given) * units, Ordered), left})

(* receive_finished_goods reads what was received and issued, and what is     *)
(* issued with it.  A movement of no value is refused by the journal lines it *)
(* would post.                                                                *)
BeginReceive(s, units, backflush) ==
  LET given == IF backflush THEN Backflushed(units) ELSE issued IN
  /\ status \in {"in_progress", "completed"}
  /\ receipts.units + units <= Ordered
  /\ ~backflush => Covered(units)
  /\ ValueOf(given, units) > 0
  /\ Asks(s, [op |-> "receive", units |-> units,
              drawn |-> [p \in Parts |-> given[p] - issued[p]],
              value |-> ValueOf(given, units), completes |-> receipts.units + units = Ordered])

CommitReceive(s) ==
  LET r == asked[s]
      given == [p \in Parts |-> issued[p] + r.drawn[p]] IN
  /\ Answers(s, "receive")
  /\ \A p \in Parts : r.drawn[p] > 0 => given[p] <= Stocked[p]
  /\ issued' = given
  /\ receipts' = [units |-> receipts.units + r.units, value |-> receipts.value + r.value,
                  completes |-> receipts.completes \/ r.completes,
                  material |-> IssuedValue(given)]
  /\ books' = [books EXCEPT !.wip = @ + IssuedValue(given) - IssuedValue(issued) - r.value,
                            !.inventory = @ - IssuedValue(given) + IssuedValue(issued) + r.value]
  /\ UNCHANGED <<status, signed, floor, cost, posted, costing>>

(* --------------------------------- costing -------------------------------- *)

Labour == Minutes(entries) * Rate

BeginCost(s) ==
  /\ costing[s] = Uncosted /\ cost = Uncosted
  /\ receipts.units >= Ordered
  /\ \A e \in entries : e.step \in Rated
  /\ costing' = [costing EXCEPT ![s] = [material |-> IssuedValue(issued), labour |-> Labour,
                                        capitalised |-> receipts.value]]
  /\ UNCHANGED <<status, issued, signed, receipts, floor, cost, books, posted, asked>>

(* The entry has to balance, and an account that is not moved has no line: a  *)
(* figure of zero is refused for the inventory and the labour line.           *)
Postable(c) ==
  /\ c.material = c.capitalised
  /\ c.material + c.labour - c.capitalised # 0
  /\ Standard # c.material

(* Mutant of OnlyCost: the cost row of an order is not unique.                *)
MutNotUnique == TRUE
OnlyCost == cost = Uncosted

CommitCost(s) ==
  LET c == costing[s] IN
  /\ c # Uncosted /\ OnlyCost /\ Postable(c)
  /\ cost' = c
  /\ posted' = posted + 1
  /\ books' = [books EXCEPT !.inventory = @ + c.material + c.labour - c.capitalised,
                            !.labour = @ - (Standard - c.material),
                            !.variance = @ - (c.material + c.labour - Standard)]
  /\ costing' = [costing EXCEPT ![s] = Uncosted]
  /\ UNCHANGED <<status, issued, signed, receipts, floor, asked>>

AbortCost(s) ==
  /\ costing[s] # Uncosted /\ ~(OnlyCost /\ Postable(costing[s]))
  /\ costing' = [costing EXCEPT ![s] = Uncosted]
  /\ UNCHANGED <<status, issued, signed, receipts, floor, cost, books, posted, asked>>

Request(s) ==
  \/ \E p \in Parts, quantity \in Given, override \in BOOLEAN :
       BeginIssue(s, p, quantity, override)
  \/ \E k \in Steps, minutes \in Booked, acknowledge \in BOOLEAN :
       BeginBook(s, k, minutes, acknowledge)
  \/ \E units \in Given, backflush \in BOOLEAN : BeginReceive(s, units, backflush)
  \/ CommitIssue(s) \/ CommitBook(s) \/ CommitReceive(s) \/ Drop(s)
  \/ BeginCost(s) \/ CommitCost(s) \/ AbortCost(s)

Next ==
  \/ CreateWorkOrder \/ Advance
  \/ \E k \in Steps : OpenCard(k) \/ CloseCard(k)
  \/ \E k \in Steps, minutes \in Booked : CorrectEntry(k, minutes)
  \/ \E s \in Sessions : Request(s)

Spec == Init /\ [][Next]_vars

(* ------------------------------- properties ------------------------------- *)

(* The order, issue, receipt, card, entry and cost rows.                      *)
TypeOK ==
  /\ status \in Statuses
  /\ issued \in [Parts -> Nat] /\ signed \in [Parts -> BOOLEAN]
  /\ receipts \in ReceiptRows
  /\ cards \in [Steps -> {None, "open", "closed"}]
  /\ entries \subseteq EntryRows
  /\ cost \in CostRows \cup {Uncosted}
  /\ books \in Balances /\ posted \in Nat
  /\ asked \in [Sessions -> Requests]
  /\ costing \in [Sessions -> CostRows \cup {Uncosted}]

(* The output of all receipts together is covered by what was issued of every *)
(* direct part, whatever was issued, backflushed or received in between       *)
(* (receipts.py: a job "cannot report half its output while the material for  *)
(* all of it sits in WIP").                                                   *)
MaterialCoversOutput == \A p \in Direct : issued[p] >= Target(p, receipts.units)

(* The account always holds what was issued and not yet received, and ends at *)
(* zero: once the whole order is received, only material issued afterwards    *)
(* can be in it (receipts.py: "the last receipt takes the residue").          *)
WipClears ==
  /\ books.wip = IssuedValue(issued) - receipts.value
  /\ receipts.completes => books.wip = IssuedValue(issued) - receipts.material

(* Two requests that cost an order at once post one entry, and the finished   *)
(* goods then carry the material and the labour of the order (costing.py:     *)
(* "Costing twice posts once").                                               *)
CostedOnce ==
  /\ posted <= 1
  /\ cost # Uncosted =>
       books.inventory + IssuedValue(issued) = cost.material + cost.labour

(* More material than the ceiling, or more time than the plan, is only ever on *)
(* the order with a name to it, in however many requests it was issued or     *)
(* booked; corrections are no bookings (issues.py issue_material, job_cards.py *)
(* book_time).                                                                *)
ExcessIsOwned ==
  /\ \A p \in Parts : issued[p] > Ceiling(p) => signed[p]
  /\ \A k \in Steps :
       LET booked == {e \in entries : e.step = k /\ ~e.correction} IN
       Minutes(booked) > Planned => \E e \in booked : e.acknowledged

(* costing.py: "Costing needs a job that has been received in full ... and    *)
(* every work centre it used to have been rated".  Refuted: an order nobody   *)
(* booked time on meets both and its entry is refused.                        *)
CostingNeedsNoMore == \A s \in Sessions : costing[s] # Uncosted => Postable(costing[s])
================================================================================
