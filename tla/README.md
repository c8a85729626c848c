# A verification of the ERP backend

TLA+ models of the ERP backend in `src/` (FastAPI, SQLAlchemy, PostgreSQL): its
concurrent core and the records of sales, supply, factory, people and books
around it, the TLC runs that check them, and TLAPS proofs of the properties that
matter most. `PROJECT.json` ties every definition to the lines
it models, every run to what it asks, and every property to a mutant of the code
that breaks it.

## The system

The backend is one process image with two entry points: the API
(`app/api.py`) and the worker (`app/worker.py`). Both work on one PostgreSQL
database through SQLAlchemy. What decides the behaviour of everything else:

* **One request, one session, one transaction.** A route loads rows, calls domain
  functions that only `flush`, and commits at its end; an exception leaves the
  session uncommitted, which rolls back. The isolation level is PostgreSQL's
  default, READ COMMITTED. The ORM keeps the rows it has loaded, and its flush
  writes the *changed columns* of a row, with absolute values and without a
  version check. A check on a loaded row can therefore be stale when it is used.
* **Few locks.** Transaction-scoped advisory locks per stock bucket
  (`stock/transactions.py`), `FOR UPDATE` on the invoice in the two `settle`
  functions (`ap/invoices.py`, `ar/invoices.py`), a savepoint in the offline sync
  of the tills, and unique indexes. Nothing else is serialised.
* **Several commits in one call** where a crash must leave a trace: `run_job`,
  `send_outbound`, `deliver`, `run_dunning`, `generate_due`.

| component | state it keeps | operations | hard part |
|---|---|---|---|
| Stock transactions | stock ledger rows, journal entries | `receive`, `issue`, `transfer` | concurrent documents over the same bins, lock order, all-or-nothing |
| Valuation | (derived) | `valuation`, `value_issue` | layers, zero cost |
| Physical counts | count, lines, approval | `start_count`, `record_count`, `post_adjustment` | the bin moves while it is counted; posting twice |
| Approval engine | request, level, decisions | `start_approval`, `decide` | decisions from stale rows |
| Payables | invoices, settlements, batches, debit notes | `post_invoice`, `settle`, `create_batch` .. `execute_batch`, `post_debit_note` | two ways of settling at once, holds opened meanwhile |
| Match and holds | runs, holds | `match_invoice`, `hold_invoice`, `hold_failed_matches`, `release` | a nightly sweep against people |
| Job queue | job runs, pgqueuer's messages | `fire`, `run_job` | crash between the work and its record, redelivery, lost races |
| Outbound delivery | deliveries, attempts | `send_outbound`, `deliver`, `retry_due` | crash while sending, retries, limits, two sweeps |
| Gateway | inbound events, payments, settlements | `record_payment`, `match` | repeated events, one payment in several events, two people at one payment |
| Purchase orders and receipts | order revisions, receipts | `submit_order` .. `amend`, `close_order`, `post_receipt` | received quantities written as absolute values, revisions |
| Sourcing | requisitions, rfqs, answers, awards, suppliers | `create_requisition` .. `award`, `retire_supplier` | partial awards, amended orders, a supplier retired meanwhile |
| Order to cash | quotations, orders, shipments, customer invoices | `convert_quotation_to_order`, `confirm_order`, `ship_order`, `settle` | exposure and shipped quantities read before they are written |
| Receivables jobs | templates, billing runs, reminders | `generate_due`, `run_dunning` | crashes between commits, overlapping runs |
| Pipeline, prices, coupons | cards and their trail, rules, redemptions | `move_opportunity`, `convert_to_quotation`, `price_quote_line`, `redeem_coupon` | two moves of one card, limits counted before they are used up |
| Point of sale | sales, shifts, drawer, sync reports | `complete_sale`, `void_sale`, `close_shift`, `sync_sales` | queues sent twice, a shift closed around its sales, two requests at one sale |
| Locations, serials, batches | trees of places, units, flows of batches | `move_location`, `receive` of a unit, `trace`, `recall` | concurrent moves closing a cycle, one unit received twice |
| Manufacturing | bills, plans, work orders, issues, job cards, receipts, costing | `add_line`, `run_mrp`, `issue_material`, `receive_finished_goods`, `cost_work_order` | plans from a stale run, ceilings summed before they are used up, parts in any order |
| HR | dated contracts and placements, readings and punches, rosters, leave entries | `record_movement`, `place_employee`, `ingest`, `roster_employee`, `decide_request`, `carry_forward` | dated rows out of order, repeated readings, balances read before they are written |
| Payroll | runs, revisions, loans, recoveries | `compute_run`, `correct_run`, `recover_for_period`, `post_run` | corrections of what was posted or recovered, what is outstanding read before it is recovered |
| Ledger | journal, periods, rates, chart, mapping | `post_journal_entry`, `lock_period`, `revalue_open_balance`, statements | a month closed while a posting is open, revaluations in any order |
| Platform | companies, users, sessions, idempotency keys | `sign_in`, `post_entry` | retried requests |

They interact by calls within one transaction (a receipt calls `receive`, which
writes the stock ledger and posts to the general ledger), by rows read in
another transaction, and by the queue. `hazards` in `PROJECT.json` lists, line
by line, where this goes wrong or might.

## The modules

Every module models requests the same way. A *session* is a database session. A
request is a record per session (`tx`, `hand`): what it was asked, the row it
loaded (`copy`, `was`, `fresh`: what the ORM remembers), and how far it is.
Reads see what is committed and what the session itself flushed. Writes become
visible in the action that commits, with the absolute values the request
computed. Waiting for a lock or for a unique index is a guard that is false. A
request may end without effect at any point (`Fail`, `Abort`, `Rollback`).

| module | models | how state and actions correspond |
|---|---|---|
| `StockMovements` | what a line of a document does to every answer of `on_hand` | one item; a *narrowing* is a variant or batch, or none; `Delta` is the signed quantity of the rows |
| `StockLedger` | `stock/transactions.py` as concurrent transactions | `TakeLock` is one `pg_advisory_xact_lock`, in the order of `_lock_transfer`; `WriteLine` is everything after the locks: the check, `record_movement` and its journal; `pending` is what was flushed |
| `AtomicStock` | what those functions promise their callers | one action applies a whole document, or nothing happens; `StockLedger` implements it with the identity on `stock`, `worth`, `inventory` |
| `Approval` | `workflow.py` | `Load` remembers `state` and `current_level`; `Approve` and `TurnDown` write only the column the code changes |
| `Payables` | `ap/invoices.py`, `payments.py`, `debit_notes.py` | `CheckHold`, `PayLine`, `Execute` are the loop of `execute_batch`; `Settle` is `settle` with its row lock; `Duties` says what each session is asked for |
| `MatchHold` | the exceptions of `matching.py` | the sweep looks at one run at a time, as the loop does; a hold inserted and not committed holds the unique index |
| `JobQueue` | `queue.py`, `schedule.py`, `worker.py` | one action per commit of `run_job`; the messages of pgqueuer are external |
| `Delivery` | `integrations.send_outbound`, `delivery.py` | one action per commit; `struck` tells which messages a process died with; `Direct` are the messages dunning and the reports send with the bare call, `deliver` sends the others |
| `Gateway` | `ar/gateway.py` over `receive_inbound` and `ar.settle` | `FileEvent` and `InsertPayment` wait at their unique indexes; `Settle` holds the invoice row, and the index of settlements refuses a second one of a payment |
| `PhysicalCount` | `stock/counts.py` | `Begin` is `post_adjustment` up to its checks, `ValueLine` prices the variance, `Commit` writes |
| `PurchaseReceipts` | `procurement/orders.py`, `receipts.py` | `orders` is the chain of revisions; a posting remembers the received quantity it read |
| `OrderPromise` | what fulfilment promises of an order | a confirmed order owes its units; they leave once, and out of the bin |
| `SalesOrders` | `sales/quotations.py`, `orders.py`, `fulfilment.py`, `ar/invoices.py`, `exposure.py` | `Begin..` reads, `Commit..` writes what was computed; it implements `OrderPromise`, where `owed` is what is confirmed and has not left; a confirmation is judged by the live exposure or by one its caller states, and `withheld` tells by how much the stated ones fell short |
| `RecurringBilling` | `ar/recurring.py` | one action per commit of `generate_due`; the unique index over template and period is a guard |
| `Dunning` | `ar/dunning.py` | the send and the reminder are two commits, as in `run_dunning` |
| `RetailTill` | `pos/` | one terminal: shifts, drawer, baskets, payments, and the offline queue, which one transaction takes in as a whole; completions, voids and refunds read the sale in one action and write it in another |
| `Pipeline` | `sales/pipeline.py`, `customers.py`, the creation in `quotations.py` | a card with the trail of its moves; customers with their retirement |
| `Coupons` | `sales/pricing.py`, `campaigns.py` | `OrderKey` is the order the rules are tried in; a redemption counts, then writes |
| `Sourcing` | `procurement/requisitions.py`, `rfq.py`, `portal.py`, `suppliers.py`, the award of `orders.py` | one line per requisition, which is split over orders |
| `MasterTree` | the part that `ledger/accounts.py` and `stock/locations.py` share | soft-deleted rows under each other; the deferred trigger looks again at the commit |
| `StockPlaces` (extends `MasterTree`) | `stock/locations.py`, `serials.py` and the units in `transactions.py` | places, and the ledger of units that stand in them |
| `Traceability` | `stock/batches.py`, `trace.py` | flows between batches; the walks of a trace and a recall are state functions |
| `BillOfMaterials` | `manufacturing/bom.py`, `routing.py`, `work_orders.py` | versions with their lines as functions; the explosion is a recursive function over the depth |
| `Mrp` | `manufacturing/mrp.py`, `mrp_output.py`, `advanced_planning.py` | the run nets one item and period per step, then places what has to be made; `BeginConvert` checks a suggestion that `CommitConvert` turns into a document |
| `Production` | `manufacturing/issues.py`, `job_cards.py`, `receipts.py`, `costing.py` | one work order with the books it posts to; an issue, a booking or a receipt is checked in `Begin..` and written in `Commit..` |
| `StaffTree` | `hr/employees.py`, `org.py`, `movements.py` | dated rows that are appended; what is in force on a day is read from them |
| `ClockFeed` | `hr/biometric.py`, `attendance.py` | a pull sorts the readings of its window into punches, repeats and parked ones, and commits them together, or not at all when one of them cannot be parked (`Storable`) |
| `Roster` | `hr/shifts.py`, `overtime.py`, `holidays.py` | each history is a function from days; a change of the calendar asks for the lock of the month in `Begin..` and is there from `Commit..` on |
| `LeaveDesk` | `hr/leave.py`, `leave_requests.py` | a bag of entries per employee and type, and applications, which wait for a chain or are approved when they are made |
| `PayRuns` | `payroll/engine.py`, `loans.py`, `posting.py` | revisions of a period's run, recoveries of loans, entries; `pending` is what a computation or a settlement is about to recover |
| `GeneralLedger` | `ledger/posting.py`, `periods.py`, `currency.py`, `fx_gain_loss.py` | entries under idempotency keys; revaluation of one control account at the rate of the day or a stated one, which the memo names |
| `Books` (extends `MasterTree`) | `ledger/accounts.py`, `mapping.py`, `statements.py`, `gl.py` | the chart, the mapping, and the statements as state functions |

`MC...` modules hold the small instances (`Approval` holds its own), `...Proofs` the theorems. Definitions
named `Mut...` are plausible bugs, each next to the definition it would
replace; no specification uses them.

`MCSales`, `MCSupply` and `MCOffice` are the *desks* of one side of the
business, each an `INSTANCE` of its module over variables of its own. The desks
of a module share no rows: what one commits, no other reads in these models. So
a behaviour chooses a `desk` at its start, that desk works, and the others stand
still in a fixed initial state. Each desk then reaches exactly the states its
module reaches alone, the states of a run are the sum of theirs and not their
product, and one run answers what the side as a whole promises. (The till is at work twice in
`MCSales`: as `till`, over the network, and as `queue`, without one.) Where the code
of two desks does touch (a won card becomes a quotation, a shipment takes stock
out of a bin), the desk models the other's part in its own rows.

### What is abstracted

* Money and quantities are small integers; rounding, currencies and units are
  left out, except where a value of zero matters (`PhysicalCount`).
* Names, texts and reasons are left out; a reason is a Boolean where the
  code insists on one.
* Row-level security and the company dimension: all models are of one company.
* Days are small numbers, and where months matter a day stands for its month. A
  bill, a requisition, a purchase order and a document of sale have one line,
  except where the property is about several.
* In `Gateway` the payer of a payment is not kept: an unknown payer parks it, and
  a payment of another payer or currency than its invoice is `Misdirected`.
* In all modules but `Approval` an approval is the outcome of the chain that
  `Approval` models.
* External behaviour, modelled from how the code relies on it: PostgreSQL's
  locks, waits and deadlock detector, and pgqueuer's dedupe, dequeue and heartbeat.

## The runs

One run asks what a module, or a side of the business, promises; two more check a
sentence the code says of itself and does not keep. Two or three sessions are
enough for every race here: each is between a reader and a writer of one row, and
a third session adds one that waits.

| run | shows | bounds |
|---|---|---|
| `StockTransactions` | no bucket below zero, checks stay true until the commit, documents atomic, every request ends, circles of waiters included | 3 sessions, 2 bins, 2 batches, 3 documents of 1 or 2 lines, with both transfer directions, opposite lock orders and a malformed line |
| `ApprovalRaces` | whoever overwrites whom, "approved" means approved at every level, and decisions follow the chain | 3 sessions, 3 levels with thresholds 1, 9, 5, so chains skip a level |
| `PaySettlements` | nothing over-settled; `BatchesHold`: a batch pays at most what was sent for approval, uncommitted settlements have the row lock, the control account follows the documents | 2 invoices, a batch of one or two, two notes below and above what is open; both sessions execute, one works on the batch, the other posts |
| `HoldExceptions` | every exception is held in the end | 2 invoices, up to 2 runs each, the sweep and a clerk, requests that die; both practices of the users (`anytime`) |
| `JobRuns` | one success per key, no effect denied by its row, every firing answered | 2 workers, 2 attempts, 1 crash, 2 firings of a key, a heartbeat that lapses; keys share no state, so one is enough |
| `SendRetries` | what is sent stays sent; rows tell the attempts; whatever dies, every message that no process died with is sent or uses its attempts up | 3 messages, one of them sent directly, a sender and a sweep, so a sweep dies with one message in hand and another in its list, or one that waits for it; 2 first tries, 3 attempts, 1 crash |
| `GatePayments` | every event of a gateway that repeats itself is answered | 2 webhook sessions, one matcher, 3 payments of one invoice that over-settle it together, 4 events: a repeat, a failure, an unknown payer |
| `Sales` | the desks of `MCSales`, below | 2 sessions |
| `Supply` | the desks of `MCSupply` | 2 sessions where concurrency is modelled as passing, else one clerk |
| `Office` | the desks of `MCOffice` | 2 sessions, as for `Supply` |
| `ApprovalStale` (violation) | a decision from a stale row lands on a finished request | 2 sessions, 1 request |
| `BalanceSheet` (violation) | a debit on an income account puts the balance sheet of that day out | the desk `accounts` of `Office` |

The desks, with what each promises and why its bounds reach the cases:

| run, desk | promises | bounds |
|---|---|---|
| `Sales`, orders | `CreditIsWhole`: the exposure covers what left, or was invoiced without an order, and was not paid for, and a company that blocks is beyond the limit by no more than tax, invoices without an order, and what stated exposures left out; `KeepsPromise`: the orders implement `OrderPromise` | quotations of 2 and 1 units over one bin of 2 and a limit of 2, a tax of 1, so each order fits alone, both do not, and the second shipment finds too little; callers who state nothing, or 0; a company that blocks, and one that has not said so yet (to warn and to be off confirm what the second does; the proof is for all) |
| `Sales`, billing and reminders | `JobsRepeatNothing`: a period is billed once and none is skipped; a level is reminded once per run key and nobody forgotten | 2 templates with 2 and 1 periods; 2 invoices due on different days, 2 levels, 2 days; two runners and 1 crash between any two commits |
| `Sales`, till and queue | `TillAddsUp`: one shift open, goods and money move once, an answered sale is on the books; `ClosedReportStands` | the till rings one sale over the network in one of 2 shifts on 2 days, with two sessions that may void and refund it; the queue holds two sales over a stock of one, is sent before and after it grew, and again when an answer was lost |
| `Sales`, gateway | `MoneyIsTold`: no invoice over-settled, a payment settles once and its status says what became of the money, what was answered is on the books | 2 webhook sessions, two people who match, 2 payments of one invoice that over-settle it together, one of them told by two events of which the second is a failure |
| `Sales`, board and prices | `DealsHold`: the trail tells the card, a win makes one quotation, whom a card names stands; lines name the winning rule, coupons stay within their limit and the strictest allowance | 2 cards, 3 stages, 3 moves; 3 rules that beat each other by item and by band, 3 coupons with allowances 2, 1, 2, on 2 documents |
| `Supply`, receipts | `OrderTellsArrived` | 2 receipts, 2 revisions, quantities to 3 |
| `Supply`, sourcing | `SourcingHolds`: one answer per supplier, awards within what was asked for, named suppliers stand | one requisition of at most 2 units, 2 suppliers, 2 orders: a whole and a split award |
| `Supply`, holds | `HoldsAreSingle`: one open hold per invoice, the inserted one included | as `HoldExceptions`, with users who match at any time |
| `Supply`, counts | `CountsHold`: the bin holds what was counted, and what reaches the threshold was approved first | 2 counts, quantities to 3, threshold between them |
| `Supply`, places and batches | `StockIsTraceable`: a unit is in one place, no stock under a retired place, the tree is whole; a recall is complete | one warehouse with a zone, two aisles and two bins, one unit; 4 batches of which two feed a third and that one a fourth, over 2 work orders |
| `Supply`, bills, families, planning | `PlansHold`: every released bill explodes, stock covers a unit of demand once, overloads are reported, nothing is built twice | 2 items with 2 versions, 3 items with one (cycles of three); 3 items of which two take the third, 2 periods, capacity for one of two, 2 runs |
| `Supply`, production | `OrdersAreAccounted`: material covers output, excess is owned, work in progress clears, costed once | 2 parts, 2 units ordered, 2 operations of which one is rated, 2 bookings, a tolerance that one unit exceeds and none does not; two sessions, one at a time but for the costing |
| `Office`, leave and payroll | `LeaveHolds`: once per period, a cancellation restores what was taken; `PayrollHolds`: a loan is recovered once and not beyond its principal, one revision stands | a year that ends on the second of 3 days, a carry-over cap below the accrual, a holiday that is added; applications that wait and that are approved at once; 2 periods of which the first is ever locked, 2 revisions, a loan whose second instalment is smaller |
| `Office`, staff | `TreeEachDay`, and in `RecordsStand` that history is not rewritten | 3 people, enough for a cycle through a third, on 2 days |
| `Office`, clock and roster | `HoursHold`: a reading is counted once, none lost, hours matched, parked readings taken up; in `RecordsStand` that entries take effect and closed days stand | a mapped user who comes and goes and an unmapped one whose second reading has an unknown direction, three overlapping windows of which one delivers that reading, punches by hand; 2 shifts, 2 days, a calendar that changes around a closed month |
| `Office`, journal and accounts | `BooksHold`: a key posts once, the chart is a tree, the cash flow foots, the sheet balances at the end of what was posted; in `RecordsStand` that a closed month gets no entry and a revalued balance is carried at the rate its memo names | 2 keys, 2 months, rates 1 and 2, stored or stated, 3 entries: a posting, its revaluation and the reversal; two assets and an income, 2 entries |

`CHECK_DEADLOCK FALSE` is stated where all documents, decisions or messages of
an instance can be used up and the system then rests. Sessions are symmetric in
the three bundles, and so are the two suppliers and the two keys; none of these
runs checks liveness.

### Assumptions of some passing runs

Some promises hold only if the users keep a discipline the code does not
enforce. A constant states it, and giving it the other value makes TLC find the
counterexample of the next section.

* `Serial`: the requests that race on a stale row are made one at a time (which
  ones, the constant's comment says). It is a constant of `SalesOrders`,
  `RetailTill`, `Pipeline`, `Coupons`, `Sourcing`, `MasterTree`,
  `BillOfMaterials`, `Production`, `ClockFeed`, `Roster`, `LeaveDesk`, `PayRuns`
  and `GeneralLedger`. At the till one request at a time is at a sale, and no
  shift is closed while a sale is being completed; in `Production` one issue,
  booking or receipt is under way, costings aside; in `PayRuns` one request
  computes a run or settles a loan; in `Roster` no month is closed while its
  calendar is being changed, nor in `GeneralLedger` while something is being
  posted. For the same reason `Payables`, `PhysicalCount` and `PurchaseReceipts`
  have one session deciding or posting a document (`Duties`, `Sessions`).
* `Careful`: in `Mrp`, planners convert one suggestion at a time, only of the
  newest run, and between runs; in `StockPlaces`, what arrives is a unit that is
  not in stock.
* `Frozen`: nothing else happens to a bin while it is counted.
* `AmendedToo`: goods are not received against an amended order.
* `Repeated`: a requisition is asked about once.
* `InOrder`: placements are recorded in the order of their dates.
* `Mixed`, `Sources`: a balance is settled or revalued and not both, and entries
  name their source document.
* `Practices`: an invoice on hold is not matched again.
* `WritesFail`: the database does not fail the write of a success.

### Divergences

What the code does not exclude although it, or common sense, says so. The first
two are runs, with their findings in `PROJECT.json`; the others were seen with
TLC by the change of constants, or the property, that is named. Most are of one
kind: a check on a row the session has loaded, or on a sum it has read, is not
made again when the row is written.

| seen in | with | what happens |
|---|---|---|
| `Approval` | `ApprovalStale` | a finished request takes a further decision |
| `Books` | `BalanceSheet` | an income account with a debit balance raises the equity it should lower |
| `StockLedger` | `Carried <- MixedCarried`, `Documents <- MCDocumentsMixed`, `Tags <- OneTag`, `Origin <- MCOriginPlain`; `NeverNegativeInAll` | a movement that names no variant and one that does lock different keys: the bin goes negative |
| `MatchHold` | `EveryExceptionHeld` | one held invoice that fails again stops the sweep for all others |
| `Payables` | two sessions with the duty `post` or `note` | an invoice, or a debit note with its goods, is posted twice |
| `Payables` | `Hold(i)` between `CheckHold` and `Execute` | an invoice on hold is paid (`ap/payments.py` re-checks the hold, but not under the row lock) |
| `Payables` | `RemoveLine` from a copy loaded before `Execute` | a line is removed from a batch that has run |
| `Payables` | a note of `Override` beyond what is open | the control account falls below the open items by the unapplied part |
| `Payables` | a return of two lines for the last goods | the location goes negative: every line is checked before any has moved |
| `JobQueue` | `MaxCrashes = 1` | a crash between the work and its row repeats the effect (`RunsTellTheEffects` still holds) |
| `JobQueue` | `WritesFail = TRUE` | a key that never succeeded is recorded as skipped |
| `Delivery` | a message of `Direct` that fails its tries | it has no attempt row, so no sweep takes it up |
| `Delivery` | `NoneLost` without its `struck`; `UsedUpIsNotSent` likewise | a message whose process died stays `sending`; one is tried beyond its limit |
| `Delivery` | two `Sweeps` | a message that was sent is sent again |
| `Gateway` | two `Matchers`; `StatusTellsTheMoney` without `Overtaken` | a payment first told as failed that one person has placed is told as parked: another, who found it failed and no room for it, writes over it (`ar/gateway.py`, `match`; its money is settled once, by the unique index) |
| `Gateway` | a repeat of the second event of a payment | the redelivery is an error: no payment is stored under its key |
| `Gateway` | a handler refused after `FileEvent` | the event leaves no record (`receive_inbound` flushes, its caller commits) |
| `PhysicalCount` | two `Sessions` | the variance is posted twice |
| `PhysicalCount` | `Frozen = FALSE` | an issue during the count takes the bin negative |
| `PhysicalCount` | `Record` after `Approve` | another value is posted than was approved |
| `PhysicalCount` | a find in an empty bin | it is worth nothing and the journal refuses the posting |
| `PurchaseReceipts` | two `Sessions`; `AmendedToo` | a receipt is posted twice; two revisions receive more than was ordered without a reason |
| `SalesOrders` | `Serial = FALSE`; `KeepsPromise`, `CreditIsWhole` | two shipments of one line are checked against the same shipped quantity; two confirmations against the same exposure |
| `SalesOrders` | `BlockedWithinLimit` without `withheld` | a company that blocks confirms an order beyond the limit, against an exposure the caller states (`sales/orders.py:471`, which the API passes on) |
| `SalesOrders` | `BlockedWithinLimit` without `BilledNet(None)` | an invoice without an order takes a customer beyond the limit: only confirmations ask for it |
| `RetailTill` | `Serial = FALSE`; `ClosedReportStands` | a sale that is being completed while its shift closes joins a shift whose report is out |
| `RetailTill` | `Serial = FALSE`; `SoldOnce` | two completions, or two refunds, of one sale both find it as it was (`pos/sales.py:537`, `pos/reports.py:104`): its goods and its money move twice |
| `RetailTill` | a barcode in `Unknown`; `BadSalesFailAlone` | `_shortfalls` looks items up outside the `try` of the sale: one bad sale fails the whole sync |
| `RetailTill` | a refund with several shifts on its day, or on the second day of an overnight shift | the refund is in every shift of the till opened that day, or in no expected cash at all |
| `RetailTill` | a number sent again after its sale was refunded | it is answered as rejected |
| `Pipeline` | `Serial = FALSE` | two moves leave a trail that does not end where the card stands; a customer named meanwhile is retired |
| `Pipeline` | a card created in a stage that means won | it is never closed |
| `Coupons` | `Serial = FALSE` | a coupon is redeemed beyond its limit or beside one that allows no other |
| `Coupons` | `DocumentsCostSomething` | each coupon is capped by the price of the document, all of them together are not |
| `Sourcing` | `Repeated = TRUE` | two rfqs about one requisition award more than it asks for |
| `Sourcing` | `RestIsAwardable` | an amended order and its revision are both counted, and so is a refused one |
| `Sourcing` | one award that names a line twice; an amendment | the ceiling is exceeded without an override |
| `MasterTree` | `Serial = FALSE` | two moves under each other, both committed before either trigger sees the other's, close a cycle |
| `StockPlaces` | `Careful = FALSE` | a serial unit that is in stock is received again and is in two places |
| `StockPlaces` | `Serial = FALSE` | stock arrives at a place that is being retired |
| `Traceability` | `RecallNamesOnlyReached`, `RecallAnswers` | either walk names customers and suppliers, so a customer who bought what the batch was made from is recalled; a retired batch on the way makes the recall fail |
| `BillOfMaterials` | `Serial = FALSE` | two lines added at once close a cycle |
| `BillOfMaterials` | `RequirementsReconcile` | components explode through their newest bill, not through the one the order was raised under (`work_orders.py:412`) |
| `Mrp` | `Careful = FALSE`; `NothingBuiltTwice` | a suggestion that a later run has made again is converted too; two sessions convert one suggestion into two orders, though `mrp_output.py:17` says "A suggestion converts once" (line 252 checks the row it loaded) |
| `Mrp` | `AllDemandIsNetted`, `ShortOnlyWhenShort` | what a second parent needs of a component in a period that was netted already is dropped; a later period that is netted first takes the stock of an earlier one |
| `Production` | `CostingNeedsNoMore` | an order nobody booked time on is received in full and cannot be costed |
| `Production` | `Serial = FALSE`; `ExcessIsOwned`, `MaterialCoversOutput` | two issues, or two bookings, each within the ceiling exceed it together with nobody's name to it (`issues.py:265`, before the lock of the bin; `job_cards.py:311`); two receipts make more than was ordered (`receipts.py:213`) |
| `Production` | an issue after the last receipt, a booking after the costing | the material stays in work in progress, and the time is never capitalised |
| `StaffTree` | `InOrder = FALSE` | a placement dated before another makes two people report to each other on the days between |
| `StaffTree` | `ChartNamesEveryone` | an employee whose managers end at somebody unplaced is in neither list of the chart |
| `ClockFeed` | `Serial = FALSE`; `ParkedIsTakenUp` | a user mapped while a pull is recorded: the reading stays parked (`_record` looks the mapping up first) |
| `ClockFeed` | `Storable` left out of what a pull needs to be recorded: `NothingLost` of what was delivered | the constraint of the parked table takes no direction but in and out, and `_park` writes the one that was read: one reading with another direction fails the whole pull, every time, where biometric.py:22 says "Nothing is refused into silence" |
| `ClockFeed` | the same window pulled again | the first report is returned, and readings that came since are not recorded |
| `Roster` | `PastDaysStand`, `RosteredWhileEmployed`, `Serial = FALSE` | an entry may start in the past; an exit leaves the roster in force; a shift is retired while it is rostered |
| `Roster` | `Serial = FALSE`; `ClosedDaysStand` | a month is closed after a change of its calendar has asked for its lock (`holidays.py:215`, `242`) and before it is committed: a closed day becomes a holiday, or stops being one |
| `LeaveDesk` | `CancelledIsFinished` | the approval request of a cancelled application still waits, and approves it again |
| `LeaveDesk` | `OverdraftIsOwned` | two waiting applications are each affordable and together are not |
| `LeaveDesk` | `Serial = FALSE`; an exit before the year's end | two decisions deduct twice; `carry_forward` raises for everybody |
| `PayRuns` | `Serial = FALSE`; `LoanIsRecoveredOnce` | runs of two periods, or a run and a settlement, both find the same amount outstanding (`loans.py:421`, `478`; the unique index is per period) and recover more than the principal, where `loans.py:16` says "Never more than is owed" |
| `PayRuns` | `RecoveredIsDeducted` | a recovery that settled its loan is not found by a revision, which pays out what the first one withheld |
| `PayRuns` | `OnePayrollInTheBooks` | a correction that is itself corrected before it posts reverses nothing, and a superseded run may post |
| `GeneralLedger` | `Serial = FALSE` | a month closed while a posting is open gets its entry |
| `GeneralLedger` | `Sources = {TRUE, FALSE}`, `Mixed = TRUE` | `NOT IN` drops entries without a source; a settled and revalued balance is carried at another rate |
| `GeneralLedger` | `ReversedOnce` | a reversal posted on a later day is not seen by the next one, which reverses again |
| `Books` | two cash keys for one account; a retired account with a balance | the opening cash counts it twice; the account drops off the statements |

## Fairness

* `StockLedger`: weak fairness of each session's steps. A request thread runs
  until it waits; PostgreSQL grants a free lock and aborts a member of a cycle of
  waiters. Beginning a request and failing are never owed.
* `MatchHold`: the sweep is scheduled every night and requests run to their end;
  from some night on none dies, because a sweep that dies every night owes
  nothing.
* `JobQueue`: a live worker goes on, pgqueuer hands out what waits and notices a
  stopped heartbeat. The clock, failures and crashes owe nothing.
* `Delivery`: a send ends (transports have a timeout), and the cron schedule
  starts a sweep while something stays due.
* `Gateway`: a payment gateway repeats an event until it is answered, and from
  some point on no request dies.

## The proofs

TLAPS proves the following for every value of the constants, from the named
assumptions of the modules.

* **`StockLedgerProofs`.** The inductive invariant `LedgerInv` adds to "no bin
  below zero" that a session holds the lock of every bucket it has flushed rows
  into (`WorkIsLocked`) and every lock it counted for its line (`LineIsLocked`),
  and that *its own view* of every bucket is covered (`PendingIssuesStayCovered`).
  The last is what a commit needs: another session's commit changes only
  buckets that session has locked, so it cannot touch a bucket this one wrote to.
  Without the locks in the invariant the check of `issue` would not survive the
  commit of somebody else. The theorems assume `Uniform`: the movements of the
  item name tags always or never. The first row of `StockLedger` under
  "Divergences" shows that this is needed.
  That documents are atomic, `DocumentsAreAtomic`, is the refinement of `AtomicStock`: a
  commit has to be the whole document applied to the stock *of that moment*, though its
  lines were checked against the stock of earlier ones. `DocumentsProgress` says so of each
  open document: what is flushed are the rows of its first lines, each of which is still
  covered by the stock and the lines before it, since its buckets are still locked
  (`LineStands`), also those whose rows add up to nothing by now.
* **`OfficeProofs`**, which is about `Approval` and, apart from it, `MCOffice`.
  *Approvals.* `ApprovedByEveryLevel` is not inductive, since a session
  may write a level it computed from a row that has changed since. It holds
  because decisions are only ever appended: whatever level a row or a
  session's copy of it ever showed had all earlier levels on the record, and
  still has (`ReachedLevelsApproved`). So the races that break `FinishedIsFinal`
  cannot approve a document early. `DecisionsFollowTheChain` follows from the same
  invariant and from what a session may load: a decision carries the level of a
  row, and that level had its predecessors on the record before.
* **`PayablesProofs`.** `SettlementInv`: uncommitted settlements of an invoice
  belong to the holder of its row, and committed and uncommitted ones together
  stay within the gross. A session that settles reads the committed sum under
  the lock, so what it adds is within what is left; a session that commits moves
  its part from one side to the other. `BatchInv` is about the batches: a line pays
  all that is open, so it pays once (`BatchPaysInFull`); lines are only ever removed,
  so a copy of a batch a session has loaded has, however old it is, every line the
  batch still has (`CopyHasTheLines`). So what a batch has paid, with the lines it
  may still pay, is covered by the total that was sent for approval
  (`BatchIsCovered`), whoever removes, decides or executes meanwhile. `ControlInv`
  says which side of the books each document is on; it needs `OneClerk`, that one
  session posts invoices and one posts notes, since nothing in `post_invoice` or
  `post_debit_note` keeps two sessions from posting one document (the row of
  `Payables` under "Divergences"). The properties of batches and of settlements
  do not.
* **`JobQueueProofs`.** `RunsTellTheEffects` does not say whose row an effect
  has, so it is not inductive; `QueueInv` does: a worker on a
  row is alone there (`RowsAreOwned`); the effects of a key are at most the rows
  that show one, less those of attempts whose work is not committed or was rolled
  back (`EffectsHaveRows`); and one row says succeeded (`OneRowSucceeded`), since
  the unique index refuses the second. The proof is also for `WritesFail` and
  `Lapses`: a success that could not be written leaves an effect whose row says
  that it is running, never one that failed.
* **`DeliveryProofs`.** Nothing in `delivery.py` locks a delivery, so its
  properties rest on who may touch it: a message with rows belongs to the sweep
  (`HandsAreCurrent`: a sender works only on one without), and what the sweep has
  listed stays due until it comes to it (`TodoWaits`). So the number it claims is
  still the next when it writes the row (`RowsAreCounted`), and a listed message
  cannot have been sent in between. A process that dies leaves at most one attempt
  without a row, that of the message it had in hand: `struck` names those messages,
  and every other one keeps rows that tell its attempts and a limit that holds. The theorems assume `OneSweep`,
  as the schedule has it; with two `Sweeps` TLC shows the step that fails.
* **`SalesProofs`.** One invariant per desk of `MCSales`, and `SalesInv`, all of
  them: a step of one desk leaves the rows of the others alone (`DesksAreApart`).
  All but the jobs and the gateway are under `Serial`; for most of them the divergences above show
  the step that fails without it.
  * *Orders.* `RowsInv`: one request is at an order and one confirms
    (`OneAtAnOrder`), what it read is still so (`ReadsAreCurrent`), and the shipped
    column agrees with what left. So each commit is a step of `OrderPromise` or a
    stutter. The credit needs sums: with P the open amounts, S what is settled, U what
    is confirmed and not billed, C what is confirmed, `P + S + U >= C`
    (`CommitmentsCounted`): a posted invoice takes from U no more than it adds to P,
    a settlement moves from P to S, a confirmation adds to U and C alike. Goods that
    left are within C, so they are covered by the exposure. And in a company that
    blocks, `P + U` less tax, invoices without an order and money on account stays within the limit
    and what stated exposures fell short of the live one (`withheld`), *also with
    the order that is being confirmed* (`WithinTheLimit`), since one is at a time;
    a posting leaves that sum as it is while no order is billed beyond its total.
  * *Recurring invoices and reminders.* What a run has flushed is of a period no row
    tells of, and it alone has; every period below the one it is at has a row or is
    reported. A reminder of a key has the level that the days of the key reach,
    and messages beyond the reminders are those of runs that died or met another.
    No discipline of the users is assumed: the unique indexes decide.
  * *Gateway.* An open request that will write a row has read it as it is (`GateRowFits`): a
    webhook writes only a payment it inserted, under the unique index, and a person only one
    that no webhook still inserts. Two requests that settle one invoice cannot both be past
    its lock (`GateApart`), so the room a settlement found is still there at its commit, and
    so is the place in the unique index of settlements: a second settlement of one payment is
    refused (`GatePaymentFits`). Any number of people may match. What they can do to each
    other is to write "parked" over the state of a payment that was first told as failed
    (`Overtaken`), which the property says.
  * *Till.* The bin is the stock less the goods of the sales that stand, each of which
    is posted once, since one request at a time is at a sale; what the terminal believes was answered is on the books
    (`NothingForgotten`, with what an answer that is under way may say); a request
    at a shift finds it open. A closed shift gets no sale, and its sales do not move.
  * *Board.* A trail is a chain that ends in the stage of its card; who is named stays,
    since a customer is retired while nobody is naming one.
  * *Prices.* What a redemption counted is still what the rows say, so one more stays
    within the limits; the rule of a line is least under the order of the keys.
* **`SupplyProofs`.** One invariant per desk of `MCSupply`; each is carried through the steps
  of the other desks by `DesksAreApart`.
  * *Receipts.* `RecvInv` says of the newest revision what the properties say of the last
    one: its received quantity is the sum of what was posted. A posting writes the
    received quantity it read (`Arriving` says that it is still so) plus the lines of its
    receipt, and an amendment hands the quantity on. Assumes `OneClerk`, that one person
    posts at a time; two post one receipt twice (`PurchaseReceipts` under "Divergences").
  * *Sourcing.* `BuyInv`: a requisition is asked about once (`AskedOnce`), whoever answers
    was asked, and the award that is under way is within what the orders *filed first*
    leave of the requisition (`AwardsFit`); amendments do not move those. Whom a document
    names cannot be retired, so the invited and the awarded stand.
  * *Holds.* `HoldInv` says of the open holds what the partial unique index does: an
    inserted, uncommitted hold is the only one of its invoice (`OneInserted`), nobody
    inserts where one is open (`InsertedIsNotHeld`), and two open holds are one
    (`OneHeld`). What the sweep read before matters to none of them: only the index
    decides.
  * *Counts.* `CountInv`: at most one count of the bin is open and its snapshot is what the
    bin holds, since the bin is frozen; a posting under way has the variance of its
    count, and its value is below the threshold or approved (`Posts`). The properties are
    about steps: the bin after a posting holds what was found. Assumes `OneClerk`, for the
    rows of `PhysicalCount` under "Divergences".
  * *Production.* `MakeInv`: an issue, booking or receipt that has passed its checks is
    the only one (`Serial`), so what it compared still stands when it is written; the
    balance of work in progress is the value issued less the
    value received, and the last receipt takes the residue, whatever the rounding of
    earlier ones left; a costing that was begun, by one session or by two, saw the order
    received in full, and its entries together move the difference between the standard
    and what was issued and booked (`MakeAccounts`). What rounding a share does
    (`RoundedWithin`) keeps each part within the whole.

  * *Places.* Only `Serial` is assumed of the tree: while a request about a place is open
    it is alone, and what it read still holds (`Asks`). A place stands under one of the
    level above (`Climbs`), so the ancestors end after as many steps as there are levels
    and a place is not its own. Movements of units do not wait for each other: a unit is
    held once, at the place its movement read (`Moves`), so two that read one unit do not
    both take it; the ledger of a bin is the units that are there (`Stored`) and the places
    that are named are live (`Shelved`).
  * *Recalls.* The rows are simple (`TraceInv`); the weight is in the walks. A walk ends
    after as many rounds as there are batches, in the least set closed under its steps
    (`WalkIsClosed`, `WalkIsLeast`). The backward walk skips the orders that the forward one
    met and still misses nothing: what the forward walk reaches is built *upwards* of the
    batch, and what the batch was made of is not. That is `BuiltUpwards`, an assumption on
    the orders that `add_line` of bom.py justifies: it refuses a line that would close a
    cycle, over the lines of every version, so the items have ranks.
  * *Plans.* `PlanInv`, of a run between any two of its items. The list it works through is
    sorted (`Queues`), and exploding a shortage into it keeps it so (`InsertsSort`); what it
    holds of an item that goes into no other (`Sold`) is that item's demand, for periods not
    yet netted (`Due`). So the rows of an item take no more from its stock than
    the shelf lost, and open supply that lands later is untouched (`TakesOnce`): a unit
    covers one demand. What is built of a sold item, with what the newest run suggests on top, is
    what customers want, period by period (`BuildsOnce`). That planners convert one suggestion at a time, of the newest run only and between runs,
    is assumed (`Careful`; see "Divergences"), and
    of the constants that the stocks, demands and purchases to start from are natural numbers.
  * *Bills.* `BomInv`: no item stands below itself, over the lines of every version
    (`Acyclic`), and a line that is between its check and its commit would still pass
    the check (`LineStands`), as one line is added at a time (`Serial`). The walk of the
    check ends in the least set closed under "takes" (`DownIsClosed`, `DownIsLeast`), so
    a new line cannot close a cycle at any depth (`LineKeepsAcyclic`). And the number
    of items below falls from an item to its parts (`RankFalls`), so each level of an
    explosion holds only items with a lower number and the level past the last is empty
    (`ExplosionEnds`): every released bill explodes. The lemmas are about any rows, since
    two desks keep bills; only their steps are taken one by one.
  * *Rows.* The types of the receipts and of the counts hold without `OneClerk`
    (`RecvRowsInv`, `CountRowsInv`), those of the other desks are part of their invariants.

* **`OfficeProofs`**, the desks. `OfficeInv` has an invariant for each of the seven desks; a step of
  the office is a step of one desk and leaves the others' rows alone (`DesksStep`).
  * *Staff.* `OrgInv`: the structure of every day has a *depth*, a number that falls from
    manager to managed (`OneTree`), which is what a way up that ends looks like without
    walking it. A placement is dated no earlier than any before it (`InOrder`), so it changes
    only the days from its own on, and on those the check of `place_employee` found
    the new manager outside the subtree: the depths below can be moved up together
    (`FallsWhenPlaced`). What is in force on a day is a CHOOSE over dated rows; a newer
    row leaves the earlier days as they are (`StartOfNew`), which is `HistoryStands`.
  * *Rosters.* `RosterInv`: one request at a time is between its read and its write (`Serial`), so
    what it found (`Pending`) still holds: a shift that is on a roster is live, and an
    entry supersedes what is there from its day on. A closed day is classified by rows that
    no entry from a later day on changes, and by the calendar, which no open request is about
    to change for a day of a closed month: the month is not closed while one is.
  * *Journal.* `JournalInv`: a posting that computes a restatement is alone, so its difference is
    still the difference when it commits (`Computed`); the books are the documents
    at their rates and the restatements, two sums over disjoint parts, so a revaluation
    makes the balance what the documents come to at the rate that its memo names, whichever
    rates were stored, or stated, meanwhile (`RevaluedIsCarried`). A key in use is the key of one entry.
  * *Payroll.* `RunsInv`: the revisions of a period are a chain (`Chained`) and who is about
    to insert one follows a computed one; that assumes nothing of the users. `LoanInv`:
    the recoveries of a loan, summed over the periods, stay within its principal and reach it
    exactly when it is settled. A computation and a settlement hold the rows they are about to
    insert (`WorkInv`); as one is under way at a time (`Serial`), each row is still no more than
    is outstanding and closes the loan exactly when it is all of it (`ShareIs`, `TakenIs`).
  * *Leave.* `LeaveInv`: the entries are a bag, and a key that the unique index guards is in it
    once, whatever a job that runs again had read (`OnceIn`). An application is at one point
    of its life with one request at a time (`Serial`), and what that request holds is what its
    entries say (`TxFits`, `Answers`), also when it is approved as it is made: what an approval took from the lots is what the
    cancellation finds to give back, and after it the two come to nothing (`Owes`).
  * *Accounts.* `ChartInv`: the chart has a depth, as the structure of the staff has; the
    trigger walked up from the new parent and did not meet the account, so that parent
    and all above it are without it (`Outside`), and `FallsWhenPlaced` applies again. It also
    needs that no account stands under one that was never created, or a new account
    might close a circle. The statements hold of any ledger: with D days and A, B
    sets of accounts, `Flow(D, A, B)` is a sum over cells and splits along each of the three
    (`FlowByDay`, `FlowByDebit`, `FlowByCredit`); what is posted between the accounts of A
    cancels out (`NetIsCrossing`), which is the cash flow, and for all accounts nothing is left,
    which is the balance sheet (`SheetSuffices`).
  * *Clock.* `ClockInv`: pulls and mappings are not open at once (`OneKind`, from `Serial`), so
    what an open one holds is still what will become of its readings when it commits
    (`PullFits`, `MapFits`): each is a punch, or becomes one, or waits for a reason that
    stands. A pull with a direction that cannot be parked never commits. Rows only grow (`Later`), which carries that over the steps of the others. The
    hours hold of any punches, so they are proved of the algorithm: each punch of an
    employee has a rank no other has (`PunchesAreRanked`), the fold is the last of its turns
    (`TurnsExist`, `TurnsAre`), and after k turns the day shows what k punches make
    of it (`DayFits`, by a first turn that would not: `HoursTurn`, `HoursRun`).

The sums of most desks are counted in units, as the `Cardinality` of a set of pairs, so what
changes by one row changes by one set (`TotalWithOneMore`). The folds over the
settlements of the gateway, the receipts and awards of an order, and the parts and cards of a
work order are another matter: **`SumTheorems`** derives from its recursion that such a sum
does not depend on the order of the elements, and what one more, one less or a changed one
does to it. The prover has no induction scheme (that would take an operator as parameter),
but a set of natural numbers has a least member by well-foundedness (`LeastOf`), so
each of these lemmas takes a counterexample with the fewest elements. From the same fact
come that a function given by its first value and its next one exists
(`IterationExists`), and that a growing set of at most n members settles within n steps
(`WalkSettles`), which the walks over places and batches rest on.

Every invariant and every action property of the passing runs, the two refinements
included, is stated by a theorem. Only model-checked are the liveness properties
(`RequestsEnd`, `HeldUnlessRematched`, `EveryFiringAnswered`, `NoneLost`,
`EveryEventAnswered`), since fairness and `ENABLED` are out of the prover's reach, and
those properties under "Divergences" that are false. The theorems about desks are about the
modules as the MC modules instantiate them, so with the disciplines of the users set as
above (`Serial` and `Careful` are `TRUE` there), and for every value of the other constants.

## What is done, and what is left

Done are the stock, approvals, payables, holds, jobs, delivery and the gateway,
each with a run of its own, and the sales, supply and office sides as desks. Worth doing next:

1. Compositions, where a module stands for another's outcome today: counts and
   payment batches with the chain of `Approval`, the three-way match between
   `PurchaseReceipts` and `Payables`, shipments and counts with the locks of
   `StockLedger`.
2. FIFO and moving-average valuation against a reference definition over bounded
   histories.

## Not modelled, and why

* Reports that only read: aging of receivables and payables, the shift and day
  reports of the tills beyond their totals, reconciliations, the drill-down and
  the journal listing, payslips and bank files.
* Calculations without control that a model checker would add to: FIFO layers and
  moving averages, tax, supplier scores, statutory scales, payroll components,
  lateness, the wording and numbering of documents.
* Of planning: `_mark_constraints`, the levelling and the comparison of plans,
  and `allow_stale`, which records that somebody took a stale suggestion.
* The supplier portal, beyond answers to an rfq: it calls the same functions.
* Unit conversion and the expiry of batches, which refuse or convert before
  anything is written; personal data and regions.
* Sign-in, field permissions, row-level security, audit triggers, observability,
  file formats and the migrations are enforced by libraries or by the database,
  or are I/O.
