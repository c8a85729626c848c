------------------------------- MODULE MCSales --------------------------------
(* The desks of the sales side: orders, recurring invoices, reminders, the     *)
(* payment gateway, the till, the board of deals, and prices with coupons.     *)
(* They share no rows, so one of them works in a behaviour while the others    *)
(* stand still: what is reached of a desk is what it reaches alone.            *)
EXTENDS Integers, Sequences, FiniteSets, TLC

CONSTANTS
  Sessions,    \* database sessions, which run the jobs too
  Serial,      \* whether the users take turns at one document
  LastDay,     \* the days of a run (a bound, not code)
  MaxCrashes,  \* jobs that die (a bound, not code)
  (* orders: see SalesOrders *)
  Quotes, Quantity, UnitPrices, Bills, Nets, Payments, Stated, StartModes, Limit, Tax, Stocked,
  (* recurring invoices and reminders: see RecurringBilling, Dunning *)
  Agreements, LastPeriod, EndPeriods, Overdue, Due, Spans,
  (* the payment gateway: see Gateway *)
  Claims, Owing, Transfers, Amount, Bill, Events, About, FailedEvents, UnknownPayers,
  Misdirected, Hooks, Matchers,
  (* the till: see RetailTill *)
  Units, Unknown, Underpaid, Online, Moves, LastShift, Policies, Floats, MaxGiven, Shelved,
  (* deals: see Pipeline *)
  Cards, Customers, Stages, Meaning, MaxMoves,
  (* prices: see Coupons *)
  Rules, Offers, Documents, Asked, BasePrice, Clerks, LastOfferDay,
  q1  \* a quotation of the small instance

VARIABLES
  desk,  \* the desk that is at work
  orderToday, orderMode, orderQuotes, orderOrders, orderPicked, orderLeft, orderBin,
  orderInvoices, orderOnAccount, orderWithheld, orderTx,
  billToday, billPaused, billInvoices, billRuns, billJob, billCrashes,
  remindToday, remindOpen, remindReachable, remindReminders, remindSent, remindJob,
  remindDied,
  gateOwed, gateInbox, gateStatus, gateFirstKey, gateSettled, gateTx,
  tillToday, tillRequired, tillShifts, tillMovements, tillSales, tillBin, tillPosted,
  tillQueue, tillAnswers, tillReply, tillTx,
  boardStages, boardCustomers, boardContacts, boardCards, boardTrail, boardQuotations,
  boardTx,
  priceToday, priceRules, priceCoupons, priceLines, priceRedeemed, priceTx

orderVars == <<orderToday, orderMode, orderQuotes, orderOrders, orderPicked, orderLeft,
               orderBin, orderInvoices, orderOnAccount, orderWithheld, orderTx>>
billVars == <<billToday, billPaused, billInvoices, billRuns, billJob, billCrashes>>
remindVars == <<remindToday, remindOpen, remindReachable, remindReminders, remindSent,
                remindJob, remindDied>>
gateVars == <<gateOwed, gateInbox, gateStatus, gateFirstKey, gateSettled, gateTx>>
tillVars == <<tillToday, tillRequired, tillShifts, tillMovements, tillSales, tillBin,
              tillPosted, tillQueue, tillAnswers, tillReply, tillTx>>
boardVars == <<boardStages, boardCustomers, boardContacts, boardCards, boardTrail,
               boardQuotations, boardTx>>
priceVars == <<priceToday, priceRules, priceCoupons, priceLines, priceRedeemed, priceTx>>
vars == <<desk, orderVars, billVars, remindVars, gateVars, tillVars, boardVars, priceVars>>

Orders == INSTANCE SalesOrders WITH
  Prices <- UnitPrices, Invoices <- Bills,
  today <- orderToday, mode <- orderMode, quotes <- orderQuotes, orders <- orderOrders,
  picked <- orderPicked, left <- orderLeft, bin <- orderBin, invoices <- orderInvoices,
  onAccount <- orderOnAccount, withheld <- orderWithheld, tx <- orderTx
Billing == INSTANCE RecurringBilling WITH
  Count <- Agreements, Ends <- EndPeriods, Runners <- Sessions,
  today <- billToday, paused <- billPaused, invoices <- billInvoices, runs <- billRuns,
  job <- billJob, crashes <- billCrashes
Reminders == INSTANCE Dunning WITH
  Count <- Overdue, Runners <- Sessions,
  today <- remindToday, open <- remindOpen, reachable <- remindReachable,
  reminders <- remindReminders, sent <- remindSent, job <- remindJob, died <- remindDied
Gate == INSTANCE Gateway WITH
  Invoices <- Claims, Gross <- Owing, Payments <- Transfers,
  owed <- gateOwed, inbox <- gateInbox, status <- gateStatus, firstKey <- gateFirstKey,
  settled <- gateSettled, tx <- gateTx
Till == INSTANCE RetailTill WITH
  Stocked <- Shelved,
  today <- tillToday, required <- tillRequired, shifts <- tillShifts,
  movements <- tillMovements, sales <- tillSales, bin <- tillBin, posted <- tillPosted,
  queue <- tillQueue, answers <- tillAnswers, reply <- tillReply, tx <- tillTx
Board == INSTANCE Pipeline WITH
  stages <- boardStages, customers <- boardCustomers, contacts <- boardContacts,
  cards <- boardCards, trail <- boardTrail, quotations <- boardQuotations, tx <- boardTx
Prices == INSTANCE Coupons WITH
  Sessions <- Clerks, LastDay <- LastOfferDay,
  today <- priceToday, rules <- priceRules, coupons <- priceCoupons, lines <- priceLines,
  redeemed <- priceRedeemed, tx <- priceTx

ASSUME Parameters ==
  /\ Orders!QuantityAssumption
  /\ Orders!AmountAssumption
  /\ Orders!SerialAssumption
  /\ Billing!TemplateAssumption
  /\ Reminders!LevelAssumption
  /\ Reminders!DueAssumption
  /\ Gate!GrossAssumption
  /\ Gate!PaymentAssumption
  /\ Gate!EventAssumption
  /\ Gate!SessionAssumption
  /\ Till!SaleAssumption
  /\ Till!BoundAssumption
  /\ Board!BoardAssumption
  /\ Prices!OfferAssumption

Desks == {"orders", "billing", "reminders", "gateway", "till", "queue", "board", "prices"}

(* Each desk starts from its own initial states; what another one could start *)
(* from is fixed while it is not at work.                                      *)
Init ==
  /\ desk \in Desks
  /\ Orders!Init
  /\ Billing!Init
  /\ Reminders!Init
  /\ Gate!Init
  /\ Till!Init
  /\ Board!Init
  /\ Prices!Init
  /\ (desk # "orders" => orderMode = "block")
  /\ (desk # "billing" => \A t \in Billing!Templates : ~billPaused[t])
  /\ (desk # "reminders" => remindReachable)

OrdersWork ==
  /\ desk = "orders" /\ Orders!Next
  /\ UNCHANGED <<desk, billVars, remindVars, gateVars, tillVars, boardVars, priceVars>>
BillingWork ==
  /\ desk = "billing" /\ Billing!Next
  /\ UNCHANGED <<desk, orderVars, remindVars, gateVars, tillVars, boardVars, priceVars>>
RemindersWork ==
  /\ desk = "reminders" /\ Reminders!Next
  /\ UNCHANGED <<desk, orderVars, billVars, gateVars, tillVars, boardVars, priceVars>>
GateWork ==
  /\ desk = "gateway" /\ Gate!Next
  /\ UNCHANGED <<desk, orderVars, billVars, remindVars, tillVars, boardVars, priceVars>>
(* At the till the numbers that are not rung over the network stay unused; the *)
(* desk "queue" sells without a network, on one day (bounds, not code).        *)
TillWork ==
  /\ desk = "till" /\ Till!Next
  /\ \A n \in Till!Sales \ Online : tillSales'[n] = tillSales[n] /\ n \notin tillQueue'
  /\ UNCHANGED <<desk, orderVars, billVars, remindVars, gateVars, boardVars, priceVars>>
QueueWork ==
  /\ desk = "queue" /\ Till!Next
  /\ tillToday' = tillToday /\ \A n \in Till!Sales : tillSales'[n].status # "open"
  /\ UNCHANGED <<desk, orderVars, billVars, remindVars, gateVars, boardVars, priceVars>>
BoardWork ==
  /\ desk = "board" /\ Board!Next
  /\ UNCHANGED <<desk, orderVars, billVars, remindVars, gateVars, tillVars, priceVars>>
PricesWork ==
  /\ desk = "prices" /\ Prices!Next
  /\ UNCHANGED <<desk, orderVars, billVars, remindVars, gateVars, tillVars, boardVars>>

Next ==
  \/ OrdersWork
  \/ BillingWork
  \/ RemindersWork
  \/ GateWork
  \/ TillWork
  \/ QueueWork
  \/ BoardWork
  \/ PricesWork

Spec == Init /\ [][Next]_vars

(* -------------------------------- properties ------------------------------ *)

(* Every row of every desk keeps its type. *)
TypeOK ==
  /\ desk \in Desks
  /\ desk = "orders" => Orders!TypeOK
  /\ desk = "billing" => Billing!TypeOK
  /\ desk = "reminders" => Reminders!TypeOK
  /\ desk = "gateway" => Gate!TypeOK
  /\ desk \in {"till", "queue"} => Till!TypeOK
  /\ desk = "board" => Board!TypeOK
  /\ desk = "prices" => Prices!TypeOK

(* "A credit limit is only a control if the number it is compared against is   *)
(* the whole picture" (exposure.py): goods that left and were not paid for are *)
(* in it, and a company that blocks confirms nothing beyond the limit.         *)
CreditIsWhole ==
  desk = "orders" => Orders!ExposureCoversGoods /\ Orders!BlockedWithinLimit

(* Shipments of an order hand out each promised unit once (orders.py,          *)
(* fulfilment.py): the orders implement the abstract promise.                  *)
KeepsPromise == Orders!KeepsPromise

(* However often the nightly jobs are started, die or meet another run, a      *)
(* period is billed once and none is silently skipped (recurring.py), no       *)
(* reminder is repeated and nobody is left out (dunning.py).                   *)
JobsRepeatNothing ==
  /\ desk = "billing" => Billing!BilledOnce /\ Billing!NothingSkipped
  /\ desk = "reminders" => Reminders!RemindedOnce /\ Reminders!NobodyForgotten

(* An invoice is never over-settled, a payment settles once, its status tells *)
(* what became of the money (save one told as failed at first that two people *)
(* match at once), and what the gateway was answered for is on the books      *)
(* (gateway.py, ar/invoices.py).                                              *)
MoneyIsTold ==
  desk = "gateway" => /\ Gate!NeverOverSettled
                      /\ Gate!SettledOnce
                      /\ Gate!StatusTellsTheMoney
                      /\ Gate!AnsweredIsKnown

(* A till has one shift open (shifts.py), a sale moves its goods and its      *)
(* money once (sales.py, reports.py) while one request at a time is at it,    *)
(* and what the terminal forgot is on the books (offline.py), also when it    *)
(* sold two without a network.                                                *)
TillAddsUp ==
  desk \in {"till", "queue"} =>
    Till!OneShiftPerTill /\ Till!SoldOnce /\ Till!NothingForgotten

(* What a closed shift sold and took is what its report said (shifts.py).      *)
ClosedReportStands == Till!ClosedReportStands

(* The trail of a card tells where it stands (pipeline.py), a win makes one    *)
(* quotation (quotations.py), and whom a card names is not retired             *)
(* (customers.py).  The rule a line names is the one that wins (pricing.py),   *)
(* and coupons stay within their own limit and the strictest allowance         *)
(* (campaigns.py).                                                             *)
DealsHold ==
  /\ desk = "board" => /\ Board!TrailTellsTheCard
                       /\ Board!OneQuotationPerWin
                       /\ Board!NamedCustomersStand
  /\ desk = "prices" => /\ Prices!LinesNameTheWinner
                        /\ Prices!WithinLimit
                        /\ Prices!StrictestAllowance

(* ------------------------- the small instance of TLC ----------------------- *)

TwoAndOne == [q \in Quotes |-> IF q = q1 THEN 2 ELSE 1]
LastPeriods == <<2, 1>>
DueDays == <<0, 1>>
TwoLevels == << <<1, 1>>, <<2, -1>> >>
(* Two payments name one invoice of 3, which they over-settle together; the    *)
(* first is reported by two events.                                            *)
OneClaim == [i1 |-> 3]
TwoAmounts == [p1 |-> 1, p2 |-> 3]
OneBill == [p1 |-> "i1", p2 |-> "i1"]
ThreeReports == [e1 |-> "p1", e2 |-> "p1", e3 |-> "p2"]
TwoBaskets == <<1, 1>>
Marks == <<"open", "won", "lost">>

(* Of three rules the first is the most specific and the second has the        *)
(* tightest band.                                                              *)
Rule(item, floor) == [priority |-> 1, item |-> item, tier |-> -1, campaign |-> -1,
                      floor |-> floor, ceiling |-> -1, cut |-> 1]
ThreeRules == <<Rule(1, 1), Rule(-1, 2), Rule(-1, 1)>>
Offer(allowance, limit, last, cut) ==
  [allowance |-> allowance, limit |-> limit, first |-> 0, last |-> last, cut |-> cut]
ThreeOffers == <<Offer(2, 1, 1, 2), Offer(1, -1, 0, 1), Offer(2, 2, 1, 2)>>
TwoLines == {[item |-> 1, tier |-> 1, campaign |-> 1, quantity |-> 1],
             [item |-> 2, tier |-> 2, campaign |-> 1, quantity |-> 2]}

Symmetry == Permutations(Sessions)
==============================================================================
