------------------------------ MODULE RetailTill ------------------------------
(* One terminal of a shop (app/pos/): shifts are opened and closed on a count,*)
(* baskets are scanned, tendered, completed and voided, cash is moved by hand,*)
(* and what the terminal sold without a network is replayed later.            *)
(*                                                                            *)
(* A unit costs 1.  Completing, voiding and refunding a sale, opening and     *)
(* closing a shift and replaying a queue read when they begin and write what  *)
(* they computed when they commit.                                            *)
EXTENDS Integers, FiniteSets, FiniteSetsExt, SequencesExt

CONSTANTS
  Units,       \* Units[n]: the units in the basket of sale number n
  Unknown,     \* numbers whose queued basket has a barcode nobody carries
  Underpaid,   \* numbers whose queued payment does not cover the basket
  Online,      \* numbers rung over the network (a bound, not code)
  Moves,       \* cash put in, or taken out where negative, by hand
  LastShift,   \* shifts of a run (a bound, not code)
  Policies,    \* the drawer policies to start from: managed, not managed
  Floats,      \* what a shift may open with
  MaxGiven,    \* cash handed over for one sale (a bound, not code)
  Sessions,    \* database sessions
  Serial,      \* whether one request at a time is at a sale, and nobody closes
               \* a shift while a sale is being completed
  Stocked,     \* units at the till's location
  LastDay      \* days of a run (a bound, not code)

Sales == DOMAIN Units  \* numbers, in the order they are rung
Shifts == 1..LastShift
Days == 1..LastDay
NoShift == 0
None == "none"

SaleAssumption ==
  /\ Units \in Seq(Nat \ {0})
  /\ Unknown \subseteq Sales /\ Underpaid \subseteq Sales /\ Online \subseteq Sales
BoundAssumption ==
  /\ LastShift \in Nat /\ Floats \subseteq Nat /\ Moves \subseteq Int /\ MaxGiven \in Nat
  /\ Stocked \in Nat /\ LastDay \in Nat \ {0} /\ Policies \subseteq BOOLEAN /\ Serial \in BOOLEAN

VARIABLES
  today,
  required,   \* whether the company manages drawers
  shifts,     \* the shift rows
  movements,  \* the drawer movement rows
  sales,      \* the sale rows with their tenders
  bin,        \* on_hand of the location
  posted,     \* posted[n]: journal entries of sale n
  queue,      \* the numbers the terminal keeps for the next replay
  answers,    \* answers[n]: what the terminal was last told of n
  reply,      \* the answer stored under the idempotency key in use
  tx          \* tx[s]: the open request of s

vars == <<today, required, shifts, movements, sales, bin, posted, queue, answers, reply, tx>>

ShiftRows == [status : {"absent", "open", "closed"}, on : Days \cup {0}, float : Nat,
              expected : Int]
MovementRows == [amount : Int, shift : Shifts \cup {NoShift}, on : Days]
SaleRows == [status : {"absent", "open", "completed", "void"}, on : Days \cup {0},
             shift : Shifts \cup {NoShift}, units : Nat, given : Nat, cash : Nat,
             card : Nat, entry : BOOLEAN, reversed : Days \cup {0}]
Outcomes == {"accepted", "duplicate", "rejected"}

NoSale == [status |-> "absent", on |-> 0, shift |-> NoShift, units |-> 0, given |-> 0,
           cash |-> 0, card |-> 0, entry |-> FALSE, reversed |-> 0]
NoReply == [run |-> {}, outcomes |-> <<>>]
Idle == [op |-> None, row |-> 0, shift |-> NoShift, amount |-> 0, outcomes |-> <<>>]

Init ==
  /\ today = 1
  /\ required \in Policies
  /\ shifts = [k \in Shifts |-> [status |-> "absent", on |-> 0, float |-> 0, expected |-> 0]]
  /\ movements = {}
  /\ sales = [n \in Sales |-> NoSale]
  /\ bin = Stocked
  /\ posted = [n \in Sales |-> 0]
  /\ queue = {}
  /\ answers = [n \in Sales |-> None]
  /\ reply = NoReply
  /\ tx = [s \in Sessions |-> Idle]

(* A sum is counted in units, those above 0 less those below.                 *)
Counted(g) == UNION {{x} \X (1..g[x]) : x \in DOMAIN g}
SumOf(g) == Cardinality(Counted(g)) - Cardinality(Counted([x \in DOMAIN g |-> -g[x]]))

Goods(S) == SumOf([n \in S |-> Units[n]])

(* One request: one session, one transaction.  No row of a sale or of a shift *)
(* is locked.                                                                 *)
Closing == {"close", "complete", "sync"}
Starts(s, request) ==
  /\ tx[s] = Idle
  /\ Serial => \A t \in Sessions :
       /\ tx[t].op = "close" => request.op \notin Closing
       /\ request.op = "close" => tx[t].op \notin Closing
       /\ request.row # 0 => tx[t].row # request.row
  /\ tx' = [tx EXCEPT ![s] = request]
  /\ UNCHANGED <<today, required, shifts, movements, sales, bin, posted, queue, answers, reply>>

Ends(s, op) ==
  /\ tx[s].op = op
  /\ tx' = [tx EXCEPT ![s] = Idle]

(* ---------------------------------- shifts -------------------------------- *)

OpenShifts == {k \in Shifts : shifts[k].status = "open"}

(* current_shift: never more than one.                                        *)
CurrentShift == IF OpenShifts = {} THEN NoShift ELSE Min(OpenShifts)

BeginOpen(s, float) ==
  /\ CurrentShift = NoShift
  /\ Starts(s, [Idle EXCEPT !.op = "open", !.amount = float])

Fresh == {k \in Shifts : shifts[k].status = "absent"}

(* The movements of the day that no shift owns are claimed.                   *)
Claimed(k) == {IF m.shift = NoShift /\ m.on = today THEN [m EXCEPT !.shift = k] ELSE m :
                 m \in movements}

(* Mutant of CommitOpen: only the check made at the beginning counts.         *)
MutNoIndex(s) ==
  /\ Ends(s, "open")
  /\ Fresh # {}
  /\ shifts' = [shifts EXCEPT ![Min(Fresh)] = [status |-> "open", on |-> today,
                                               float |-> tx[s].amount, expected |-> 0]]
  /\ movements' = Claimed(Min(Fresh))
  /\ UNCHANGED <<today, required, sales, bin, posted, queue, answers, reply>>

(* open_shift: the partial unique index decides between two.                  *)
CommitOpen(s) ==
  /\ Ends(s, "open")
  /\ Fresh # {} /\ OpenShifts = {}
  /\ shifts' = [shifts EXCEPT ![Min(Fresh)] = [status |-> "open", on |-> today,
                                               float |-> tx[s].amount, expected |-> 0]]
  /\ movements' = Claimed(Min(Fresh))
  /\ UNCHANGED <<today, required, sales, bin, posted, queue, answers, reply>>

(* record_movement: in the shift that is trading, if one is.                  *)
RecordMovement(amount) ==
  /\ movements = {} /\ \A n \in Sales : sales[n].status = "absent" /\ n \notin queue
     \* once, and before the first sale of a run (a bound, not code)
  /\ movements' = {[amount |-> amount, shift |-> CurrentShift, on |-> today]}
  /\ UNCHANGED <<today, required, shifts, sales, bin, posted, queue, answers, reply, tx>>

(* Mutant of ShiftSales: the sales that are not refunded by now.              *)
MutCompletedOnly(k) == {n \in Sales : sales[n].shift = k /\ sales[n].status = "completed"}

(* shift_sales: rung up in the shift, refunded since or not.                  *)
ShiftSales(k) == {n \in Sales : sales[n].shift = k /\ sales[n].entry}

Gross(n) == sales[n].units
Change(n) == sales[n].given + sales[n].card - Gross(n)
RefundsOn(day) == {n \in Sales : sales[n].reversed = day}

(* drawer_state: cash handed over, less the change, and the movements.        *)
DrawerState(S, M) ==
  SumOf([n \in S |-> sales[n].given - Change(n)]) + SumOf([m \in M |-> m.amount])

(* shift_totals: with the float and without what refunds of the day it opened *)
(* on gave back.                                                              *)
ExpectedCash(k) ==
  DrawerState(ShiftSales(k), {m \in movements : m.shift = k})
  - SumOf([n \in RefundsOn(shifts[k].on) |-> sales[n].cash])
  + shifts[k].float

BeginClose(s, k) ==
  /\ shifts[k].status = "open"
  /\ Starts(s, [Idle EXCEPT !.op = "close", !.shift = k, !.amount = ExpectedCash(k)])

(* close_shift records what it expected; a variance needs a reason, no more.  *)
CommitClose(s) ==
  /\ Ends(s, "close")
  /\ shifts' = [shifts EXCEPT ![tx[s].shift].status = "closed",
                              ![tx[s].shift].expected = tx[s].amount]
  /\ UNCHANGED <<today, required, movements, sales, bin, posted, queue, answers, reply>>

(* ---------------------------------- sales --------------------------------- *)

OpenSale(n) ==
  /\ sales[n].status = "absent"
  /\ sales' = [sales EXCEPT ![n] = [NoSale EXCEPT !.status = "open", !.on = today,
                                                  !.shift = CurrentShift]]
  /\ UNCHANGED <<today, required, shifts, movements, bin, posted, queue, answers, reply, tx>>

(* The sale is open, and where the users take turns nobody is completing it.  *)
Basket(n) ==
  /\ sales[n].status = "open"
  /\ Serial => \A s \in Sessions : tx[s].row # n

Scan(n) ==
  /\ Basket(n)
  /\ sales[n].units = 0
  /\ sales' = [sales EXCEPT ![n].units = Units[n]]
  /\ UNCHANGED <<today, required, shifts, movements, bin, posted, queue, answers, reply, tx>>

Outstanding(n) == Gross(n) - sales[n].cash - sales[n].card

(* tender: what is handed over covers what is owed; only cash gives change.   *)
TenderCash(n, amount) ==
  /\ Basket(n)
  /\ sales[n].given + amount <= MaxGiven
  /\ sales' = [sales EXCEPT ![n].given = @ + amount,
                            ![n].cash = @ + Min({amount, Outstanding(n)})]
  /\ UNCHANGED <<today, required, shifts, movements, bin, posted, queue, answers, reply, tx>>

TenderCard(n, amount) ==
  /\ Basket(n)
  /\ amount \in 1..Outstanding(n)
  /\ sales' = [sales EXCEPT ![n].card = @ + amount]
  /\ UNCHANGED <<today, required, shifts, movements, bin, posted, queue, answers, reply, tx>>

(* require_open_shift: a shop that manages drawers sells in a shift.          *)
MaySell == CurrentShift # NoShift \/ ~required

BeginComplete(s, n) ==
  /\ Basket(n)
  /\ sales[n].units > 0
  /\ MaySell
  /\ Outstanding(n) = 0
  /\ Starts(s, [Idle EXCEPT !.op = "complete", !.row = n, !.shift = CurrentShift,
                            !.amount = sales[n].units])

(* Mutant of StampedShift: the shift the basket was opened in stays.          *)
MutOpenedIn(n, shift) == IF sales[n].shift # NoShift THEN sales[n].shift ELSE shift

(* The shift a sale belongs to is the one it was completed in.                *)
StampedShift(n, shift) == shift

(* complete_sale issues the goods, which the stock may refuse, and posts; its *)
(* state was read when the request began.                                     *)
CommitComplete(s) ==
  LET n == tx[s].row IN
  /\ Ends(s, "complete")
  /\ bin >= tx[s].amount
  /\ bin' = bin - tx[s].amount
  /\ posted' = [posted EXCEPT ![n] = @ + 1]
  /\ sales' = [sales EXCEPT ![n].status = "completed", ![n].entry = TRUE,
                            ![n].shift = StampedShift(n, tx[s].shift)]
  /\ UNCHANGED <<today, required, shifts, movements, queue, answers, reply>>

(* void_sale abandons a basket, or refunds a sale on the day it happens: it   *)
(* reads the state of the sale and what left, and writes later.               *)
BeginVoid(s, n) ==
  /\ sales[n].status = "open"
  /\ Starts(s, [Idle EXCEPT !.op = "void", !.row = n])

CommitVoid(s) ==
  /\ Ends(s, "void")
  /\ sales' = [sales EXCEPT ![tx[s].row].status = "void"]
  /\ UNCHANGED <<today, required, shifts, movements, bin, posted, queue, answers, reply>>

(* Mutant of BeginRefund: a refund of a refunded sale is not refused.         *)
MutRefundAgain(s, n) ==
  /\ sales[n].entry
  /\ Starts(s, [Idle EXCEPT !.op = "refund", !.row = n, !.amount = sales[n].units])

BeginRefund(s, n) ==
  /\ sales[n].status = "completed"
  /\ Starts(s, [Idle EXCEPT !.op = "refund", !.row = n, !.amount = sales[n].units])

CommitRefund(s) ==
  LET n == tx[s].row IN
  /\ Ends(s, "refund")
  /\ sales' = [sales EXCEPT ![n].status = "void", ![n].reversed = today]
  /\ bin' = bin + tx[s].amount
  /\ posted' = [posted EXCEPT ![n] = @ - 1]
  /\ UNCHANGED <<today, required, shifts, movements, queue, answers, reply>>

(* ------------------------------ without a network ------------------------- *)

(* The terminal sells a basket on its own and keeps it.                       *)
RingOffline(n) ==
  /\ sales[n].status \in {"absent", "open"} /\ n \notin queue /\ answers[n] = None
  /\ queue' = queue \cup {n}
  /\ UNCHANGED <<today, required, shifts, movements, sales, bin, posted, answers, reply, tx>>

InOrder(S) == SetToSortSeq(S, <)

(* The queued sales the loop accepts: not stored, in stock after the ones     *)
(* before them, and paid.                                                     *)
Accepted(run) ==
  FoldLeft(LAMBDA taken, n :
    IF sales[n].status = "absent" /\ n \notin Underpaid
       /\ Units[n] + Goods(taken) <= bin
    THEN taken \cup {n} ELSE taken, {}, InOrder(run))

(* Mutant of OutcomesOf: any stored sale of the number will do.               *)
MutAnyStored(run) ==
  [n \in run |-> IF sales[n].status # "absent" THEN "duplicate"
                 ELSE IF n \in Accepted(run) THEN "accepted" ELSE "rejected"]

OutcomesOf(run) ==
  [n \in run |-> IF sales[n].status = "completed" THEN "duplicate"
                 ELSE IF n \in Accepted(run) THEN "accepted" ELSE "rejected"]

(* What is no PosError ends the replay as a whole: a code nobody carries, and *)
(* a shop that manages drawers without an open shift.                         *)
Raises(run) ==
  \/ \E n \in run \cap Unknown : sales[n].status = "absent"
  \/ ~MaySell /\ \E n \in run : OutcomesOf(run)[n] = "accepted"

(* sync_sales takes the whole queue in order, in one transaction.             *)
BeginSync(s) ==
  /\ queue # {}
  /\ reply.run # queue
  /\ ~Raises(queue)
  /\ Starts(s, [Idle EXCEPT !.op = "sync", !.shift = CurrentShift,
                            !.outcomes = OutcomesOf(queue)])

FailSync ==
  /\ queue # {}
  /\ Raises(queue)
  /\ answers' = [n \in Sales |-> IF n \in queue THEN "failed" ELSE answers[n]]
  /\ UNCHANGED <<today, required, shifts, movements, sales, bin, posted, queue, reply, tx>>

New(s) == {n \in DOMAIN tx[s].outcomes : tx[s].outcomes[n] = "accepted"}

(* The terminal forgets what the server has and keeps the rest for a person.  *)
Hear(outcomes) ==
  /\ answers' = [n \in Sales |-> IF n \in DOMAIN outcomes THEN outcomes[n] ELSE answers[n]]
  /\ queue' = {n \in queue : n \notin DOMAIN outcomes \/ outcomes[n] = "rejected"}

(* The sales, the report and the answer under the key are one commit; numbers *)
(* that were taken meanwhile and goods that left meanwhile refuse it.  The    *)
(* answer may be lost.                                                        *)
CommitSync(s, heard) ==
  /\ Ends(s, "sync")
  /\ \A n \in New(s) : sales[n].status = "absent"
  /\ Goods(New(s)) <= bin
  /\ sales' = [n \in Sales |->
       IF n \in New(s)
       THEN [status |-> "completed", on |-> today, shift |-> tx[s].shift, units |-> Units[n],
             given |-> Units[n], cash |-> Units[n], card |-> 0, entry |-> TRUE, reversed |-> 0]
       ELSE sales[n]]
  /\ bin' = bin - Goods(New(s))
  /\ posted' = [n \in Sales |-> posted[n] + IF n \in New(s) THEN 1 ELSE 0]
  /\ reply' = [run |-> DOMAIN tx[s].outcomes, outcomes |-> tx[s].outcomes]
  /\ IF heard THEN Hear(tx[s].outcomes) ELSE UNCHANGED <<queue, answers>>
  /\ UNCHANGED <<today, required, shifts, movements>>

(* The same queue under the same key is answered from the stored answer.      *)
Replay ==
  /\ queue # {}
  /\ reply.run = queue
  /\ Hear(reply.outcomes)
  /\ reply' = NoReply
  /\ UNCHANGED <<today, required, shifts, movements, sales, bin, posted, tx>>

(* ----------------------------------- runs --------------------------------- *)

Abort(s) ==
  /\ tx[s] # Idle
  /\ tx' = [tx EXCEPT ![s] = Idle]
  /\ UNCHANGED <<today, required, shifts, movements, sales, bin, posted, queue, answers, reply>>

Tomorrow ==
  /\ today < LastDay
  /\ today' = today + 1
  /\ UNCHANGED <<required, shifts, movements, sales, bin, posted, queue, answers, reply, tx>>

Request(s) ==
  \/ \E float \in Floats : BeginOpen(s, float)
  \/ CommitOpen(s)
  \/ \E k \in Shifts : BeginClose(s, k)
  \/ CommitClose(s)
  \/ \E n \in Sales : BeginComplete(s, n)
  \/ CommitComplete(s)
  \/ \E n \in Sales : BeginVoid(s, n) \/ BeginRefund(s, n)
  \/ CommitVoid(s)
  \/ CommitRefund(s)
  \/ BeginSync(s)
  \/ \E heard \in BOOLEAN : CommitSync(s, heard)
  \/ Abort(s)

Next ==
  \/ \E s \in Sessions : Request(s)
  \/ \E n \in Sales :
       \/ n \in Online /\ OpenSale(n)
       \/ Scan(n)
       \/ \E amount \in 1..MaxGiven : TenderCash(n, amount) \/ TenderCard(n, amount)
       \/ RingOffline(n)
  \/ \E amount \in Moves : RecordMovement(amount)
  \/ FailSync
  \/ Replay
  \/ Tomorrow

Spec == Init /\ [][Next]_vars

(* -------------------------------- properties ------------------------------ *)

TypeOK ==
  /\ today \in Days
  /\ required \in BOOLEAN
  /\ shifts \in [Shifts -> ShiftRows]
  /\ movements \subseteq MovementRows
  /\ sales \in [Sales -> SaleRows]
  /\ bin \in Nat
  /\ posted \in [Sales -> Int]
  /\ queue \subseteq Sales
  /\ answers \in [Sales -> Outcomes \cup {None, "failed"}]
  /\ reply.run \subseteq Sales

(* "One shift per terminal at a time": also when two people open one.         *)
OneShiftPerTill == Cardinality(OpenShifts) <= 1

(* "It is immutable once the shift is closed": what a closed shift sold, and  *)
(* took in cash, is what its report said when it closed.                      *)
Takings(k) == [sold |-> SumOf([n \in ShiftSales(k) |-> Gross(n)]),
               cash |-> DrawerState(ShiftSales(k), {})]
ClosedReportStands ==
  [][\A k \in Shifts : shifts[k].status = "closed" => Takings(k)' = Takings(k)]_vars

(* "Once means once": goods leave, and money is posted, once for a sale that  *)
(* stands and not at all for another, however often its number is replayed.   *)
Stands == {n \in Sales : sales[n].status = "completed"}
SoldOnce ==
  /\ bin = Stocked - Goods(Stands)
  /\ \A n \in Sales : posted[n] = IF n \in Stands THEN 1 ELSE 0

(* What the terminal forgot is on the books: a queued sale is still queued,   *)
(* or was completed at the server.                                            *)
NothingForgotten ==
  \A n \in Sales : answers[n] \in {"accepted", "duplicate"} => sales[n].entry

(* "One bad sale does not take the run": only a sale that is bad itself fails.*)
BadSalesFailAlone == \A n \in Sales : answers[n] = "failed" => n \in Unknown
=============================================================================
