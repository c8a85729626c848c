------------------------------ MODULE Payables ------------------------------
(* Supplier invoices and what settles them (app/ap/invoices.py, payments.py,  *)
(* debit_notes.py): posting, payment batches from draft to execution, and     *)
(* debit notes with the goods a return gives back.                            *)
(*                                                                            *)
(* A request is one PostgreSQL transaction at READ COMMITTED.  It decides on  *)
(* the batch or note row it loaded, reads settlements and holds as they are   *)
(* committed when it asks, and makes its work visible when it commits.  The   *)
(* one lock is settle's FOR UPDATE on the invoice row, held to the commit.    *)
EXTENDS Integers, Sequences, FiniteSets

CONSTANTS
  Invoices,      \* supplier invoices, of one company and currency
  Gross,         \* the gross amount of each invoice
  Bought,        \* the quantity on the (single) line of each invoice
  Batches,       \* payment batches
  Selections,    \* the sets of invoices a batch may be built from
  ApprovalFrom,  \* the batch total from which an approval level applies
  Notes,         \* debit notes, drafted against posted invoices
  NoteOf,        \* the invoice of each note
  NoteGross,     \* what the note gives back in money
  NoteLines,     \* the quantities a return gives back, line by line; <<>> adjusts
  Override,      \* the notes posted with an over-note reason
  Posted,        \* the invoices posted before the behaviour starts
  Stocked,       \* what the location of the returns holds at the start
  Sessions,      \* the sessions serving requests
  Duties,        \* Duties[s]: the operations session s is asked for
  Free           \* "no session holds this row"

Operations == {"post", "create", "remove", "submit", "decide", "execute", "note"}

ASSUME InvoiceAssumption ==
  /\ IsFiniteSet(Invoices)
  /\ Gross \in [Invoices -> Nat \ {0}]
  /\ Bought \in [Invoices -> Nat]
  /\ Posted \subseteq Invoices
ASSUME SelectionAssumption == Selections \subseteq (SUBSET Invoices) \ {{}}
ASSUME NoteAssumption ==
  /\ IsFiniteSet(Notes)
  /\ NoteOf \in [Notes -> Posted]
  /\ NoteGross \in [Notes -> Nat \ {0}]
  /\ NoteLines \in [Notes -> Seq(Nat \ {0})]
  /\ Override \subseteq Notes
ASSUME NoneAssumption == "none" \notin Invoices
ASSUME DutyAssumption == Duties \in [Sessions -> SUBSET Operations]
ASSUME FreeAssumption == Free \notin Sessions
ASSUME AmountAssumption == ApprovalFrom \in Nat /\ Stocked \in Nat

VARIABLES
  posted,    \* the invoices whose status is posted
  payable,   \* payable[i]: the control account's balance from documents of i
  settled,   \* settled[i]: the sum of its settlement rows (settled_amount)
  paid,      \* paid[b][i]: the settlement rows whose source is batch b
  held,      \* the invoices with an open match hold
  batch,     \* batch[b]: the PaymentBatch row and its lines
  note,      \* note[n]: status and unapplied amount
  goods,     \* on_hand at the location the returns go out of
  rowLock,   \* the session holding each invoice row
  tx,        \* tx[s]: the open request of s, with the row it loaded
  pend       \* pend[s][i]: the settlements s has flushed

vars == <<posted, payable, settled, paid, held, batch, note, goods, rowLock, tx, pend>>

NoPending == [i \in Invoices |-> 0]

(* A batch row with its lines: lines[i] is the amount of the line of i, zero  *)
(* when i has none.  The order of the lines is left open.                     *)
NoBatch == [status |-> "none", lines |-> NoPending, total |-> 0, routed |-> 0]
Draft == [posted |-> FALSE, unapplied |-> 0]
None == "none"

(* A request: what it does to which document, the batch row it loaded,        *)
(* whether the document was a draft when loaded, the invoice it is working    *)
(* on, those it has settled, and the open amount a note has read.             *)
Closed == [op |-> None, doc |-> None, copy |-> NoBatch, fresh |-> TRUE,
           at |-> None, ran |-> {}, due |-> 0]

(* The sum of a function of natural amounts, as the number of units in all.   *)
UnitsOf(amounts, x) == {x} \X (1..amounts[x])
Units(amounts) == UNION {UnitsOf(amounts, x) : x \in DOMAIN amounts}
Total(amounts) == Cardinality(Units(amounts))
Names(lines) == {i \in Invoices : lines[i] > 0}

(* ------------------------------- transactions ----------------------------- *)

Init ==
  /\ posted = Posted
  /\ payable = [i \in Invoices |-> IF i \in Posted THEN Gross[i] ELSE 0]
  /\ settled = [i \in Invoices |-> 0]
  /\ paid = [b \in Batches |-> NoPending]
  /\ held = {}
  /\ batch = [b \in Batches |-> NoBatch]
  /\ note = [n \in Notes |-> Draft]
  /\ goods = Stocked
  /\ rowLock = [i \in Invoices |-> Free]
  /\ tx = [s \in Sessions |-> Closed]
  /\ pend = [s \in Sessions |-> NoPending]

documents == <<posted, payable, settled, paid, batch, note, goods>>

Working(s, op) == tx[s].op = op /\ op # None

(* The transaction of s is over, committed or not: its row locks are free.    *)
End(s) ==
  /\ tx' = [tx EXCEPT ![s] = Closed]
  /\ pend' = [pend EXCEPT ![s] = NoPending]
  /\ rowLock' = [i \in Invoices |-> IF rowLock[i] = s THEN Free ELSE rowLock[i]]

(* A request opens and loads the row it is about.                             *)
Open(s, op, doc, copy, fresh) ==
  /\ tx[s].op = None
  /\ op \in Duties[s]
  /\ tx' = [tx EXCEPT ![s] = [op |-> op, doc |-> doc, copy |-> copy, fresh |-> fresh,
                              at |-> None, ran |-> {}, due |-> 0]]
  /\ UNCHANGED <<documents, held, rowLock, pend>>

(* The request goes on: it works on another invoice, has settled more.        *)
GoOn(s, at, ran, due) ==
  tx' = [tx EXCEPT ![s] = [op |-> tx[s].op, doc |-> tx[s].doc, copy |-> tx[s].copy,
                           fresh |-> tx[s].fresh, at |-> at, ran |-> ran, due |-> due]]

(* settled_amount and open_amount, as session s reads them.                   *)
OpenAmount(s, i) == Gross[i] - settled[i] - pend[s][i]

(* Mutants: nobody locks the invoice row; the ceiling is not checked.         *)
MutUnlocked(s, i, amount) ==
  /\ amount > 0
  /\ amount <= OpenAmount(s, i)
  /\ pend' = [pend EXCEPT ![s][i] = @ + amount]
  /\ UNCHANGED rowLock
MutNoCeiling(s, i, amount) ==
  /\ amount > 0
  /\ rowLock[i] \in {Free, s}
  /\ rowLock' = [rowLock EXCEPT ![i] = s]
  /\ pend' = [pend EXCEPT ![s][i] = @ + amount]

(* settle: lock the row, waiting for its holder, then stay within the open    *)
(* amount.                                                                    *)
Settle(s, i, amount) ==
  /\ amount > 0
  /\ rowLock[i] \in {Free, s}
  /\ amount <= OpenAmount(s, i)
  /\ rowLock' = [rowLock EXCEPT ![i] = s]
  /\ pend' = [pend EXCEPT ![s][i] = @ + amount]

(* --------------------------------- invoices ------------------------------- *)

(* Mutant of StartPost: the status of the invoice is not looked at.           *)
MutPostAgain(s, i) == Open(s, "post", i, NoBatch, TRUE)
StartPost(s, i) == Open(s, "post", i, NoBatch, i \notin posted)

(* post_invoice: one entry crediting payables, whatever another session that  *)
(* read the draft did meanwhile.                                              *)
PostInvoice(s) ==
  LET i == tx[s].doc IN
  /\ Working(s, "post")
  /\ tx[s].fresh
  /\ rowLock[i] = Free
  /\ posted' = posted \cup {i}
  /\ payable' = [payable EXCEPT ![i] = @ + Gross[i]]
  /\ End(s)
  /\ UNCHANGED <<settled, paid, held, batch, note, goods>>

(* A match hold opens, or is released by an override (app/matching.py).       *)
Hold(i) ==
  /\ i \notin held
  /\ held' = held \cup {i}
  /\ UNCHANGED <<documents, rowLock, tx, pend>>
Release(i) ==
  /\ i \in held
  /\ held' = held \ {i}
  /\ UNCHANGED <<documents, rowLock, tx, pend>>

(* ----------------------------- payment batches ---------------------------- *)

Payable(i) == i \in posted /\ i \notin held /\ settled[i] < Gross[i]

(* create_batch: every selected invoice for the whole of what it owes now.    *)
StartCreate(s, b, selection) ==
  LET lines == [i \in Invoices |-> IF i \in selection THEN Gross[i] - settled[i] ELSE 0]
  IN  /\ \A i \in selection : Payable(i)
      /\ Open(s, "create", b, [status |-> "draft", lines |-> lines, total |-> Total(lines),
                               routed |-> 0], batch[b].status = "none")

Write(b, row) == batch' = [batch EXCEPT ![b] = row]

Create(s) ==
  /\ Working(s, "create")
  /\ batch[tx[s].doc].status = "none"
  /\ Write(tx[s].doc, tx[s].copy)
  /\ End(s)
  /\ UNCHANGED <<posted, payable, settled, paid, held, note, goods>>

StartBatch(s, op, b) ==
  /\ op \in {"remove", "submit", "decide", "execute"}
  /\ batch[b].status # "none"
  /\ Open(s, op, b, batch[b], TRUE)

(* An execution has updated the line of i in b, and not committed: a DELETE   *)
(* or UPDATE of that row waits for it.                                        *)
LineBusy(b, i) ==
  \E t \in Sessions : Working(t, "execute") /\ tx[t].doc = b /\ i \in tx[t].ran

Without(lines, i) == [lines EXCEPT ![i] = 0]

(* remove_line: the row goes, and the total becomes that of the lines this    *)
(* session had loaded.                                                        *)
RemoveLine(s, i) ==
  LET b == tx[s].doc IN
  /\ Working(s, "remove")
  /\ tx[s].copy.status # "executed"
  /\ i \in Names(tx[s].copy.lines)
  /\ ~LineBusy(b, i)
  /\ Write(b, [status |-> batch[b].status, lines |-> Without(batch[b].lines, i),
               total |-> Total(Without(tx[s].copy.lines, i)), routed |-> batch[b].routed])
  /\ End(s)
  /\ UNCHANGED <<posted, payable, settled, paid, held, note, goods>>

(* submit_batch: approved at once when its total reaches no level.            *)
Submit(s) ==
  LET b == tx[s].doc
      total == tx[s].copy.total IN
  /\ Working(s, "submit")
  /\ tx[s].copy.status = "draft"
  /\ Names(tx[s].copy.lines) # {}
  /\ Write(b, [status |-> IF total >= ApprovalFrom THEN "pending" ELSE "approved",
               lines |-> batch[b].lines, total |-> batch[b].total, routed |-> total])
  /\ End(s)
  /\ UNCHANGED <<posted, payable, settled, paid, held, note, goods>>

(* The decisions of the engine as batch statuses (_FROM_ENGINE); the mutant   *)
(* lets an engine state through that the table does not know.                 *)
MutOutcomes == {"approved", "rejected", "returned", "escalated"}
Outcomes == {"approved", "rejected", "returned"}

(* decide_batch: the decision of the last level (the chain is in Approval).   *)
Decide(s, outcome) ==
  LET b == tx[s].doc IN
  /\ Working(s, "decide")
  /\ tx[s].copy.status = "pending"
  /\ Write(b, [status |-> outcome, lines |-> batch[b].lines, total |-> batch[b].total,
               routed |-> batch[b].routed])
  /\ End(s)
  /\ UNCHANGED <<posted, payable, settled, paid, held, note, goods>>

Executing(s) == Working(s, "execute") /\ tx[s].copy.status = "approved"

(* execute_batch, one line: require_not_held ...                              *)
CheckHold(s, i) ==
  /\ Executing(s)
  /\ tx[s].at = None
  /\ i \in Names(tx[s].copy.lines) \ tx[s].ran
  /\ i \notin held
  /\ GoOn(s, i, tx[s].ran, tx[s].due)
  /\ UNCHANGED <<documents, held, rowLock, pend>>

(* ... then its entry, its journal_entry_id and its settlement.  The line's   *)
(* row must still be there: an UPDATE of a deleted row fails the request.     *)
PayLine(s) ==
  LET i == tx[s].at IN
  /\ Executing(s)
  /\ i # None
  /\ i \in Names(batch[tx[s].doc].lines)
  /\ ~LineBusy(tx[s].doc, i)
  /\ Settle(s, i, tx[s].copy.lines[i])
  /\ GoOn(s, None, tx[s].ran \cup {i}, tx[s].due)
  /\ UNCHANGED <<documents, held>>

(* Everything the request flushed becomes visible.                            *)
Execute(s) ==
  LET b == tx[s].doc IN
  /\ Executing(s)
  /\ tx[s].ran = Names(tx[s].copy.lines)
  /\ settled' = [i \in Invoices |-> settled[i] + pend[s][i]]
  /\ payable' = [i \in Invoices |-> payable[i] - pend[s][i]]
  /\ paid' = [paid EXCEPT ![b] = [i \in Invoices |-> @[i] + pend[s][i]]]
  /\ Write(b, [status |-> "executed", lines |-> batch[b].lines, total |-> batch[b].total,
               routed |-> batch[b].routed])
  /\ End(s)
  /\ UNCHANGED <<posted, held, note, goods>>

(* ------------------------------- debit notes ------------------------------ *)

IsReturn(n) == NoteLines[n] # <<>>
Quantity(n) == Total(NoteLines[n])

(* The quantity the posted notes, other than n, gave back of n's invoice.     *)
Returned(i, n) ==
  Total([m \in Notes |-> IF m # n /\ note[m].posted /\ NoteOf[m] = i THEN Quantity(m) ELSE 0])

StartNote(s, n) == Open(s, "note", n, NoBatch, ~note[n].posted)

(* post_debit_note up to its entry: the open amount is read without a lock;   *)
(* a return stays within the invoiced quantity, and every line within what    *)
(* the location holds, read for each line before any goods have moved.        *)
CheckNote(s) ==
  LET n == tx[s].doc
      i == NoteOf[n] IN
  /\ Working(s, "note")
  /\ tx[s].fresh
  /\ tx[s].at = None
  /\ tx[s].ran = {}
  /\ NoteGross[n] <= Gross[i] - settled[i] \/ n \in Override
  /\ IsReturn(n) => Returned(i, n) + Quantity(n) <= Bought[i]
  /\ \A k \in 1..Len(NoteLines[n]) : NoteLines[n][k] <= goods
  /\ GoOn(s, i, {}, Gross[i] - settled[i])
  /\ UNCHANGED <<documents, held, rowLock, pend>>

Lesser(x, y) == IF x <= y THEN x ELSE y

(* What the note settles: itself, or all that was open when it was read.      *)
SettleNote(s) ==
  LET i == tx[s].at IN
  /\ Working(s, "note")
  /\ i # None
  /\ Settle(s, i, Lesser(NoteGross[tx[s].doc], tx[s].due))
  /\ GoOn(s, None, {i}, tx[s].due)
  /\ UNCHANGED <<documents, held>>

PostNote(s) ==
  LET n == tx[s].doc
      i == NoteOf[n] IN
  /\ Working(s, "note")
  /\ tx[s].ran = {i}
  /\ settled' = [settled EXCEPT ![i] = @ + pend[s][i]]
  /\ payable' = [payable EXCEPT ![i] = @ - NoteGross[n]]
  /\ goods' = goods - Quantity(n)
  /\ note' = [note EXCEPT ![n] = [posted |-> TRUE, unapplied |-> NoteGross[n] - pend[s][i]]]
  /\ End(s)
  /\ UNCHANGED <<posted, paid, held, batch>>

(* The stock transactions take the same goods elsewhere, under their own lock *)
(* on the bucket, which a debit note does not take (app/stock/transactions.py)*)
Ship ==
  /\ goods > 0
  /\ goods' = goods - 1
  /\ UNCHANGED <<posted, payable, settled, paid, held, batch, note, rowLock, tx, pend>>

(* A check refuses, or the request dies: nothing it did is kept.  PostgreSQL  *)
(* also ends this way one of the sessions that wait for each other's rows.    *)
Rollback(s) ==
  /\ tx[s].op # None
  /\ End(s)
  /\ UNCHANGED <<documents, held>>

Next ==
  \/ \E i \in Invoices : Hold(i) \/ Release(i)
  \/ Ship
  \/ \E s \in Sessions :
       \/ \E i \in Invoices : StartPost(s, i) \/ RemoveLine(s, i) \/ CheckHold(s, i)
       \/ \E b \in Batches :
            \/ \E selection \in Selections : StartCreate(s, b, selection)
            \/ \E op \in Operations : StartBatch(s, op, b)
       \/ \E n \in Notes : StartNote(s, n)
       \/ \E outcome \in Outcomes : Decide(s, outcome)
       \/ PostInvoice(s)
       \/ Create(s)
       \/ Submit(s)
       \/ PayLine(s)
       \/ Execute(s)
       \/ CheckNote(s)
       \/ SettleNote(s)
       \/ PostNote(s)
       \/ Rollback(s)

Spec == Init /\ [][Next]_vars

(* -------------------------------- properties ------------------------------ *)

Statuses == {"none", "draft", "pending", "approved", "rejected", "returned", "executed"}
Lines == [Invoices -> Nat]
BatchRow == [status : Statuses, lines : Lines, total : Nat, routed : Nat]
NoteRow == [posted : BOOLEAN, unapplied : Nat]
Request == [op : Operations \cup {None}, doc : Invoices \cup Batches \cup Notes \cup {None},
            copy : BatchRow, fresh : BOOLEAN, at : Invoices \cup {None},
            ran : SUBSET Invoices, due : Nat]

TypeOK ==
  /\ posted \subseteq Invoices
  /\ payable \in [Invoices -> Int]
  /\ settled \in [Invoices -> Nat]
  /\ paid \in [Batches -> [Invoices -> Nat]]
  /\ held \subseteq Invoices
  /\ batch \in [Batches -> BatchRow]
  /\ note \in [Notes -> NoteRow]
  /\ goods \in Int
  /\ rowLock \in [Invoices -> Sessions \cup {Free}]
  /\ tx \in [Sessions -> Request]
  /\ pend \in [Sessions -> [Invoices -> Nat]]

(* "Two payment workers must not both observe the same open amount and append *)
(* settlements over it" (settle): payments and notes together never settle    *)
(* more than an invoice is for.                                               *)
SettledWithinGross == \A i \in Invoices : settled[i] <= Gross[i]

(* The ceiling checked under the row lock holds until the commit, and only    *)
(* the holder of a row has unsettled work on it.                              *)
SettlementIsLocked ==
  \A s \in Sessions, i \in Invoices :
    /\ pend[s][i] > 0 => rowLock[i] = s
    /\ settled[i] + pend[s][i] <= Gross[i]

(* The inductive invariant of the ceiling, with the types it needs.           *)
RequestTypes ==
  /\ tx = [s \in Sessions |-> tx[s]]
  /\ batch = [b \in Batches |-> batch[b]]
  /\ \A b \in Batches : batch[b].lines \in Lines
  /\ \A s \in Sessions :
       /\ tx[s].at \in Invoices \cup {None}
       /\ tx[s].due \in Int
       /\ tx[s].copy.lines \in Lines
       /\ tx[s].op \in {"create", "remove", "submit", "decide", "execute"} =>
            tx[s].doc \in Batches
       /\ tx[s].op = "note" => tx[s].doc \in Notes

MoneyTypes ==
  /\ settled \in [Invoices -> Nat]
  /\ pend \in [Sessions -> [Invoices -> Nat]]
  /\ rowLock \in [Invoices -> Sessions \cup {Free}]

Money == MoneyTypes /\ SettlementIsLocked /\ SettledWithinGross

SettlementInv == RequestTypes /\ Money

(* Whatever was removed, decided twice or executed by two sessions at once, a *)
(* batch never pays out more than the total that was sent for approval.       *)
PaidWithinApproval ==
  \A b \in Batches : Total(paid[b]) <= batch[b].routed

(* Nothing moves the control account except what moves an invoice's open      *)
(* amount, apart from the unapplied part of an over-note.                     *)
Unapplied(i) ==
  Total([n \in Notes |-> IF NoteOf[n] = i THEN note[n].unapplied ELSE 0])
ControlFollowsDocuments ==
  \A i \in posted : payable[i] = Gross[i] - settled[i] - Unapplied(i)

(* The rows keep their types, a batch pays no more than was approved, work    *)
(* that is not settled is under the lock of its row, and the control account  *)
(* follows the documents (payments.py, debit_notes.py).                       *)
BatchesHold ==
  TypeOK /\ PaidWithinApproval /\ SettlementIsLocked /\ ControlFollowsDocuments

(* One person posts: the code decides on the draft it loaded, so two of them  *)
(* post a document twice.                                                     *)
OneClerk ==
  \A s, t \in Sessions : Duties[s] \cap Duties[t] \cap {"post", "note"} # {} => s = t
=============================================================================
