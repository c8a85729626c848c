----------------------------- MODULE StockLedger -----------------------------
(* The stock transactions of app/stock/transactions.py as concurrent database *)
(* transactions: receive, issue and transfer called line by line by a         *)
(* document (a goods receipt, a shipment, a till sale), in one PostgreSQL     *)
(* transaction at READ COMMITTED.                                             *)
(*                                                                            *)
(* A line first takes the advisory locks of the buckets it touches            *)
(* (_lock_stock, _lock_transfer), waiting while another transaction holds     *)
(* them; then it reads on_hand (committed rows and its own), is refused or    *)
(* appends its rows (record_movement) and their journal (post_movement_to_gl).*)
(* The rows become visible, and the locks free, when the request commits.     *)
EXTENDS StockMovements, FiniteSets

CONSTANTS
  Sessions,      \* the database sessions serving requests
  Documents,     \* the documents they may post: non-empty sequences of lines
  Origin,        \* the stock left by earlier documents
  KeyOrder,      \* the order of the hashed lock keys (_stock_lock_key)
  Carried,       \* the narrowings the movements of this item name
  Free,          \* "no session holds this lock"
  MaxDocuments   \* how many documents a behaviour posts (a bound, not code)

Keys == Bins \X Narrowings
Movement == [Bins -> [Narrowings -> Int]]

ASSUME DocumentsAssumption ==
  /\ Documents \subseteq Seq(Lines)
  /\ <<>> \notin Documents
ASSUME OriginAssumption ==
  /\ Origin \in Movement
  /\ \A b \in Bins, q \in Narrowings : Origin[b][q] >= 0
ASSUME KeyOrderAssumption == KeyOrder \in [Keys -> Int]
ASSUME FreeAssumption == Free \notin Sessions
ASSUME CarriedAssumption ==
  /\ Carried \subseteq Narrowings
  /\ \A doc \in Documents : \A n \in 1..Len(doc) : doc[n].tag \in Carried
ASSUME BoundAssumption == MaxDocuments \in Nat

VARIABLES
  stock,      \* committed: on_hand per bin and narrowing
  worth,      \* committed: the value of the stock ledger since Origin
  inventory,  \* committed: the inventory account since Origin
  pending,    \* pending[s]: what the open transaction of s has flushed
  tx,         \* tx[s]: where the request of s stands
  lock,       \* the holder of each advisory lock
  begun       \* how many documents have been started

vars == <<stock, worth, inventory, pending, tx, lock, begun>>

NoWork == [qty |-> NoMovement, worth |-> 0, inventory |-> 0]
Idle == [open |-> FALSE, doc |-> <<>>, line |-> 1, got |-> 0]

(* ------------------------------ the lock keys ----------------------------- *)

Key(bin, line) == <<bin, line.tag>>

(* Mutants of LockOrder: no lock is taken; a transfer locks its source again; *)
(* a transfer locks its source first.                                         *)
MutNoLocks(line) == <<>>
MutSourceAgain(line) ==
  IF line.kind = Transfer
  THEN <<Key(line.from, line), Key(line.to, line), Key(line.from, line)>>
  ELSE IF line.kind = Receive THEN <<Key(line.to, line)>> ELSE <<Key(line.from, line)>>
MutSourceFirst(line) ==
  IF line.kind = Transfer THEN <<Key(line.from, line), Key(line.to, line)>>
  ELSE IF line.kind = Receive THEN <<Key(line.to, line)>> ELSE <<Key(line.from, line)>>

(* The keys a line locks, in the order it locks them: one for receive and     *)
(* issue, two in the order of the hashes for a transfer.                      *)
LockOrder(line) ==
  IF line.kind = Transfer
  THEN LET a == Key(line.from, line)
           b == Key(line.to, line)
       IN  IF KeyOrder[a] <= KeyOrder[b] THEN <<a, b>> ELSE <<b, a>>
  ELSE IF line.kind = Receive THEN <<Key(line.to, line)>> ELSE <<Key(line.from, line)>>

(* A session that is inside a line, and has locks of it still to take.        *)
InLine(s) == tx[s].open /\ tx[s].line <= Len(tx[s].doc)
Line(s) == tx[s].doc[tx[s].line]
Locking(s) == InLine(s) /\ WellFormed(Line(s)) /\ tx[s].got < Len(LockOrder(Line(s)))
NextKey(s) == LockOrder(Line(s))[tx[s].got + 1]

Waiting(s) == Locking(s) /\ lock[NextKey(s)] \notin {Free, s}
Holder(s) == lock[NextKey(s)]

(* The sessions of S wait for each other in a circle.                         *)
WaitCycle(S) == (\A s \in S : Waiting(s)) /\ {Holder(s) : s \in S} = S
InWaitCycle(s) == \E S \in SUBSET Sessions : s \in S /\ WaitCycle(S)

(* --------------------------------- actions -------------------------------- *)

(* What s reads: the committed rows and the ones it flushed itself.           *)
Visible(s) == Together(stock, pending[s].qty)

Init ==
  /\ stock = Origin
  /\ worth = 0
  /\ inventory = 0
  /\ pending = [s \in Sessions |-> NoWork]
  /\ tx = [s \in Sessions |-> Idle]
  /\ lock = [k \in Keys |-> Free]
  /\ begun = 0

(* Mutant of End: session locks (pg_advisory_lock), which survive the commit. *)
MutKeepLocks(s) ==
  /\ pending' = [pending EXCEPT ![s] = NoWork]
  /\ tx' = [tx EXCEPT ![s] = Idle]
  /\ UNCHANGED lock

(* The transaction of s is over: its locks are free and its work is gone.     *)
End(s) ==
  /\ pending' = [pending EXCEPT ![s] = NoWork]
  /\ tx' = [tx EXCEPT ![s] = Idle]
  /\ lock' = [k \in Keys |-> IF lock[k] = s THEN Free ELSE lock[k]]

Begin(s, doc) ==
  /\ ~tx[s].open
  /\ begun < MaxDocuments
  /\ begun' = begun + 1
  /\ tx' = [tx EXCEPT ![s] = [open |-> TRUE, doc |-> doc, line |-> 1, got |-> 0]]
  /\ UNCHANGED <<stock, worth, inventory, pending, lock>>

(* pg_advisory_xact_lock: waits for another session, re-enters its own lock.  *)
TakeLock(s) ==
  /\ Locking(s)
  /\ lock[NextKey(s)] \in {Free, s}
  /\ lock' = [lock EXCEPT ![NextKey(s)] = s]
  /\ tx' = [tx EXCEPT ![s].got = @ + 1]
  /\ UNCHANGED <<stock, worth, inventory, pending, begun>>

Ready(s) == InLine(s) /\ WellFormed(Line(s)) /\ tx[s].got = Len(LockOrder(Line(s)))

(* The rows of the line and their journal entries are flushed.                *)
WriteLine(s) ==
  /\ Ready(s)
  /\ Covered(Visible(s), Line(s))
  /\ pending' = [pending EXCEPT ![s] =
                   [qty |-> Moved(@.qty, Line(s)),
                    worth |-> @.worth + LineValue(Line(s)),
                    inventory |-> @.inventory + LineValue(Line(s))]]
  /\ tx' = [tx EXCEPT ![s] = [open |-> TRUE, doc |-> @.doc, line |-> @.line + 1, got |-> 0]]
  /\ UNCHANGED <<stock, worth, inventory, lock, begun>>

(* TransactionError or InsufficientStockError: the request rolls back.        *)
Refuse(s) ==
  /\ InLine(s)
  /\ \/ ~WellFormed(Line(s))
     \/ Ready(s) /\ ~Covered(Visible(s), Line(s))
  /\ End(s)
  /\ UNCHANGED <<stock, worth, inventory, begun>>

(* Mutant of Commit: the document may be committed between two lines.         *)
MutCommitEachLine(s) ==
  /\ tx[s].open
  /\ stock' = Together(stock, pending[s].qty)
  /\ worth' = worth + pending[s].worth
  /\ inventory' = inventory + pending[s].inventory
  /\ End(s)
  /\ UNCHANGED begun

(* Every line is written and the route commits.                               *)
Commit(s) ==
  /\ tx[s].open
  /\ tx[s].line > Len(tx[s].doc)
  /\ stock' = Together(stock, pending[s].qty)
  /\ worth' = worth + pending[s].worth
  /\ inventory' = inventory + pending[s].inventory
  /\ End(s)
  /\ UNCHANGED begun

(* The document fails elsewhere (an unmapped account, a closed month), the    *)
(* connection or the process dies: PostgreSQL rolls back.                     *)
Fail(s) ==
  /\ tx[s].open
  /\ End(s)
  /\ UNCHANGED <<stock, worth, inventory, begun>>

(* PostgreSQL's deadlock detector aborts a member of a wait cycle.            *)
AbortDeadlock(s) ==
  /\ InWaitCycle(s)
  /\ End(s)
  /\ UNCHANGED <<stock, worth, inventory, begun>>

Step(s) ==
  \/ TakeLock(s)
  \/ WriteLine(s)
  \/ Refuse(s)
  \/ Commit(s)
  \/ AbortDeadlock(s)

Next ==
  \E s \in Sessions :
    \/ \E doc \in Documents : Begin(s, doc)
    \/ Step(s)
    \/ Fail(s)

Spec == Init /\ [][Next]_vars

(* A request that can go on does: the worker thread runs, PostgreSQL grants a *)
(* free lock and its detector aborts a cycle.  Failures are never owed.       *)
FairSpec == Spec /\ \A s \in Sessions : WF_vars(Step(s))

(* -------------------------------- properties ------------------------------ *)

Work == [qty : Movement, worth : Int, inventory : Int]
Request == [open : BOOLEAN, doc : Documents \cup {<<>>}, line : Nat \ {0}, got : 0..2]

TypeOK ==
  /\ stock \in Movement
  /\ worth \in Int
  /\ inventory \in Int
  /\ pending \in [Sessions -> Work]
  /\ tx \in [Sessions -> Request]
  /\ lock \in [Keys -> Sessions \cup {Free}]
  /\ begun \in Nat

(* "Stock never goes negative" (transactions.py): whatever the interleaving   *)
(* of issues and transfers, no bin is taken below zero, for any narrowing     *)
(* the item's movements name.                                                 *)
NeverNegative ==
  \A b \in Bins, q \in Carried : stock[b][q] >= 0

(* The same for every sum a movement could be checked against, the bin as a   *)
(* whole included, also when only some movements of the item name a variant.  *)
NeverNegativeInAll ==
  \A b \in Bins, q \in Narrowings : stock[b][q] >= 0

(* The check under the lock stays true until the commit: an open transaction  *)
(* that wrote an issue could commit at once without taking its bin negative,  *)
(* although others have committed since it checked.                           *)
PendingIssuesStayCovered ==
  \A s \in Sessions, b \in Bins, q \in Carried : Visible(s)[b][q] >= 0

(* A bucket has at most one writer: what one transaction has flushed into a   *)
(* bucket, no other transaction has touched.                                  *)
OneWriterPerBucket ==
  \A s, t \in Sessions, b \in Bins, q \in Carried :
    pending[s].qty[b][q] # 0 /\ pending[t].qty[b][q] # 0 => s = t

(* The strengthening that makes the above inductive: a session holds the lock *)
(* of every bucket it has flushed rows into, and the locks it counted for its *)
(* current line.                                                              *)
WorkIsLocked ==
  \A s \in Sessions, b \in Bins, q \in Carried :
    pending[s].qty[b][q] # 0 => lock[<<b, q>>] = s

LineIsLocked ==
  \A s \in Sessions :
    InLine(s) => \A n \in 1..Len(LockOrder(Line(s))) :
                   n <= tx[s].got => lock[LockOrder(Line(s))[n]] = s

LedgerInv ==
  /\ TypeOK
  /\ WorkIsLocked
  /\ LineIsLocked
  /\ PendingIssuesStayCovered
  /\ NeverNegative

(* Transfers lock their two bins in one global order, so whenever sessions    *)
(* wait for each other in a circle, one of them is past its first line.       *)
CirclesNeedLines ==
  \A S \in SUBSET Sessions :
    S # {} /\ WaitCycle(S) => \E s \in S : tx[s].line > 1

(* Documents are atomic: what is committed moved by whole, covered documents. *)
Atomic == INSTANCE AtomicStock
Atomicity == Atomic!Spec

(* Every request ends, committed or rolled back, even when two documents lock *)
(* the same bins in opposite order.                                           *)
RequestsEnd == \A s \in Sessions : tx[s].open ~> ~tx[s].open
=============================================================================
