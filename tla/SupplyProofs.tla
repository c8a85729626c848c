----------------------------- MODULE SupplyProofs -----------------------------
(* Proofs about the desks of the supply side (module MCSupply): purchase       *)
(* receipts, sourcing, the holds of the match, physical counts, places with    *)
(* their serial units, recalls, planning, bills of materials, production.      *)
(* Each part states the inductive invariant of its desk, one lemma per         *)
(* operation, and the step; the theorems of the whole end the module.          *)
EXTENDS MCSupply, SumTheorems

(* One person at a time posts receipts and counts.                             *)
OneClerk == \A c \in Clerks : \A d \in Clerks : c = d

(* --------------------------------- receipts ------------------------------- *)

RecvOrderRows == [status : Receiving!Statuses, quantity : Receiving!Quantities, received : Nat,
                  short : BOOLEAN]
RecvRows == [state : {"absent", "draft", "posted"}, order : 1..MaxRevisions,
             accepted : Nat, reason : BOOLEAN]
RecvRequests == [receipt : Receipts \cup {Receiving!None}, received : Nat, over : BOOLEAN]

(* The units that a receipt brought.                                           *)
Brought(movements, receipts) ==
  [r \in Receipts |-> movements[r] * receipts[r].accepted]
Came(movements) == {r \in Receipts : movements[r] > 0}

(* An open posting is of the newest revision, and what it read is still so.    *)
Arriving(s) ==
  LET r == recvTx[s].receipt IN
  /\ r \in Receipts /\ recvReceipts[r].state = "draft"
  /\ recvReceipts[r].order = Len(recvOrders)
  /\ recvTx[s].received = recvOrders[Len(recvOrders)].received
  /\ recvTx[s].over = Receiving!Over(r)

RecvTypes ==
  /\ recvOrders \in Seq(RecvOrderRows) /\ Len(recvOrders) \in 1..MaxRevisions
  /\ recvReceipts \in [Receipts -> RecvRows]
  /\ recvMovements \in [Receipts -> Nat]
  /\ recvTx \in [Clerks -> RecvRequests]

ReceiptFits(r) ==
  /\ recvMovements[r] = IF recvReceipts[r].state = "posted" THEN 1 ELSE 0
  /\ (recvReceipts[r].state # "absent" =>
        /\ recvReceipts[r].order \in 1..Len(recvOrders)
        /\ \E q \in Receiving!Quantities : recvReceipts[r].accepted = q)

(* Stated of the newest revision, what the properties say is inductive.        *)
RecvInv ==
  /\ RecvTypes
  /\ IsFiniteSet(Came(recvMovements))
  /\ \A r \in Receipts : ReceiptFits(r)
  /\ \A s \in Clerks : recvTx[s] # Receiving!Idle => Arriving(s)
  /\ recvOrders[Len(recvOrders)].received
       = SumOver(Brought(recvMovements, recvReceipts), Came(recvMovements))
  /\ (recvOrders[Len(recvOrders)].received > recvOrders[Len(recvOrders)].quantity =>
        \E r \in Came(recvMovements) : recvReceipts[r].reason)
  /\ Receiving!ClosedIsComplete

LEMMA RecvConstants == MaxRevisions \in Nat \ {0} /\ MaxDelivered \in Nat \ {0}
BY Parameters DEF Receiving!BoundsAssumption

LEMMA ArrivedIsSum ==
  Receiving!Arrived = SumOver(Brought(recvMovements, recvReceipts), Came(recvMovements))
<1> DEFINE S == Came(recvMovements)
           f == Brought(recvMovements, recvReceipts)
           Plus(it, s) == IF s = {} THEN 0
                          ELSE recvMovements[First(s)] * recvReceipts[First(s)].accepted
                                 + it[s \ {First(s)}]
<1>1. ASSUME NEW it, NEW s \in SUBSET S PROVE Plus(it, s) = Added(f, it, s)
  BY DEF Added, First, Brought, Came
<1>2. ASSUME NEW it PROVE [s \in SUBSET S |-> Plus(it, s)] = [s \in SUBSET S |-> Added(f, it, s)]
  BY <1>1
<1>3. (CHOOSE it : it = [s \in SUBSET S |-> Plus(it, s)]) = CHOOSE it : Adds(f, SUBSET S, it)
  BY <1>2 DEF Adds
<1>4. SumOver(f, S) = (CHOOSE it : Adds(f, SUBSET S, it))[S]
  BY SumIsChosen
<1>5. Receiving!Arrived = (CHOOSE it : it = [s \in SUBSET S |-> Plus(it, s)])[S]
  BY DEF Receiving!Arrived, Receiving!Posted, Came, Receiving!MapThenSumSet,
         Receiving!MapThenFoldSet, First
<1> QED
  BY <1>3, <1>4, <1>5

LEMMA RecvInvSuffices ==
  RecvInv => /\ Receiving!ReceivedTellsArrived
             /\ Receiving!OverReceiptIsDecided
             /\ Receiving!ClosedIsComplete
<1> SUFFICES ASSUME RecvInv
             PROVE  Receiving!ReceivedTellsArrived /\ Receiving!OverReceiptIsDecided
  BY DEF RecvInv
<1>1. Receiving!Arrived = recvOrders[Len(recvOrders)].received
  BY ArrivedIsSum DEF RecvInv
<1>2. Len(recvOrders) \in 1..Len(recvOrders)
  BY DEF RecvInv, RecvTypes
<1> QED
  BY <1>1, <1>2 DEF RecvInv, Receiving!ReceivedTellsArrived, Receiving!OverReceiptIsDecided,
     Receiving!Latest, Receiving!Posted, Came

LEMMA RecvStart == Receiving!Init => RecvInv
<1> SUFFICES ASSUME Receiving!Init PROVE RecvInv
  OBVIOUS
<1>1. PICK q \in Receiving!Quantities :
        recvOrders = <<[status |-> "draft", quantity |-> q, received |-> 0, short |-> FALSE]>>
  BY DEF Receiving!Init
<1>2. /\ recvReceipts = [r \in Receipts |-> [state |-> "absent", order |-> 1, accepted |-> 0,
                                             reason |-> FALSE]]
      /\ recvMovements = [r \in Receipts |-> 0]
      /\ recvTx = [s \in Clerks |-> Receiving!Idle]
  BY DEF Receiving!Init
<1>3. q \in Nat
  BY RecvConstants DEF Receiving!Quantities
<1>4. PICK row \in RecvOrderRows :
        recvOrders = <<row>> /\ row.received = 0 /\ row.quantity = q /\ row.status = "draft"
  <2> DEFINE row == [status |-> "draft", quantity |-> q, received |-> 0, short |-> FALSE]
  <2>1. row \in RecvOrderRows /\ row.received = 0 /\ row.quantity = q /\ row.status = "draft"
    BY DEF RecvOrderRows, Receiving!Statuses
  <2>2. recvOrders = <<row>>
    BY <1>1
  <2> QED
    BY <2>1, <2>2
<1>5. recvOrders \in Seq(RecvOrderRows) /\ Len(recvOrders) = 1 /\ recvOrders[1] = row
  BY <1>4
<1>6. RecvTypes
  BY <1>2, <1>5, RecvConstants
     DEF RecvTypes, RecvRows, RecvRequests, Receiving!Idle, Receiving!None
<1>7. Came(recvMovements) = {}
  BY <1>2 DEF Came
<1>8. IsFiniteSet(Came(recvMovements))
        /\ SumOver(Brought(recvMovements, recvReceipts), Came(recvMovements)) = 0
  BY <1>7, FS_EmptySet, SumOfNone
<1>9. \A r \in Receipts : ReceiptFits(r)
  BY <1>2 DEF ReceiptFits
<1>10. \A s \in Clerks : recvTx[s] = Receiving!Idle
  BY <1>2
<1>11. Receiving!ClosedIsComplete
  BY <1>4, <1>5 DEF Receiving!ClosedIsComplete, Receiving!Latest
<1> QED
  BY <1>3, <1>4, <1>5, <1>6, <1>8, <1>9, <1>10, <1>11 DEF RecvInv

(* The status of a revision changes, and it is not closed short unawares.      *)
LEMMA RecvOrderChanges ==
  ASSUME RecvInv, NEW o \in 1..Len(recvOrders), NEW row \in RecvOrderRows,
         recvOrders' = [recvOrders EXCEPT ![o] = row],
         row.quantity = recvOrders[o].quantity, row.received = recvOrders[o].received,
         row.status = "closed" /\ ~row.short => row.received >= row.quantity,
         recvReceipts' = recvReceipts, recvMovements' = recvMovements, recvTx' = recvTx
  PROVE  RecvInv'
<1>1. /\ recvOrders' \in Seq(RecvOrderRows) /\ Len(recvOrders') = Len(recvOrders)
      /\ recvOrders'[o] = row
      /\ \A p \in 1..Len(recvOrders) : p # o => recvOrders'[p] = recvOrders[p]
      /\ Len(recvOrders) \in 1..Len(recvOrders)
  BY DEF RecvInv, RecvTypes
<1>2. \A p \in 1..Len(recvOrders) : /\ recvOrders'[p].quantity = recvOrders[p].quantity
                                    /\ recvOrders'[p].received = recvOrders[p].received
  BY <1>1
<1>3. RecvTypes'
  BY <1>1 DEF RecvInv, RecvTypes
<1>4. \A r \in Receipts : ReceiptFits(r)'
  BY <1>1 DEF RecvInv, ReceiptFits
<1>5. ASSUME NEW s \in Clerks, recvTx[s] # Receiving!Idle PROVE Arriving(s)'
  <2>1. Arriving(s)
    BY <1>5 DEF RecvInv
  <2>2. Receiving!Over(recvTx[s].receipt)' <=> Receiving!Over(recvTx[s].receipt)
    BY <1>1, <1>2, <2>1 DEF Arriving, Receiving!Over
  <2>3. Receiving!Over(recvTx[s].receipt)' = Receiving!Over(recvTx[s].receipt)
    BY <2>2 DEF Receiving!Over
  <2> QED
    BY <1>1, <1>2, <2>1, <2>3 DEF Arriving
<1>6. Receiving!ClosedIsComplete'
  BY <1>1 DEF RecvInv, Receiving!ClosedIsComplete, Receiving!Latest
<1>7. /\ recvOrders'[Len(recvOrders')].received = recvOrders[Len(recvOrders)].received
      /\ recvOrders'[Len(recvOrders')].quantity = recvOrders[Len(recvOrders)].quantity
  BY <1>1, <1>2
<1> QED
  BY <1>3, <1>4, <1>5, <1>6, <1>7 DEF RecvInv

LEMMA RecvSetsStatus ==
  ASSUME RecvInv, NEW o \in 1..Len(recvOrders), NEW status \in Receiving!Statuses \ {"closed"},
         Receiving!SetStatus(o, status),
         recvReceipts' = recvReceipts, recvMovements' = recvMovements, recvTx' = recvTx
  PROVE  RecvInv'
<1>1. PICK q \in RecvOrderRows : q = recvOrders[o]
  BY DEF RecvInv, RecvTypes
<1>2. [q EXCEPT !.status = status] \in RecvOrderRows
      /\ [q EXCEPT !.status = status].quantity = q.quantity
      /\ [q EXCEPT !.status = status].received = q.received
      /\ [q EXCEPT !.status = status].status = status
  BY <1>1 DEF RecvOrderRows
<1>3. recvOrders' = [recvOrders EXCEPT ![o] = [q EXCEPT !.status = status]]
  BY <1>1 DEF Receiving!SetStatus
<1> QED
  BY <1>1, <1>2, <1>3, RecvOrderChanges

LEMMA RecvCloses ==
  ASSUME RecvInv, NEW o \in 1..Len(recvOrders), NEW short \in BOOLEAN, Receiving!Close(o, short)
  PROVE  RecvInv'
<1>1. PICK q \in RecvOrderRows : q = recvOrders[o]
  BY DEF RecvInv, RecvTypes
<1>2. PICK row : row = [status |-> "closed", quantity |-> q.quantity, received |-> q.received,
                        short |-> short]
  OBVIOUS
<1>3. PICK m : m = [status |-> "closed", quantity |-> q.quantity, received |-> q.received,
                    short |-> q.short]
  OBVIOUS
<1>4. [q EXCEPT !.status = "closed"] = m
  BY <1>3 DEF RecvOrderRows
<1>5. [m EXCEPT !.short = short] = row
  BY <1>2, <1>3
<1>6. [q EXCEPT !.status = "closed", !.short = short]
        = [[q EXCEPT !.status = "closed"] EXCEPT !.short = short]
  OBVIOUS
<1>7. recvOrders' = [recvOrders EXCEPT ![o] = [q EXCEPT !.status = "closed", !.short = short]]
  BY <1>1 DEF Receiving!Close, RecvInv, RecvTypes
<1>8. recvOrders' = [recvOrders EXCEPT ![o] = row]
  BY <1>4, <1>5, <1>6, <1>7
<1>9. row \in RecvOrderRows
  BY <1>1, <1>2 DEF RecvOrderRows, Receiving!Statuses
<1>10. q.quantity \in Nat /\ q.received \in Nat
  BY RecvConstants DEF RecvOrderRows, Receiving!Quantities
<1>11. row.status = "closed" /\ ~row.short => row.received >= row.quantity
  BY <1>1, <1>2, <1>10 DEF Receiving!Close
<1> QED
  BY <1>1, <1>2, <1>8, <1>9, <1>11, RecvOrderChanges DEF Receiving!Close

(* A revision asks for no less than has arrived.                               *)
LEMMA RecvAmends ==
  ASSUME RecvInv, NEW o \in 1..Len(recvOrders), NEW q \in Receiving!Quantities,
         Receiving!Amend(o, q)
  PROVE  RecvInv'
<1> DEFINE row == [status |-> "draft", quantity |-> q, received |-> recvOrders[o].received,
                   short |-> FALSE]
           L == Len(recvOrders)
<1>1. /\ o = L /\ L < MaxRevisions /\ q >= recvOrders[o].received
      /\ recvOrders' = Append(recvOrders, row)
      /\ recvReceipts' = recvReceipts /\ recvMovements' = recvMovements /\ recvTx' = recvTx
      /\ \A s \in Clerks : recvTx[s] = Receiving!Idle
  BY DEF Receiving!Amend, Receiving!Latest
<1>2. recvOrders[o] \in RecvOrderRows
  BY DEF RecvInv, RecvTypes
<1>3. /\ row \in RecvOrderRows /\ row.status = "draft" /\ row.received = recvOrders[o].received
      /\ row.quantity = q
  BY <1>2 DEF RecvOrderRows, Receiving!Statuses
<1> HIDE DEF row
<1>4. /\ recvOrders' \in Seq(RecvOrderRows) /\ Len(recvOrders') = L + 1
      /\ recvOrders'[L + 1] = row /\ \A p \in 1..L : recvOrders'[p] = recvOrders[p]
      /\ L \in 1..MaxRevisions
  BY <1>1, <1>3 DEF RecvInv, RecvTypes
<1>5. L + 1 \in 1..MaxRevisions /\ 1..L \subseteq 1..(L + 1)
      /\ \A p \in 1..(L + 1) : p = L + 1 \/ p \in 1..L
  BY <1>1, <1>4, RecvConstants
<1>6. RecvTypes'
  BY <1>1, <1>4, <1>5 DEF RecvInv, RecvTypes
<1>7. \A r \in Receipts : ReceiptFits(r)'
  BY <1>1, <1>4, <1>5 DEF RecvInv, ReceiptFits
<1>8. Receiving!ClosedIsComplete'
  BY <1>3, <1>4, <1>5 DEF RecvInv, Receiving!ClosedIsComplete, Receiving!Latest
<1>9. recvOrders'[Len(recvOrders')].received = recvOrders[L].received
      /\ ~(recvOrders'[Len(recvOrders')].received > recvOrders'[Len(recvOrders')].quantity)
  <2>1. recvOrders[o].received \in Nat /\ q \in Nat
    BY <1>2, RecvConstants DEF RecvOrderRows, Receiving!Quantities
  <2> QED
    BY <1>1, <1>3, <1>4, <2>1
<1> QED
  BY <1>1, <1>6, <1>7, <1>8, <1>9 DEF RecvInv

LEMMA RecvDrafts ==
  ASSUME RecvInv, NEW o \in 1..Len(recvOrders), NEW r \in Receipts,
         NEW q \in Receiving!Quantities, Receiving!Draft(r, o, q)
  PROVE  RecvInv'
<1> DEFINE row == [state |-> "draft", order |-> o, accepted |-> q, reason |-> FALSE]
<1>1. q \in Nat
  BY RecvConstants DEF Receiving!Quantities
<1>2. /\ recvReceipts[r].state = "absent" /\ recvReceipts' = [recvReceipts EXCEPT ![r] = row]
      /\ recvOrders' = recvOrders /\ recvMovements' = recvMovements /\ recvTx' = recvTx
  BY DEF Receiving!Draft
<1>3. row \in RecvRows /\ row.state = "draft" /\ row.order = o /\ row.accepted = q
  BY <1>1, RecvConstants DEF RecvInv, RecvTypes, RecvRows
<1> HIDE DEF row
<1>4. /\ recvReceipts' \in [Receipts -> RecvRows] /\ recvReceipts'[r] = row
      /\ \A p \in Receipts : p # r => recvReceipts'[p] = recvReceipts[p]
  BY <1>2, <1>3 DEF RecvInv, RecvTypes
<1>5. RecvTypes'
  BY <1>2, <1>4 DEF RecvInv, RecvTypes
<1>6. recvMovements[r] = 0 /\ r \notin Came(recvMovements)
  BY <1>2 DEF RecvInv, ReceiptFits, Came
<1>7. \A p \in Receipts : ReceiptFits(p)'
  BY <1>1, <1>2, <1>3, <1>4, <1>6 DEF RecvInv, ReceiptFits
<1>8. ASSUME NEW s \in Clerks, recvTx[s] # Receiving!Idle PROVE Arriving(s)'
  BY <1>2, <1>4, <1>8 DEF RecvInv, Arriving, Receiving!Over
<1>9. SumOver(Brought(recvMovements, recvReceipts'), Came(recvMovements))
        = SumOver(Brought(recvMovements, recvReceipts), Came(recvMovements))
  <2>1. \A p \in Came(recvMovements) :
          Brought(recvMovements, recvReceipts)[p] = Brought(recvMovements, recvReceipts')[p]
    BY <1>4, <1>6 DEF Brought, Came
  <2>2. IsFiniteSet(Came(recvMovements))
    BY DEF RecvInv
  <2> QED
    BY <2>1, <2>2, SumOfSame
<1>10. Receiving!ClosedIsComplete'
  BY <1>2 DEF RecvInv, Receiving!ClosedIsComplete, Receiving!Latest
<1>11. \A p \in Came(recvMovements) : recvReceipts'[p] = recvReceipts[p]
  BY <1>4, <1>6 DEF Came
<1> QED
  BY <1>2, <1>5, <1>7, <1>8, <1>9, <1>10, <1>11 DEF RecvInv

LEMMA RecvTakes ==
  ASSUME RecvInv, NEW s \in Clerks, NEW t \in RecvRequests,
         recvTx' = [recvTx EXCEPT ![s] = t], recvOrders' = recvOrders,
         recvReceipts' = recvReceipts, recvMovements' = recvMovements,
         t # Receiving!Idle => Arriving(s)'
  PROVE  RecvInv'
<1>1. /\ recvTx' \in [Clerks -> RecvRequests] /\ recvTx'[s] = t
      /\ \A c \in Clerks : c # s => recvTx'[c] = recvTx[c]
  BY DEF RecvInv, RecvTypes
<1>2. ASSUME NEW c \in Clerks, c # s, recvTx[c] # Receiving!Idle PROVE Arriving(c)'
  BY <1>1, <1>2 DEF RecvInv, Arriving, Receiving!Over
<1>3. RecvTypes' /\ \A r \in Receipts : ReceiptFits(r)'
  BY <1>1 DEF RecvInv, RecvTypes, ReceiptFits
<1>4. Receiving!ClosedIsComplete'
  BY DEF RecvInv, Receiving!ClosedIsComplete, Receiving!Latest
<1>5. \A c \in Clerks : recvTx'[c] # Receiving!Idle => Arriving(c)'
  BY <1>1, <1>2
<1> QED
  BY <1>3, <1>4, <1>5 DEF RecvInv

LEMMA RecvBegins ==
  ASSUME RecvInv, NEW s \in Clerks, NEW r \in Receipts, NEW reason \in BOOLEAN,
         Receiving!Begin(s, r, reason)
  PROVE  RecvInv'
<1> DEFINE t == [receipt |-> r, received |-> recvOrders[recvReceipts[r].order].received,
                 over |-> Receiving!Over(r)]
<1>1. /\ recvReceipts[r].state = "draft" /\ recvReceipts[r].order = Len(recvOrders)
      /\ recvTx' = [recvTx EXCEPT ![s] = t]
      /\ recvOrders' = recvOrders /\ recvReceipts' = recvReceipts
      /\ recvMovements' = recvMovements
  BY DEF Receiving!Begin, Receiving!Postable, Receiving!Takes, Receiving!Latest
<1>2. recvOrders[Len(recvOrders)] \in RecvOrderRows
  BY DEF RecvInv, RecvTypes
<1>3. Receiving!Over(r) \in BOOLEAN
  BY DEF Receiving!Over
<1>4. /\ t \in RecvRequests /\ t.receipt = r /\ t.over = Receiving!Over(r)
      /\ t.received = recvOrders[Len(recvOrders)].received
  BY <1>1, <1>2, <1>3 DEF RecvRequests, RecvOrderRows
<1> HIDE DEF t
<1>5. recvTx'[s] = t
  BY <1>1 DEF RecvInv, RecvTypes
<1>6. Arriving(s)'
  BY <1>1, <1>4, <1>5 DEF Arriving, Receiving!Over
<1> QED
  BY <1>1, <1>4, <1>6, RecvTakes

LEMMA RecvAborts == ASSUME RecvInv, NEW s \in Clerks, Receiving!Abort(s) PROVE RecvInv'
<1>1. Receiving!Idle \in RecvRequests
  BY DEF Receiving!Idle, RecvRequests
<1> QED
  BY <1>1, RecvTakes DEF Receiving!Abort

LEMMA PostedRow ==
  ASSUME NEW q \in RecvRows, NEW over
  PROVE  [q EXCEPT !.state = "posted", !.reason = over]
           = [state |-> "posted", order |-> q.order, accepted |-> q.accepted, reason |-> over]
<1>1. PICK m : m = [state |-> "posted", order |-> q.order, accepted |-> q.accepted, reason |-> q.reason]
  OBVIOUS
<1>2. [q EXCEPT !.state = "posted"] = m
  BY <1>1 DEF RecvRows
<1>3. [m EXCEPT !.reason = over]
        = [state |-> "posted", order |-> q.order, accepted |-> q.accepted, reason |-> over]
  BY <1>1
<1>4. [q EXCEPT !.state = "posted", !.reason = over] = [[q EXCEPT !.state = "posted"] EXCEPT !.reason = over]
  OBVIOUS
<1> QED
  BY <1>2, <1>3, <1>4

(* What arrived before and what the receipt brings is what has arrived.        *)
LEMMA RecvCommits ==
  ASSUME RecvInv, OneClerk, NEW s \in Clerks, Receiving!Commit(s) PROVE RecvInv'
<1> DEFINE r == recvTx[s].receipt
           L == Len(recvOrders)
<1>1. /\ Arriving(s) /\ recvTx[s] # Receiving!Idle
      /\ recvTx' = [recvTx EXCEPT ![s] = Receiving!Idle]
      /\ recvMovements' = [recvMovements EXCEPT ![r] = @ + 1]
      /\ recvReceipts' = [recvReceipts EXCEPT ![r].state = "posted", ![r].reason = recvTx[s].over]
      /\ recvOrders' = [recvOrders EXCEPT ![recvReceipts[r].order].received =
                          recvTx[s].received + recvReceipts[r].accepted]
  BY DEF RecvInv, Receiving!Commit
<1>2. /\ r \in Receipts /\ recvReceipts[r].state = "draft" /\ recvReceipts[r].order = L
      /\ recvTx[s].received = recvOrders[L].received /\ recvTx[s].over = Receiving!Over(r)
      /\ recvTx[s].over \in BOOLEAN
  BY <1>1 DEF Arriving, RecvInv, RecvTypes, RecvRequests
<1>3. PICK n \in Receiving!Quantities : recvReceipts[r].accepted = n
  BY <1>2 DEF RecvInv, ReceiptFits
<1>4. PICK order \in RecvOrderRows : order = recvOrders[L] /\ L \in 1..MaxRevisions
  BY DEF RecvInv, RecvTypes
<1>5. PICK row \in RecvRows : row = recvReceipts[r]
  BY <1>2 DEF RecvInv, RecvTypes
<1>6. PICK over \in BOOLEAN : over = recvTx[s].over /\ over = (order.received + n > order.quantity)
  <2>1. Receiving!Over(r) = (order.received + n > order.quantity)
    <3>1. Receiving!Over(r) <=> order.received + n > order.quantity
      BY <1>2, <1>3, <1>4 DEF Receiving!Over
    <3>2. Receiving!Over(r) \in BOOLEAN
      BY DEF Receiving!Over
    <3> QED
      BY <3>1, <3>2
  <2> QED
    BY <1>2, <2>1
<1>7. n \in Nat /\ order.received \in Nat /\ order.quantity \in Nat /\ recvReceipts[r].accepted = n
  BY <1>3, RecvConstants DEF RecvOrderRows, Receiving!Quantities
<1>8. PICK done \in RecvOrderRows :
        /\ recvOrders' = [recvOrders EXCEPT ![L] = done]
        /\ done.received = order.received + n /\ done.quantity = order.quantity
        /\ done.status = order.status /\ done.short = order.short
  <2>1. PICK m \in Nat : m = order.received + n
    BY <1>7
  <2>2. recvOrders' = [recvOrders EXCEPT ![L] = [order EXCEPT !.received = m]]
    BY <1>1, <1>2, <1>4, <1>7, <2>1
  <2>3. /\ [order EXCEPT !.received = m] \in RecvOrderRows
        /\ [order EXCEPT !.received = m].received = m
        /\ [order EXCEPT !.received = m].quantity = order.quantity
        /\ [order EXCEPT !.received = m].status = order.status
        /\ [order EXCEPT !.received = m].short = order.short
    BY DEF RecvOrderRows
  <2> QED
    BY <2>1, <2>2, <2>3
<1>9. PICK post \in RecvRows :
        /\ recvReceipts' = [recvReceipts EXCEPT ![r] = post]
        /\ post.state = "posted" /\ post.order = L /\ post.accepted = n /\ post.reason = over
  <2>1. recvReceipts' = [recvReceipts EXCEPT ![r] = [row EXCEPT !.state = "posted", !.reason = over]]
    BY <1>1, <1>2, <1>5, <1>6 DEF RecvInv, RecvTypes
  <2>2. PICK post : post = [state |-> "posted", order |-> row.order, accepted |-> row.accepted,
                            reason |-> over]
    OBVIOUS
  <2>3. recvReceipts' = [recvReceipts EXCEPT ![r] = post]
    BY <2>1, <2>2, PostedRow
  <2>4. row.order = L /\ row.accepted = n /\ row.order \in 1..MaxRevisions
          /\ row.accepted \in Nat
    BY <1>2, <1>3, <1>5 DEF RecvRows
  <2>5. post \in RecvRows
    BY <2>2, <2>4 DEF RecvRows
  <2> QED
    BY <2>2, <2>3, <2>4, <2>5
<1>10. /\ recvOrders' \in Seq(RecvOrderRows) /\ Len(recvOrders') = L /\ recvOrders'[L] = done
       /\ \A p \in 1..L : p # L => recvOrders'[p] = recvOrders[p]
  BY <1>4, <1>8 DEF RecvInv, RecvTypes
<1>11. /\ recvReceipts' \in [Receipts -> RecvRows] /\ recvReceipts'[r] = post
       /\ \A p \in Receipts : p # r => recvReceipts'[p] = recvReceipts[p]
  BY <1>2, <1>9 DEF RecvInv, RecvTypes
<1>12. recvMovements[r] = 0 /\ r \notin Came(recvMovements)
  BY <1>2 DEF RecvInv, ReceiptFits, Came
<1>13. /\ recvMovements' = [recvMovements EXCEPT ![r] = 1]
       /\ recvMovements' \in [Receipts -> Nat] /\ recvMovements'[r] = 1
       /\ \A p \in Receipts : p # r => recvMovements'[p] = recvMovements[p]
  <2>1. recvMovements' = [recvMovements EXCEPT ![r] = 0 + 1]
    BY <1>1, <1>2, <1>12
  <2> QED
    BY <1>2, <2>1 DEF RecvInv, RecvTypes
<1>14. recvTx' \in [Clerks -> RecvRequests] /\ \A c \in Clerks : recvTx'[c] = Receiving!Idle
  <2>1. Receiving!Idle \in RecvRequests
    BY DEF Receiving!Idle, RecvRequests
  <2> QED
    BY <1>1, <2>1 DEF RecvInv, RecvTypes, OneClerk
<1>15. RecvTypes'
  BY <1>4, <1>10, <1>11, <1>13, <1>14 DEF RecvTypes
<1>16. Came(recvMovements') = Came(recvMovements) \cup {r}
  BY <1>2, <1>13 DEF Came, RecvInv, RecvTypes
<1>17. IsFiniteSet(Came(recvMovements'))
  BY <1>16, FS_AddElement DEF RecvInv
<1>18. \A p \in Receipts : ReceiptFits(p)'
  BY <1>4, <1>9, <1>10, <1>11, <1>13 DEF RecvInv, ReceiptFits
<1>19. SumOver(Brought(recvMovements', recvReceipts'), Came(recvMovements')) = order.received + n
  <2> DEFINE f == Brought(recvMovements, recvReceipts)
             g == Brought(recvMovements', recvReceipts')
             S == Came(recvMovements)
  <2>1. \A p \in S : f[p] = g[p] /\ f[p] \in Int
    <3> SUFFICES ASSUME NEW p \in S PROVE f[p] = g[p] /\ f[p] \in Int
      OBVIOUS
    <3>1. p \in Receipts /\ p # r /\ recvMovements[p] \in Nat
      BY <1>12 DEF Came, RecvInv, RecvTypes
    <3>2. recvReceipts[p].state = "posted"
      BY <3>1 DEF Came, RecvInv, ReceiptFits
    <3>3. PICK q \in Receiving!Quantities : recvReceipts[p].accepted = q
      BY <3>1, <3>2 DEF RecvInv, ReceiptFits
    <3>4. recvReceipts[p].accepted \in Int
      BY <3>3, RecvConstants DEF Receiving!Quantities
    <3> QED
      BY <1>11, <1>13, <3>1, <3>4 DEF Brought
  <2>2. g[r] = n
    <3>1. post.accepted = n
      BY <1>3, <1>7, <1>9
    <3>2. g[r] = 1 * post.accepted
      BY <1>2, <1>11, <1>13 DEF Brought
    <3> QED
      BY <1>7, <3>1, <3>2
  <2>3. IsFiniteSet(S) /\ SumOver(f, S) = order.received
    BY <1>4 DEF RecvInv
  <2>4. r \notin S /\ n \in Int
    BY <1>7, <1>12
  <2> HIDE DEF f, g, S
  <2>5. SumOver(g, S) = SumOver(f, S)
    BY <2>1, <2>3, SumOfSame
  <2>6. SumOver(g, S \cup {r}) = SumOver(g, S) + g[r]
    BY <2>1, <2>2, <2>3, <2>4, SumOfOneMore
  <2> QED
    BY <1>16, <2>2, <2>3, <2>5, <2>6 DEF g, S
<1>20. done.received > done.quantity => \E p \in Came(recvMovements') : recvReceipts'[p].reason
  BY <1>6, <1>8, <1>9, <1>11, <1>16
<1>21. Receiving!ClosedIsComplete'
  <2>1. order.status = "closed" /\ ~order.short => order.received >= order.quantity
    BY <1>4 DEF RecvInv, Receiving!ClosedIsComplete, Receiving!Latest
  <2>2. done.status = "closed" /\ ~done.short => done.received >= done.quantity
    BY <1>7, <1>8, <2>1
  <2> QED
    BY <1>10, <2>2 DEF RecvInv, Receiving!ClosedIsComplete, Receiving!Latest
<1> QED
  BY <1>8, <1>10, <1>14, <1>15, <1>17, <1>18, <1>19, <1>20, <1>21 DEF RecvInv

LEMMA RecvStep == OneClerk /\ RecvInv /\ [Receiving!Next]_(Receiving!vars) => RecvInv'
<1> SUFFICES ASSUME OneClerk, RecvInv, [Receiving!Next]_(Receiving!vars) PROVE RecvInv'
  OBVIOUS
<1>1. CASE UNCHANGED Receiving!vars
  <2>1. /\ recvOrders' = recvOrders /\ recvReceipts' = recvReceipts
        /\ recvMovements' = recvMovements /\ recvTx' = recvTx
    BY <1>1 DEF Receiving!vars
  <2> QED
    BY <2>1 DEF RecvInv, RecvTypes, ReceiptFits, Arriving, Receiving!Over,
                Receiving!ClosedIsComplete, Receiving!Latest
<1>2. ASSUME NEW o \in 1..Len(recvOrders),
             \/ \E routed \in BOOLEAN : Receiving!Submit(o, routed)
             \/ \E outcome \in {"approved", "returned", "rejected"} : Receiving!Decide(o, outcome)
             \/ Receiving!Acknowledge(o)
      PROVE  RecvInv'
  <2>1. PICK status \in Receiving!Statuses \ {"closed"} :
          /\ Receiving!SetStatus(o, status)
          /\ recvReceipts' = recvReceipts /\ recvMovements' = recvMovements /\ recvTx' = recvTx
    BY <1>2 DEF Receiving!Submit, Receiving!Decide, Receiving!Acknowledge, Receiving!Statuses
  <2> QED
    BY <2>1, RecvSetsStatus
<1>3. ASSUME NEW o \in 1..Len(recvOrders),
             \/ \E q \in Receiving!Quantities : Receiving!Amend(o, q)
             \/ \E short \in BOOLEAN : Receiving!Close(o, short)
             \/ \E r \in Receipts, q \in Receiving!Quantities : Receiving!Draft(r, o, q)
      PROVE  RecvInv'
  BY <1>3, RecvAmends, RecvCloses, RecvDrafts
<1>4. ASSUME NEW s \in Clerks,
             \/ \E r \in Receipts, reason \in BOOLEAN : Receiving!Begin(s, r, reason)
             \/ Receiving!Commit(s) \/ Receiving!Abort(s)
      PROVE  RecvInv'
  BY <1>4, RecvBegins, RecvCommits, RecvAborts
<1> QED
  BY <1>1, <1>2, <1>3, <1>4 DEF Receiving!Next, Receiving!Latest

(* ------------------------- the rows of the receipts ------------------------- *)

(* What is typed is typed however many post at once: a receipt that was drafted *)
(* names a revision there is, and an open posting such a receipt.               *)
Drafted(r) ==
  /\ recvReceipts[r].order \in 1..Len(recvOrders)
  /\ \E q \in Receiving!Quantities : recvReceipts[r].accepted = q
RecvRowsInv ==
  /\ RecvTypes
  /\ \A r \in Receipts : recvReceipts[r].state # "absent" => Drafted(r)
  /\ \A s \in Clerks : recvTx[s] # Receiving!Idle =>
       recvTx[s].receipt \in Receipts /\ Drafted(recvTx[s].receipt)

LEMMA RecvRowsStart == Receiving!Init => RecvRowsInv
<1> SUFFICES ASSUME Receiving!Init PROVE RecvRowsInv
  OBVIOUS
<1>1. RecvTypes
  BY RecvStart DEF RecvInv
<1>2. /\ \A r \in Receipts : recvReceipts[r].state = "absent"
      /\ \A s \in Clerks : recvTx[s] = Receiving!Idle
  BY DEF Receiving!Init
<1> QED
  BY <1>1, <1>2 DEF RecvRowsInv

LEMMA RecvOrdersRow ==
  ASSUME RecvRowsInv, NEW o \in 1..Len(recvOrders), NEW row \in RecvOrderRows,
         recvOrders' = [recvOrders EXCEPT ![o] = row],
         recvReceipts' = recvReceipts, recvMovements' = recvMovements, recvTx' = recvTx
  PROVE  RecvRowsInv'
<1>1. recvOrders' \in Seq(RecvOrderRows) /\ Len(recvOrders') = Len(recvOrders)
  BY DEF RecvRowsInv, RecvTypes
<1> QED
  BY <1>1 DEF RecvRowsInv, RecvTypes, Drafted

LEMMA RecvOrdersRows ==
  ASSUME RecvRowsInv, NEW o \in 1..Len(recvOrders)
  PROVE  /\ \A status \in Receiving!Statuses :
              /\ Receiving!SetStatus(o, status)
              /\ UNCHANGED <<recvReceipts, recvMovements, recvTx>>
              => RecvRowsInv'
         /\ \A short \in BOOLEAN : Receiving!Close(o, short) => RecvRowsInv'
         /\ \A q \in Receiving!Quantities : Receiving!Amend(o, q) => RecvRowsInv'
<1>1. PICK q \in RecvOrderRows : q = recvOrders[o]
  BY DEF RecvRowsInv, RecvTypes
<1>2. ASSUME NEW status \in Receiving!Statuses, Receiving!SetStatus(o, status),
             UNCHANGED <<recvReceipts, recvMovements, recvTx>>
      PROVE  RecvRowsInv'
  <2>1. [q EXCEPT !.status = status] \in RecvOrderRows
    BY DEF RecvOrderRows
  <2>2. recvOrders' = [recvOrders EXCEPT ![o] = [q EXCEPT !.status = status]]
    BY <1>1, <1>2 DEF Receiving!SetStatus
  <2> QED
    BY <1>2, <2>1, <2>2, RecvOrdersRow
<1>3. ASSUME NEW short \in BOOLEAN, Receiving!Close(o, short) PROVE RecvRowsInv'
  <2>1. recvOrders' = [recvOrders EXCEPT ![o] = [q EXCEPT !.status = "closed", !.short = short]]
    BY <1>1, <1>3 DEF Receiving!Close, RecvRowsInv, RecvTypes
  <2>2. [q EXCEPT !.status = "closed", !.short = short] \in RecvOrderRows
    <3>1. PICK m \in RecvOrderRows : m = [q EXCEPT !.status = "closed"]
      BY DEF RecvOrderRows, Receiving!Statuses
    <3>2. [m EXCEPT !.short = short] \in RecvOrderRows
      BY DEF RecvOrderRows
    <3>3. [q EXCEPT !.status = "closed", !.short = short]
            = [[q EXCEPT !.status = "closed"] EXCEPT !.short = short]
      OBVIOUS
    <3> QED
      BY <3>1, <3>2, <3>3
  <2> QED
    BY <1>3, <2>1, <2>2, RecvOrdersRow DEF Receiving!Close
<1>4. ASSUME NEW n \in Receiving!Quantities, Receiving!Amend(o, n) PROVE RecvRowsInv'
  <2>1. PICK row : row = [status |-> "draft", quantity |-> n, received |-> q.received,
                          short |-> FALSE]
    OBVIOUS
  <2>2. row \in RecvOrderRows
    BY <2>1 DEF RecvOrderRows, Receiving!Statuses
  <2>3. /\ recvOrders' = Append(recvOrders, row) /\ Len(recvOrders) < MaxRevisions
        /\ recvReceipts' = recvReceipts /\ recvMovements' = recvMovements /\ recvTx' = recvTx
    BY <1>1, <1>4, <2>1 DEF Receiving!Amend, Receiving!Latest
  <2>4. /\ recvOrders' \in Seq(RecvOrderRows) /\ Len(recvOrders') = Len(recvOrders) + 1
        /\ Len(recvOrders) \in 1..MaxRevisions
    BY <2>2, <2>3 DEF RecvRowsInv, RecvTypes
  <2>5. Len(recvOrders') \in 1..MaxRevisions /\ 1..Len(recvOrders) \subseteq 1..Len(recvOrders')
    BY <2>3, <2>4, RecvConstants
  <2> QED
    BY <2>3, <2>4, <2>5 DEF RecvRowsInv, RecvTypes, Drafted
<1> QED
  BY <1>2, <1>3, <1>4

LEMMA RecvDraftsRow ==
  ASSUME RecvRowsInv, NEW o \in 1..Len(recvOrders), NEW r \in Receipts,
         NEW q \in Receiving!Quantities, Receiving!Draft(r, o, q)
  PROVE  RecvRowsInv'
<1>1. q \in Nat
  BY RecvConstants DEF Receiving!Quantities
<1>2. PICK row : row = [state |-> "draft", order |-> o, accepted |-> q, reason |-> FALSE]
  OBVIOUS
<1>3. /\ recvReceipts' = [recvReceipts EXCEPT ![r] = row]
      /\ recvOrders' = recvOrders /\ recvMovements' = recvMovements /\ recvTx' = recvTx
  BY <1>2 DEF Receiving!Draft
<1>4. row \in RecvRows /\ row.order = o /\ row.accepted = q
  BY <1>1, <1>2, RecvConstants DEF RecvRowsInv, RecvTypes, RecvRows
<1>5. /\ recvReceipts' \in [Receipts -> RecvRows] /\ recvReceipts'[r] = row
      /\ \A p \in Receipts : p # r => recvReceipts'[p] = recvReceipts[p]
  BY <1>3, <1>4 DEF RecvRowsInv, RecvTypes
<1>6. Drafted(r)'
  BY <1>3, <1>4, <1>5 DEF Drafted
<1>7. \A p \in Receipts : Drafted(p) => Drafted(p)'
  BY <1>3, <1>5, <1>6 DEF Drafted
<1>8. \A p \in Receipts : recvReceipts'[p].state # "absent" => Drafted(p)'
  BY <1>5, <1>6, <1>7 DEF RecvRowsInv
<1>9. \A s \in Clerks : recvTx'[s] # Receiving!Idle =>
        recvTx'[s].receipt \in Receipts /\ Drafted(recvTx[s].receipt)'
  <2> SUFFICES ASSUME NEW s \in Clerks, recvTx'[s] # Receiving!Idle
               PROVE  recvTx'[s].receipt \in Receipts /\ Drafted(recvTx[s].receipt)'
    OBVIOUS
  <2>1. PICK p \in Receipts : p = recvTx[s].receipt /\ Drafted(p)
    BY <1>3 DEF RecvRowsInv
  <2>2. Drafted(p)'
    BY <1>7, <2>1
  <2> QED
    BY <1>3, <2>1, <2>2 DEF Drafted
<1>10. RecvTypes'
  BY <1>3, <1>5 DEF RecvRowsInv, RecvTypes
<1> QED
  BY <1>8, <1>9, <1>10 DEF RecvRowsInv

LEMMA RecvPostsRow ==
  ASSUME RecvRowsInv, NEW s \in Clerks
  PROVE  /\ \A r \in Receipts : \A reason \in BOOLEAN : Receiving!Begin(s, r, reason) => RecvRowsInv'
         /\ Receiving!Abort(s) => RecvRowsInv'
<1>1. Receiving!Idle \in RecvRequests
  BY DEF Receiving!Idle, RecvRequests
<1>2. ASSUME NEW t \in RecvRequests, recvTx' = [recvTx EXCEPT ![s] = t],
             UNCHANGED <<recvOrders, recvReceipts, recvMovements>>,
             t # Receiving!Idle => t.receipt \in Receipts /\ Drafted(t.receipt)
      PROVE  RecvRowsInv'
  <2>1. /\ recvTx' \in [Clerks -> RecvRequests]
        /\ \A c \in Clerks : recvTx'[c] = IF c = s THEN t ELSE recvTx[c]
    BY <1>2 DEF RecvRowsInv, RecvTypes
  <2>2. \A c \in Clerks : recvTx'[c] # Receiving!Idle =>
          recvTx'[c].receipt \in Receipts /\ Drafted(recvTx[c].receipt)'
    BY <1>2, <2>1 DEF RecvRowsInv, Drafted
  <2> QED
    BY <1>2, <2>1, <2>2 DEF RecvRowsInv, RecvTypes, Drafted
<1>3. ASSUME NEW r \in Receipts, NEW reason \in BOOLEAN, Receiving!Begin(s, r, reason)
      PROVE  RecvRowsInv'
  <2>1. PICK t : t = [receipt |-> r, received |-> recvOrders[recvReceipts[r].order].received,
                      over |-> Receiving!Over(r)]
    OBVIOUS
  <2>2. /\ recvReceipts[r].state = "draft" /\ recvTx' = [recvTx EXCEPT ![s] = t]
        /\ UNCHANGED <<recvOrders, recvReceipts, recvMovements>>
    BY <1>3, <2>1 DEF Receiving!Begin, Receiving!Postable, Receiving!Takes
  <2>3. Drafted(r)
    BY <2>2 DEF RecvRowsInv
  <2>4. recvOrders[recvReceipts[r].order] \in RecvOrderRows
    BY <2>3 DEF RecvRowsInv, RecvTypes, Drafted
  <2>5. recvOrders[recvReceipts[r].order].received \in Nat /\ Receiving!Over(r) \in BOOLEAN
    BY <2>4 DEF RecvOrderRows, Receiving!Over
  <2>6. t \in RecvRequests /\ t.receipt = r
    BY <2>1, <2>5 DEF RecvRequests
  <2> QED
    BY <1>2, <2>2, <2>3, <2>6
<1>4. ASSUME Receiving!Abort(s) PROVE RecvRowsInv'
  BY <1>1, <1>2, <1>4 DEF Receiving!Abort
<1> QED
  BY <1>3, <1>4

LEMMA RecvCommitsRow ==
  ASSUME RecvRowsInv, NEW s \in Clerks, Receiving!Commit(s) PROVE RecvRowsInv'
<1>1. PICK r \in Receipts : r = recvTx[s].receipt /\ Drafted(r)
  BY DEF RecvRowsInv, Receiving!Commit
<1>2. /\ recvTx' = [recvTx EXCEPT ![s] = Receiving!Idle]
      /\ recvMovements' = [recvMovements EXCEPT ![r] = @ + 1]
      /\ recvReceipts' = [recvReceipts EXCEPT ![r].state = "posted", ![r].reason = recvTx[s].over]
      /\ recvOrders' = [recvOrders EXCEPT ![recvReceipts[r].order].received =
                          recvTx[s].received + recvReceipts[r].accepted]
  BY <1>1 DEF Receiving!Commit
<1>3. PICK n \in Receiving!Quantities : recvReceipts[r].accepted = n
  BY <1>1 DEF Drafted
<1>4. PICK o \in 1..Len(recvOrders) : o = recvReceipts[r].order
  BY <1>1 DEF Drafted
<1>5. PICK order \in RecvOrderRows : order = recvOrders[o]
  BY DEF RecvRowsInv, RecvTypes
<1>6. PICK row \in RecvRows : row = recvReceipts[r]
  BY DEF RecvRowsInv, RecvTypes
<1>7. PICK m \in Nat : m = recvTx[s].received + recvReceipts[r].accepted
  <2>1. recvTx[s].received \in Nat
    BY DEF RecvRowsInv, RecvTypes, RecvRequests
  <2>2. n \in Nat
    BY RecvConstants DEF Receiving!Quantities
  <2> QED
    BY <1>3, <2>1, <2>2
<1>8. PICK over \in BOOLEAN : over = recvTx[s].over
  BY DEF RecvRowsInv, RecvTypes, RecvRequests
<1>9. /\ recvOrders' \in Seq(RecvOrderRows) /\ Len(recvOrders') = Len(recvOrders)
  <2>1. [order EXCEPT !.received = m] \in RecvOrderRows
    BY DEF RecvOrderRows
  <2>2. recvOrders' = [recvOrders EXCEPT ![o] = [order EXCEPT !.received = m]]
    BY <1>5, <1>2, <1>4, <1>7
  <2>3. recvOrders \in Seq(RecvOrderRows)
    BY DEF RecvRowsInv, RecvTypes
  <2> QED
    BY <2>1, <2>2, <2>3
<1>10. PICK post \in RecvRows : /\ recvReceipts' = [recvReceipts EXCEPT ![r] = post]
                               /\ post.order = row.order /\ post.accepted = row.accepted
  <2>1. recvReceipts' = [recvReceipts EXCEPT ![r] = [row EXCEPT !.state = "posted", !.reason = over]]
    BY <1>2, <1>6, <1>8 DEF RecvRowsInv, RecvTypes
  <2>2. PICK post : post = [state |-> "posted", order |-> row.order, accepted |-> row.accepted,
                            reason |-> over]
    OBVIOUS
  <2>3. recvReceipts' = [recvReceipts EXCEPT ![r] = post]
    BY <2>1, <2>2, PostedRow
  <2>4. post \in RecvRows
    BY <2>2 DEF RecvRows
  <2> QED
    BY <2>2, <2>3, <2>4
<1>11. /\ recvReceipts' \in [Receipts -> RecvRows] /\ recvReceipts'[r] = post
       /\ \A p \in Receipts : p # r => recvReceipts'[p] = recvReceipts[p]
  BY <1>10 DEF RecvRowsInv, RecvTypes
<1>12. recvMovements' \in [Receipts -> Nat]
  <2>1. PICK k \in Nat : k = recvMovements[r]
    BY DEF RecvRowsInv, RecvTypes
  <2>2. recvMovements' = [recvMovements EXCEPT ![r] = k + 1]
    BY <1>2, <2>1
  <2> QED
    BY <2>2 DEF RecvRowsInv, RecvTypes
<1>13. /\ recvTx' \in [Clerks -> RecvRequests]
       /\ \A c \in Clerks : recvTx'[c] = IF c = s THEN Receiving!Idle ELSE recvTx[c]
  <2>1. Receiving!Idle \in RecvRequests
    BY DEF Receiving!Idle, RecvRequests
  <2> QED
    BY <1>2, <2>1 DEF RecvRowsInv, RecvTypes
<1>14. RecvTypes'
  BY <1>9, <1>11, <1>12, <1>13 DEF RecvRowsInv, RecvTypes
<1>15. Drafted(r)'
  BY <1>1, <1>6, <1>9, <1>10, <1>11 DEF Drafted
<1>16. \A p \in Receipts : Drafted(p) => Drafted(p)'
  BY <1>9, <1>11, <1>15 DEF Drafted
<1>17. \A p \in Receipts : recvReceipts'[p].state # "absent" => Drafted(p)'
  BY <1>11, <1>15, <1>16 DEF RecvRowsInv
<1>18. \A c \in Clerks : recvTx'[c] # Receiving!Idle =>
         recvTx'[c].receipt \in Receipts /\ Drafted(recvTx[c].receipt)'
  <2> SUFFICES ASSUME NEW c \in Clerks, recvTx'[c] # Receiving!Idle
               PROVE  recvTx'[c].receipt \in Receipts /\ Drafted(recvTx[c].receipt)'
    OBVIOUS
  <2>1. recvTx'[c] = recvTx[c] /\ recvTx[c] # Receiving!Idle
    BY <1>13
  <2>2. PICK p \in Receipts : p = recvTx[c].receipt /\ Drafted(p)
    BY <2>1 DEF RecvRowsInv
  <2>3. Drafted(p)'
    BY <1>16, <2>2
  <2> QED
    BY <2>1, <2>2, <2>3 DEF Drafted
<1> QED
  BY <1>14, <1>17, <1>18 DEF RecvRowsInv

LEMMA RecvRowsStep == RecvRowsInv /\ [Receiving!Next]_(Receiving!vars) => RecvRowsInv'
<1> SUFFICES ASSUME RecvRowsInv, [Receiving!Next]_(Receiving!vars) PROVE RecvRowsInv'
  OBVIOUS
<1>1. CASE UNCHANGED Receiving!vars
  BY <1>1 DEF Receiving!vars, RecvRowsInv, RecvTypes, Drafted
<1>2. ASSUME NEW o \in 1..Len(recvOrders),
             \/ \E routed \in BOOLEAN : Receiving!Submit(o, routed)
             \/ \E outcome \in {"approved", "returned", "rejected"} : Receiving!Decide(o, outcome)
             \/ Receiving!Acknowledge(o)
      PROVE  RecvRowsInv'
  <2>1. PICK status \in Receiving!Statuses :
          Receiving!SetStatus(o, status) /\ UNCHANGED <<recvReceipts, recvMovements, recvTx>>
    BY <1>2 DEF Receiving!Submit, Receiving!Decide, Receiving!Acknowledge, Receiving!Statuses
  <2> QED
    BY <2>1, RecvOrdersRows
<1>3. ASSUME NEW o \in 1..Len(recvOrders),
             \/ \E q \in Receiving!Quantities : Receiving!Amend(o, q)
             \/ \E short \in BOOLEAN : Receiving!Close(o, short)
             \/ \E r \in Receipts, q \in Receiving!Quantities : Receiving!Draft(r, o, q)
      PROVE  RecvRowsInv'
  BY <1>3, RecvOrdersRows, RecvDraftsRow
<1>4. ASSUME NEW s \in Clerks,
             \/ \E r \in Receipts, reason \in BOOLEAN : Receiving!Begin(s, r, reason)
             \/ Receiving!Commit(s) \/ Receiving!Abort(s)
      PROVE  RecvRowsInv'
  BY <1>4, RecvPostsRow, RecvCommitsRow
<1> QED
  BY <1>1, <1>2, <1>3, <1>4 DEF Receiving!Next, Receiving!Latest

LEMMA RecvRowsSuffice == RecvRowsInv => Receiving!TypeOK
BY DEF RecvRowsInv, RecvTypes, RecvOrderRows, RecvRows, RecvRequests, Receiving!TypeOK

(* --------------------------------- sourcing ------------------------------- *)

(* The orders that are awards and no revisions, and what they award.           *)
Amounts(orders) == [o \in Purchases |-> orders[o].quantity]
Firsts(orders, n) == {o \in Purchases : orders[o].rfq = n /\ orders[o].revises = Buying!None}
Awarded(orders, n) == SumOver(Amounts(orders), Firsts(orders, n))
Filed(orders) == {o \in Purchases : orders[o].status # Buying!Free}

(* A requisition is asked about once, and no longer changes.                   *)
AskedOnce ==
  /\ \A n \in Rfqs : buyRfqs[n].of = Buying!None => buyRfqs[n].invited = {}
  /\ \A n \in Rfqs : buyRfqs[n].of # Buying!None =>
       buyRequisitions[buyRfqs[n].of].status # Buying!Free
  /\ \A m \in Rfqs : \A n \in Rfqs :
       buyRfqs[m].of = buyRfqs[n].of /\ buyRfqs[n].of # Buying!None => m = n

(* Who answers, or is about to, was asked.                                     *)
AnswersFit ==
  \A n \in Rfqs : \A p \in Vendors :
    /\ buyResponses[n][p] <= 1
    /\ (buyResponses[n][p] > 0 => p \in buyRfqs[n].invited)
    /\ \A by \in {"buyer", "portal"} : <<n, p, by>> \in buyAnswering => p \in buyRfqs[n].invited

(* The one award under way is to somebody asked, and within what is left, if   *)
(* it does not say why not.  Revisions made meanwhile are not counted.         *)
AwardsFit ==
  /\ \A a \in buyAwarding : \A b \in buyAwarding : a = b
  /\ \A a \in buyAwarding :
       /\ buyRfqs[a.rfq].of # Buying!None /\ a.supplier \in buyRfqs[a.rfq].invited
       /\ a.override \/ Awarded(buyOrders, a.rfq) + a.quantity <= Buying!Asked(a.rfq)

OrdersFit ==
  /\ IsFiniteSet(Filed(buyOrders))
  /\ \A o \in Purchases : buyOrders[o].status = Buying!Free => buyOrders[o] = Buying!NoOrder
  /\ \A o \in Purchases : buyOrders[o].rfq # Buying!None =>
       buyRfqs[buyOrders[o].rfq].of # Buying!None
  /\ \A n \in Rfqs : buyRfqs[n].of # Buying!None =>
       \/ Awarded(buyOrders, n) <= Buying!Asked(n)
       \/ \E o \in Firsts(buyOrders, n) : buyOrders[o].override

BuyInv ==
  /\ Buying!TypeOK
  /\ AskedOnce
  /\ AnswersFit
  /\ AwardsFit
  /\ OrdersFit
  /\ Buying!NamedSuppliersStand

LEMMA BuyConstants ==
  /\ Requisitions \subseteq Nat \ {0} /\ Rfqs \subseteq Nat \ {0} /\ Purchases \subseteq Nat \ {0}
  /\ Buying!None = 0 /\ MaxAsked \in Nat
<1>1. IsFiniteSet(Requisitions) /\ Requisitions = 1..Cardinality(Requisitions)
  BY Parameters DEF Buying!RowAssumption, Buying!IsFiniteSet, IsFiniteSet, Buying!Cardinality,
     Cardinality
<1>2. Cardinality(Requisitions) \in Nat
  BY <1>1, FS_CardinalityType
<1>3. \A r \in Requisitions : r \in Nat \ {0}
  <2> DEFINE c == Cardinality(Requisitions)
  <2>1. \A r \in 1..c : r \in Nat \ {0}
    BY <1>2
  <2> QED
    BY <1>1, <2>1
<1> QED
  BY <1>3, Parameters DEF Buying!RowAssumption, Buying!None

LEMMA TotalIsSum ==
  ASSUME NEW orders, NEW S \in SUBSET Purchases
  PROVE  Buying!Total(S, LAMBDA o : orders[o].quantity) = SumOver(Amounts(orders), S)
<1> DEFINE f == Amounts(orders)
           Plus(it, s) == IF s = {} THEN 0 ELSE orders[First(s)].quantity + it[s \ {First(s)}]
<1>1. ASSUME NEW it, NEW s \in SUBSET S PROVE Plus(it, s) = Added(f, it, s)
  BY DEF Added, First, Amounts
<1>2. ASSUME NEW it PROVE [s \in SUBSET S |-> Plus(it, s)] = [s \in SUBSET S |-> Added(f, it, s)]
  BY <1>1
<1>3. (CHOOSE it : it = [s \in SUBSET S |-> Plus(it, s)]) = CHOOSE it : Adds(f, SUBSET S, it)
  BY <1>2 DEF Adds
<1>4. SumOver(f, S) = (CHOOSE it : Adds(f, SUBSET S, it))[S]
  BY SumIsChosen
<1>5. Buying!Total(S, LAMBDA o : orders[o].quantity)
        = (CHOOSE it : it = [s \in SUBSET S |-> Plus(it, s)])[S]
  BY DEF Buying!Total, Buying!MapThenSumSet, Buying!MapThenFoldSet, First
<1> QED
  BY <1>3, <1>4, <1>5

LEMMA AwardedIsSum ==
  ASSUME NEW n
  PROVE  Buying!AwardedQuantity(n)
           = SumOver(Amounts(buyOrders), {o \in Purchases : buyOrders[o].rfq = n})
<1>1. PICK orders : orders = buyOrders
  OBVIOUS
<1>2. {o \in Purchases : orders[o].rfq = n} \in SUBSET Purchases
  OBVIOUS
<1>3. Buying!Total({o \in Purchases : orders[o].rfq = n}, LAMBDA o : orders[o].quantity)
        = SumOver(Amounts(orders), {o \in Purchases : orders[o].rfq = n})
  BY <1>2, TotalIsSum
<1> QED
  BY <1>1, <1>3 DEF Buying!AwardedQuantity

(* What the orders of an rfq come to is a number.                              *)
LEMMA OrdersAdd ==
  ASSUME BuyInv, NEW n \in Rfqs
  PROVE  /\ IsFiniteSet({o \in Purchases : buyOrders[o].rfq = n})
         /\ IsFiniteSet(Firsts(buyOrders, n))
         /\ \A o \in Purchases : Amounts(buyOrders)[o] \in Nat
         /\ Awarded(buyOrders, n) \in Nat
         /\ Awarded(buyOrders, n) <= Buying!AwardedQuantity(n)
         /\ Buying!AwardedQuantity(n) \in Nat
<1> DEFINE S == {o \in Purchases : buyOrders[o].rfq = n}
<1>1. S \subseteq Filed(buyOrders)
  <2> SUFFICES ASSUME NEW o \in S PROVE buyOrders[o].status # Buying!Free
    BY DEF Filed
  <2>1. Buying!NoOrder.rfq = 0 /\ n # 0
    BY BuyConstants DEF Buying!NoOrder
  <2>2. buyOrders[o] # Buying!NoOrder
    BY <2>1
  <2> QED
    BY <2>2 DEF BuyInv, OrdersFit
<1>2. Firsts(buyOrders, n) \in SUBSET S
  BY DEF Firsts
<1>3. IsFiniteSet(S) /\ IsFiniteSet(Firsts(buyOrders, n))
  BY <1>1, <1>2, FS_Subset DEF BuyInv, OrdersFit
<1>4. \A o \in Purchases : Amounts(buyOrders)[o] \in Nat
  <2>1. \A o \in Purchases : buyOrders[o].quantity \in 0..MaxAsked
    BY DEF BuyInv, Buying!TypeOK, Buying!OrderRows
  <2> QED
    BY <2>1 DEF Amounts
<1> HIDE DEF S
<1>5. /\ SumOver(Amounts(buyOrders), Firsts(buyOrders, n)) \in Nat
      /\ SumOver(Amounts(buyOrders), S) \in Nat
      /\ SumOver(Amounts(buyOrders), Firsts(buyOrders, n)) <= SumOver(Amounts(buyOrders), S)
  <2>1. S \subseteq Purchases /\ Firsts(buyOrders, n) \subseteq Purchases
    BY DEF S, Firsts
  <2> QED
    BY <1>2, <1>3, <1>4, <2>1, SumOfNats, SumOfSubset
<1> QED
  BY <1>3, <1>4, <1>5, AwardedIsSum DEF S, Awarded

LEMMA CeilingIsKept == BuyInv => Buying!CeilingHolds
<1> DEFINE AwardedOf(r) == {o \in Purchases : /\ buyOrders[o].rfq # Buying!None
                                              /\ buyOrders[o].revises = Buying!None
                                              /\ buyRfqs[buyOrders[o].rfq].of = r}
<1> SUFFICES ASSUME BuyInv, NEW r \in Requisitions,
                    Buying!Total(AwardedOf(r), LAMBDA o : buyOrders[o].quantity)
                      > buyRequisitions[r].quantity
             PROVE  \E o \in AwardedOf(r) : buyOrders[o].override
  BY DEF Buying!CeilingHolds
<1> DEFINE awarded == AwardedOf(r)
<1>1. Buying!Total(awarded, LAMBDA o : buyOrders[o].quantity) = SumOver(Amounts(buyOrders), awarded)
  <2>1. PICK orders : orders = buyOrders
    OBVIOUS
  <2>2. PICK S \in SUBSET Purchases : S = awarded
    OBVIOUS
  <2>3. Buying!Total(S, LAMBDA o : orders[o].quantity) = SumOver(Amounts(orders), S)
    BY TotalIsSum
  <2> QED
    BY <2>1, <2>2, <2>3
<1>2. SumOver(Amounts(buyOrders), awarded) > buyRequisitions[r].quantity
  BY ONLY <1>1, Buying!Total(AwardedOf(r), LAMBDA o : buyOrders[o].quantity)
                  > buyRequisitions[r].quantity
<1>3. \A o \in Purchases : buyOrders[o].rfq \in Rfqs \cup {Buying!None}
  BY DEF BuyInv, Buying!TypeOK, Buying!OrderRows
<1>4. r # Buying!None /\ buyRequisitions[r].quantity \in Nat
  <2>1. buyRequisitions[r].quantity \in 0..MaxAsked
    BY DEF BuyInv, Buying!TypeOK, Buying!RequisitionRows
  <2> QED
    BY <2>1, BuyConstants
<1>5. CASE \E n \in Rfqs : buyRfqs[n].of = r
  <2>1. PICK n \in Rfqs : buyRfqs[n].of = r
    BY <1>5
  <2>2. awarded = Firsts(buyOrders, n)
    <3>1. \A m \in Rfqs : buyRfqs[m].of = r => m = n
      BY <1>4, <2>1 DEF BuyInv, AskedOnce
    <3>2. n # Buying!None
      BY BuyConstants
    <3> QED
      BY <1>3, <2>1, <3>1, <3>2 DEF Firsts
  <2>3. \/ Awarded(buyOrders, n) <= buyRequisitions[r].quantity
        \/ \E o \in Firsts(buyOrders, n) : buyOrders[o].override
    BY <1>4, <2>1 DEF BuyInv, OrdersFit, Buying!Asked
  <2>4. Awarded(buyOrders, n) \in Nat
    BY OrdersAdd
  <2>5. Awarded(buyOrders, n) > buyRequisitions[r].quantity
    BY <1>2, <2>2 DEF Awarded
  <2>6. \E o \in Firsts(buyOrders, n) : buyOrders[o].override
    BY <1>4, <2>3, <2>4, <2>5
  <2> QED
    BY <2>2, <2>6
<1>6. CASE \A n \in Rfqs : buyRfqs[n].of # r
  <2>1. awarded = {}
    BY <1>3, <1>6
  <2>2. SumOver(Amounts(buyOrders), awarded) = 0
    BY <2>1, SumOfNone
  <2> QED
    BY <1>4, <1>2, <2>2
<1> QED
  BY <1>5, <1>6

LEMMA BuyInvSuffices ==
  BuyInv => Buying!OneAnswer /\ Buying!CeilingHolds /\ Buying!NamedSuppliersStand
BY CeilingIsKept DEF BuyInv, AnswersFit, Buying!OneAnswer

LEMMA BuyStart == Buying!Init => BuyInv
<1> SUFFICES ASSUME Buying!Init PROVE BuyInv
  OBVIOUS
<1>1. /\ buyRequisitions = [n \in Requisitions |-> [status |-> Buying!Free, quantity |-> 0]]
      /\ buyRfqs = [n \in Rfqs |-> [of |-> Buying!None, invited |-> {}, open |-> FALSE]]
      /\ buyResponses = [n \in Rfqs |-> [p \in Vendors |-> 0]]
      /\ buyOrders = [n \in Purchases |-> Buying!NoOrder]
      /\ buySuppliers = [p \in Vendors |-> [live |-> TRUE, primary |-> {}]]
      /\ buyAwarding = {} /\ buyAnswering = {}
  BY DEF Buying!Init
<1>2. 0 \in 0..MaxAsked
  BY BuyConstants
<1>3. /\ \A n \in Requisitions : buyRequisitions[n].quantity = 0
      /\ \A n \in Rfqs : buyRfqs[n].of = Buying!None /\ buyRfqs[n].invited = {}
      /\ \A n \in Rfqs : \A p \in Vendors : buyResponses[n][p] = 0
      /\ \A o \in Purchases : buyOrders[o] = Buying!NoOrder
  BY <1>1
<1>4. Buying!TypeOK
  <2>1. buyRequisitions \in [Requisitions -> Buying!RequisitionRows]
          /\ buyRfqs \in [Rfqs -> Buying!RfqRows]
    BY <1>1, <1>2 DEF Buying!RequisitionRows, Buying!RfqRows, Buying!Free
  <2>2. buyResponses \in [Rfqs -> [Vendors -> Nat]]
    BY <1>1
  <2>3. buyOrders \in [Purchases -> Buying!OrderRows]
    <3>1. Buying!NoOrder \in Buying!OrderRows
      BY <1>2 DEF Buying!NoOrder, Buying!OrderRows
    <3> QED
      BY <1>1, <3>1
  <2>4. buySuppliers \in [Vendors -> Buying!SupplierRows]
    BY <1>1 DEF Buying!SupplierRows
  <2> QED
    BY <1>1, <2>1, <2>2, <2>3, <2>4 DEF Buying!TypeOK
<1>5. AskedOnce /\ AnswersFit /\ AwardsFit
  BY <1>1, <1>3 DEF AskedOnce, AnswersFit, AwardsFit
<1>6. OrdersFit
  <2>1. Filed(buyOrders) = {}
    BY <1>3 DEF Filed, Buying!NoOrder
  <2>2. IsFiniteSet(Filed(buyOrders))
    BY <2>1, FS_EmptySet
  <2>3. Buying!NoOrder.rfq = Buying!None
    BY DEF Buying!NoOrder
  <2> QED
    BY <1>3, <2>2, <2>3 DEF OrdersFit
<1>7. Buying!NamedSuppliersStand
  BY <1>3 DEF Buying!NamedSuppliersStand, Buying!NoOrder
<1> QED
  BY <1>4, <1>5, <1>6, <1>7 DEF BuyInv

(* A requisition that was asked about keeps its quantity.                      *)
LEMMA BuyRequests ==
  ASSUME BuyInv, NEW r \in Requisitions, NEW row \in Buying!RequisitionRows,
         buyRequisitions' = [buyRequisitions EXCEPT ![r] = row], row.status # Buying!Free,
         buyRequisitions[r].status # Buying!Free => row.quantity = buyRequisitions[r].quantity,
         buyRfqs' = buyRfqs, buyResponses' = buyResponses, buyOrders' = buyOrders,
         buySuppliers' = buySuppliers, buyAwarding' = buyAwarding, buyAnswering' = buyAnswering
  PROVE  BuyInv'
<1>1. /\ buyRequisitions' \in [Requisitions -> Buying!RequisitionRows] /\ buyRequisitions'[r] = row
      /\ \A q \in Requisitions : q # r => buyRequisitions'[q] = buyRequisitions[q]
  BY DEF BuyInv, Buying!TypeOK
<1>2. Buying!TypeOK'
  BY <1>1 DEF BuyInv, Buying!TypeOK
<1>3. \A n \in Rfqs : buyRfqs[n].of \in Requisitions \cup {Buying!None}
  BY DEF BuyInv, Buying!TypeOK, Buying!RfqRows
<1>4. AskedOnce'
  BY <1>1, <1>3 DEF BuyInv, AskedOnce
<1>5. \A n \in Rfqs : buyRfqs[n].of # Buying!None => Buying!Asked(n)' = Buying!Asked(n)
  BY <1>1, <1>3 DEF BuyInv, AskedOnce, Buying!Asked
<1>6. \A a \in buyAwarding : a.rfq \in Rfqs
  BY DEF BuyInv, Buying!TypeOK, Buying!Awards
<1>7. AnswersFit' /\ AwardsFit'
  BY <1>5, <1>6 DEF BuyInv, AnswersFit, AwardsFit
<1>8. OrdersFit'
  BY <1>5 DEF BuyInv, OrdersFit
<1>9. Buying!NamedSuppliersStand'
  BY DEF BuyInv, Buying!NamedSuppliersStand
<1> QED
  BY <1>2, <1>4, <1>7, <1>8, <1>9 DEF BuyInv

(* A new rfq is the first about its requisition; nobody awarded from it yet.   *)
LEMMA BuyAsks ==
  ASSUME BuyInv, NEW n \in Rfqs, NEW r \in Requisitions, NEW invited \in SUBSET Vendors,
         Buying!IssueRfq(n, r, invited)
  PROVE  BuyInv'
<1> DEFINE row == [of |-> r, invited |-> invited, open |-> TRUE]
<1>1. /\ buyRfqs[n].of = Buying!None /\ buyRequisitions[r].status = "approved"
      /\ \A m \in Rfqs : buyRfqs[m].of # r
      /\ \A p \in invited : buySuppliers[p].live
      /\ buyRfqs' = [buyRfqs EXCEPT ![n] = row]
      /\ buyRequisitions' = buyRequisitions /\ buyResponses' = buyResponses
      /\ buyOrders' = buyOrders /\ buySuppliers' = buySuppliers
      /\ buyAwarding' = buyAwarding /\ buyAnswering' = buyAnswering
  BY DEF Buying!IssueRfq, Buying!Sourceable
<1>2. row \in Buying!RfqRows /\ row.of = r /\ row.invited = invited /\ r # Buying!None
  BY BuyConstants DEF Buying!RfqRows
<1> HIDE DEF row
<1>3. /\ buyRfqs' \in [Rfqs -> Buying!RfqRows] /\ buyRfqs'[n] = row
      /\ \A m \in Rfqs : m # n => buyRfqs'[m] = buyRfqs[m]
  BY <1>1, <1>2 DEF BuyInv, Buying!TypeOK
<1>4. Buying!TypeOK'
  BY <1>1, <1>3 DEF BuyInv, Buying!TypeOK
<1>5. AskedOnce'
  BY <1>1, <1>2, <1>3 DEF BuyInv, AskedOnce, Buying!Free
<1>6. AnswersFit'
  BY <1>1, <1>3 DEF BuyInv, AnswersFit, AskedOnce
<1>7. \A m \in Rfqs : m # n => Buying!Asked(m)' = Buying!Asked(m)
  BY <1>1, <1>3 DEF Buying!Asked
<1>8. AwardsFit'
  <2>1. \A a \in buyAwarding : a.rfq \in Rfqs /\ a.rfq # n
    BY <1>1 DEF BuyInv, Buying!TypeOK, Buying!Awards, AwardsFit
  <2> QED
    BY <1>1, <1>3, <1>7, <2>1 DEF BuyInv, AwardsFit
<1>9. \A o \in Purchases : buyOrders[o].rfq # n /\ buyOrders[o].rfq \in Rfqs \cup {Buying!None}
  BY <1>1, BuyConstants DEF BuyInv, OrdersFit, Buying!TypeOK, Buying!OrderRows
<1>10. Awarded(buyOrders, n) = 0
  <2>1. Firsts(buyOrders, n) = {}
    BY <1>9 DEF Firsts
  <2> QED
    BY <2>1, SumOfNone DEF Awarded
<1>11. OrdersFit'
  <2>1. Buying!Asked(n)' \in Nat
    <3>1. buyRequisitions[r].quantity \in 0..MaxAsked
      BY DEF BuyInv, Buying!TypeOK, Buying!RequisitionRows
    <3>2. Buying!Asked(n)' = buyRequisitions[r].quantity
      BY <1>1, <1>2, <1>3 DEF Buying!Asked
    <3> QED
      BY <3>1, <3>2
  <2>2. \A m \in Rfqs : buyRfqs'[m].of # Buying!None =>
          \/ Awarded(buyOrders, m) <= Buying!Asked(m)'
          \/ \E o \in Firsts(buyOrders, m) : buyOrders[o].override
    BY <1>3, <1>7, <1>10, <2>1 DEF BuyInv, OrdersFit
  <2> QED
    BY <1>1, <1>3, <1>9, <2>2 DEF BuyInv, OrdersFit
<1>12. Buying!NamedSuppliersStand'
  BY <1>1, <1>2, <1>3 DEF BuyInv, Buying!NamedSuppliersStand
<1> QED
  BY <1>4, <1>5, <1>6, <1>8, <1>11, <1>12 DEF BuyInv

LEMMA BuyClosesRfq == ASSUME BuyInv, NEW n \in Rfqs, Buying!CloseRfq(n) PROVE BuyInv'
<1>1. /\ buyRfqs' = [buyRfqs EXCEPT ![n].open = FALSE]
      /\ buyRequisitions' = buyRequisitions /\ buyResponses' = buyResponses
      /\ buyOrders' = buyOrders /\ buySuppliers' = buySuppliers
      /\ buyAwarding' = buyAwarding /\ buyAnswering' = buyAnswering
  BY DEF Buying!CloseRfq
<1>2. PICK q \in Buying!RfqRows : q = buyRfqs[n]
  BY DEF BuyInv, Buying!TypeOK
<1>3. /\ [q EXCEPT !.open = FALSE] \in Buying!RfqRows
      /\ [q EXCEPT !.open = FALSE].of = q.of /\ [q EXCEPT !.open = FALSE].invited = q.invited
  BY DEF Buying!RfqRows
<1>4. buyRfqs' = [buyRfqs EXCEPT ![n] = [q EXCEPT !.open = FALSE]]
  BY <1>1, <1>2
<1>5. /\ buyRfqs' \in [Rfqs -> Buying!RfqRows]
      /\ \A m \in Rfqs : buyRfqs'[m].of = buyRfqs[m].of /\ buyRfqs'[m].invited = buyRfqs[m].invited
  BY <1>2, <1>3, <1>4 DEF BuyInv, Buying!TypeOK
<1>6. Buying!TypeOK'
  BY <1>1, <1>5 DEF BuyInv, Buying!TypeOK
<1>7. AskedOnce' /\ AnswersFit'
  BY <1>1, <1>5 DEF BuyInv, AskedOnce, AnswersFit
<1>8. \A m \in Rfqs : Buying!Asked(m)' = Buying!Asked(m)
  BY <1>1, <1>5 DEF Buying!Asked
<1>9. \A a \in buyAwarding : a.rfq \in Rfqs
  BY DEF BuyInv, Buying!TypeOK, Buying!Awards
<1>10. AwardsFit'
  BY <1>1, <1>5, <1>8, <1>9 DEF BuyInv, AwardsFit
<1>11. \A o \in Purchases : buyOrders[o].rfq \in Rfqs \cup {Buying!None}
  BY DEF BuyInv, Buying!TypeOK, Buying!OrderRows
<1>12. OrdersFit'
  BY <1>1, <1>5, <1>8, <1>11 DEF BuyInv, OrdersFit
<1>13. Buying!NamedSuppliersStand'
  BY <1>1, <1>5 DEF BuyInv, Buying!NamedSuppliersStand
<1> QED
  BY <1>6, <1>7, <1>10, <1>12, <1>13 DEF BuyInv

(* An answer is begun, written or given up.                                    *)
LEMMA BuyAnswers ==
  ASSUME BuyInv, NEW n \in Rfqs, NEW p \in Vendors, NEW by \in {"buyer", "portal"},
         \/ Buying!BeginResponse(n, p)
         \/ Buying!CommitResponse(n, p, by)
         \/ Buying!AbortResponse(n, p, by)
  PROVE  BuyInv'
<1>1. /\ buyRequisitions' = buyRequisitions /\ buyRfqs' = buyRfqs /\ buyOrders' = buyOrders
      /\ buySuppliers' = buySuppliers /\ buyAwarding' = buyAwarding
  BY DEF Buying!BeginResponse, Buying!CommitResponse, Buying!AbortResponse
<1>2. \/ buyResponses' = buyResponses
      \/ buyResponses' = [buyResponses EXCEPT ![n][p] = 1] /\ <<n, p, by>> \in buyAnswering
  BY DEF Buying!BeginResponse, Buying!CommitResponse, Buying!AbortResponse
<1>3. /\ buyResponses' \in [Rfqs -> [Vendors -> Nat]]
      /\ \A m \in Rfqs : \A q \in Vendors :
           \/ buyResponses'[m][q] = buyResponses[m][q]
           \/ m = n /\ q = p /\ buyResponses'[m][q] = 1 /\ <<n, p, by>> \in buyAnswering
  BY <1>2 DEF BuyInv, Buying!TypeOK
<1>4. \A t \in buyAnswering' : t \in buyAnswering
        \/ \E who \in {"buyer", "portal"} : t = <<n, p, who>> /\ p \in buyRfqs[n].invited
  BY DEF Buying!BeginResponse, Buying!CommitResponse, Buying!AbortResponse
<1>5. Buying!TypeOK'
  BY <1>1, <1>3 DEF BuyInv, Buying!TypeOK
<1>6. AskedOnce' /\ OrdersFit' /\ Buying!NamedSuppliersStand'
  BY <1>1 DEF BuyInv, AskedOnce, OrdersFit, Buying!NamedSuppliersStand, Buying!Asked
<1>7. AwardsFit'
  BY <1>1 DEF BuyInv, AwardsFit, Buying!Asked
<1>8. AnswersFit'
  <2> SUFFICES ASSUME NEW m \in Rfqs, NEW q \in Vendors
               PROVE  /\ buyResponses'[m][q] <= 1
                      /\ (buyResponses'[m][q] > 0 => q \in buyRfqs[m].invited)
                      /\ \A who \in {"buyer", "portal"} :
                           <<m, q, who>> \in buyAnswering' => q \in buyRfqs[m].invited
    BY <1>1 DEF AnswersFit
  <2>1. /\ buyResponses[m][q] <= 1
        /\ (buyResponses[m][q] > 0 => q \in buyRfqs[m].invited)
        /\ \A who \in {"buyer", "portal"} :
             <<m, q, who>> \in buyAnswering => q \in buyRfqs[m].invited
    BY DEF BuyInv, AnswersFit
  <2>2. buyResponses'[m][q] <= 1 /\ (buyResponses'[m][q] > 0 => q \in buyRfqs[m].invited)
    BY <1>3, <2>1
  <2>3. \A who \in {"buyer", "portal"} :
          <<m, q, who>> \in buyAnswering' => q \in buyRfqs[m].invited
    BY <1>4, <2>1
  <2> QED
    BY <2>2, <2>3
<1> QED
  BY <1>5, <1>6, <1>7, <1>8 DEF BuyInv

(* One column of an order that changes.                                        *)
LEMMA ChangedOrder ==
  ASSUME NEW q \in Buying!OrderRows, NEW v
  PROVE  /\ [q EXCEPT !.rfq = v]
              = [rfq |-> v, supplier |-> q.supplier, quantity |-> q.quantity,
                 status |-> q.status, revises |-> q.revises, override |-> q.override]
         /\ [q EXCEPT !.supplier = v]
              = [rfq |-> q.rfq, supplier |-> v, quantity |-> q.quantity,
                 status |-> q.status, revises |-> q.revises, override |-> q.override]
         /\ [q EXCEPT !.quantity = v]
              = [rfq |-> q.rfq, supplier |-> q.supplier, quantity |-> v,
                 status |-> q.status, revises |-> q.revises, override |-> q.override]
         /\ [q EXCEPT !.status = v]
              = [rfq |-> q.rfq, supplier |-> q.supplier, quantity |-> q.quantity,
                 status |-> v, revises |-> q.revises, override |-> q.override]
         /\ [q EXCEPT !.revises = v]
              = [rfq |-> q.rfq, supplier |-> q.supplier, quantity |-> q.quantity,
                 status |-> q.status, revises |-> v, override |-> q.override]
         /\ [q EXCEPT !.override = v]
              = [rfq |-> q.rfq, supplier |-> q.supplier, quantity |-> q.quantity,
                 status |-> q.status, revises |-> q.revises, override |-> v]
BY DEF Buying!OrderRows

LEMMA FirstNewOrder ==
  ASSUME BuyInv, Buying!NewOrders # {}
  PROVE  /\ Buying!Min(Buying!NewOrders) \in Purchases
         /\ buyOrders[Buying!Min(Buying!NewOrders)] = Buying!NoOrder
<1>1. Buying!NewOrders \in SUBSET Nat
  BY BuyConstants DEF Buying!NewOrders
<1>2. \E k \in Buying!NewOrders : \A m \in Buying!NewOrders : k <= m
  BY <1>1, LeastOf
<1>3. Buying!Min(Buying!NewOrders) \in Buying!NewOrders
  BY <1>2 DEF Buying!Min
<1> QED
  BY <1>3 DEF Buying!NewOrders, BuyInv, OrdersFit

(* An order is written in an empty row.                                        *)
LEMMA BuyOrders ==
  ASSUME BuyInv, NEW k \in Purchases, buyOrders[k] = Buying!NoOrder, NEW row \in Buying!OrderRows,
         buyOrders' = [buyOrders EXCEPT ![k] = row], row.status # Buying!Free
  PROVE  /\ buyOrders' \in [Purchases -> Buying!OrderRows] /\ buyOrders'[k] = row
         /\ \A o \in Purchases : o # k => buyOrders'[o] = buyOrders[o]
         /\ IsFiniteSet(Filed(buyOrders'))
         /\ \A n \in Rfqs : row.rfq # n \/ row.revises # Buying!None =>
              /\ Firsts(buyOrders', n) = Firsts(buyOrders, n)
              /\ Awarded(buyOrders', n) = Awarded(buyOrders, n)
         /\ \A n \in Rfqs : row.rfq = n /\ row.revises = Buying!None =>
              /\ Firsts(buyOrders', n) = Firsts(buyOrders, n) \cup {k}
              /\ Awarded(buyOrders', n) = Awarded(buyOrders, n) + row.quantity
<1>1. PICK new : new = buyOrders'
  OBVIOUS
<1>2. /\ new \in [Purchases -> Buying!OrderRows] /\ new[k] = row
      /\ \A o \in Purchases : o # k => new[o] = buyOrders[o]
  BY <1>1 DEF BuyInv, Buying!TypeOK
<1>3. IsFiniteSet(Filed(new))
  <2>1. IsFiniteSet(Filed(buyOrders) \cup {k})
    BY FS_AddElement DEF BuyInv, OrdersFit
  <2>2. Filed(new) \subseteq Filed(buyOrders) \cup {k}
    BY <1>2 DEF Filed
  <2> QED
    BY <2>1, <2>2, FS_Subset
<1>4. ASSUME NEW n \in Rfqs PROVE k \notin Firsts(buyOrders, n)
  BY BuyConstants DEF Firsts, Buying!NoOrder
<1>5. ASSUME NEW n \in Rfqs
      PROVE  SumOver(Amounts(new), Firsts(buyOrders, n)) = Awarded(buyOrders, n)
  <2>1. IsFiniteSet(Firsts(buyOrders, n))
    BY OrdersAdd
  <2>2. \A o \in Firsts(buyOrders, n) : Amounts(new)[o] = Amounts(buyOrders)[o]
    BY <1>2, <1>4 DEF Amounts, Firsts
  <2> QED
    BY <2>1, <2>2, SumOfSame DEF Awarded
<1>6. ASSUME NEW n \in Rfqs, row.rfq # n \/ row.revises # Buying!None
      PROVE  /\ Firsts(new, n) = Firsts(buyOrders, n)
             /\ Awarded(new, n) = Awarded(buyOrders, n)
  <2>1. Firsts(new, n) = Firsts(buyOrders, n)
    <3>1. k \notin Firsts(new, n)
      BY <1>2, <1>6 DEF Firsts
    <3>2. \A o \in Purchases : o # k => (o \in Firsts(new, n) <=> o \in Firsts(buyOrders, n))
      BY <1>2 DEF Firsts
    <3>3. Firsts(new, n) \subseteq Purchases /\ Firsts(buyOrders, n) \subseteq Purchases
      BY DEF Firsts
    <3> QED
      BY <1>4, <3>1, <3>2, <3>3
  <2> QED
    BY <1>5, <2>1 DEF Awarded
<1>7. ASSUME NEW n \in Rfqs, row.rfq = n, row.revises = Buying!None
      PROVE  /\ Firsts(new, n) = Firsts(buyOrders, n) \cup {k}
             /\ Awarded(new, n) = Awarded(buyOrders, n) + row.quantity
  <2>1. Firsts(new, n) = Firsts(buyOrders, n) \cup {k}
    <3>1. k \in Firsts(new, n)
      BY <1>2, <1>7 DEF Firsts
    <3>2. \A o \in Purchases : o # k => (o \in Firsts(new, n) <=> o \in Firsts(buyOrders, n))
      BY <1>2 DEF Firsts
    <3>3. Firsts(new, n) \subseteq Purchases /\ Firsts(buyOrders, n) \subseteq Purchases
      BY DEF Firsts
    <3> QED
      BY <3>1, <3>2, <3>3
  <2>2. IsFiniteSet(Firsts(buyOrders, n))
    BY OrdersAdd
  <2>3. \A o \in Purchases : Amounts(new)[o] \in Int
    <3>1. \A o \in Purchases : new[o].quantity \in 0..MaxAsked
      BY <1>2 DEF Buying!OrderRows
    <3> QED
      BY <3>1, BuyConstants DEF Amounts
  <2>4. Amounts(new)[k] = row.quantity
    BY <1>2 DEF Amounts
  <2>5. SumOver(Amounts(new), Firsts(buyOrders, n) \cup {k})
          = SumOver(Amounts(new), Firsts(buyOrders, n)) + Amounts(new)[k]
    <3>1. \A o \in Firsts(buyOrders, n) : Amounts(new)[o] \in Int
      BY <2>3 DEF Firsts
    <3> QED
      BY <1>4, <2>2, <2>3, <3>1, SumOfOneMore
  <2> QED
    BY <1>5, <2>1, <2>4, <2>5 DEF Awarded
<1> QED
  BY <1>1, <1>2, <1>3, <1>6, <1>7

(* An award begins when no other one is under way.                             *)
LEMMA BuyBegins ==
  ASSUME BuyInv, NEW n \in Rfqs, NEW p \in Vendors, NEW quantity \in Buying!Quantities,
         NEW override \in BOOLEAN, Buying!BeginAward(n, p, quantity, override)
  PROVE  BuyInv'
<1> DEFINE a == [rfq |-> n, supplier |-> p, quantity |-> quantity, override |-> override]
<1>1. /\ buyRfqs[n].of # Buying!None /\ buyResponses[n][p] > 0
      /\ override = ~Buying!WithinAsked(n, quantity)
      /\ buyAwarding' = {a}
      /\ buyRequisitions' = buyRequisitions /\ buyRfqs' = buyRfqs
      /\ buyResponses' = buyResponses /\ buyOrders' = buyOrders
      /\ buySuppliers' = buySuppliers /\ buyAnswering' = buyAnswering
  BY DEF Buying!BeginAward
<1>2. a \in Buying!Awards /\ a.rfq = n /\ a.supplier = p /\ a.quantity = quantity
        /\ a.override = override
  BY DEF Buying!Awards, Buying!Quantities
<1> HIDE DEF a
<1>3. Buying!TypeOK'
  BY <1>1, <1>2 DEF BuyInv, Buying!TypeOK
<1>4. AskedOnce' /\ AnswersFit' /\ OrdersFit' /\ Buying!NamedSuppliersStand'
  BY <1>1 DEF BuyInv, AskedOnce, AnswersFit, OrdersFit, Buying!NamedSuppliersStand, Buying!Asked
<1>5. p \in buyRfqs[n].invited
  BY <1>1 DEF BuyInv, AnswersFit
<1>6. override \/ Awarded(buyOrders, n) + quantity <= Buying!Asked(n)
  <2>1. PICK sum \in Nat : sum = Buying!AwardedQuantity(n) /\ Awarded(buyOrders, n) <= sum
    BY OrdersAdd
  <2>2. PICK awarded \in Nat : awarded = Awarded(buyOrders, n)
    BY OrdersAdd
  <2>3. PICK asked \in Nat : asked = Buying!Asked(n)
    <3>1. buyRfqs[n].of \in Requisitions
      BY <1>1 DEF BuyInv, Buying!TypeOK, Buying!RfqRows
    <3>2. buyRequisitions[buyRfqs[n].of].quantity \in 0..MaxAsked
      BY <3>1 DEF BuyInv, Buying!TypeOK, Buying!RequisitionRows
    <3> QED
      BY <3>2, BuyConstants DEF Buying!Asked
  <2>4. override \/ sum + quantity <= asked
    BY <1>1, <2>1, <2>3 DEF Buying!WithinAsked
  <2>5. quantity \in Nat
    BY BuyConstants DEF Buying!Quantities
  <2>6. override \/ awarded + quantity <= asked
    BY <2>1, <2>2, <2>4, <2>5
  <2> QED
    BY <2>2, <2>3, <2>6
<1>7. AwardsFit'
  BY <1>1, <1>2, <1>5, <1>6 DEF AwardsFit, Buying!Asked
<1> QED
  BY <1>3, <1>4, <1>7 DEF BuyInv

LEMMA BuyAborts == ASSUME BuyInv, NEW a, Buying!AbortAward(a) PROVE BuyInv'
<1>1. /\ buyAwarding' \subseteq buyAwarding
      /\ buyRequisitions' = buyRequisitions /\ buyRfqs' = buyRfqs
      /\ buyResponses' = buyResponses /\ buyOrders' = buyOrders
      /\ buySuppliers' = buySuppliers /\ buyAnswering' = buyAnswering
  BY DEF Buying!AbortAward
<1>2. Buying!TypeOK'
  BY <1>1 DEF BuyInv, Buying!TypeOK
<1>3. AskedOnce' /\ AnswersFit' /\ OrdersFit' /\ Buying!NamedSuppliersStand'
  BY <1>1 DEF BuyInv, AskedOnce, AnswersFit, OrdersFit, Buying!NamedSuppliersStand, Buying!Asked
<1>4. AwardsFit'
  BY <1>1 DEF BuyInv, AwardsFit, Buying!Asked
<1> QED
  BY <1>2, <1>3, <1>4 DEF BuyInv

(* The award becomes an order: what was left when it began is left still.      *)
LEMMA BuyAwards ==
  ASSUME BuyInv, NEW a \in buyAwarding, Buying!CommitAward(a)
  PROVE  BuyInv'
<1> DEFINE k == Buying!Min(Buying!NewOrders)
           row == [rfq |-> a.rfq, supplier |-> a.supplier, quantity |-> a.quantity,
                   status |-> "draft", revises |-> Buying!None, override |-> a.override]
<1>1. [Buying!NoOrder EXCEPT !.rfq = a.rfq, !.supplier = a.supplier, !.quantity = a.quantity,
                              !.status = "draft", !.override = a.override] = row
  <2>1. /\ a.rfq \in Rfqs /\ a.supplier \in Vendors /\ a.quantity \in 1..MaxAsked
        /\ a.override \in BOOLEAN /\ MaxAsked \in Nat /\ Buying!None = 0
    BY BuyConstants DEF BuyInv, Buying!TypeOK, Buying!Awards, Buying!Quantities
  <2>2. /\ Buying!NoOrder.supplier = 0 /\ Buying!NoOrder.quantity = 0
         /\ Buying!NoOrder.status = "free" /\ Buying!NoOrder.revises = 0
         /\ Buying!NoOrder.override = FALSE
    BY <2>1 DEF Buying!NoOrder, Buying!Free
  <2>3. 0 \in 0..MaxAsked
    BY <2>1
  <2>4. Buying!NoOrder \in Buying!OrderRows
    BY <2>3 DEF Buying!NoOrder, Buying!OrderRows
  <2>5. PICK no \in Buying!OrderRows : no = Buying!NoOrder
    BY <2>4
  <2> DEFINE first == [rfq |-> a.rfq, supplier |-> 0, quantity |-> 0,
                       status |-> "free", revises |-> 0, override |-> FALSE]
  <2>6. [no EXCEPT !.rfq = a.rfq] = first
    <3>1. [no EXCEPT !.rfq = a.rfq]
            = [rfq |-> a.rfq, supplier |-> no.supplier, quantity |-> no.quantity,
               status |-> no.status, revises |-> no.revises, override |-> no.override]
      BY ChangedOrder
    <3> QED
      BY <2>5, <2>2, <3>1
  <2>7. first \in Buying!OrderRows
    BY <2>1 DEF Buying!OrderRows, Buying!Free
  <2> DEFINE second == [rfq |-> a.rfq, supplier |-> a.supplier, quantity |-> 0,
                        status |-> "free", revises |-> 0, override |-> FALSE]
  <2>8. [first EXCEPT !.supplier = a.supplier] = second
    BY <2>7, ChangedOrder
  <2>9. second \in Buying!OrderRows
    BY <2>1 DEF Buying!OrderRows, Buying!Free
  <2> DEFINE third == [rfq |-> a.rfq, supplier |-> a.supplier, quantity |-> a.quantity,
                       status |-> "free", revises |-> 0, override |-> FALSE]
  <2>10. [second EXCEPT !.quantity = a.quantity] = third
    BY <2>9, ChangedOrder
  <2>11. third \in Buying!OrderRows
    BY <2>1 DEF Buying!OrderRows, Buying!Free
  <2> DEFINE fourth == [rfq |-> a.rfq, supplier |-> a.supplier, quantity |-> a.quantity,
                        status |-> "draft", revises |-> 0, override |-> FALSE]
  <2>12. [third EXCEPT !.status = "draft"] = fourth
    BY <2>11, ChangedOrder
  <2>13. fourth \in Buying!OrderRows
    BY <2>1 DEF Buying!OrderRows, Buying!Free
  <2> DEFINE fifth == [rfq |-> a.rfq, supplier |-> a.supplier, quantity |-> a.quantity,
                       status |-> "draft", revises |-> 0, override |-> a.override]
  <2>14. [fourth EXCEPT !.override = a.override] = fifth
    BY <2>13, ChangedOrder
  <2>15. fifth \in Buying!OrderRows
    BY <2>1 DEF Buying!OrderRows, Buying!Free
  <2> HIDE DEF first, second, third, fourth, fifth
  <2>16. [no EXCEPT !.rfq = a.rfq, !.supplier = a.supplier, !.quantity = a.quantity,
                   !.status = "draft", !.override = a.override]
          = [[[[[no EXCEPT !.rfq = a.rfq] EXCEPT !.supplier = a.supplier]
                 EXCEPT !.quantity = a.quantity] EXCEPT !.status = "draft"]
                 EXCEPT !.override = a.override]
    OBVIOUS
  <2>17. fifth = row
    BY <2>1 DEF fifth
  <2> QED
    BY <2>5, <2>6, <2>8, <2>10, <2>12, <2>14, <2>16, <2>17
<1>2. /\ Buying!NewOrders # {} /\ buyOrders' = [buyOrders EXCEPT ![k] = row]
      /\ buyAwarding' = buyAwarding \ {a}
      /\ buyRequisitions' = buyRequisitions /\ buyRfqs' = buyRfqs
      /\ buyResponses' = buyResponses /\ buySuppliers' = buySuppliers
      /\ buyAnswering' = buyAnswering
  BY <1>1 DEF Buying!CommitAward
<1>3. /\ a.rfq \in Rfqs /\ a.supplier \in Vendors /\ a.quantity \in 1..MaxAsked
      /\ a.override \in BOOLEAN
  BY DEF BuyInv, Buying!TypeOK, Buying!Awards, Buying!Quantities
<1>4. row \in Buying!OrderRows
  BY <1>3, BuyConstants DEF Buying!OrderRows
<1>5. /\ row.rfq = a.rfq /\ row.supplier = a.supplier /\ row.quantity = a.quantity
      /\ row.status = "draft" /\ row.revises = Buying!None /\ row.override = a.override
  OBVIOUS
<1>6. k \in Purchases /\ buyOrders[k] = Buying!NoOrder
  BY <1>2, FirstNewOrder
<1> HIDE DEF k, row
<1>7. /\ buyOrders' \in [Purchases -> Buying!OrderRows] /\ buyOrders'[k] = row
      /\ \A o \in Purchases : o # k => buyOrders'[o] = buyOrders[o]
      /\ IsFiniteSet(Filed(buyOrders'))
      /\ \A n \in Rfqs : n # a.rfq =>
           /\ Firsts(buyOrders', n) = Firsts(buyOrders, n)
           /\ Awarded(buyOrders', n) = Awarded(buyOrders, n)
      /\ Firsts(buyOrders', a.rfq) = Firsts(buyOrders, a.rfq) \cup {k}
      /\ Awarded(buyOrders', a.rfq) = Awarded(buyOrders, a.rfq) + a.quantity
  <2>1. row.status # Buying!Free /\ buyOrders' = [buyOrders EXCEPT ![k] = row]
    BY <1>2, <1>5 DEF Buying!Free
  <2>2. /\ buyOrders' \in [Purchases -> Buying!OrderRows] /\ buyOrders'[k] = row
        /\ \A o \in Purchases : o # k => buyOrders'[o] = buyOrders[o]
        /\ IsFiniteSet(Filed(buyOrders'))
        /\ \A n \in Rfqs : row.rfq # n \/ row.revises # Buying!None =>
             /\ Firsts(buyOrders', n) = Firsts(buyOrders, n)
             /\ Awarded(buyOrders', n) = Awarded(buyOrders, n)
        /\ \A n \in Rfqs : row.rfq = n /\ row.revises = Buying!None =>
             /\ Firsts(buyOrders', n) = Firsts(buyOrders, n) \cup {k}
             /\ Awarded(buyOrders', n) = Awarded(buyOrders, n) + row.quantity
    BY ONLY BuyInv, <1>4, <1>6, <2>1, BuyOrders
  <2> QED
    BY <1>3, <1>5, <2>2
<1>8. /\ buyRfqs[a.rfq].of # Buying!None /\ a.supplier \in buyRfqs[a.rfq].invited
      /\ a.override \/ Awarded(buyOrders, a.rfq) + a.quantity <= Buying!Asked(a.rfq)
      /\ \A b \in buyAwarding : a = b
  BY DEF BuyInv, AwardsFit
<1>9. Buying!TypeOK'
  BY <1>2, <1>7 DEF BuyInv, Buying!TypeOK
<1>10. AskedOnce' /\ AnswersFit'
  BY <1>2 DEF BuyInv, AskedOnce, AnswersFit
<1>11. AwardsFit'
  <2>1. buyAwarding' = {}
    BY <1>2, <1>8
  <2> QED
    BY <2>1 DEF AwardsFit
<1>12. \A n \in Rfqs : Buying!Asked(n)' = Buying!Asked(n)
  BY <1>2 DEF Buying!Asked
<1>13. OrdersFit'
  <2>1. \A o \in Purchases : buyOrders'[o].status = Buying!Free => buyOrders'[o] = Buying!NoOrder
    BY <1>5, <1>7 DEF BuyInv, OrdersFit, Buying!Free
  <2>2. \A o \in Purchases : buyOrders'[o].rfq # Buying!None =>
          buyRfqs[buyOrders'[o].rfq].of # Buying!None
    BY <1>5, <1>7, <1>8 DEF BuyInv, OrdersFit
  <2>3. ASSUME NEW n \in Rfqs, buyRfqs[n].of # Buying!None
        PROVE  \/ Awarded(buyOrders', n) <= Buying!Asked(n)
               \/ \E o \in Firsts(buyOrders', n) : buyOrders'[o].override
    <3>1. CASE n = a.rfq
      <4>1. CASE a.override
        BY <1>5, <1>7, <3>1, <4>1
      <4>2. CASE ~a.override
        BY <1>7, <1>8, <3>1, <4>2
      <4> QED
        BY <4>1, <4>2
    <3>2. CASE n # a.rfq
      <4>1. \A o \in Firsts(buyOrders, n) : buyOrders'[o] = buyOrders[o]
        <5>1. k \notin Firsts(buyOrders, n)
          BY <1>6, BuyConstants DEF Firsts, Buying!NoOrder
        <5> QED
          BY <1>7, <5>1 DEF Firsts
      <4> QED
        BY <1>7, <2>3, <3>2, <4>1 DEF BuyInv, OrdersFit
    <3> QED
      BY <3>1, <3>2
  <2> QED
    BY <1>2, <1>7, <1>12, <2>1, <2>2, <2>3 DEF OrdersFit
<1>14. Buying!NamedSuppliersStand'
  BY <1>2, <1>5, <1>7, <1>8, <1>3 DEF BuyInv, Buying!NamedSuppliersStand
<1> QED
  BY <1>9, <1>10, <1>11, <1>13, <1>14 DEF BuyInv

(* A revision is of what its order awarded, and is no award itself.            *)
LEMMA BuyAmends ==
  ASSUME BuyInv, NEW was \in Purchases, NEW quantity \in Buying!Quantities,
         Buying!Amend(was, quantity)
  PROVE  BuyInv'
<1> DEFINE k == Buying!Min(Buying!NewOrders)
<1>1. PICK q \in Buying!OrderRows : q = buyOrders[was]
  BY DEF BuyInv, Buying!TypeOK
<1> DEFINE row == [rfq |-> q.rfq, supplier |-> q.supplier, quantity |-> quantity,
                   status |-> "draft", revises |-> was, override |-> FALSE]
<1>2. /\ Buying!NewOrders # {}
      /\ buyOrders' = [buyOrders EXCEPT ![k] = [q EXCEPT !.quantity = quantity,
                         !.status = "draft", !.revises = was, !.override = FALSE]]
      /\ buyAwarding' = buyAwarding
      /\ buyRequisitions' = buyRequisitions /\ buyRfqs' = buyRfqs
      /\ buyResponses' = buyResponses /\ buySuppliers' = buySuppliers
      /\ buyAnswering' = buyAnswering
  BY <1>1 DEF Buying!Amend
<1>3. [q EXCEPT !.quantity = quantity, !.status = "draft", !.revises = was, !.override = FALSE]
        = row
  <2>1. quantity \in 0..MaxAsked /\ was \in Purchases
    BY BuyConstants DEF Buying!Quantities
  <2> DEFINE first == [rfq |-> q.rfq, supplier |-> q.supplier, quantity |-> quantity,
                       status |-> q.status, revises |-> q.revises, override |-> q.override]
  <2>2. [q EXCEPT !.quantity = quantity] = first
    BY <1>1, ChangedOrder
  <2>3. first \in Buying!OrderRows
    BY <1>1, <2>1 DEF Buying!OrderRows
  <2> DEFINE second == [rfq |-> q.rfq, supplier |-> q.supplier, quantity |-> quantity,
                        status |-> "draft", revises |-> q.revises, override |-> q.override]
  <2>4. [first EXCEPT !.status = "draft"] = second
    BY <2>3, ChangedOrder
  <2>5. second \in Buying!OrderRows
    BY <1>1, <2>1 DEF Buying!OrderRows
  <2> DEFINE third == [rfq |-> q.rfq, supplier |-> q.supplier, quantity |-> quantity,
                       status |-> "draft", revises |-> was, override |-> q.override]
  <2>6. [second EXCEPT !.revises = was] = third
    BY <2>5, ChangedOrder
  <2>7. third \in Buying!OrderRows
    BY <1>1, <2>1 DEF Buying!OrderRows
  <2> DEFINE fourth == [rfq |-> q.rfq, supplier |-> q.supplier, quantity |-> quantity,
                        status |-> "draft", revises |-> was, override |-> FALSE]
  <2>8. [third EXCEPT !.override = FALSE] = fourth
    BY <2>7, ChangedOrder
  <2>9. fourth \in Buying!OrderRows
    BY <1>1, <2>1 DEF Buying!OrderRows
  <2> HIDE DEF first, second, third, fourth
  <2>10. [q EXCEPT !.quantity = quantity, !.status = "draft", !.revises = was, !.override = FALSE]
          = [[[[q EXCEPT !.quantity = quantity] EXCEPT !.status = "draft"] EXCEPT !.revises = was]
               EXCEPT !.override = FALSE]
    OBVIOUS
  <2>11. fourth = row
    BY DEF fourth
  <2> QED
    BY <2>2, <2>4, <2>6, <2>8, <2>10, <2>11
<1>4. row \in Buying!OrderRows
  BY <1>1, BuyConstants DEF Buying!OrderRows, Buying!Quantities
<1>5. /\ row.rfq = q.rfq /\ row.supplier = q.supplier /\ row.status = "draft" /\ row.revises = was
  OBVIOUS
<1>6. k \in Purchases /\ buyOrders[k] = Buying!NoOrder
  BY <1>2, FirstNewOrder
<1>7. was # Buying!None
  BY BuyConstants
<1> HIDE DEF k, row
<1>8. /\ buyOrders' \in [Purchases -> Buying!OrderRows] /\ buyOrders'[k] = row
      /\ \A o \in Purchases : o # k => buyOrders'[o] = buyOrders[o]
      /\ IsFiniteSet(Filed(buyOrders'))
      /\ \A n \in Rfqs : /\ Firsts(buyOrders', n) = Firsts(buyOrders, n)
                         /\ Awarded(buyOrders', n) = Awarded(buyOrders, n)
  <2>1. row.status # Buying!Free /\ buyOrders' = [buyOrders EXCEPT ![k] = row]
    BY <1>2, <1>3, <1>5 DEF Buying!Free
  <2>2. /\ buyOrders' \in [Purchases -> Buying!OrderRows] /\ buyOrders'[k] = row
        /\ \A o \in Purchases : o # k => buyOrders'[o] = buyOrders[o]
        /\ IsFiniteSet(Filed(buyOrders'))
        /\ \A n \in Rfqs : row.rfq # n \/ row.revises # Buying!None =>
             /\ Firsts(buyOrders', n) = Firsts(buyOrders, n)
             /\ Awarded(buyOrders', n) = Awarded(buyOrders, n)
    BY ONLY BuyInv, <1>4, <1>6, <2>1, BuyOrders
  <2> QED
    BY <1>5, <1>7, <2>2
<1>9. Buying!TypeOK'
  BY <1>2, <1>8 DEF BuyInv, Buying!TypeOK
<1>10. AskedOnce' /\ AnswersFit'
  BY <1>2 DEF BuyInv, AskedOnce, AnswersFit
<1>11. \A n \in Rfqs : Buying!Asked(n)' = Buying!Asked(n)
  BY <1>2 DEF Buying!Asked
<1>12. AwardsFit'
  <2>1. \A a \in buyAwarding : a.rfq \in Rfqs
    BY DEF BuyInv, Buying!TypeOK, Buying!Awards
  <2> QED
    BY <1>2, <1>8, <1>11, <2>1 DEF BuyInv, AwardsFit
<1>13. OrdersFit'
  <2>1. \A o \in Purchases : buyOrders'[o].status = Buying!Free => buyOrders'[o] = Buying!NoOrder
    BY <1>5, <1>8 DEF BuyInv, OrdersFit, Buying!Free
  <2>2. \A o \in Purchases : buyOrders'[o].rfq # Buying!None =>
          buyRfqs[buyOrders'[o].rfq].of # Buying!None
    BY <1>1, <1>5, <1>8 DEF BuyInv, OrdersFit
  <2>3. \A n \in Rfqs : \A o \in Firsts(buyOrders, n) : buyOrders'[o] = buyOrders[o]
    <3>1. \A n \in Rfqs : k \notin Firsts(buyOrders, n)
      BY <1>6, BuyConstants DEF Firsts, Buying!NoOrder
    <3> QED
      BY <1>8, <3>1 DEF Firsts
  <2>4. \A n \in Rfqs : buyRfqs[n].of # Buying!None =>
          \/ Awarded(buyOrders', n) <= Buying!Asked(n)
          \/ \E o \in Firsts(buyOrders', n) : buyOrders'[o].override
    BY <1>8, <2>3 DEF BuyInv, OrdersFit
  <2> QED
    BY <1>2, <1>8, <1>11, <2>1, <2>2, <2>4 DEF OrdersFit
<1>14. Buying!NamedSuppliersStand'
  BY <1>1, <1>2, <1>5, <1>8 DEF BuyInv, Buying!NamedSuppliersStand
<1> QED
  BY <1>9, <1>10, <1>12, <1>13, <1>14 DEF BuyInv

(* The decision on an order changes nothing of what it awards.                 *)
LEMMA BuyDecides ==
  ASSUME BuyInv, NEW k \in Purchases, NEW status \in {"released", "refused"},
         Buying!EndApproval(k, status)
  PROVE  BuyInv'
<1>1. /\ buyOrders[k].status = "draft" /\ buyOrders' = [buyOrders EXCEPT ![k].status = status]
      /\ buyAwarding' = buyAwarding
      /\ buyRequisitions' = buyRequisitions /\ buyRfqs' = buyRfqs
      /\ buyResponses' = buyResponses /\ buySuppliers' = buySuppliers
      /\ buyAnswering' = buyAnswering
  BY DEF Buying!EndApproval
<1>2. PICK q \in Buying!OrderRows : q = buyOrders[k]
  BY DEF BuyInv, Buying!TypeOK
<1> DEFINE row == [rfq |-> q.rfq, supplier |-> q.supplier, quantity |-> q.quantity,
                   status |-> status, revises |-> q.revises, override |-> q.override]
<1>3. /\ row \in Buying!OrderRows /\ row = [q EXCEPT !.status = status] /\ row.status = status
      /\ row.rfq = q.rfq /\ row.revises = q.revises /\ row.quantity = q.quantity
      /\ row.override = q.override /\ row.supplier = q.supplier
  BY DEF Buying!OrderRows
<1> HIDE DEF row
<1>4. PICK new : new = buyOrders'
  OBVIOUS
<1>5. new = [buyOrders EXCEPT ![k] = row]
  BY <1>1, <1>2, <1>3, <1>4
<1>6. /\ new \in [Purchases -> Buying!OrderRows] /\ new[k] = row
      /\ \A o \in Purchases : o # k => new[o] = buyOrders[o]
  BY <1>3, <1>5 DEF BuyInv, Buying!TypeOK
<1>7. \A o \in Purchases :
        /\ new[o].rfq = buyOrders[o].rfq /\ new[o].revises = buyOrders[o].revises
        /\ new[o].quantity = buyOrders[o].quantity /\ new[o].override = buyOrders[o].override
        /\ new[o].supplier = buyOrders[o].supplier
        /\ (new[o].status = Buying!Free <=> buyOrders[o].status = Buying!Free)
        /\ (new[o].status = Buying!Free => new[o] = buyOrders[o])
  BY <1>1, <1>2, <1>3, <1>6 DEF Buying!Free
<1>8. Filed(new) = Filed(buyOrders)
  BY <1>7 DEF Filed
<1>9. ASSUME NEW n \in Rfqs
      PROVE Firsts(new, n) = Firsts(buyOrders, n) /\ Awarded(new, n) = Awarded(buyOrders, n)
  <2>1. Firsts(new, n) = Firsts(buyOrders, n)
    BY <1>7 DEF Firsts
  <2>2. Amounts(new) = Amounts(buyOrders)
    BY <1>7 DEF Amounts
  <2> QED
    BY <2>1, <2>2 DEF Awarded
<1>10. Buying!TypeOK'
  BY <1>1, <1>4, <1>6 DEF BuyInv, Buying!TypeOK
<1>11. AskedOnce' /\ AnswersFit'
  BY <1>1 DEF BuyInv, AskedOnce, AnswersFit
<1>12. \A n \in Rfqs : Buying!Asked(n)' = Buying!Asked(n)
  BY <1>1 DEF Buying!Asked
<1>13. AwardsFit'
  <2>1. \A a \in buyAwarding : a.rfq \in Rfqs
    BY DEF BuyInv, Buying!TypeOK, Buying!Awards
  <2> QED
    BY <1>1, <1>4, <1>9, <1>12, <2>1 DEF BuyInv, AwardsFit
<1>14. OrdersFit'
  <2>1. \A n \in Rfqs : buyRfqs[n].of # Buying!None =>
          \/ Awarded(new, n) <= Buying!Asked(n)
          \/ \E o \in Firsts(new, n) : new[o].override
    <3>1. \A n \in Rfqs : Firsts(buyOrders, n) \subseteq Purchases
      BY DEF Firsts
    <3> QED
      BY <1>7, <1>9, <3>1 DEF BuyInv, OrdersFit
  <2>2. IsFiniteSet(Filed(new))
    BY <1>8 DEF BuyInv, OrdersFit
  <2>3. /\ \A o \in Purchases : new[o].status = Buying!Free => new[o] = Buying!NoOrder
        /\ \A o \in Purchases : new[o].rfq # Buying!None => buyRfqs[new[o].rfq].of # Buying!None
    BY <1>7 DEF BuyInv, OrdersFit
  <2> QED
    BY <1>1, <1>4, <1>12, <2>1, <2>2, <2>3 DEF OrdersFit
<1>15. Buying!NamedSuppliersStand'
  BY <1>1, <1>4, <1>7 DEF BuyInv, Buying!NamedSuppliersStand
<1> QED
  BY <1>10, <1>11, <1>13, <1>14, <1>15 DEF BuyInv

(* A supplier that is retired is named by nothing.                             *)
LEMMA BuyKeepsSuppliers ==
  ASSUME BuyInv, NEW p \in Vendors,
         Buying!RetireSupplier(p) \/ \E c \in Contacts : Buying!AddPrimary(p, c)
  PROVE  BuyInv'
<1>1. /\ buyAwarding' = buyAwarding
      /\ buyRequisitions' = buyRequisitions /\ buyRfqs' = buyRfqs
      /\ buyResponses' = buyResponses /\ buyOrders' = buyOrders
      /\ buyAnswering' = buyAnswering
  BY DEF Buying!RetireSupplier, Buying!AddPrimary
<1>2. PICK q \in Buying!SupplierRows : q = buySuppliers[p]
  BY DEF BuyInv, Buying!TypeOK
<1>3. PICK row \in Buying!SupplierRows :
        /\ buySuppliers' = [buySuppliers EXCEPT ![p] = row]
        /\ row.live = buySuppliers[p].live \/ Buying!NamedBy(p) = {}
  <2>1. CASE Buying!RetireSupplier(p)
    <3>1. [q EXCEPT !.live = FALSE] \in Buying!SupplierRows
      BY DEF Buying!SupplierRows
    <3> QED
      BY <1>2, <2>1, <3>1 DEF Buying!RetireSupplier
  <2>2. CASE \E c \in Contacts : Buying!AddPrimary(p, c)
    <3>1. PICK c \in Contacts : buySuppliers' = [buySuppliers EXCEPT ![p].primary = {c}]
      BY <2>2 DEF Buying!AddPrimary
    <3>2. [q EXCEPT !.primary = {c}] \in Buying!SupplierRows /\ [q EXCEPT !.primary = {c}].live = q.live
      BY DEF Buying!SupplierRows
    <3> QED
      BY <1>2, <3>1, <3>2
  <2> QED
    BY <2>1, <2>2
<1>4. /\ buySuppliers' \in [Vendors -> Buying!SupplierRows] /\ buySuppliers'[p] = row
      /\ \A s \in Vendors : s # p => buySuppliers'[s] = buySuppliers[s]
  BY <1>3 DEF BuyInv, Buying!TypeOK
<1>5. Buying!TypeOK'
  BY <1>1, <1>4 DEF BuyInv, Buying!TypeOK
<1>6. AskedOnce' /\ AnswersFit' /\ OrdersFit'
  BY <1>1 DEF BuyInv, AskedOnce, AnswersFit, OrdersFit, Buying!Asked
<1>7. AwardsFit'
  BY <1>1 DEF BuyInv, AwardsFit, Buying!Asked
<1>8. Buying!NamedSuppliersStand'
  <2>1. /\ \A n \in Rfqs : buyRfqs[n].invited \subseteq Vendors
        /\ \A o \in Purchases : buyOrders[o].supplier \in Vendors \cup {Buying!None}
    BY DEF BuyInv, Buying!TypeOK, Buying!RfqRows, Buying!OrderRows
  <2>2. CASE row.live = buySuppliers[p].live
    <3>1. \A s \in Vendors : buySuppliers'[s].live = buySuppliers[s].live
      BY <1>4, <2>2
    <3> QED
      BY <1>1, <2>1, <3>1 DEF BuyInv, Buying!NamedSuppliersStand
  <2>3. CASE Buying!NamedBy(p) = {}
    <3>1. /\ \A n \in Rfqs : p \notin buyRfqs[n].invited
          /\ \A o \in Purchases : buyOrders[o].supplier # p
      BY <2>3 DEF Buying!NamedBy
    <3> QED
      BY <1>1, <1>4, <2>1, <3>1 DEF BuyInv, Buying!NamedSuppliersStand
  <2> QED
    BY <1>3, <2>2, <2>3
<1> QED
  BY <1>5, <1>6, <1>7, <1>8 DEF BuyInv

LEMMA BuyStep == BuyInv /\ [Buying!Next]_(Buying!vars) => BuyInv'
<1> SUFFICES ASSUME BuyInv, [Buying!Next]_(Buying!vars) PROVE BuyInv'
  OBVIOUS
<1>1. ASSUME NEW r \in Requisitions, NEW quantity \in Buying!Quantities, Buying!Raise(r, quantity)
      PROVE  BuyInv'
  <2> DEFINE row == [status |-> "draft", quantity |-> quantity]
  <2>1. row \in Buying!RequisitionRows
    BY BuyConstants DEF Buying!RequisitionRows, Buying!Quantities
  <2>2. /\ row.status # Buying!Free /\ buyRequisitions[r].status = Buying!Free
        /\ buyRequisitions' = [buyRequisitions EXCEPT ![r] = row]
        /\ buyRfqs' = buyRfqs /\ buyResponses' = buyResponses /\ buyOrders' = buyOrders
        /\ buySuppliers' = buySuppliers /\ buyAwarding' = buyAwarding
        /\ buyAnswering' = buyAnswering
    BY <1>1 DEF Buying!Raise, Buying!Free
  <2> HIDE DEF row
  <2> QED
    BY <2>1, <2>2, BuyRequests
<1>2. ASSUME NEW r \in Requisitions,
             NEW status \in {"draft", "pending", "approved", "rejected", "returned"},
             Buying!SetStatus(r, status)
      PROVE  BuyInv'
  <2>1. PICK q \in Buying!RequisitionRows : q = buyRequisitions[r]
    BY DEF BuyInv, Buying!TypeOK
  <2> DEFINE row == [status |-> status, quantity |-> q.quantity]
  <2>2. row \in Buying!RequisitionRows /\ [q EXCEPT !.status = status] = row
    BY DEF Buying!RequisitionRows
  <2>3. row.status = status /\ row.quantity = q.quantity
    OBVIOUS
  <2> HIDE DEF row
  <2>4. /\ row.status # Buying!Free
        /\ buyRequisitions' = [buyRequisitions EXCEPT ![r] = row]
        /\ buyRfqs' = buyRfqs /\ buyResponses' = buyResponses /\ buyOrders' = buyOrders
        /\ buySuppliers' = buySuppliers /\ buyAwarding' = buyAwarding
        /\ buyAnswering' = buyAnswering
    BY <1>2, <2>1, <2>2, <2>3 DEF Buying!SetStatus, Buying!Free
  <2> QED
    BY <2>1, <2>2, <2>4, <2>3, BuyRequests
<1>3. ASSUME NEW r \in Requisitions,
             \/ \E routed \in BOOLEAN : Buying!Submit(r, routed)
             \/ \E outcome \in {"approved", "rejected", "returned"} : Buying!Decide(r, outcome)
      PROVE  \E status \in {"draft", "pending", "approved", "rejected", "returned"} :
               Buying!SetStatus(r, status)
  BY <1>3 DEF Buying!Submit, Buying!Decide
<1>4. CASE \E n \in Rfqs :
             \/ \E r \in Requisitions : \E invited \in SUBSET Vendors \ {{}} :
                  Buying!IssueRfq(n, r, invited)
             \/ Buying!CloseRfq(n)
  BY <1>4, BuyAsks, BuyClosesRfq
<1>5. CASE \E n \in Rfqs : \E p \in Vendors :
             \/ Buying!BeginResponse(n, p)
             \/ \E by \in {"buyer", "portal"} :
                  Buying!CommitResponse(n, p, by) \/ Buying!AbortResponse(n, p, by)
  BY <1>5, BuyAnswers
<1>6. CASE \E n \in Rfqs : \E p \in Vendors : \E quantity \in Buying!Quantities :
             \E override \in BOOLEAN : Buying!BeginAward(n, p, quantity, override)
  BY <1>6, BuyBegins
<1>7. CASE \E a \in buyAwarding : Buying!CommitAward(a) \/ Buying!AbortAward(a)
  BY <1>7, BuyAwards, BuyAborts
<1>8. CASE \E o \in Purchases :
             \/ \E status \in {"released", "refused"} : Buying!EndApproval(o, status)
             \/ \E quantity \in Buying!Quantities : Buying!Amend(o, quantity)
  BY <1>8, BuyDecides, BuyAmends
<1>9. CASE \E p \in Vendors :
             Buying!RetireSupplier(p) \/ \E c \in Contacts : Buying!AddPrimary(p, c)
  BY <1>9, BuyKeepsSuppliers
<1>10. CASE UNCHANGED Buying!vars
  <2>1. /\ buyRequisitions' = buyRequisitions /\ buyRfqs' = buyRfqs
        /\ buyResponses' = buyResponses /\ buyOrders' = buyOrders
        /\ buySuppliers' = buySuppliers /\ buyAwarding' = buyAwarding
        /\ buyAnswering' = buyAnswering
    BY <1>10 DEF Buying!vars
  <2> QED
    BY <2>1 DEF BuyInv, Buying!TypeOK, AskedOnce, AnswersFit, AwardsFit, OrdersFit,
       Buying!NamedSuppliersStand, Buying!Asked
<1> QED
  BY <1>1, <1>2, <1>3, <1>4, <1>5, <1>6, <1>7, <1>8, <1>9, <1>10 DEF Buying!Next

(* ---------------------------------- holds --------------------------------- *)

LEMMA HoldConstants == Practices \subseteq BOOLEAN /\ MaxRuns \in Nat /\ MaxHolds \in Nat
BY Parameters DEF Holding!PracticeAssumption, Holding!RunBoundAssumption

(* No more runs than the bound, so that a run that was read has a number.      *)
RunsAreBounded == \A i \in Invoices : Len(holdRuns[i]) <= MaxRuns

(* Two inserted holds of an invoice are the same row of the same session.      *)
OneInserted ==
  \A s, t \in Holders : \A p \in holdTx[s].made, q \in holdTx[t].made :
    p[1] = q[1] => s = t /\ p = q

(* Nobody inserts a hold of an invoice that has one.                           *)
InsertedIsNotHeld ==
  \A s \in Holders : \A p \in holdTx[s].made : Holding!OpenHolds(p[1]) = {}

OneHeld == \A i \in Invoices : \A k, m \in Holding!OpenHolds(i) : k = m

HoldInv == Holding!TypeOK /\ RunsAreBounded /\ OneInserted /\ InsertedIsNotHeld /\ OneHeld

(* What the invariant says of the holds themselves.                            *)
LEMMA HoldInvSuffices == HoldInv => Holding!OneOpenHold
<1> SUFFICES ASSUME HoldInv, NEW i \in Invoices
             PROVE  Cardinality(Holding!OpenHolds(i)) + (IF Holding!Inserted(i) THEN 1
                 ELSE 0) <= 1
  BY DEF HoldInv, Holding!OneOpenHold, Holding!Cardinality, Cardinality
<1> USE DEF HoldInv
<1>1. CASE Holding!OpenHolds(i) = {}
  <2>1. Cardinality(Holding!OpenHolds(i)) = 0
    BY <1>1, FS_EmptySet
  <2> QED
    BY <2>1
<1>2. CASE Holding!OpenHolds(i) # {}
  <2>1. PICK k \in Holding!OpenHolds(i) : Holding!OpenHolds(i) = {k}
    BY <1>2 DEF OneHeld
  <2>2. Cardinality(Holding!OpenHolds(i)) = 1
    <3>1. Cardinality({k}) = 1
      BY FS_Singleton
    <3> QED
      BY <2>1, <3>1
  <2>3. ~Holding!Inserted(i)
    BY <1>2 DEF Holding!Inserted, InsertedIsNotHeld
  <2> QED
    BY <2>2, <2>3
<1> QED
  BY <1>1, <1>2

LEMMA HoldInit == Holding!Init => HoldInv
<1> SUFFICES ASSUME Holding!Init PROVE HoldInv
  OBVIOUS
<1>1. Holding!TypeOK
  <2>1. Holding!Closed \in Holding!Request
    BY DEF Holding!Closed, Holding!Request, Holding!None, Holding!NoPair
  <2> QED
    BY <2>1, HoldConstants DEF Holding!Init, Holding!TypeOK
<1>2. RunsAreBounded
  BY HoldConstants DEF Holding!Init, RunsAreBounded
<1>3. OneInserted /\ InsertedIsNotHeld
  BY DEF Holding!Init, OneInserted, InsertedIsNotHeld, Holding!Closed
<1>4. OneHeld
  BY DEF Holding!Init, OneHeld, Holding!OpenHolds
<1> QED
  BY <1>1, <1>2, <1>3, <1>4 DEF HoldInv

(* A request that goes on and has inserted nothing new.                        *)
LEMMA GoInv ==
  ASSUME HoldInv, NEW s \in Holders, NEW op \in {Holding!None, "sweep", "hold"},
         NEW todo \in SUBSET Holding!Pairs, NEW at \in Holding!Pairs \cup {Holding!NoPair},
         NEW made, made \subseteq holdTx[s].made,
         Holding!Go(s, op, todo, at, made), UNCHANGED <<holdRuns, holdHolds, holdAnytime>>
  PROVE  HoldInv'
<1> USE DEF HoldInv
<1> DEFINE r == [op |-> op, todo |-> todo, at |-> at, made |-> made]
<1>1. r \in Holding!Request /\ r.made = made
  BY DEF Holding!TypeOK, Holding!Request
<1>2. holdTx' = [holdTx EXCEPT ![s] = r]
  BY DEF Holding!Go
<1> HIDE DEF r
<1>3. Holding!TypeOK'
  BY <1>1, <1>2 DEF Holding!TypeOK
<1>4. \A t \in Holders : holdTx'[t].made \subseteq holdTx[t].made
  BY <1>1, <1>2 DEF Holding!TypeOK
<1>5. OneInserted'
  BY <1>4 DEF OneInserted
<1>6. InsertedIsNotHeld'
  BY <1>4 DEF InsertedIsNotHeld, Holding!OpenHolds
<1>7. RunsAreBounded' /\ OneHeld'
  BY DEF RunsAreBounded, OneHeld, Holding!OpenHolds
<1> QED
  BY <1>3, <1>5, <1>6, <1>7

LEMMA MatchInv ==
  ASSUME HoldInv, NEW i \in Invoices, NEW verdict \in Holding!Verdicts,
      Holding!Match(i, verdict)
  PROVE  HoldInv'
<1> USE DEF HoldInv
<1>1. holdRuns[i] \in Seq(Holding!Verdicts) /\ Len(holdRuns[i]) < MaxRuns
  BY DEF Holding!TypeOK, Holding!Match, Holding!Latest
<1>2. holdRuns' = [holdRuns EXCEPT ![i] = Append(holdRuns[i], verdict)]
  BY DEF Holding!Match
<1>3. Append(holdRuns[i], verdict) \in Seq(Holding!Verdicts)
        /\ Len(Append(holdRuns[i], verdict)) <= MaxRuns
  BY <1>1, HoldConstants
<1>4. Holding!TypeOK'
  BY <1>2, <1>3 DEF Holding!TypeOK, Holding!Match
<1>5. RunsAreBounded'
  BY <1>2, <1>3 DEF RunsAreBounded, Holding!TypeOK
<1>6. OneInserted' /\ InsertedIsNotHeld' /\ OneHeld'
  BY DEF Holding!Match, OneInserted, InsertedIsNotHeld, OneHeld, Holding!OpenHolds
<1> QED
  BY <1>4, <1>5, <1>6

(* Only exceptions that have a number are swept or held.                       *)
LEMMA RunsHaveNumbers ==
  ASSUME HoldInv, NEW i \in Invoices, Holding!Latest(i) > 0
  PROVE  <<i, Holding!Latest(i)>> \in Holding!Pairs
<1>1. Holding!Latest(i) \in Nat /\ Holding!Latest(i) <= MaxRuns
  BY DEF HoldInv, Holding!TypeOK, RunsAreBounded, Holding!Latest
<1> QED
  BY <1>1, HoldConstants DEF Holding!Pairs

LEMMA StartSweepInv == ASSUME HoldInv, NEW s \in Holders, Holding!StartSweep(s) PROVE HoldInv'
<1> DEFINE todo == {<<i, Holding!Latest(i)>> : i \in {j \in Invoices : Holding!Fails(j)}}
<1>1. todo \in SUBSET Holding!Pairs
  BY RunsHaveNumbers DEF Holding!Fails
<1>2. Holding!Go(s, "sweep", todo, Holding!NoPair, {})
  BY DEF Holding!StartSweep
<1> HIDE DEF todo
<1> QED
  BY <1>1, <1>2, GoInv DEF Holding!StartSweep

LEMMA StartHoldInv ==
  ASSUME HoldInv, NEW s \in Holders, NEW i \in Invoices, Holding!StartHold(s, i) PROVE HoldInv'
<1>1. <<i, Holding!Latest(i)>> \in Holding!Pairs
  BY RunsHaveNumbers DEF Holding!StartHold, Holding!Fails
<1> QED
  BY <1>1, GoInv DEF Holding!StartHold

LEMMA SkipTakeInv ==
  ASSUME HoldInv, NEW s \in Holders, NEW pair \in Holding!Pairs,
      Holding!Skip(s, pair) \/ Holding!Take(s, pair)
  PROVE  HoldInv'
<1>1. holdTx[s].todo \ {pair} \in SUBSET Holding!Pairs
  BY DEF HoldInv, Holding!TypeOK, Holding!Request
<1> QED
  BY <1>1, GoInv DEF Holding!Skip, Holding!Take

LEMMA RefuseFailInv ==
  ASSUME HoldInv, NEW s \in Holders, Holding!Refuse(s) \/ Holding!Fail(s) PROVE HoldInv'
BY GoInv DEF Holding!Refuse, Holding!Fail

(* The index lets a hold in when none is open and nobody else inserts one.     *)
LEMMA InsertInv == ASSUME HoldInv, NEW s \in Holders, Holding!Insert(s) PROVE HoldInv'
<1> USE DEF HoldInv
<1> DEFINE pair == holdTx[s].at
           r == [op |-> holdTx[s].op, todo |-> holdTx[s].todo, at |-> Holding!NoPair,
                 made |-> holdTx[s].made \cup {pair}]
<1>1. pair \in Holding!Pairs /\ ~Holding!Held(pair[1]) /\ ~Holding!Inserted(pair[1])
  BY DEF Holding!Insert, Holding!TypeOK, Holding!Request
<1>2. r \in Holding!Request /\ r.made = holdTx[s].made \cup {pair}
  BY <1>1 DEF Holding!TypeOK, Holding!Request
<1>3. holdTx' = [holdTx EXCEPT ![s] = r] /\ UNCHANGED <<holdRuns, holdHolds, holdAnytime>>
  BY DEF Holding!Insert, Holding!Go
<1> HIDE DEF pair, r
<1>4. Holding!TypeOK'
  BY <1>2, <1>3 DEF Holding!TypeOK
<1>5. /\ holdTx'[s].made = holdTx[s].made \cup {pair}
      /\ \A t \in Holders : t # s => holdTx'[t].made = holdTx[t].made
  BY <1>2, <1>3 DEF Holding!TypeOK
<1>6. \A t \in Holders : \A p \in holdTx[t].made : p[1] # pair[1]
  BY <1>1 DEF Holding!Inserted
<1>7. OneInserted'
  <2> SUFFICES ASSUME NEW t \in Holders, NEW u \in Holders,
                      NEW p \in holdTx'[t].made, NEW q \in holdTx'[u].made, p[1] = q[1]
               PROVE  t = u /\ p = q
    BY DEF OneInserted
  <2>1. CASE p \in holdTx[t].made /\ q \in holdTx[u].made
    BY <2>1 DEF OneInserted
  <2>2. CASE p \notin holdTx[t].made \/ q \notin holdTx[u].made
    BY <1>5, <1>6, <2>2
  <2> QED
    BY <2>1, <2>2
<1>8. InsertedIsNotHeld'
  <2> SUFFICES ASSUME NEW t \in Holders, NEW p \in holdTx'[t].made
               PROVE  Holding!OpenHolds(p[1])' = {}
    BY DEF InsertedIsNotHeld
  <2>1. Holding!OpenHolds(p[1])' = Holding!OpenHolds(p[1])
    BY <1>3 DEF Holding!OpenHolds
  <2>2. p \in holdTx[t].made \/ p = pair
    BY <1>5
  <2> QED
    BY <1>1, <2>1, <2>2 DEF InsertedIsNotHeld, Holding!Held
<1>9. RunsAreBounded' /\ OneHeld'
  BY <1>3 DEF RunsAreBounded, OneHeld, Holding!OpenHolds
<1> QED
  BY <1>4, <1>7, <1>8, <1>9

(* The holds a commit adds are on invoices without one, one on each.           *)
LEMMA CommitInv == ASSUME HoldInv, NEW s \in Holders, Holding!Commit(s) PROVE HoldInv'
<1> USE DEF HoldInv
<1> DEFINE Made(i) == \E pair \in holdTx[s].made : pair[1] = i
           row(i) == [run |-> (CHOOSE pair \in holdTx[s].made : pair[1] = i)[2], state |-> "held"]
<1>1. holdHolds' = [i \in Invoices |-> IF Made(i) THEN Append(holdHolds[i], row(i))
        ELSE holdHolds[i]]
  BY DEF Holding!Commit
<1>2. \A i \in Invoices : Made(i) => row(i) \in [run : 1..MaxRuns, state : {"held", "released"}]
  <2> SUFFICES ASSUME NEW i \in Invoices, Made(i) PROVE row(i).run \in 1..MaxRuns
    OBVIOUS
  <2>1. (CHOOSE pair \in holdTx[s].made : pair[1] = i) \in Holding!Pairs
    BY DEF Holding!TypeOK, Holding!Request
  <2> QED
    BY <2>1 DEF Holding!Pairs
<1>3. \A i \in Invoices : holdHolds[i] \in Seq([run : 1..MaxRuns, state : {"held", "released"}])
  BY DEF Holding!TypeOK
<1> HIDE DEF row
<1>4. Holding!Go(s, Holding!None, {}, Holding!NoPair, {}) /\ UNCHANGED <<holdRuns, holdAnytime>>
  BY DEF Holding!Commit
<1>5. /\ holdTx' \in [Holders -> Holding!Request] /\ holdTx'[s].made = {}
      /\ \A t \in Holders : t # s => holdTx'[t].made = holdTx[t].made
  <2>1. [op |-> Holding!None, todo |-> {}, at |-> Holding!NoPair, made |-> {}] \in Holding!Request
    BY DEF Holding!Request
  <2> QED
    BY <1>4, <2>1 DEF Holding!Go, Holding!TypeOK
<1>6. Holding!TypeOK'
  <2> DEFINE R == [run : 1..MaxRuns, state : {"held", "released"}]
  <2>1. ASSUME NEW i \in Invoices PROVE holdHolds'[i] \in Seq(R)
    <3>1. Made(i) => row(i) \in R
      BY <1>2
    <3>2. holdHolds[i] \in Seq(R)
      BY <1>3
    <3> HIDE DEF R, Made
    <3>3. holdHolds'[i] = IF Made(i) THEN Append(holdHolds[i], row(i)) ELSE holdHolds[i]
      BY <1>1
    <3> QED
      BY <3>1, <3>2, <3>3
  <2>2. holdHolds' \in [Invoices -> Seq([run : 1..MaxRuns, state : {"held", "released"}])]
    BY <1>1, <2>1
  <2> QED
    BY <1>4, <1>5, <2>2 DEF Holding!TypeOK
<1>7. RunsAreBounded'
  BY <1>4 DEF RunsAreBounded
<1>8. OneInserted'
  BY <1>5 DEF OneInserted
<1>9. ASSUME NEW i \in Invoices, ~Made(i) PROVE Holding!OpenHolds(i)' = Holding!OpenHolds(i)
  BY <1>1, <1>9 DEF Holding!OpenHolds
<1>10. ASSUME NEW i \in Invoices, Made(i) PROVE \A k, m \in Holding!OpenHolds(i)' : k = m
  <2>1. Holding!OpenHolds(i) = {}
    BY <1>10 DEF InsertedIsNotHeld
  <2>2. /\ Len(holdHolds[i]) \in Nat /\ Len(holdHolds'[i]) = Len(holdHolds[i]) + 1
        /\ \A k \in 1..Len(holdHolds[i]) : holdHolds'[i][k] = holdHolds[i][k]
    BY <1>1, <1>2, <1>3, <1>10
  <2>3. \A k \in Holding!OpenHolds(i)' : k = Len(holdHolds[i]) + 1
    BY <2>1, <2>2 DEF Holding!OpenHolds
  <2> QED
    BY <2>3
<1>11. OneHeld'
  BY <1>9, <1>10 DEF OneHeld
<1>12. InsertedIsNotHeld'
  <2> SUFFICES ASSUME NEW t \in Holders, NEW p \in holdTx'[t].made
               PROVE  Holding!OpenHolds(p[1])' = {}
    BY DEF InsertedIsNotHeld
  <2>1. t # s /\ p \in holdTx[t].made
    BY <1>5
  <2>2. p[1] \in Invoices /\ ~Made(p[1])
    BY <2>1 DEF Holding!TypeOK, Holding!Request, Holding!Pairs, OneInserted
  <2> QED
    BY <1>9, <2>1, <2>2 DEF InsertedIsNotHeld
<1> QED
  BY <1>6, <1>7, <1>8, <1>11, <1>12

(* A release leaves an invoice with fewer open holds.                          *)
LEMMA ReleaseInv ==
  ASSUME HoldInv, NEW i \in Invoices, NEW k \in 1..Len(holdHolds[i]),
      Holding!Release(i, k) PROVE HoldInv'
<1> USE DEF HoldInv
<1> DEFINE r == [run |-> holdHolds[i][k].run, state |-> "released"]
<1>1. holdHolds[i] \in Seq([run : 1..MaxRuns, state : {"held", "released"}])
  BY DEF Holding!TypeOK
<1>2. holdHolds' = [holdHolds EXCEPT ![i] = [holdHolds[i] EXCEPT ![k] = r]]
  BY DEF Holding!Release
<1>3. r \in [run : 1..MaxRuns, state : {"held", "released"}] /\ r.state # "held"
  <2>1. holdHolds[i][k] \in [run : 1..MaxRuns, state : {"held", "released"}]
    <3> DEFINE R == [run : 1..MaxRuns, state : {"held", "released"}]
    <3>1. holdHolds[i] \in Seq(R)
      BY <1>1
    <3> HIDE DEF R
    <3>2. \A n \in 1..Len(holdHolds[i]) : holdHolds[i][n] \in R
      BY <3>1
    <3> QED
      BY <3>2 DEF R
  <2> QED
    BY <2>1
<1> HIDE DEF r
<1>4. /\ [holdHolds[i] EXCEPT ![k] = r] \in Seq([run : 1..MaxRuns, state : {"held", "released"}])
      /\ Len([holdHolds[i] EXCEPT ![k] = r]) = Len(holdHolds[i])
      /\ [holdHolds[i] EXCEPT ![k] = r][k] = r
      /\ \A m \in 1..Len(holdHolds[i]) : m # k
          => [holdHolds[i] EXCEPT ![k] = r][m] = holdHolds[i][m]
  BY <1>1, <1>3
<1>5. Holding!TypeOK'
  BY <1>2, <1>4 DEF Holding!TypeOK, Holding!Release
<1>6. holdHolds'[i] = [holdHolds[i] EXCEPT ![k] = r]
        /\ \A j \in Invoices : j # i => holdHolds'[j] = holdHolds[j]
  BY <1>2 DEF Holding!TypeOK
<1>7. \A j \in Invoices : Holding!OpenHolds(j)' \subseteq Holding!OpenHolds(j)
  <2>1. Holding!OpenHolds(i)' \subseteq Holding!OpenHolds(i)
    BY <1>3, <1>4, <1>6 DEF Holding!OpenHolds
  <2>2. \A j \in Invoices : j # i => Holding!OpenHolds(j)' = Holding!OpenHolds(j)
    BY <1>6 DEF Holding!OpenHolds
  <2> QED
    BY <2>1, <2>2
<1>8. OneHeld'
  BY <1>7 DEF OneHeld
<1>9. InsertedIsNotHeld'
  <2> SUFFICES ASSUME NEW t \in Holders, NEW p \in holdTx[t].made
               PROVE  Holding!OpenHolds(p[1])' = {}
    BY DEF InsertedIsNotHeld, Holding!Release
  <2>1. p[1] \in Invoices
    BY DEF Holding!TypeOK, Holding!Request, Holding!Pairs
  <2> QED
    BY <1>7, <2>1 DEF InsertedIsNotHeld
<1>10. RunsAreBounded' /\ OneInserted'
  BY DEF Holding!Release, RunsAreBounded, OneInserted
<1> QED
  BY <1>5, <1>8, <1>9, <1>10

LEMMA HoldStep == HoldInv /\ [Holding!Next]_(Holding!vars) => HoldInv'
<1> SUFFICES ASSUME HoldInv, [Holding!Next]_(Holding!vars) PROVE HoldInv'
  OBVIOUS
<1>1. ASSUME NEW i \in Invoices, NEW verdict \in Holding!Verdicts,
        Holding!Match(i, verdict) PROVE HoldInv'
  BY <1>1, MatchInv
<1>2. ASSUME NEW i \in Invoices, NEW k \in 1..Len(holdHolds[i]),
        Holding!Release(i, k) PROVE HoldInv'
  BY <1>2, ReleaseInv
<1>3. ASSUME NEW s \in Holders, Holding!StartSweep(s) \/ \E i \in Invoices : Holding!StartHold(s, i)
      PROVE  HoldInv'
  BY <1>3, StartSweepInv, StartHoldInv
<1>4. ASSUME NEW s \in Holders, Holding!Step(s) PROVE HoldInv'
  BY <1>4, SkipTakeInv, InsertInv, RefuseFailInv, CommitInv DEF Holding!Step
<1>5. ASSUME NEW s \in Holders, Holding!Fail(s) PROVE HoldInv'
  BY <1>5, RefuseFailInv
<1>6. CASE UNCHANGED Holding!vars
  <2>1. holdRuns' = holdRuns /\ holdHolds' = holdHolds /\ holdTx' = holdTx
          /\ holdAnytime' = holdAnytime
    BY <1>6 DEF Holding!vars
  <2>2. Holding!TypeOK'
    BY <2>1 DEF HoldInv, Holding!TypeOK
  <2>4. RunsAreBounded' /\ OneInserted'
    BY <2>1 DEF HoldInv, RunsAreBounded, OneInserted
  <2>3. InsertedIsNotHeld' /\ OneHeld'
    BY <2>1 DEF HoldInv, InsertedIsNotHeld, OneHeld, Holding!OpenHolds
  <2> QED
    BY <2>2, <2>3, <2>4 DEF HoldInv
<1>7. CASE Holding!Work
  <2>1. ASSUME NEW i \in Invoices, \E verdict \in Holding!Verdicts : Holding!Match(i, verdict) PROVE HoldInv'
    BY <1>1, <2>1
  <2>2. ASSUME NEW i \in Invoices, \E k \in 1..Len(holdHolds[i]) : Holding!Release(i, k) PROVE HoldInv'
    BY <1>2, <2>2
  <2> QED
    BY <1>3, <1>4, <1>7, <2>1, <2>2 DEF Holding!Work
<1> QED
  BY <1>5, <1>6, <1>7 DEF Holding!Next

(* ---------------------------------- counts -------------------------------- *)

LEMMA CountConstants ==
  UnitWorth \in Nat /\ Threshold \in Nat /\ MaxFound \in Nat
BY Parameters DEF Counting!CostAssumption, Counting!BoundAssumption

(* What an open posting read is still so: its count is open, and its value was *)
(* approved or needs no approval.                                              *)
Posts(s) ==
  LET c == countTx[s].count IN
  /\ c \in Counts /\ Counting!Open(c)
  /\ countTx[s].variance = countCount[c].found - countCount[c].system
  /\ \/ countRequest[c].state = "approved"
     \/ Counting!Size(Counting!Value(countTx[s].variance)) < Threshold
  /\ (countTx[s].at = "commit" => countTx[s].value = Counting!Value(countTx[s].variance))

(* While a count is open the bin holds what its snapshot says.                 *)
CountInv ==
  /\ Counting!TypeOK
  /\ \A c \in Counts : \A d \in Counts : Counting!Open(c) /\ Counting!Open(d) => c = d
  /\ \A c \in Counts : Counting!Open(c) => countCount[c].system = countHeld
  /\ \A s \in Clerks : countTx[s].at # "idle" => Posts(s)

LEMMA CountsHaveValues ==
  ASSUME NEW v \in Int
  PROVE  Counting!Value(v) \in Int /\ Counting!Size(v) \in Nat
BY CountConstants DEF Counting!Value, Counting!UnitCost, Counting!Size

LEMMA CountStart == Counting!Init => CountInv
BY CountConstants
   DEF Counting!Init, CountInv, Counting!TypeOK, Counting!Open, Counting!Idle, Counting!None,
       Counting!NotCounted

LEMMA CountMoves == ASSUME CountInv, NEW n \in Int, Counting!Move(n) PROVE CountInv'
<1>1. /\ countCount' = countCount /\ countRequest' = countRequest /\ countPosts' = countPosts
      /\ countTx' = countTx /\ countHeld + n \in 0..MaxFound /\ countHeld' = countHeld + n
      /\ \A c \in Counts : ~Counting!Open(c)
  BY DEF Counting!Move, Counting!Free
<1>2. Counting!TypeOK'
  BY <1>1, CountConstants DEF CountInv, Counting!TypeOK
<1>3. \A c \in Counts : ~Counting!Open(c)'
  BY <1>1 DEF Counting!Open
<1>4. \A s \in Clerks : countTx[s].at = "idle"
  BY <1>1 DEF CountInv, Posts
<1> QED
  BY <1>1, <1>2, <1>3, <1>4 DEF CountInv

LEMMA CountStarts == ASSUME CountInv, NEW c \in Counts, Counting!Start(c) PROVE CountInv'
<1> DEFINE r == [state |-> "open", system |-> countHeld, found |-> Counting!NotCounted]
<1>1. /\ countCount' = [countCount EXCEPT ![c] = r]
      /\ countRequest' = countRequest /\ countPosts' = countPosts
      /\ countTx' = countTx /\ countHeld' = countHeld
      /\ \A d \in Counts : ~Counting!Open(d)
  BY DEF Counting!Start, Counting!Free
<1>2. r \in [state : {"absent", "open", "posted"}, system : Int,
             found : Counting!NotCounted..MaxFound] /\ r.system = countHeld
  BY CountConstants DEF CountInv, Counting!TypeOK, Counting!NotCounted
<1> HIDE DEF r
<1>3. Counting!TypeOK' /\ countCount'[c] = r /\ \A d \in Counts : d # c => countCount'[d] = countCount[d]
  BY <1>1, <1>2 DEF CountInv, Counting!TypeOK
<1>4. \A d \in Counts : Counting!Open(d)' => d = c
  BY <1>1, <1>3 DEF Counting!Open
<1>5. \A s \in Clerks : countTx[s].at = "idle"
  BY <1>1 DEF CountInv, Posts
<1> QED
  BY <1>1, <1>2, <1>3, <1>4, <1>5 DEF CountInv

LEMMA CountRecords ==
  ASSUME CountInv, NEW c \in Counts, NEW found \in 0..MaxFound, Counting!Record(c, found)
  PROVE  CountInv'
<1>1. /\ countCount' = [countCount EXCEPT ![c].found = found]
      /\ countRequest' = countRequest /\ countPosts' = countPosts
      /\ countTx' = countTx /\ countHeld' = countHeld
      /\ \A s \in Clerks : countTx[s].count # c
  BY DEF Counting!Record
<1>2. PICK r : r = countCount[c] /\ r \in [state : {"absent", "open", "posted"}, system : Int,
                                           found : Counting!NotCounted..MaxFound]
  BY DEF CountInv, Counting!TypeOK
<1>3. countCount' = [countCount EXCEPT ![c] = [state |-> r.state, system |-> r.system, found |-> found]]
  <2>1. [r EXCEPT !.found = found] = [state |-> r.state, system |-> r.system, found |-> found]
    BY <1>2
  <2>2. countCount' = [countCount EXCEPT ![c] = [r EXCEPT !.found = found]]
    BY <1>1, <1>2
  <2> QED
    BY <2>1, <2>2
<1>4. found \in Counting!NotCounted..MaxFound
  BY CountConstants DEF Counting!NotCounted
<1>5. Counting!TypeOK'
  BY <1>1, <1>2, <1>3, <1>4 DEF CountInv, Counting!TypeOK
<1>6. /\ \A d \in Counts : countCount'[d].state = countCount[d].state
                           /\ countCount'[d].system = countCount[d].system
      /\ \A d \in Counts : d # c => countCount'[d] = countCount[d]
  BY <1>2, <1>3 DEF CountInv, Counting!TypeOK
<1>7. \A d \in Counts : Counting!Open(d)' = Counting!Open(d)
  BY <1>6 DEF Counting!Open
<1>8. ASSUME NEW s \in Clerks, countTx[s].at # "idle" PROVE Posts(s)'
  BY <1>1, <1>6, <1>7, <1>8 DEF CountInv, Posts, Counting!Value, Counting!UnitCost
<1> QED
  BY <1>1, <1>5, <1>6, <1>7, <1>8 DEF CountInv

(* A request changes; no posting loses its approval.                           *)
LEMMA CountRequests ==
  ASSUME CountInv, NEW c \in Counts, Counting!Route(c) \/ Counting!Approve(c) PROVE CountInv'
<1>1. /\ countCount' = countCount /\ countPosts' = countPosts
      /\ countTx' = countTx /\ countHeld' = countHeld
  BY DEF Counting!Route, Counting!Approve
<1>2. PICK r \in [state : {Counting!None, "pending", "approved"}, amount : Nat] :
        /\ countRequest' = [countRequest EXCEPT ![c] = r]
        /\ (countRequest[c].state = "approved" => r.state = "approved")
  <2>1. CASE Counting!Route(c)
    <3>1. Counting!Variance(c) \in Int
      BY CountConstants DEF CountInv, Counting!TypeOK, Counting!Variance, Counting!NotCounted
    <3>2. Counting!Size(Counting!Value(Counting!Variance(c))) \in Nat
      BY <3>1, CountsHaveValues
    <3> QED
      BY <2>1, <3>2 DEF Counting!Route, Counting!None
  <2>2. CASE Counting!Approve(c)
    <3>1. PICK q \in [state : {Counting!None, "pending", "approved"}, amount : Nat] :
            q = countRequest[c]
      BY DEF CountInv, Counting!TypeOK
    <3>2. countRequest' = [countRequest EXCEPT ![c] = [state |-> "approved", amount |-> q.amount]]
      <4>1. [q EXCEPT !.state = "approved"] = [state |-> "approved", amount |-> q.amount]
        BY <3>1
      <4>2. countRequest' = [countRequest EXCEPT ![c] = [q EXCEPT !.state = "approved"]]
        BY <2>2, <3>1 DEF Counting!Approve
      <4> QED
        BY <4>1, <4>2
    <3> QED
      BY <3>1, <3>2
  <2> QED
    BY <2>1, <2>2
<1>3. Counting!TypeOK'
  BY <1>1, <1>2 DEF CountInv, Counting!TypeOK
<1>4. \A d \in Counts : countRequest[d].state = "approved" => countRequest'[d].state = "approved"
  BY <1>2 DEF CountInv, Counting!TypeOK
<1>5. \A d \in Counts : Counting!Open(d)' = Counting!Open(d)
  BY <1>1 DEF Counting!Open
<1>6. ASSUME NEW s \in Clerks, countTx[s].at # "idle" PROVE Posts(s)'
  BY <1>1, <1>4, <1>5, <1>6 DEF CountInv, Posts, Counting!Value, Counting!UnitCost
<1> QED
  BY <1>1, <1>3, <1>5, <1>6 DEF CountInv

LEMMA ValuedRow ==
  ASSUME NEW q \in [at : {"idle", "value", "commit", "refused"}, count : Counts \cup {Counting!None},
                    variance : Int, value : Int], NEW v, NEW a
  PROVE  [q EXCEPT !.value = v, !.at = a]
           = [at |-> a, count |-> q.count, variance |-> q.variance, value |-> v]
<1>1. PICK m : m = [at |-> q.at, count |-> q.count, variance |-> q.variance, value |-> v]
  OBVIOUS
<1>2. [q EXCEPT !.value = v] = m
  BY <1>1
<1>3. [m EXCEPT !.at = a]
        = [at |-> a, count |-> q.count, variance |-> q.variance, value |-> v]
  BY <1>1
<1>4. [q EXCEPT !.value = v, !.at = a] = [[q EXCEPT !.value = v] EXCEPT !.at = a]
  OBVIOUS
<1> QED
  BY <1>2, <1>3, <1>4

(* A posting goes on.                                                          *)
LEMMA CountGoes ==
  ASSUME CountInv, NEW s \in Clerks,
         NEW r \in [at : {"idle", "value", "commit", "refused"}, count : Counts \cup {Counting!None},
                    variance : Int, value : Int],
         countTx' = [countTx EXCEPT ![s] = r], countCount' = countCount,
         countRequest' = countRequest, countPosts' = countPosts, countHeld' = countHeld,
         r.at # "idle" => Posts(s)'
  PROVE  CountInv'
<1>1. Counting!TypeOK'
  BY DEF CountInv, Counting!TypeOK
<1>2. countTx'[s] = r /\ \A t \in Clerks : t # s => countTx'[t] = countTx[t]
  BY DEF CountInv, Counting!TypeOK
<1>3. \A d \in Counts : Counting!Open(d)' = Counting!Open(d)
  BY DEF Counting!Open
<1>4. ASSUME NEW t \in Clerks, t # s, countTx[t].at # "idle" PROVE Posts(t)'
  BY <1>2, <1>3, <1>4 DEF CountInv, Posts, Counting!Value, Counting!UnitCost
<1>5. \A t \in Clerks : countTx'[t].at # "idle" => Posts(t)'
  BY <1>2, <1>4
<1> QED
  BY <1>1, <1>3, <1>5 DEF CountInv

LEMMA CountBegins ==
  ASSUME CountInv, NEW s \in Clerks, NEW c \in Counts, Counting!Begin(s, c) PROVE CountInv'
<1> DEFINE r == [at |-> "value", count |-> c, variance |-> Counting!Variance(c), value |-> 0]
<1>1. /\ countTx' = [countTx EXCEPT ![s] = r]
      /\ countCount' = countCount /\ countRequest' = countRequest /\ countPosts' = countPosts
      /\ countHeld' = countHeld /\ Counting!Open(c)
      /\ countRequest[c].state = "approved"
         \/ Counting!Size(Counting!Value(Counting!Variance(c))) < Threshold
  BY DEF Counting!Begin, Counting!Takes, Counting!Counted
<1>2. Counting!Variance(c) \in Int
  BY CountConstants DEF CountInv, Counting!TypeOK, Counting!Variance, Counting!NotCounted
<1>3. r \in [at : {"idle", "value", "commit", "refused"}, count : Counts \cup {Counting!None},
             variance : Int, value : Int] /\ r.at = "value" /\ r.count = c
      /\ r.variance = Counting!Variance(c)
  BY <1>2
<1> HIDE DEF r
<1>4. countTx'[s] = r
  BY <1>1 DEF CountInv, Counting!TypeOK
<1>5. Posts(s)'
  BY <1>1, <1>3, <1>4 DEF Posts, Counting!Variance, Counting!Open, Counting!Value, Counting!UnitCost
<1> QED
  BY <1>1, <1>3, <1>5, CountGoes

LEMMA CountValues == ASSUME CountInv, NEW s \in Clerks, Counting!ValueLine(s) PROVE CountInv'
<1>1. PICK q \in [at : {"idle", "value", "commit", "refused"}, count : Counts \cup {Counting!None},
                  variance : Int, value : Int] : q = countTx[s]
  BY DEF CountInv, Counting!TypeOK
<1>2. PICK r \in [at : {"idle", "value", "commit", "refused"}, count : Counts \cup {Counting!None},
                  variance : Int, value : Int] :
        /\ countTx' = [countTx EXCEPT ![s] = r]
        /\ r.count = q.count /\ r.variance = q.variance /\ r.value = Counting!Value(q.variance)
        /\ r.at \in {"refused", "commit"}
  <2> DEFINE v == Counting!Value(q.variance)
             a == IF q.variance # 0 /\ v = 0 THEN "refused" ELSE "commit"
             r == [at |-> a, count |-> q.count, variance |-> q.variance, value |-> v]
  <2>1. v \in Int
    BY CountsHaveValues
  <2>2. countTx' = [countTx EXCEPT ![s] = [q EXCEPT !.value = v, !.at = a]]
    BY <1>1 DEF Counting!ValueLine
  <2>3. [q EXCEPT !.value = v, !.at = a] = r
    <3> HIDE DEF v, a
    <3> QED
      BY <1>1, ValuedRow
  <2>4. /\ r \in [at : {"idle", "value", "commit", "refused"}, count : Counts \cup {Counting!None},
                  variance : Int, value : Int]
        /\ r.count = q.count /\ r.variance = q.variance /\ r.value = v
        /\ r.at \in {"refused", "commit"}
    BY <1>1, <2>1
  <2> QED
    BY <2>2, <2>3, <2>4
<1>3. /\ countCount' = countCount /\ countRequest' = countRequest /\ countPosts' = countPosts
      /\ countHeld' = countHeld /\ q.at = "value"
  BY <1>1 DEF Counting!ValueLine
<1>4. countTx'[s] = r
  BY <1>2 DEF CountInv, Counting!TypeOK
<1>5. Posts(s)
  BY <1>1, <1>3 DEF CountInv
<1>6. Posts(s)'
  BY <1>1, <1>2, <1>3, <1>4, <1>5 DEF Posts, Counting!Open, Counting!Value, Counting!UnitCost
<1> QED
  BY <1>2, <1>3, <1>6, CountGoes

LEMMA CountAborts == ASSUME CountInv, NEW s \in Clerks, Counting!Abort(s) PROVE CountInv'
<1>1. Counting!Idle \in [at : {"idle", "value", "commit", "refused"},
                         count : Counts \cup {Counting!None}, variance : Int, value : Int]
      /\ Counting!Idle.at = "idle"
  BY DEF Counting!Idle
<1> QED
  BY <1>1, CountGoes DEF Counting!Abort

(* What is posted of a count is what was found of it.                          *)
LEMMA CountCommits ==
  ASSUME CountInv, OneClerk, NEW s \in Clerks, Counting!Commit(s)
  PROVE  /\ CountInv'
         /\ countHeld' = countCount[countTx[s].count].found
         /\ countPosts' = [countPosts EXCEPT ![countTx[s].count] = @ + 1]
         /\ \/ countRequest[countTx[s].count].state = "approved"
            \/ Counting!Size(countTx[s].value) < Threshold
<1> DEFINE c == countTx[s].count
<1>1. Posts(s) /\ countTx[s].at = "commit"
  BY DEF CountInv, Counting!Commit
<1>2. /\ countHeld' = countHeld + countTx[s].variance
      /\ countCount' = [countCount EXCEPT ![c].state = "posted"]
      /\ countPosts' = [countPosts EXCEPT ![c] = @ + 1]
      /\ countTx' = [countTx EXCEPT ![s] = Counting!Idle]
      /\ countRequest' = countRequest
  BY DEF Counting!Commit
<1>3. /\ c \in Counts /\ Counting!Open(c) /\ countCount[c].system = countHeld
      /\ countTx[s].variance = countCount[c].found - countCount[c].system
  BY <1>1 DEF Posts, CountInv
<1>4. PICK r : r = countCount[c] /\ r \in [state : {"absent", "open", "posted"}, system : Int,
                                           found : Counting!NotCounted..MaxFound]
  BY <1>3 DEF CountInv, Counting!TypeOK
<1>5. countHeld \in Int /\ r.found \in Int
  BY <1>4, CountConstants DEF CountInv, Counting!TypeOK, Counting!NotCounted
<1>6. countHeld' = r.found
  BY <1>2, <1>3, <1>4, <1>5
<1>7. countCount' = [countCount EXCEPT ![c] = [state |-> "posted", system |-> r.system, found |-> r.found]]
  <2>1. [r EXCEPT !.state = "posted"] = [state |-> "posted", system |-> r.system, found |-> r.found]
    BY <1>4
  <2>2. countCount' = [countCount EXCEPT ![c] = [r EXCEPT !.state = "posted"]]
    BY <1>2, <1>4
  <2> QED
    BY <2>1, <2>2
<1>8. countPosts' \in [Counts -> Nat]
  <2>1. PICK n \in Nat : n = countPosts[c]
    BY <1>3 DEF CountInv, Counting!TypeOK
  <2>2. countPosts' = [countPosts EXCEPT ![c] = n + 1]
    BY <1>2, <2>1
  <2>3. countPosts \in [Counts -> Nat] /\ n + 1 \in Nat
    BY DEF CountInv, Counting!TypeOK
  <2> QED
    BY ONLY <2>2, <2>3
<1>9. countTx' \in [Clerks -> [at : {"idle", "value", "commit", "refused"},
                               count : Counts \cup {Counting!None}, variance : Int, value : Int]]
      /\ countTx'[s] = Counting!Idle
  BY <1>2 DEF CountInv, Counting!TypeOK, Counting!Idle
<1>10. Counting!TypeOK'
  BY <1>2, <1>4, <1>5, <1>6, <1>7, <1>8, <1>9 DEF CountInv, Counting!TypeOK
<1>11. \A d \in Counts : ~Counting!Open(d)'
  <2>1. countCount'[c].state = "posted" /\ \A d \in Counts : d # c => countCount'[d] = countCount[d]
    BY <1>3, <1>7 DEF CountInv, Counting!TypeOK
  <2>2. \A d \in Counts : d # c => ~Counting!Open(d)
    BY <1>3 DEF CountInv
  <2> QED
    BY <2>1, <2>2 DEF Counting!Open
<1>12. \A t \in Clerks : countTx'[t].at = "idle"
  BY <1>9 DEF OneClerk, Counting!Idle
<1>13. CountInv'
  BY <1>10, <1>11, <1>12 DEF CountInv
<1>14. countTx[s].value = Counting!Value(countTx[s].variance)
  BY <1>1 DEF Posts
<1> QED
  BY <1>1, <1>2, <1>4, <1>6, <1>13, <1>14 DEF Posts

(* Only a posting changes how often a count was posted.                        *)
LEMMA CountStep ==
  ASSUME CountInv, OneClerk, [Counting!Next]_(Counting!vars)
  PROVE  /\ CountInv'
         /\ (countPosts' # countPosts => \E s \in Clerks : Counting!Commit(s))
<1>1. CASE UNCHANGED Counting!vars
  <2>1. /\ countHeld' = countHeld /\ countCount' = countCount /\ countRequest' = countRequest
        /\ countPosts' = countPosts /\ countTx' = countTx
    BY <1>1 DEF Counting!vars
  <2> QED
    BY <2>1 DEF CountInv, Counting!TypeOK, Posts, Counting!Open, Counting!Value, Counting!UnitCost
<1>2. ASSUME NEW n \in -MaxFound..MaxFound, Counting!Move(n) PROVE CountInv' /\ countPosts' = countPosts
  BY <1>2, CountMoves, CountConstants DEF Counting!Move
<1>3. ASSUME NEW c \in Counts,
             \/ Counting!Start(c)
             \/ \E found \in 0..MaxFound : Counting!Record(c, found)
             \/ Counting!Route(c) \/ Counting!Approve(c)
             \/ \E s \in Clerks : Counting!Begin(s, c)
      PROVE  CountInv' /\ countPosts' = countPosts
  <2>1. CountInv'
    BY <1>3, CountStarts, CountRecords, CountRequests, CountBegins
  <2> QED
    BY <1>3, <2>1
       DEF Counting!Start, Counting!Record, Counting!Route, Counting!Approve, Counting!Begin
<1>4. ASSUME NEW s \in Clerks, Counting!ValueLine(s) \/ Counting!Abort(s)
      PROVE  CountInv' /\ countPosts' = countPosts
  BY <1>4, CountValues, CountAborts DEF Counting!ValueLine, Counting!Abort
<1>5. ASSUME NEW s \in Clerks, Counting!Commit(s) PROVE CountInv'
  BY <1>5, CountCommits
<1> QED
  BY <1>1, <1>2, <1>3, <1>4, <1>5 DEF Counting!Next

CountedNow == \A c \in Counts : countPosts'[c] > countPosts[c] => countHeld' = countCount[c].found
ApprovedNow ==
  \A s \in Clerks :
    (countTx[s].at = "commit" /\ countTx'[s] = Counting!Idle /\ countPosts' # countPosts
       /\ Counting!Size(countTx[s].value) >= Threshold)
      => countRequest[countTx[s].count].state = "approved"

LEMMA CountsAreRight ==
  ASSUME CountInv, OneClerk, [Counting!Next]_(Counting!vars) PROVE CountedNow /\ ApprovedNow
<1>1. \A n \in Nat : ~(n > n)
  OBVIOUS
<1>2. countPosts \in [Counts -> Nat]
  BY DEF CountInv, Counting!TypeOK
<1>3. CASE countPosts' = countPosts
  BY <1>1, <1>2, <1>3 DEF CountedNow, ApprovedNow
<1>4. CASE countPosts' # countPosts
  <2>1. PICK s \in Clerks : Counting!Commit(s)
    BY <1>4, CountStep
  <2>2. /\ countHeld' = countCount[countTx[s].count].found
        /\ countPosts' = [countPosts EXCEPT ![countTx[s].count] = @ + 1]
        /\ \/ countRequest[countTx[s].count].state = "approved"
           \/ Counting!Size(countTx[s].value) < Threshold
    BY <2>1, CountCommits
  <2>3. CountedNow
    <3>1. \A c \in Counts : c # countTx[s].count => countPosts'[c] = countPosts[c]
      BY <1>2, <2>2
    <3> QED
      BY <1>1, <1>2, <2>2, <3>1 DEF CountedNow
  <2>4. Counting!Size(countTx[s].value) \in Nat
    BY CountsHaveValues DEF CountInv, Counting!TypeOK
  <2>5. Counting!Size(countTx[s].value) >= Threshold => countRequest[countTx[s].count].state = "approved"
    BY <2>2, <2>4, CountConstants
  <2>6. \A t \in Clerks : t = s
    BY DEF OneClerk
  <2> QED
    BY <2>3, <2>5, <2>6 DEF ApprovedNow
<1> QED
  BY <1>3, <1>4

(* -------------------------- the rows of the counts -------------------------- *)

CountTxRows == [at : {"idle", "value", "commit", "refused"}, count : Counts \cup {Counting!None},
                variance : Int, value : Int]
CountRows == [state : {"absent", "open", "posted"}, system : Int,
              found : Counting!NotCounted..MaxFound]
CountRowsInv ==
  /\ Counting!TypeOK
  /\ \A s \in Clerks : countTx[s].at # "idle" => countTx[s].count \in Counts

LEMMA CountRowsType ==
  Counting!TypeOK <=> /\ countHeld \in Int /\ countCount \in [Counts -> CountRows]
                      /\ countRequest \in [Counts -> [state : {Counting!None, "pending", "approved"},
                                                      amount : Nat]]
                      /\ countPosts \in [Counts -> Nat] /\ countTx \in [Clerks -> CountTxRows]
BY DEF Counting!TypeOK, CountRows, CountTxRows

LEMMA CountRowsStart == Counting!Init => CountRowsInv
BY CountStart DEF CountInv, CountRowsInv, Posts

(* A posting goes on, ends, or is given up.                                    *)
LEMMA CountRowsGo ==
  ASSUME CountRowsInv, NEW s \in Clerks, NEW r \in CountTxRows,
         countTx' = [countTx EXCEPT ![s] = r], r.at # "idle" => r.count \in Counts,
         countHeld' \in Int, countCount' \in [Counts -> CountRows],
         countRequest' = countRequest, countPosts' \in [Counts -> Nat]
  PROVE  CountRowsInv'
<1>1. /\ countTx' \in [Clerks -> CountTxRows]
      /\ \A t \in Clerks : countTx'[t] = IF t = s THEN r ELSE countTx[t]
  BY CountRowsType DEF CountRowsInv
<1>2. Counting!TypeOK'
  <2>1. countRequest' \in [Counts -> [state : {Counting!None, "pending", "approved"}, amount : Nat]]
    BY CountRowsType DEF CountRowsInv
  <2> QED
    BY <1>1, <2>1 DEF Counting!TypeOK, CountRows, CountTxRows
<1>3. \A t \in Clerks : countTx'[t].at # "idle" => countTx'[t].count \in Counts
  BY <1>1 DEF CountRowsInv
<1> QED
  BY <1>2, <1>3 DEF CountRowsInv

LEMMA CountRowsKept ==
  ASSUME CountRowsInv, NEW c \in Counts,
         \/ Counting!Start(c)
         \/ \E found \in 0..MaxFound : Counting!Record(c, found)
         \/ Counting!Route(c) \/ Counting!Approve(c)
  PROVE  CountRowsInv'
<1>1. /\ countHeld' = countHeld /\ countPosts' = countPosts /\ countTx' = countTx
      /\ countHeld \in Int /\ countCount \in [Counts -> CountRows]
      /\ countRequest \in [Counts -> [state : {Counting!None, "pending", "approved"}, amount : Nat]]
  BY CountRowsType
     DEF CountRowsInv, Counting!Start, Counting!Record, Counting!Route, Counting!Approve
<1>2. PICK q \in CountRows : q = countCount[c]
  BY <1>1
<1>3. countCount' \in [Counts -> CountRows]
  <2>1. CASE Counting!Start(c)
    <3>1. [state |-> "open", system |-> countHeld, found |-> Counting!NotCounted] \in CountRows
      BY <1>1, CountConstants DEF CountRows, Counting!NotCounted
    <3> QED
      BY <1>1, <2>1, <3>1 DEF Counting!Start
  <2>2. ASSUME NEW found \in 0..MaxFound, Counting!Record(c, found)
        PROVE  countCount' \in [Counts -> CountRows]
    <3>1. found \in Counting!NotCounted..MaxFound
      BY CountConstants DEF Counting!NotCounted
    <3>2. [q EXCEPT !.found = found] \in CountRows
      BY <3>1 DEF CountRows
    <3>3. countCount' = [countCount EXCEPT ![c] = [q EXCEPT !.found = found]]
      BY <1>2, <2>2 DEF Counting!Record
    <3> QED
      BY <1>1, <3>2, <3>3
  <2>3. CASE Counting!Route(c) \/ Counting!Approve(c)
    BY <1>1, <2>3 DEF Counting!Route, Counting!Approve
  <2> QED
    BY <2>1, <2>2, <2>3
<1>4. countRequest' \in [Counts -> [state : {Counting!None, "pending", "approved"}, amount : Nat]]
  <2> DEFINE Rows == [state : {Counting!None, "pending", "approved"}, amount : Nat]
  <2>1. CASE Counting!Route(c)
    <3>1. Counting!Variance(c) \in Int
      BY <1>2, CountConstants DEF CountRows, Counting!Variance, Counting!NotCounted
    <3>2. Counting!Size(Counting!Value(Counting!Variance(c))) \in Nat
      BY <3>1, CountsHaveValues
    <3>3. [state |-> "pending", amount |-> Counting!Size(Counting!Value(Counting!Variance(c)))] \in Rows
      BY <3>2
    <3> QED
      BY <1>1, <2>1, <3>3 DEF Counting!Route
  <2>2. CASE Counting!Approve(c)
    <3>1. PICK p \in Rows : p = countRequest[c]
      BY <1>1
    <3>2. [p EXCEPT !.state = "approved"] \in Rows
      OBVIOUS
    <3>3. countRequest' = [countRequest EXCEPT ![c] = [p EXCEPT !.state = "approved"]]
      BY <2>2, <3>1 DEF Counting!Approve
    <3> QED
      BY <1>1, <3>2, <3>3
  <2>3. CASE Counting!Start(c) \/ \E found \in 0..MaxFound : Counting!Record(c, found)
    BY <1>1, <2>3 DEF Counting!Start, Counting!Record
  <2> QED
    BY <2>1, <2>2, <2>3
<1>5. Counting!TypeOK'
  BY <1>1, <1>3, <1>4 DEF CountRowsInv, Counting!TypeOK, CountRows
<1> QED
  BY <1>1, <1>5 DEF CountRowsInv

LEMMA CountRowsPost ==
  ASSUME CountRowsInv, NEW s \in Clerks
  PROVE  /\ \A c \in Counts : Counting!Begin(s, c) => CountRowsInv'
         /\ Counting!ValueLine(s) => CountRowsInv'
         /\ Counting!Commit(s) => CountRowsInv'
         /\ Counting!Abort(s) => CountRowsInv'
<1>1. /\ countHeld \in Int /\ countCount \in [Counts -> CountRows]
      /\ countPosts \in [Counts -> Nat] /\ countTx \in [Clerks -> CountTxRows]
  BY CountRowsType DEF CountRowsInv
<1>2. PICK t \in CountTxRows : t = countTx[s]
  BY <1>1
<1>3. t.at # "idle" => t.count \in Counts
  BY <1>2 DEF CountRowsInv
<1>4. Counting!Idle \in CountTxRows /\ Counting!Idle.at = "idle"
  BY DEF Counting!Idle, CountTxRows
<1>5. ASSUME NEW c \in Counts, Counting!Begin(s, c) PROVE CountRowsInv'
  <2>1. PICK r : r = [at |-> "value", count |-> c, variance |-> Counting!Variance(c), value |-> 0]
    OBVIOUS
  <2>2. Counting!Variance(c) \in Int
    BY <1>1, CountConstants DEF CountRows, Counting!Variance, Counting!NotCounted
  <2>3. r \in CountTxRows /\ r.count = c
    BY <2>1, <2>2 DEF CountTxRows
  <2>4. countTx' = [countTx EXCEPT ![s] = r]
        /\ UNCHANGED <<countHeld, countCount, countRequest, countPosts>>
    BY <1>5, <2>1 DEF Counting!Begin, Counting!Takes
  <2> QED
    BY <1>1, <2>3, <2>4, CountRowsGo
<1>6. ASSUME Counting!ValueLine(s) PROVE CountRowsInv'
  <2>1. PICK v \in Int : v = Counting!Value(t.variance)
    BY CountsHaveValues DEF CountTxRows
  <2>2. PICK a \in {"refused", "commit"} :
          a = IF t.variance # 0 /\ v = 0 THEN "refused" ELSE "commit"
    OBVIOUS
  <2>3. countTx' = [countTx EXCEPT ![s] = [t EXCEPT !.value = v, !.at = a]]
        /\ UNCHANGED <<countHeld, countCount, countRequest, countPosts>> /\ t.at = "value"
    BY <1>2, <1>6, <2>1, <2>2 DEF Counting!ValueLine
  <2>4. PICK r : r = [at |-> a, count |-> t.count, variance |-> t.variance, value |-> v]
    OBVIOUS
  <2>5. [t EXCEPT !.value = v, !.at = a] = r
    BY <2>4, ValuedRow DEF CountTxRows
  <2>6. r \in CountTxRows /\ r.count = t.count
    BY <2>4 DEF CountTxRows
  <2> QED
    BY <1>1, <1>3, <2>3, <2>5, <2>6, CountRowsGo
<1>7. ASSUME Counting!Commit(s) PROVE CountRowsInv'
  <2>1. PICK c \in Counts : c = t.count
    BY <1>2, <1>3, <1>7 DEF Counting!Commit
  <2>2. PICK q \in CountRows : q = countCount[c]
    BY <1>1
  <2>3. PICK n \in Nat : n = countPosts[c]
    BY <1>1
  <2>4. /\ countHeld' = countHeld + t.variance
        /\ countCount' = [countCount EXCEPT ![c] = [q EXCEPT !.state = "posted"]]
        /\ countPosts' = [countPosts EXCEPT ![c] = n + 1]
        /\ countTx' = [countTx EXCEPT ![s] = Counting!Idle]
        /\ countRequest' = countRequest
    BY <1>2, <1>7, <2>1, <2>2, <2>3 DEF Counting!Commit
  <2>5. [q EXCEPT !.state = "posted"] \in CountRows
    BY DEF CountRows
  <2>6. t.variance \in Int
    BY DEF CountTxRows
  <2>7. countHeld' \in Int /\ countCount' \in [Counts -> CountRows] /\ countPosts' \in [Counts -> Nat]
    BY <1>1, <2>4, <2>5, <2>6
  <2> QED
    BY <1>4, <2>4, <2>7, CountRowsGo
<1>8. ASSUME Counting!Abort(s) PROVE CountRowsInv'
  <2>1. countTx' = [countTx EXCEPT ![s] = Counting!Idle]
        /\ UNCHANGED <<countHeld, countCount, countRequest, countPosts>>
    BY <1>8 DEF Counting!Abort
  <2> QED
    BY <1>1, <1>4, <2>1, CountRowsGo
<1> QED
  BY <1>5, <1>6, <1>7, <1>8

LEMMA CountRowsStep == CountRowsInv /\ [Counting!Next]_(Counting!vars) => CountRowsInv'
<1> SUFFICES ASSUME CountRowsInv, [Counting!Next]_(Counting!vars) PROVE CountRowsInv'
  OBVIOUS
<1>1. CASE UNCHANGED Counting!vars
  BY <1>1 DEF Counting!vars, CountRowsInv, Counting!TypeOK
<1>2. ASSUME NEW n \in -MaxFound..MaxFound, Counting!Move(n) PROVE CountRowsInv'
  <2>1. /\ countHeld' = countHeld + n /\ countHeld \in Int /\ n \in Int
        /\ UNCHANGED <<countCount, countRequest, countPosts, countTx>>
    BY <1>2, CountConstants DEF Counting!Move, CountRowsInv, Counting!TypeOK
  <2> QED
    BY <2>1 DEF CountRowsInv, Counting!TypeOK
<1>3. ASSUME NEW c \in Counts,
             \/ Counting!Start(c)
             \/ \E found \in 0..MaxFound : Counting!Record(c, found)
             \/ Counting!Route(c) \/ Counting!Approve(c)
      PROVE  CountRowsInv'
  BY <1>3, CountRowsKept
<1>4. ASSUME NEW s \in Clerks,
             \/ \E c \in Counts : Counting!Begin(s, c)
             \/ Counting!ValueLine(s) \/ Counting!Commit(s) \/ Counting!Abort(s)
      PROVE  CountRowsInv'
  BY <1>4, CountRowsPost
<1> QED
  BY <1>1, <1>2, <1>3, <1>4 DEF Counting!Next

(* ---------------------------------- places -------------------------------- *)

LEMMA PlaceConstants ==
  /\ IsFiniteSet(Nodes) /\ Places!NoParent \notin Nodes /\ IsFiniteSet(SerialUnits)
  /\ \A n \in Nodes : KindOf[n] \in {"warehouse", "zone", "aisle", "bin"}
  /\ Places!Cardinality(Nodes) = Cardinality(Nodes)
  /\ Places!Bins \subseteq Nodes
<1>1. \A S : Places!IsFiniteSet(S) <=> IsFiniteSet(S)
  BY DEF Places!IsFiniteSet, IsFiniteSet
<1>2. \A S : Places!Cardinality(S) = Cardinality(S)
  BY DEF Places!Cardinality, Cardinality
<1>3. Places!MasterTreeAssumption /\ Places!StockPlacesAssumption
  BY Parameters
<1> QED
  BY <1>1, <1>2, <1>3
     DEF Places!MasterTreeAssumption, Places!StockPlacesAssumption, Places!Levels, Places!Bins

(* A place stands under one of the level above it, a live one under a live one. *)
Climbs == \A n \in Nodes :
  placeParent[n] # Places!NoParent => <<KindOf[n], KindOf[placeParent[n]]>> \in Under
Stands == \A n \in Places!Live : Places!MayStand(n, placeParent[n])

(* While a request about a place is open nothing else is, and what it read is  *)
(* still so.                                                                   *)
Asks(s) ==
  LET r == placeTx[s] IN
  /\ r.op \in {"create", "move", "retire"} /\ r.node \in Nodes
  /\ \A other \in Sessions : other # s => placeTx[other] = Places!Idle
  /\ \A other \in Sessions : placeWork[other] = Places!NoWork
  /\ r.op = "create" => placeState[r.node] = "absent" /\ Places!MayStand(r.node, r.parent)
  /\ r.op = "move" => r.node \in Places!Live /\ Places!MayStand(r.node, r.parent)
  /\ r.op = "retire" => /\ r.node \in Places!Live /\ Places!Children(r.node) = {}
                        /\ \A u \in SerialUnits : placeUnits[u].status = "in_stock"
                                                    => placeUnits[u].at # r.node

(* A movement works where places stand still.  A unit that arrives is not in   *)
(* stock and nobody else holds it; one that leaves, and is held, is where the  *)
(* movement read it, and held once.                                            *)
Other(s, u) == {t \in Sessions : t # s /\ placeWork[t].unit = u}
Moves(s) ==
  LET w == placeWork[s] IN
  /\ w.op \in {"receive", "issue", "transfer"} /\ w.unit \in SerialUnits
  /\ \A other \in Sessions : placeTx[other] = Places!Idle
  /\ w.op # "receive" => w.from \in Places!Bins \cap Places!Live
  /\ w.op # "issue" => w.to \in Places!Bins \cap Places!Live
  /\ w.op = "receive" => w.from = Places!NoParent
  /\ w.op = "issue" => w.to = Places!NoParent
  /\ w.op = "transfer" => w.from # w.to
  /\ w.op = "receive" =>
       /\ placeUnits[w.unit].status # "in_stock"
       /\ \A t \in Other(s, w.unit) : /\ ~placeWork[t].holds /\ placeWork[t].op # "receive"
                                      /\ placeWork[t].seen.status # "in_stock"
  /\ w.op # "receive" /\ w.holds =>
       /\ placeUnits[w.unit].status = "in_stock" /\ placeUnits[w.unit].at = w.from
       /\ \A t \in Other(s, w.unit) : ~placeWork[t].holds

At(u, n) == placeUnits[u].status = "in_stock" /\ placeUnits[u].at = n
Stored == \A n \in Places!Bins, u \in SerialUnits :
  placeLedger[n][u] = IF At(u, n) THEN 1 ELSE 0
Shelved == \A u \in SerialUnits :
  placeUnits[u].status = "in_stock" => placeUnits[u].at \in Places!Bins \cap Places!Live

PlaceInv ==
  /\ Places!TypeOK /\ Climbs /\ Stands /\ Stored /\ Shelved
  /\ \A s \in Sessions : placeTx[s] # Places!Idle => Asks(s)
  /\ \A s \in Sessions : placeWork[s] # Places!NoWork => Moves(s)

LEMMA PlaceStart == Places!Init => PlaceInv
<1> SUFFICES ASSUME Places!Init PROVE PlaceInv
  OBVIOUS
<1>1. /\ placeState = [n \in Nodes |-> "absent"] /\ placeParent = [n \in Nodes |-> Places!NoParent]
      /\ placeTx = [s \in Sessions |-> Places!Idle]
      /\ placeUnits = [u \in SerialUnits |-> Places!Unknown]
      /\ placeLedger = [n \in Places!Bins |-> [u \in SerialUnits |-> 0]]
      /\ placeWork = [s \in Sessions |-> Places!NoWork]
  BY DEF Places!Init, Places!TreeInit
<1>2. Places!Idle \in Places!TreeRequests
  BY DEF Places!Idle, Places!TreeRequests
<1>3. Places!Unknown \in Places!UnitRows /\ Places!Unknown.status = "unknown"
  BY DEF Places!Unknown, Places!UnitRows
<1>4. Places!NoWork \in Places!WorkRows
  BY <1>3 DEF Places!NoWork, Places!WorkRows
<1>5. Places!TypeOK
  BY <1>1, <1>2, <1>3, <1>4 DEF Places!TypeOK, Places!TreeTypeOK
<1>6. Climbs /\ Stands
  BY <1>1 DEF Climbs, Stands, Places!Live
<1>7. Stored /\ Shelved
  BY <1>1, <1>3 DEF Stored, Shelved, At
<1> QED
  BY <1>1, <1>5, <1>6, <1>7 DEF PlaceInv

LEMMA PlaceTypes ==
  ASSUME PlaceInv
  PROVE  /\ placeState \in [Nodes -> {"absent", "live", "retired"}]
         /\ placeParent \in [Nodes -> Nodes \cup {Places!NoParent}]
         /\ placeTx \in [Sessions -> Places!TreeRequests]
         /\ placeUnits \in [SerialUnits -> Places!UnitRows]
         /\ placeWork \in [Sessions -> Places!WorkRows]
         /\ DOMAIN placeLedger = Places!Bins
         /\ \A n \in Places!Bins : placeLedger[n] \in [SerialUnits -> Int]
BY DEF PlaceInv, Places!TypeOK, Places!TreeTypeOK

(* ------------------------------ the way up --------------------------------- *)

Depth(n) == CASE KindOf[n] = "warehouse" -> 0 [] KindOf[n] = "zone" -> 1
              [] KindOf[n] = "aisle" -> 2 [] KindOf[n] = "bin" -> 3

(* One step further up from those that were met.                               *)
Upward(met) == met \cup {placeParent[m] : m \in met \cap Nodes}
Meets(v, n) ==
  v = [k \in 0..Places!Cardinality(Nodes) |-> IF k = 0 THEN {placeParent[n]} ELSE Upward(v[k - 1])]

LEMMA AncestorsAreChosen ==
  ASSUME NEW n
  PROVE  Places!Ancestors(n) = (CHOOSE v : Meets(v, n))[Places!Cardinality(Nodes)] \cap Nodes
BY DEF Places!Ancestors, Meets, Upward

LEMMA NoPlaceIsItsAncestor ==
  ASSUME PlaceInv, NEW n \in Nodes PROVE n \notin Places!Ancestors(n)
<1>1. PICK C \in Nat : C = Cardinality(Nodes)
  BY PlaceConstants, FS_CardinalityType
<1> DEFINE A == SUBSET (Nodes \cup {Places!NoParent})
           step == [p \in A \X (1..C) |-> Upward(p[1])]
           Goes(v) == Meets(v, n)
<1>2. \A T \in A : Upward(T) \in A
  BY PlaceTypes DEF Upward
<1>3. Stepping(step, A, C)
  BY <1>2 DEF Stepping
<1>4. \A T \in A, k \in 1..C : step[<<T, k>>] = Upward(T)
  OBVIOUS
<1>5. {placeParent[n]} \in A
  BY PlaceTypes
<1>6. PICK f : Iterates(f, step, A, {placeParent[n]}, C)
  <2> HIDE DEF step, A
  <2> QED
    BY <1>3, <1>5, IterationExists
<1>7. \A k \in 1..C : f[k] = Upward(f[k - 1])
  <2>1. /\ f \in [0..C -> A] /\ \A k \in 1..C : k - 1 \in 0..C
        /\ \A k \in 1..C : f[k] = step[<<f[k - 1], k>>]
    <3> HIDE DEF A, step
    <3> QED
      BY <1>6 DEF Iterates
  <2>2. \A k \in 1..C : f[k - 1] \in A
    BY <2>1
  <2> QED
    BY <1>4, <2>1, <2>2
<1>8. Goes(f)
  <2>1. f = [k \in 0..C |-> f[k]]
    BY <1>6 DEF Iterates
  <2>2. \A k \in 0..C : f[k] = IF k = 0 THEN {placeParent[n]} ELSE Upward(f[k - 1])
    BY <1>6, <1>7 DEF Iterates
  <2> QED
    BY <1>1, <2>1, <2>2, PlaceConstants DEF Meets
<1> DEFINE v == CHOOSE w : Goes(w)
<1>9. Goes(v)
  BY <1>8
<1>10. Places!Ancestors(n) = v[C] \cap Nodes
  BY <1>1, AncestorsAreChosen, PlaceConstants
<1> HIDE DEF v
<1>11. v = [k \in 0..C |-> IF k = 0 THEN {placeParent[n]} ELSE Upward(v[k - 1])]
  BY <1>1, <1>9, PlaceConstants DEF Meets
<1>12. v[0] = {placeParent[n]} /\ \A k \in 0..C : k # 0 => v[k] = Upward(v[k - 1])
  <2>1. \A k \in 0..C : v[k] = IF k = 0 THEN {placeParent[n]} ELSE Upward(v[k - 1])
    BY <1>11
  <2> QED
    BY <1>1, <2>1
<1>13. \A m \in Nodes : Depth(m) \in Nat
  BY PlaceConstants DEF Depth
<1>14. \A m \in Nodes : placeParent[m] \in Nodes => Depth(placeParent[m]) < Depth(m)
  <2>1. \A m \in Nodes : placeParent[m] \in Nodes => <<KindOf[m], KindOf[placeParent[m]]>> \in Under
    BY PlaceConstants DEF PlaceInv, Climbs
  <2> QED
    BY <2>1 DEF Depth, Under
<1> DEFINE Bad == {k \in 0..C : \E m \in v[k] \cap Nodes : ~(Depth(m) < Depth(n))}
<1>15. ASSUME Bad # {} PROVE FALSE
  <2>1. Bad \in SUBSET Nat
    OBVIOUS
  <2>2. PICK k \in Bad : \A m \in Bad : k <= m
    <3> HIDE DEF Bad
    <3> QED
      BY <1>15, <2>1, LeastOf
  <2>3. k # 0
    BY <1>12, <1>14, <2>2
  <2>4. k \in 0..C /\ k - 1 \in 0..C /\ k - 1 \notin Bad
    BY <1>1, <2>2, <2>3
  <2>5. \A m \in v[k - 1] \cap Nodes : Depth(m) < Depth(n)
    BY <2>4
  <2>6. \A m \in v[k] \cap Nodes : Depth(m) < Depth(n)
    <3>1. v[k] = v[k - 1] \cup {placeParent[m] : m \in v[k - 1] \cap Nodes}
      BY <1>12, <2>3, <2>4 DEF Upward
    <3> QED
      BY <1>13, <1>14, <2>5, <3>1
  <2> QED
    BY <2>2, <2>6
<1>16. \A m \in v[C] \cap Nodes : Depth(m) < Depth(n)
  BY <1>1, <1>15
<1> QED
  BY <1>10, <1>13, <1>16

(* ---------------------------- the stock of a bin --------------------------- *)

LEMMA OnHandIsSum ==
  ASSUME NEW n \in Places!Bins PROVE Places!OnHand(n) = SumOver(placeLedger[n], SerialUnits)
BY DEF Places!OnHand, Places!MapThenSumSet, Places!MapThenFoldSet,
       SumOver, Ext!MapThenSumSet, Ext!MapThenFoldSet

(* Nothing on hand, nothing there.                                             *)
LEMMA EmptyHoldsNothing ==
  ASSUME PlaceInv, NEW n \in Nodes, Places!OnHand(n) = 0, NEW u \in SerialUnits,
         placeUnits[u].status = "in_stock"
  PROVE  placeUnits[u].at # n
<1> SUFFICES ASSUME placeUnits[u].at = n PROVE FALSE
  OBVIOUS
<1>1. n \in Places!Bins
  BY DEF PlaceInv, Shelved
<1>2. \A x \in SerialUnits : placeLedger[n][x] \in Nat
  BY <1>1 DEF PlaceInv, Stored
<1>3. placeLedger[n][u] = 1
  BY <1>1 DEF PlaceInv, Stored, At
<1>4. placeLedger[n][u] <= SumOver(placeLedger[n], SerialUnits)
  BY <1>2, PlaceConstants, SumOfNats
<1> QED
  BY <1>1, <1>3, <1>4, OnHandIsSum

LEMMA StockStandsLive ==
  ASSUME PlaceInv, NEW n \in Places!Bins, n \notin Places!Live PROVE Places!OnHand(n) = 0
<1>1. \A u \in SerialUnits : placeLedger[n][u] = 0
  BY DEF PlaceInv, Stored, Shelved, At
<1>2. SumOver(placeLedger[n], SerialUnits) = 0
  BY <1>1, PlaceConstants, SumOfZeros
<1> QED
  BY <1>2, OnHandIsSum

LEMMA PlaceInvSuffices ==
  PlaceInv => Places!UnitIsInOnePlace /\ Places!StockStaysOnTheMap /\ Places!TreeIsWhole
<1> SUFFICES ASSUME PlaceInv
             PROVE  Places!UnitIsInOnePlace /\ Places!StockStaysOnTheMap /\ Places!TreeIsWhole
  OBVIOUS
<1>1. ASSUME NEW n \in Places!Bins, NEW u \in SerialUnits
      PROVE  placeUnits[u] = [status |-> "in_stock", at |-> n] <=> At(u, n)
  <2>1. placeUnits[u] \in Places!UnitRows
    BY PlaceTypes
  <2> QED
    BY <2>1 DEF Places!UnitRows, At
<1>2. Places!UnitIsInOnePlace
  BY <1>1 DEF PlaceInv, Stored, Places!UnitIsInOnePlace
<1>3. Places!TreeIsWhole
  BY NoPlaceIsItsAncestor DEF PlaceInv, Stands, Places!TreeIsWhole
<1> QED
  BY <1>2, <1>3, StockStandsLive DEF Places!StockStaysOnTheMap

(* ------------------------- requests about a place -------------------------- *)

(* A request begins where no movement is open and no other request is.         *)
LEMMA PlaceBegins ==
  ASSUME PlaceInv, NEW s \in Sessions, NEW n \in Nodes, NEW p \in Nodes \cup {Places!NoParent},
         Places!CreateLocation(s, n, p) \/ Places!MoveLocation(s, n, p)
           \/ Places!RetireLocation(s, n)
  PROVE  PlaceInv'
<1>1. /\ placeState' = placeState /\ placeParent' = placeParent
      /\ placeUnits' = placeUnits /\ placeLedger' = placeLedger /\ placeWork' = placeWork
  BY DEF Places!CreateLocation, Places!MoveLocation, Places!RetireLocation, Places!placeVars,
         Places!BeginCreate, Places!BeginMove, Places!BeginRetire, Places!Begins
<1>2. /\ \A t \in Sessions : placeTx[t] = Places!Idle /\ placeWork[t] = Places!NoWork
      /\ s \in Sessions
  BY DEF Places!CreateLocation, Places!MoveLocation, Places!RetireLocation,
         Places!BeginCreate, Places!BeginMove, Places!BeginRetire, Places!Begins, Places!AtRest
<1>3. PICK r \in Places!TreeRequests :
        /\ placeTx' = [placeTx EXCEPT ![s] = r]
        /\ r.op \in {"create", "move", "retire"} /\ r.node = n
        /\ r.op = "create" => placeState[n] = "absent" /\ Places!MayStand(n, r.parent)
        /\ r.op = "move" => n \in Places!Live /\ Places!MayStand(n, r.parent)
        /\ r.op = "retire" => /\ n \in Places!Live /\ Places!Children(n) = {}
                              /\ Places!OnHand(n) = 0
  <2>1. \A op \in {"create", "move", "retire"}, q \in Nodes \cup {Places!NoParent} :
          LET r == [op |-> op, node |-> n, parent |-> q, checked |-> FALSE] IN
          r \in Places!TreeRequests /\ r.op = op /\ r.node = n /\ r.parent = q
    BY DEF Places!TreeRequests
  <2>2. CASE Places!CreateLocation(s, n, p)
    <3> DEFINE r == [op |-> "create", node |-> n, parent |-> p, checked |-> FALSE]
    <3>1. placeTx' = [placeTx EXCEPT ![s] = r] /\ placeState[n] = "absent" /\ Places!MayStand(n, p)
      BY <2>2 DEF Places!CreateLocation, Places!BeginCreate, Places!Begins
    <3>2. r \in Places!TreeRequests /\ r.op = "create" /\ r.node = n /\ r.parent = p
      BY <2>1
    <3> HIDE DEF r
    <3> QED
      BY <3>1, <3>2
  <2>3. CASE Places!MoveLocation(s, n, p)
    <3> DEFINE r == [op |-> "move", node |-> n, parent |-> p, checked |-> FALSE]
    <3>1. placeTx' = [placeTx EXCEPT ![s] = r] /\ n \in Places!Live /\ Places!MayStand(n, p)
      BY <2>3 DEF Places!MoveLocation, Places!BeginMove, Places!Begins
    <3>2. r \in Places!TreeRequests /\ r.op = "move" /\ r.node = n /\ r.parent = p
      BY <2>1
    <3> HIDE DEF r
    <3> QED
      BY <3>1, <3>2
  <2>4. CASE Places!RetireLocation(s, n)
    <3> DEFINE r == [op |-> "retire", node |-> n, parent |-> Places!NoParent, checked |-> FALSE]
    <3>1. /\ placeTx' = [placeTx EXCEPT ![s] = r] /\ n \in Places!Live
          /\ Places!Children(n) = {} /\ Places!OnHand(n) = 0
      BY <2>4 DEF Places!RetireLocation, Places!BeginRetire, Places!Begins
    <3>2. r \in Places!TreeRequests /\ r.op = "retire" /\ r.node = n
      BY <2>1
    <3> HIDE DEF r
    <3> QED
      BY <3>1, <3>2
  <2> QED
    BY <2>2, <2>3, <2>4
<1>4. placeTx' \in [Sessions -> Places!TreeRequests]
  BY <1>3, PlaceTypes
<1>5. Places!TypeOK'
  BY <1>1, <1>4 DEF PlaceInv, Places!TypeOK, Places!TreeTypeOK, Places!Bins
<1>6. Climbs' /\ Stands' /\ Stored' /\ Shelved'
  BY <1>1 DEF PlaceInv, Climbs, Stands, Stored, Shelved, At, Places!Live, Places!MayStand
<1>7. placeTx'[s] = r /\ \A t \in Sessions : t # s => placeTx'[t] = Places!Idle
  BY <1>2, <1>3, PlaceTypes
<1>8. Asks(s)'
  <2>1. \A u \in SerialUnits : r.op = "retire" /\ placeUnits[u].status = "in_stock"
                                 => placeUnits[u].at # n
    BY <1>3, EmptyHoldsNothing
  <2>2. /\ \A m, q : Places!MayStand(m, q) <=> Places!MayStand(m, q)'
        /\ Places!Live' = Places!Live /\ \A m : Places!Children(m)' = Places!Children(m)
    BY <1>1 DEF Places!MayStand, Places!Live, Places!Children
  <2>3. (\A other \in Sessions : other # s => placeTx[other] = Places!Idle)'
    BY <1>7
  <2> QED
    BY <1>1, <1>2, <1>3, <1>7, <2>1, <2>2, <2>3 DEF Asks
<1>9. \A t \in Sessions : (placeTx[t] # Places!Idle)' => Asks(t)'
  BY <1>7, <1>8
<1> QED
  BY <1>1, <1>2, <1>5, <1>6, <1>9 DEF PlaceInv

(* What a request that is open knows.                                          *)
LEMMA PlaceAsked ==
  ASSUME PlaceInv, NEW s \in Sessions, placeTx[s] # Places!Idle
  PROVE  Asks(s) /\ placeTx[s] \in Places!TreeRequests
BY PlaceTypes DEF PlaceInv

LEMMA PlaceChecks ==
  ASSUME PlaceInv, NEW s \in Sessions, Places!TreeRules(s) PROVE PlaceInv'
<1>1. /\ placeState' = placeState /\ placeParent' = placeParent
      /\ placeUnits' = placeUnits /\ placeLedger' = placeLedger /\ placeWork' = placeWork
      /\ placeTx[s] # Places!Idle /\ placeTx' = [placeTx EXCEPT ![s].checked = TRUE]
  BY DEF Places!TreeRules, Places!Check, Places!placeVars
<1>2. Asks(s) /\ placeTx[s] \in Places!TreeRequests
  BY <1>1, PlaceAsked
<1>3. /\ placeTx' \in [Sessions -> Places!TreeRequests]
      /\ placeTx'[s].op = placeTx[s].op /\ placeTx'[s].node = placeTx[s].node
      /\ placeTx'[s].parent = placeTx[s].parent
      /\ \A t \in Sessions : t # s => placeTx'[t] = placeTx[t]
  BY <1>1, PlaceTypes DEF Places!TreeRequests
<1>4. Places!TypeOK'
  BY <1>1, <1>3 DEF PlaceInv, Places!TypeOK, Places!TreeTypeOK, Places!Bins
<1>5. Climbs' /\ Stands' /\ Stored' /\ Shelved'
  BY <1>1 DEF PlaceInv, Climbs, Stands, Stored, Shelved, At, Places!Live, Places!MayStand
<1>6. Asks(s)'
  <2>1. /\ \A m, q : Places!MayStand(m, q) <=> Places!MayStand(m, q)'
        /\ Places!Live' = Places!Live /\ \A m : Places!Children(m)' = Places!Children(m)
    BY <1>1 DEF Places!MayStand, Places!Live, Places!Children
  <2> QED
    BY <1>1, <1>2, <1>3, <2>1 DEF Asks
<1>7. /\ \A t \in Sessions : t # s => placeTx'[t] = Places!Idle
      /\ \A t \in Sessions : placeWork[t] = Places!NoWork
  BY <1>2, <1>3 DEF Asks
<1> QED
  BY <1>1, <1>4, <1>5, <1>6, <1>7 DEF PlaceInv

LEMMA PlaceAborts == ASSUME PlaceInv, NEW s \in Sessions, Places!Abort(s),
                            UNCHANGED Places!placeVars
                     PROVE  PlaceInv'
<1>1. /\ placeState' = placeState /\ placeParent' = placeParent
      /\ placeUnits' = placeUnits /\ placeLedger' = placeLedger /\ placeWork' = placeWork
      /\ placeTx[s] # Places!Idle /\ placeTx' = [placeTx EXCEPT ![s] = Places!Idle]
  BY DEF Places!Abort, Places!placeVars
<1>2. Asks(s)
  BY <1>1, PlaceAsked
<1>3. \A t \in Sessions : placeTx'[t] = Places!Idle /\ placeWork[t] = Places!NoWork
  BY <1>1, <1>2, PlaceTypes DEF Asks
<1>4. Places!TypeOK'
  <2>1. placeTx' \in [Sessions -> Places!TreeRequests]
    BY <1>1, PlaceTypes DEF Places!Idle, Places!TreeRequests
  <2> QED
    BY <1>1, <2>1 DEF PlaceInv, Places!TypeOK, Places!TreeTypeOK, Places!Bins
<1>5. Climbs' /\ Stands' /\ Stored' /\ Shelved'
  BY <1>1 DEF PlaceInv, Climbs, Stands, Stored, Shelved, At, Places!Live, Places!MayStand
<1> QED
  BY <1>1, <1>3, <1>4, <1>5 DEF PlaceInv

(* A commit leaves every live place under a live one of the level above it.    *)
LEMMA PlaceCommits == ASSUME PlaceInv, NEW s \in Sessions, Places!Commit(s),
                             UNCHANGED Places!placeVars
                      PROVE  PlaceInv'
<1> DEFINE r == placeTx[s]
<1>1. /\ placeUnits' = placeUnits /\ placeLedger' = placeLedger /\ placeWork' = placeWork
      /\ r.checked /\ placeTx' = [placeTx EXCEPT ![s] = Places!Idle]
  BY DEF Places!Commit, Places!placeVars
<1>2. r # Places!Idle
  BY <1>1 DEF Places!Idle
<1>3. Asks(s) /\ r \in Places!TreeRequests
  BY <1>2, PlaceAsked
<1>4. \A t \in Sessions : placeTx'[t] = Places!Idle /\ placeWork[t] = Places!NoWork
  BY <1>1, <1>3, PlaceTypes DEF Asks
<1>5. /\ r.op \in {"create", "move", "retire"} /\ r.node \in Nodes
      /\ r.parent \in Nodes \cup {Places!NoParent}
  BY <1>3 DEF Asks, Places!TreeRequests
<1>6. /\ r.op = "create" => placeState' = [placeState EXCEPT ![r.node] = "live"]
      /\ r.op = "retire" => placeState' = [placeState EXCEPT ![r.node] = "retired"]
      /\ r.op = "move" => placeState' = placeState
      /\ r.op = "retire" => placeParent' = placeParent
      /\ r.op # "retire" => placeParent' = [placeParent EXCEPT ![r.node] = r.parent]
  BY <1>5 DEF Places!Commit
<1>7. Places!TypeOK'
  <2>1. placeTx' \in [Sessions -> Places!TreeRequests]
    BY <1>1, PlaceTypes DEF Places!Idle, Places!TreeRequests
  <2>2. placeState' \in [Nodes -> {"absent", "live", "retired"}]
    BY <1>5, <1>6, PlaceTypes
  <2>3. placeParent' \in [Nodes -> Nodes \cup {Places!NoParent}]
    BY <1>5, <1>6, PlaceTypes
  <2> QED
    BY <1>1, <2>1, <2>2, <2>3 DEF PlaceInv, Places!TypeOK, Places!TreeTypeOK, Places!Bins
<1>8. /\ r.op = "create" => Places!Live' = Places!Live \cup {r.node} /\ r.node \notin Places!Live
      /\ r.op = "retire" => Places!Live' = Places!Live \ {r.node}
      /\ r.op = "move" => Places!Live' = Places!Live
  BY <1>3, <1>5, <1>6, PlaceTypes DEF Places!Live, Asks
<1>9. /\ r.op # "retire" => Places!MayStand(r.node, r.parent)
      /\ r.op = "retire" => \A m \in Places!Live : placeParent[m] # r.node
  BY <1>3, <1>5 DEF Asks, Places!Children
<1>10. Climbs'
  <2>1. ASSUME NEW n \in Nodes, placeParent'[n] # Places!NoParent
        PROVE  <<KindOf[n], KindOf[placeParent'[n]]>> \in Under
    <3>1. CASE r.op # "retire" /\ n = r.node
      <4>1. placeParent'[n] = r.parent
        BY <1>5, <1>6, <3>1, PlaceTypes
      <4> QED
        BY <1>9, <2>1, <3>1, <4>1 DEF Places!MayStand
    <3>2. CASE r.op = "retire" \/ n # r.node
      <4>1. placeParent'[n] = placeParent[n]
        BY <1>5, <1>6, <3>2, PlaceTypes
      <4> QED
        BY <2>1, <4>1 DEF PlaceInv, Climbs
    <3> QED
      BY <3>1, <3>2
  <2> QED
    BY <2>1 DEF Climbs
<1>11. Stands'
  <2>1. ASSUME NEW n \in Places!Live' PROVE Places!MayStand(n, placeParent[n])'
    <3>0. n \in Nodes
      BY DEF Places!Live
    <3>1. CASE r.op # "retire" /\ n = r.node
      <4>1. placeParent'[n] = r.parent
        BY <1>5, <1>6, <3>1, PlaceTypes
      <4>2. r.parent \in Places!Live => r.parent \in Places!Live'
        BY <1>5, <1>8, <3>1
      <4> QED
        BY <1>9, <3>1, <4>1, <4>2 DEF Places!MayStand
    <3>2. CASE r.op = "retire" \/ n # r.node
      <4>1. placeParent'[n] = placeParent[n]
        BY <1>5, <1>6, <3>0, <3>2, PlaceTypes
      <4>2. n \in Places!Live
        BY <1>5, <1>8, <3>2
      <4>3. Places!MayStand(n, placeParent[n])
        BY <4>2 DEF PlaceInv, Stands
      <4>4. placeParent[n] \in Places!Live => placeParent[n] \in Places!Live'
        BY <1>5, <1>8, <1>9, <4>2
      <4> QED
        BY <4>1, <4>3, <4>4 DEF Places!MayStand
    <3> QED
      BY <3>1, <3>2
  <2> QED
    BY <2>1 DEF Stands
<1>12. Stored'
  BY <1>1 DEF PlaceInv, Stored, At
<1>13. Shelved'
  <2>1. ASSUME NEW u \in SerialUnits, placeUnits[u].status = "in_stock"
        PROVE  placeUnits[u].at \in Places!Bins \cap Places!Live'
    <3>1. placeUnits[u].at \in Places!Bins \cap Places!Live
      BY <2>1 DEF PlaceInv, Shelved
    <3>2. r.op = "retire" => placeUnits[u].at # r.node
      BY <1>3, <2>1 DEF Asks
    <3> QED
      BY <1>5, <1>8, <3>1, <3>2
  <2> QED
    BY <1>1, <2>1 DEF Shelved, Places!Bins
<1> QED
  BY <1>1, <1>4, <1>7, <1>10, <1>11, <1>12, <1>13 DEF PlaceInv

(* -------------------------------- movements -------------------------------- *)

(* What a movement that is open knows.                                         *)
LEMMA PlaceMoving ==
  ASSUME PlaceInv, NEW s \in Sessions, placeWork[s] # Places!NoWork
  PROVE  Moves(s) /\ placeWork[s] \in Places!WorkRows
BY PlaceTypes DEF PlaceInv

(* Nothing of the places changes with a movement, only works, units, sums.     *)
LEMMA PlaceStays ==
  ASSUME PlaceInv, placeState' = placeState, placeParent' = placeParent, placeTx' = placeTx
  PROVE  /\ Climbs' /\ Stands' /\ Places!TreeTypeOK' /\ Places!Live' = Places!Live
         /\ Places!Bins' = Places!Bins
BY DEF PlaceInv, Places!TypeOK, Places!TreeTypeOK, Climbs, Stands, Places!Live, Places!MayStand,
       Places!Bins

LEMMA PlaceReads ==
  ASSUME PlaceInv, NEW s \in Sessions, NEW u \in SerialUnits, NEW n \in Places!Bins,
         NEW m \in Places!Bins,
         Places!ReadReceive(s, u, n) \/ Places!ReadIssue(s, u, n) \/ Places!ReadTransfer(s, u, n, m)
  PROVE  PlaceInv'
<1>1. /\ placeState' = placeState /\ placeParent' = placeParent /\ placeTx' = placeTx
      /\ placeUnits' = placeUnits /\ placeLedger' = placeLedger
      /\ placeWork[s] = Places!NoWork /\ \A t \in Sessions : placeTx[t] = Places!Idle
  BY DEF Places!ReadReceive, Places!ReadIssue, Places!ReadTransfer, Places!Reads
<1>2. PICK w \in Places!WorkRows :
        /\ placeWork' = [placeWork EXCEPT ![s] = w]
        /\ w.op \in {"receive", "issue", "transfer"} /\ w.unit = u /\ ~w.holds
        /\ w.seen = placeUnits[u]
        /\ w.op # "receive" => w.from \in Places!Bins \cap Places!Live
        /\ w.op # "issue" => w.to \in Places!Bins \cap Places!Live
        /\ w.op = "receive" => w.from = Places!NoParent
        /\ w.op = "issue" => w.to = Places!NoParent
        /\ w.op = "transfer" => w.from # w.to
        /\ w.op = "receive" => /\ placeUnits[u].status # "in_stock"
                               /\ \A t \in Sessions : placeWork[t].unit # u
  <2>1. placeUnits[u] \in Places!UnitRows
    BY PlaceTypes
  <2>2. \A op \in {"receive", "issue", "transfer"},
           from \in Places!Bins \cup {Places!NoParent}, to \in Places!Bins \cup {Places!NoParent} :
          LET w == [op |-> op, unit |-> u, from |-> from, to |-> to,
                    seen |-> placeUnits[u], holds |-> FALSE] IN
          /\ w \in Places!WorkRows /\ w.op = op /\ w.unit = u /\ w.from = from /\ w.to = to
          /\ w.seen = placeUnits[u] /\ w.holds = FALSE
    BY <2>1 DEF Places!WorkRows
  <2>3. CASE Places!ReadReceive(s, u, n)
    <3> DEFINE w == [op |-> "receive", unit |-> u, from |-> Places!NoParent, to |-> n,
                     seen |-> placeUnits[u], holds |-> FALSE]
    <3>1. /\ placeWork' = [placeWork EXCEPT ![s] = w] /\ n \in Places!Live
          /\ placeUnits[u].status # "in_stock" /\ \A t \in Sessions : placeWork[t].unit # u
      BY <2>3 DEF Places!ReadReceive, Places!Reads
    <3>2. /\ w \in Places!WorkRows /\ w.op = "receive" /\ w.unit = u
          /\ w.from = Places!NoParent /\ w.to = n /\ w.seen = placeUnits[u] /\ w.holds = FALSE
      BY <2>2
    <3> HIDE DEF w
    <3> QED
      BY <3>1, <3>2
  <2>4. CASE Places!ReadIssue(s, u, n)
    <3> DEFINE w == [op |-> "issue", unit |-> u, from |-> n, to |-> Places!NoParent,
                     seen |-> placeUnits[u], holds |-> FALSE]
    <3>1. placeWork' = [placeWork EXCEPT ![s] = w] /\ n \in Places!Live
      BY <2>4 DEF Places!ReadIssue, Places!Reads
    <3>2. /\ w \in Places!WorkRows /\ w.op = "issue" /\ w.unit = u
          /\ w.from = n /\ w.to = Places!NoParent /\ w.seen = placeUnits[u] /\ w.holds = FALSE
      BY <2>2
    <3> HIDE DEF w
    <3> QED
      BY <3>1, <3>2
  <2>5. CASE Places!ReadTransfer(s, u, n, m)
    <3> DEFINE w == [op |-> "transfer", unit |-> u, from |-> n, to |-> m,
                     seen |-> placeUnits[u], holds |-> FALSE]
    <3>1. /\ placeWork' = [placeWork EXCEPT ![s] = w] /\ n \in Places!Live /\ m \in Places!Live
          /\ n # m
      BY <2>5 DEF Places!ReadTransfer, Places!Reads
    <3>2. /\ w \in Places!WorkRows /\ w.op = "transfer" /\ w.unit = u
          /\ w.from = n /\ w.to = m /\ w.seen = placeUnits[u] /\ w.holds = FALSE
      BY <2>2
    <3> HIDE DEF w
    <3> QED
      BY <3>1, <3>2
  <2> QED
    BY <2>3, <2>4, <2>5
<1>3. /\ placeWork' \in [Sessions -> Places!WorkRows] /\ placeWork'[s] = w
      /\ \A t \in Sessions : t # s => placeWork'[t] = placeWork[t]
  BY <1>2, PlaceTypes
<1>4. /\ Climbs' /\ Stands' /\ Places!TreeTypeOK' /\ Places!Live' = Places!Live
      /\ Places!Bins' = Places!Bins
  BY <1>1, PlaceStays
<1>5. Places!TypeOK' /\ Stored' /\ Shelved'
  BY <1>1, <1>3, <1>4, PlaceTypes DEF PlaceInv, Places!TypeOK, Stored, Shelved, At
<1>6. ASSUME NEW t \in Sessions, placeWork'[t] # Places!NoWork PROVE Moves(t)'
  <2>1. CASE t = s
    <3>1. w.op = "receive" => Other(s, u)' = {}
      BY <1>2, <1>3 DEF Other
    <3> QED
      BY <1>1, <1>2, <1>3, <1>4, <2>1, <3>1 DEF Moves
  <2>2. CASE t # s
    <3>1. placeWork'[t] = placeWork[t] /\ Moves(t)
      BY <1>3, <1>6, <2>2 DEF PlaceInv
    <3>2. ASSUME NEW x, x \in Other(t, placeWork[t].unit)'
          PROVE  /\ x = s => placeWork'[x] = w /\ placeWork[t].unit = u
                 /\ x # s => x \in Other(t, placeWork[t].unit) /\ placeWork'[x] = placeWork[x]
      BY <1>2, <1>3, <3>1, <3>2 DEF Other
    <3>3. placeWork[t].op = "receive" =>
            \A x \in Other(t, placeWork[t].unit)' :
              ~placeWork'[x].holds /\ placeWork'[x].op # "receive"
              /\ placeWork'[x].seen.status # "in_stock"
      BY <1>2, <3>1, <3>2 DEF Moves
    <3>4. placeWork[t].op # "receive" /\ placeWork[t].holds =>
            \A x \in Other(t, placeWork[t].unit)' : ~placeWork'[x].holds
      BY <1>2, <3>1, <3>2 DEF Moves
    <3> QED
      BY <1>1, <1>4, <3>1, <3>3, <3>4 DEF Moves
  <2> QED
    BY <2>1, <2>2
<1> QED
  BY <1>1, <1>4, <1>5, <1>6 DEF PlaceInv

(* What a movement that takes the locks changes: only that it holds them.      *)
LEMMA PlaceTakes == ASSUME PlaceInv, NEW s \in Sessions, Places!Take(s) PROVE PlaceInv'
<1> DEFINE w == placeWork[s]
<1>1. /\ placeState' = placeState /\ placeParent' = placeParent /\ placeTx' = placeTx
      /\ placeUnits' = placeUnits /\ placeLedger' = placeLedger
      /\ w # Places!NoWork /\ Places!Free(s) /\ (w.op # "receive" => Places!Held(w))
      /\ placeWork' = [placeWork EXCEPT ![s].holds = TRUE]
  BY DEF Places!Take
<1>2. Moves(s) /\ w \in Places!WorkRows
  BY <1>1, PlaceMoving
<1>3. /\ placeWork' \in [Sessions -> Places!WorkRows]
      /\ placeWork'[s].op = w.op /\ placeWork'[s].unit = w.unit /\ placeWork'[s].from = w.from
      /\ placeWork'[s].to = w.to /\ placeWork'[s].seen = w.seen /\ placeWork'[s].holds = TRUE
      /\ \A t \in Sessions : t # s => placeWork'[t] = placeWork[t]
  BY <1>1, PlaceTypes DEF Places!WorkRows
<1>4. /\ Climbs' /\ Stands' /\ Places!TreeTypeOK' /\ Places!Live' = Places!Live
      /\ Places!Bins' = Places!Bins
  BY <1>1, PlaceStays
<1>5. Places!TypeOK' /\ Stored' /\ Shelved'
  BY <1>1, <1>3, <1>4, PlaceTypes DEF PlaceInv, Places!TypeOK, Stored, Shelved, At
<1>6. ASSUME NEW t, NEW u PROVE Other(t, u)' = Other(t, u)
  <2>1. \A x \in Sessions : placeWork'[x].unit = placeWork[x].unit
    BY <1>3
  <2> QED
    BY <2>1 DEF Other
<1>7. ASSUME NEW t \in Sessions, placeWork[t] # Places!NoWork
      PROVE  Moves(t) /\ placeWork[t] \in Places!WorkRows
  BY <1>7, PlaceMoving
<1>8. w.unit \in SerialUnits /\ w.op \in {"receive", "issue", "transfer"}
  BY <1>2 DEF Moves
(* What leaves is on the shelf it is taken from; whoever held it held that     *)
(* shelf too.                                                                  *)
<1>9. ASSUME w.op # "receive"
      PROVE  /\ At(w.unit, w.from) /\ w.seen.status = "in_stock"
             /\ \A t \in Other(s, w.unit) : ~placeWork[t].holds
  <2>1. /\ w.from \in Places!Bins /\ placeLedger[w.from][w.unit] >= 1
        /\ w.seen.status = "in_stock"
    BY <1>1, <1>2, <1>9 DEF Moves, Places!Held
  <2>2. placeLedger[w.from][w.unit] = IF At(w.unit, w.from) THEN 1 ELSE 0
    BY <1>8, <2>1 DEF PlaceInv, Stored
  <2>3. At(w.unit, w.from)
    BY <2>1, <2>2
  <2>4. ASSUME NEW t \in Other(s, w.unit), placeWork[t].holds PROVE FALSE
    <3>1. t \in Sessions /\ t # s /\ placeWork[t].unit = w.unit
      BY DEF Other
    <3>2. placeWork[t] # Places!NoWork
      BY <2>4 DEF Places!NoWork
    <3>3. Moves(t)
      BY <1>7, <3>1, <3>2
    <3>4. placeWork[t].op # "receive" /\ placeWork[t].from = w.from
      BY <2>3, <2>4, <3>1, <3>3 DEF Moves, At
    <3>5. Places!Places(placeWork[t]) \cap Places!Places(w) = {}
      BY <1>1, <2>4, <3>1 DEF Places!Free
    <3>6. w.from \in Nodes /\ w.from # Places!NoParent
      BY <2>1, PlaceConstants
    <3> QED
      BY <3>4, <3>5, <3>6 DEF Places!Places
  <2> QED
    BY <2>1, <2>3, <2>4
<1>10. ASSUME NEW t \in Sessions, placeWork'[t] # Places!NoWork PROVE Moves(t)'
  <2>1. CASE t = s
    <3>1. w.op = "receive" =>
            /\ placeUnits[w.unit].status # "in_stock"
            /\ \A x \in Other(s, w.unit) :
                 /\ ~placeWork'[x].holds /\ placeWork'[x].op # "receive"
                 /\ placeWork'[x].seen.status # "in_stock"
      BY <1>2, <1>3 DEF Moves, Other
    <3>2. w.op # "receive" => /\ At(w.unit, w.from)
                              /\ \A x \in Other(s, w.unit) : ~placeWork'[x].holds
      BY <1>3, <1>9 DEF Other
    <3>3. Other(s, w.unit)' = Other(s, w.unit)
      BY <1>3, <1>6
    <3> QED
      BY <1>1, <1>2, <1>3, <1>4, <2>1, <3>1, <3>2, <3>3 DEF Moves, At
  <2>2. CASE t # s
    <3>1. placeWork'[t] = placeWork[t] /\ Moves(t) /\ Other(t, placeWork[t].unit)' = Other(t, placeWork[t].unit)
      BY <1>3, <1>6, <1>7, <1>10, <2>2
    <3>2. ASSUME s \in Other(t, placeWork[t].unit)
          PROVE  /\ placeWork[t].op # "receive"
                 /\ ~placeWork[t].holds
      <4>1. placeWork[t].unit = w.unit /\ t \in Other(s, w.unit)
        BY <2>2, <3>2 DEF Other
      <4>2. CASE w.op = "receive"
        BY <1>2, <4>1, <4>2 DEF Moves
      <4>3. CASE w.op # "receive"
        <5>1. placeUnits[w.unit].status = "in_stock" /\ ~placeWork[t].holds
          BY <1>9, <4>1, <4>3 DEF At
        <5> QED
          BY <3>1, <4>1, <5>1 DEF Moves
      <4> QED
        BY <4>2, <4>3
    <3>3. placeWork[t].op = "receive" \/ placeWork[t].holds =>
            \A x \in Other(t, placeWork[t].unit) : placeWork'[x] = placeWork[x]
      BY <1>3, <3>2 DEF Other
    <3> QED
      BY <1>1, <1>4, <3>1, <3>3 DEF Moves
  <2> QED
    BY <2>1, <2>2
<1>11. \A t \in Sessions : placeTx[t] = Places!Idle
  BY <1>2 DEF Moves
<1> QED
  BY <1>1, <1>4, <1>5, <1>10, <1>11 DEF PlaceInv

(* The unit is where it was moved to, and nowhere else.                        *)
LEMMA PlaceWrites == ASSUME PlaceInv, NEW s \in Sessions, Places!Write(s) PROVE PlaceInv'
<1>1. PICK w : w = placeWork[s]
  OBVIOUS
<1>2. /\ placeState' = placeState /\ placeParent' = placeParent /\ placeTx' = placeTx
      /\ w.holds
      /\ placeLedger' = [n \in Places!Bins |-> [placeLedger[n] EXCEPT ![w.unit] =
           @ + (IF n = w.to THEN 1 ELSE 0) - (IF n = w.from THEN 1 ELSE 0)]]
      /\ placeUnits' = [placeUnits EXCEPT ![w.unit] = Places!Placed(w)]
      /\ placeWork' = [placeWork EXCEPT ![s] = Places!NoWork]
  BY <1>1 DEF Places!Write
<1>3. w # Places!NoWork
  BY <1>2 DEF Places!NoWork
<1>4. Moves(s) /\ w \in Places!WorkRows
  BY <1>1, <1>3, PlaceMoving
<1>5. w.unit \in SerialUnits /\ w.op \in {"receive", "issue", "transfer"}
  BY <1>1, <1>4 DEF Moves
<1>6. /\ Climbs' /\ Stands' /\ Places!TreeTypeOK' /\ Places!Live' = Places!Live
      /\ Places!Bins' = Places!Bins
  BY <1>2, PlaceStays
<1>7. /\ Places!Placed(w) \in Places!UnitRows
      /\ (w.op = "issue" => Places!Placed(w).status = "issued")
      /\ (w.op # "issue" => Places!Placed(w).status = "in_stock" /\ Places!Placed(w).at = w.to)
  <2>1. w.op # "issue" => w.to \in Nodes
    BY <1>1, <1>4, PlaceConstants DEF Moves
  <2> QED
    BY <1>5, <2>1 DEF Places!Placed, Places!UnitRows
<1>8. /\ placeUnits' \in [SerialUnits -> Places!UnitRows]
      /\ placeUnits'[w.unit] = Places!Placed(w)
      /\ \A u \in SerialUnits : u # w.unit => placeUnits'[u] = placeUnits[u]
  BY <1>2, <1>5, <1>7, PlaceTypes
<1>9. ASSUME NEW n \in Places!Bins
      PROVE  /\ placeLedger'[n] \in [SerialUnits -> Int]
             /\ placeLedger'[n][w.unit] = placeLedger[n][w.unit]
                  + (IF n = w.to THEN 1 ELSE 0) - (IF n = w.from THEN 1 ELSE 0)
             /\ \A u \in SerialUnits : u # w.unit => placeLedger'[n][u] = placeLedger[n][u]
  <2>1. PICK row : row = placeLedger[n] /\ row \in [SerialUnits -> Int]
    BY PlaceTypes
  <2>2. PICK d \in Int : d = (IF n = w.to THEN 1 ELSE 0) - (IF n = w.from THEN 1 ELSE 0)
    OBVIOUS
  <2>3. row[w.unit] \in Int
    BY <1>5, <2>1
  <2>4. row[w.unit] + (IF n = w.to THEN 1 ELSE 0) - (IF n = w.from THEN 1 ELSE 0) = row[w.unit] + d
    BY <2>2, <2>3
  <2>5. placeLedger'[n] = [row EXCEPT ![w.unit] = row[w.unit] + d]
    BY <1>2, <2>1, <2>4
  <2> QED
    BY <1>5, <2>1, <2>3, <2>4, <2>5
<1>10. DOMAIN placeLedger' = Places!Bins
  BY <1>2
<1>11. placeWork' \in [Sessions -> Places!WorkRows]
  <2>1. Places!NoWork \in Places!WorkRows
    BY DEF Places!NoWork, Places!WorkRows, Places!UnitRows, Places!Unknown
  <2> QED
    BY <1>2, <2>1, PlaceTypes
<1>12. Places!TypeOK'
  BY <1>6, <1>8, <1>9, <1>10, <1>11 DEF Places!TypeOK
<1>13. ASSUME NEW n \in Places!Bins
       PROVE  placeLedger'[n][w.unit] = IF At(w.unit, n)' THEN 1 ELSE 0
  <2>1. placeLedger[n][w.unit] = IF At(w.unit, n) THEN 1 ELSE 0
    BY <1>5 DEF PlaceInv, Stored
  <2>2. At(w.unit, n)' <=> w.op # "issue" /\ w.to = n
    BY <1>7, <1>8 DEF At
  <2>3. n # Places!NoParent
    BY PlaceConstants
  <2>4. CASE w.op = "receive"
    <3>1. ~At(w.unit, n) /\ w.from # n
      BY <1>1, <1>4, <2>3, <2>4 DEF Moves, At
    <3> QED
      BY <1>9, <2>1, <2>2, <2>4, <3>1
  <2>5. CASE w.op = "issue"
    <3>1. At(w.unit, n) <=> n = w.from
      BY <1>1, <1>2, <1>4, <2>5 DEF Moves, At
    <3>2. w.to # n
      BY <1>1, <1>4, <2>3, <2>5 DEF Moves
    <3> QED
      BY <1>9, <2>1, <2>2, <2>5, <3>1, <3>2
  <2>6. CASE w.op = "transfer"
    <3>1. (At(w.unit, n) <=> n = w.from) /\ w.from # w.to
      BY <1>1, <1>2, <1>4, <2>6 DEF Moves, At
    <3> QED
      BY <1>9, <2>1, <2>2, <2>6, <3>1
  <2> QED
    BY <1>5, <2>4, <2>5, <2>6
<1>14. Stored'
  <2>1. ASSUME NEW n \in Places!Bins, NEW u \in SerialUnits, u # w.unit
        PROVE  placeLedger'[n][u] = IF At(u, n)' THEN 1 ELSE 0
    BY <1>8, <1>9, <2>1 DEF PlaceInv, Stored, At
  <2> QED
    BY <1>6, <1>13, <2>1 DEF Stored
<1>15. Shelved'
  <2>1. w.op # "issue" => w.to \in Places!Bins \cap Places!Live
    BY <1>1, <1>4 DEF Moves
  <2> QED
    BY <1>6, <1>7, <1>8, <2>1 DEF PlaceInv, Shelved
<1>16. ASSUME NEW t \in Sessions, placeWork'[t] # Places!NoWork PROVE Moves(t)'
  <2>1. t # s /\ placeWork'[t] = placeWork[t]
    BY <1>2, <1>16, PlaceTypes
  <2>2. Moves(t)
    BY <1>16, <2>1 DEF PlaceInv
  <2>3. placeWork[t].unit = w.unit => placeWork[t].op # "receive" /\ ~placeWork[t].holds
    <3>1. SUFFICES ASSUME placeWork[t].unit = w.unit
                   PROVE  placeWork[t].op # "receive" /\ ~placeWork[t].holds
      OBVIOUS
    <3>2. t \in Other(s, w.unit) /\ s \in Other(t, w.unit)
      BY <1>1, <2>1, <3>1 DEF Other
    <3>3. CASE w.op = "receive"
      BY <1>1, <1>4, <3>2, <3>3 DEF Moves
    <3>4. CASE w.op # "receive"
      BY <1>1, <1>2, <1>4, <2>2, <3>1, <3>2, <3>4 DEF Moves
    <3> QED
      BY <3>3, <3>4
  <2>4. ASSUME NEW x \in Other(t, placeWork[t].unit)'
        PROVE  \/ placeWork'[x] = Places!NoWork
               \/ x \in Other(t, placeWork[t].unit) /\ placeWork'[x] = placeWork[x]
    BY <1>2, <2>1, PlaceTypes DEF Other
  <2>5. /\ ~Places!NoWork.holds /\ Places!NoWork.op # "receive"
        /\ Places!NoWork.seen.status # "in_stock"
    BY DEF Places!NoWork, Places!Unknown
  <2>6. placeWork[t].op = "receive" =>
          \A x \in Other(t, placeWork[t].unit)' :
            /\ ~placeWork'[x].holds /\ placeWork'[x].op # "receive"
            /\ placeWork'[x].seen.status # "in_stock"
    BY <2>2, <2>4, <2>5 DEF Moves
  <2>7. placeWork[t].op # "receive" /\ placeWork[t].holds =>
          \A x \in Other(t, placeWork[t].unit)' : ~placeWork'[x].holds
    BY <2>2, <2>4, <2>5 DEF Moves
  <2>8. (placeWork[t].op = "receive" \/ placeWork[t].holds) /\ placeWork[t].unit \in SerialUnits
          => placeUnits'[placeWork[t].unit] = placeUnits[placeWork[t].unit]
    BY <1>8, <2>3
  <2> QED
    BY <1>2, <1>6, <2>1, <2>2, <2>6, <2>7, <2>8 DEF Moves
<1>17. \A t \in Sessions : placeTx[t] = Places!Idle
  BY <1>4 DEF Moves
<1> QED
  BY <1>2, <1>6, <1>12, <1>14, <1>15, <1>16, <1>17 DEF PlaceInv

LEMMA PlaceGivesUp == ASSUME PlaceInv, NEW s \in Sessions, Places!GiveUp(s) PROVE PlaceInv'
<1>1. /\ placeState' = placeState /\ placeParent' = placeParent /\ placeTx' = placeTx
      /\ placeUnits' = placeUnits /\ placeLedger' = placeLedger
      /\ placeWork[s] # Places!NoWork
      /\ placeWork' = [placeWork EXCEPT ![s] = Places!NoWork]
  BY DEF Places!GiveUp
<1>2. /\ Climbs' /\ Stands' /\ Places!TreeTypeOK' /\ Places!Live' = Places!Live
      /\ Places!Bins' = Places!Bins
  BY <1>1, PlaceStays
<1>3. placeWork' \in [Sessions -> Places!WorkRows]
  <2>1. Places!NoWork \in Places!WorkRows
    BY DEF Places!NoWork, Places!WorkRows, Places!UnitRows, Places!Unknown
  <2> QED
    BY <1>1, <2>1, PlaceTypes
<1>4. Places!TypeOK' /\ Stored' /\ Shelved'
  BY <1>1, <1>2, <1>3, PlaceTypes DEF PlaceInv, Places!TypeOK, Stored, Shelved, At
<1>5. ASSUME NEW t \in Sessions, placeWork'[t] # Places!NoWork PROVE Moves(t)'
  <2>1. t # s /\ placeWork'[t] = placeWork[t]
    BY <1>1, <1>5, PlaceTypes
  <2>2. Moves(t)
    BY <1>5, <2>1 DEF PlaceInv
  <2>3. ASSUME NEW x \in Other(t, placeWork[t].unit)'
        PROVE  \/ placeWork'[x] = Places!NoWork
               \/ x \in Other(t, placeWork[t].unit) /\ placeWork'[x] = placeWork[x]
    BY <1>1, <2>1, PlaceTypes DEF Other
  <2>4. /\ ~Places!NoWork.holds /\ Places!NoWork.op # "receive"
        /\ Places!NoWork.seen.status # "in_stock"
    BY DEF Places!NoWork, Places!Unknown
  <2>5. placeWork[t].op = "receive" =>
          \A x \in Other(t, placeWork[t].unit)' :
            /\ ~placeWork'[x].holds /\ placeWork'[x].op # "receive"
            /\ placeWork'[x].seen.status # "in_stock"
    BY <2>2, <2>3, <2>4 DEF Moves
  <2>6. placeWork[t].op # "receive" /\ placeWork[t].holds =>
          \A x \in Other(t, placeWork[t].unit)' : ~placeWork'[x].holds
    BY <2>2, <2>3, <2>4 DEF Moves
  <2> QED
    BY <1>1, <1>2, <2>1, <2>2, <2>5, <2>6 DEF Moves
<1>6. \A t \in Sessions : placeTx[t] = Places!Idle
  BY <1>1, PlaceMoving DEF Moves
<1> QED
  BY <1>1, <1>2, <1>4, <1>5, <1>6 DEF PlaceInv

LEMMA PlaceStep == PlaceInv /\ [Places!Next]_(Places!vars) => PlaceInv'
<1> SUFFICES ASSUME PlaceInv, [Places!Next]_(Places!vars) PROVE PlaceInv'
  OBVIOUS
<1>1. CASE UNCHANGED Places!vars
  <2>1. /\ placeState' = placeState /\ placeParent' = placeParent /\ placeTx' = placeTx
        /\ placeUnits' = placeUnits /\ placeLedger' = placeLedger /\ placeWork' = placeWork
    BY <1>1 DEF Places!vars
  <2>2. /\ Climbs' /\ Stands' /\ Places!TreeTypeOK' /\ Places!Live' = Places!Live
        /\ Places!Bins' = Places!Bins
    BY <2>1, PlaceStays
  <2>3. Places!TypeOK' /\ Stored' /\ Shelved'
    BY <2>1, <2>2 DEF PlaceInv, Places!TypeOK, Stored, Shelved, At
  <2>4. \A s \in Sessions : Asks(s) => Asks(s)'
    BY <2>1, <2>2 DEF Asks, Places!MayStand, Places!Children
  <2>5. \A s \in Sessions : Moves(s) => Moves(s)'
    BY <2>1, <2>2 DEF Moves, Other
  <2> QED
    BY <2>1, <2>2, <2>3, <2>4, <2>5 DEF PlaceInv
<1>2. ASSUME NEW s \in Sessions, NEW n \in Nodes,
             \/ Places!RetireLocation(s, n)
             \/ \E p \in Nodes \cup {Places!NoParent} :
                  Places!CreateLocation(s, n, p) \/ Places!MoveLocation(s, n, p)
      PROVE  PlaceInv'
  <2>1. Places!NoParent \in Nodes \cup {Places!NoParent}
    OBVIOUS
  <2> QED
    BY <1>2, <2>1, PlaceBegins
<1>3. ASSUME NEW s \in Sessions, NEW u \in SerialUnits, NEW n \in Places!Bins,
             \/ Places!ReadReceive(s, u, n) \/ Places!ReadIssue(s, u, n)
             \/ \E m \in Places!Bins : Places!ReadTransfer(s, u, n, m)
      PROVE  PlaceInv'
  BY <1>3, PlaceReads
<1>4. ASSUME NEW s \in Sessions, Places!End(s) PROVE PlaceInv'
  BY <1>4, PlaceCommits, PlaceAborts DEF Places!End
<1> QED
  BY <1>1, <1>2, <1>3, <1>4, PlaceChecks, PlaceTakes, PlaceWrites, PlaceGivesUp DEF Places!Next

(* --------------------------------- recalls -------------------------------- *)

LEMMA TraceConstants ==
  /\ IsFiniteSet(Batches) /\ IsFiniteSet(Jobs) /\ MaxBatch \in Nat
  /\ Uses \in [Jobs -> SUBSET Batches] /\ Makes \in [Jobs -> SUBSET Batches]
  /\ Tracing!BuiltUpwards
  /\ Tracing!Cardinality(Batches) = Cardinality(Batches)
  /\ Tracing!Cardinality(Jobs) = Cardinality(Jobs)
<1>1. \A S : Tracing!IsFiniteSet(S) <=> IsFiniteSet(S)
  BY DEF Tracing!IsFiniteSet, IsFiniteSet
<1>2. \A S : Tracing!Cardinality(S) = Cardinality(S)
  BY DEF Tracing!Cardinality, Cardinality
<1>3. Tracing!TraceabilityAssumption
  BY Parameters
<1> QED
  BY <1>1, <1>2, <1>3 DEF Tracing!TraceabilityAssumption

(* An order is issued what its item is built from, and received as what it     *)
(* builds.                                                                     *)
TraceInv ==
  /\ Tracing!TypeOK
  /\ \A o \in Jobs : traceConsumed[o] \subseteq Uses[o] /\ traceProduced[o] \subseteq Makes[o]

LEMMA TraceStart == Tracing!Init => TraceInv
BY TraceConstants DEF Tracing!Init, TraceInv, Tracing!TypeOK

(* What a movement does to the row and the stock of its batch.                 *)
LEMMA TraceMoves ==
  ASSUME TraceInv, NEW b \in Batches, Tracing!Arrives(b) \/ Tracing!Leaves(b)
  PROVE  /\ traceBatches' \in [Batches -> {"absent", "live", "retired"}]
         /\ traceHeld' \in [Batches -> 0..MaxBatch]
<1>1. traceBatches' = [traceBatches EXCEPT ![b] = "live"] \/ traceBatches' = traceBatches
  BY DEF Tracing!Arrives, Tracing!Leaves
<1>2. PICK h \in 0..MaxBatch : traceHeld' = [traceHeld EXCEPT ![b] = h]
  <2>1. traceHeld[b] \in 0..MaxBatch
    BY DEF TraceInv, Tracing!TypeOK
  <2>2. CASE Tracing!Arrives(b)
    <3>1. traceHeld[b] + 1 \in 0..MaxBatch /\ traceHeld' = [traceHeld EXCEPT ![b] = traceHeld[b] + 1]
      BY <2>1, <2>2, TraceConstants DEF Tracing!Arrives
    <3> QED
      BY <3>1
  <2>3. CASE Tracing!Leaves(b)
    <3>1. traceHeld[b] - 1 \in 0..MaxBatch /\ traceHeld' = [traceHeld EXCEPT ![b] = traceHeld[b] - 1]
      BY <2>1, <2>3, TraceConstants DEF Tracing!Leaves
    <3> QED
      BY <3>1
  <2> QED
    BY <2>2, <2>3
<1> QED
  BY <1>1, <1>2 DEF TraceInv, Tracing!TypeOK

LEMMA TraceGoods ==
  ASSUME TraceInv, NEW b \in Batches, Tracing!ReceiveGoods(b) \/ Tracing!Ship(b) PROVE TraceInv'
<1>1. /\ Tracing!Arrives(b) \/ Tracing!Leaves(b)
      /\ traceSupplied' \subseteq traceSupplied \cup {b} /\ traceShipped' \subseteq traceShipped \cup {b}
      /\ traceConsumed' = traceConsumed /\ traceProduced' = traceProduced
  BY DEF Tracing!ReceiveGoods, Tracing!Ship
<1> QED
  BY <1>1, TraceMoves DEF TraceInv, Tracing!TypeOK

LEMMA TraceIssues ==
  ASSUME TraceInv, NEW o \in Jobs, NEW b \in Batches, Tracing!IssueMaterial(o, b) PROVE TraceInv'
<1>1. /\ Tracing!Arrives(b) \/ Tracing!Leaves(b)
      /\ traceSupplied' = traceSupplied /\ traceShipped' = traceShipped /\ b \in Uses[o]
      /\ traceConsumed' = [traceConsumed EXCEPT ![o] = @ \cup {b}] /\ traceProduced' = traceProduced
  BY DEF Tracing!IssueMaterial
<1> QED
  BY <1>1, TraceMoves DEF TraceInv, Tracing!TypeOK

LEMMA TraceFinishes ==
  ASSUME TraceInv, NEW o \in Jobs, NEW b \in Batches, Tracing!ReceiveFinished(o, b)
  PROVE  TraceInv'
<1>1. /\ Tracing!Arrives(b) \/ Tracing!Leaves(b)
      /\ traceSupplied' = traceSupplied /\ traceShipped' = traceShipped /\ b \in Makes[o]
      /\ traceProduced' = [traceProduced EXCEPT ![o] = @ \cup {b}] /\ traceConsumed' = traceConsumed
  BY DEF Tracing!ReceiveFinished
<1> QED
  BY <1>1, TraceMoves DEF TraceInv, Tracing!TypeOK

LEMMA TraceStep == TraceInv /\ [Tracing!Next]_(Tracing!vars) => TraceInv'
<1> SUFFICES ASSUME TraceInv, [Tracing!Next]_(Tracing!vars) PROVE TraceInv'
  OBVIOUS
<1>1. ASSUME NEW b \in Batches, Tracing!RetireBatch(b) PROVE TraceInv'
  BY <1>1 DEF Tracing!RetireBatch, TraceInv, Tracing!TypeOK
<1>2. CASE UNCHANGED Tracing!vars
  BY <1>2 DEF Tracing!vars, TraceInv, Tracing!TypeOK
<1> QED
  BY <1>1, <1>2, TraceGoods, TraceIssues, TraceFinishes DEF Tracing!Next

(* ------------------------- the walk of a recall ---------------------------- *)

(* One more round of the walk.                                                 *)
Onward(direction, steps, visited) ==
  visited \cup UNION {Tracing!Documents(direction, o) :
    o \in (UNION {Tracing!Steps(direction, b) : b \in visited}) \ steps}

Rounds(direction, steps, batch, v) ==
  v = [n \in 0..Tracing!Cardinality(Batches) |->
         IF n = 0 THEN {batch} ELSE Onward(direction, steps, v[n - 1])]

LEMMA OnwardStays ==
  ASSUME TraceInv, NEW direction, NEW steps, NEW T \in SUBSET Batches
  PROVE  Onward(direction, steps, T) \in SUBSET Batches /\ T \subseteq Onward(direction, steps, T)
<1>1. \A o \in Jobs : Tracing!Documents(direction, o) \subseteq Batches
  BY DEF TraceInv, Tracing!TypeOK, Tracing!Documents
<1>2. \A b : Tracing!Steps(direction, b) \subseteq Jobs
  BY DEF Tracing!Steps
<1> QED
  BY <1>1, <1>2 DEF Onward

LEMMA WalkIsChosen ==
  ASSUME NEW direction, NEW steps, NEW batch
  PROVE  Tracing!Walk(direction, batch, steps)
           = (CHOOSE v : Rounds(direction, steps, batch, v))[Tracing!Cardinality(Batches)]
BY DEF Tracing!Walk, Rounds, Onward

(* The walk is what its last round has visited.                                *)
Visits(v, direction, steps, batch) ==
  /\ v \in [0..Cardinality(Batches) -> SUBSET Batches] /\ v[0] = {batch}
  /\ \A n \in 1..Cardinality(Batches) : v[n] = Onward(direction, steps, v[n - 1])
  /\ Tracing!Walk(direction, batch, steps) = v[Cardinality(Batches)]

LEMMA WalkVisits ==
  ASSUME TraceInv, NEW direction, NEW steps, NEW batch \in Batches
  PROVE  \E v : Visits(v, direction, steps, batch)
<1>1. PICK C \in Nat : C = Cardinality(Batches)
  BY TraceConstants, FS_CardinalityType
<1> DEFINE A == SUBSET Batches
           step == [p \in A \X (1..C) |-> Onward(direction, steps, p[1])]
           Goes(v) == Rounds(direction, steps, batch, v)
<1>2. Stepping(step, A, C)
  BY OnwardStays DEF Stepping
<1>3. {batch} \in A
  OBVIOUS
<1>4. \A T \in A, n \in 1..C : step[<<T, n>>] = Onward(direction, steps, T)
  OBVIOUS
<1>5. PICK f : Iterates(f, step, A, {batch}, C)
  <2> HIDE DEF step, A
  <2> QED
    BY <1>2, <1>3, IterationExists
<1>6. \A n \in 1..C : f[n] = Onward(direction, steps, f[n - 1])
  <2>1. /\ f \in [0..C -> A] /\ \A n \in 1..C : n - 1 \in 0..C
        /\ \A n \in 1..C : f[n] = step[<<f[n - 1], n>>]
    <3> HIDE DEF A, step
    <3> QED
      BY <1>5 DEF Iterates
  <2>2. \A n \in 1..C : f[n - 1] \in A
    BY <2>1
  <2> QED
    BY <1>4, <2>1, <2>2
<1>7. Goes(f)
  <2>1. f = [n \in 0..C |-> f[n]]
    BY <1>5 DEF Iterates
  <2>2. \A n \in 0..C : f[n] = IF n = 0 THEN {batch} ELSE Onward(direction, steps, f[n - 1])
    BY <1>5, <1>6 DEF Iterates
  <2> QED
    BY <1>1, <2>1, <2>2, TraceConstants DEF Rounds
<1> DEFINE v == CHOOSE w : Goes(w)
<1>8. Goes(v)
  BY <1>7
<1>9. Tracing!Walk(direction, batch, steps) = v[C]
  BY <1>1, WalkIsChosen, TraceConstants
<1> HIDE DEF v
<1>10. v = [n \in 0..C |-> IF n = 0 THEN {batch} ELSE Onward(direction, steps, v[n - 1])]
  BY <1>1, <1>8, TraceConstants DEF Rounds
<1>11. /\ \A n \in 0..C : v[n] = IF n = 0 THEN {batch} ELSE Onward(direction, steps, v[n - 1])
       /\ DOMAIN v = 0..C
  BY <1>10
<1>13. v[0] = {batch} /\ \A n \in 1..C : v[n] = Onward(direction, steps, v[n - 1])
  BY <1>11
<1>12. v \in [0..C -> SUBSET Batches]
  <2> DEFINE Bad == {n \in 0..C : v[n] \notin SUBSET Batches}
  <2>1. ASSUME Bad # {} PROVE FALSE
    <3>1. Bad \in SUBSET Nat
      OBVIOUS
    <3>2. PICK n \in Bad : \A m \in Bad : n <= m
      <4> HIDE DEF Bad
      <4> QED
        BY <2>1, <3>1, LeastOf
    <3>3. n \in 1..C /\ n - 1 \in 0..C /\ n - 1 \notin Bad
      BY <1>13, <3>2
    <3>4. v[n - 1] \in SUBSET Batches
      BY <3>3
    <3> QED
      BY <1>13, <3>2, <3>3, <3>4, OnwardStays
  <2>2. \A n \in 0..C : v[n] \in SUBSET Batches
    BY <2>1
  <2> QED
    BY <1>10, <2>2
<1> QED
  BY <1>1, <1>9, <1>12, <1>13 DEF Visits

(* The walk goes on through every order it may take.                           *)
LEMMA WalkIsClosed ==
  ASSUME TraceInv, NEW direction, NEW steps, NEW batch \in Batches
  PROVE  LET W == Tracing!Walk(direction, batch, steps) IN
         /\ batch \in W /\ W \subseteq Batches
         /\ \A b \in W : \A o \in Tracing!Steps(direction, b) \ steps :
              Tracing!Documents(direction, o) \subseteq W
<1>0. PICK v : Visits(v, direction, steps, batch)
  BY WalkVisits
<1>1. /\ v \in [0..Cardinality(Batches) -> SUBSET Batches] /\ v[0] = {batch}
      /\ \A n \in 1..Cardinality(Batches) : v[n] = Onward(direction, steps, v[n - 1])
      /\ Tracing!Walk(direction, batch, steps) = v[Cardinality(Batches)]
  BY <1>0 DEF Visits
<1> DEFINE C == Cardinality(Batches)
           g == [T \in SUBSET Batches |-> Onward(direction, steps, T)]
<1>2. g \in [SUBSET Batches -> SUBSET Batches] /\ \A T \in SUBSET Batches : T \subseteq g[T]
  BY OnwardStays
<1>3. C \in Nat
  BY TraceConstants, FS_CardinalityType
<1>4. \A n \in 1..C : v[n] = g[v[n - 1]]
  <2>1. \A n \in 1..C : n - 1 \in 0..C
    BY <1>3
  <2>2. \A n \in 1..C : v[n - 1] \in SUBSET Batches
    BY <1>1, <2>1
  <2> QED
    BY <1>1, <2>2
<1>5. g[v[C]] = v[C]
  <2>1. v[0] # {}
    BY <1>1
  <2> HIDE DEF g
  <2> QED
    BY <1>1, <1>2, <1>4, <2>1, TraceConstants, WalkSettles
<1>6. v[C] \in SUBSET Batches
  BY <1>1, <1>3
<1>7. Onward(direction, steps, v[C]) = v[C]
  BY <1>5, <1>6
<1>8. batch \in v[C]
  <2> DEFINE Bad == {n \in 0..C : batch \notin v[n]}
  <2>1. ASSUME Bad # {} PROVE FALSE
    <3>1. Bad \in SUBSET Nat
      OBVIOUS
    <3>2. PICK n \in Bad : \A m \in Bad : n <= m
      <4> HIDE DEF Bad
      <4> QED
        BY <2>1, <3>1, LeastOf
    <3>3. n \in 1..C /\ n - 1 \in 0..C /\ n - 1 \notin Bad
      BY <1>1, <1>3, <3>2
    <3>4. v[n - 1] \in SUBSET Batches /\ batch \in v[n - 1]
      BY <1>1, <3>3
    <3>5. v[n - 1] \subseteq v[n]
      BY <1>2, <1>4, <3>3, <3>4
    <3> QED
      BY <3>2, <3>4, <3>5
  <2> QED
    BY <1>3, <2>1
<1>9. ASSUME NEW b \in v[C], NEW o \in Tracing!Steps(direction, b) \ steps
      PROVE  Tracing!Documents(direction, o) \subseteq v[C]
  <2>1. o \in (UNION {Tracing!Steps(direction, a) : a \in v[C]}) \ steps
    OBVIOUS
  <2> QED
    BY <1>7, <2>1 DEF Onward
<1> QED
  BY <1>1, <1>6, <1>8, <1>9

(* It visits nothing that it is not led to.                                    *)
LEMMA WalkIsLeast ==
  ASSUME TraceInv, NEW direction, NEW steps, NEW batch \in Batches, NEW Q, batch \in Q,
         \A b \in Q : \A o \in Tracing!Steps(direction, b) : Tracing!Documents(direction, o) \subseteq Q
  PROVE  Tracing!Walk(direction, batch, steps) \subseteq Q
<1>0. PICK v : Visits(v, direction, steps, batch)
  BY WalkVisits
<1>1. /\ v \in [0..Cardinality(Batches) -> SUBSET Batches] /\ v[0] = {batch}
      /\ \A n \in 1..Cardinality(Batches) : v[n] = Onward(direction, steps, v[n - 1])
      /\ Tracing!Walk(direction, batch, steps) = v[Cardinality(Batches)]
  BY <1>0 DEF Visits
<1>2. PICK C \in Nat : C = Cardinality(Batches)
  BY TraceConstants, FS_CardinalityType
<1> DEFINE Bad == {n \in 0..C : ~(v[n] \subseteq Q)}
<1>3. ASSUME Bad # {} PROVE FALSE
  <2>1. Bad \in SUBSET Nat
    OBVIOUS
  <2>2. PICK n \in Bad : \A m \in Bad : n <= m
    <3> HIDE DEF Bad
    <3> QED
      BY <1>3, <2>1, LeastOf
  <2>3. n \in 1..C /\ n - 1 \in 0..C /\ n - 1 \notin Bad
    BY <1>1, <2>2
  <2>4. v[n - 1] \subseteq Q
    BY <2>3
  <2>5. Onward(direction, steps, v[n - 1]) \subseteq Q
    BY <2>4 DEF Onward
  <2> QED
    BY <1>1, <1>2, <2>2, <2>3, <2>5
<1> QED
  BY <1>1, <1>2, <1>3

(* ----------------------------- what it names ------------------------------- *)

(* Along a chain of orders everything was built upwards.                       *)
Ranks(rank) ==
  /\ rank \in [Batches -> 0..Cardinality(Batches)]
  /\ \A o \in Jobs : \A used \in Uses[o], made \in Makes[o] : rank[used] < rank[made]

(* What the forward walk visits was built of the batch, or is the batch.       *)
LEMMA ForwardGoesUp ==
  ASSUME TraceInv, NEW rank, Ranks(rank), NEW batch \in Batches
  PROVE  \A b \in Tracing!Forward(batch) : b \in Batches /\ rank[batch] <= rank[b]
<1> DEFINE Q == {b \in Batches : rank[batch] <= rank[b]}
<1>1. \A b \in Batches : rank[b] \in Int
  BY TraceConstants, FS_CardinalityType DEF Ranks
<1>2. ASSUME NEW b \in Q, NEW o \in Tracing!Steps("forward", b)
      PROVE  Tracing!Documents("forward", o) \subseteq Q
  <2>1. o \in Jobs /\ b \in Uses[o]
    BY DEF Tracing!Steps, TraceInv
  <2>2. \A c \in Tracing!Documents("forward", o) : c \in Makes[o] /\ c \in Batches
    BY <2>1, TraceConstants DEF Tracing!Documents, TraceInv
  <2>3. \A c \in Tracing!Documents("forward", o) : rank[b] < rank[c]
    BY <2>1, <2>2 DEF Ranks
  <2> QED
    BY <1>1, <2>2, <2>3
<1>3. batch \in Q
  BY <1>1
<1>4. Tracing!Walk("forward", batch, {}) \subseteq Q
  <2> HIDE DEF Q
  <2> QED
    BY <1>2, <1>3, WalkIsLeast
<1> QED
  BY <1>4 DEF Tracing!Forward

(* Whatever a batch became by a chain of orders, the forward walk visits.      *)
LEMMA ForwardIsComplete ==
  ASSUME TraceInv, NEW batch \in Batches, NEW other \in Batches, NEW chain \in Tracing!Chains,
         NEW k \in 1..Cardinality(Jobs), Tracing!BecameBy(chain, k, batch, other)
  PROVE  other \in Tracing!Forward(batch)
<1> DEFINE F == Tracing!Forward(batch)
<1>1. /\ batch \in F
      /\ \A b \in F : \A o \in Tracing!Steps("forward", b) : Tracing!Documents("forward", o) \subseteq F
  BY WalkIsClosed DEF Tracing!Forward
<1> HIDE DEF F
<1>2. \A o \in Jobs : (\E b \in F : b \in traceConsumed[o]) => traceProduced[o] \subseteq F
  BY <1>1 DEF Tracing!Steps, Tracing!Documents
<1>3. PICK N \in Nat : N = Cardinality(Jobs)
  BY TraceConstants, FS_CardinalityType
<1>4. k \in 1..N /\ \A i \in 1..N : chain[i] \in Jobs
  BY <1>3, TraceConstants DEF Tracing!Chains
<1>5. /\ batch \in traceConsumed[chain[1]] /\ other \in traceProduced[chain[k]]
      /\ \A i \in 1..(k - 1) : traceProduced[chain[i]] \cap traceConsumed[chain[i + 1]] # {}
  BY DEF Tracing!BecameBy
<1> DEFINE Bad == {i \in 1..k : ~(traceProduced[chain[i]] \subseteq F)}
<1>6. ASSUME Bad # {} PROVE FALSE
  <2>1. Bad \in SUBSET Nat
    BY <1>4
  <2>2. PICK i \in Bad : \A m \in Bad : i <= m
    <3> HIDE DEF Bad
    <3> QED
      BY <1>6, <2>1, LeastOf
  <2>3. i # 1
    BY <1>1, <1>2, <1>4, <1>5, <2>2
  <2>4. i - 1 \in 1..(k - 1) /\ (i - 1) + 1 = i /\ i - 1 \notin Bad /\ i \in 1..N
    BY <1>4, <2>2, <2>3
  <2>5. traceProduced[chain[i - 1]] \subseteq F
    BY <1>4, <2>4
  <2>6. PICK b \in traceProduced[chain[i - 1]] : b \in traceConsumed[chain[i]]
    BY <1>5, <2>4
  <2> QED
    BY <1>2, <1>4, <2>2, <2>4, <2>5, <2>6
<1>7. k \in 1..k /\ k \notin Bad
  BY <1>4, <1>6
<1> QED
  BY <1>5, <1>7 DEF F

(* Whatever it was made of, the backward walk visits: no order on the way      *)
(* consumed anything that the forward walk had visited, for that is built      *)
(* above the batch and the way leads to it from below.                         *)
LEMMA BackwardIsComplete ==
  ASSUME TraceInv, NEW batch \in Batches, NEW other \in Batches, NEW chain \in Tracing!Chains,
         NEW k \in 1..Cardinality(Jobs), Tracing!BecameBy(chain, k, other, batch)
  PROVE  other \in Tracing!Backward(batch)
<1>1. PICK rank : Ranks(rank)
  BY TraceConstants DEF Tracing!BuiltUpwards, Ranks
<1>2. \A b \in Batches : rank[b] \in Int
  BY <1>1, TraceConstants, FS_CardinalityType DEF Ranks
<1>3. PICK N \in Nat : N = Cardinality(Jobs)
  BY TraceConstants, FS_CardinalityType
<1>4. k \in 1..N /\ \A i \in 1..N : chain[i] \in Jobs
  BY <1>3, TraceConstants DEF Tracing!Chains
<1>5. /\ other \in traceConsumed[chain[1]] /\ batch \in traceProduced[chain[k]]
      /\ \A i \in 1..(k - 1) : traceProduced[chain[i]] \cap traceConsumed[chain[i + 1]] # {}
  BY DEF Tracing!BecameBy
<1>6. \A o \in Jobs : \A b \in traceConsumed[o], c \in traceProduced[o] :
        b \in Batches /\ c \in Batches /\ rank[b] < rank[c]
  BY <1>1, TraceConstants DEF TraceInv, Ranks
<1> DEFINE B == Tracing!Backward(batch)
           Ahead == UNION {Tracing!Steps("forward", b) : b \in Tracing!Forward(batch)}
<1>7. /\ batch \in B
      /\ \A b \in B : \A o \in Tracing!Steps("backward", b) \ Ahead :
           Tracing!Documents("backward", o) \subseteq B
  BY WalkIsClosed DEF Tracing!Backward
<1>8. \A o \in Ahead : \E b \in traceConsumed[o] : b \in Batches /\ rank[batch] <= rank[b]
  BY <1>1, ForwardGoesUp DEF Tracing!Steps
<1> HIDE DEF B, Ahead
<1>9. \A o \in Jobs \ Ahead : (\E c \in B : c \in traceProduced[o]) => traceConsumed[o] \subseteq B
  BY <1>7 DEF Tracing!Steps, Tracing!Documents
<1> DEFINE Below(i) == /\ traceConsumed[chain[i]] \subseteq B
                       /\ \A b \in traceConsumed[chain[i]] : rank[b] < rank[batch]
           Bad == {j \in 0..(k - 1) : ~Below(k - j)}
<1>10. ASSUME NEW i \in 1..N, NEW c \in traceProduced[chain[i]], c \in B, rank[c] <= rank[batch]
       PROVE  Below(i)
  <2>1. \A b \in traceConsumed[chain[i]] : b \in Batches /\ rank[b] < rank[batch]
    BY <1>2, <1>4, <1>6, <1>10
  <2>2. chain[i] \notin Ahead
    BY <1>2, <1>8, <2>1
  <2> QED
    BY <1>4, <1>9, <1>10, <2>1, <2>2
<1>11. ASSUME Bad # {} PROVE FALSE
  <2>1. Bad \in SUBSET Nat
    BY <1>4
  <2>2. PICK j \in Bad : \A m \in Bad : j <= m
    <3> HIDE DEF Bad
    <3> QED
      BY <1>11, <2>1, LeastOf
  <2>3. k - j \in 1..N /\ ~Below(k - j)
    BY <1>4, <2>2
  <2>4. j # 0
    <3>1. Below(k)
      BY <1>2, <1>4, <1>5, <1>7, <1>10
    <3> QED
      BY <2>3, <3>1, <1>4
  <2>5. /\ j - 1 \in 0..(k - 1) /\ j - 1 \notin Bad
        /\ k - j \in 1..(k - 1) /\ (k - j) + 1 = k - (j - 1) /\ k - (j - 1) \in 1..N
    BY <1>4, <2>2, <2>4
  <2>6. Below(k - (j - 1))
    BY <2>5
  <2>7. PICK c \in traceProduced[chain[k - j]] : c \in traceConsumed[chain[k - (j - 1)]]
    BY <1>5, <2>5
  <2>8. c \in B /\ rank[c] < rank[batch] /\ c \in Batches
    BY <1>4, <1>6, <2>5, <2>6, <2>7
  <2>9. rank[c] <= rank[batch]
    BY <1>2, <2>8
  <2> HIDE DEF Below
  <2> QED
    BY <1>10, <2>3, <2>7, <2>8, <2>9
<1>12. k - 1 \in 0..(k - 1) /\ k - 1 \notin Bad /\ k - (k - 1) = 1
  BY <1>4, <1>11
<1>13. Below(1)
  BY <1>12
<1> QED
  BY <1>5, <1>13 DEF B

LEMMA TraceInvSuffices == TraceInv => Tracing!RecallIsComplete
<1> SUFFICES ASSUME TraceInv, NEW batch \in Batches, NEW other \in Batches
             PROVE  /\ (Tracing!Became(batch, other) /\ other \in traceShipped
                          => other \in Tracing!Customers(batch))
                    /\ (Tracing!Became(other, batch) /\ other \in traceSupplied
                          => other \in Tracing!Suppliers(batch))
  BY DEF Tracing!RecallIsComplete
<1>1. batch \in Tracing!Forward(batch)
  BY WalkIsClosed DEF Tracing!Forward
<1>2. ASSUME Tracing!Became(batch, other) PROVE other \in Tracing!Forward(batch)
  BY <1>1, <1>2, ForwardIsComplete, TraceConstants DEF Tracing!Became
<1>3. ASSUME Tracing!Became(other, batch)
      PROVE  other \in Tracing!Forward(batch) \cup Tracing!Backward(batch)
  BY <1>1, <1>3, BackwardIsComplete, TraceConstants DEF Tracing!Became
<1> QED
  BY <1>2, <1>3 DEF Tracing!Customers, Tracing!Suppliers

(* -------------------------------- production ------------------------------ *)

(* What an order was issued, and the minutes booked on it, as sums.            *)
Values(given) == [p \in Materials |-> given[p] * MaterialCost[p]]
Spent == [e \in Making!EntryRows |-> e.minutes]

(* The accounts of an order that was not costed are what the shop floor moved; *)
(* once all of it is received, or a costing began, no more of it arrives.      *)
MakeAccounts ==
  /\ makeBooks.wip = Making!IssuedValue(makeIssued) - makeReceipts.value
  /\ (makeReceipts.completes =>
        makeReceipts.units = Ordered /\ makeReceipts.value = makeReceipts.material)
  /\ makePosted <= 1
  /\ (makeCost = Making!Uncosted =>
        /\ makePosted = 0
        /\ makeBooks.inventory = makeReceipts.value - Making!IssuedValue(makeIssued))
  /\ (makeCost # Making!Uncosted =>
        /\ makeReceipts.units = Ordered
        /\ makeBooks.inventory + Making!IssuedValue(makeIssued)
             = makeCost.material + makeCost.labour)
  /\ \A s \in Sessions : makeCosting[s] # Making!Uncosted =>
       makeReceipts.units = Ordered /\ makeCosting[s].capitalised = makeReceipts.value

MakeTyped ==
  /\ makeStatus \in Making!Statuses
  /\ makeIssued \in [Materials -> Nat] /\ makeSigned \in [Materials -> BOOLEAN]
  /\ makeReceipts \in Making!ReceiptRows
  /\ makeCards \in [Operations -> {Making!None, "open", "closed"}]
  /\ makeEntries \subseteq Making!EntryRows
  /\ makeCost \in Making!CostRows \cup {Making!Uncosted}
  /\ makeBooks \in Making!Balances /\ makePosted \in Nat
  /\ makeCosting \in [Sessions -> Making!CostRows \cup {Making!Uncosted}]

(* What is on the shop floor, whatever was asked and is not written yet.       *)
ShopInv ==
  /\ MakeTyped
  /\ IsFiniteSet(makeEntries)
  /\ MakeAccounts
  /\ Making!MaterialCoversOutput
  /\ Making!ExcessIsOwned

(* Users take turns: who has asked is alone, so what the checks found still    *)
(* holds when it is written.                                                   *)
Bookings(k) == {e \in makeEntries : e.step = k /\ ~e.correction}
After(r) == [p \in Materials |-> makeIssued[p] + r.drawn[p]]
IssueFits(r) == makeIssued[r.part] + r.quantity <= Making!Ceiling(r.part) \/ r.override
BookingFits(r) == r.acknowledged \/ Making!Minutes(Bookings(r.step)) + r.minutes <= Planned
MadeFits(r) ==
  /\ makeReceipts.units + r.units <= Ordered
  /\ \A p \in Direct : After(r)[p] >= Making!Target(p, makeReceipts.units + r.units)
  /\ \A p \in Materials : After(r)[p] = makeIssued[p] \/ After(r)[p] <= Making!Ceiling(p)
  /\ makeReceipts.units + r.units = Ordered =>
       r.value = Making!IssuedValue(After(r)) - makeReceipts.value
  /\ r.completes = (makeReceipts.units + r.units = Ordered)
AskFits(r) == /\ r.op = "issue" => IssueFits(r)
              /\ r.op = "book" => BookingFits(r)
              /\ r.op = "receive" => MadeFits(r)
MakeAsks ==
  /\ makeAsked \in [Sessions -> Making!Requests]
  /\ \A s, t \in Sessions :
       makeAsked[s] # Making!Idle /\ makeAsked[t] # Making!Idle => s = t
  /\ \A s \in Sessions : AskFits(makeAsked[s])
MakeInv == ShopInv /\ MakeAsks

LEMMA MakeConstants ==
  /\ IsFiniteSet(Materials) /\ Direct \subseteq Materials
  /\ \A p \in Materials : Needed[p] \in Nat /\ MaterialCost[p] \in Nat /\ InStore[p] \in Nat
  /\ Ordered \in Nat /\ Ordered > 0 /\ Planned \in Nat /\ Rate \in Nat /\ Standard \in Nat
  /\ Tolerance \in Nat /\ LastEntry \in Nat
  /\ \A n \in Given \cup Booked : n \in Nat /\ n > 0
BY Parameters DEF Making!OrderAssumption, Making!IsFiniteSet, IsFiniteSet

LEMMA ProductOfNats == ASSUME NEW a \in Nat, NEW b \in Nat PROVE a * b \in Nat
OBVIOUS

LEMMA ProductSplits ==
  ASSUME NEW a \in Int, NEW b \in Int, NEW c \in Int PROVE (a + b) * c = a * c + b * c
OBVIOUS

LEMMA IssuedIsSum ==
  ASSUME NEW given \in [Materials -> Nat]
  PROVE  /\ Making!IssuedValue(given) = SumOver(Values(given), Materials)
         /\ \A p \in Materials : Values(given)[p] = given[p] * MaterialCost[p]
         /\ \A p \in Materials : Values(given)[p] \in Nat
         /\ Making!IssuedValue(given) \in Nat
<1> DEFINE f == Values(given)
           Plus(it, s) == IF s = {} THEN 0
                          ELSE given[First(s)] * MaterialCost[First(s)] + it[s \ {First(s)}]
<1>1. \A p \in Materials : f[p] = given[p] * MaterialCost[p]
  BY DEF Values
<1>2. \A p \in Materials : f[p] \in Nat
  BY <1>1, ProductOfNats, MakeConstants
<1>3. Making!IssuedValue(given) = SumOver(f, Materials)
  <2>1. ASSUME NEW it, NEW s \in SUBSET Materials PROVE Plus(it, s) = Added(f, it, s)
    <3>1. s # {} => First(s) \in Materials
      BY DEF First
    <3> QED
      BY <1>1, <3>1 DEF Added
  <2>2. ASSUME NEW it
        PROVE [s \in SUBSET Materials |-> Plus(it, s)] = [s \in SUBSET Materials |-> Added(f, it, s)]
    BY <2>1
  <2>3. (CHOOSE it : it = [s \in SUBSET Materials |-> Plus(it, s)])
          = CHOOSE it : Adds(f, SUBSET Materials, it)
    BY <2>2 DEF Adds
  <2>4. SumOver(f, Materials) = (CHOOSE it : Adds(f, SUBSET Materials, it))[Materials]
    BY SumIsChosen
  <2>5. Making!IssuedValue(given)
          = (CHOOSE it : it = [s \in SUBSET Materials |-> Plus(it, s)])[Materials]
    BY DEF Making!IssuedValue, Making!Total, Making!MapThenSumSet, Making!MapThenFoldSet, First
  <2> QED
    BY <2>3, <2>4, <2>5
<1>4. SumOver(f, Materials) \in Nat
  BY <1>2, SumOfNats, MakeConstants
<1> QED
  BY <1>1, <1>2, <1>3, <1>4

(* What one more issue adds.                                                   *)
LEMMA IssueAdds ==
  ASSUME NEW given \in [Materials -> Nat], NEW p \in Materials, NEW n \in Nat, NEW more,
         more = [given EXCEPT ![p] = given[p] + n]
  PROVE  /\ more \in [Materials -> Nat]
         /\ Making!IssuedValue(more) = Making!IssuedValue(given) + n * MaterialCost[p]
<1>1. PICK sum \in Nat : sum = given[p] + n
  OBVIOUS
<1>2. more = [given EXCEPT ![p] = sum]
  BY <1>1
<1>3. more \in [Materials -> Nat] /\ more[p] = sum
        /\ \A q \in Materials : q # p => more[q] = given[q]
  BY ONLY <1>2, given \in [Materials -> Nat], sum \in Nat, p \in Materials
<1>4. \A q \in Materials : Values(given)[q] \in Int /\ Values(more)[q] \in Int
  <2>1. \A q \in Materials : Values(given)[q] \in Nat
    BY IssuedIsSum
  <2>2. \A q \in Materials : Values(more)[q] \in Nat
    BY <1>3, IssuedIsSum
  <2> QED
    BY ONLY <2>1, <2>2
<1>5. \A q \in Materials : q # p => Values(more)[q] = Values(given)[q]
  BY <1>3, IssuedIsSum
<1>6. Values(more)[p] = Values(given)[p] + n * MaterialCost[p]
  <2>1. given[p] \in Int /\ n \in Int /\ MaterialCost[p] \in Int
    BY MakeConstants
  <2>2. (given[p] + n) * MaterialCost[p] = given[p] * MaterialCost[p] + n * MaterialCost[p]
    BY <2>1, ProductSplits
  <2>3. /\ Values(more)[p] = more[p] * MaterialCost[p]
        /\ Values(given)[p] = given[p] * MaterialCost[p]
    BY <1>3, IssuedIsSum
  <2> QED
    BY <1>1, <1>3, <2>2, <2>3
<1>7. SumOver(Values(more), Materials)
        = SumOver(Values(given), Materials) + Values(more)[p] - Values(given)[p]
  BY <1>4, <1>5, MakeConstants, SumOfChanged
<1>8. PICK a \in Int, b \in Int : a = Values(given)[p] /\ b = n * MaterialCost[p]
  BY <1>4, ProductOfNats, MakeConstants
<1>9. PICK c \in Nat : c = SumOver(Values(given), Materials)
  BY IssuedIsSum
<1>10. SumOver(Values(more), Materials) = c + b
  BY <1>6, <1>7, <1>8, <1>9
<1> QED
  BY <1>3, <1>8, <1>9, <1>10, IssuedIsSum

(* Rounding a share of a whole stays within the whole.                         *)
LEMMA RoundedWithin ==
  ASSUME NEW whole \in Nat, NEW d \in Nat, d > 0, NEW part \in 0..d
  PROVE  Making!Rounded(whole * part, d) \in 0..whole
<1>1. PICK n \in Nat : n = whole * part
  BY ProductOfNats
<1>2. PICK most \in Nat : most = whole * d
  BY ProductOfNats
<1>3. n <= most
  <2>1. PICK rest \in Nat : part + rest = d
    BY d - part \in Nat
  <2>2. whole * d = whole * part + whole * rest
    BY <2>1
  <2>3. whole * rest \in Nat
    BY ProductOfNats
  <2> QED
    BY <1>1, <1>2, <2>2, <2>3
<1>4. PICK low \in Int, rest \in 0..(d - 1) : low = n \div d /\ rest = n % d /\ n = d * low + rest
  OBVIOUS
<1>5. low >= 0
  <2>1. ASSUME low < 0 PROVE FALSE
    <3>1. d * low <= -d
      <4>1. PICK k \in Nat : low = -1 - k
        BY <2>1, -1 - low \in Nat
      <4>2. d * low = -d - d * k /\ d * k \in Nat
        BY <4>1, ProductOfNats
      <4> QED
        BY <4>2
    <3> QED
      BY <1>4, <3>1
  <2> QED
    BY <2>1
<1>6. low <= whole /\ (low = whole => rest = 0)
  <2>1. ASSUME NEW k \in Nat, low = whole + k PROVE k = 0 /\ rest = 0
    <3>1. d * low = most + d * k
      BY <1>2, <2>1
    <3>2. d * k + rest <= 0 /\ d * k \in Nat
      BY <1>3, <1>4, <3>1, ProductOfNats
    <3>3. rest = 0 /\ d * k = 0
      BY <1>4, <3>2
    <3>4. k = 0
      BY <3>3
    <3> QED
      BY <3>3, <3>4
  <2>2. CASE low < whole
    BY <2>2
  <2>3. CASE low >= whole
    <3>1. low - whole \in Nat /\ low = whole + (low - whole)
      BY <2>3
    <3> QED
      BY <2>1, <3>1
  <2> QED
    BY <2>2, <2>3
<1>7. Making!Rounded(n, d) \in {low, low + 1} /\ (rest = 0 => Making!Rounded(n, d) = low)
  BY <1>4 DEF Making!Rounded
<1> QED
  BY <1>1, <1>4, <1>5, <1>6, <1>7

LEMMA TargetWithin ==
  ASSUME NEW p \in Materials, NEW units \in 0..Ordered
  PROVE  Making!Target(p, units) \in 0..Needed[p] /\ Making!Target(p, 0) = 0
<1>1. Needed[p] \in Nat /\ Ordered \in Nat /\ Ordered > 0
  BY MakeConstants
<1>2. Making!Target(p, units) \in 0..Needed[p]
  BY <1>1, RoundedWithin DEF Making!Target
<1>3. Making!Rounded(0, Ordered) = 0
  <2>1. Making!Rounded(0 * 0, Ordered) \in 0..0
    BY <1>1, RoundedWithin
  <2> QED
    BY <2>1
<1>4. Making!Target(p, 0) = 0
  BY <1>1, <1>3 DEF Making!Target
<1> QED
  BY <1>2, <1>4

LEMMA CeilingCoversPlan ==
  ASSUME NEW p \in Materials PROVE Making!Ceiling(p) \in Int /\ Needed[p] <= Making!Ceiling(p)
<1>1. PICK n \in Nat : n = Needed[p]
  BY MakeConstants
<1>2. PICK more \in Nat : more = n * Tolerance
  BY ProductOfNats, MakeConstants
<1>3. n * (100 + Tolerance) = 100 * n + more
  BY <1>2, MakeConstants
<1>4. (100 * n + more) \div 100 \in Int /\ n <= (100 * n + more) \div 100
  OBVIOUS
<1> QED
  BY <1>1, <1>3, <1>4 DEF Making!Ceiling

(* The minutes of some bookings, as a sum.                                     *)
LEMMA MinutesAreSum ==
  ASSUME NEW S \in SUBSET Making!EntryRows, IsFiniteSet(S)
  PROVE  Making!Minutes(S) = SumOver(Spent, S) /\ Making!Minutes(S) \in Nat
<1> DEFINE Plus(it, s) == IF s = {} THEN 0 ELSE First(s).minutes + it[s \ {First(s)}]
<1>1. \A e \in Making!EntryRows : Spent[e] = e.minutes /\ Spent[e] \in Nat
  BY DEF Spent, Making!EntryRows
<1>2. ASSUME NEW it, NEW s \in SUBSET S PROVE Plus(it, s) = Added(Spent, it, s)
  <2>1. s # {} => First(s) \in Making!EntryRows
    BY DEF First
  <2> QED
    BY <1>1, <2>1 DEF Added
<1>3. ASSUME NEW it
      PROVE  [s \in SUBSET S |-> Plus(it, s)] = [s \in SUBSET S |-> Added(Spent, it, s)]
  BY <1>2
<1>4. (CHOOSE it : it = [s \in SUBSET S |-> Plus(it, s)]) = CHOOSE it : Adds(Spent, SUBSET S, it)
  BY <1>3 DEF Adds
<1>5. SumOver(Spent, S) = (CHOOSE it : Adds(Spent, SUBSET S, it))[S]
  BY SumIsChosen
<1>6. Making!Minutes(S) = (CHOOSE it : it = [s \in SUBSET S |-> Plus(it, s)])[S]
  BY DEF Making!Minutes, Making!Total, Making!MapThenSumSet, Making!MapThenFoldSet, First
<1>7. SumOver(Spent, S) \in Nat
  BY <1>1, SumOfNats
<1> QED
  BY <1>4, <1>5, <1>6, <1>7

LEMMA ShopStart == Making!Init => ShopInv
<1> SUFFICES ASSUME Making!Init PROVE ShopInv
  OBVIOUS
<1>1. /\ makeStatus = Making!None
      /\ makeIssued = [p \in Materials |-> 0] /\ makeSigned = [p \in Materials |-> FALSE]
      /\ makeReceipts = [units |-> 0, value |-> 0, completes |-> FALSE, material |-> 0]
      /\ makeCards = [k \in Operations |-> Making!None] /\ makeEntries = {}
      /\ makeCost = Making!Uncosted /\ makePosted = 0
      /\ makeBooks = [wip |-> 0, inventory |-> 0, labour |-> 0, variance |-> 0]
      /\ makeCosting = [s \in Sessions |-> Making!Uncosted]
  BY DEF Making!Init
<1>2. makeIssued \in [Materials -> Nat] /\ \A p \in Materials : makeIssued[p] = 0
  BY <1>1
<1>3. 0 \in 0..Ordered
  BY MakeConstants
<1>4. MakeTyped
  <2>1. makeReceipts \in Making!ReceiptRows
    BY <1>1, <1>3 DEF Making!ReceiptRows
  <2>2. makeBooks \in Making!Balances
    BY <1>1 DEF Making!Balances
  <2>3. /\ makeCost \in Making!CostRows \cup {Making!Uncosted}
        /\ makeCosting \in [Sessions -> Making!CostRows \cup {Making!Uncosted}]
    BY <1>1
  <2>4. /\ makeSigned \in [Materials -> BOOLEAN] /\ makeEntries \subseteq Making!EntryRows
        /\ makeCards \in [Operations -> {Making!None, "open", "closed"}]
        /\ makeStatus \in Making!Statuses /\ makePosted \in Nat
    BY <1>1 DEF Making!Statuses
  <2> QED
    BY <1>2, <2>1, <2>2, <2>3, <2>4 DEF MakeTyped
<1>5. Making!IssuedValue(makeIssued) = 0
  <2>1. \A p \in Materials : Values(makeIssued)[p] = 0
    <3>1. \A p \in Materials : 0 * MaterialCost[p] = 0
      BY MakeConstants
    <3> QED
      BY <1>2, <3>1, IssuedIsSum
  <2>2. SumOver(Values(makeIssued), Materials) = 0
    BY <2>1, SumOfZeros, MakeConstants
  <2> QED
    BY <1>2, <2>2, IssuedIsSum
<1>6. MakeAccounts
  BY <1>1, <1>5 DEF MakeAccounts
<1>7. Making!MaterialCoversOutput
  <2>1. \A p \in Direct : Making!Target(p, 0) = 0 /\ p \in Materials
    BY <1>3, TargetWithin, MakeConstants
  <2> QED
    BY <1>1, <1>2, <2>1 DEF Making!MaterialCoversOutput
<1>8. Making!ExcessIsOwned
  <2>1. ASSUME NEW p \in Materials PROVE ~(makeIssued[p] > Making!Ceiling(p))
    BY <1>2, CeilingCoversPlan, MakeConstants
  <2>2. ASSUME NEW k \in Operations
        PROVE  ~(Making!Minutes({e \in makeEntries : e.step = k /\ ~e.correction}) > Planned)
    <3>1. {e \in makeEntries : e.step = k /\ ~e.correction} = {}
      BY <1>1
    <3>2. Making!Minutes({}) = 0
      BY MinutesAreSum, SumOfNone, FS_EmptySet
    <3>3. Making!Minutes({e \in makeEntries : e.step = k /\ ~e.correction}) = 0
      BY <3>1, <3>2
    <3>4. ~(0 > Planned)
      BY MakeConstants
    <3> QED
      BY <3>3, <3>4
  <2> QED
    BY <2>1, <2>2 DEF Making!ExcessIsOwned
<1>9. IsFiniteSet(makeEntries)
  BY <1>1, FS_EmptySet
<1> QED
  BY <1>4, <1>6, <1>7, <1>8, <1>9 DEF ShopInv

(* The order and its cards move on.                                            *)
LEMMA ShopMoves ==
  ASSUME ShopInv,
         \/ Making!CreateWorkOrder \/ Making!Advance
         \/ \E k \in Operations : Making!OpenCard(k) \/ Making!CloseCard(k)
         \/ \E s \in Sessions, r \in Making!Requests : Making!Asks(s, r)
         \/ \E s \in Sessions : Making!Drop(s)
         \/ UNCHANGED Making!vars
  PROVE  ShopInv'
<1>1. /\ makeIssued' = makeIssued /\ makeSigned' = makeSigned /\ makeReceipts' = makeReceipts
      /\ makeEntries' = makeEntries /\ makeCost' = makeCost /\ makeBooks' = makeBooks
      /\ makePosted' = makePosted /\ makeCosting' = makeCosting
  BY DEF Making!CreateWorkOrder, Making!Advance, Making!OpenCard, Making!CloseCard, Making!floor,
         Making!finance, Making!Asks, Making!Drop, Making!vars
<1>2. makeStatus' \in Making!Statuses
  BY DEF Making!CreateWorkOrder, Making!Advance, Making!OpenCard, Making!CloseCard, Making!vars,
         Making!Asks, Making!Drop, Making!Statuses, Making!Transitions, ShopInv, MakeTyped
<1>3. makeCards' \in [Operations -> {Making!None, "open", "closed"}]
  BY DEF Making!CreateWorkOrder, Making!Advance, Making!OpenCard, Making!CloseCard, Making!vars,
         Making!Asks, Making!Drop, Making!floor, ShopInv, MakeTyped
<1>4. MakeTyped'
  BY <1>1, <1>2, <1>3 DEF ShopInv, MakeTyped
<1>5. MakeAccounts' /\ Making!MaterialCoversOutput' /\ Making!ExcessIsOwned'
  BY <1>1 DEF ShopInv, MakeAccounts, Making!MaterialCoversOutput, Making!ExcessIsOwned
<1> QED
  BY <1>1, <1>4, <1>5 DEF ShopInv

(* Minutes beyond the plan come with a name, however many bookings made them.  *)
LEMMA MakeBooks ==
  ASSUME ShopInv, NEW k \in Operations, NEW minutes \in Booked,
         NEW acknowledged \in BOOLEAN, NEW correction \in BOOLEAN,
         Making!Entry(k, minutes, acknowledged, correction),
         correction \/ acknowledged \/ Making!Minutes(Bookings(k)) + minutes <= Planned
  PROVE  ShopInv'
<1> DEFINE n == Cardinality(makeEntries)
           new == [n |-> n + 1, step |-> k, minutes |-> minutes,
                   acknowledged |-> acknowledged, correction |-> correction]
<1>2. /\ n < LastEntry /\ makeEntries' = makeEntries \cup {new}
      /\ makeStatus' = makeStatus
      /\ makeIssued' = makeIssued /\ makeSigned' = makeSigned /\ makeReceipts' = makeReceipts
      /\ makeCards' = makeCards /\ makeCost' = makeCost /\ makeBooks' = makeBooks
      /\ makePosted' = makePosted /\ makeCosting' = makeCosting
  BY DEF Making!Entry, Making!finance, Making!Cardinality, Cardinality
<1>3. n \in Nat
  BY FS_CardinalityType DEF ShopInv
<1>4. minutes \in Nat \ {0}
  BY MakeConstants
<1>5. new \in Making!EntryRows
  <2>1. n + 1 \in 1..LastEntry
    BY <1>2, <1>3, MakeConstants
  <2> QED
    BY <1>4, <2>1 DEF Making!EntryRows
<1>6. new.step = k /\ new.minutes = minutes /\ new.acknowledged = acknowledged
        /\ new.correction = correction
  OBVIOUS
<1> HIDE DEF n, new
<1>7. makeEntries' \subseteq Making!EntryRows /\ IsFiniteSet(makeEntries')
  BY <1>2, <1>5, FS_AddElement DEF ShopInv, MakeTyped
<1>8. MakeTyped'
  BY <1>2, <1>7 DEF ShopInv, MakeTyped
<1>9. MakeAccounts' /\ Making!MaterialCoversOutput'
  BY <1>2 DEF ShopInv, MakeAccounts, Making!MaterialCoversOutput
<1>10. Making!ExcessIsOwned'
  <2> DEFINE Of(entries, j) == {e \in entries : e.step = j /\ ~e.correction}
  <2>1. \A p \in Materials : makeIssued'[p] > Making!Ceiling(p) => makeSigned'[p]
    BY <1>2 DEF ShopInv, Making!ExcessIsOwned
  <2>2. ASSUME NEW j \in Operations, Making!Minutes(Of(makeEntries', j)) > Planned
        PROVE  \E e \in Of(makeEntries', j) : e.acknowledged
    <3>1. CASE Of(makeEntries', j) = Of(makeEntries, j)
      <4>1. \E e \in Of(makeEntries, j) : e.acknowledged
        BY <2>2, <3>1 DEF ShopInv, Making!ExcessIsOwned
      <4> QED
        BY <3>1, <4>1
    <3>2. CASE Of(makeEntries', j) # Of(makeEntries, j)
      <4>1. /\ new \notin makeEntries /\ j = k /\ ~correction
            /\ Of(makeEntries', j) = Of(makeEntries, k) \cup {new}
            /\ new \notin Of(makeEntries, k)
        BY <1>2, <1>6, <3>2
      <4>2. PICK T \in SUBSET Making!EntryRows : T = Of(makeEntries, k) /\ T = Bookings(k)
        <5>1. Of(makeEntries, k) \in SUBSET Making!EntryRows
          BY DEF ShopInv, MakeTyped
        <5>2. Of(makeEntries, k) = Bookings(k)
          BY DEF Bookings
        <5> HIDE DEF Of
        <5> QED
          BY <5>1, <5>2
      <4>3. IsFiniteSet(T) /\ IsFiniteSet(T \cup {new})
        <5>1. T \subseteq makeEntries
          BY <4>2
        <5> QED
          BY <5>1, FS_Subset, FS_AddElement DEF ShopInv
      <4>4. \A e \in Making!EntryRows : Spent[e] = e.minutes /\ Spent[e] \in Nat
        BY DEF Spent, Making!EntryRows
      <4>5. SumOver(Spent, T \cup {new}) = SumOver(Spent, T) + minutes
        <5>1. (\A e \in T : Spent[e] \in Int) /\ Spent[new] \in Int /\ Spent[new] = minutes
          BY <1>5, <1>6, <4>4
        <5>2. new \notin T
          BY <4>1, <4>2
        <5> QED
          BY <4>3, <5>1, <5>2, SumOfOneMore
      <4>6. /\ Making!Minutes(T) = SumOver(Spent, T) /\ Making!Minutes(T) \in Nat
            /\ Making!Minutes(T \cup {new}) = SumOver(Spent, T \cup {new})
        BY <1>5, <4>3, MinutesAreSum
      <4>7. Making!Minutes(T) + minutes > Planned
        BY <2>2, <4>1, <4>2, <4>5, <4>6
      <4>8. acknowledged
        <5>1. PICK m \in Nat : m = Making!Minutes(Bookings(k)) /\ m + minutes > Planned
          BY <4>2, <4>6, <4>7
        <5>2. ~(m + minutes <= Planned)
          BY <1>4, <5>1, MakeConstants
        <5> QED
          BY <4>1, <5>1, <5>2
      <4> QED
        BY <1>6, <4>1, <4>8
    <3> QED
      BY <3>1, <3>2
  <2> QED
    BY <2>1, <2>2 DEF Making!ExcessIsOwned
<1> QED
  BY <1>7, <1>8, <1>9, <1>10 DEF ShopInv

(* The balances that a movement of material changes, and that costing changes. *)
LEMMA OneBalance ==
  ASSUME NEW q \in Making!Balances, NEW x
  PROVE  /\ [q EXCEPT !.wip = x] = [wip |-> x, inventory |-> q.inventory,
                                    labour |-> q.labour, variance |-> q.variance]
         /\ [q EXCEPT !.inventory = x] = [wip |-> q.wip, inventory |-> x,
                                          labour |-> q.labour, variance |-> q.variance]
         /\ [q EXCEPT !.labour = x] = [wip |-> q.wip, inventory |-> q.inventory,
                                       labour |-> x, variance |-> q.variance]
         /\ [q EXCEPT !.variance = x] = [wip |-> q.wip, inventory |-> q.inventory,
                                         labour |-> q.labour, variance |-> x]
BY DEF Making!Balances

LEMMA MovedBooks ==
  ASSUME NEW q \in Making!Balances, NEW w \in Int, NEW i \in Int
  PROVE  [q EXCEPT !.wip = w, !.inventory = i]
           = [wip |-> w, inventory |-> i, labour |-> q.labour, variance |-> q.variance]
<1> DEFINE moved == [wip |-> w, inventory |-> q.inventory,
                     labour |-> q.labour, variance |-> q.variance]
<1>1. moved \in Making!Balances
  BY DEF Making!Balances
<1>2. [q EXCEPT !.wip = w] = moved
  BY OneBalance
<1>3. [moved EXCEPT !.inventory = i]
        = [wip |-> w, inventory |-> i, labour |-> q.labour, variance |-> q.variance]
  BY <1>1, OneBalance
<1>4. [q EXCEPT !.wip = w, !.inventory = i] = [[q EXCEPT !.wip = w] EXCEPT !.inventory = i]
  OBVIOUS
<1> HIDE DEF moved
<1> QED
  BY <1>2, <1>3, <1>4

LEMMA CostedBooks ==
  ASSUME NEW q \in Making!Balances, NEW i \in Int, NEW l \in Int, NEW v \in Int
  PROVE  [q EXCEPT !.inventory = i, !.labour = l, !.variance = v]
           = [wip |-> q.wip, inventory |-> i, labour |-> l, variance |-> v]
<1> DEFINE valued == [wip |-> q.wip, inventory |-> i,
                      labour |-> q.labour, variance |-> q.variance]
           owed == [wip |-> q.wip, inventory |-> i, labour |-> l, variance |-> q.variance]
<1>1. valued \in Making!Balances /\ owed \in Making!Balances
  BY DEF Making!Balances
<1>2. [q EXCEPT !.inventory = i] = valued
  BY OneBalance
<1>3. [valued EXCEPT !.labour = l] = owed
  BY <1>1, OneBalance
<1>4. [owed EXCEPT !.variance = v]
        = [wip |-> q.wip, inventory |-> i, labour |-> l, variance |-> v]
  BY <1>1, OneBalance
<1>5. [q EXCEPT !.inventory = i, !.labour = l, !.variance = v]
        = [[[q EXCEPT !.inventory = i] EXCEPT !.labour = l] EXCEPT !.variance = v]
  OBVIOUS
<1> HIDE DEF valued, owed
<1> QED
  BY <1>2, <1>3, <1>4, <1>5

(* Material that is issued moves from the store to the work in progress.       *)
LEMMA MakeIssues ==
  ASSUME ShopInv, NEW s \in Sessions, NEW p \in Materials, NEW quantity \in Given,
         NEW override \in BOOLEAN, makeIssued[p] + quantity <= Making!Ceiling(p) \/ override,
         p = makeAsked[s].part, quantity = makeAsked[s].quantity,
         override = makeAsked[s].override, Making!CommitIssue(s)
  PROVE  ShopInv'
<1>1. /\ makeIssued' = [makeIssued EXCEPT ![p] = makeIssued[p] + quantity]
      /\ makeSigned' = [makeSigned EXCEPT ![p] = makeSigned[p] \/ override]
      /\ makeBooks' = [makeBooks EXCEPT !.wip = makeBooks.wip + quantity * MaterialCost[p],
                                  !.inventory = makeBooks.inventory - quantity * MaterialCost[p]]
      /\ makeStatus' = makeStatus /\ makeReceipts' = makeReceipts /\ makeCards' = makeCards
      /\ makeEntries' = makeEntries /\ makeCost' = makeCost /\ makePosted' = makePosted
      /\ makeCosting' = makeCosting
  BY DEF Making!CommitIssue, Making!floor
<1>2. quantity \in Nat
  BY MakeConstants
<1>3. PICK x \in Nat : x = quantity * MaterialCost[p]
  BY <1>2, ProductOfNats, MakeConstants
<1>4. PICK more : more = makeIssued'
  OBVIOUS
<1>5. PICK given \in [Materials -> Nat] :
        /\ given = makeIssued
        /\ more = [given EXCEPT ![p] = given[p] + quantity]
  BY <1>1, <1>4 DEF ShopInv, MakeTyped
<1>6. /\ more \in [Materials -> Nat]
      /\ Making!IssuedValue(more) = Making!IssuedValue(given) + x
  <2>1. /\ more \in [Materials -> Nat]
        /\ Making!IssuedValue(more) = Making!IssuedValue(given) + quantity * MaterialCost[p]
    <3>1. \A n \in Nat : more = [given EXCEPT ![p] = given[p] + n] =>
            /\ more \in [Materials -> Nat]
            /\ Making!IssuedValue(more) = Making!IssuedValue(given) + n * MaterialCost[p]
      BY ONLY given \in [Materials -> Nat], p \in Materials, IssueAdds
    <3> QED
      BY ONLY <1>2, <1>5, <3>1
  <2> QED
    BY <1>3, <2>1
<1>7. /\ \A q \in Materials : q # p => more[q] = given[q]
      /\ more[p] = given[p] + quantity
  BY <1>5
<1>8. PICK books \in Making!Balances : books = makeBooks
  BY DEF ShopInv, MakeTyped
<1>9. books.wip \in Int /\ books.inventory \in Int /\ books.labour \in Int /\ books.variance \in Int
  BY DEF Making!Balances
<1>10. PICK wip \in Int, inventory \in Int : wip = books.wip + x /\ inventory = books.inventory - x
  BY <1>9
<1>11. makeBooks' = [wip |-> wip, inventory |-> inventory,
                     labour |-> books.labour, variance |-> books.variance]
  <2>1. makeBooks' = [books EXCEPT !.wip = wip, !.inventory = inventory]
    BY <1>1, <1>3, <1>8, <1>10
  <2> QED
    BY <1>8, <1>9, <2>1, MovedBooks
<1>12. makeBooks' \in Making!Balances /\ makeBooks'.wip = wip /\ makeBooks'.inventory = inventory
  BY <1>9, <1>11 DEF Making!Balances
<1>13. makeSigned' \in [Materials -> BOOLEAN]
         /\ \A q \in Materials : (makeSigned[q] => makeSigned'[q])
         /\ (override => makeSigned'[p])
  BY <1>1 DEF ShopInv, MakeTyped
<1>14. MakeTyped'
  BY <1>1, <1>4, <1>5, <1>6, <1>12, <1>13 DEF ShopInv, MakeTyped
<1>15. MakeAccounts'
  <2>1. PICK v \in Int : v = Making!IssuedValue(given)
    BY IssuedIsSum
  <2>2. PICK r \in Nat : r = makeReceipts.value
    BY DEF ShopInv, MakeTyped, Making!ReceiptRows
  <2>3. PICK w \in Int, i \in Int : w = books.wip /\ i = books.inventory
    BY <1>9
  <2>4. Making!IssuedValue(makeIssued') = v + x
    BY <1>4, <1>5, <1>6, <2>1
  <2>5. makeBooks'.wip = Making!IssuedValue(makeIssued') - makeReceipts.value
    <3>1. w = v - r
      BY <1>4, <1>5, <1>8, <2>1, <2>2, <2>3 DEF ShopInv, MakeAccounts
    <3>2. w + x = (v + x) - r
      BY ONLY <3>1, w \in Int, v \in Int, r \in Nat, x \in Nat
    <3> QED
      BY <1>10, <1>12, <2>2, <2>3, <2>4, <3>2
  <2>6. ASSUME makeCost = Making!Uncosted
        PROVE  makeBooks'.inventory = makeReceipts.value - Making!IssuedValue(makeIssued')
    <3>1. i = r - v
      BY <1>4, <1>5, <1>8, <2>1, <2>2, <2>3, <2>6 DEF ShopInv, MakeAccounts
    <3>2. i - x = r - (v + x)
      BY ONLY <3>1, i \in Int, v \in Int, r \in Nat, x \in Nat
    <3> QED
      BY <1>10, <1>12, <2>2, <2>3, <2>4, <3>2
  <2>7. ASSUME makeCost # Making!Uncosted
        PROVE  makeBooks'.inventory + Making!IssuedValue(makeIssued')
                 = makeCost.material + makeCost.labour
    <3>1. i + v = makeCost.material + makeCost.labour
      BY <1>4, <1>5, <1>8, <2>1, <2>3, <2>7 DEF ShopInv, MakeAccounts
    <3>2. (i - x) + (v + x) = i + v
      OBVIOUS
    <3> QED
      BY <1>10, <1>12, <2>3, <2>4, <3>1, <3>2
  <2> QED
    BY <1>1, <2>5, <2>6, <2>7 DEF ShopInv, MakeAccounts
<1>16. Making!MaterialCoversOutput'
  <2>1. ASSUME NEW q \in Direct PROVE more[q] >= Making!Target(q, makeReceipts.units)
    <3>1. given[q] >= Making!Target(q, makeReceipts.units) /\ q \in Materials
      BY <1>4, <1>5, MakeConstants DEF ShopInv, Making!MaterialCoversOutput
    <3>2. makeReceipts.units \in 0..Ordered
      BY DEF ShopInv, MakeTyped, Making!ReceiptRows
    <3>3. PICK target \in Nat : target = Making!Target(q, makeReceipts.units)
      BY <3>1, <3>2, TargetWithin, MakeConstants
    <3>4. PICK old \in Nat, new \in Nat : old = given[q] /\ new = more[q]
      BY <1>6, <3>1
    <3>5. new = old \/ new = old + quantity
      BY <1>7, <3>1, <3>4
    <3> QED
      BY <1>2, <3>1, <3>3, <3>4, <3>5
  <2> QED
    BY <1>1, <1>4, <1>5, <2>1 DEF Making!MaterialCoversOutput
<1>17. Making!ExcessIsOwned'
  <2>1. ASSUME NEW q \in Materials, more[q] > Making!Ceiling(q) PROVE makeSigned'[q]
    <3>1. CASE q = p
      <4>1. PICK ceiling \in Int, new \in Nat : ceiling = Making!Ceiling(q) /\ new = more[q]
        BY <1>6, CeilingCoversPlan
      <4>2. new > ceiling /\ (new <= ceiling \/ override)
        BY <1>1, <1>4, <1>5, <1>7, <2>1, <3>1, <4>1
      <4>3. override
        BY <4>2
      <4> QED
        BY <1>13, <3>1, <4>3
    <3>2. CASE q # p
      BY <1>4, <1>5, <1>7, <1>13, <2>1, <3>2 DEF ShopInv, Making!ExcessIsOwned
    <3> QED
      BY <3>1, <3>2
  <2> QED
    BY <1>1, <1>4, <1>5, <2>1 DEF ShopInv, Making!ExcessIsOwned
<1> QED
  BY <1>1, <1>14, <1>15, <1>16, <1>17 DEF ShopInv

LEMMA RequestFields ==
  ASSUME NEW r \in Making!Requests
  PROVE  /\ r = Making!Idle => r.op = "none"
         /\ r.op = "issue" => r.part \in Materials /\ r.quantity \in Given /\ r.override \in BOOLEAN
         /\ r.op = "book" => /\ r.step \in Operations /\ r.minutes \in Booked
                             /\ r.acknowledged \in BOOLEAN
         /\ r.op = "receive" => /\ r.units \in Given /\ r.drawn \in [Materials -> Nat]
                                /\ r.value \in Nat /\ r.value > 0
                                /\ r.completes \in BOOLEAN
BY DEF Making!Requests, Making!Idle, Making!None

LEMMA TwoHaveEnds ==
  \A a, b \in Int :
    /\ Making!Max({a, b}) \in {a, b} /\ Making!Max({a, b}) >= a /\ Making!Max({a, b}) >= b
    /\ Making!Min({a, b}) \in {a, b}
<1> SUFFICES ASSUME NEW a \in Int, NEW b \in Int
    PROVE  /\ Making!Max({a, b}) \in {a, b}
           /\ Making!Max({a, b}) >= a /\ Making!Max({a, b}) >= b
           /\ Making!Min({a, b}) \in {a, b}
  OBVIOUS
<1>1. (\E x \in {a, b} : \A y \in {a, b} : x >= y) /\ (\E x \in {a, b} : \A y \in {a, b} : x <= y)
  <2>1. CASE a <= b
    BY <2>1
  <2>2. CASE b <= a
    BY <2>2
  <2> QED
    BY <2>1, <2>2
<1>2. /\ Making!Max({a, b}) \in {a, b} /\ \A y \in {a, b} : Making!Max({a, b}) >= y
      /\ Making!Min({a, b}) \in {a, b}
  BY <1>1 DEF Making!Max, Making!Min
<1> QED
  BY <1>2

(* What a receipt leaves issued: never less, and more than the plan only where *)
(* more was issued before.                                                     *)
LEMMA GivenForReceipt ==
  ASSUME ShopInv, NEW units \in Given, NEW backflush \in BOOLEAN,
         makeReceipts.units + units <= Ordered, ~backflush => Making!Covered(units),
         NEW given, given = IF backflush THEN Making!Backflushed(units) ELSE makeIssued
  PROVE  /\ given \in [Materials -> Nat]
         /\ \A p \in Direct : given[p] >= Making!Target(p, makeReceipts.units + units)
         /\ \A p \in Materials : /\ given[p] - makeIssued[p] \in Nat
                                 /\ given[p] = makeIssued[p] \/ given[p] <= Making!Ceiling(p)
<1> DEFINE made == makeReceipts.units + units
           Most(p) == Making!Max({makeIssued[p], Making!Target(p, made)})
<1>1. made \in 0..Ordered
  <2>1. makeReceipts.units \in 0..Ordered
    BY DEF ShopInv, MakeTyped, Making!ReceiptRows
  <2> QED
    BY <2>1, MakeConstants
<1>2. makeIssued \in [Materials -> Nat]
  BY DEF ShopInv, MakeTyped
<1>3. CASE ~backflush
  <2>1. \A p \in Materials : makeIssued[p] - makeIssued[p] \in Nat
    BY <1>2
  <2> QED
    BY <1>2, <1>3, <2>1 DEF Making!Covered, Making!Due
<1>4. CASE backflush
  <2>1. ASSUME NEW p \in Materials
        PROVE  /\ Most(p) \in Nat /\ Most(p) >= Making!Target(p, made)
               /\ Most(p) >= makeIssued[p]
               /\ Most(p) = makeIssued[p] \/ Most(p) <= Making!Ceiling(p)
    <3> HIDE DEF made
    <3>1. PICK a \in Nat, b \in Nat, n \in Nat, c \in Int :
            /\ a = makeIssued[p] /\ b = Making!Target(p, made) /\ n = Needed[p]
            /\ c = Making!Ceiling(p) /\ b <= n /\ n <= c
      BY <1>1, <1>2, TargetWithin, CeilingCoversPlan, MakeConstants
    <3>2. a \in Int /\ b \in Int
      BY <3>1
    <3>3. Making!Max({a, b}) \in {a, b} /\ Making!Max({a, b}) >= a /\ Making!Max({a, b}) >= b
      BY ONLY <3>2, TwoHaveEnds
    <3>4. Making!Max({a, b}) \in Nat /\ (Making!Max({a, b}) = a \/ Making!Max({a, b}) <= c)
      BY <3>1, <3>3
    <3>5. Most(p) = Making!Max({a, b})
      BY <3>1
    <3> QED
      BY <3>1, <3>3, <3>4, <3>5
  <2>2. given = [p \in Materials |-> IF p \in Direct THEN Most(p) ELSE makeIssued[p]]
    BY <1>4 DEF Making!Backflushed, Making!Due
  <2> HIDE DEF made, Most
  <2>3. given \in [Materials -> Nat]
    BY <1>2, <2>1, <2>2
  <2>4. \A p \in Direct : given[p] >= Making!Target(p, made)
    BY <2>1, <2>2, MakeConstants
  <2>5. ASSUME NEW p \in Materials
        PROVE  /\ given[p] - makeIssued[p] \in Nat
               /\ given[p] = makeIssued[p] \/ given[p] <= Making!Ceiling(p)
    <3>1. given[p] \in {makeIssued[p], Most(p)}
      BY <2>2
    <3>2. PICK a \in Nat, g \in Nat : a = makeIssued[p] /\ g = given[p] /\ g >= a
      BY <1>2, <2>1, <3>1
    <3>3. g - a \in Nat
      BY <3>2
    <3> QED
      BY <2>1, <3>1, <3>2, <3>3
  <2> QED
    BY <2>3, <2>4, <2>5 DEF made
<1> QED
  BY <1>3, <1>4

(* The receipt that completes the order takes what is left in the account.     *)
LEMMA MakeReceives ==
  ASSUME ShopInv, NEW s \in Sessions, NEW r \in Making!Requests, r = makeAsked[s],
         r.op = "receive", MadeFits(r), Making!CommitReceive(s)
  PROVE  ShopInv'
<1>1. PICK given : given = After(r)
  OBVIOUS
<1>2. /\ makeIssued' = given
      /\ makeReceipts' = [units |-> makeReceipts.units + r.units,
                          value |-> makeReceipts.value + r.value,
                          completes |-> makeReceipts.completes \/ r.completes,
                          material |-> Making!IssuedValue(given)]
      /\ makeBooks' = [makeBooks EXCEPT
           !.wip = makeBooks.wip + Making!IssuedValue(given)
                     - Making!IssuedValue(makeIssued) - r.value,
           !.inventory = makeBooks.inventory - Making!IssuedValue(given)
                     + Making!IssuedValue(makeIssued) + r.value]
      /\ makeStatus' = makeStatus /\ makeSigned' = makeSigned /\ makeCards' = makeCards
      /\ makeEntries' = makeEntries /\ makeCost' = makeCost /\ makePosted' = makePosted
      /\ makeCosting' = makeCosting
  BY <1>1 DEF Making!CommitReceive, After, Making!floor
<1>3. /\ makeReceipts.units \in 0..Ordered /\ makeReceipts.value \in Nat
      /\ makeReceipts.completes \in BOOLEAN
      /\ makeIssued \in [Materials -> Nat] /\ makeBooks \in Making!Balances
  BY DEF ShopInv, MakeTyped, Making!ReceiptRows
<1>4. /\ r.units \in Nat /\ r.units > 0 /\ Ordered \in Nat
      /\ r.drawn \in [Materials -> Nat]
      /\ r.value \in Nat /\ r.value > 0
  BY RequestFields, MakeConstants
<1>5. given \in [Materials -> Nat]
  BY <1>1, <1>3, <1>4 DEF After
<1>6. PICK was \in Nat, made \in 0..Ordered :
        was = makeReceipts.units /\ made = was + r.units /\ was < Ordered
  BY <1>3, <1>4 DEF MadeFits
<1>7. PICK before \in Nat, v \in Nat, n \in Nat :
        /\ before = makeReceipts.value
        /\ v = Making!IssuedValue(makeIssued) /\ n = Making!IssuedValue(given)
  BY <1>3, <1>5, IssuedIsSum
<1>8. PICK value \in Int : value = r.value /\ (made = Ordered => value = n - before)
  BY <1>1, <1>4, <1>6, <1>7 DEF MadeFits
<1>9. value > 0
  BY <1>4, <1>8
<1>10. PICK books \in Making!Balances, w \in Int, i \in Int :
         books = makeBooks /\ w = books.wip /\ i = books.inventory
  BY <1>3 DEF Making!Balances
<1>11. makeBooks' = [wip |-> w + n - v - value, inventory |-> i - n + v + value,
                     labour |-> books.labour, variance |-> books.variance]
  <2>1. PICK a \in Int, b \in Int : a = w + n - v - value /\ b = i - n + v + value
    OBVIOUS
  <2>2. makeBooks' = [books EXCEPT !.wip = a, !.inventory = b]
    BY <1>2, <1>7, <1>8, <1>10, <2>1
  <2>3. [books EXCEPT !.wip = a, !.inventory = b]
          = [wip |-> a, inventory |-> b, labour |-> books.labour, variance |-> books.variance]
    BY MovedBooks
  <2> QED
    BY <2>1, <2>2, <2>3
<1>12. makeReceipts' = [units |-> made, value |-> before + value,
                        completes |-> makeReceipts.completes \/ r.completes, material |-> n]
  BY <1>2, <1>6, <1>7, <1>8
<1>13. makeReceipts'.units = made /\ makeReceipts'.value = before + value
         /\ makeReceipts'.material = n
         /\ makeReceipts'.completes = (makeReceipts.completes \/ r.completes)
         /\ r.completes = (made = Ordered)
  BY <1>6, <1>12 DEF MadeFits
<1>14. MakeTyped'
  <2>1. makeReceipts' \in Making!ReceiptRows
    <3>1. before + value \in Nat
      BY <1>9
    <3> QED
      BY <1>12, <1>13, <3>1 DEF Making!ReceiptRows
  <2>2. makeBooks' \in Making!Balances
    <3>1. books.labour \in Int /\ books.variance \in Int
      BY DEF Making!Balances
    <3>2. w + n - v - value \in Int /\ i - n + v + value \in Int
      OBVIOUS
    <3> QED
      BY <1>11, <3>1, <3>2 DEF Making!Balances
  <2> QED
    BY <1>2, <1>5, <2>1, <2>2 DEF ShopInv, MakeTyped
<1>15. MakeAccounts'
  <2>1. ~makeReceipts.completes
    BY <1>6 DEF ShopInv, MakeAccounts
  <2>2. makeCost = Making!Uncosted /\ \A t \in Sessions : makeCosting[t] = Making!Uncosted
    BY <1>6 DEF ShopInv, MakeAccounts
  <2>3. w = v - before /\ i = before - v /\ makePosted = 0
    BY <1>7, <1>10, <2>2 DEF ShopInv, MakeAccounts
  <2>4. Making!IssuedValue(makeIssued') = n
    BY <1>2, <1>7
  <2>5. makeBooks'.wip = w + n - v - value /\ makeBooks'.inventory = i - n + v + value
    BY <1>11
  <2>6. w + n - v - value = n - (before + value) /\ i - n + v + value = (before + value) - n
    BY <2>3
  <2>7. made = Ordered => before + value = n
    BY <1>8
  <2>8. makeBooks'.wip = Making!IssuedValue(makeIssued') - makeReceipts'.value
    BY <1>13, <2>4, <2>5, <2>6
  <2>9. makeBooks'.inventory = makeReceipts'.value - Making!IssuedValue(makeIssued')
    BY <1>13, <2>4, <2>5, <2>6
  <2>10. makeReceipts'.completes =>
           makeReceipts'.units = Ordered /\ makeReceipts'.value = makeReceipts'.material
    BY <1>13, <2>1, <2>7
  <2>11. makeCost' = Making!Uncosted /\ makePosted' = 0 /\ makePosted' <= 1
           /\ \A t \in Sessions : makeCosting'[t] = Making!Uncosted
    BY <1>2, <2>2, <2>3
  <2> QED
    BY <2>8, <2>9, <2>10, <2>11 DEF MakeAccounts
<1>16. Making!MaterialCoversOutput'
  BY <1>1, <1>2, <1>6, <1>13 DEF MadeFits, Making!MaterialCoversOutput
<1>17. Making!ExcessIsOwned'
  <2>1. ASSUME NEW p \in Materials, given[p] > Making!Ceiling(p) PROVE makeSigned[p]
    <3>1. Making!Ceiling(p) \in Int /\ given[p] \in Int
      BY <1>5, CeilingCoversPlan
    <3>2. given[p] = makeIssued[p]
      BY <1>1, <2>1, <3>1 DEF MadeFits
    <3> QED
      BY <2>1, <3>2 DEF ShopInv, Making!ExcessIsOwned
  <2> QED
    BY <1>2, <2>1 DEF ShopInv, Making!ExcessIsOwned
<1> QED
  BY <1>2, <1>14, <1>15, <1>16, <1>17 DEF ShopInv

LEMMA ShopBeginsCost == ASSUME ShopInv, NEW s \in Sessions, Making!BeginCost(s) PROVE ShopInv'
<1> DEFINE row == [material |-> Making!IssuedValue(makeIssued), labour |-> Making!Labour,
                   capitalised |-> makeReceipts.value]
<1>1. /\ makeReceipts.units >= Ordered
      /\ makeCosting' = [makeCosting EXCEPT ![s] = row]
      /\ makeStatus' = makeStatus /\ makeIssued' = makeIssued /\ makeSigned' = makeSigned
      /\ makeReceipts' = makeReceipts /\ makeCards' = makeCards /\ makeEntries' = makeEntries
      /\ makeCost' = makeCost /\ makeBooks' = makeBooks /\ makePosted' = makePosted
  BY DEF Making!BeginCost, Making!floor
<1>2. row \in Making!CostRows /\ row.capitalised = makeReceipts.value
  <2>1. Making!IssuedValue(makeIssued) \in Nat
    BY IssuedIsSum DEF ShopInv, MakeTyped
  <2>2. Making!Labour \in Nat
    BY MinutesAreSum, ProductOfNats, MakeConstants DEF ShopInv, MakeTyped, Making!Labour
  <2>3. makeReceipts.value \in Nat
    BY DEF ShopInv, MakeTyped, Making!ReceiptRows
  <2> QED
    BY <2>1, <2>2, <2>3 DEF Making!CostRows
<1> HIDE DEF row
<1>3. /\ makeCosting' \in [Sessions -> Making!CostRows \cup {Making!Uncosted}]
      /\ makeCosting'[s] = row
      /\ \A other \in Sessions : other # s => makeCosting'[other] = makeCosting[other]
  BY <1>1, <1>2 DEF ShopInv, MakeTyped
<1>4. makeReceipts.units = Ordered
  <2>1. makeReceipts.units \in 0..Ordered
    BY DEF ShopInv, MakeTyped, Making!ReceiptRows
  <2> QED
    BY <1>1, <2>1, MakeConstants
<1>5. MakeTyped'
  BY <1>1, <1>3 DEF ShopInv, MakeTyped
<1>6. MakeAccounts'
  BY <1>1, <1>2, <1>3, <1>4 DEF ShopInv, MakeAccounts
<1>7. Making!MaterialCoversOutput' /\ Making!ExcessIsOwned'
  BY <1>1 DEF ShopInv, Making!MaterialCoversOutput, Making!ExcessIsOwned
<1> QED
  BY <1>1, <1>5, <1>6, <1>7 DEF ShopInv

(* The entry that is posted is of the material that was received.              *)
LEMMA ShopCommitsCost == ASSUME ShopInv, NEW s \in Sessions, Making!CommitCost(s) PROVE ShopInv'
<1>1. PICK c : c = makeCosting[s]
  OBVIOUS
<1>2. /\ c # Making!Uncosted /\ makeCost = Making!Uncosted /\ c.material = c.capitalised
      /\ makeCost' = c /\ makePosted' = makePosted + 1
      /\ makeBooks' = [makeBooks EXCEPT
           !.inventory = makeBooks.inventory + c.material + c.labour - c.capitalised,
           !.labour = makeBooks.labour - (Standard - c.material),
           !.variance = makeBooks.variance - (c.material + c.labour - Standard)]
      /\ makeCosting' = [makeCosting EXCEPT ![s] = Making!Uncosted]
      /\ makeStatus' = makeStatus /\ makeIssued' = makeIssued /\ makeSigned' = makeSigned
      /\ makeReceipts' = makeReceipts /\ makeCards' = makeCards /\ makeEntries' = makeEntries
  BY <1>1 DEF Making!CommitCost, Making!OnlyCost, Making!Postable, Making!floor
<1>3. c \in Making!CostRows
  BY <1>1, <1>2 DEF ShopInv, MakeTyped
<1>4. PICK m \in Nat, l \in Nat : m = c.material /\ l = c.labour /\ m = c.capitalised
  BY <1>2, <1>3 DEF Making!CostRows
<1>5. PICK books \in Making!Balances : books = makeBooks
  BY DEF ShopInv, MakeTyped
<1>6. PICK w \in Int, i \in Int, x \in Int, y \in Int :
        w = books.wip /\ i = books.inventory /\ x = books.labour /\ y = books.variance
  BY DEF Making!Balances
<1>7. PICK a \in Int, b \in Int, v \in Int :
        a = i + m + l - m /\ b = x - (Standard - m) /\ v = y - (m + l - Standard)
  BY MakeConstants
<1>8. makeBooks' = [wip |-> w, inventory |-> a, labour |-> b, variance |-> v]
  <2>1. makeBooks' = [books EXCEPT !.inventory = a, !.labour = b, !.variance = v]
    BY <1>2, <1>4, <1>5, <1>6, <1>7
  <2>2. [books EXCEPT !.inventory = a, !.labour = b, !.variance = v]
          = [wip |-> books.wip, inventory |-> a, labour |-> b, variance |-> v]
    BY CostedBooks
  <2> QED
    BY <1>6, <2>1, <2>2
<1>9. /\ makeCosting' \in [Sessions -> Making!CostRows \cup {Making!Uncosted}]
      /\ \A other \in Sessions :
           makeCosting'[other] \in {makeCosting[other], Making!Uncosted}
  BY <1>2 DEF ShopInv, MakeTyped
<1>10. makePosted = 0 /\ makeReceipts.units = Ordered /\ m = makeReceipts.value
         /\ makeBooks.inventory = makeReceipts.value - Making!IssuedValue(makeIssued)
  BY <1>1, <1>2, <1>4 DEF ShopInv, MakeAccounts
<1>11. MakeTyped'
  <2>1. makeBooks' \in Making!Balances
    BY <1>8 DEF Making!Balances
  <2>2. makePosted' \in Nat
    BY <1>2, <1>10
  <2> QED
    BY <1>2, <1>3, <1>9, <2>1, <2>2 DEF ShopInv, MakeTyped
<1>12. MakeAccounts'
  <2>1. makeBooks'.wip = makeBooks.wip /\ makeBooks'.inventory = i + l
    BY <1>5, <1>6, <1>7, <1>8
  <2>2. PICK n \in Nat : n = Making!IssuedValue(makeIssued)
    BY IssuedIsSum DEF ShopInv, MakeTyped
  <2>3. (i + l) + n = m + l
    BY <1>5, <1>6, <1>10, <2>2
  <2>4. makeBooks'.inventory + Making!IssuedValue(makeIssued) = c.material + c.labour
    BY <1>4, <2>1, <2>2, <2>3
  <2> QED
    BY <1>2, <1>9, <1>10, <2>1, <2>4 DEF ShopInv, MakeAccounts
<1>13. Making!MaterialCoversOutput' /\ Making!ExcessIsOwned'
  BY <1>2 DEF ShopInv, Making!MaterialCoversOutput, Making!ExcessIsOwned
<1> QED
  BY <1>2, <1>11, <1>12, <1>13 DEF ShopInv

LEMMA ShopAbortsCost == ASSUME ShopInv, NEW s \in Sessions, Making!AbortCost(s) PROVE ShopInv'
<1>1. /\ makeCosting' = [makeCosting EXCEPT ![s] = Making!Uncosted]
      /\ makeStatus' = makeStatus /\ makeIssued' = makeIssued /\ makeSigned' = makeSigned
      /\ makeReceipts' = makeReceipts /\ makeCards' = makeCards /\ makeEntries' = makeEntries
      /\ makeCost' = makeCost /\ makeBooks' = makeBooks /\ makePosted' = makePosted
  BY DEF Making!AbortCost, Making!floor
<1>2. /\ makeCosting' \in [Sessions -> Making!CostRows \cup {Making!Uncosted}]
      /\ \A other \in Sessions : makeCosting'[other] \in {makeCosting[other], Making!Uncosted}
  BY <1>1 DEF ShopInv, MakeTyped
<1>3. MakeTyped'
  BY <1>1, <1>2 DEF ShopInv, MakeTyped
<1>4. MakeAccounts'
  BY <1>1, <1>2 DEF ShopInv, MakeAccounts
<1>5. Making!MaterialCoversOutput' /\ Making!ExcessIsOwned'
  BY <1>1 DEF ShopInv, Making!MaterialCoversOutput, Making!ExcessIsOwned
<1> QED
  BY <1>1, <1>3, <1>4, <1>5 DEF ShopInv

LEMMA ValueForReceipt ==
  ASSUME ShopInv, NEW units \in Given, NEW given \in [Materials -> Nat],
         makeReceipts.units + units <= Ordered
  PROVE  /\ Making!ValueOf(given, units) \in Int
         /\ makeReceipts.units + units = Ordered =>
              Making!ValueOf(given, units) = Making!IssuedValue(given) - makeReceipts.value
<1>1. PICK n \in Nat, r \in Nat : n = Making!IssuedValue(given) /\ r = makeReceipts.value
  BY IssuedIsSum DEF ShopInv, MakeTyped, Making!ReceiptRows
<1>2. Making!Rounded(n * units, Ordered) \in 0..n
  <2>1. units \in 0..Ordered
    BY MakeConstants DEF ShopInv, MakeTyped, Making!ReceiptRows
  <2> QED
    BY <2>1, RoundedWithin, MakeConstants
<1>3. PICK share \in Int, left \in Int : share = Making!Rounded(n * units, Ordered) /\ left = n - r
  BY <1>2
<1>4. Making!Min({share, left}) \in Int
  BY TwoHaveEnds
<1> QED
  BY <1>1, <1>3, <1>4 DEF Making!ValueOf

LEMMA AskStart == Making!Init => MakeAsks
<1> SUFFICES ASSUME Making!Init PROVE MakeAsks
  OBVIOUS
<1>1. makeAsked = [s \in Sessions |-> Making!Idle]
  BY DEF Making!Init
<1>2. Making!Idle \in Making!Requests /\ Making!Idle.op = "none"
  BY DEF Making!Requests, Making!Idle, Making!None
<1> QED
  BY <1>1, <1>2 DEF MakeAsks, AskFits

(* What a request found goes on to hold while what it looked at stands.        *)
LEMMA FitsStay ==
  ASSUME NEW r \in Making!Requests, AskFits(r), makeIssued' = makeIssued,
         makeReceipts' = makeReceipts, \A k \in Operations : Bookings(k)' = Bookings(k)
  PROVE  AskFits(r)'
<1>1. r.op = "issue" => IssueFits(r)'
  BY DEF AskFits, IssueFits
<1>2. ASSUME r.op = "book" PROVE BookingFits(r)'
  <2>1. Bookings(r.step)' = Bookings(r.step)
    BY <1>2, RequestFields
  <2> QED
    BY <1>2, <2>1 DEF AskFits, BookingFits
<1>3. ASSUME r.op = "receive" PROVE MadeFits(r)'
  <2>1. After(r)' = After(r)
    BY DEF After
  <2> QED
    BY <1>3, <2>1 DEF AskFits, MadeFits
<1> QED
  BY <1>1, <1>2, <1>3 DEF AskFits

LEMMA AskStays ==
  ASSUME MakeAsks, makeAsked' = makeAsked, makeIssued' = makeIssued,
         makeReceipts' = makeReceipts, \A k \in Operations : Bookings(k)' = Bookings(k)
  PROVE  MakeAsks'
<1>1. ASSUME NEW s \in Sessions PROVE AskFits(makeAsked[s])'
  <2>1. PICK r \in Making!Requests : r = makeAsked[s] /\ AskFits(r)
    BY DEF MakeAsks
  <2>2. AskFits(r)' /\ r = makeAsked'[s]
    BY <2>1, FitsStay
  <2> QED
    BY <2>2 DEF AskFits, IssueFits, BookingFits, MadeFits, After, Bookings
<1> QED
  BY <1>1 DEF MakeAsks

LEMMA AskBegins ==
  ASSUME MakeAsks, NEW s \in Sessions, NEW r \in Making!Requests, AskFits(r),
         Making!Asks(s, r)
  PROVE  ShopInv => MakeInv'
<1>1. /\ makeAsked' = [makeAsked EXCEPT ![s] = r]
      /\ \A t \in Sessions : makeAsked[t] = Making!Idle
      /\ makeIssued' = makeIssued /\ makeReceipts' = makeReceipts /\ makeEntries' = makeEntries
  BY DEF Making!Asks, Making!floor
<1>2. /\ makeAsked' \in [Sessions -> Making!Requests] /\ makeAsked'[s] = r
      /\ \A t \in Sessions : t # s => makeAsked'[t] = Making!Idle
  BY <1>1 DEF MakeAsks
<1>3. AskFits(r)'
  BY <1>1, FitsStay DEF Bookings
<1>4. ASSUME NEW t \in Sessions PROVE AskFits(makeAsked[t])'
  <2>1. CASE t = s
    BY <1>2, <1>3, <2>1 DEF AskFits, IssueFits, BookingFits, MadeFits, After, Bookings
  <2>2. CASE t # s
    BY <1>2, <2>2 DEF AskFits, Making!Idle, Making!None
  <2> QED
    BY <2>1, <2>2
<1>5. MakeAsks'
  BY <1>2, <1>4 DEF MakeAsks
<1> QED
  BY <1>5, ShopMoves DEF MakeInv

LEMMA AskEnds ==
  ASSUME MakeAsks, NEW s \in Sessions, makeAsked[s] # Making!Idle,
         makeAsked' = [makeAsked EXCEPT ![s] = Making!Idle]
  PROVE  MakeAsks'
<1>1. /\ makeAsked' \in [Sessions -> Making!Requests]
      /\ \A t \in Sessions : makeAsked'[t] = Making!Idle
  <2>1. Making!Idle \in Making!Requests
    BY DEF Making!Requests
  <2> QED
    BY <2>1 DEF MakeAsks
<1>2. Making!Idle.op = "none"
  BY DEF Making!Idle, Making!None
<1>3. \A t \in Sessions : AskFits(makeAsked[t])'
  BY <1>1, <1>2 DEF AskFits
<1> QED
  BY <1>1, <1>3 DEF MakeAsks

LEMMA BookingsAreEntries ==
  ASSUME ShopInv, NEW k \in Operations
  PROVE  /\ Making!Minutes(Bookings(k)) \in Nat /\ Making!BookedMinutes(k) \in Nat
         /\ Making!Minutes(Bookings(k)) <= Making!BookedMinutes(k)
<1> DEFINE S == {e \in makeEntries : e.step = k}
<1>1. /\ S \in SUBSET Making!EntryRows /\ Bookings(k) \in SUBSET Making!EntryRows
      /\ Bookings(k) \subseteq S /\ S \subseteq makeEntries /\ Bookings(k) \subseteq makeEntries
  BY DEF ShopInv, MakeTyped, Bookings
<1>2. Making!BookedMinutes(k) = Making!Minutes(S)
  BY DEF Making!BookedMinutes
<1> HIDE DEF S
<1>3. IsFiniteSet(S) /\ IsFiniteSet(Bookings(k))
  BY <1>1, FS_Subset DEF ShopInv
<1>4. \A e \in S : Spent[e] \in Nat
  BY <1>1 DEF Spent, Making!EntryRows
<1>5. SumOver(Spent, Bookings(k)) <= SumOver(Spent, S)
  BY <1>1, <1>3, <1>4, SumOfSubset
<1> QED
  BY <1>1, <1>2, <1>3, <1>5, MinutesAreSum

LEMMA MakeBeginsIssue ==
  ASSUME MakeInv, NEW s \in Sessions, NEW p \in Materials, NEW quantity \in Given,
         NEW override \in BOOLEAN, Making!BeginIssue(s, p, quantity, override)
  PROVE  MakeInv'
<1>1. PICK r : r = [op |-> "issue", part |-> p, quantity |-> quantity, override |-> override]
  OBVIOUS
<1>2. r \in Making!Requests /\ Making!Asks(s, r)
  BY <1>1 DEF Making!BeginIssue, Making!Requests
<1>3. AskFits(r)
  BY <1>1 DEF Making!BeginIssue, AskFits, IssueFits
<1> QED
  BY <1>2, <1>3, AskBegins DEF MakeInv

LEMMA MakeBeginsBook ==
  ASSUME MakeInv, NEW s \in Sessions, NEW k \in Operations, NEW minutes \in Booked,
         NEW acknowledge \in BOOLEAN, Making!BeginBook(s, k, minutes, acknowledge)
  PROVE  MakeInv'
<1>1. PICK acknowledged \in BOOLEAN :
        acknowledged = (acknowledge /\ Making!Overrun(k, minutes))
  OBVIOUS
<1>2. PICK r : r = [op |-> "book", step |-> k, minutes |-> minutes,
                    acknowledged |-> acknowledged]
  OBVIOUS
<1>3. r \in Making!Requests /\ Making!Asks(s, r)
  BY <1>1, <1>2 DEF Making!BeginBook, Making!Requests
<1>4. acknowledged \/ Making!Minutes(Bookings(k)) + minutes <= Planned
  <2>1. Making!Overrun(k, minutes) => acknowledged
    BY <1>1 DEF Making!BeginBook
  <2>2. PICK m \in Nat, n \in Nat : m = Making!Minutes(Bookings(k)) /\ n = Making!BookedMinutes(k)
                                    /\ m <= n
    BY BookingsAreEntries DEF MakeInv
  <2>3. ~(n + minutes > Planned) => m + minutes <= Planned
    BY <2>2, MakeConstants
  <2> QED
    BY <2>1, <2>2, <2>3 DEF Making!Overrun
<1>5. AskFits(r)
  BY <1>2, <1>4 DEF AskFits, BookingFits
<1> QED
  BY <1>3, <1>5, AskBegins DEF MakeInv

LEMMA MakeBeginsReceive ==
  ASSUME MakeInv, NEW s \in Sessions, NEW units \in Given, NEW backflush \in BOOLEAN,
         Making!BeginReceive(s, units, backflush)
  PROVE  MakeInv'
<1>1. PICK given : given = IF backflush THEN Making!Backflushed(units) ELSE makeIssued
  OBVIOUS
<1>2. PICK drawn : drawn = [p \in Materials |-> given[p] - makeIssued[p]]
  OBVIOUS
<1>3. PICK completes \in BOOLEAN : completes = (makeReceipts.units + units = Ordered)
  OBVIOUS
<1>4. PICK r : r = [op |-> "receive", units |-> units, drawn |-> drawn,
                    value |-> Making!ValueOf(given, units), completes |-> completes]
  OBVIOUS
<1>5. /\ makeReceipts.units + units <= Ordered
      /\ ~backflush => Making!Covered(units)
      /\ Making!ValueOf(given, units) > 0
      /\ Making!Asks(s, r)
  BY <1>1, <1>2, <1>3, <1>4 DEF Making!BeginReceive
<1>6. /\ given \in [Materials -> Nat] /\ makeIssued \in [Materials -> Nat]
      /\ \A p \in Direct : given[p] >= Making!Target(p, makeReceipts.units + units)
      /\ \A p \in Materials : given[p] - makeIssued[p] \in Nat
      /\ \A p \in Materials : given[p] = makeIssued[p] \/ given[p] <= Making!Ceiling(p)
  <2>1. ShopInv /\ makeIssued \in [Materials -> Nat]
    BY DEF MakeInv, ShopInv, MakeTyped
  <2> QED
    BY <1>1, <1>5, <2>1, GivenForReceipt
<1>7. /\ Making!ValueOf(given, units) \in Nat \ {0}
      /\ makeReceipts.units + units = Ordered =>
           Making!ValueOf(given, units) = Making!IssuedValue(given) - makeReceipts.value
  BY <1>5, <1>6, ValueForReceipt DEF MakeInv
<1>8. r \in Making!Requests
  BY <1>2, <1>4, <1>6, <1>7 DEF Making!Requests
<1>9. After(r) = given
  <2>1. r.drawn = drawn
    BY <1>4
  <2>2. ASSUME NEW p \in Materials PROVE makeIssued[p] + drawn[p] = given[p]
    BY <1>2, <1>6
  <2> QED
    BY <1>6, <2>1, <2>2 DEF After
<1>10. MadeFits(r)
  <2>1. r.units = units /\ r.value = Making!ValueOf(given, units) /\ r.completes = completes
    BY <1>4
  <2> QED
    BY <1>3, <1>5, <1>6, <1>7, <1>9, <2>1 DEF MadeFits
<1>11. AskFits(r)
  BY <1>4, <1>10 DEF AskFits
<1> QED
  BY <1>5, <1>8, <1>11, AskBegins DEF MakeInv

LEMMA MakeCommitsIssue ==
  ASSUME MakeInv, NEW s \in Sessions, Making!CommitIssue(s)
  PROVE  MakeInv'
<1>1. PICK r \in Making!Requests : r = makeAsked[s] /\ AskFits(r)
  BY DEF MakeInv, MakeAsks
<1>2. r.op = "issue" /\ makeAsked' = [makeAsked EXCEPT ![s] = Making!Idle]
  BY <1>1 DEF Making!CommitIssue, Making!Answers
<1>3. PICK p \in Materials, quantity \in Given, override \in BOOLEAN :
        /\ p = r.part /\ quantity = r.quantity /\ override = r.override
        /\ makeIssued[p] + quantity <= Making!Ceiling(p) \/ override
  BY <1>1, <1>2, RequestFields DEF AskFits, IssueFits
<1>4. ShopInv'
  BY <1>1, <1>3, MakeIssues DEF MakeInv
<1>5. r # Making!Idle
  BY <1>2, RequestFields
<1> QED
  BY <1>1, <1>2, <1>4, <1>5, AskEnds DEF MakeInv

LEMMA MakeCommitsBook ==
  ASSUME MakeInv, NEW s \in Sessions, Making!CommitBook(s)
  PROVE  MakeInv'
<1>1. PICK r \in Making!Requests : r = makeAsked[s] /\ AskFits(r)
  BY DEF MakeInv, MakeAsks
<1>2. r.op = "book" /\ makeAsked' = [makeAsked EXCEPT ![s] = Making!Idle]
  BY <1>1 DEF Making!CommitBook, Making!Answers
<1>3. r.step \in Operations /\ r.minutes \in Booked /\ r.acknowledged \in BOOLEAN /\ BookingFits(r)
  BY <1>1, <1>2, RequestFields DEF AskFits
<1>4. Making!Entry(r.step, r.minutes, r.acknowledged, FALSE)
  BY <1>1 DEF Making!CommitBook
<1>5. r # Making!Idle
  BY <1>2, RequestFields
<1>6. ShopInv'
  BY <1>3, <1>4, MakeBooks DEF MakeInv, BookingFits
<1> QED
  BY <1>1, <1>2, <1>5, <1>6, AskEnds DEF MakeInv

LEMMA MakeCommitsReceive ==
  ASSUME MakeInv, NEW s \in Sessions, Making!CommitReceive(s)
  PROVE  MakeInv'
<1>1. PICK r \in Making!Requests : r = makeAsked[s] /\ AskFits(r)
  BY DEF MakeInv, MakeAsks
<1>2. r.op = "receive" /\ makeAsked' = [makeAsked EXCEPT ![s] = Making!Idle]
  BY <1>1 DEF Making!CommitReceive, Making!Answers
<1>3. ShopInv'
  BY <1>1, <1>2, MakeReceives DEF MakeInv, AskFits
<1>4. r # Making!Idle
  BY <1>2, RequestFields
<1> QED
  BY <1>1, <1>2, <1>3, <1>4, AskEnds DEF MakeInv

LEMMA MakeCorrects ==
  ASSUME MakeInv, NEW k \in Operations, NEW minutes \in Booked, Making!CorrectEntry(k, minutes)
  PROVE  MakeInv'
<1>1. Making!Entry(k, minutes, FALSE, TRUE) /\ makeAsked' = makeAsked
  BY DEF Making!CorrectEntry
<1>2. ShopInv'
  BY <1>1, MakeBooks DEF MakeInv
<1>3. makeIssued' = makeIssued /\ makeReceipts' = makeReceipts
  BY <1>1 DEF Making!Entry
<1>4. PICK new : new.correction = TRUE /\ makeEntries' = makeEntries \cup {new}
  <2>1. PICK n : makeEntries' = makeEntries \cup {[n |-> n, step |-> k, minutes |-> minutes,
                                                   acknowledged |-> FALSE, correction |-> TRUE]}
    BY <1>1 DEF Making!Entry
  <2> QED
    BY <2>1
<1>5. \A j \in Operations : Bookings(j)' = Bookings(j)
  BY <1>4 DEF Bookings
<1> QED
  BY <1>1, <1>2, <1>3, <1>5, AskStays DEF MakeInv

LEMMA MakeStart == Making!Init => MakeInv
BY ShopStart, AskStart DEF MakeInv

LEMMA MakeStep == MakeInv /\ [Making!Next]_(Making!vars) => MakeInv'
<1> SUFFICES ASSUME MakeInv, [Making!Next]_(Making!vars) PROVE MakeInv'
  OBVIOUS
<1>1. CASE \/ Making!CreateWorkOrder \/ Making!Advance
           \/ \E k \in Operations : Making!OpenCard(k) \/ Making!CloseCard(k)
           \/ UNCHANGED Making!vars
  <2>1. /\ makeAsked' = makeAsked /\ makeIssued' = makeIssued /\ makeReceipts' = makeReceipts
        /\ makeEntries' = makeEntries
    BY <1>1 DEF Making!CreateWorkOrder, Making!Advance, Making!OpenCard, Making!CloseCard,
                Making!floor, Making!vars
  <2>2. ShopInv'
    BY <1>1, ShopMoves DEF MakeInv
  <2> QED
    BY <2>1, <2>2, AskStays DEF MakeInv, Bookings
<1>2. CASE \E k \in Operations : \E minutes \in Booked : Making!CorrectEntry(k, minutes)
  BY <1>2, MakeCorrects
<1>3. ASSUME NEW s \in Sessions, Making!Request(s) PROVE MakeInv'
  <2>1. CASE \E p \in Materials : \E quantity \in Given : \E override \in BOOLEAN :
               Making!BeginIssue(s, p, quantity, override)
    BY <2>1, MakeBeginsIssue
  <2>2. CASE \E k \in Operations : \E minutes \in Booked : \E acknowledge \in BOOLEAN :
               Making!BeginBook(s, k, minutes, acknowledge)
    BY <2>2, MakeBeginsBook
  <2>3. CASE \E units \in Given : \E backflush \in BOOLEAN :
               Making!BeginReceive(s, units, backflush)
    BY <2>3, MakeBeginsReceive
  <2>4. CASE Making!CommitIssue(s) \/ Making!CommitBook(s) \/ Making!CommitReceive(s)
    BY <2>4, MakeCommitsIssue, MakeCommitsBook, MakeCommitsReceive
  <2>5. CASE Making!Drop(s)
    BY <2>5, ShopMoves, AskEnds DEF MakeInv, Making!Drop
  <2>6. CASE Making!BeginCost(s) \/ Making!CommitCost(s) \/ Making!AbortCost(s)
    <3>1. ShopInv'
      BY <2>6, ShopBeginsCost, ShopCommitsCost, ShopAbortsCost DEF MakeInv
    <3>2. /\ makeAsked' = makeAsked /\ makeIssued' = makeIssued /\ makeReceipts' = makeReceipts
          /\ makeEntries' = makeEntries
      BY <2>6 DEF Making!BeginCost, Making!CommitCost, Making!AbortCost, Making!floor
    <3> QED
      BY <3>1, <3>2, AskStays DEF MakeInv, Bookings
  <2> QED
    BY <1>3, <2>1, <2>2, <2>3, <2>4, <2>5, <2>6 DEF Making!Request
<1> QED
  BY <1>1, <1>2, <1>3 DEF Making!Next

LEMMA MakeIsTyped == MakeInv => Making!TypeOK
BY DEF MakeInv, ShopInv, MakeTyped, MakeAsks, Making!TypeOK

LEMMA MakeInvSuffices ==
  MakeInv => /\ Making!MaterialCoversOutput
             /\ Making!ExcessIsOwned
             /\ Making!WipClears
             /\ Making!CostedOnce
<1> SUFFICES ASSUME ShopInv PROVE Making!WipClears /\ Making!CostedOnce
  BY DEF MakeInv, ShopInv
<1>1. makePosted <= 1
  BY DEF ShopInv, MakeAccounts
<1> QED
  BY <1>1 DEF ShopInv, MakeAccounts, Making!WipClears, Making!CostedOnce

(* -------------------------------- planning -------------------------------- *)

PlanKeys == Planning!Items \X Planning!Buckets
PlanDemands == [item : Planning!Items, bucket : Planning!Buckets, amount : Nat]

LEMMA PlanConstants ==
  /\ PlanItems \in Nat /\ LastBucket \in Nat /\ LastRun \in Nat /\ Capacity \in Nat
  /\ PartsOf \in [Planning!Items -> [Planning!Items -> Nat]]
  /\ Lead \in [Planning!Items -> Nat] /\ PlanMinutes \in [Planning!Items -> Nat]
  /\ Stocks \subseteq [Planning!Items -> Nat]
  /\ Demands \subseteq [Planning!Items -> [Planning!Buckets -> Nat]]
  /\ Arrivals \subseteq [Planning!Items -> [Planning!Buckets -> Nat]]
  /\ Planning!Keys = PlanKeys
  /\ Planning!Items \subseteq Nat \ {0} /\ Planning!Buckets = 0..LastBucket
  /\ Planning!Unread = -1
<1>1. Planning!ShapeAssumption
  BY Parameters
<1> QED
  BY <1>1 DEF Planning!ShapeAssumption, Planning!Keys, PlanKeys, Planning!Items, Planning!Buckets,
              Planning!Unread

LEMMA PlanFinite ==
  IsFiniteSet(Planning!Items) /\ IsFiniteSet(Planning!Buckets) /\ IsFiniteSet(PlanKeys)
<1>1. IsFiniteSet(1..PlanItems) /\ IsFiniteSet(0..LastBucket)
  BY PlanConstants, FS_Interval
<1>2. IsFiniteSet(Planning!Items) /\ IsFiniteSet(Planning!Buckets)
  BY <1>1 DEF Planning!Items, Planning!Buckets
<1> QED
  BY <1>2, FS_Product DEF PlanKeys

LEMMA PlanEnds ==
  ASSUME NEW a \in Int, NEW b \in Int
  PROVE  /\ Planning!Max({a, b}) = IF a >= b THEN a ELSE b
         /\ Planning!Min({a, b}) = IF a <= b THEN a ELSE b
<1>1. (\E x \in {a, b} : \A y \in {a, b} : x >= y) /\ (\E x \in {a, b} : \A y \in {a, b} : x <= y)
  <2>1. CASE a <= b
    BY <2>1
  <2>2. CASE b <= a
    BY <2>2
  <2> QED
    BY <2>1, <2>2
<1>2. /\ Planning!Max({a, b}) \in {a, b} /\ \A y \in {a, b} : Planning!Max({a, b}) >= y
      /\ Planning!Min({a, b}) \in {a, b} /\ \A y \in {a, b} : Planning!Min({a, b}) <= y
  BY <1>1 DEF Planning!Max, Planning!Min
<1> QED
  BY <1>2

LEMMA PlanLeast ==
  ASSUME NEW S \in SUBSET Nat, S # {}
  PROVE  Planning!Min(S) \in S /\ \A y \in S : Planning!Min(S) <= y
<1>1. \E x \in S : \A y \in S : x <= y
  BY LeastOf
<1> QED
  BY <1>1 DEF Planning!Min

(* Every sum of a plan is one of a function.                                   *)
LEMMA PlanTotal ==
  ASSUME NEW f, NEW S
  PROVE  Planning!Total(S, LAMBDA x : f[x]) = SumOver(f, S)
<1> DEFINE Plus(it, s) == IF s = {} THEN 0 ELSE f[First(s)] + it[s \ {First(s)}]
<1>2. ASSUME NEW it PROVE [s \in SUBSET S |-> Plus(it, s)] = [s \in SUBSET S |-> Added(f, it, s)]
  BY DEF Added
<1>3. (CHOOSE it : it = [s \in SUBSET S |-> Plus(it, s)]) = CHOOSE it : Adds(f, SUBSET S, it)
  BY <1>2 DEF Adds
<1>4. SumOver(f, S) = (CHOOSE it : Adds(f, SUBSET S, it))[S]
  BY SumIsChosen
<1>5. Planning!Total(S, LAMBDA x : f[x]) = (CHOOSE it : it = [s \in SUBSET S |-> Plus(it, s)])[S]
  BY DEF Planning!Total, Planning!MapThenSumSet, Planning!MapThenFoldSet, First
<1> QED
  BY <1>3, <1>4, <1>5

(* ------------------------------ the sorted list ---------------------------- *)

InOrder(list) == \A k \in DOMAIN list : \A m \in DOMAIN list :
  k < m => ~Planning!Before(list[m], list[k])
Queues(T) == {list \in Seq(T) : InOrder(list)}

(* Where a demand goes into the list: behind the first k - 1.                  *)
Inserts(list, p, k, new) ==
  /\ k \in 1..Len(list) + 1 /\ Len(new) = Len(list) + 1
  /\ \A n \in 1..Len(list) + 1 :
       new[n] = IF n < k THEN list[n] ELSE IF n = k THEN p ELSE list[n - 1]

LEMMA Joined ==
  ASSUME NEW T, NEW a \in Seq(T), NEW b \in Seq(T)
  PROVE  /\ a \o b \in Seq(T) /\ Len(a \o b) = Len(a) + Len(b)
         /\ \A n \in 1..Len(a) : (a \o b)[n] = a[n]
         /\ \A n \in 1..Len(b) : (a \o b)[Len(a) + n] = b[n]
OBVIOUS

LEMMA Splices ==
  ASSUME NEW T, NEW list \in Seq(T), NEW p \in T, NEW k \in 1..Len(list) + 1
  PROVE  \E new \in Seq(T) :
           /\ new = SubSeq(list, 1, k - 1) \o <<p>> \o SubSeq(list, k, Len(list))
           /\ Inserts(list, p, k, new)
<1> DEFINE a == SubSeq(list, 1, k - 1)
           c == SubSeq(list, k, Len(list))
           b == a \o <<p>>
           new == b \o c
<1>0. Len(list) \in Nat /\ k \in Nat
  OBVIOUS
<1>1. a \in Seq(T) /\ Len(a) = k - 1 /\ \A n \in 1..k - 1 : a[n] = list[n]
  BY <1>0
<1>2. c \in Seq(T) /\ Len(c) = Len(list) - k + 1 /\ \A n \in 1..Len(list) - k + 1 : c[n] = list[n + k - 1]
  BY <1>0
<1>3. <<p>> \in Seq(T) /\ Len(<<p>>) = 1 /\ <<p>>[1] = p
  OBVIOUS
<1> HIDE DEF a, c
<1>4. b \in Seq(T) /\ Len(b) = k /\ b[k] = p /\ \A n \in 1..k - 1 : b[n] = list[n]
  BY <1>0, <1>1, <1>3
<1> HIDE DEF b
<1>5. /\ new \in Seq(T) /\ Len(new) = Len(b) + Len(c)
      /\ (\A n \in 1..Len(b) : new[n] = b[n]) /\ (\A n \in 1..Len(c) : new[Len(b) + n] = c[n])
  BY <1>2, <1>4, Joined
<1> HIDE DEF new
<1>6. Len(new) = Len(list) + 1
  BY <1>0, <1>2, <1>4, <1>5
<1>7. ASSUME NEW n \in 1..Len(list) + 1, n > k PROVE new[n] = list[n - 1]
  <2>1. n - k \in 1..Len(list) - k + 1 /\ n = k + (n - k) /\ (n - k) + k - 1 = n - 1
    BY <1>0, <1>7
  <2>2. n - k \in 1..Len(c) /\ c[n - k] = list[(n - k) + k - 1]
    BY <1>2, <2>1
  <2>3. new[Len(b) + (n - k)] = c[n - k]
    BY <1>5, <2>2
  <2>4. Len(b) + (n - k) = n
    BY <1>4, <2>1
  <2> QED
    BY <2>1, <2>2, <2>3, <2>4
<1>8. \A n \in 1..Len(list) + 1 : n <= k => new[n] = b[n]
  BY <1>0, <1>4, <1>5
<1>9. \A n \in 1..Len(list) + 1 : n < k => new[n] = list[n]
  BY <1>0, <1>4, <1>8
<1>10. new[k] = p
  BY <1>0, <1>4, <1>8
<1>11. ASSUME NEW n \in 1..Len(list) + 1
       PROVE  new[n] = IF n < k THEN list[n] ELSE IF n = k THEN p ELSE list[n - 1]
  <2>1. n \in Nat
    BY <1>0
  <2> QED
    BY <1>0, <1>7, <1>9, <1>10, <2>1
<1>13. Inserts(list, p, k, new)
  BY <1>6, <1>11 DEF Inserts
<1>14. new = SubSeq(list, 1, k - 1) \o <<p>> \o SubSeq(list, k, Len(list))
  BY DEF a, b, c, new
<1> QED
  BY <1>5, <1>13, <1>14

LEMMA InsertsSort ==
  ASSUME NEW T \in SUBSET PlanDemands, NEW list \in Seq(T), InOrder(list), NEW p \in T,
         NEW k, NEW new \in Seq(T), Inserts(list, p, k, new),
         \A n \in 1..Len(list) : n < k => ~Planning!Before(p, list[n]),
         k <= Len(list) => Planning!Before(p, list[k])
  PROVE  InOrder(new)
<1>0. Len(list) \in Nat /\ k \in 1..Len(list) + 1 /\ DOMAIN list = 1..Len(list)
      /\ DOMAIN new = 1..Len(list) + 1
  BY DEF Inserts
<1>1. \A q \in T : q.item \in Int /\ q.bucket \in Int
  <2>1. Planning!Items \subseteq Int /\ Planning!Buckets \subseteq Int
    BY PlanConstants
  <2> QED
    BY <2>1 DEF PlanDemands
<1>2. \A n \in 1..Len(list) : list[n] \in T
  BY <1>0
<1>3. ASSUME NEW n \in 1..Len(list), n >= k PROVE ~Planning!Before(list[n], p)
  <2>1. k \in 1..Len(list) /\ Planning!Before(p, list[k])
    BY <1>0, <1>3
  <2>2. n = k \/ ~Planning!Before(list[n], list[k])
    BY <1>0, <1>3, <2>1 DEF InOrder
  <2>3. /\ p.item \in Int /\ p.bucket \in Int /\ list[n].item \in Int /\ list[n].bucket \in Int
        /\ list[k].item \in Int /\ list[k].bucket \in Int
    BY <1>1, <1>2, <2>1
  <2> QED
    BY <2>1, <2>2, <2>3 DEF Planning!Before
<1>4. ASSUME NEW m \in 1..Len(list) + 1, NEW n \in 1..Len(list) + 1, m < n
      PROVE  ~Planning!Before(new[n], new[m])
  <2>1. CASE n < k
    <3>1. m \in 1..Len(list) /\ n \in 1..Len(list) /\ new[m] = list[m] /\ new[n] = list[n]
      BY <1>0, <1>4, <2>1 DEF Inserts
    <3> QED
      BY <1>0, <1>4, <3>1 DEF InOrder
  <2>2. CASE n = k
    <3>1. m \in 1..Len(list) /\ m < k /\ new[m] = list[m] /\ new[n] = p
      BY <1>0, <1>4, <2>2 DEF Inserts
    <3>2. ~Planning!Before(p, list[m])
      BY <3>1
    <3> QED
      BY <3>1, <3>2
  <2>3. CASE n > k
    <3>1. n - 1 \in 1..Len(list) /\ n - 1 >= k /\ new[n] = list[n - 1]
      BY <1>0, <2>3 DEF Inserts
    <3>2. CASE m < k
      <4>1. m \in 1..Len(list) /\ m < n - 1 /\ new[m] = list[m]
        BY <1>0, <1>4, <2>3, <3>2 DEF Inserts
      <4> QED
        BY <1>0, <3>1, <4>1 DEF InOrder
    <3>3. CASE m = k
      <4>1. new[m] = p
        BY <1>0, <3>3 DEF Inserts
      <4> QED
        BY <1>3, <3>1, <4>1
    <3>4. CASE m > k
      <4>1. m - 1 \in 1..Len(list) /\ m - 1 < n - 1 /\ new[m] = list[m - 1]
        BY <1>0, <1>4, <2>3, <3>4 DEF Inserts
      <4> QED
        BY <1>0, <3>1, <4>1 DEF InOrder
    <3> QED
      BY <1>0, <3>2, <3>3, <3>4
  <2> QED
    BY <1>0, <2>1, <2>2, <2>3
<1> QED
  BY <1>0, <1>4 DEF InOrder

LEMMA QueueKeeps ==
  ASSUME NEW T \in SUBSET PlanDemands, NEW list \in Queues(T), NEW p \in T
  PROVE  Planning!Queue(list, p) \in Queues(T)
<1> DEFINE after == {n \in DOMAIN list : Planning!Before(p, list[n])}
           k == IF after = {} THEN Len(list) + 1 ELSE Planning!Min(after)
<1>0. list \in Seq(T) /\ InOrder(list) /\ Len(list) \in Nat /\ DOMAIN list = 1..Len(list)
  BY DEF Queues
<1>1. /\ k \in 1..Len(list) + 1
      /\ \A n \in 1..Len(list) : n < k => ~Planning!Before(p, list[n])
      /\ k <= Len(list) => Planning!Before(p, list[k])
  <2>1. CASE after = {}
    <3>1. k = Len(list) + 1
      BY <2>1
    <3>2. \A n \in 1..Len(list) : ~Planning!Before(p, list[n])
      BY <1>0, <2>1
    <3> QED
      BY <1>0, <3>1, <3>2
  <2>2. CASE after # {}
    <3>1. after \in SUBSET Nat
      BY <1>0
    <3>2. Planning!Min(after) \in after /\ \A n \in after : Planning!Min(after) <= n
      <4> HIDE DEF after
      <4> QED
        BY <2>2, <3>1, PlanLeast
    <3>3. k = Planning!Min(after)
      BY <2>2
    <3> HIDE DEF k
    <3>4. k \in after /\ \A n \in after : k <= n
      BY <3>2, <3>3
    <3>5. k \in 1..Len(list) /\ Planning!Before(p, list[k])
      BY <1>0, <3>4
    <3>6. ASSUME NEW n \in 1..Len(list), n < k PROVE ~Planning!Before(p, list[n])
      <4>1. n \notin after
        BY <1>0, <3>4, <3>5, <3>6
      <4> QED
        BY <1>0, <4>1
    <3> QED
      BY <1>0, <3>5, <3>6
  <2> QED
    BY <2>1, <2>2
<1>2. Planning!Queue(list, p) = SubSeq(list, 1, k - 1) \o <<p>> \o SubSeq(list, k, Len(list))
  BY DEF Planning!Queue
<1> HIDE DEF k
<1>3. PICK new \in Seq(T) : /\ new = SubSeq(list, 1, k - 1) \o <<p>> \o SubSeq(list, k, Len(list))
                            /\ Inserts(list, p, k, new)
  BY <1>0, <1>1, Splices
<1>4. InOrder(new)
  BY <1>0, <1>1, <1>3, InsertsSort
<1> QED
  BY <1>2, <1>3, <1>4 DEF Queues

LEMMA TailKeeps ==
  ASSUME NEW T, NEW list \in Queues(T), list # <<>>
  PROVE  Tail(list) \in Queues(T) /\ Head(list) \in T
         /\ \A n \in 1..Len(Tail(list)) : Tail(list)[n] \in T
                                          /\ ~Planning!Before(Tail(list)[n], Head(list))
<1>1. list \in Seq(T) /\ InOrder(list) /\ Len(list) \in Nat /\ DOMAIN list = 1..Len(list)
  BY DEF Queues
<1>2. Len(list) > 0 /\ Head(list) = list[1] /\ Head(list) \in T
  BY <1>1
<1> DEFINE rest == Tail(list)
<1>3. /\ rest \in Seq(T) /\ Len(rest) = Len(list) - 1
      /\ (\A n \in 1..Len(list) - 1 : rest[n] = list[n + 1]) /\ DOMAIN rest = 1..Len(list) - 1
  BY <1>1, <1>2
<1> HIDE DEF rest
<1>4. InOrder(rest)
  <2>1. ASSUME NEW k \in 1..Len(list) - 1, NEW m \in 1..Len(list) - 1, k < m
        PROVE  ~Planning!Before(rest[m], rest[k])
    <3>1. k + 1 \in 1..Len(list) /\ m + 1 \in 1..Len(list) /\ k + 1 < m + 1
      BY <1>1, <2>1
    <3>2. ~Planning!Before(list[m + 1], list[k + 1])
      BY <1>1, <3>1 DEF InOrder
    <3> QED
      BY <1>3, <3>2
  <2> QED
    BY <1>3, <2>1 DEF InOrder
<1>5. ASSUME NEW n \in 1..Len(list) - 1 PROVE rest[n] \in T /\ ~Planning!Before(rest[n], list[1])
  <2>1. n + 1 \in DOMAIN list /\ 1 \in DOMAIN list /\ 1 < n + 1
    BY <1>1, <1>2
  <2> QED
    BY <1>1, <1>3, <2>1 DEF InOrder
<1> QED
  BY <1>1, <1>2, <1>3, <1>4, <1>5 DEF Queues, rest

(* An item that goes into no other is wanted by customers only.                *)
Sold(i) == \A j \in Planning!Items : PartsOf[j][i] = 0

(* What the list of a run may still hold: of a sold item what customers want,  *)
(* in no period before one that was netted.                                    *)
Due(demand, seen) ==
  {p \in PlanDemands :
     Sold(p.item) => /\ p.amount = demand[p.item][p.bucket]
                     /\ \A b \in Planning!Buckets : <<p.item, b>> \in seen => b <= p.bucket}

PlanTyped ==
  /\ DOMAIN planRows = planSeen
  /\ \A key \in planSeen : key \in Planning!Keys /\ planRows[key] \in Planning!RequirementRows
  /\ planSuggestions \subseteq Planning!SuggestionRows
  /\ planStock \in [Planning!Items -> Nat]
  /\ planOrders \in [Planning!Items -> [Planning!Buckets -> Nat]]
  /\ planLeft \in [Planning!Items -> [Planning!Buckets -> Nat]]
  /\ planShelf \in [Planning!Items -> Nat \cup {Planning!Unread}]
  /\ planPlaced \in [Planning!Buckets -> Nat] /\ planRuns \in 0..LastRun

PlanTypes ==
  /\ PlanTyped
  /\ planDemand \in [Planning!Items -> [Planning!Buckets -> Nat]]
  /\ planArriving \in [Planning!Items -> [Planning!Buckets -> Nat]]
  /\ planPhase \in {"idle", "net", "level"}
  /\ planSeen \subseteq PlanKeys /\ planTodo \subseteq planSeen
  /\ planPending \in Queues(Due(planDemand, planSeen))
  /\ (planPhase # "net" => planPending = <<>>)
  /\ (planPhase # "idle" => planRuns < LastRun)

(* What a row takes off the shelf, and what all rows of an item take.          *)
Shelved2(rows, seen) == [key \in seen |-> rows[key].gross - rows[key].net - rows[key].supply]
Of(seen, i) == {key \in seen : key[1] = i}

(* The rows of an item take no more than the shelf lost; supply that lands     *)
(* after the last of them is untouched.                                        *)
TakesOnce(i) ==
  /\ (~Planning!Read(i) => Of(planSeen, i) = {})
  /\ (Planning!Read(i) =>
        /\ SumOver(Shelved2(planRows, planSeen), Of(planSeen, i)) <= planStock[i] - planShelf[i]
        /\ \A d \in Planning!Buckets :
             (\A b \in Planning!Buckets : <<i, b>> \in planSeen => b < d)
               => planLeft[i][d] = planArriving[i][d] + planOrders[i][d])

(* What was built of a sold item, and what would be if all that the newest run *)
(* says were built, is what customers want, period by period.                  *)
BuildsOnce ==
  /\ \A i \in Planning!Items : \A b \in Planning!Buckets :
       Sold(i) => planOrders[i][b] <= planDemand[i][b]
  /\ (planPhase # "idle" =>
        \A i \in Planning!Items : \A b \in Planning!Buckets :
          Sold(i) /\ <<i, b>> \in planSeen
            => planRows[<<i, b>>].net = 0
               \/ planOrders[i][b] + planRows[<<i, b>>].net <= planDemand[i][b])
  /\ \A g \in planSuggestions : g.run <= planRuns
  /\ \A g \in planSuggestions : \A h \in planSuggestions :
       g.run = h.run /\ g.item = h.item /\ g.bucket = h.bucket => g = h
  /\ \A g \in planSuggestions :
       g.run = planRuns /\ g.state = "open" /\ Sold(g.item)
         => planOrders[g.item][g.bucket] + g.quantity <= planDemand[g.item][g.bucket]

PlanKept ==
  /\ PlanTypes
  /\ (planPhase # "idle" => \A i \in Planning!Items : TakesOnce(i))
  /\ BuildsOnce
  /\ Planning!OverloadIsReported

(* What a planner checked still holds when the document is written: planners   *)
(* take turns, and no run begins meanwhile.                                    *)
Convertible(g) ==
  /\ planPhase = "idle" /\ g \in planSuggestions
  /\ g.state = "open" /\ g.run = planRuns
PlanAsks ==
  /\ planConverting \in [Sessions -> Planning!SuggestionRows \cup {Planning!NoSuggestion}]
  /\ \A s \in Sessions : planConverting[s] # Planning!NoSuggestion =>
       /\ Convertible(planConverting[s])
       /\ \A t \in Sessions : planConverting[t] # Planning!NoSuggestion => t = s
PlanInv == PlanKept /\ PlanAsks

LEMMA PlanStart == Planning!Init => PlanInv
<1> SUFFICES ASSUME Planning!Init PROVE PlanInv
  OBVIOUS
<1>1. /\ planStock \in [Planning!Items -> Nat]
      /\ planDemand \in [Planning!Items -> [Planning!Buckets -> Nat]]
      /\ planArriving \in [Planning!Items -> [Planning!Buckets -> Nat]]
  BY PlanConstants DEF Planning!Init
<1>2. /\ planOrders = Planning!None /\ planPhase = "idle" /\ planPending = <<>> /\ planSeen = {}
      /\ planShelf = [i \in Planning!Items |-> Planning!Unread] /\ planLeft = Planning!None
      /\ planRows = <<>> /\ planTodo = {} /\ planPlaced = [b \in Planning!Buckets |-> 0]
      /\ planLate = {} /\ planRuns = 0 /\ planSuggestions = {}
  BY DEF Planning!Init
<1>3. Planning!None \in [Planning!Items -> [Planning!Buckets -> Nat]]
      /\ \A i \in Planning!Items : \A b \in Planning!Buckets : Planning!None[i][b] = 0
  BY DEF Planning!None
<1>4. PlanTyped
  <2>1. DOMAIN planRows = planSeen
    BY <1>2
  <2>2. planRuns \in 0..LastRun
    BY <1>2, PlanConstants
  <2> QED
    BY <1>1, <1>2, <1>3, <2>1, <2>2 DEF PlanTyped
<1>5. <<>> \in Queues(Due(planDemand, planSeen))
  BY DEF Queues, InOrder
<1>6. PlanTypes
  BY <1>1, <1>2, <1>4, <1>5 DEF PlanTypes
<1>7. BuildsOnce
  BY <1>1, <1>2, <1>3 DEF BuildsOnce
<1>8. Planning!OverloadIsReported
  BY <1>2, PlanConstants DEF Planning!OverloadIsReported
<1>9. PlanAsks
  BY DEF Planning!Init, PlanAsks
<1> QED
  BY <1>2, <1>6, <1>7, <1>8, <1>9 DEF PlanInv, PlanKept

LEMMA PlanIsTyped == PlanInv => Planning!TypeOK
BY DEF PlanInv, PlanKept, PlanTypes, PlanTyped, PlanAsks, Planning!TypeOK

LEMMA SumUnderSum ==
  ASSUME NEW S, IsFiniteSet(S), NEW f, NEW g, \A x \in S : f[x] \in Int /\ g[x] \in Int /\ f[x] <= g[x]
  PROVE  SumOver(f, S) <= SumOver(g, S)
<1> DEFINE h == [x \in S |-> g[x] - f[x]]
<1>1. \A x \in S : h[x] \in Nat /\ g[x] = f[x] + h[x]
  OBVIOUS
<1>2. SumOver(h, S) \in Nat
  BY <1>1, SumOfNats
<1>3. SumOver(g, S) = SumOver(f, S) + SumOver(h, S)
  <2>1. \A x \in S : f[x] \in Int /\ h[x] \in Int /\ g[x] = f[x] + h[x]
    BY <1>1
  <2> HIDE DEF h
  <2> QED
    BY <2>1, SumOfSums
<1>4. SumOver(f, S) \in Int
  BY SumTakesAny
<1> QED
  BY <1>2, <1>3, <1>4

LEMMA PlanInvSuffices ==
  PlanInv => /\ Planning!NothingCoversTwice
             /\ Planning!OverloadIsReported
             /\ Planning!NothingBuiltTwice
<1> SUFFICES ASSUME PlanKept PROVE Planning!NothingCoversTwice /\ Planning!NothingBuiltTwice
  BY DEF PlanInv, PlanKept
<1>0. /\ planStock \in [Planning!Items -> Nat] /\ planShelf \in [Planning!Items -> Nat \cup {-1}]
      /\ planSeen \subseteq PlanKeys
      /\ \A key \in planSeen : planRows[key] \in Planning!RequirementRows
      /\ planOrders \in [Planning!Items -> [Planning!Buckets -> Nat]]
      /\ planDemand \in [Planning!Items -> [Planning!Buckets -> Nat]]
  BY PlanConstants DEF PlanKept, PlanTypes, PlanTyped
<1>1. ASSUME NEW i \in Planning!Items, Planning!Read(i), planPhase # "idle"
      PROVE  Planning!Total(Of(planSeen, i), LAMBDA key : planRows[key].gross - planRows[key].net)
               <= Planning!Total(Of(planSeen, i), LAMBDA key : planRows[key].supply) + planStock[i]
  <2> DEFINE S == Of(planSeen, i)
             t == [key \in planSeen |-> planRows[key].gross - planRows[key].net]
             h == [key \in planSeen |-> planRows[key].supply]
             f == Shelved2(planRows, planSeen)
  <2>1. S \subseteq planSeen /\ IsFiniteSet(S)
    <3>1. S \subseteq PlanKeys
      BY <1>0 DEF Of
    <3> QED
      BY <3>1, PlanFinite, FS_Subset DEF Of
  <2>2. \A key \in planSeen : /\ t[key] \in Int /\ h[key] \in Int /\ f[key] \in Int
                              /\ t[key] = f[key] + h[key]
    BY <1>0 DEF Shelved2, Planning!RequirementRows
  <2>3. SumOver(t, S) = SumOver(f, S) + SumOver(h, S)
    <3> HIDE DEF t, h, f, S
    <3> QED
      BY <2>1, <2>2, SumOfSums
  <2>4. SumOver(f, S) <= planStock[i] - planShelf[i]
    BY <1>1 DEF PlanKept, TakesOnce
  <2>5. planShelf[i] \in Nat /\ planStock[i] \in Nat
    BY <1>0, <1>1, PlanConstants DEF Planning!Read
  <2>6. SumOver(f, S) \in Int /\ SumOver(h, S) \in Int
    <3> HIDE DEF t, h, f, S
    <3> QED
      BY <2>1, <2>2, SumTakesAny
  <2>7. Planning!Total(S, LAMBDA key : planRows[key].gross - planRows[key].net) = SumOver(t, S)
    <3> DEFINE Plus(it, s) == IF s = {} THEN 0 ELSE (planRows[First(s)].gross - planRows[First(s)].net)
                                                      + it[s \ {First(s)}]
    <3>1. ASSUME NEW it, NEW s \in SUBSET S PROVE Plus(it, s) = Added(t, it, s)
      <4>1. CASE s # {}
        <5>1. First(s) \in planSeen
          BY <2>1, <4>1 DEF First
        <5> QED
          BY <4>1, <5>1 DEF Added
      <4> QED
        BY <4>1 DEF Added
    <3>2. ASSUME NEW it PROVE [s \in SUBSET S |-> Plus(it, s)] = [s \in SUBSET S |-> Added(t, it, s)]
      BY <3>1
    <3>3. (CHOOSE it : it = [s \in SUBSET S |-> Plus(it, s)]) = CHOOSE it : Adds(t, SUBSET S, it)
      BY <3>2 DEF Adds
    <3>4. SumOver(t, S) = (CHOOSE it : Adds(t, SUBSET S, it))[S]
      BY SumIsChosen
    <3>5. Planning!Total(S, LAMBDA key : planRows[key].gross - planRows[key].net)
            = (CHOOSE it : it = [s \in SUBSET S |-> Plus(it, s)])[S]
      BY DEF Planning!Total, Planning!MapThenSumSet, Planning!MapThenFoldSet, First
    <3> QED
      BY <3>3, <3>4, <3>5
  <2>8. Planning!Total(S, LAMBDA key : planRows[key].supply) = SumOver(h, S)
    <3> DEFINE Plus(it, s) == IF s = {} THEN 0 ELSE planRows[First(s)].supply + it[s \ {First(s)}]
    <3>1. ASSUME NEW it, NEW s \in SUBSET S PROVE Plus(it, s) = Added(h, it, s)
      <4>1. CASE s # {}
        <5>1. First(s) \in planSeen
          BY <2>1, <4>1 DEF First
        <5> QED
          BY <4>1, <5>1 DEF Added
      <4> QED
        BY <4>1 DEF Added
    <3>2. ASSUME NEW it PROVE [s \in SUBSET S |-> Plus(it, s)] = [s \in SUBSET S |-> Added(h, it, s)]
      BY <3>1
    <3>3. (CHOOSE it : it = [s \in SUBSET S |-> Plus(it, s)]) = CHOOSE it : Adds(h, SUBSET S, it)
      BY <3>2 DEF Adds
    <3>4. SumOver(h, S) = (CHOOSE it : Adds(h, SUBSET S, it))[S]
      BY SumIsChosen
    <3>5. Planning!Total(S, LAMBDA key : planRows[key].supply)
            = (CHOOSE it : it = [s \in SUBSET S |-> Plus(it, s)])[S]
      BY DEF Planning!Total, Planning!MapThenSumSet, Planning!MapThenFoldSet, First
    <3> QED
      BY <3>3, <3>4, <3>5
  <2> HIDE DEF t, h, f, S
  <2>9. SumOver(t, S) <= SumOver(h, S) + planStock[i]
    BY <2>3, <2>4, <2>5, <2>6
  <2> QED
    BY <2>7, <2>8, <2>9 DEF S
<1>2. ASSUME NEW i \in Planning!Items, Sold(i)
      PROVE  Planning!Total(Planning!Buckets, LAMBDA b : planOrders[i][b])
               <= Planning!Total(Planning!Buckets, LAMBDA b : planDemand[i][b])
  <2>1. PICK f, g : f = planOrders[i] /\ g = planDemand[i]
    OBVIOUS
  <2>2. \A b \in Planning!Buckets : f[b] \in Int /\ g[b] \in Int /\ f[b] <= g[b]
    BY <1>0, <1>2, <2>1 DEF PlanKept, BuildsOnce
  <2>3. SumOver(f, Planning!Buckets) <= SumOver(g, Planning!Buckets)
    BY <2>2, PlanFinite, SumUnderSum
  <2>4. /\ Planning!Total(Planning!Buckets, LAMBDA b : f[b]) = SumOver(f, Planning!Buckets)
        /\ Planning!Total(Planning!Buckets, LAMBDA b : g[b]) = SumOver(g, Planning!Buckets)
    BY PlanTotal
  <2> QED
    BY <2>1, <2>3, <2>4
<1>3. Planning!NothingCoversTwice
  BY <1>1 DEF Planning!NothingCoversTwice, Of
<1>4. Planning!NothingBuiltTwice
  BY <1>2 DEF Planning!NothingBuiltTwice, Sold
<1> QED
  BY <1>3, <1>4

(* ----------------------------- what is put in it --------------------------- *)

(* The demands mk are put into a list one by one.                              *)
Put(mk, base, it, s) ==
  IF s = {} THEN base ELSE Planning!Queue(it[s \ {First(s)}], mk[First(s)])
Puts(mk, base, S, it) == it = [s \in SUBSET S |-> Put(mk, base, it, s)]

LEMMA PutsKeep ==
  ASSUME NEW S, IsFiniteSet(S), NEW T \in SUBSET PlanDemands, NEW base \in Queues(T),
         NEW mk \in [S -> T]
  PROVE  (CHOOSE it : Puts(mk, base, S, it))[S] \in Queues(T)
<1>0. PICK A : A = Queues(T)
  OBVIOUS
<1>1. PICK step \in [S \X A -> A] :
        \A x \in S : \A list \in A : step[<<x, list>>] = Planning!Queue(list, mk[x])
  <2> DEFINE step == [x \in S \X A |-> Planning!Queue(x[2], mk[x[1]])]
  <2>1. step \in [S \X A -> A]
    BY <1>0, QueueKeeps
  <2>2. \A x \in S : \A list \in A : step[<<x, list>>] = Planning!Queue(list, mk[x])
    OBVIOUS
  <2> QED
    BY <2>1, <2>2
<1>2. base \in A
  BY <1>0
<1>3. PICK it \in [SUBSET S -> A] : \A s \in SUBSET S : Folded(it, step, base, s)
  <2>1. Folding(step, S, A)
    BY DEF Folding
  <2>2. PICK it : Folds(it, step, base, S, A)
    BY <1>2, <2>1, FoldExists
  <2> QED
    BY <2>2 DEF Folds
<1>4. ASSUME NEW s \in SUBSET S PROVE it[s] = Put(mk, base, it, s)
  <2>1. CASE s = {}
    BY <1>3, <2>1 DEF Put, Folded
  <2>2. CASE s # {}
    <3>1. First(s) \in s
      BY <2>2 DEF First
    <3>2. First(s) \in S /\ s \ {First(s)} \in SUBSET S
      BY <3>1
    <3>3. it[s \ {First(s)}] \in A
      BY <3>2
    <3>4. it[s] = step[<<First(s), it[s \ {First(s)}]>>]
      BY <1>3, <2>2 DEF Folded
    <3>5. step[<<First(s), it[s \ {First(s)}]>>] = Planning!Queue(it[s \ {First(s)}], mk[First(s)])
      BY <1>1, <3>2, <3>3
    <3> QED
      BY <2>2, <3>4, <3>5 DEF Put
  <2> QED
    BY <2>1, <2>2
<1>5. Puts(mk, base, S, it)
  <2>1. it = [s \in SUBSET S |-> it[s]]
    OBVIOUS
  <2> QED
    BY <1>4, <2>1 DEF Puts
<1> DEFINE v == CHOOSE w : Puts(mk, base, S, w)
<1>6. Puts(mk, base, S, v)
  BY <1>5
<1> HIDE DEF v
<1>7. \A s \in SUBSET S : v[s] = Put(mk, base, v, s)
  BY <1>6 DEF Puts
<1>8. v[{}] \in A
  BY <1>2, <1>7 DEF Put
<1>9. ASSUME NEW s \in SUBSET S, s # {}, v[s \ {First(s)}] \in A PROVE v[s] \in A
  <2>1. First(s) \in s
    BY <1>9 DEF First
  <2>2. mk[First(s)] \in T
    BY <2>1
  <2>3. Planning!Queue(v[s \ {First(s)}], mk[First(s)]) \in A
    BY <1>0, <1>9, <2>2, QueueKeeps
  <2> QED
    BY <1>7, <1>9, <2>3 DEF Put
<1>10. v[S] \in A
  BY <1>8, <1>9, FoldStays
<1> QED
  BY <1>0, <1>10 DEF v

LEMMA FirstIsDue ==
  ASSUME planDemand \in [Planning!Items -> [Planning!Buckets -> Nat]]
  PROVE  Planning!FirstDemand \in Queues(Due(planDemand, {}))
<1> DEFINE S == {key \in Planning!Keys : planDemand[key[1]][key[2]] > 0}
           mk == [key \in S |-> [item |-> key[1], bucket |-> key[2],
                                 amount |-> planDemand[key[1]][key[2]]]]
           Turn(it, s) == IF s = {} THEN <<>>
                          ELSE Planning!Queue(it[s \ {First(s)}],
                                 [item |-> First(s)[1], bucket |-> First(s)[2],
                                  amount |-> planDemand[First(s)[1]][First(s)[2]]])
           T == Due(planDemand, {})
<1>1. IsFiniteSet(S)
  BY PlanConstants, PlanFinite, FS_Subset
<1>2. mk \in [S -> T]
  <2>1. ASSUME NEW key \in S PROVE mk[key] \in T
    <3>1. key[1] \in Planning!Items /\ key[2] \in Planning!Buckets
      BY PlanConstants DEF PlanKeys
    <3>2. planDemand[key[1]][key[2]] \in Nat
      BY <3>1
    <3>3. mk[key] = [item |-> key[1], bucket |-> key[2], amount |-> planDemand[key[1]][key[2]]]
      OBVIOUS
    <3> HIDE DEF mk
    <3> QED
      BY <3>1, <3>2, <3>3 DEF Due, PlanDemands
  <2> QED
    BY <2>1
<1>3. T \in SUBSET PlanDemands
  BY DEF Due
<1>4. <<>> \in Queues(T)
  BY DEF Queues, InOrder
<1>5. ASSUME NEW it, NEW s \in SUBSET S PROVE Turn(it, s) = Put(mk, <<>>, it, s)
  <2>1. CASE s # {}
    <3>1. First(s) \in S
      BY <2>1 DEF First
    <3>2. mk[First(s)] = [item |-> First(s)[1], bucket |-> First(s)[2],
                          amount |-> planDemand[First(s)[1]][First(s)[2]]]
      BY <3>1
    <3> HIDE DEF mk
    <3> QED
      BY <2>1, <3>2 DEF Put
  <2> QED
    BY <2>1 DEF Put
<1>6. ASSUME NEW it PROVE [s \in SUBSET S |-> Turn(it, s)] = [s \in SUBSET S |-> Put(mk, <<>>, it, s)]
  BY <1>5
<1>7. (CHOOSE it : it = [s \in SUBSET S |-> Turn(it, s)]) = CHOOSE it : Puts(mk, <<>>, S, it)
  BY <1>6 DEF Puts
<1>8. Planning!FirstDemand = (CHOOSE it : it = [s \in SUBSET S |-> Turn(it, s)])[S]
  BY DEF Planning!FirstDemand, Planning!FoldSet, Planning!MapThenFoldSet, First
<1>9. (CHOOSE it : Puts(mk, <<>>, S, it))[S] \in Queues(T)
  <2> HIDE DEF mk, S, T
  <2> QED
    BY <1>1, <1>2, <1>3, <1>4, PutsKeep
<1> QED
  BY <1>7, <1>8, <1>9

(* What is short of an item is put behind what the list still holds; nothing   *)
(* of it is of a sold item.                                                    *)
LEMMA ExplodedIsDue ==
  ASSUME PlanTypes, NEW i \in Planning!Items, NEW b \in Planning!Buckets, NEW net \in Nat, NEW seen,
         Tail(planPending) \in Queues(Due(planDemand, seen))
  PROVE  Planning!Exploded(i, b, net) \in Queues(Due(planDemand, seen))
<1> DEFINE at == Planning!Max({0, b - Lead[i]})
           S == {j \in Planning!Items : net * PartsOf[i][j] > 0}
           mk == [j \in S |-> [item |-> j, bucket |-> at, amount |-> net * PartsOf[i][j]]]
           Turn(it, s) == IF s = {} THEN Tail(planPending)
                          ELSE Planning!Queue(it[s \ {First(s)}],
                                 [item |-> First(s), bucket |-> at,
                                  amount |-> net * PartsOf[i][First(s)]])
           T == Due(planDemand, seen)
<1>1. IsFiniteSet(S)
  BY PlanFinite, FS_Subset
<1>2. at \in Planning!Buckets
  <2>1. PICK l \in Nat, c \in Nat, last \in Nat : l = Lead[i] /\ c = b /\ last = LastBucket /\ c <= last
    BY PlanConstants
  <2>2. Planning!Max({0, c - l}) = IF 0 >= c - l THEN 0 ELSE c - l
    BY <2>1, PlanEnds
  <2>3. at \in 0..last
    BY <2>1, <2>2
  <2> QED
    BY <2>1, <2>3, PlanConstants
<1> HIDE DEF at
<1>3. mk \in [S -> T]
  <2>1. ASSUME NEW j \in S PROVE mk[j] \in T
    <3>1. j \in Planning!Items /\ PartsOf[i][j] \in Nat /\ net * PartsOf[i][j] > 0
      BY PlanConstants
    <3>2. net * PartsOf[i][j] \in Nat /\ PartsOf[i][j] # 0
      BY <3>1
    <3>3. ~Sold(j)
      BY <3>2 DEF Sold
    <3>4. mk[j] = [item |-> j, bucket |-> at, amount |-> net * PartsOf[i][j]]
      OBVIOUS
    <3> HIDE DEF mk
    <3> QED
      BY <1>2, <3>1, <3>2, <3>3, <3>4 DEF Due, PlanDemands
  <2> QED
    BY <2>1
<1>4. T \in SUBSET PlanDemands
  BY DEF Due
<1>5. ASSUME NEW it, NEW s \in SUBSET S PROVE Turn(it, s) = Put(mk, Tail(planPending), it, s)
  <2>1. CASE s # {}
    <3>1. First(s) \in S
      BY <2>1 DEF First
    <3>2. mk[First(s)] = [item |-> First(s), bucket |-> at, amount |-> net * PartsOf[i][First(s)]]
      BY <3>1
    <3> HIDE DEF mk
    <3> QED
      BY <2>1, <3>2 DEF Put
  <2> QED
    BY <2>1 DEF Put
<1>6. ASSUME NEW it
      PROVE [s \in SUBSET S |-> Turn(it, s)] = [s \in SUBSET S |-> Put(mk, Tail(planPending), it, s)]
  BY <1>5
<1>7. (CHOOSE it : it = [s \in SUBSET S |-> Turn(it, s)])
        = CHOOSE it : Puts(mk, Tail(planPending), S, it)
  BY <1>6 DEF Puts
<1>8. Planning!Exploded(i, b, net) = (CHOOSE it : it = [s \in SUBSET S |-> Turn(it, s)])[S]
  BY DEF Planning!Exploded, Planning!FoldSet, Planning!MapThenFoldSet, First, at
<1>9. (CHOOSE it : Puts(mk, Tail(planPending), S, it))[S] \in Queues(T)
  <2> HIDE DEF mk, S, T
  <2> QED
    BY <1>1, <1>3, <1>4, PutsKeep DEF T
<1> QED
  BY <1>7, <1>8, <1>9

(* -------------------------------- one turn --------------------------------- *)

(* What a turn reads of the open supply, and what it leaves of it.             *)
LEMMA OpenIsTyped ==
  ASSUME PlanTypes, NEW i \in Planning!Items
  PROVE  Planning!Open(i) \in [Planning!Buckets -> Nat] /\ Planning!Shelf(i) \in Nat
<1>1. /\ planArriving \in [Planning!Items -> [Planning!Buckets -> Nat]]
      /\ planOrders \in [Planning!Items -> [Planning!Buckets -> Nat]]
      /\ planLeft \in [Planning!Items -> [Planning!Buckets -> Nat]]
      /\ planStock \in [Planning!Items -> Nat]
      /\ planShelf \in [Planning!Items -> Nat \cup {Planning!Unread}]
  BY DEF PlanTypes, PlanTyped
<1>2. \A b \in Planning!Buckets : planArriving[i][b] + planOrders[i][b] \in Nat
  <2> SUFFICES ASSUME NEW b \in Planning!Buckets PROVE planArriving[i][b] + planOrders[i][b] \in Nat
    OBVIOUS
  <2>1. planArriving[i][b] \in Nat /\ planOrders[i][b] \in Nat
    BY <1>1
  <2> QED
    BY <2>1
<1>3. Planning!Open(i) \in [Planning!Buckets -> Nat]
  BY <1>1, <1>2 DEF Planning!Open
<1> QED
  BY <1>1, <1>3 DEF Planning!Shelf

LEMMA LandedIsSum ==
  ASSUME PlanTypes, NEW i \in Planning!Items, NEW b \in Planning!Buckets
  PROVE  /\ Planning!Landed(i, b) \in Nat
         /\ Planning!Open(i)[b] <= Planning!Landed(i, b)
<1>1. PICK f : f = Planning!Open(i)
  OBVIOUS
<1>2. 0..b \subseteq Planning!Buckets /\ b \in 0..b /\ IsFiniteSet(0..b)
  <2>1. b \in Nat /\ LastBucket \in Nat /\ b <= LastBucket /\ Planning!Buckets = 0..LastBucket
    BY PlanConstants
  <2> QED
    BY <2>1, FS_Interval
<1>3. \A d \in 0..b : f[d] \in Nat
  BY <1>1, <1>2, OpenIsTyped
<1>4. SumOver(f, 0..b) \in Nat /\ f[b] <= SumOver(f, 0..b)
  BY <1>2, <1>3, SumOfNats
<1>5. Planning!Total(0..b, LAMBDA d : f[d]) = SumOver(f, 0..b)
  BY PlanTotal
<1>6. Planning!Landed(i, b) = SumOver(f, 0..b)
  BY <1>1, <1>5 DEF Planning!Landed
<1> QED
  BY <1>1, <1>4, <1>6

LEMMA TurnTakes ==
  ASSUME PlanTypes, NEW i \in Planning!Items, NEW b \in Planning!Buckets, NEW amount \in Nat
  PROVE  /\ Planning!Taken(i, b, amount) \in Nat /\ Planning!Taken(i, b, amount) <= amount
         /\ Planning!Taken(i, b, amount) = amount
            \/ Planning!Open(i)[b] <= Planning!Taken(i, b, amount)
         /\ Planning!Net(i, b, amount) \in Nat
         /\ Planning!Net(i, b, amount) = 0
            \/ /\ Planning!Net(i, b, amount)
                    = amount - Planning!Shelf(i) - Planning!Taken(i, b, amount)
               /\ Planning!Taken(i, b, amount) # amount
         /\ Planning!ShelfAfter(i, amount) \in Nat
         /\ amount - Planning!Net(i, b, amount) - Planning!Taken(i, b, amount)
              <= Planning!Shelf(i) - Planning!ShelfAfter(i, amount)
<1>1. PICK landed \in Nat, open \in Nat, shelf \in Nat :
        /\ landed = Planning!Landed(i, b) /\ open = Planning!Open(i)[b] /\ shelf = Planning!Shelf(i)
        /\ open <= landed
  BY LandedIsSum, OpenIsTyped
<1>2. PICK taken \in Nat : /\ taken = Planning!Taken(i, b, amount)
                           /\ taken = IF amount <= landed THEN amount ELSE landed
  <2>1. Planning!Min({amount, landed}) = IF amount <= landed THEN amount ELSE landed
    BY PlanEnds
  <2> QED
    BY <1>1, <2>1 DEF Planning!Taken
<1>3. PICK net \in Nat : /\ net = Planning!Net(i, b, amount)
                         /\ net = IF 0 >= amount - shelf - taken THEN 0 ELSE amount - shelf - taken
  <2>1. Planning!Max({0, amount - shelf - taken})
          = IF 0 >= amount - shelf - taken THEN 0 ELSE amount - shelf - taken
    BY PlanEnds
  <2> QED
    BY <1>1, <1>2, <2>1 DEF Planning!Net
<1>4. PICK rest \in Nat : /\ rest = Planning!ShelfAfter(i, amount)
                          /\ rest = shelf - IF shelf <= amount THEN shelf ELSE amount
  <2>1. Planning!Min({shelf, amount}) = IF shelf <= amount THEN shelf ELSE amount
    BY PlanEnds
  <2> QED
    BY <1>1, <2>1 DEF Planning!ShelfAfter
<1>5. /\ taken <= amount /\ (taken = amount \/ open <= taken)
      /\ net = 0 \/ (net = amount - shelf - taken /\ taken # amount)
      /\ amount - net - taken <= shelf - rest
  BY <1>1, <1>2, <1>3, <1>4
<1> QED
  BY <1>1, <1>2, <1>3, <1>4, <1>5

LEMMA TurnLeaves ==
  ASSUME PlanTypes, NEW i \in Planning!Items, NEW b \in Planning!Buckets, NEW amount \in Nat
  PROVE  /\ Planning!Remaining(i, b, amount) \in [Planning!Buckets -> Nat]
         /\ \A d \in Planning!Buckets : b < d =>
              Planning!Remaining(i, b, amount)[d] = Planning!Open(i)[d]
<1> DEFINE f == Planning!Open(i)
           before(d) == Planning!Total(0..(d - 1), LAMBDA e : f[e])
           gone(d) == Planning!Max({0, Planning!Min({f[d], Planning!Taken(i, b, amount) - before(d)})})
<1>1. f \in [Planning!Buckets -> Nat]
  BY OpenIsTyped
<1>2. /\ b \in Nat /\ LastBucket \in Nat /\ b <= LastBucket /\ Planning!Buckets = 0..LastBucket
  BY PlanConstants
<1>3. ASSUME NEW d \in Planning!Buckets PROVE f[d] - gone(d) \in Nat
  <2>1. PICK g : g = f
    OBVIOUS
  <2>2. d \in Nat /\ 0..(d - 1) \subseteq Planning!Buckets /\ IsFiniteSet(0..(d - 1))
    BY <1>2, FS_Interval
  <2>3. \A e \in 0..(d - 1) : g[e] \in Nat
    BY <1>1, <2>1, <2>2
  <2>4. SumOver(g, 0..(d - 1)) \in Nat
    BY <2>2, <2>3, SumOfNats
  <2>5. Planning!Total(0..(d - 1), LAMBDA e : g[e]) = SumOver(g, 0..(d - 1))
    BY PlanTotal
  <2>6. PICK sum \in Nat, open \in Nat, taken \in Nat :
          sum = before(d) /\ open = f[d] /\ taken = Planning!Taken(i, b, amount)
    <3>1. before(d) \in Nat
      BY <2>1, <2>4, <2>5
    <3>2. f[d] \in Nat /\ Planning!Taken(i, b, amount) \in Nat
      BY <1>1, TurnTakes
    <3> QED
      BY <3>1, <3>2
  <2>7. Planning!Min({open, taken - sum}) = IF open <= taken - sum THEN open ELSE taken - sum
    <3>1. open \in Int /\ taken - sum \in Int
      OBVIOUS
    <3> HIDE DEF f, gone, before
    <3> QED
      BY <3>1, PlanEnds
  <2>8. PICK least \in Int : least = Planning!Min({open, taken - sum}) /\ least <= open
    BY <2>7
  <2>9. Planning!Max({0, least}) = IF 0 >= least THEN 0 ELSE least
    BY PlanEnds
  <2>10. gone(d) = Planning!Max({0, least})
    BY <2>6, <2>8
  <2> HIDE DEF f, gone, before
  <2>11. gone(d) \in Nat /\ gone(d) <= open
    BY <2>8, <2>9, <2>10
  <2> QED
    BY <2>6, <2>11
<1>4. Planning!Remaining(i, b, amount)
        = [d \in Planning!Buckets |-> f[d] - IF d <= b THEN gone(d) ELSE 0]
  BY DEF Planning!Remaining
<1>5. ASSUME NEW d \in Planning!Buckets PROVE f[d] \in Nat /\ d \in Nat
  BY <1>1, <1>2
<1> HIDE DEF f, gone, before
<1>6. ASSUME NEW d \in Planning!Buckets
      PROVE  /\ f[d] - (IF d <= b THEN gone(d) ELSE 0) \in Nat
             /\ b < d => f[d] - (IF d <= b THEN gone(d) ELSE 0) = f[d]
  <2>1. CASE d <= b
    BY <1>2, <1>3, <1>5, <2>1
  <2>2. CASE ~(d <= b)
    BY <1>5, <2>2
  <2> QED
    BY <2>1, <2>2
<1>7. \A d \in Planning!Buckets :
        Planning!Remaining(i, b, amount)[d] = f[d] - IF d <= b THEN gone(d) ELSE 0
  BY <1>4
<1>8. Planning!Remaining(i, b, amount) \in [Planning!Buckets -> Nat]
  BY <1>4, <1>6
<1> QED
  BY <1>6, <1>7, <1>8 DEF f

(* What follows the head of the list is still due when its key is netted.      *)
LEMMA RestIsDue ==
  ASSUME NEW demand, NEW seen, NEW list \in Queues(Due(demand, seen)), list # <<>>
  PROVE  Tail(list) \in Queues(Due(demand, seen \cup {<<Head(list).item, Head(list).bucket>>}))
<1> DEFINE p == Head(list)
           more == seen \cup {<<p.item, p.bucket>>}
<1>1. PICK rest : rest = Tail(list)
  OBVIOUS
<1>2. /\ rest \in Queues(Due(demand, seen)) /\ p \in Due(demand, seen)
      /\ \A n \in 1..Len(rest) : rest[n] \in Due(demand, seen) /\ ~Planning!Before(rest[n], p)
  BY <1>1, TailKeeps
<1> HIDE DEF p
<1>3. ASSUME NEW n \in 1..Len(rest) PROVE rest[n] \in Due(demand, more)
  <2>1. PICK q \in PlanDemands : q = rest[n]
    BY <1>2 DEF Due
  <2>2. /\ q.bucket \in Nat /\ p.bucket \in Nat
    <3>1. Planning!Buckets \subseteq Nat
      BY PlanConstants
    <3>2. p \in PlanDemands
      BY <1>2 DEF Due
    <3> QED
      BY <3>1, <3>2 DEF PlanDemands
  <2>3. ~(q.bucket < p.bucket)
    BY <1>2, <2>1 DEF Planning!Before
  <2>4. ASSUME Sold(q.item)
        PROVE  /\ q.amount = demand[q.item][q.bucket]
               /\ \A b \in Planning!Buckets : <<q.item, b>> \in more => b <= q.bucket
    <3>1. /\ q.amount = demand[q.item][q.bucket]
          /\ \A b \in Planning!Buckets : <<q.item, b>> \in seen => b <= q.bucket
      BY <1>2, <2>1, <2>4 DEF Due
    <3>2. ASSUME NEW b \in Planning!Buckets, <<q.item, b>> \in more PROVE b <= q.bucket
      <4>1. CASE <<q.item, b>> \in seen
        BY <3>1, <4>1
      <4>2. CASE <<q.item, b>> = <<p.item, p.bucket>>
        BY <2>2, <2>3, <4>2
      <4> QED
        BY <3>2, <4>1, <4>2
    <3> QED
      BY <3>1, <3>2
  <2> QED
    BY <2>1, <2>4 DEF Due
<1> HIDE DEF more
<1>4. rest \in Seq(Due(demand, more))
  <2>1. rest \in Seq(Due(demand, seen))
    BY <1>2 DEF Queues
  <2>2. Len(rest) \in Nat /\ rest = [n \in 1..Len(rest) |-> rest[n]]
    BY <2>1
  <2> QED
    BY <1>3, <2>2
<1>5. rest \in Queues(Due(demand, more))
  BY <1>2, <1>4 DEF Queues
<1> QED
  BY <1>1, <1>5 DEF more, p

(* One more row of an item, and what it takes.                                 *)
LEMMA OneMoreRow ==
  ASSUME NEW rows, NEW seen, IsFiniteSet(seen), NEW i, NEW b, <<i, b>> \notin seen,
         NEW new, NEW more, more = seen \cup {<<i, b>>},
         \A key \in seen : /\ new[key] = rows[key]
                           /\ rows[key].gross - rows[key].net - rows[key].supply \in Int,
         new[<<i, b>>].gross - new[<<i, b>>].net - new[<<i, b>>].supply \in Int
  PROVE  /\ SumOver(Shelved2(new, more), Of(more, i))
              = SumOver(Shelved2(rows, seen), Of(seen, i))
                  + (new[<<i, b>>].gross - new[<<i, b>>].net - new[<<i, b>>].supply)
         /\ \A j : j # i => /\ Of(more, j) = Of(seen, j)
                            /\ SumOver(Shelved2(new, more), Of(more, j))
                                 = SumOver(Shelved2(rows, seen), Of(seen, j))
<1> DEFINE f == Shelved2(rows, seen)
           g == Shelved2(new, more)
           key == <<i, b>>
<1>1. \A k \in seen : f[k] \in Int /\ g[k] = f[k]
  BY DEF Shelved2
<1>2. g[key] = new[key].gross - new[key].net - new[key].supply
  BY DEF Shelved2
<1>3. \A j : Of(seen, j) \subseteq seen /\ IsFiniteSet(Of(seen, j))
  <2>1. \A j : Of(seen, j) \subseteq seen
    BY DEF Of
  <2> QED
    BY <2>1, FS_Subset
<1>4. Of(more, i) = Of(seen, i) \cup {key} /\ key \notin Of(seen, i)
  BY DEF Of
<1>5. \A j : j # i => Of(more, j) = Of(seen, j)
  BY DEF Of
<1> HIDE DEF f, g
<1>6. SumOver(g, Of(seen, i) \cup {key}) = SumOver(g, Of(seen, i)) + g[key]
  BY <1>1, <1>2, <1>3, <1>4, SumOfOneMore
<1>7. \A j : SumOver(g, Of(seen, j)) = SumOver(f, Of(seen, j))
  BY <1>1, <1>3, SumOfSame
<1>8. SumOver(g, Of(more, i)) = SumOver(f, Of(seen, i)) + g[key]
  BY <1>4, <1>6, <1>7
<1>9. \A j : j # i => SumOver(g, Of(more, j)) = SumOver(f, Of(seen, j))
  BY <1>5, <1>7
<1> QED
  BY <1>2, <1>5, <1>8, <1>9 DEF f, g

LEMMA SeenIsFinite == ASSUME PlanTypes PROVE IsFiniteSet(planSeen)
BY PlanFinite, FS_Subset DEF PlanTypes

LEMMA PlanNets == ASSUME PlanKept, Planning!NetNext PROVE PlanKept'
<1>0. PlanTypes /\ planPhase = "net" /\ planPending # <<>>
  BY DEF PlanKept, Planning!NetNext
<1>1. PICK p : p = Head(planPending)
  OBVIOUS
<1>2. PICK i, b, amount : i = p.item /\ b = p.bucket /\ amount = p.amount
  OBVIOUS
<1>3. /\ p \in Due(planDemand, planSeen)
      /\ Tail(planPending) \in Queues(Due(planDemand, planSeen))
      /\ Tail(planPending) \in Queues(Due(planDemand, planSeen \cup {<<i, b>>}))
  BY <1>0, <1>1, <1>2, TailKeeps, RestIsDue DEF PlanTypes
<1>4. i \in Planning!Items /\ b \in Planning!Buckets /\ amount \in Nat
  BY <1>2, <1>3 DEF Due, PlanDemands
<1>5. /\ planStock' = planStock /\ planDemand' = planDemand /\ planOrders' = planOrders
      /\ planArriving' = planArriving /\ planPhase' = planPhase /\ planTodo' = planTodo
      /\ planPlaced' = planPlaced /\ planLate' = planLate /\ planRuns' = planRuns
      /\ planSuggestions' = planSuggestions
  BY DEF Planning!NetNext, Planning!world
<1>6. CASE <<i, b>> \in planSeen
  <2>1. /\ planPending' = Tail(planPending) /\ planSeen' = planSeen /\ planRows' = planRows
        /\ planShelf' = planShelf /\ planLeft' = planLeft
    BY <1>1, <1>2, <1>6 DEF Planning!NetNext
  <2>2. PlanTypes'
    BY <1>0, <1>3, <1>5, <2>1 DEF PlanTypes, PlanTyped
  <2>3. \A j \in Planning!Items : TakesOnce(j)'
    BY <1>0, <1>5, <2>1 DEF PlanKept, TakesOnce, Planning!Read
  <2>4. BuildsOnce'
    BY <1>5, <2>1 DEF PlanKept, BuildsOnce
  <2>5. Planning!OverloadIsReported'
    BY <1>5 DEF PlanKept, Planning!OverloadIsReported
  <2> QED
    BY <2>2, <2>3, <2>4, <2>5 DEF PlanKept
<1>7. CASE <<i, b>> \notin planSeen
  <2> DEFINE key == <<i, b>>
             more == planSeen \cup {key}
             row == [gross |-> amount, available |-> Planning!Shelf(i),
                     supply |-> Planning!Taken(i, b, amount), net |-> Planning!Net(i, b, amount)]
  <2>1. /\ planSeen' = more
        /\ planRows' = [k \in planSeen' |-> IF k = key THEN row ELSE planRows[k]]
        /\ planShelf' = [planShelf EXCEPT ![i] = Planning!ShelfAfter(i, amount)]
        /\ planLeft' = [planLeft EXCEPT ![i] = Planning!Remaining(i, b, amount)]
        /\ planPending' = Planning!Exploded(i, b, Planning!Net(i, b, amount))
    BY <1>1, <1>2, <1>7 DEF Planning!NetNext
  <2>2. PICK net \in Nat, taken \in Nat, on \in Nat, after \in Nat :
          /\ net = Planning!Net(i, b, amount) /\ taken = Planning!Taken(i, b, amount)
          /\ on = Planning!Shelf(i) /\ after = Planning!ShelfAfter(i, amount)
          /\ taken = amount \/ Planning!Open(i)[b] <= taken
          /\ net = 0 \/ (net = amount - on - taken /\ taken # amount)
          /\ amount - net - taken <= on - after
    <3>1. Planning!Shelf(i) \in Nat
      BY <1>0, <1>4, OpenIsTyped
    <3> QED
      BY <1>0, <1>4, <3>1, TurnTakes
  <2>3. PICK rest : rest = Planning!Remaining(i, b, amount) /\ rest \in [Planning!Buckets -> Nat]
                    /\ \A d \in Planning!Buckets : b < d => rest[d] = Planning!Open(i)[d]
    BY <1>0, <1>4, TurnLeaves
  <2>4. /\ DOMAIN planRows = planSeen
        /\ \A k \in planSeen : planRows[k] \in Planning!RequirementRows
        /\ planShelf \in [Planning!Items -> Nat \cup {Planning!Unread}]
        /\ planLeft \in [Planning!Items -> [Planning!Buckets -> Nat]]
        /\ planSeen \subseteq PlanKeys /\ planTodo \subseteq planSeen
    BY <1>0 DEF PlanTypes, PlanTyped
  <2>5. key \in PlanKeys /\ key \notin planSeen /\ row \in Planning!RequirementRows
    BY <1>4, <1>7, <2>2 DEF PlanKeys, Planning!RequirementRows
  <2>6. /\ DOMAIN planRows' = more /\ planRows'[key] = row
        /\ \A k \in planSeen : planRows'[k] = planRows[k]
    BY <2>1, <2>5
  <2>7. PICK open \in [Planning!Buckets -> Nat] : open = Planning!Open(i)
    BY <1>0, <1>4, OpenIsTyped
  <2>8. /\ row.gross = amount /\ row.net = net /\ row.supply = taken
    BY <2>2
  <2> HIDE DEF row
  <2>9. PlanTypes'
    <3>1. DOMAIN planRows' = planSeen'
      BY <2>1, <2>6
    <3>2. \A k \in planSeen' : k \in Planning!Keys' /\ planRows'[k] \in Planning!RequirementRows'
      BY <1>0, <2>1, <2>4, <2>5, <2>6, PlanConstants DEF PlanTypes, PlanTyped,
         Planning!RequirementRows, Planning!Keys
    <3>3. /\ planShelf' \in [Planning!Items -> Nat \cup {Planning!Unread}]
          /\ planLeft' \in [Planning!Items -> [Planning!Buckets -> Nat]]
      BY <2>1, <2>2, <2>3, <2>4
    <3>4. PlanTyped'
      BY <1>0, <1>5, <3>1, <3>2, <3>3 DEF PlanTypes, PlanTyped
    <3>5. planPending' \in Queues(Due(planDemand', planSeen'))
      BY <1>0, <1>3, <1>4, <1>5, <2>1, <2>2, ExplodedIsDue
    <3>6. planSeen' \subseteq PlanKeys /\ planTodo' \subseteq planSeen'
      BY <1>5, <2>1, <2>4, <2>5
    <3> QED
      BY <1>0, <1>5, <3>4, <3>5, <3>6 DEF PlanTypes
  <2>10. /\ planShelf'[i] = after /\ planLeft'[i] = rest
         /\ \A j \in Planning!Items : j # i => planShelf'[j] = planShelf[j] /\ planLeft'[j] = planLeft[j]
    BY <1>4, <2>1, <2>2, <2>3, <2>4
  <2>11. \A j \in Planning!Items : TakesOnce(j)
    BY <1>0 DEF PlanKept
  <2> DEFINE old == Shelved2(planRows, planSeen)
             now == Shelved2(planRows', planSeen')
  <2>12. /\ SumOver(now, Of(planSeen', i)) = SumOver(old, Of(planSeen, i)) + (amount - net - taken)
         /\ \A j : j # i => /\ Of(planSeen', j) = Of(planSeen, j)
                            /\ SumOver(now, Of(planSeen', j)) = SumOver(old, Of(planSeen, j))
    <3>1. \A k \in planSeen : /\ planRows'[k] = planRows[k]
                              /\ planRows[k].gross - planRows[k].net - planRows[k].supply \in Int
      BY <2>4, <2>6 DEF Planning!RequirementRows
    <3>2. planRows'[key].gross - planRows'[key].net - planRows'[key].supply = amount - net - taken
      BY <2>6, <2>8
    <3>3. amount - net - taken \in Int
      BY <1>4, <2>2
    <3>4. PICK new, seen : new = planRows' /\ seen = planSeen' /\ seen = planSeen \cup {<<i, b>>}
      BY <2>1
    <3>5. /\ IsFiniteSet(planSeen) /\ <<i, b>> \notin planSeen
          /\ \A k \in planSeen : /\ new[k] = planRows[k]
                                 /\ planRows[k].gross - planRows[k].net - planRows[k].supply \in Int
          /\ new[<<i, b>>].gross - new[<<i, b>>].net - new[<<i, b>>].supply \in Int
      BY <1>0, <1>7, <3>1, <3>2, <3>3, <3>4, SeenIsFinite
    <3>6. /\ SumOver(Shelved2(new, seen), Of(seen, i))
               = SumOver(Shelved2(planRows, planSeen), Of(planSeen, i))
                   + (new[<<i, b>>].gross - new[<<i, b>>].net - new[<<i, b>>].supply)
          /\ \A j : j # i => /\ Of(seen, j) = Of(planSeen, j)
                             /\ SumOver(Shelved2(new, seen), Of(seen, j))
                                  = SumOver(Shelved2(planRows, planSeen), Of(planSeen, j))
      BY ONLY <3>4, <3>5, OneMoreRow
    <3> QED
      BY <3>2, <3>4, <3>6
  <2>13. SumOver(old, Of(planSeen, i)) \in Int
    <3>1. \A k \in planSeen : old[k] \in Int
      BY <2>4 DEF Shelved2, Planning!RequirementRows
    <3>2. Of(planSeen, i) \subseteq planSeen /\ IsFiniteSet(Of(planSeen, i))
      BY <1>0, SeenIsFinite, FS_Subset DEF Of
    <3> HIDE DEF old
    <3> QED
      BY <3>1, <3>2, SumTakesAny
  <2>14. planShelf[i] \in Nat \cup {-1} /\ planStock[i] \in Nat /\ Planning!Unread = -1
    BY <1>0, <1>4, <2>4, PlanConstants DEF PlanTypes, PlanTyped
  <2> HIDE DEF old, now
  <2>15. SumOver(now, Of(planSeen', i)) <= planStock[i] - after
    <3>1. CASE Planning!Read(i)
      <4>1. on = planShelf[i]
        BY <2>2, <3>1 DEF Planning!Read, Planning!Shelf
      <4>2. SumOver(old, Of(planSeen, i)) <= planStock[i] - planShelf[i]
        BY <1>4, <2>11, <3>1 DEF TakesOnce, old
      <4> QED
        BY <1>4, <2>2, <2>12, <2>13, <2>14, <4>1, <4>2
    <3>2. CASE ~Planning!Read(i)
      <4>1. on = planStock[i]
        BY <2>2, <3>2 DEF Planning!Read, Planning!Shelf
      <4>2. SumOver(old, Of(planSeen, i)) = 0
        BY <1>4, <2>11, <3>2, SumOfNone DEF TakesOnce
      <4> QED
        BY <1>4, <2>2, <2>12, <2>14, <4>1, <4>2
    <3> QED
      BY <3>1, <3>2
  <2>16. ASSUME NEW d \in Planning!Buckets,
                \A c \in Planning!Buckets : <<i, c>> \in planSeen => c < d
         PROVE  open[d] = planArriving[i][d] + planOrders[i][d]
    <3>1. CASE Planning!Read(i)
      <4>1. open = planLeft[i]
        BY <2>7, <3>1 DEF Planning!Read, Planning!Open
      <4> QED
        BY <1>4, <2>11, <2>16, <3>1, <4>1 DEF TakesOnce
    <3>2. CASE ~Planning!Read(i)
      <4>1. open = [c \in Planning!Buckets |-> planArriving[i][c] + planOrders[i][c]]
        BY <2>7, <3>2 DEF Planning!Read, Planning!Open
      <4> QED
        BY <4>1
    <3> QED
      BY <3>1, <3>2
  <2>17. ASSUME NEW j \in Planning!Items PROVE TakesOnce(j)'
    <3>1. CASE j = i
      <4>1. Planning!Read(i)'
        BY <2>2, <2>10, PlanConstants DEF Planning!Read, Planning!Unread
      <4>2. ASSUME NEW d \in Planning!Buckets,
                   \A c \in Planning!Buckets : <<i, c>> \in planSeen' => c < d
            PROVE  planLeft'[i][d] = planArriving'[i][d] + planOrders'[i][d]
        <5>1. b < d /\ \A c \in Planning!Buckets : <<i, c>> \in planSeen => c < d
          BY <1>4, <2>1, <4>2
        <5>2. planLeft'[i][d] = open[d]
          BY <2>3, <2>7, <2>10, <5>1
        <5> QED
          BY <1>5, <2>16, <5>1, <5>2
      <4>3. SumOver(Shelved2(planRows', planSeen'), Of(planSeen', i)) <= planStock'[i] - planShelf'[i]
        BY <1>5, <2>10, <2>15 DEF now
      <4> QED
        BY <3>1, <4>1, <4>2, <4>3 DEF TakesOnce
    <3>2. CASE j # i
      <4>1. /\ Of(planSeen', j) = Of(planSeen, j)
            /\ SumOver(now, Of(planSeen', j)) = SumOver(old, Of(planSeen, j))
            /\ planShelf'[j] = planShelf[j] /\ planLeft'[j] = planLeft[j]
        BY <2>10, <2>12, <3>2
      <4>2. \A c \in Planning!Buckets : <<j, c>> \in planSeen' <=> <<j, c>> \in planSeen
        BY <2>1, <3>2
      <4>3. Planning!Read(j)' <=> Planning!Read(j)
        BY <4>1 DEF Planning!Read, Planning!Unread
      <4>4. TakesOnce(j)
        BY <2>11
      <4> QED
        BY <1>5, <4>1, <4>2, <4>3, <4>4 DEF TakesOnce, old, now
    <3> QED
      BY <3>1, <3>2
  <2>18. ASSUME Sold(i) PROVE net = 0 \/ planOrders[i][b] + net <= planDemand[i][b]
    <3>1. amount = planDemand[i][b] /\ \A c \in Planning!Buckets : <<i, c>> \in planSeen => c <= b
      BY <1>2, <1>3, <2>18 DEF Due
    <3>2. \A c \in Planning!Buckets : <<i, c>> \in planSeen => c < b
      <4>1. Planning!Buckets \subseteq Nat
        BY PlanConstants
      <4> QED
        BY <1>4, <1>7, <3>1, <4>1
    <3>3. open[b] = planArriving[i][b] + planOrders[i][b]
      BY <1>4, <2>16, <3>2
    <3>4. planArriving[i][b] \in Nat /\ planOrders[i][b] \in Nat /\ open[b] \in Nat
      BY <1>0, <1>4 DEF PlanTypes, PlanTyped
    <3> QED
      BY <1>4, <2>2, <2>7, <3>1, <3>3, <3>4
  <2>19. BuildsOnce'
    <3>1. ASSUME NEW j \in Planning!Items, NEW c \in Planning!Buckets, Sold(j), <<j, c>> \in planSeen'
          PROVE  planRows'[<<j, c>>].net = 0
                 \/ planOrders'[j][c] + planRows'[<<j, c>>].net <= planDemand'[j][c]
      <4>1. CASE <<j, c>> \in planSeen
        <5>1. planRows'[<<j, c>>] = planRows[<<j, c>>]
          BY <2>6, <4>1
        <5> QED
          BY <1>0, <1>5, <3>1, <4>1, <5>1 DEF PlanKept, BuildsOnce
      <4>2. CASE <<j, c>> = key
        <5>1. j = i /\ c = b /\ planRows'[<<j, c>>].net = net
          BY <2>6, <2>8, <4>2
        <5> QED
          BY <1>5, <2>18, <3>1, <5>1
      <4> QED
        BY <2>1, <3>1, <4>1, <4>2
    <3> QED
      BY <1>5, <3>1 DEF PlanKept, BuildsOnce
  <2>20. Planning!OverloadIsReported'
    BY <1>5 DEF PlanKept, Planning!OverloadIsReported
  <2> QED
    BY <2>9, <2>17, <2>19, <2>20 DEF PlanKept
<1> QED
  BY <1>6, <1>7

(* ---------------------------- the other operations ------------------------- *)

LEMMA PlanStartsRun == ASSUME PlanKept, Planning!StartRun PROVE PlanKept'
<1>1. /\ planPhase = "idle" /\ planRuns < LastRun /\ planPhase' = "net"
      /\ planPending' = Planning!FirstDemand /\ planSeen' = {} /\ planRows' = <<>>
      /\ planShelf' = [i \in Planning!Items |-> Planning!Unread] /\ planLeft' = Planning!None
      /\ planTodo' = {} /\ planPlaced' = [b \in Planning!Buckets |-> 0] /\ planLate' = {}
      /\ planRuns' = planRuns /\ planSuggestions' = planSuggestions
      /\ planStock' = planStock /\ planDemand' = planDemand /\ planOrders' = planOrders
      /\ planArriving' = planArriving
  BY DEF Planning!StartRun, Planning!world
<1>2. PlanTypes
  BY DEF PlanKept
<1>3. planPending' \in Queues(Due(planDemand', planSeen'))
  BY <1>1, <1>2, FirstIsDue DEF PlanTypes
<1>4. Planning!None \in [Planning!Items -> [Planning!Buckets -> Nat]]
  BY DEF Planning!None
<1>5. PlanTyped'
  <2>1. DOMAIN planRows' = planSeen'
    BY <1>1
  <2>2. /\ planShelf' \in [Planning!Items -> Nat \cup {Planning!Unread}]
        /\ planLeft' \in [Planning!Items -> [Planning!Buckets -> Nat]]
        /\ planPlaced' \in [Planning!Buckets -> Nat]
    BY <1>1, <1>4
  <2> QED
    BY <1>1, <1>2, <2>1, <2>2 DEF PlanTypes, PlanTyped
<1>6. PlanTypes'
  BY <1>1, <1>2, <1>3, <1>5 DEF PlanTypes
<1>7. \A i \in Planning!Items : TakesOnce(i)'
  BY <1>1 DEF TakesOnce, Planning!Read, Of
<1>8. BuildsOnce'
  BY <1>1 DEF PlanKept, BuildsOnce
<1>9. Planning!OverloadIsReported'
  BY <1>1, PlanConstants DEF Planning!OverloadIsReported
<1> QED
  BY <1>6, <1>7, <1>8, <1>9 DEF PlanKept

LEMMA PlanLevels == ASSUME PlanKept, Planning!StartLevel PROVE PlanKept'
<1>1. /\ planPhase = "net" /\ planPending = <<>> /\ planPhase' = "level"
      /\ planTodo' \subseteq planSeen
      /\ planPending' = planPending /\ planSeen' = planSeen /\ planRows' = planRows
      /\ planShelf' = planShelf /\ planLeft' = planLeft
      /\ planPlaced' = planPlaced /\ planLate' = planLate
      /\ planRuns' = planRuns /\ planSuggestions' = planSuggestions
      /\ planStock' = planStock /\ planDemand' = planDemand /\ planOrders' = planOrders
      /\ planArriving' = planArriving
  BY DEF Planning!StartLevel, Planning!world
<1>2. PlanTypes'
  BY <1>1 DEF PlanKept, PlanTypes, PlanTyped
<1>3. \A i \in Planning!Items : TakesOnce(i)'
  BY <1>1 DEF PlanKept, TakesOnce, Planning!Read
<1>4. BuildsOnce' /\ Planning!OverloadIsReported'
  BY <1>1 DEF PlanKept, BuildsOnce, Planning!OverloadIsReported
<1> QED
  BY <1>2, <1>3, <1>4 DEF PlanKept

(* There is a next key to place while there are any.                           *)
LEMMA NextIsToDo ==
  ASSUME PlanTypes, planTodo # {}
  PROVE  Planning!NextToPlace \in planTodo
<1>1. planTodo \subseteq PlanKeys
  BY DEF PlanTypes
<1>2. \A key \in planTodo : key[1] \in Nat /\ key[2] \in Nat /\ key = <<key[1], key[2]>>
  <2>1. Planning!Items \subseteq Nat /\ Planning!Buckets \subseteq Nat
    BY PlanConstants
  <2>2. ASSUME NEW key \in planTodo
        PROVE  key[1] \in Nat /\ key[2] \in Nat /\ key = <<key[1], key[2]>>
    <3>1. PICK i \in Planning!Items, b \in Planning!Buckets : key = <<i, b>>
      BY <1>1 DEF PlanKeys
    <3> QED
      BY <2>1, <3>1
  <2> QED
    BY <2>2
<1> DEFINE Days == {key[2] : key \in planTodo}
<1>3. PICK d \in Days : \A m \in Days : d <= m
  <2>1. Days \in SUBSET Nat /\ Days # {}
    BY <1>2
  <2> HIDE DEF Days
  <2> QED
    BY <2>1, LeastOf
<1> DEFINE Codes == {key[1] : key \in {k \in planTodo : k[2] = d}}
<1>4. PICK c \in Codes : \A m \in Codes : c <= m
  <2>1. Codes \in SUBSET Nat /\ Codes # {}
    BY <1>2, <1>3
  <2> HIDE DEF Codes
  <2> QED
    BY <2>1, LeastOf
<1>5. PICK key \in planTodo : key[2] = d /\ key[1] = c
  BY <1>4
<1>6. ASSUME NEW other \in planTodo
      PROVE  other[2] > key[2] \/ (other[2] = key[2] /\ other[1] >= key[1])
  <2>1. d <= other[2]
    BY <1>3
  <2>2. other[2] = d => c <= other[1]
    BY <1>4
  <2> QED
    BY <1>2, <1>5, <2>1, <2>2
<1> QED
  BY <1>5, <1>6 DEF Planning!NextToPlace

LEMMA PlanPlaces == ASSUME PlanKept, Planning!Place PROVE PlanKept'
<1> DEFINE key == Planning!NextToPlace
           minutes == planRows[key].net * PlanMinutes[key[1]]
           release == Planning!Max({0, key[2] - Lead[key[1]]})
           fits == {b \in release..LastBucket : Planning!Room(minutes, b)}
           b == IF fits = {} THEN release ELSE Planning!Min(fits)
<1>1. /\ planPhase = "level" /\ planTodo # {}
      /\ planPlaced' = [planPlaced EXCEPT ![b] = @ + minutes]
      /\ planLate' = IF fits = {} THEN planLate \cup {b} ELSE planLate
      /\ planTodo' = planTodo \ {key}
      /\ planPhase' = planPhase
      /\ planPending' = planPending /\ planSeen' = planSeen /\ planRows' = planRows
      /\ planShelf' = planShelf /\ planLeft' = planLeft
      /\ planRuns' = planRuns /\ planSuggestions' = planSuggestions
      /\ planStock' = planStock /\ planDemand' = planDemand /\ planOrders' = planOrders
      /\ planArriving' = planArriving
  BY DEF Planning!Place, Planning!world
<1>2. PlanTypes
  BY DEF PlanKept
<1>3. key \in planTodo
  BY <1>1, <1>2, NextIsToDo
<1> HIDE DEF key
<1>4. key[1] \in Planning!Items /\ key[2] \in Planning!Buckets /\ planRows[key].net \in Nat
  BY <1>2, <1>3 DEF PlanTypes, PlanKeys, PlanTyped, Planning!RequirementRows
<1>5. minutes \in Nat
  <2>1. PlanMinutes[key[1]] \in Nat
    BY <1>4, PlanConstants
  <2> QED
    BY <1>4, <2>1
<1>6. release \in Planning!Buckets
  <2>1. PICK l \in Nat, c \in Nat, last \in Nat :
          l = Lead[key[1]] /\ c = key[2] /\ last = LastBucket /\ c <= last
    <3>1. Lead[key[1]] \in Nat
      BY <1>4, PlanConstants
    <3>2. LastBucket \in Nat /\ key[2] \in 0..LastBucket
      BY <1>4, PlanConstants
    <3> QED
      BY <3>1, <3>2
  <2>2. Planning!Max({0, c - l}) = IF 0 >= c - l THEN 0 ELSE c - l
    BY <2>1, PlanEnds
  <2>3. release \in 0..last
    BY <2>1, <2>2
  <2> QED
    BY <2>1, <2>3, PlanConstants
<1> HIDE DEF minutes, release
<1>7. fits \subseteq Planning!Buckets /\ fits \in SUBSET Nat
  <2>1. release \in 0..LastBucket /\ LastBucket \in Nat /\ Planning!Buckets = 0..LastBucket
    BY <1>6, PlanConstants
  <2> QED
    BY <2>1
<1>8. b \in Planning!Buckets /\ (fits # {} => Planning!Room(minutes, b))
  <2>1. CASE fits = {}
    BY <1>6, <2>1
  <2>2. CASE fits # {}
    <3>1. Planning!Min(fits) \in fits
      <4> HIDE DEF fits
      <4> QED
        BY <1>7, <2>2, PlanLeast
    <3> QED
      BY <1>7, <2>2, <3>1
  <2> QED
    BY <2>1, <2>2
<1>9. b \in planLate' \/ planPlaced[b] + minutes <= Capacity
  BY <1>1, <1>8 DEF Planning!Room
<1>10. planLate \subseteq planLate'
  BY <1>1
<1> HIDE DEF b, fits
<1>11. planPlaced \in [Planning!Buckets -> Nat]
  BY <1>2 DEF PlanTypes, PlanTyped
<1>12. planPlaced' \in [Planning!Buckets -> Nat]
  BY <1>1, <1>5, <1>8, <1>11
<1>13. ASSUME NEW c \in Planning!Buckets, planPlaced'[c] > Capacity PROVE c \in planLate'
  <2>1. CASE c = b
    <3>1. planPlaced'[b] = planPlaced[b] + minutes /\ planPlaced[b] \in Nat
      BY <1>1, <1>8, <1>11
    <3> QED
      BY <1>5, <1>9, <1>13, <2>1, <3>1, PlanConstants
  <2>2. CASE c # b
    <3>1. planPlaced'[c] = planPlaced[c]
      BY <1>1, <1>11, <2>2
    <3> QED
      BY <1>10, <1>13, <3>1 DEF PlanKept, Planning!OverloadIsReported
  <2> QED
    BY <2>1, <2>2
<1>14. PlanTypes'
  BY <1>1, <1>2, <1>12 DEF PlanTypes, PlanTyped
<1>15. \A i \in Planning!Items : TakesOnce(i)'
  BY <1>1 DEF PlanKept, TakesOnce, Planning!Read
<1>16. BuildsOnce' /\ Planning!OverloadIsReported'
  BY <1>1, <1>13 DEF PlanKept, BuildsOnce, Planning!OverloadIsReported
<1> QED
  BY <1>14, <1>15, <1>16 DEF PlanKept

(* The rows of the run become suggestions, one of a key.                       *)
LEMMA PlanFinishes == ASSUME PlanKept, Planning!Finish PROVE PlanKept'
<1> DEFINE Short == {key \in planSeen : planRows[key].net > 0}
           made(key) == [run |-> planRuns + 1, item |-> key[1], bucket |-> key[2],
                         quantity |-> planRows[key].net, state |-> "open"]
           New == {made(key) : key \in Short}
<1>1. /\ planPhase = "level" /\ planPhase' = "idle" /\ planRuns' = planRuns + 1
      /\ planSuggestions' = planSuggestions \cup New
      /\ planTodo' = planTodo /\ planPlaced' = planPlaced /\ planLate' = planLate
      /\ planPending' = planPending /\ planSeen' = planSeen /\ planRows' = planRows
      /\ planShelf' = planShelf /\ planLeft' = planLeft
      /\ planStock' = planStock /\ planDemand' = planDemand /\ planOrders' = planOrders
      /\ planArriving' = planArriving
  BY DEF Planning!Finish, Planning!world
<1>2. PlanTypes
  BY DEF PlanKept
<1>3. planRuns \in Nat /\ planRuns + 1 \in 1..LastRun /\ planRuns + 1 \in 0..LastRun
  BY <1>1, <1>2, PlanConstants DEF PlanTypes, PlanTyped
<1>4. ASSUME NEW g \in New
      PROVE  \E i \in Planning!Items, b \in Planning!Buckets :
               /\ <<i, b>> \in planSeen
               /\ planRows[<<i, b>>].net \in Nat \ {0}
               /\ g = [run |-> planRuns + 1, item |-> i, bucket |-> b,
                       quantity |-> planRows[<<i, b>>].net, state |-> "open"]
  <2>1. PICK key \in Short : g = made(key)
    OBVIOUS
  <2>2. PICK i \in Planning!Items, b \in Planning!Buckets : key = <<i, b>>
    BY <1>2 DEF PlanTypes, PlanKeys
  <2>3. planRows[<<i, b>>].net \in Nat \ {0} /\ <<i, b>> \in planSeen
    <3>1. key \in planSeen /\ planRows[key].net > 0
      OBVIOUS
    <3>2. planRows[key].net \in Nat
      BY <1>2, <3>1 DEF PlanTypes, PlanTyped, Planning!RequirementRows
    <3> QED
      BY <2>2, <3>1, <3>2
  <2> QED
    BY <2>1, <2>2, <2>3
<1> HIDE DEF New
<1>5. ASSUME NEW g \in New
      PROVE  /\ g \in Planning!SuggestionRows /\ g.run = planRuns + 1 /\ g.state = "open"
             /\ Sold(g.item) =>
                  planOrders[g.item][g.bucket] + g.quantity <= planDemand[g.item][g.bucket]
  <2>1. PICK i \in Planning!Items, b \in Planning!Buckets :
          /\ <<i, b>> \in planSeen /\ planRows[<<i, b>>].net \in Nat \ {0}
          /\ g = [run |-> planRuns + 1, item |-> i, bucket |-> b,
                  quantity |-> planRows[<<i, b>>].net, state |-> "open"]
    BY <1>4
  <2>2. g \in Planning!SuggestionRows
    BY <1>3, <2>1 DEF Planning!SuggestionRows
  <2>3. /\ g.run = planRuns + 1 /\ g.state = "open" /\ g.item = i /\ g.bucket = b
        /\ g.quantity = planRows[<<i, b>>].net
    BY <2>1
  <2>4. ASSUME Sold(i) PROVE planOrders[i][b] + planRows[<<i, b>>].net <= planDemand[i][b]
    BY <1>1, <2>1, <2>4 DEF PlanKept, BuildsOnce
  <2> QED
    BY <2>2, <2>3, <2>4
<1>6. ASSUME NEW g \in New, NEW h \in New, g.item = h.item, g.bucket = h.bucket PROVE g = h
  <2>1. PICK i \in Planning!Items, b \in Planning!Buckets :
          g = [run |-> planRuns + 1, item |-> i, bucket |-> b,
               quantity |-> planRows[<<i, b>>].net, state |-> "open"]
    BY <1>4
  <2>2. PICK j \in Planning!Items, c \in Planning!Buckets :
          h = [run |-> planRuns + 1, item |-> j, bucket |-> c,
               quantity |-> planRows[<<j, c>>].net, state |-> "open"]
    BY <1>4
  <2>3. i = j /\ b = c
    BY <1>6, <2>1, <2>2
  <2> QED
    BY <2>1, <2>2, <2>3
<1>7. ASSUME NEW g \in planSuggestions PROVE g.run \in Nat /\ g.run <= planRuns
  BY <1>2 DEF PlanKept, PlanTypes, BuildsOnce, PlanTyped, Planning!SuggestionRows
<1>8. PlanTyped'
  <2>1. planSuggestions' \subseteq Planning!SuggestionRows
    BY <1>1, <1>2, <1>5 DEF PlanTypes, PlanTyped
  <2> QED
    BY <1>1, <1>2, <1>3, <2>1 DEF PlanTypes, PlanTyped
<1>9. PlanTypes'
  BY <1>1, <1>2, <1>8 DEF PlanTypes
<1>10. ASSUME NEW g \in planSuggestions', NEW h \in planSuggestions', g.run = h.run,
              g.item = h.item, g.bucket = h.bucket
       PROVE  g = h
  <2>1. CASE g \in planSuggestions /\ h \in planSuggestions
    BY <1>10, <2>1 DEF PlanKept, BuildsOnce
  <2>2. CASE g \in New /\ h \in New
    BY <1>6, <1>10, <2>2
  <2>3. CASE g \in New /\ h \in planSuggestions
    BY <1>3, <1>5, <1>7, <1>10, <2>3
  <2>4. CASE g \in planSuggestions /\ h \in New
    BY <1>3, <1>5, <1>7, <1>10, <2>4
  <2> QED
    BY <1>1, <2>1, <2>2, <2>3, <2>4
<1>11. ASSUME NEW g \in planSuggestions'
       PROVE  /\ g.run <= planRuns'
              /\ g.run = planRuns' /\ g.state = "open" /\ Sold(g.item)
                   => planOrders'[g.item][g.bucket] + g.quantity <= planDemand'[g.item][g.bucket]
  <2>1. CASE g \in New
    BY <1>1, <1>3, <1>5, <2>1
  <2>2. CASE g \in planSuggestions
    BY <1>1, <1>3, <1>7, <2>2
  <2> QED
    BY <1>1, <2>1, <2>2
<1>12. BuildsOnce'
  <2>1. \A i \in Planning!Items : \A b \in Planning!Buckets :
          Sold(i) => planOrders'[i][b] <= planDemand'[i][b]
    BY <1>1 DEF PlanKept, BuildsOnce
  <2> QED
    BY <1>1, <1>10, <1>11, <2>1 DEF BuildsOnce
<1>13. Planning!OverloadIsReported'
  BY <1>1 DEF PlanKept, Planning!OverloadIsReported
<1> QED
  BY <1>1, <1>9, <1>12, <1>13 DEF PlanKept

(* What is converted was said by the newest run, and nobody says it again.     *)
LEMMA PlanConverts ==
  ASSUME PlanKept, NEW s \in Sessions, NEW g \in planSuggestions, g = planConverting[s],
         Convertible(g), Planning!CommitConvert(s)
  PROVE  PlanKept'
<1>1. PICK h : h = [g EXCEPT !.state = "converted"]
  OBVIOUS
<1>2. /\ planPhase = "idle" /\ g.run = planRuns /\ g.state = "open"
      /\ planSuggestions' = (planSuggestions \ {g}) \cup {h}
      /\ planOrders' = IF Planning!Made(g.item)
                       THEN [planOrders EXCEPT ![g.item][g.bucket] = @ + g.quantity] ELSE planOrders
      /\ planPhase' = planPhase /\ planRuns' = planRuns
      /\ planTodo' = planTodo /\ planPlaced' = planPlaced /\ planLate' = planLate
      /\ planPending' = planPending /\ planSeen' = planSeen /\ planRows' = planRows
      /\ planShelf' = planShelf /\ planLeft' = planLeft
      /\ planStock' = planStock /\ planDemand' = planDemand /\ planArriving' = planArriving
  BY <1>1 DEF Planning!CommitConvert, Convertible
<1>3. PlanTypes
  BY DEF PlanKept
<1>4. /\ g \in Planning!SuggestionRows /\ planSuggestions \subseteq Planning!SuggestionRows
      /\ planOrders \in [Planning!Items -> [Planning!Buckets -> Nat]]
  BY <1>3 DEF PlanTypes, PlanTyped
<1>5. PICK i, b, q : i = g.item /\ b = g.bucket /\ q = g.quantity
  OBVIOUS
<1>6. i \in Planning!Items /\ b \in Planning!Buckets /\ q \in Nat
  BY <1>4, <1>5 DEF Planning!SuggestionRows
<1>7. /\ h \in Planning!SuggestionRows /\ h.state = "converted" /\ h.run = g.run
      /\ h.item = g.item /\ h.bucket = g.bucket
  BY <1>1, <1>4 DEF Planning!SuggestionRows
<1>8. /\ planOrders' \in [Planning!Items -> [Planning!Buckets -> Nat]]
      /\ planOrders'[i][b] = planOrders[i][b] \/ planOrders'[i][b] = planOrders[i][b] + q
      /\ \A j \in Planning!Items : \A c \in Planning!Buckets :
           <<j, c>> # <<i, b>> => planOrders'[j][c] = planOrders[j][c]
  <2>1. CASE Planning!Made(g.item)
    <3>1. planOrders' = [planOrders EXCEPT ![i][b] = @ + q]
      BY <1>2, <1>5, <2>1
    <3>2. planOrders[i] \in [Planning!Buckets -> Nat] /\ planOrders[i][b] + q \in Nat
      BY <1>4, <1>6
    <3>3. planOrders'[i] = [planOrders[i] EXCEPT ![b] = planOrders[i][b] + q]
      BY <1>4, <1>6, <3>1
    <3>4. planOrders'[i] \in [Planning!Buckets -> Nat]
      BY <1>6, <3>2, <3>3
    <3>5. /\ planOrders' \in [Planning!Items -> [Planning!Buckets -> Nat]]
          /\ \A j \in Planning!Items : j # i => planOrders'[j] = planOrders[j]
      BY <1>4, <1>6, <3>1, <3>2
    <3>6. /\ planOrders'[i][b] = planOrders[i][b] + q
          /\ \A c \in Planning!Buckets : c # b => planOrders'[i][c] = planOrders[i][c]
      BY <1>6, <3>2, <3>3
    <3> QED
      BY <3>5, <3>6
  <2>2. CASE ~Planning!Made(g.item)
    BY <1>2, <1>4, <2>2
  <2> QED
    BY <2>1, <2>2
<1>9. ASSUME Sold(i) PROVE planOrders[i][b] + q <= planDemand[i][b] /\ planOrders[i][b] <= planDemand[i][b]
  BY <1>2, <1>5, <1>6, <1>9 DEF PlanKept, BuildsOnce
<1>10. PlanTypes'
  <2>1. planSuggestions' \subseteq Planning!SuggestionRows
    BY <1>2, <1>4, <1>7
  <2>2. PlanTyped'
    BY <1>2, <1>3, <1>8, <2>1 DEF PlanTypes, PlanTyped
  <2> QED
    BY <1>2, <1>3, <2>2 DEF PlanTypes
<1>11. ASSUME NEW j \in Planning!Items, NEW c \in Planning!Buckets, Sold(j)
       PROVE  planOrders'[j][c] <= planDemand'[j][c]
  <2>1. CASE <<j, c>> = <<i, b>>
    BY <1>2, <1>8, <1>9, <1>11, <2>1
  <2>2. CASE <<j, c>> # <<i, b>>
    BY <1>2, <1>8, <1>11, <2>2 DEF PlanKept, BuildsOnce
  <2> QED
    BY <2>1, <2>2
<1>12. ASSUME NEW f \in planSuggestions', NEW k \in planSuggestions', f.run = k.run,
              f.item = k.item, f.bucket = k.bucket
       PROVE  f = k
  <2>1. \A x \in planSuggestions : \A y \in planSuggestions :
          x.run = y.run /\ x.item = y.item /\ x.bucket = y.bucket => x = y
    BY DEF PlanKept, BuildsOnce
  <2>2. ASSUME NEW x \in planSuggestions \ {g}
        PROVE  ~(x.run = h.run /\ x.item = h.item /\ x.bucket = h.bucket)
    BY <1>7, <2>1
  <2>3. CASE f = h /\ k = h
    BY <2>3
  <2>4. CASE f = h /\ k # h
    BY <1>2, <1>12, <2>2, <2>4
  <2>5. CASE f # h /\ k = h
    BY <1>2, <1>12, <2>2, <2>5
  <2>6. CASE f # h /\ k # h
    BY <1>2, <1>12, <2>1, <2>6
  <2> QED
    BY <2>3, <2>4, <2>5, <2>6
<1>13. ASSUME NEW f \in planSuggestions'
       PROVE  /\ f.run <= planRuns'
              /\ f.run = planRuns' /\ f.state = "open" /\ Sold(f.item)
                   => planOrders'[f.item][f.bucket] + f.quantity <= planDemand'[f.item][f.bucket]
  <2>1. CASE f = h
    <3>1. g.run <= planRuns
      BY DEF PlanKept, BuildsOnce
    <3> QED
      BY <1>2, <1>7, <2>1, <3>1
  <2>2. CASE f # h
    <3>1. f \in planSuggestions /\ f # g
      BY <1>2, <2>2
    <3>2. f \in Planning!SuggestionRows
      BY <1>4, <3>1
    <3>3. f.item \in Planning!Items /\ f.bucket \in Planning!Buckets
      BY <3>2 DEF Planning!SuggestionRows
    <3>4. ASSUME f.run = planRuns PROVE <<f.item, f.bucket>> # <<i, b>>
      BY <1>2, <1>5, <3>1, <3>4 DEF PlanKept, BuildsOnce
    <3>5. ASSUME f.run = planRuns PROVE planOrders'[f.item][f.bucket] = planOrders[f.item][f.bucket]
      BY <1>8, <3>3, <3>4, <3>5
    <3>6. /\ f.run <= planRuns
          /\ f.run = planRuns /\ f.state = "open" /\ Sold(f.item)
               => planOrders[f.item][f.bucket] + f.quantity <= planDemand[f.item][f.bucket]
      BY <3>1 DEF PlanKept, BuildsOnce
    <3> QED
      BY <1>2, <3>5, <3>6
  <2> QED
    BY <2>1, <2>2
<1>14. BuildsOnce'
  BY <1>2, <1>11, <1>12, <1>13 DEF BuildsOnce
<1>15. Planning!OverloadIsReported'
  BY <1>2 DEF PlanKept, Planning!OverloadIsReported
<1> QED
  BY <1>2, <1>10, <1>14, <1>15 DEF PlanKept

LEMMA PlanArrives ==
  ASSUME PlanKept, NEW i \in Planning!Items, NEW b \in Planning!Buckets, Planning!Arrive(i, b)
  PROVE  PlanKept'
<1>1. /\ planPhase = "idle"
      /\ planArriving' = [planArriving EXCEPT ![i][b] = 0]
      /\ planStock' = [planStock EXCEPT ![i] = @ + planArriving[i][b]]
      /\ planPhase' = planPhase /\ planRuns' = planRuns /\ planSuggestions' = planSuggestions
      /\ planTodo' = planTodo /\ planPlaced' = planPlaced /\ planLate' = planLate
      /\ planPending' = planPending /\ planSeen' = planSeen /\ planRows' = planRows
      /\ planShelf' = planShelf /\ planLeft' = planLeft
      /\ planDemand' = planDemand /\ planOrders' = planOrders
  BY DEF Planning!Arrive
<1>2. PlanTypes
  BY DEF PlanKept
<1>3. /\ planArriving \in [Planning!Items -> [Planning!Buckets -> Nat]]
      /\ planStock \in [Planning!Items -> Nat]
  BY <1>2 DEF PlanTypes, PlanTyped
<1>4. planStock' \in [Planning!Items -> Nat]
  <2>1. planArriving[i][b] \in Nat /\ planStock[i] \in Nat
    BY <1>3
  <2> QED
    BY <1>1, <1>3, <2>1
<1>5. planArriving' \in [Planning!Items -> [Planning!Buckets -> Nat]]
  BY <1>1, <1>3
<1>6. PlanTypes'
  BY <1>1, <1>2, <1>4, <1>5 DEF PlanTypes, PlanTyped
<1>7. BuildsOnce' /\ Planning!OverloadIsReported'
  BY <1>1 DEF PlanKept, BuildsOnce, Planning!OverloadIsReported
<1> QED
  BY <1>1, <1>6, <1>7 DEF PlanKept

LEMMA PlanIsAsked ==
  ASSUME PlanKept, NEW i \in Planning!Items, NEW b \in Planning!Buckets, Planning!Order(i, b)
  PROVE  PlanKept'
<1>1. /\ planPhase = "idle" /\ planDemand[i][b] = 0
      /\ planDemand' = [planDemand EXCEPT ![i][b] = 1]
      /\ planPhase' = planPhase /\ planRuns' = planRuns /\ planSuggestions' = planSuggestions
      /\ planTodo' = planTodo /\ planPlaced' = planPlaced /\ planLate' = planLate
      /\ planPending' = planPending /\ planSeen' = planSeen /\ planRows' = planRows
      /\ planShelf' = planShelf /\ planLeft' = planLeft
      /\ planStock' = planStock /\ planArriving' = planArriving /\ planOrders' = planOrders
  BY DEF Planning!Order
<1>2. PlanTypes
  BY DEF PlanKept
<1>3. /\ planDemand \in [Planning!Items -> [Planning!Buckets -> Nat]]
      /\ planOrders \in [Planning!Items -> [Planning!Buckets -> Nat]]
      /\ planSuggestions \subseteq Planning!SuggestionRows
  BY <1>2 DEF PlanTypes, PlanTyped
<1>4. /\ planDemand' \in [Planning!Items -> [Planning!Buckets -> Nat]]
      /\ \A j \in Planning!Items : \A c \in Planning!Buckets : planDemand[j][c] <= planDemand'[j][c]
  <2>1. planDemand[i] \in [Planning!Buckets -> Nat]
    BY <1>3
  <2>2. planDemand'[i] = [planDemand[i] EXCEPT ![b] = 1]
    BY <1>1, <1>3
  <2>3. /\ planDemand' \in [Planning!Items -> [Planning!Buckets -> Nat]]
        /\ \A j \in Planning!Items : j # i => planDemand'[j] = planDemand[j]
    BY <1>1, <1>3
  <2>4. \A c \in Planning!Buckets : planDemand[i][c] <= planDemand'[i][c]
    BY <1>1, <2>1, <2>2
  <2>5. \A j \in Planning!Items : \A c \in Planning!Buckets : planDemand[j][c] \in Nat
    BY <1>3
  <2> QED
    BY <2>3, <2>4, <2>5
<1>5. PlanTypes'
  <2>1. planPending' = <<>>
    BY <1>1, <1>2 DEF PlanTypes
  <2>2. <<>> \in Queues(Due(planDemand', planSeen'))
    BY DEF Queues, InOrder
  <2>3. PlanTyped'
    BY <1>1, <1>2 DEF PlanTypes, PlanTyped
  <2> QED
    BY <1>1, <1>2, <1>4, <2>1, <2>2, <2>3 DEF PlanTypes
<1>6. ASSUME NEW j \in Planning!Items, NEW c \in Planning!Buckets, Sold(j)
      PROVE  planOrders'[j][c] <= planDemand'[j][c]
  <2>1. planOrders[j][c] <= planDemand[j][c]
    BY <1>6 DEF PlanKept, BuildsOnce
  <2>2. planDemand[j][c] <= planDemand'[j][c]
    BY <1>4
  <2>3. planOrders[j][c] \in Nat /\ planDemand[j][c] \in Nat /\ planDemand'[j][c] \in Nat
    BY <1>3, <1>4
  <2> QED
    BY <1>1, <2>1, <2>2, <2>3
<1>7. ASSUME NEW g \in planSuggestions, g.run = planRuns, g.state = "open", Sold(g.item)
      PROVE  planOrders'[g.item][g.bucket] + g.quantity <= planDemand'[g.item][g.bucket]
  <2>1. g.item \in Planning!Items /\ g.bucket \in Planning!Buckets /\ g.quantity \in Nat
    BY <1>3 DEF Planning!SuggestionRows
  <2>2. planOrders[g.item][g.bucket] + g.quantity <= planDemand[g.item][g.bucket]
    BY <1>7 DEF PlanKept, BuildsOnce
  <2>3. planDemand[g.item][g.bucket] <= planDemand'[g.item][g.bucket]
    BY <1>4, <2>1
  <2>4. /\ planOrders[g.item][g.bucket] \in Nat /\ planDemand[g.item][g.bucket] \in Nat
        /\ planDemand'[g.item][g.bucket] \in Nat
    BY <1>3, <1>4, <2>1
  <2> QED
    BY <1>1, <2>1, <2>2, <2>3, <2>4
<1>8. BuildsOnce'
  <2>1. /\ \A g \in planSuggestions' : g.run <= planRuns'
        /\ \A g \in planSuggestions' : \A h \in planSuggestions' :
             g.run = h.run /\ g.item = h.item /\ g.bucket = h.bucket => g = h
    BY <1>1 DEF PlanKept, BuildsOnce
  <2> QED
    BY <1>1, <1>6, <1>7, <2>1 DEF BuildsOnce
<1>9. Planning!OverloadIsReported'
  BY <1>1 DEF PlanKept, Planning!OverloadIsReported
<1> QED
  BY <1>1, <1>5, <1>8, <1>9 DEF PlanKept

LEMMA PlanStays ==
  ASSUME PlanKept, planStock' = planStock, planDemand' = planDemand, planOrders' = planOrders,
         planArriving' = planArriving, planPhase' = planPhase, planPending' = planPending,
         planSeen' = planSeen, planShelf' = planShelf, planLeft' = planLeft,
         planRows' = planRows, planTodo' = planTodo, planPlaced' = planPlaced,
         planLate' = planLate, planRuns' = planRuns, planSuggestions' = planSuggestions
  PROVE  PlanKept'
<1>1. PlanTypes'
  BY DEF PlanKept, PlanTypes, PlanTyped
<1>2. planPhase' # "idle" => \A i \in Planning!Items : TakesOnce(i)'
  BY DEF PlanKept, TakesOnce, Planning!Read
<1>3. BuildsOnce' /\ Planning!OverloadIsReported'
  BY DEF PlanKept, BuildsOnce, Planning!OverloadIsReported
<1> QED
  BY <1>1, <1>2, <1>3 DEF PlanKept

(* A conversion begins, and ends with or without its document.                 *)
LEMMA PlanBeginsConvert ==
  ASSUME PlanInv, NEW s \in Sessions, NEW g \in planSuggestions, NEW override \in BOOLEAN,
         Planning!BeginConvert(s, g, override)
  PROVE  PlanInv'
<1>1. /\ planPhase = "idle" /\ g.state = "open" /\ g.run = planRuns
      /\ \A t \in Sessions : planConverting[t] = Planning!NoSuggestion
      /\ planConverting' = [planConverting EXCEPT ![s] = g]
      /\ planStock' = planStock /\ planDemand' = planDemand /\ planOrders' = planOrders
      /\ planArriving' = planArriving /\ planPhase' = planPhase /\ planPending' = planPending
      /\ planSeen' = planSeen /\ planShelf' = planShelf /\ planLeft' = planLeft
      /\ planRows' = planRows /\ planTodo' = planTodo /\ planPlaced' = planPlaced
      /\ planLate' = planLate /\ planRuns' = planRuns /\ planSuggestions' = planSuggestions
  BY DEF Planning!BeginConvert, Planning!world
<1>2. PlanKept'
  BY <1>1, PlanStays DEF PlanInv
<1>3. g \in Planning!SuggestionRows
  BY DEF PlanInv, PlanKept, PlanTypes, PlanTyped
<1>4. PlanAsks'
  BY <1>1, <1>3 DEF PlanInv, PlanAsks, Convertible
<1> QED
  BY <1>2, <1>4 DEF PlanInv

LEMMA PlanEndsConvert ==
  ASSUME PlanInv, NEW s \in Sessions, Planning!CommitConvert(s) \/ Planning!AbortConvert(s)
  PROVE  PlanInv'
<1>1. /\ planConverting[s] # Planning!NoSuggestion
      /\ planConverting' = [planConverting EXCEPT ![s] = Planning!NoSuggestion]
  BY DEF Planning!CommitConvert, Planning!AbortConvert
<1>2. Convertible(planConverting[s])
  BY <1>1 DEF PlanInv, PlanAsks
<1>3. PlanKept'
  <2>1. CASE Planning!CommitConvert(s)
    <3>1. PICK g \in planSuggestions : g = planConverting[s] /\ Convertible(g)
      BY <1>2 DEF Convertible
    <3> QED
      BY <2>1, <3>1, PlanConverts DEF PlanInv
  <2>2. CASE Planning!AbortConvert(s)
    BY <2>2, PlanStays DEF PlanInv, Planning!AbortConvert, Planning!world
  <2> QED
    BY <2>1, <2>2
<1>4. PlanAsks'
  BY <1>1 DEF PlanInv, PlanAsks
<1> QED
  BY <1>3, <1>4 DEF PlanInv

LEMMA PlanStep == PlanInv /\ [Planning!Next]_(Planning!vars) => PlanInv'
<1> SUFFICES ASSUME PlanInv, [Planning!Next]_(Planning!vars) PROVE PlanInv'
  OBVIOUS
<1>1. CASE UNCHANGED Planning!vars
  <2>1. PlanKept'
    BY <1>1, PlanStays DEF PlanInv, Planning!vars
  <2>2. PlanAsks'
    BY <1>1 DEF PlanInv, PlanAsks, Convertible, Planning!vars
  <2> QED
    BY <2>1, <2>2 DEF PlanInv
<1>2. CASE \/ Planning!StartRun \/ Planning!NetNext \/ Planning!StartLevel \/ Planning!Place
           \/ Planning!Finish
  <2>1. PlanKept'
    BY <1>2, PlanStartsRun, PlanNets, PlanLevels, PlanPlaces, PlanFinishes DEF PlanInv
  <2>2. planConverting' = planConverting
    BY <1>2 DEF Planning!StartRun, Planning!NetNext, Planning!StartLevel, Planning!Place,
                Planning!Finish
  <2>3. \A s \in Sessions : planConverting[s] = Planning!NoSuggestion
    BY <1>2 DEF PlanInv, PlanAsks, Convertible, Planning!StartRun, Planning!NetNext,
                Planning!StartLevel, Planning!Place, Planning!Finish
  <2>4. PlanAsks'
    BY <2>2, <2>3 DEF PlanInv, PlanAsks
  <2> QED
    BY <2>1, <2>4 DEF PlanInv
<1>3. CASE \E s \in Sessions : \E g \in planSuggestions : \E override \in BOOLEAN :
             Planning!BeginConvert(s, g, override)
  BY <1>3, PlanBeginsConvert
<1>4. CASE \E s \in Sessions : Planning!CommitConvert(s) \/ Planning!AbortConvert(s)
  BY <1>4, PlanEndsConvert
<1>5. CASE \E i \in Planning!Items, b \in Planning!Buckets :
             Planning!Arrive(i, b) \/ Planning!Order(i, b)
  <2>1. PlanKept'
    BY <1>5, PlanArrives, PlanIsAsked DEF PlanInv
  <2>2. /\ planConverting' = planConverting /\ planPhase' = planPhase
        /\ planRuns' = planRuns /\ planSuggestions' = planSuggestions
    BY <1>5 DEF Planning!Arrive, Planning!Order
  <2>3. PlanAsks'
    BY <2>2 DEF PlanInv, PlanAsks, Convertible
  <2> QED
    BY <2>1, <2>3 DEF PlanInv
<1> QED
  BY <1>1, <1>2, <1>3, <1>4, <1>5 DEF Planning!Next

(* --------------------------- the rows of the bills -------------------------- *)

(* Two desks keep bills, with N items, V versions of a bill and at most M of a *)
(* component in a line.  What is said of their rows is said once, of any.      *)

BomRowsOf(N, M) == [status : {"absent", "draft", "released"}, lines : [1..N -> 0..M],
                    route : 0..RouteSteps]
BomOrdersOf(N, V) == [item : 0..N, bom : 0..V, units : Nat, required : [1..N -> Nat],
                      route : 0..RouteSteps]
LinesAdded(N, V) == [item : 0..N, bom : 0..V, part : 0..N, quantity : Nat]
NoLine == [item |-> 0, bom |-> 0, part |-> 0, quantity |-> 0]

(* A line between its check and its commit: nothing led back when it was      *)
(* checked, the bill is still a draft with room for it, and nobody else adds.  *)
LineStands(N, V, M, a) ==
  /\ a.item \in 1..N /\ a.bom \in 1..V /\ a.part \in 1..N /\ a.quantity \in Nat
  /\ bomBoms[a.item][a.bom].status = "draft"
  /\ bomBoms[a.item][a.bom].lines[a.part] + a.quantity <= M
  /\ a.item # a.part /\ a.item \notin Down(N, V, bomBoms, a.part)

BomTypes(N, V, M) ==
  /\ bomBoms \in [1..N -> [1..V -> BomRowsOf(N, M)]]
  /\ bomOrders \in [BuildOrders -> BomOrdersOf(N, V)]
  /\ bomAdding \in [Planners -> LinesAdded(N, V)]

BomInv(N, V, M) ==
  /\ BomTypes(N, V, M)
  /\ \A s \in Planners : bomAdding[s] # NoLine =>
       /\ LineStands(N, V, M, bomAdding[s])
       /\ \A t \in Planners : bomAdding[t] # NoLine => t = s
  /\ Acyclic(N, V, bomBoms)

(* What a bill is given: lines that are in the bills of the item already.  A   *)
(* bill that a line is being added to keeps its lines and stays a draft.       *)
BillIsSet(N, V, M, i, v, row) ==
  /\ row \in BomRowsOf(N, M)
  /\ \A j \in 1..N : row.lines[j] > 0 => Takes(V, bomBoms, i, j)
  /\ \/ row.status = "draft" /\ row.lines = bomBoms[i][v].lines
     \/ bomBoms[i][v].status # "draft"
     \/ \A s \in Planners : bomAdding[s] = NoLine
  /\ bomBoms' = [bomBoms EXCEPT ![i][v] = row]
  /\ UNCHANGED <<bomOrders, bomAdding>>

LineBegins(N, V, M, s, a) ==
  /\ a \in LinesAdded(N, V)
  /\ \A t \in Planners : bomAdding[t] = NoLine
  /\ LineStands(N, V, M, a)
  /\ bomAdding' = [bomAdding EXCEPT ![s] = a]
  /\ UNCHANGED <<bomBoms, bomOrders>>

LineCommits(s) ==
  /\ bomAdding[s] # NoLine
  /\ bomBoms' = [bomBoms EXCEPT ![bomAdding[s].item][bomAdding[s].bom].lines[bomAdding[s].part]
                                  = @ + bomAdding[s].quantity]
  /\ bomAdding' = [bomAdding EXCEPT ![s] = NoLine]
  /\ UNCHANGED bomOrders

OrderIsRaised(N, V, o, row) ==
  /\ row \in BomOrdersOf(N, V)
  /\ bomOrders' = [bomOrders EXCEPT ![o] = row]
  /\ UNCHANGED <<bomBoms, bomAdding>>

LEMMA BillSetKeeps ==
  ASSUME NEW N \in Nat, NEW V \in Nat, NEW M \in Nat, BomInv(N, V, M),
         NEW i \in 1..N, NEW v \in 1..V, NEW row, BillIsSet(N, V, M, i, v, row)
  PROVE  BomInv(N, V, M)'
<1>1. /\ bomBoms \in [1..N -> [1..V -> BomRowsOf(N, M)]] /\ row \in BomRowsOf(N, M)
      /\ bomBoms' = [bomBoms EXCEPT ![i][v] = row]
      /\ bomAdding' = bomAdding /\ bomOrders' = bomOrders
  BY DEF BomInv, BomTypes, BillIsSet
<1>2. /\ bomBoms' \in [1..N -> [1..V -> BomRowsOf(N, M)]]
      /\ bomBoms'[i][v] = row
      /\ \A x \in 1..N : \A w \in 1..V : x # i \/ w # v => bomBoms'[x][w] = bomBoms[x][w]
  BY <1>1
<1>3. BomTypes(N, V, M)'
  BY <1>1, <1>2 DEF BomInv, BomTypes
<1>4. ASSUME NEW x \in 1..N, NEW y \in 1..N, Takes(V, bomBoms', x, y) PROVE Takes(V, bomBoms, x, y)
  <2>1. PICK w \in 1..V : bomBoms'[x][w].lines[y] > 0
    BY <1>4 DEF Takes
  <2>2. CASE x = i /\ w = v
    BY <1>2, <2>1, <2>2 DEF BillIsSet
  <2>3. CASE x # i \/ w # v
    BY <1>2, <2>1, <2>3 DEF Takes
  <2> QED
    BY <2>2, <2>3
<1>5. \A x \in 1..N : Down(N, V, bomBoms', x) \subseteq Down(N, V, bomBoms, x)
  BY <1>4, OldLinesLeadDown
<1>6. Acyclic(N, V, bomBoms')
  BY <1>5 DEF BomInv, Acyclic
<1>7. ASSUME NEW s \in Planners, bomAdding'[s] # NoLine
      PROVE  /\ LineStands(N, V, M, bomAdding[s])'
             /\ \A t \in Planners : bomAdding'[t] # NoLine => t = s
  <2>1. PICK a : a = bomAdding[s]
    OBVIOUS
  <2>2. /\ LineStands(N, V, M, a) /\ a # NoLine
        /\ \A t \in Planners : bomAdding[t] # NoLine => t = s
    BY <1>1, <1>7, <2>1 DEF BomInv
  <2>3. /\ a.item \in 1..N /\ a.bom \in 1..V /\ a.part \in 1..N /\ a.quantity \in Nat
        /\ bomBoms[a.item][a.bom].status = "draft"
        /\ bomBoms[a.item][a.bom].lines[a.part] + a.quantity <= M
        /\ a.item # a.part /\ a.item \notin Down(N, V, bomBoms, a.part)
    BY <2>2 DEF LineStands
  <2>4. bomBoms'[a.item][a.bom].status = "draft"
        /\ bomBoms'[a.item][a.bom].lines = bomBoms[a.item][a.bom].lines
    <3>1. CASE a.item = i /\ a.bom = v
      BY <1>2, <2>1, <2>2, <2>3, <3>1 DEF BillIsSet
    <3>2. CASE a.item # i \/ a.bom # v
      BY <1>2, <2>3, <3>2
    <3> QED
      BY <3>1, <3>2
  <2>5. a.item \notin Down(N, V, bomBoms', a.part)
    BY <1>5, <2>3
  <2>6. LineStands(N, V, M, bomAdding[s])'
    BY <1>1, <2>1, <2>3, <2>4, <2>5 DEF LineStands
  <2> QED
    BY <1>1, <2>2, <2>6
<1> QED
  BY <1>3, <1>6, <1>7 DEF BomInv

LEMMA LineBeginKeeps ==
  ASSUME NEW N \in Nat, NEW V \in Nat, NEW M \in Nat, BomInv(N, V, M),
         NEW s \in Planners, NEW a, LineBegins(N, V, M, s, a)
  PROVE  BomInv(N, V, M)'
<1>1. /\ bomAdding \in [Planners -> LinesAdded(N, V)]
      /\ bomAdding' = [bomAdding EXCEPT ![s] = a] /\ bomBoms' = bomBoms /\ bomOrders' = bomOrders
      /\ \A t \in Planners : bomAdding[t] = NoLine
      /\ LineStands(N, V, M, a) /\ a \in LinesAdded(N, V)
  BY DEF BomInv, BomTypes, LineBegins
<1>2. bomAdding' \in [Planners -> LinesAdded(N, V)]
  BY <1>1
<1>3. \A t \in Planners : bomAdding'[t] = (IF t = s THEN a ELSE NoLine)
  BY <1>1
<1>4. LineStands(N, V, M, a)'
  BY <1>1 DEF LineStands
<1>5. \A t \in Planners : bomAdding'[t] # NoLine =>
        /\ LineStands(N, V, M, bomAdding[t])'
        /\ \A u \in Planners : bomAdding'[u] # NoLine => u = t
  <2> SUFFICES ASSUME NEW t \in Planners, bomAdding'[t] # NoLine
               PROVE  /\ LineStands(N, V, M, bomAdding[t])'
                      /\ \A u \in Planners : bomAdding'[u] # NoLine => u = t
    OBVIOUS
  <2>1. t = s /\ bomAdding'[t] = a
    BY <1>3
  <2>2. LineStands(N, V, M, bomAdding[t])'
    BY <1>4, <2>1 DEF LineStands
  <2> QED
    BY <1>3, <2>1, <2>2
<1>6. BomTypes(N, V, M)' /\ Acyclic(N, V, bomBoms')
  BY <1>1, <1>2 DEF BomInv, BomTypes
<1> QED
  BY <1>5, <1>6 DEF BomInv

LEMMA OrderKeeps ==
  ASSUME NEW N \in Nat, NEW V \in Nat, NEW M \in Nat, BomInv(N, V, M),
         NEW o \in BuildOrders, NEW row, OrderIsRaised(N, V, o, row)
  PROVE  BomInv(N, V, M)'
<1>1. /\ bomOrders' \in [BuildOrders -> BomOrdersOf(N, V)]
      /\ bomBoms' = bomBoms /\ bomAdding' = bomAdding
  BY DEF BomInv, BomTypes, OrderIsRaised
<1> QED
  BY <1>1 DEF BomInv, BomTypes, LineStands

LEMMA LineCommitKeeps ==
  ASSUME NEW N \in Nat, NEW V \in Nat, NEW M \in Nat, BomInv(N, V, M),
         NEW s \in Planners, LineCommits(s)
  PROVE  BomInv(N, V, M)'
<1>1. PICK a : a = bomAdding[s]
  OBVIOUS
<1>2. /\ LineStands(N, V, M, a) /\ \A t \in Planners : bomAdding[t] # NoLine => t = s
      /\ bomBoms \in [1..N -> [1..V -> BomRowsOf(N, M)]]
      /\ bomAdding \in [Planners -> LinesAdded(N, V)] /\ bomOrders' = bomOrders
      /\ bomBoms' = [bomBoms EXCEPT ![a.item][a.bom].lines[a.part] = @ + a.quantity]
      /\ bomAdding' = [bomAdding EXCEPT ![s] = NoLine]
  BY <1>1 DEF BomInv, BomTypes, LineCommits
<1>3. /\ a.item \in 1..N /\ a.bom \in 1..V /\ a.part \in 1..N /\ a.quantity \in Nat
      /\ bomBoms[a.item][a.bom].lines[a.part] + a.quantity <= M
      /\ a.item # a.part /\ a.item \notin Down(N, V, bomBoms, a.part)
  BY <1>2 DEF LineStands
<1>4. PICK i \in 1..N, v \in 1..V, j \in 1..N, q \in Nat :
        i = a.item /\ v = a.bom /\ j = a.part /\ q = a.quantity
  BY <1>3
<1>5. PICK row : row = bomBoms[i][v]
  OBVIOUS
<1>6. row \in BomRowsOf(N, M) /\ row.lines \in [1..N -> 0..M] /\ row.lines[j] + q \in 0..M
  <2>1. row \in BomRowsOf(N, M)
    BY <1>2, <1>5
  <2>2. row.lines \in [1..N -> 0..M]
    BY <2>1 DEF BomRowsOf
  <2>3. row.lines[j] \in 0..M
    BY <2>2
  <2>4. row.lines[j] + q <= M
    BY <1>3, <1>4, <1>5
  <2>5. row.lines[j] + q \in 0..M
    BY <2>3, <2>4
  <2> QED
    BY <2>1, <2>2, <2>5
<1>7. PICK new : new = [row EXCEPT !.lines[j] = @ + q]
  OBVIOUS
<1>8. /\ new \in BomRowsOf(N, M)
      /\ \A y \in 1..N : new.lines[y] = IF y = j THEN row.lines[j] + q ELSE row.lines[y]
  BY <1>6, <1>7 DEF BomRowsOf
<1>9. bomBoms' = [bomBoms EXCEPT ![i][v] = new]
  BY <1>2, <1>4, <1>5, <1>7
<1>10. /\ bomBoms' \in [1..N -> [1..V -> BomRowsOf(N, M)]]
       /\ bomBoms'[i][v] = new
       /\ \A x \in 1..N : \A w \in 1..V : x # i \/ w # v => bomBoms'[x][w] = bomBoms[x][w]
  <2>1. PICK R : R = BomRowsOf(N, M)
    OBVIOUS
  <2>2. bomBoms \in [1..N -> [1..V -> R]] /\ new \in R
    BY <1>2, <1>8, <2>1
  <2>3. bomBoms' \in [1..N -> [1..V -> R]]
    BY <1>9, <2>2
  <2>4. /\ bomBoms'[i][v] = new
        /\ \A x \in 1..N : \A w \in 1..V : x # i \/ w # v => bomBoms'[x][w] = bomBoms[x][w]
    BY <1>9, <2>2
  <2> QED
    BY <2>1, <2>3, <2>4
<1>11. \A t \in Planners : bomAdding'[t] = NoLine
  BY <1>2
<1>12. bomAdding' \in [Planners -> LinesAdded(N, V)]
  <2>1. NoLine \in LinesAdded(N, V)
    BY DEF NoLine, LinesAdded
  <2> QED
    BY <1>2, <2>1
<1>13. BomTypes(N, V, M)'
  BY <1>2, <1>10, <1>12 DEF BomInv, BomTypes
<1>14. ASSUME NEW x \in 1..N, NEW y \in 1..N, Takes(V, bomBoms', x, y)
       PROVE  Takes(V, bomBoms, x, y) \/ (x = i /\ y = j)
  <2>1. PICK w \in 1..V : bomBoms'[x][w].lines[y] > 0
    BY <1>14 DEF Takes
  <2>2. CASE x = i /\ w = v /\ y # j
    <3>1. bomBoms[i][v].lines[y] > 0
      BY <1>5, <1>8, <1>10, <2>1, <2>2
    <3> QED
      BY <2>2, <3>1 DEF Takes
  <2>3. CASE x # i \/ w # v
    <3>1. bomBoms[x][w].lines[y] > 0
      BY <1>10, <2>1, <2>3
    <3> QED
      BY <3>1 DEF Takes
  <2> QED
    BY <2>2, <2>3
<1>15. Acyclic(N, V, bomBoms')
  <2>1. Acyclic(N, V, bomBoms) /\ i # j /\ i \notin Down(N, V, bomBoms, j)
    BY <1>3, <1>4 DEF BomInv
  <2> QED
    BY <1>14, <2>1, LineKeepsAcyclic
<1> QED
  BY <1>11, <1>13, <1>15 DEF BomInv

LEMMA StillBills ==
  ASSUME NEW N \in Nat, NEW V \in Nat, NEW M \in Nat, BomInv(N, V, M),
         bomBoms' = bomBoms, bomOrders' = bomOrders, bomAdding' = bomAdding
  PROVE  BomInv(N, V, M)'
BY DEF BomInv, BomTypes, LineStands

(* ------------------------- the desk of the bills --------------------------- *)

BillRel == [k \in 1..BillItems |-> Bills!ReleasedBom(k)]
BillTop(i, v, units) == [j \in 1..BillItems |-> units * bomBoms[i][v].lines[j]]
BillInv == BomInv(BillItems, LastVersion, MaxLine)

LEMMA BillConstants ==
  /\ BillItems \in Nat /\ LastVersion \in Nat /\ MaxLine \in Nat /\ RouteSteps \in Nat
  /\ LineUnits \subseteq Nat
BY Parameters DEF Bills!BomAssumption

LEMMA BillRows ==
  /\ Bills!Items = 1..BillItems /\ Bills!Versions = 1..LastVersion
  /\ Bills!BomRows = BomRowsOf(BillItems, MaxLine)
  /\ Bills!OrderRows = BomOrdersOf(BillItems, LastVersion)
  /\ Bills!Insertions = LinesAdded(BillItems, LastVersion)
  /\ Bills!Idle = NoLine
BY DEF Bills!Items, Bills!Versions, Bills!BomRows, Bills!Lines, Bills!OrderRows, Bills!Insertions,
       Bills!Idle, BomRowsOf, BomOrdersOf, LinesAdded, NoLine

LEMMA BillDown ==
  ASSUME NEW i
  PROVE  Bills!Descendants(i) = Down(BillItems, LastVersion, bomBoms, i)
BY DEF Bills!Descendants, Bills!Below, Bills!Items, Bills!Versions, Down, Reaching, Beneath

LEMMA BillHighest ==
  ASSUME NEW S \in SUBSET (1..LastVersion)
  PROVE  /\ Bills!Highest(S) \in 0..LastVersion
         /\ S # {} => Bills!Highest(S) \in S
         /\ \A y \in S : Bills!Highest(S) >= y
<1>1. CASE S = {}
  <2>1. Bills!Highest(S) = 0
    BY <1>1 DEF Bills!Highest
  <2> QED
    BY <1>1, <2>1, BillConstants
<1>2. CASE S # {}
  <2>1. \E x \in S : \A y \in S : x >= y
    BY <1>2, BillConstants, HighestIsThere
  <2>2. Bills!Highest(S) = CHOOSE x \in S : \A y \in S : x >= y
    BY <1>2 DEF Bills!Highest, Bills!Max
  <2>3. Bills!Highest(S) \in S /\ \A y \in S : Bills!Highest(S) >= y
    BY <2>1, <2>2
  <2>4. \A x \in S : x \in 0..LastVersion
    BY BillConstants
  <2> QED
    BY <2>3, <2>4
<1> QED
  BY <1>1, <1>2

LEMMA BillNewest ==
  ASSUME BomTypes(BillItems, LastVersion, MaxLine)
  PROVE  BillRel \in [1..BillItems -> 0..LastVersion]
<1>1. \A k : Bills!Of(k, "released") \in SUBSET (1..LastVersion)
  BY DEF Bills!Of, Bills!Versions
<1>2. \A k : Bills!ReleasedBom(k) \in 0..LastVersion
  BY <1>1, BillHighest DEF Bills!ReleasedBom
<1> QED
  BY <1>2 DEF BillRel

LEMMA BillNext ==
  ASSUME BomTypes(BillItems, LastVersion, MaxLine), NEW i \in 1..BillItems, Bills!Another(i)
  PROVE  /\ Bills!NextVersion(i) \in 1..LastVersion
         /\ bomBoms[i][Bills!NextVersion(i)].status = "absent"
<1>1. PICK S : S = Bills!Of(i, "draft") \cup Bills!Of(i, "released")
  OBVIOUS
<1>2. S \in SUBSET (1..LastVersion)
  BY <1>1 DEF Bills!Of, Bills!Versions
<1>3. PICK h \in Nat : h = Bills!Highest(S) /\ \A y \in S : h >= y
  BY <1>2, BillHighest, BillConstants
<1>4. Bills!NextVersion(i) = h + 1 /\ h + 1 \in 1..LastVersion
  BY <1>1, <1>3 DEF Bills!Another, Bills!NextVersion, Bills!Versions
<1>5. h + 1 \notin S
  BY <1>2, <1>3
<1>6. bomBoms[i][h + 1].status \in {"absent", "draft", "released"}
  <2>1. bomBoms[i][h + 1] \in BomRowsOf(BillItems, MaxLine)
    BY <1>4 DEF BomTypes
  <2> QED
    BY <2>1 DEF BomRowsOf
<1> QED
  BY <1>1, <1>4, <1>5, <1>6 DEF Bills!Of, Bills!Versions

LEMMA BillSum ==
  ASSUME NEW l, NEW j \in 1..BillItems
  PROVE  Bills!MapThenSumSet(
           LAMBDA k : IF Bills!ReleasedBom(k) = 0 THEN 0
                      ELSE l[k] * bomBoms[k][Bills!ReleasedBom(k)].lines[j], 1..BillItems)
         = SumOver(Times(BillItems, bomBoms, BillRel, l, j), 1..BillItems)
<1> DEFINE S == 1..BillItems
           f == Times(BillItems, bomBoms, BillRel, l, j)
           Plus(it, s) == IF s = {} THEN 0
                          ELSE (IF Bills!ReleasedBom(First(s)) = 0 THEN 0
                                ELSE l[First(s)]
                                       * bomBoms[First(s)][Bills!ReleasedBom(First(s))].lines[j])
                                 + it[s \ {First(s)}]
<1>1. ASSUME NEW it, NEW s \in SUBSET S PROVE Plus(it, s) = Added(f, it, s)
  <2>1. CASE s = {}
    BY <2>1 DEF Added
  <2>2. CASE s # {}
    <3>1. First(s) \in 1..BillItems
      BY <2>2 DEF First
    <3> QED
      BY <2>2, <3>1 DEF Added, Times, BillRel
  <2> QED
    BY <2>1, <2>2
<1>2. ASSUME NEW it PROVE [s \in SUBSET S |-> Plus(it, s)] = [s \in SUBSET S |-> Added(f, it, s)]
  BY <1>1
<1>3. (CHOOSE it : it = [s \in SUBSET S |-> Plus(it, s)]) = CHOOSE it : Adds(f, SUBSET S, it)
  BY <1>2 DEF Adds
<1>4. SumOver(f, S) = (CHOOSE it : Adds(f, SUBSET S, it))[S]
  BY SumIsChosen
<1>5. Bills!MapThenSumSet(
        LAMBDA k : IF Bills!ReleasedBom(k) = 0 THEN 0
                   ELSE l[k] * bomBoms[k][Bills!ReleasedBom(k)].lines[j], 1..BillItems)
      = (CHOOSE it : it = [s \in SUBSET S |-> Plus(it, s)])[S]
  BY DEF Bills!MapThenSumSet, Bills!MapThenFoldSet, First
<1> QED
  BY <1>3, <1>4, <1>5

LEMMA BillLevels ==
  ASSUME NEW i, NEW v, NEW units
  PROVE  Bills!Level(i, v, units) = Explodes(BillItems, bomBoms, BillRel, BillTop(i, v, units))
<1> DEFINE Row(lev, n) ==
             IF n = 1 THEN [j \in 1..BillItems |-> units * bomBoms[i][v].lines[j]]
             ELSE [j \in 1..BillItems |-> Bills!MapThenSumSet(
                     LAMBDA k : IF Bills!ReleasedBom(k) = 0 THEN 0
                                ELSE lev[n - 1][k] * bomBoms[k][Bills!ReleasedBom(k)].lines[j],
                     1..BillItems)]
           Same(lev, n) == IF n = 1 THEN BillTop(i, v, units)
                           ELSE OneDown(BillItems, bomBoms, BillRel, lev[n - 1])
<1>1. ASSUME NEW lev, NEW n \in 1..(BillItems + 1) PROVE Row(lev, n) = Same(lev, n)
  BY BillSum DEF BillTop, OneDown
<1>2. Bills!Level(i, v, units) = CHOOSE lev : lev = [n \in 1..(BillItems + 1) |-> Row(lev, n)]
  BY DEF Bills!Level, Bills!Items
<1> HIDE DEF Row, Same
<1>3. ASSUME NEW lev
      PROVE  [n \in 1..(BillItems + 1) |-> Row(lev, n)] = [n \in 1..(BillItems + 1) |-> Same(lev, n)]
  BY <1>1
<1>4. (CHOOSE lev : lev = [n \in 1..(BillItems + 1) |-> Row(lev, n)])
        = CHOOSE lev : lev = [n \in 1..(BillItems + 1) |-> Same(lev, n)]
  BY <1>3
<1>5. Explodes(BillItems, bomBoms, BillRel, BillTop(i, v, units))
        = CHOOSE lev : lev = [n \in 1..(BillItems + 1) |-> Same(lev, n)]
  BY DEF Explodes, ByDepth, Same
<1> QED
  BY <1>2, <1>4, <1>5

LEMMA BillExplodes ==
  ASSUME BillInv, NEW i \in 1..BillItems, NEW v \in 1..LastVersion, NEW units \in Nat
  PROVE  /\ \A n \in 1..(BillItems + 1) : Bills!Level(i, v, units)[n] \in [1..BillItems -> Nat]
         /\ Bills!Level(i, v, units)[BillItems + 1] = [j \in 1..BillItems |-> 0]
<1>1. /\ bomBoms \in [1..BillItems -> [1..LastVersion -> BomRowsOf(BillItems, MaxLine)]]
      /\ Acyclic(BillItems, LastVersion, bomBoms)
      /\ BillRel \in [1..BillItems -> 0..LastVersion]
  BY BillNewest DEF BillInv, BomInv, BomTypes
<1>2. \A j \in 1..BillItems : bomBoms[i][v].lines[j] \in Nat
  <2>1. bomBoms[i][v] \in BomRowsOf(BillItems, MaxLine)
    BY <1>1
  <2>2. bomBoms[i][v].lines \in [1..BillItems -> 0..MaxLine]
    BY <2>1 DEF BomRowsOf
  <2>3. \A j \in 1..BillItems : bomBoms[i][v].lines[j] \in 0..MaxLine
    BY <2>2
  <2> QED
    BY <2>3
<1>3. PICK top : top = BillTop(i, v, units)
  OBVIOUS
<1>4. top \in [1..BillItems -> Nat]
  BY <1>2, <1>3, NatsMultiply DEF BillTop
<1>5. \A j \in 1..BillItems : top[j] # 0 => Takes(LastVersion, bomBoms, i, j)
  <2> SUFFICES ASSUME NEW j \in 1..BillItems, top[j] # 0 PROVE Takes(LastVersion, bomBoms, i, j)
    OBVIOUS
  <2>1. units * bomBoms[i][v].lines[j] # 0
    BY <1>3 DEF BillTop
  <2>2. bomBoms[i][v].lines[j] # 0
    BY <1>2, <2>1, NatsMultiply
  <2>3. bomBoms[i][v].lines[j] > 0
    BY <1>2, <2>2
  <2> QED
    BY <2>3 DEF Takes
<1>6. PICK lev : lev = Explodes(BillItems, bomBoms, BillRel, top)
  OBVIOUS
<1>7. /\ \A n \in 1..(BillItems + 1) : lev[n] \in [1..BillItems -> Nat]
      /\ lev[BillItems + 1] = [j \in 1..BillItems |-> 0]
  <2>1. BillItems \in Nat /\ LastVersion \in Nat /\ MaxLine \in Nat
    BY BillConstants
  <2>2. Explodable(BillItems, LastVersion, BomRowsOf(BillItems, MaxLine), bomBoms, BillRel, top, i)
    BY <1>1, <1>4, <1>5 DEF Explodable, LinesIn, BomRowsOf
  <2>3. Ends(BillItems, lev)
    BY <1>6, <2>1, <2>2, ExplosionEnds
  <2> QED
    BY <2>3 DEF Ends
<1>8. Bills!Level(i, v, units) = lev
  BY <1>3, <1>6, BillLevels
<1> QED
  BY <1>7, <1>8

LEMMA BillRequired ==
  ASSUME BillInv, NEW i \in 1..BillItems, NEW v \in 1..LastVersion, NEW units \in Nat
  PROVE  Bills!Required(i, v, units) \in [1..BillItems -> Nat]
<1>1. PICK lev : lev = Bills!Level(i, v, units)
  OBVIOUS
<1>2. \A n \in 1..BillItems : lev[n] \in [1..BillItems -> Nat]
  <2>1. \A n \in 1..BillItems : n \in 1..(BillItems + 1)
    BY BillConstants
  <2> QED
    BY <1>1, <2>1, BillExplodes
<1>3. ASSUME NEW j \in 1..BillItems
      PROVE  Bills!MapThenSumSet(LAMBDA n : lev[n][j], 1..BillItems) \in Nat
  <2> DEFINE S == 1..BillItems
             f == [n \in S |-> lev[n][j]]
             Plus(it, s) == IF s = {} THEN 0 ELSE lev[First(s)][j] + it[s \ {First(s)}]
  <2>1. ASSUME NEW it, NEW s \in SUBSET S PROVE Plus(it, s) = Added(f, it, s)
    <3>1. s # {} => First(s) \in S
      BY DEF First
    <3>2. s # {} => f[First(s)] = lev[First(s)][j]
      BY <3>1
    <3> HIDE DEF f
    <3> QED
      BY <3>2 DEF Added
  <2>2. ASSUME NEW it PROVE [s \in SUBSET S |-> Plus(it, s)] = [s \in SUBSET S |-> Added(f, it, s)]
    BY <2>1
  <2>3. (CHOOSE it : it = [s \in SUBSET S |-> Plus(it, s)]) = CHOOSE it : Adds(f, SUBSET S, it)
    BY <2>2 DEF Adds
  <2>4. SumOver(f, S) = (CHOOSE it : Adds(f, SUBSET S, it))[S]
    BY SumIsChosen
  <2>5. Bills!MapThenSumSet(LAMBDA n : lev[n][j], S)
          = (CHOOSE it : it = [s \in SUBSET S |-> Plus(it, s)])[S]
    BY DEF Bills!MapThenSumSet, Bills!MapThenFoldSet, First
  <2>6. SumOver(f, S) \in Nat
    <3>1. \A n \in S : f[n] \in Nat
      BY <1>2
    <3>2. IsFiniteSet(S)
      BY BillConstants, RangeIsFinite
    <3> HIDE DEF f, S
    <3> QED
      BY <3>1, <3>2, SumOfNats
  <2> QED
    BY <2>3, <2>4, <2>5, <2>6
<1>4. Bills!Required(i, v, units)
        = [j \in 1..BillItems |-> Bills!MapThenSumSet(LAMBDA n : lev[n][j], 1..BillItems)]
  BY <1>1 DEF Bills!Required, Bills!Items
<1> QED
  BY <1>3, <1>4

LEMMA BillInvSuffices == BillInv => Bills!TypeOK /\ Bills!EveryBillExplodes
<1> SUFFICES ASSUME BillInv PROVE Bills!TypeOK /\ Bills!EveryBillExplodes
  OBVIOUS
<1>1. Bills!TypeOK
  BY BillRows DEF BillInv, BomInv, BomTypes, Bills!TypeOK
<1>2. ASSUME NEW i \in 1..BillItems, NEW v \in 1..LastVersion PROVE Bills!Finite(i, v)
  BY BillExplodes, BillConstants DEF Bills!Finite, Bills!NoLines, Bills!Items
<1> QED
  BY <1>1, <1>2, BillRows DEF Bills!EveryBillExplodes

LEMMA BillMakes ==
  ASSUME BillInv, NEW i \in 1..BillItems, NEW v \in 1..LastVersion
  PROVE  /\ Bills!CreateBom(i) => BillInv'
         /\ Bills!AddOperation(i, v) => BillInv'
         /\ Bills!Release(i, v) => BillInv'
         /\ Bills!Revise(i, v) => BillInv'
<1>1. /\ BomInv(BillItems, LastVersion, MaxLine) /\ BomTypes(BillItems, LastVersion, MaxLine)
      /\ BillItems \in Nat /\ LastVersion \in Nat /\ MaxLine \in Nat /\ RouteSteps \in Nat
  BY BillConstants DEF BillInv, BomInv
<1>2. ASSUME NEW w \in 1..LastVersion
      PROVE  /\ bomBoms[i][w] \in BomRowsOf(BillItems, MaxLine)
             /\ bomBoms[i][w].lines \in [1..BillItems -> 0..MaxLine]
             /\ bomBoms[i][w].route \in 0..RouteSteps
             /\ bomBoms[i][w] = [status |-> bomBoms[i][w].status, lines |-> bomBoms[i][w].lines,
                                 route |-> bomBoms[i][w].route]
             /\ \A j \in 1..BillItems : bomBoms[i][w].lines[j] > 0
                                          => Takes(LastVersion, bomBoms, i, j)
  <2>1. bomBoms[i][w] \in BomRowsOf(BillItems, MaxLine)
    BY <1>1 DEF BomTypes
  <2>2. \A j \in 1..BillItems : bomBoms[i][w].lines[j] > 0 => Takes(LastVersion, bomBoms, i, j)
    BY DEF Takes
  <2> QED
    BY <2>1, <2>2 DEF BomRowsOf
<1>3. ASSUME Bills!CreateBom(i) PROVE BillInv'
  <2>1. PICK w \in 1..LastVersion : w = Bills!NextVersion(i) /\ bomBoms[i][w].status = "absent"
    BY <1>1, <1>3, BillNext DEF Bills!CreateBom
  <2>2. PICK row : row = [bomBoms[i][w] EXCEPT !.status = "draft"]
    OBVIOUS
  <2>3. row \in BomRowsOf(BillItems, MaxLine) /\ row.lines = bomBoms[i][w].lines
    BY <1>2, <2>2 DEF BomRowsOf
  <2>4. bomBoms' = [bomBoms EXCEPT ![i][w] = row] /\ UNCHANGED <<bomOrders, bomAdding>>
    BY <1>3, <2>1, <2>2 DEF Bills!CreateBom
  <2>5. BillIsSet(BillItems, LastVersion, MaxLine, i, w, row)
    BY <1>2, <2>1, <2>3, <2>4 DEF BillIsSet
  <2> QED
    BY <1>1, <2>5, BillSetKeeps DEF BillInv
<1>4. ASSUME Bills!AddOperation(i, v) PROVE BillInv'
  <2>1. PICK row : row = [bomBoms[i][v] EXCEPT !.route = @ + 1]
    OBVIOUS
  <2>2. bomBoms[i][v].status = "draft" /\ bomBoms[i][v].route + 1 \in 0..RouteSteps
    <3>1. bomBoms[i][v].status = "draft" /\ bomBoms[i][v].route < RouteSteps
      BY <1>4 DEF Bills!AddOperation
    <3>2. bomBoms[i][v].route \in 0..RouteSteps
      BY <1>2
    <3> QED
      BY <1>1, <3>1, <3>2
  <2>3. /\ row \in BomRowsOf(BillItems, MaxLine) /\ row.lines = bomBoms[i][v].lines
        /\ row.status = "draft"
    BY <1>2, <2>1, <2>2 DEF BomRowsOf
  <2>4. bomBoms' = [bomBoms EXCEPT ![i][v] = row] /\ UNCHANGED <<bomOrders, bomAdding>>
    BY <1>4, <2>1 DEF Bills!AddOperation
  <2>5. BillIsSet(BillItems, LastVersion, MaxLine, i, v, row)
    BY <1>2, <2>3, <2>4 DEF BillIsSet
  <2> QED
    BY <1>1, <2>5, BillSetKeeps DEF BillInv
<1>5. ASSUME Bills!Release(i, v) PROVE BillInv'
  <2>1. PICK row : row = [bomBoms[i][v] EXCEPT !.status = "released"]
    OBVIOUS
  <2>2. row \in BomRowsOf(BillItems, MaxLine) /\ row.lines = bomBoms[i][v].lines
    BY <1>2, <2>1 DEF BomRowsOf
  <2>3. /\ bomBoms' = [bomBoms EXCEPT ![i][v] = row] /\ UNCHANGED <<bomOrders, bomAdding>>
        /\ \A s \in Planners : bomAdding[s] = NoLine
    BY <1>5, <2>1, BillRows DEF Bills!Release
  <2>4. BillIsSet(BillItems, LastVersion, MaxLine, i, v, row)
    BY <1>2, <2>2, <2>3 DEF BillIsSet
  <2> QED
    BY <1>1, <2>4, BillSetKeeps DEF BillInv
<1>6. ASSUME Bills!Revise(i, v) PROVE BillInv'
  <2>1. PICK w \in 1..LastVersion : w = Bills!NextVersion(i) /\ bomBoms[i][w].status = "absent"
    BY <1>1, <1>6, BillNext DEF Bills!Revise
  <2>2. PICK row : row = [status |-> "draft", lines |-> bomBoms[i][v].lines, route |-> 0]
    OBVIOUS
  <2>3. row \in BomRowsOf(BillItems, MaxLine) /\ row.lines = bomBoms[i][v].lines
    <3>1. bomBoms[i][v].lines \in [1..BillItems -> 0..MaxLine]
      BY <1>2
    <3>2. 0 \in 0..RouteSteps
      BY <1>1
    <3> QED
      BY <2>2, <3>1, <3>2 DEF BomRowsOf
  <2>4. bomBoms' = [bomBoms EXCEPT ![i][w] = row] /\ UNCHANGED <<bomOrders, bomAdding>>
    BY <1>6, <2>1, <2>2 DEF Bills!Revise
  <2>5. BillIsSet(BillItems, LastVersion, MaxLine, i, w, row)
    BY <1>2, <2>1, <2>3, <2>4 DEF BillIsSet
  <2> QED
    BY <1>1, <2>5, BillSetKeeps DEF BillInv
<1> QED
  BY <1>3, <1>4, <1>5, <1>6

LEMMA BillAdds ==
  ASSUME BillInv, NEW s \in Planners
  PROVE  /\ \A i, j \in 1..BillItems, v \in 1..LastVersion, q \in LineUnits :
              Bills!BeginAddLine(s, i, v, j, q) => BillInv'
         /\ Bills!CommitAddLine(s) => BillInv'
<1>1. /\ BomInv(BillItems, LastVersion, MaxLine)
      /\ BillItems \in Nat /\ LastVersion \in Nat /\ MaxLine \in Nat
  BY BillConstants DEF BillInv
<1>2. ASSUME NEW i \in 1..BillItems, NEW j \in 1..BillItems, NEW v \in 1..LastVersion,
             NEW q \in LineUnits, Bills!BeginAddLine(s, i, v, j, q)
      PROVE  BillInv'
  <2>1. PICK a : a = [item |-> i, bom |-> v, part |-> j, quantity |-> q]
    OBVIOUS
  <2>2. a.item = i /\ a.bom = v /\ a.part = j /\ a.quantity = q /\ q \in Nat
    BY <2>1, BillConstants
  <2>3. a \in LinesAdded(BillItems, LastVersion)
    BY <2>1, <2>2 DEF LinesAdded
  <2>4. /\ \A t \in Planners : bomAdding[t] = NoLine
        /\ bomBoms[i][v].status = "draft" /\ bomBoms[i][v].lines[j] + q <= MaxLine
        /\ ~Bills!ClosesCycle(i, j)
        /\ bomAdding' = [bomAdding EXCEPT ![s] = a] /\ UNCHANGED <<bomBoms, bomOrders>>
    BY <1>2, <2>1, BillRows DEF Bills!BeginAddLine
  <2>5. i # j /\ i \notin Down(BillItems, LastVersion, bomBoms, j)
    BY <2>4, BillDown DEF Bills!ClosesCycle
  <2>6. LineStands(BillItems, LastVersion, MaxLine, a)
    BY <2>2, <2>4, <2>5 DEF LineStands
  <2>7. LineBegins(BillItems, LastVersion, MaxLine, s, a)
    BY <2>3, <2>4, <2>6 DEF LineBegins
  <2> QED
    BY <1>1, <2>7, LineBeginKeeps DEF BillInv
<1>3. ASSUME Bills!CommitAddLine(s) PROVE BillInv'
  <2>1. LineCommits(s)
    BY <1>3, BillRows DEF Bills!CommitAddLine, LineCommits
  <2> QED
    BY <1>1, <2>1, LineCommitKeeps DEF BillInv
<1> QED
  BY <1>2, <1>3

LEMMA BillOrders ==
  ASSUME BillInv, NEW o \in BuildOrders, NEW i \in 1..BillItems, NEW units \in LineUnits,
         Bills!CreateWorkOrder(o, i, units)
  PROVE  BillInv'
<1>1. /\ BomInv(BillItems, LastVersion, MaxLine) /\ BomTypes(BillItems, LastVersion, MaxLine)
      /\ BillItems \in Nat /\ LastVersion \in Nat /\ MaxLine \in Nat /\ units \in Nat
  BY BillConstants DEF BillInv, BomInv
<1>2. PICK v : v = Bills!ReleasedBom(i)
  OBVIOUS
<1>3. v \in 1..LastVersion
  <2>1. v \in 0..LastVersion
    BY <1>1, <1>2, BillNewest DEF BillRel
  <2>2. v # 0
    BY <1>2 DEF Bills!CreateWorkOrder
  <2> QED
    BY <1>1, <2>1, <2>2
<1>4. PICK row : row = [item |-> i, bom |-> v, units |-> units,
                        required |-> Bills!Required(i, v, units), route |-> bomBoms[i][v].route]
  OBVIOUS
<1>5. bomOrders' = [bomOrders EXCEPT ![o] = row] /\ UNCHANGED <<bomBoms, bomAdding>>
  BY <1>2, <1>4 DEF Bills!CreateWorkOrder
<1>6. bomBoms[i][v].route \in 0..RouteSteps
  <2>1. bomBoms[i][v] \in BomRowsOf(BillItems, MaxLine)
    BY <1>1, <1>3 DEF BomTypes
  <2> QED
    BY <2>1 DEF BomRowsOf
<1>7. Bills!Required(i, v, units) \in [1..BillItems -> Nat]
  BY <1>1, <1>3, BillRequired
<1>8. row \in BomOrdersOf(BillItems, LastVersion)
  BY <1>1, <1>3, <1>4, <1>6, <1>7 DEF BomOrdersOf
<1>9. OrderIsRaised(BillItems, LastVersion, o, row)
  BY <1>5, <1>8 DEF OrderIsRaised
<1> QED
  BY <1>1, <1>9, OrderKeeps DEF BillInv

LEMMA BillStep == BillInv /\ [Bills!Next]_(Bills!vars) => BillInv'
<1> SUFFICES ASSUME BillInv, [Bills!Next]_(Bills!vars) PROVE BillInv'
  OBVIOUS
<1>1. CASE \E i \in Bills!Items : Bills!CreateBom(i)
  <2>1. PICK i \in 1..BillItems : Bills!CreateBom(i)
    BY <1>1, BillRows
  <2>2. PICK w \in 1..LastVersion : TRUE
    BY <2>1, BillNext DEF Bills!CreateBom, BillInv, BomInv
  <2> QED
    BY <2>1, <2>2, BillMakes
<1>2. CASE \E s \in Planners, i, j \in Bills!Items, v \in Bills!Versions, q \in LineUnits :
             Bills!BeginAddLine(s, i, v, j, q)
  BY <1>2, BillRows, BillAdds
<1>3. CASE \E s \in Planners : Bills!CommitAddLine(s)
  BY <1>3, BillAdds
<1>4. CASE \E i \in Bills!Items, v \in Bills!Versions :
             Bills!AddOperation(i, v) \/ Bills!Release(i, v) \/ Bills!Revise(i, v)
  BY <1>4, BillRows, BillMakes
<1>5. CASE \E o \in BuildOrders, i \in Bills!Items, units \in LineUnits :
             Bills!CreateWorkOrder(o, i, units)
  BY <1>5, BillRows, BillOrders
<1>6. CASE UNCHANGED Bills!vars
  BY <1>6, BillConstants, StillBills DEF Bills!vars, BillInv
<1> QED
  BY <1>1, <1>2, <1>3, <1>4, <1>5, <1>6 DEF Bills!Next

LEMMA BillStart == Bills!Init => BillInv
<1> SUFFICES ASSUME Bills!Init PROVE BillInv
  OBVIOUS
<1>1. PICK none : none = [j \in 1..BillItems |-> 0]
  OBVIOUS
<1>2. none \in [1..BillItems -> 0..MaxLine] /\ none \in [1..BillItems -> Nat]
  BY <1>1, BillConstants
<1>3. Bills!NoBom = [status |-> "absent", lines |-> none, route |-> 0]
      /\ Bills!NoOrder = [item |-> 0, bom |-> 0, units |-> 0, required |-> none, route |-> 0]
  BY <1>1 DEF Bills!NoBom, Bills!NoOrder, Bills!NoLines, Bills!Items
<1>4. Bills!NoBom \in BomRowsOf(BillItems, MaxLine)
      /\ Bills!NoOrder \in BomOrdersOf(BillItems, LastVersion)
      /\ NoLine \in LinesAdded(BillItems, LastVersion)
  BY <1>2, <1>3, BillConstants DEF BomRowsOf, BomOrdersOf, LinesAdded, NoLine
<1>5. BomTypes(BillItems, LastVersion, MaxLine)
  BY <1>4, BillRows DEF Bills!Init, BomTypes
<1>6. \A s \in Planners : bomAdding[s] = NoLine
  BY BillRows DEF Bills!Init
<1>7. \A k, j \in 1..BillItems : ~Takes(LastVersion, bomBoms, k, j)
  <2> SUFFICES ASSUME NEW k \in 1..BillItems, NEW j \in 1..BillItems, NEW v \in 1..LastVersion
               PROVE  ~(bomBoms[k][v].lines[j] > 0)
    BY DEF Takes
  <2>1. bomBoms[k][v] = Bills!NoBom
    BY BillRows DEF Bills!Init
  <2>2. bomBoms[k][v].lines = none
    BY <1>3, <2>1
  <2>3. none[j] = 0
    BY <1>1
  <2> QED
    BY <2>2, <2>3
<1>8. Acyclic(BillItems, LastVersion, bomBoms)
  <2> SUFFICES ASSUME NEW i \in 1..BillItems PROVE i \notin Down(BillItems, LastVersion, bomBoms, i)
    BY DEF Acyclic
  <2>1. PICK Q : Q = {}
    OBVIOUS
  <2>2. Down(BillItems, LastVersion, bomBoms, i) \subseteq Q
    BY <1>7, <2>1, BillConstants, DownIsLeast
  <2> QED
    BY <2>1, <2>2
<1> QED
  BY <1>5, <1>6, <1>8 DEF BillInv, BomInv

(* ------------------------- the desk of the families --------------------------- *)

FamRel == [k \in 1..FamilyItems |-> Families!ReleasedBom(k)]
FamTop(i, v, units) == [j \in 1..FamilyItems |-> units * bomBoms[i][v].lines[j]]
FamInv == BomInv(FamilyItems, 1, 1)

LEMMA FamConstants ==
  /\ FamilyItems \in Nat /\ RouteSteps \in Nat
BY Parameters DEF Families!BomAssumption

LEMMA FamRows ==
  /\ Families!Items = 1..FamilyItems /\ Families!Versions = 1..1
  /\ Families!BomRows = BomRowsOf(FamilyItems, 1)
  /\ Families!OrderRows = BomOrdersOf(FamilyItems, 1)
  /\ Families!Insertions = LinesAdded(FamilyItems, 1)
  /\ Families!Idle = NoLine
BY DEF Families!Items, Families!Versions, Families!BomRows, Families!Lines, Families!OrderRows, Families!Insertions,
       Families!Idle, BomRowsOf, BomOrdersOf, LinesAdded, NoLine

LEMMA FamDown ==
  ASSUME NEW i
  PROVE  Families!Descendants(i) = Down(FamilyItems, 1, bomBoms, i)
BY DEF Families!Descendants, Families!Below, Families!Items, Families!Versions, Down, Reaching, Beneath

LEMMA FamHighest ==
  ASSUME NEW S \in SUBSET (1..1)
  PROVE  /\ Families!Highest(S) \in 0..1
         /\ S # {} => Families!Highest(S) \in S
         /\ \A y \in S : Families!Highest(S) >= y
<1>1. CASE S = {}
  <2>1. Families!Highest(S) = 0
    BY <1>1 DEF Families!Highest
  <2> QED
    BY <1>1, <2>1, FamConstants
<1>2. CASE S # {}
  <2>1. \E x \in S : \A y \in S : x >= y
    BY <1>2, FamConstants, HighestIsThere
  <2>2. Families!Highest(S) = CHOOSE x \in S : \A y \in S : x >= y
    BY <1>2 DEF Families!Highest, Families!Max
  <2>3. Families!Highest(S) \in S /\ \A y \in S : Families!Highest(S) >= y
    BY <2>1, <2>2
  <2>4. \A x \in S : x \in 0..1
    BY FamConstants
  <2> QED
    BY <2>3, <2>4
<1> QED
  BY <1>1, <1>2

LEMMA FamNewest ==
  ASSUME BomTypes(FamilyItems, 1, 1)
  PROVE  FamRel \in [1..FamilyItems -> 0..1]
<1>1. \A k : Families!Of(k, "released") \in SUBSET (1..1)
  BY DEF Families!Of, Families!Versions
<1>2. \A k : Families!ReleasedBom(k) \in 0..1
  BY <1>1, FamHighest DEF Families!ReleasedBom
<1> QED
  BY <1>2 DEF FamRel

LEMMA FamNext ==
  ASSUME BomTypes(FamilyItems, 1, 1), NEW i \in 1..FamilyItems, Families!Another(i)
  PROVE  /\ Families!NextVersion(i) \in 1..1
         /\ bomBoms[i][Families!NextVersion(i)].status = "absent"
<1>1. PICK S : S = Families!Of(i, "draft") \cup Families!Of(i, "released")
  OBVIOUS
<1>2. S \in SUBSET (1..1)
  BY <1>1 DEF Families!Of, Families!Versions
<1>3. PICK h \in Nat : h = Families!Highest(S) /\ \A y \in S : h >= y
  BY <1>2, FamHighest, FamConstants
<1>4. Families!NextVersion(i) = h + 1 /\ h + 1 \in 1..1
  BY <1>1, <1>3 DEF Families!Another, Families!NextVersion, Families!Versions
<1>5. h + 1 \notin S
  BY <1>2, <1>3
<1>6. bomBoms[i][h + 1].status \in {"absent", "draft", "released"}
  <2>1. bomBoms[i][h + 1] \in BomRowsOf(FamilyItems, 1)
    BY <1>4 DEF BomTypes
  <2> QED
    BY <2>1 DEF BomRowsOf
<1> QED
  BY <1>1, <1>4, <1>5, <1>6 DEF Families!Of, Families!Versions

LEMMA FamSum ==
  ASSUME NEW l, NEW j \in 1..FamilyItems
  PROVE  Families!MapThenSumSet(
           LAMBDA k : IF Families!ReleasedBom(k) = 0 THEN 0
                      ELSE l[k] * bomBoms[k][Families!ReleasedBom(k)].lines[j], 1..FamilyItems)
         = SumOver(Times(FamilyItems, bomBoms, FamRel, l, j), 1..FamilyItems)
<1> DEFINE S == 1..FamilyItems
           f == Times(FamilyItems, bomBoms, FamRel, l, j)
           Plus(it, s) == IF s = {} THEN 0
                          ELSE (IF Families!ReleasedBom(First(s)) = 0 THEN 0
                                ELSE l[First(s)]
                                       * bomBoms[First(s)][Families!ReleasedBom(First(s))].lines[j])
                                 + it[s \ {First(s)}]
<1>1. ASSUME NEW it, NEW s \in SUBSET S PROVE Plus(it, s) = Added(f, it, s)
  <2>1. CASE s = {}
    BY <2>1 DEF Added
  <2>2. CASE s # {}
    <3>1. First(s) \in 1..FamilyItems
      BY <2>2 DEF First
    <3> QED
      BY <2>2, <3>1 DEF Added, Times, FamRel
  <2> QED
    BY <2>1, <2>2
<1>2. ASSUME NEW it PROVE [s \in SUBSET S |-> Plus(it, s)] = [s \in SUBSET S |-> Added(f, it, s)]
  BY <1>1
<1>3. (CHOOSE it : it = [s \in SUBSET S |-> Plus(it, s)]) = CHOOSE it : Adds(f, SUBSET S, it)
  BY <1>2 DEF Adds
<1>4. SumOver(f, S) = (CHOOSE it : Adds(f, SUBSET S, it))[S]
  BY SumIsChosen
<1>5. Families!MapThenSumSet(
        LAMBDA k : IF Families!ReleasedBom(k) = 0 THEN 0
                   ELSE l[k] * bomBoms[k][Families!ReleasedBom(k)].lines[j], 1..FamilyItems)
      = (CHOOSE it : it = [s \in SUBSET S |-> Plus(it, s)])[S]
  BY DEF Families!MapThenSumSet, Families!MapThenFoldSet, First
<1> QED
  BY <1>3, <1>4, <1>5

LEMMA FamLevels ==
  ASSUME NEW i, NEW v, NEW units
  PROVE  Families!Level(i, v, units) = Explodes(FamilyItems, bomBoms, FamRel, FamTop(i, v, units))
<1> DEFINE Row(lev, n) ==
             IF n = 1 THEN [j \in 1..FamilyItems |-> units * bomBoms[i][v].lines[j]]
             ELSE [j \in 1..FamilyItems |-> Families!MapThenSumSet(
                     LAMBDA k : IF Families!ReleasedBom(k) = 0 THEN 0
                                ELSE lev[n - 1][k] * bomBoms[k][Families!ReleasedBom(k)].lines[j],
                     1..FamilyItems)]
           Same(lev, n) == IF n = 1 THEN FamTop(i, v, units)
                           ELSE OneDown(FamilyItems, bomBoms, FamRel, lev[n - 1])
<1>1. ASSUME NEW lev, NEW n \in 1..(FamilyItems + 1) PROVE Row(lev, n) = Same(lev, n)
  BY FamSum DEF FamTop, OneDown
<1>2. Families!Level(i, v, units) = CHOOSE lev : lev = [n \in 1..(FamilyItems + 1) |-> Row(lev, n)]
  BY DEF Families!Level, Families!Items
<1> HIDE DEF Row, Same
<1>3. ASSUME NEW lev
      PROVE  [n \in 1..(FamilyItems + 1) |-> Row(lev, n)] = [n \in 1..(FamilyItems + 1) |-> Same(lev, n)]
  BY <1>1
<1>4. (CHOOSE lev : lev = [n \in 1..(FamilyItems + 1) |-> Row(lev, n)])
        = CHOOSE lev : lev = [n \in 1..(FamilyItems + 1) |-> Same(lev, n)]
  BY <1>3
<1>5. Explodes(FamilyItems, bomBoms, FamRel, FamTop(i, v, units))
        = CHOOSE lev : lev = [n \in 1..(FamilyItems + 1) |-> Same(lev, n)]
  BY DEF Explodes, ByDepth, Same
<1> QED
  BY <1>2, <1>4, <1>5

LEMMA FamExplodes ==
  ASSUME FamInv, NEW i \in 1..FamilyItems, NEW v \in 1..1, NEW units \in Nat
  PROVE  /\ \A n \in 1..(FamilyItems + 1) : Families!Level(i, v, units)[n] \in [1..FamilyItems -> Nat]
         /\ Families!Level(i, v, units)[FamilyItems + 1] = [j \in 1..FamilyItems |-> 0]
<1>1. /\ bomBoms \in [1..FamilyItems -> [1..1 -> BomRowsOf(FamilyItems, 1)]]
      /\ Acyclic(FamilyItems, 1, bomBoms)
      /\ FamRel \in [1..FamilyItems -> 0..1]
  BY FamNewest DEF FamInv, BomInv, BomTypes
<1>2. \A j \in 1..FamilyItems : bomBoms[i][v].lines[j] \in Nat
  <2>1. bomBoms[i][v] \in BomRowsOf(FamilyItems, 1)
    BY <1>1
  <2>2. bomBoms[i][v].lines \in [1..FamilyItems -> 0..1]
    BY <2>1 DEF BomRowsOf
  <2>3. \A j \in 1..FamilyItems : bomBoms[i][v].lines[j] \in 0..1
    BY <2>2
  <2> QED
    BY <2>3
<1>3. PICK top : top = FamTop(i, v, units)
  OBVIOUS
<1>4. top \in [1..FamilyItems -> Nat]
  BY <1>2, <1>3, NatsMultiply DEF FamTop
<1>5. \A j \in 1..FamilyItems : top[j] # 0 => Takes(1, bomBoms, i, j)
  <2> SUFFICES ASSUME NEW j \in 1..FamilyItems, top[j] # 0 PROVE Takes(1, bomBoms, i, j)
    OBVIOUS
  <2>1. units * bomBoms[i][v].lines[j] # 0
    BY <1>3 DEF FamTop
  <2>2. bomBoms[i][v].lines[j] # 0
    BY <1>2, <2>1, NatsMultiply
  <2>3. bomBoms[i][v].lines[j] > 0
    BY <1>2, <2>2
  <2> QED
    BY <2>3 DEF Takes
<1>6. PICK lev : lev = Explodes(FamilyItems, bomBoms, FamRel, top)
  OBVIOUS
<1>7. /\ \A n \in 1..(FamilyItems + 1) : lev[n] \in [1..FamilyItems -> Nat]
      /\ lev[FamilyItems + 1] = [j \in 1..FamilyItems |-> 0]
  <2>1. FamilyItems \in Nat /\ 1 \in Nat
    BY FamConstants
  <2>2. Explodable(FamilyItems, 1, BomRowsOf(FamilyItems, 1), bomBoms, FamRel, top, i)
    BY <1>1, <1>4, <1>5 DEF Explodable, LinesIn, BomRowsOf
  <2>3. Ends(FamilyItems, lev)
    BY <1>6, <2>1, <2>2, ExplosionEnds
  <2> QED
    BY <2>3 DEF Ends
<1>8. Families!Level(i, v, units) = lev
  BY <1>3, <1>6, FamLevels
<1> QED
  BY <1>7, <1>8

LEMMA FamRequired ==
  ASSUME FamInv, NEW i \in 1..FamilyItems, NEW v \in 1..1, NEW units \in Nat
  PROVE  Families!Required(i, v, units) \in [1..FamilyItems -> Nat]
<1>1. PICK lev : lev = Families!Level(i, v, units)
  OBVIOUS
<1>2. \A n \in 1..FamilyItems : lev[n] \in [1..FamilyItems -> Nat]
  <2>1. \A n \in 1..FamilyItems : n \in 1..(FamilyItems + 1)
    BY FamConstants
  <2> QED
    BY <1>1, <2>1, FamExplodes
<1>3. ASSUME NEW j \in 1..FamilyItems
      PROVE  Families!MapThenSumSet(LAMBDA n : lev[n][j], 1..FamilyItems) \in Nat
  <2> DEFINE S == 1..FamilyItems
             f == [n \in S |-> lev[n][j]]
             Plus(it, s) == IF s = {} THEN 0 ELSE lev[First(s)][j] + it[s \ {First(s)}]
  <2>1. ASSUME NEW it, NEW s \in SUBSET S PROVE Plus(it, s) = Added(f, it, s)
    <3>1. s # {} => First(s) \in S
      BY DEF First
    <3>2. s # {} => f[First(s)] = lev[First(s)][j]
      BY <3>1
    <3> HIDE DEF f
    <3> QED
      BY <3>2 DEF Added
  <2>2. ASSUME NEW it PROVE [s \in SUBSET S |-> Plus(it, s)] = [s \in SUBSET S |-> Added(f, it, s)]
    BY <2>1
  <2>3. (CHOOSE it : it = [s \in SUBSET S |-> Plus(it, s)]) = CHOOSE it : Adds(f, SUBSET S, it)
    BY <2>2 DEF Adds
  <2>4. SumOver(f, S) = (CHOOSE it : Adds(f, SUBSET S, it))[S]
    BY SumIsChosen
  <2>5. Families!MapThenSumSet(LAMBDA n : lev[n][j], S)
          = (CHOOSE it : it = [s \in SUBSET S |-> Plus(it, s)])[S]
    BY DEF Families!MapThenSumSet, Families!MapThenFoldSet, First
  <2>6. SumOver(f, S) \in Nat
    <3>1. \A n \in S : f[n] \in Nat
      BY <1>2
    <3>2. IsFiniteSet(S)
      BY FamConstants, RangeIsFinite
    <3> HIDE DEF f, S
    <3> QED
      BY <3>1, <3>2, SumOfNats
  <2> QED
    BY <2>3, <2>4, <2>5, <2>6
<1>4. Families!Required(i, v, units)
        = [j \in 1..FamilyItems |-> Families!MapThenSumSet(LAMBDA n : lev[n][j], 1..FamilyItems)]
  BY <1>1 DEF Families!Required, Families!Items
<1> QED
  BY <1>3, <1>4

LEMMA FamInvSuffices == FamInv => Families!TypeOK /\ Families!EveryBillExplodes
<1> SUFFICES ASSUME FamInv PROVE Families!TypeOK /\ Families!EveryBillExplodes
  OBVIOUS
<1>1. Families!TypeOK
  BY FamRows DEF FamInv, BomInv, BomTypes, Families!TypeOK
<1>2. ASSUME NEW i \in 1..FamilyItems, NEW v \in 1..1 PROVE Families!Finite(i, v)
  BY FamExplodes, FamConstants DEF Families!Finite, Families!NoLines, Families!Items
<1> QED
  BY <1>1, <1>2, FamRows DEF Families!EveryBillExplodes

LEMMA FamMakes ==
  ASSUME FamInv, NEW i \in 1..FamilyItems, NEW v \in 1..1
  PROVE  /\ Families!CreateBom(i) => FamInv'
         /\ Families!AddOperation(i, v) => FamInv'
         /\ Families!Release(i, v) => FamInv'
         /\ Families!Revise(i, v) => FamInv'
<1>1. /\ BomInv(FamilyItems, 1, 1) /\ BomTypes(FamilyItems, 1, 1)
      /\ FamilyItems \in Nat /\ 1 \in Nat /\ RouteSteps \in Nat
  BY FamConstants DEF FamInv, BomInv
<1>2. ASSUME NEW w \in 1..1
      PROVE  /\ bomBoms[i][w] \in BomRowsOf(FamilyItems, 1)
             /\ bomBoms[i][w].lines \in [1..FamilyItems -> 0..1]
             /\ bomBoms[i][w].route \in 0..RouteSteps
             /\ bomBoms[i][w] = [status |-> bomBoms[i][w].status, lines |-> bomBoms[i][w].lines,
                                 route |-> bomBoms[i][w].route]
             /\ \A j \in 1..FamilyItems : bomBoms[i][w].lines[j] > 0
                                          => Takes(1, bomBoms, i, j)
  <2>1. bomBoms[i][w] \in BomRowsOf(FamilyItems, 1)
    BY <1>1 DEF BomTypes
  <2>2. \A j \in 1..FamilyItems : bomBoms[i][w].lines[j] > 0 => Takes(1, bomBoms, i, j)
    BY DEF Takes
  <2> QED
    BY <2>1, <2>2 DEF BomRowsOf
<1>3. ASSUME Families!CreateBom(i) PROVE FamInv'
  <2>1. PICK w \in 1..1 : w = Families!NextVersion(i) /\ bomBoms[i][w].status = "absent"
    BY <1>1, <1>3, FamNext DEF Families!CreateBom
  <2>2. PICK row : row = [bomBoms[i][w] EXCEPT !.status = "draft"]
    OBVIOUS
  <2>3. row \in BomRowsOf(FamilyItems, 1) /\ row.lines = bomBoms[i][w].lines
    BY <1>2, <2>2 DEF BomRowsOf
  <2>4. bomBoms' = [bomBoms EXCEPT ![i][w] = row] /\ UNCHANGED <<bomOrders, bomAdding>>
    BY <1>3, <2>1, <2>2 DEF Families!CreateBom
  <2>5. BillIsSet(FamilyItems, 1, 1, i, w, row)
    BY <1>2, <2>1, <2>3, <2>4 DEF BillIsSet
  <2> QED
    BY <1>1, <2>5, BillSetKeeps DEF FamInv
<1>4. ASSUME Families!AddOperation(i, v) PROVE FamInv'
  <2>1. PICK row : row = [bomBoms[i][v] EXCEPT !.route = @ + 1]
    OBVIOUS
  <2>2. bomBoms[i][v].status = "draft" /\ bomBoms[i][v].route + 1 \in 0..RouteSteps
    <3>1. bomBoms[i][v].status = "draft" /\ bomBoms[i][v].route < RouteSteps
      BY <1>4 DEF Families!AddOperation
    <3>2. bomBoms[i][v].route \in 0..RouteSteps
      BY <1>2
    <3> QED
      BY <1>1, <3>1, <3>2
  <2>3. /\ row \in BomRowsOf(FamilyItems, 1) /\ row.lines = bomBoms[i][v].lines
        /\ row.status = "draft"
    BY <1>2, <2>1, <2>2 DEF BomRowsOf
  <2>4. bomBoms' = [bomBoms EXCEPT ![i][v] = row] /\ UNCHANGED <<bomOrders, bomAdding>>
    BY <1>4, <2>1 DEF Families!AddOperation
  <2>5. BillIsSet(FamilyItems, 1, 1, i, v, row)
    BY <1>2, <2>3, <2>4 DEF BillIsSet
  <2> QED
    BY <1>1, <2>5, BillSetKeeps DEF FamInv
<1>5. ASSUME Families!Release(i, v) PROVE FamInv'
  <2>1. PICK row : row = [bomBoms[i][v] EXCEPT !.status = "released"]
    OBVIOUS
  <2>2. row \in BomRowsOf(FamilyItems, 1) /\ row.lines = bomBoms[i][v].lines
    BY <1>2, <2>1 DEF BomRowsOf
  <2>3. /\ bomBoms' = [bomBoms EXCEPT ![i][v] = row] /\ UNCHANGED <<bomOrders, bomAdding>>
        /\ \A s \in Planners : bomAdding[s] = NoLine
    BY <1>5, <2>1, FamRows DEF Families!Release
  <2>4. BillIsSet(FamilyItems, 1, 1, i, v, row)
    BY <1>2, <2>2, <2>3 DEF BillIsSet
  <2> QED
    BY <1>1, <2>4, BillSetKeeps DEF FamInv
<1>6. ASSUME Families!Revise(i, v) PROVE FamInv'
  <2>1. PICK w \in 1..1 : w = Families!NextVersion(i) /\ bomBoms[i][w].status = "absent"
    BY <1>1, <1>6, FamNext DEF Families!Revise
  <2>2. PICK row : row = [status |-> "draft", lines |-> bomBoms[i][v].lines, route |-> 0]
    OBVIOUS
  <2>3. row \in BomRowsOf(FamilyItems, 1) /\ row.lines = bomBoms[i][v].lines
    <3>1. bomBoms[i][v].lines \in [1..FamilyItems -> 0..1]
      BY <1>2
    <3>2. 0 \in 0..RouteSteps
      BY <1>1
    <3> QED
      BY <2>2, <3>1, <3>2 DEF BomRowsOf
  <2>4. bomBoms' = [bomBoms EXCEPT ![i][w] = row] /\ UNCHANGED <<bomOrders, bomAdding>>
    BY <1>6, <2>1, <2>2 DEF Families!Revise
  <2>5. BillIsSet(FamilyItems, 1, 1, i, w, row)
    BY <1>2, <2>1, <2>3, <2>4 DEF BillIsSet
  <2> QED
    BY <1>1, <2>5, BillSetKeeps DEF FamInv
<1> QED
  BY <1>3, <1>4, <1>5, <1>6

LEMMA FamAdds ==
  ASSUME FamInv, NEW s \in Planners
  PROVE  /\ \A i, j \in 1..FamilyItems, v \in 1..1, q \in {1} :
              Families!BeginAddLine(s, i, v, j, q) => FamInv'
         /\ Families!CommitAddLine(s) => FamInv'
<1>1. /\ BomInv(FamilyItems, 1, 1)
      /\ FamilyItems \in Nat /\ 1 \in Nat
  BY FamConstants DEF FamInv
<1>2. ASSUME NEW i \in 1..FamilyItems, NEW j \in 1..FamilyItems, NEW v \in 1..1,
             NEW q \in {1}, Families!BeginAddLine(s, i, v, j, q)
      PROVE  FamInv'
  <2>1. PICK a : a = [item |-> i, bom |-> v, part |-> j, quantity |-> q]
    OBVIOUS
  <2>2. a.item = i /\ a.bom = v /\ a.part = j /\ a.quantity = q /\ q \in Nat
    BY <2>1, FamConstants
  <2>3. a \in LinesAdded(FamilyItems, 1)
    BY <2>1, <2>2 DEF LinesAdded
  <2>4. /\ \A t \in Planners : bomAdding[t] = NoLine
        /\ bomBoms[i][v].status = "draft" /\ bomBoms[i][v].lines[j] + q <= 1
        /\ ~Families!ClosesCycle(i, j)
        /\ bomAdding' = [bomAdding EXCEPT ![s] = a] /\ UNCHANGED <<bomBoms, bomOrders>>
    BY <1>2, <2>1, FamRows DEF Families!BeginAddLine
  <2>5. i # j /\ i \notin Down(FamilyItems, 1, bomBoms, j)
    BY <2>4, FamDown DEF Families!ClosesCycle
  <2>6. LineStands(FamilyItems, 1, 1, a)
    BY <2>2, <2>4, <2>5 DEF LineStands
  <2>7. LineBegins(FamilyItems, 1, 1, s, a)
    BY <2>3, <2>4, <2>6 DEF LineBegins
  <2> QED
    BY <1>1, <2>7, LineBeginKeeps DEF FamInv
<1>3. ASSUME Families!CommitAddLine(s) PROVE FamInv'
  <2>1. LineCommits(s)
    BY <1>3, FamRows DEF Families!CommitAddLine, LineCommits
  <2> QED
    BY <1>1, <2>1, LineCommitKeeps DEF FamInv
<1> QED
  BY <1>2, <1>3

LEMMA FamOrders ==
  ASSUME FamInv, NEW o \in BuildOrders, NEW i \in 1..FamilyItems, NEW units \in {1},
         Families!CreateWorkOrder(o, i, units)
  PROVE  FamInv'
<1>1. /\ BomInv(FamilyItems, 1, 1) /\ BomTypes(FamilyItems, 1, 1)
      /\ FamilyItems \in Nat /\ 1 \in Nat /\ units \in Nat
  BY FamConstants DEF FamInv, BomInv
<1>2. PICK v : v = Families!ReleasedBom(i)
  OBVIOUS
<1>3. v \in 1..1
  <2>1. v \in 0..1
    BY <1>1, <1>2, FamNewest DEF FamRel
  <2>2. v # 0
    BY <1>2 DEF Families!CreateWorkOrder
  <2> QED
    BY <1>1, <2>1, <2>2
<1>4. PICK row : row = [item |-> i, bom |-> v, units |-> units,
                        required |-> Families!Required(i, v, units), route |-> bomBoms[i][v].route]
  OBVIOUS
<1>5. bomOrders' = [bomOrders EXCEPT ![o] = row] /\ UNCHANGED <<bomBoms, bomAdding>>
  BY <1>2, <1>4 DEF Families!CreateWorkOrder
<1>6. bomBoms[i][v].route \in 0..RouteSteps
  <2>1. bomBoms[i][v] \in BomRowsOf(FamilyItems, 1)
    BY <1>1, <1>3 DEF BomTypes
  <2> QED
    BY <2>1 DEF BomRowsOf
<1>7. Families!Required(i, v, units) \in [1..FamilyItems -> Nat]
  BY <1>1, <1>3, FamRequired
<1>8. row \in BomOrdersOf(FamilyItems, 1)
  BY <1>1, <1>3, <1>4, <1>6, <1>7 DEF BomOrdersOf
<1>9. OrderIsRaised(FamilyItems, 1, o, row)
  BY <1>5, <1>8 DEF OrderIsRaised
<1> QED
  BY <1>1, <1>9, OrderKeeps DEF FamInv

LEMMA FamStep == FamInv /\ [Families!Next]_(Families!vars) => FamInv'
<1> SUFFICES ASSUME FamInv, [Families!Next]_(Families!vars) PROVE FamInv'
  OBVIOUS
<1>1. CASE \E i \in Families!Items : Families!CreateBom(i)
  <2>1. PICK i \in 1..FamilyItems : Families!CreateBom(i)
    BY <1>1, FamRows
  <2>2. PICK w \in 1..1 : TRUE
    BY <2>1, FamNext DEF Families!CreateBom, FamInv, BomInv
  <2> QED
    BY <2>1, <2>2, FamMakes
<1>2. CASE \E s \in Planners, i, j \in Families!Items, v \in Families!Versions, q \in {1} :
             Families!BeginAddLine(s, i, v, j, q)
  BY <1>2, FamRows, FamAdds
<1>3. CASE \E s \in Planners : Families!CommitAddLine(s)
  BY <1>3, FamAdds
<1>4. CASE \E i \in Families!Items, v \in Families!Versions :
             Families!AddOperation(i, v) \/ Families!Release(i, v) \/ Families!Revise(i, v)
  BY <1>4, FamRows, FamMakes
<1>5. CASE \E o \in BuildOrders, i \in Families!Items, units \in {1} :
             Families!CreateWorkOrder(o, i, units)
  BY <1>5, FamRows, FamOrders
<1>6. CASE UNCHANGED Families!vars
  BY <1>6, FamConstants, StillBills DEF Families!vars, FamInv
<1> QED
  BY <1>1, <1>2, <1>3, <1>4, <1>5, <1>6 DEF Families!Next

LEMMA FamStart == Families!Init => FamInv
<1> SUFFICES ASSUME Families!Init PROVE FamInv
  OBVIOUS
<1>1. PICK none : none = [j \in 1..FamilyItems |-> 0]
  OBVIOUS
<1>2. none \in [1..FamilyItems -> 0..1] /\ none \in [1..FamilyItems -> Nat]
  BY <1>1, FamConstants
<1>3. Families!NoBom = [status |-> "absent", lines |-> none, route |-> 0]
      /\ Families!NoOrder = [item |-> 0, bom |-> 0, units |-> 0, required |-> none, route |-> 0]
  BY <1>1 DEF Families!NoBom, Families!NoOrder, Families!NoLines, Families!Items
<1>4. Families!NoBom \in BomRowsOf(FamilyItems, 1)
      /\ Families!NoOrder \in BomOrdersOf(FamilyItems, 1)
      /\ NoLine \in LinesAdded(FamilyItems, 1)
  BY <1>2, <1>3, FamConstants DEF BomRowsOf, BomOrdersOf, LinesAdded, NoLine
<1>5. BomTypes(FamilyItems, 1, 1)
  BY <1>4, FamRows DEF Families!Init, BomTypes
<1>6. \A s \in Planners : bomAdding[s] = NoLine
  BY FamRows DEF Families!Init
<1>7. \A k, j \in 1..FamilyItems : ~Takes(1, bomBoms, k, j)
  <2> SUFFICES ASSUME NEW k \in 1..FamilyItems, NEW j \in 1..FamilyItems, NEW v \in 1..1
               PROVE  ~(bomBoms[k][v].lines[j] > 0)
    BY DEF Takes
  <2>1. bomBoms[k][v] = Families!NoBom
    BY FamRows DEF Families!Init
  <2>2. bomBoms[k][v].lines = none
    BY <1>3, <2>1
  <2>3. none[j] = 0
    BY <1>1
  <2> QED
    BY <2>2, <2>3
<1>8. Acyclic(FamilyItems, 1, bomBoms)
  <2> SUFFICES ASSUME NEW i \in 1..FamilyItems PROVE i \notin Down(FamilyItems, 1, bomBoms, i)
    BY DEF Acyclic
  <2>1. PICK Q : Q = {}
    OBVIOUS
  <2>2. Down(FamilyItems, 1, bomBoms, i) \subseteq Q
    BY <1>7, <2>1, FamConstants, DownIsLeast
  <2> QED
    BY <2>1, <2>2
<1> QED
  BY <1>5, <1>6, <1>8 DEF FamInv, BomInv

(* ------------------------------- the desks -------------------------------- *)

LEMMA DesksAreApart ==
  [Next]_vars =>
    /\ [Receiving!Next]_(Receiving!vars)
    /\ [Buying!Next]_(Buying!vars)
    /\ [Holding!Next]_(Holding!vars)
    /\ [Counting!Next]_(Counting!vars)
    /\ [Places!Next]_(Places!vars)
    /\ [Tracing!Next]_(Tracing!vars)
    /\ [Making!Next]_(Making!vars)
<1> SUFFICES ASSUME [Next]_vars
             PROVE  /\ [Receiving!Next]_(Receiving!vars)
                    /\ [Buying!Next]_(Buying!vars)
                    /\ [Holding!Next]_(Holding!vars)
                    /\ [Counting!Next]_(Counting!vars)
                    /\ [Places!Next]_(Places!vars)
                    /\ [Tracing!Next]_(Tracing!vars)
                    /\ [Making!Next]_(Making!vars)
  OBVIOUS
<1>1. /\ (recvVars' = recvVars => UNCHANGED Receiving!vars)
      /\ (buyVars' = buyVars => UNCHANGED Buying!vars)
      /\ (holdVars' = holdVars => UNCHANGED Holding!vars)
      /\ (countVars' = countVars => UNCHANGED Counting!vars)
      /\ (placeVars' = placeVars => UNCHANGED Places!vars)
      /\ (traceVars' = traceVars => UNCHANGED Tracing!vars)
      /\ (makeVars' = makeVars => UNCHANGED Making!vars)
  BY DEF recvVars, buyVars, holdVars, countVars, placeVars, traceVars, makeVars, Receiving!vars,
         Buying!vars, Holding!vars, Counting!vars, Places!vars, Tracing!vars, Making!vars
<1>2. CASE ReceivingWork
  BY <1>1, <1>2 DEF ReceivingWork
<1>3. CASE BuyingWork
  BY <1>1, <1>3 DEF BuyingWork
<1>4. CASE HoldingWork
  BY <1>1, <1>4 DEF HoldingWork
<1>5. CASE CountingWork
  BY <1>1, <1>5 DEF CountingWork
<1>6. CASE MakingWork
  BY <1>1, <1>6 DEF MakingWork
<1>7. CASE PlacesWork
  BY <1>1, <1>7 DEF PlacesWork
<1>8. CASE TracingWork
  BY <1>1, <1>8 DEF TracingWork
<1>9. CASE BillsWork \/ FamiliesWork \/ PlanningWork
  <2>1. /\ recvVars' = recvVars /\ buyVars' = buyVars /\ holdVars' = holdVars
        /\ countVars' = countVars /\ placeVars' = placeVars /\ traceVars' = traceVars
        /\ makeVars' = makeVars
    BY <1>9 DEF BillsWork, FamiliesWork, PlanningWork
  <2> QED
    BY <1>1, <2>1
<1>10. CASE UNCHANGED vars
  <2>1. /\ recvVars' = recvVars /\ buyVars' = buyVars /\ holdVars' = holdVars
        /\ countVars' = countVars /\ placeVars' = placeVars /\ traceVars' = traceVars
        /\ makeVars' = makeVars
    BY <1>10 DEF vars
  <2> QED
    BY <1>1, <2>1
<1> QED
  BY <1>2, <1>3, <1>4, <1>5, <1>6, <1>7, <1>8, <1>9, <1>10 DEF Next

LEMMA FactoryIsApart ==
  [Next]_vars =>
    /\ desk' = desk
    /\ [Planning!Next]_(Planning!vars)
    /\ (desk # "families" => [Bills!Next]_(Bills!vars))
    /\ (desk = "families" => [Families!Next]_(Families!vars))
<1> SUFFICES ASSUME [Next]_vars
             PROVE  /\ desk' = desk
                    /\ [Planning!Next]_(Planning!vars)
                    /\ (desk # "families" => [Bills!Next]_(Bills!vars))
                    /\ (desk = "families" => [Families!Next]_(Families!vars))
  OBVIOUS
<1>1. /\ (planVars' = planVars => UNCHANGED Planning!vars)
      /\ (bomVars' = bomVars => UNCHANGED Bills!vars /\ UNCHANGED Families!vars)
  BY DEF planVars, bomVars, Planning!vars, Bills!vars, Families!vars
<1>2. CASE ReceivingWork \/ BuyingWork \/ HoldingWork \/ CountingWork \/ PlacesWork
           \/ TracingWork \/ MakingWork
  <2>1. desk' = desk /\ planVars' = planVars /\ bomVars' = bomVars
    BY <1>2 DEF ReceivingWork, BuyingWork, HoldingWork, CountingWork, PlacesWork, TracingWork,
                MakingWork
  <2> QED
    BY <1>1, <2>1
<1>3. CASE BillsWork
  BY <1>1, <1>3 DEF BillsWork
<1>4. CASE FamiliesWork
  BY <1>1, <1>4 DEF FamiliesWork
<1>5. CASE PlanningWork
  BY <1>1, <1>5 DEF PlanningWork
<1>6. CASE UNCHANGED vars
  <2>1. desk' = desk /\ planVars' = planVars /\ bomVars' = bomVars
    BY <1>6 DEF vars
  <2> QED
    BY <1>1, <2>1
<1> QED
  BY <1>2, <1>3, <1>4, <1>5, <1>6 DEF Next

(* The bills of the desk that keeps them.                                      *)
BomsStand == /\ (desk # "families" => BillInv)
             /\ (desk = "families" => FamInv)

LEMMA BomsStart == Init => BomsStand
BY BillStart, FamStart DEF Init, BomsStand

LEMMA BomsStep == BomsStand /\ [Next]_vars => BomsStand'
BY FactoryIsApart, BillStep, FamStep DEF BomsStand

(* What each desk keeps, however many people post receipts and counts.         *)
RowsStand ==
  /\ desk \in Desks
  /\ RecvRowsInv /\ BuyInv /\ HoldInv /\ CountRowsInv /\ PlaceInv /\ TraceInv
  /\ BomsStand /\ PlanInv /\ MakeInv

LEMMA RowsStart == Init => RowsStand
BY RecvRowsStart, BuyStart, HoldInit, CountRowsStart, PlaceStart, TraceStart, BomsStart, PlanStart,
   MakeStart
   DEF Init, RowsStand

LEMMA RowsStep == RowsStand /\ [Next]_vars => RowsStand'
<1> SUFFICES ASSUME RowsStand, [Next]_vars PROVE RowsStand'
  OBVIOUS
<1>1. RecvRowsInv' /\ BuyInv' /\ HoldInv' /\ CountRowsInv'
  BY DesksAreApart, RecvRowsStep, BuyStep, HoldStep, CountRowsStep DEF RowsStand
<1>2. PlaceInv' /\ TraceInv' /\ MakeInv'
  BY DesksAreApart, PlaceStep, TraceStep, MakeStep DEF RowsStand
<1>3. PlanInv' /\ BomsStand' /\ desk' = desk
  BY FactoryIsApart, PlanStep, BomsStep DEF RowsStand
<1> QED
  BY <1>1, <1>2, <1>3 DEF RowsStand

(* -------------------------------- theorems -------------------------------- *)

(* However sweeps, new matches, holds and releases meet or fail, an invoice    *)
(* has one open hold at most, the one a request is writing included            *)
(* (app/matching.py: the partial unique index, and who catches what it        *)
(* refuses).                                                                   *)
THEOREM HoldsStaySingle == Spec => []HoldsAreSingle
<1>1. Init => HoldInv
  BY HoldInit DEF Init
<1>2. HoldInv /\ [Next]_vars => HoldInv'
  BY DesksAreApart, HoldStep
<1>3. HoldInv => HoldsAreSingle
  BY HoldInvSuffices DEF HoldsAreSingle
<1> QED
  BY <1>1, <1>2, <1>3, PTL DEF Spec

(* A supplier answers an rfq once, whoever sends it in; what is awarded stays  *)
(* within what was asked for, or an order says why not, however orders are     *)
(* refused or amended meanwhile; nobody a document names is retired            *)
(* (app/procurement/rfq.py, orders.py, suppliers.py).                          *)
THEOREM SourcingStands == Spec => []SourcingHolds
<1>1. Init => BuyInv
  BY BuyStart DEF Init
<1>2. BuyInv /\ [Next]_vars => BuyInv'
  BY DesksAreApart, BuyStep
<1>3. BuyInv => SourcingHolds
  BY BuyInvSuffices DEF SourcingHolds
<1> QED
  BY <1>1, <1>2, <1>3, PTL DEF Spec

(* Where one person at a time posts receipts, an order knows what arrived      *)
(* against it through all its amendments, an over-receipt states a reason and  *)
(* what is closed is complete (app/procurement/receipts.py, orders.py).        *)
THEOREM OrdersTellArrived ==
  ASSUME OneClerk
  PROVE  Spec => []OrderTellsArrived
<1>1. Init => RecvInv
  BY RecvStart DEF Init
<1>2. RecvInv /\ [Next]_vars => RecvInv'
  BY DesksAreApart, RecvStep
<1>3. RecvInv => OrderTellsArrived
  BY RecvInvSuffices DEF OrderTellsArrived
<1> QED
  BY <1>1, <1>2, <1>3, PTL DEF Spec

(* Where one person at a time posts counts, a posting leaves in the bin what   *)
(* was counted, and posts no value from the threshold on that nobody approved  *)
(* (app/stock/counts.py).                                                      *)
THEOREM CountsAreHeld ==
  ASSUME OneClerk
  PROVE  Spec => CountsHold
<1>1. Init => CountInv
  BY CountStart DEF Init
<1>2. CountInv /\ [Next]_vars => CountInv'
  BY DesksAreApart, CountStep
<1>3. CountInv /\ [Next]_vars => [CountedNow]_(Counting!vars) /\ [ApprovedNow]_(Counting!vars)
  BY DesksAreApart, CountsAreRight
<1>4. /\ CountedNow <=>
           \A c \in Counts : countPosts'[c] > countPosts[c] => countHeld' = countCount[c].found
      /\ ApprovedNow <=>
           \A s \in Clerks :
             (countTx[s].at = "commit" /\ countTx'[s] = Counting!Idle /\ countPosts' # countPosts
                /\ Counting!Size(countTx[s].value) >= Threshold)
               => countRequest[countTx[s].count].state = "approved"
  BY DEF CountedNow, ApprovedNow
<1> QED
  BY <1>1, <1>2, <1>3, <1>4, PTL
     DEF Spec, CountsHold, Counting!CountedIsOnHand, Counting!ApprovedFirst

(* The ledger holds one of a serial unit where its row says it stands and none *)
(* elsewhere, all stock stands at live places of a whole tree, however          *)
(* movements of one unit meet; and a recall names every customer of a batch or *)
(* of what it became, and every supplier of what it was made of                *)
(* (app/stock/serials.py, locations.py, trace.py).                             *)
THEOREM StockStaysTraceable == Spec => []StockIsTraceable
<1>1. Init => PlaceInv /\ TraceInv
  BY PlaceStart, TraceStart DEF Init
<1>2. PlaceInv /\ TraceInv /\ [Next]_vars => PlaceInv' /\ TraceInv'
  BY DesksAreApart, PlaceStep, TraceStep
<1>3. PlaceInv /\ TraceInv => StockIsTraceable
  BY PlaceInvSuffices, TraceInvSuffices DEF StockIsTraceable
<1> QED
  BY <1>1, <1>2, <1>3, PTL DEF Spec

(* While material is issued, time booked and output received by one request   *)
(* at a time: the output of a work order is covered by the material issued to *)
(* it, excess of material and of time has an owner, and work in progress is   *)
(* what was issued and not received. Costings may overlap each other and all  *)
(* of these: one entry posts the material and the labour of the order         *)
(* (app/manufacturing/receipts.py, issues.py, job_cards.py, costing.py).      *)
THEOREM OrdersStayAccounted == Spec => []OrdersAreAccounted
<1>1. Init => MakeInv
  BY MakeStart DEF Init
<1>2. MakeInv /\ [Next]_vars => MakeInv'
  BY DesksAreApart, MakeStep
<1>3. MakeInv => OrdersAreAccounted
  BY MakeInvSuffices DEF OrdersAreAccounted
<1> QED
  BY <1>1, <1>2, <1>3, PTL DEF Spec

(* Stock, orders under way and what is planned cover a unit of demand once,   *)
(* what no period has room for is reported, and every bill there is explodes: *)
(* whatever is revised, released or added in whatever order, no item is made  *)
(* of itself. While planners convert one suggestion at a time, of the newest  *)
(* run and between runs, none is built twice for one demand                   *)
(* (app/manufacturing/mrp.py, mrp_output.py, bom.py).                         *)
THEOREM PlansAlwaysHold == Spec => []PlansHold
<1>1. Init => PlanInv /\ BomsStand
  BY PlanStart, BomsStart DEF Init
<1>2. PlanInv /\ BomsStand /\ [Next]_vars => PlanInv' /\ BomsStand'
  BY FactoryIsApart, PlanStep, BomsStep
<1>3. PlanInv /\ BomsStand => PlansHold
  <2>1. PlanInv => /\ Planning!NothingCoversTwice
                   /\ Planning!OverloadIsReported
                   /\ Planning!NothingBuiltTwice
    BY PlanInvSuffices
  <2>2. BomsStand => /\ (desk = "bills" => Bills!EveryBillExplodes)
                     /\ (desk = "families" => Families!EveryBillExplodes)
    BY BillInvSuffices, FamInvSuffices DEF BomsStand
  <2> QED
    BY <2>1, <2>2 DEF PlansHold
<1> QED
  BY <1>1, <1>2, <1>3, PTL DEF Spec

(* Every row of every desk of the supply side keeps its type, however many     *)
(* people post receipts and counts at once.                                    *)
THEOREM SupplyRowsTyped == Spec => []TypeOK
<1>1. RowsStand => TypeOK
  <2> SUFFICES ASSUME RowsStand PROVE TypeOK
    OBVIOUS
  <2>1. Receiving!TypeOK /\ Counting!TypeOK
    BY RecvRowsSuffice DEF RowsStand, CountRowsInv
  <2>2. Buying!TypeOK /\ Holding!TypeOK /\ Places!TypeOK /\ Tracing!TypeOK /\ Making!TypeOK
    BY MakeIsTyped DEF RowsStand, BuyInv, HoldInv, PlaceInv, TraceInv
  <2>3. Planning!TypeOK
    BY PlanIsTyped DEF RowsStand
  <2>4. (desk # "families" => Bills!TypeOK) /\ (desk = "families" => Families!TypeOK)
    BY BillInvSuffices, FamInvSuffices DEF RowsStand, BomsStand
  <2> QED
    BY <2>1, <2>2, <2>3, <2>4 DEF RowsStand, TypeOK
<1> QED
  BY <1>1, RowsStart, RowsStep, PTL DEF Spec

==============================================================================
