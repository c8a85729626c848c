--------------------------- MODULE PayablesProofs ---------------------------
(* No invoice is ever settled for more than it is for, no batch pays more     *)
(* than what was approved, and the control account follows the documents,     *)
(* whatever number of sessions work on the batches, in any interleaving.      *)
EXTENDS Payables, FiniteSetTheorems, TLAPS

(* Nothing is settled and nothing is open.                                    *)
LEMMA InitInv == Init => SettlementInv
<1> SUFFICES ASSUME Init PROVE SettlementInv
  OBVIOUS
<1>1. Money
  BY InvoiceAssumption, FreeAssumption
     DEF Init, Money, MoneyTypes, SettlementIsLocked, SettledWithinGross, NoPending
<1>2. RequestTypes
  BY DEF Init, RequestTypes, Closed, NoBatch, NoPending, None, Lines
<1> QED
  BY <1>1, <1>2 DEF SettlementInv

(* Ending a transaction, kept or not, keeps what the other sessions settle.   *)
LEMMA EndMoney ==
  ASSUME Money, NEW s \in Sessions, End(s),
         \/ settled' = settled
         \/ settled' = [i \in Invoices |-> settled[i] + pend[s][i]]
         \/ \E j \in Invoices : settled' = [settled EXCEPT ![j] = @ + pend[s][j]]
  PROVE  Money'
<1> USE DEF Money, MoneyTypes
<1>1. MoneyTypes'
  <2>1. settled' \in [Invoices -> Nat]
    OBVIOUS
  <2>2. pend' \in [Sessions -> [Invoices -> Nat]]
    BY DEF End, NoPending
  <2>3. rowLock' \in [Invoices -> Sessions \cup {Free}]
    BY DEF End
  <2> QED
    BY <2>1, <2>2, <2>3
<1>2. SettlementIsLocked'
  <2> SUFFICES ASSUME NEW t \in Sessions, NEW i \in Invoices
               PROVE  /\ pend'[t][i] > 0 => rowLock'[i] = t
                      /\ settled'[i] + pend'[t][i] <= Gross[i]
    BY DEF SettlementIsLocked
  <2>1. /\ settled[i] \in Nat /\ pend[s][i] \in Nat /\ pend[t][i] \in Nat /\ Gross[i] \in Nat
        /\ settled[i] + pend[s][i] <= Gross[i] /\ settled[i] + pend[t][i] <= Gross[i]
        /\ pend[s][i] > 0 => rowLock[i] = s
        /\ pend[t][i] > 0 => rowLock[i] = t
    BY InvoiceAssumption DEF SettlementIsLocked
  <2>2. settled'[i] = settled[i] \/ settled'[i] = settled[i] + pend[s][i]
    OBVIOUS
  <2>3. CASE t = s
    <3>1. pend'[t][i] = 0
      BY <2>3 DEF End, NoPending
    <3> QED
      BY <2>1, <2>2, <3>1
  <2>4. CASE t # s
    <3>1. pend'[t][i] = pend[t][i]
      BY <2>4 DEF End
    <3>2. pend[t][i] > 0 => pend[s][i] = 0 /\ rowLock'[i] = t
      BY <2>1, <2>4 DEF End
    <3> QED
      BY <2>1, <2>2, <3>1, <3>2
  <2> QED
    BY <2>3, <2>4
<1>3. SettledWithinGross'
  BY InvoiceAssumption DEF SettlementIsLocked, SettledWithinGross
<1> QED
  BY <1>1, <1>2, <1>3

(* A settlement locks the row and stays within what is open on it.            *)
LEMMA SettleMoney ==
  ASSUME Money, NEW s \in Sessions, NEW i \in Invoices, NEW amount \in Int,
         Settle(s, i, amount), settled' = settled
  PROVE  Money'
<1> USE DEF Money, MoneyTypes
<1>0. settled[i] \in Nat /\ pend[s][i] \in Nat /\ Gross[i] \in Nat
  BY InvoiceAssumption
<1>1. /\ amount > 0 /\ amount \in Nat
      /\ rowLock[i] \in {Free, s}
      /\ settled[i] + pend[s][i] + amount <= Gross[i]
      /\ settled[i] \in Nat /\ pend[s][i] \in Nat /\ Gross[i] \in Nat
  BY <1>0 DEF Settle, OpenAmount
<1>2. MoneyTypes'
  BY <1>1 DEF Settle
<1>3. SettlementIsLocked'
  <2> SUFFICES ASSUME NEW t \in Sessions, NEW j \in Invoices
               PROVE  /\ pend'[t][j] > 0 => rowLock'[j] = t
                      /\ settled'[j] + pend'[t][j] <= Gross[j]
    BY DEF SettlementIsLocked
  <2>1. CASE t = s /\ j = i
    <3>1. pend'[t][j] = pend[s][i] + amount /\ rowLock'[j] = s
      BY <1>1, <2>1 DEF Settle
    <3> QED
      BY <1>1, <2>1, <3>1
  <2>2. CASE t # s /\ j = i
    <3>1. pend'[t][j] = pend[t][i] /\ pend[t][i] \in Nat
      BY <2>2 DEF Settle
    <3>2. rowLock[i] # t
      BY <1>1, <2>2, FreeAssumption
    <3>3. pend[t][i] = 0
      BY <3>1, <3>2 DEF SettlementIsLocked
    <3> QED
      BY <1>1, <2>2, <3>1, <3>3
  <2>3. CASE j # i
    <3>1. pend'[t][j] = pend[t][j] /\ rowLock'[j] = rowLock[j]
      BY <2>3 DEF Settle
    <3> QED
      BY <3>1 DEF SettlementIsLocked
  <2> QED
    BY <2>1, <2>2, <2>3
<1>4. SettledWithinGross'
  BY DEF SettledWithinGross
<1> QED
  BY <1>2, <1>3, <1>4

(* A step that touches no settlement and no row lock.                         *)
LEMMA QuietMoney ==
  ASSUME Money, settled' = settled, pend' = pend, rowLock' = rowLock
  PROVE  Money'
BY DEF Money, MoneyTypes, SettlementIsLocked, SettledWithinGross

(* A request is opened with a well-typed copy of the row it loaded.           *)
LEMMA OpenTypes ==
  ASSUME RequestTypes, NEW s \in Sessions, NEW op \in Operations, NEW doc, NEW copy, NEW fresh,
         Open(s, op, doc, copy, fresh), copy.lines \in Lines,
         op \in {"create", "remove", "submit", "decide", "execute"} => doc \in Batches,
         op = "note" => doc \in Notes
  PROVE  RequestTypes'
<1>1. /\ batch' = batch
      /\ tx' = [tx EXCEPT ![s] = [op |-> op, doc |-> doc, copy |-> copy, fresh |-> fresh,
                                  at |-> None, ran |-> {}, due |-> 0]]
  BY DEF Open, documents
<1>2. \A t \in Sessions : t # s => tx'[t] = tx[t]
  BY <1>1 DEF RequestTypes
<1>3. /\ tx'[s].at = None /\ tx'[s].due = 0 /\ tx'[s].copy = copy
      /\ tx'[s].op = op /\ tx'[s].doc = doc
  BY <1>1 DEF RequestTypes
<1>4. tx' = [t \in Sessions |-> tx'[t]]
  BY <1>1 DEF RequestTypes
<1> QED
  BY <1>1, <1>2, <1>3, <1>4 DEF RequestTypes

(* A request that goes on keeps the document and the copy it has.             *)
LEMMA GoOnTypes ==
  ASSUME RequestTypes, NEW s \in Sessions, NEW at \in Invoices \cup {None}, NEW ran,
         NEW due \in Int, GoOn(s, at, ran, due), batch' = batch
  PROVE  RequestTypes'
<1>1. \A t \in Sessions : t # s => tx'[t] = tx[t]
  BY DEF RequestTypes, GoOn
<1>2. /\ tx'[s].at = at /\ tx'[s].due = due /\ tx'[s].copy = tx[s].copy
      /\ tx'[s].op = tx[s].op /\ tx'[s].doc = tx[s].doc
  BY DEF RequestTypes, GoOn
<1>3. tx' = [t \in Sessions |-> tx'[t]]
  BY DEF RequestTypes, GoOn
<1> QED
  BY <1>1, <1>2, <1>3 DEF RequestTypes

(* A request that ends may have written one well-typed batch row.             *)
LEMMA EndTypes ==
  ASSUME RequestTypes, NEW s \in Sessions, End(s),
         \/ batch' = batch
         \/ \E b \in Batches : \E row : Write(b, row) /\ row.lines \in Lines
  PROVE  RequestTypes'
<1>1. tx' = [tx EXCEPT ![s] = Closed]
  BY DEF End
<1>2. /\ Closed.at = None /\ Closed.due = 0 /\ Closed.copy.lines \in Lines /\ Closed.op = None
  BY DEF Closed, NoBatch, NoPending, Lines
<1>3. None \notin {"create", "remove", "submit", "decide", "execute", "note"}
  BY DEF None
<1>4. batch' = [b \in Batches |-> batch'[b]] /\ \A b \in Batches : batch'[b].lines \in Lines
  BY DEF RequestTypes, Write
<1> QED
  BY <1>1, <1>2, <1>3, <1>4 DEF RequestTypes

(* Opening a request moves no money.                                          *)
LEMMA OpenInv ==
  ASSUME SettlementInv, NEW s \in Sessions, NEW op \in Operations, NEW doc, NEW copy, NEW fresh,
         Open(s, op, doc, copy, fresh), copy.lines \in Lines,
         op \in {"create", "remove", "submit", "decide", "execute"} => doc \in Batches,
         op = "note" => doc \in Notes
  PROVE  SettlementInv'
<1>1. RequestTypes'
  BY OpenTypes DEF SettlementInv
<1>2. Money'
  BY QuietMoney DEF SettlementInv, Open, documents
<1> QED
  BY <1>1, <1>2 DEF SettlementInv

(* A batch built from open amounts has well-typed lines.                      *)
LEMMA StartInv ==
  ASSUME SettlementInv, NEW s \in Sessions,
         \/ \E i \in Invoices : StartPost(s, i)
         \/ \E b \in Batches, selection \in Selections : StartCreate(s, b, selection)
         \/ \E b \in Batches, op \in Operations : StartBatch(s, op, b)
         \/ \E n \in Notes : StartNote(s, n)
  PROVE  SettlementInv'
<1>1. NoBatch.lines \in Lines
  BY DEF NoBatch, NoPending, Lines
<1>2. ASSUME NEW i \in Invoices, StartPost(s, i) PROVE SettlementInv'
  BY <1>1, <1>2, OpenInv DEF StartPost, Operations
<1>3. ASSUME NEW b \in Batches, NEW selection \in Selections, StartCreate(s, b, selection)
      PROVE  SettlementInv'
  <2> DEFINE lines == [i \in Invoices |-> IF i \in selection THEN Gross[i] - settled[i] ELSE 0]
             copy == [status |-> "draft", lines |-> lines, total |-> Total(lines), routed |-> 0]
  <2>1. lines \in Lines
    BY InvoiceAssumption DEF SettlementInv, Money, MoneyTypes, SettledWithinGross, Lines
  <2>2. Open(s, "create", b, copy, batch[b].status = "none")
    BY <1>3 DEF StartCreate
  <2>3. copy.lines \in Lines
    BY <2>1
  <2>4. "create" \in Operations
    BY DEF Operations
  <2> HIDE DEF copy
  <2> QED
    BY <2>2, <2>3, <2>4, OpenInv
<1>4. ASSUME NEW b \in Batches, NEW op \in Operations, StartBatch(s, op, b)
      PROVE  SettlementInv'
  <2>1. batch[b].lines \in Lines
    BY DEF SettlementInv, RequestTypes
  <2>2. Open(s, op, b, batch[b], TRUE) /\ op # "note"
    BY <1>4 DEF StartBatch
  <2> QED
    BY <2>1, <2>2, OpenInv
<1>5. ASSUME NEW n \in Notes, StartNote(s, n) PROVE SettlementInv'
  BY <1>1, <1>5, OpenInv DEF StartNote, Operations
<1> QED
  BY <1>2, <1>3, <1>4, <1>5

(* The requests that end without a settlement of their own.                   *)
LEMMA EndQuietInv ==
  ASSUME SettlementInv, NEW s \in Sessions, End(s), settled' = settled,
         \/ batch' = batch
         \/ \E b \in Batches : \E row : Write(b, row) /\ row.lines \in Lines
  PROVE  SettlementInv'
BY EndMoney, EndTypes DEF SettlementInv

(* The batch an open request is about, and the lines it may write back.       *)
LEMMA BatchOfRequest ==
  ASSUME SettlementInv, NEW s \in Sessions, NEW op,
         op \in {"create", "remove", "submit", "decide", "execute"}, Working(s, op)
  PROVE  /\ tx[s].doc \in Batches
         /\ batch[tx[s].doc].lines \in Lines
         /\ tx[s].copy.lines \in Lines
         /\ \A i \in Invoices : Without(batch[tx[s].doc].lines, i) \in Lines
BY DEF SettlementInv, RequestTypes, Working, Without, Lines

(* Writing a batch row moves no money.                                        *)
LEMMA WriteBatchInv ==
  ASSUME SettlementInv, NEW s \in Sessions,
         \/ Create(s)
         \/ \E i \in Invoices : RemoveLine(s, i)
         \/ Submit(s)
         \/ \E outcome \in Outcomes : Decide(s, outcome)
  PROVE  SettlementInv'
<1>1. CASE Create(s)
  <2>1. tx[s].doc \in Batches /\ tx[s].copy.lines \in Lines
    BY <1>1, BatchOfRequest DEF Create
  <2> QED
    BY <1>1, <2>1, EndQuietInv DEF Create
<1>2. ASSUME NEW i \in Invoices, RemoveLine(s, i) PROVE SettlementInv'
  <2> DEFINE b == tx[s].doc
             row == [status |-> batch[b].status, lines |-> Without(batch[b].lines, i),
                     total |-> Total(Without(tx[s].copy.lines, i)), routed |-> batch[b].routed]
  <2>1. b \in Batches /\ row.lines \in Lines
    BY <1>2, BatchOfRequest DEF RemoveLine
  <2>2. Write(b, row) /\ End(s) /\ settled' = settled
    BY <1>2 DEF RemoveLine
  <2> HIDE DEF b, row
  <2> QED
    BY <2>1, <2>2, EndQuietInv
<1>3. CASE Submit(s)
  <2> DEFINE b == tx[s].doc
             row == [status |-> IF tx[s].copy.total >= ApprovalFrom THEN "pending" ELSE "approved",
                     lines |-> batch[b].lines, total |-> batch[b].total,
                     routed |-> tx[s].copy.total]
  <2>1. b \in Batches /\ row.lines \in Lines
    BY <1>3, BatchOfRequest DEF Submit
  <2>2. Write(b, row) /\ End(s) /\ settled' = settled
    BY <1>3 DEF Submit
  <2> HIDE DEF b, row
  <2> QED
    BY <2>1, <2>2, EndQuietInv
<1>4. ASSUME NEW outcome \in Outcomes, Decide(s, outcome) PROVE SettlementInv'
  <2> DEFINE b == tx[s].doc
             row == [status |-> outcome, lines |-> batch[b].lines, total |-> batch[b].total,
                     routed |-> batch[b].routed]
  <2>1. b \in Batches /\ row.lines \in Lines
    BY <1>4, BatchOfRequest DEF Decide
  <2>2. Write(b, row) /\ End(s) /\ settled' = settled
    BY <1>4 DEF Decide
  <2> HIDE DEF b, row
  <2> QED
    BY <2>1, <2>2, EndQuietInv
<1> QED
  BY <1>1, <1>2, <1>3, <1>4

(* An execution settles what it has flushed, and marks the batch.             *)
LEMMA ExecuteInv ==
  ASSUME SettlementInv, NEW s \in Sessions, Execute(s)
  PROVE  SettlementInv'
<1> DEFINE b == tx[s].doc
           row == [status |-> "executed", lines |-> batch[b].lines, total |-> batch[b].total,
                   routed |-> batch[b].routed]
<1>1. b \in Batches /\ row.lines \in Lines
  BY BatchOfRequest DEF Execute, Executing
<1>2. /\ Write(b, row) /\ End(s)
      /\ settled' = [i \in Invoices |-> settled[i] + pend[s][i]]
  BY DEF Execute
<1> HIDE DEF b, row
<1> QED
  BY <1>1, <1>2, EndMoney, EndTypes DEF SettlementInv

(* The steps that go on within a request: a check, or one settlement.         *)
LEMMA CheckInv ==
  ASSUME SettlementInv, NEW s \in Sessions,
         CheckNote(s) \/ \E i \in Invoices : CheckHold(s, i)
  PROVE  SettlementInv'
<1>1. ASSUME NEW i \in Invoices, CheckHold(s, i) PROVE SettlementInv'
  <2>1. /\ GoOn(s, i, tx[s].ran, tx[s].due) /\ batch' = batch /\ tx[s].due \in Int
        /\ settled' = settled /\ pend' = pend /\ rowLock' = rowLock
    BY <1>1 DEF CheckHold, documents, SettlementInv, RequestTypes
  <2> QED
    BY <2>1, GoOnTypes, QuietMoney DEF SettlementInv
<1>2. CASE CheckNote(s)
  <2> DEFINE i == NoteOf[tx[s].doc]
  <2>1. i \in Invoices
    BY <1>2, NoteAssumption, InvoiceAssumption
       DEF CheckNote, Working, SettlementInv, RequestTypes
  <2>2. Gross[i] - settled[i] \in Int
    BY <2>1, InvoiceAssumption DEF SettlementInv, Money, MoneyTypes
  <2>3. /\ GoOn(s, i, {}, Gross[i] - settled[i]) /\ batch' = batch
        /\ settled' = settled /\ pend' = pend /\ rowLock' = rowLock
    BY <1>2 DEF CheckNote, documents
  <2> QED
    BY <2>1, <2>2, <2>3, GoOnTypes, QuietMoney DEF SettlementInv
<1> QED
  BY <1>1, <1>2

(* One line of a batch is paid: its invoice is locked and settled.            *)
LEMMA PayLineInv ==
  ASSUME SettlementInv, NEW s \in Sessions, PayLine(s)
  PROVE  SettlementInv'
<1> DEFINE i == tx[s].at
           amount == tx[s].copy.lines[i]
<1>1. i \in Invoices
  BY DEF PayLine, SettlementInv, RequestTypes
<1>2. amount \in Int /\ tx[s].due \in Int
  BY <1>1 DEF SettlementInv, RequestTypes, Lines
<1>3. /\ Settle(s, i, amount) /\ GoOn(s, None, tx[s].ran \cup {i}, tx[s].due)
      /\ batch' = batch /\ settled' = settled
  BY DEF PayLine, documents
<1>4. RequestTypes'
  BY <1>2, <1>3, GoOnTypes DEF SettlementInv
<1> HIDE DEF i, amount
<1>5. Money'
  BY <1>1, <1>2, <1>3, SettleMoney DEF SettlementInv
<1> QED
  BY <1>4, <1>5 DEF SettlementInv

(* A note settles its invoice the same way.                                   *)
LEMMA SettleNoteInv ==
  ASSUME SettlementInv, NEW s \in Sessions, SettleNote(s)
  PROVE  SettlementInv'
<1> DEFINE i == tx[s].at
           amount == Lesser(NoteGross[tx[s].doc], tx[s].due)
<1>1. i \in Invoices
  BY DEF SettleNote, SettlementInv, RequestTypes
<1>2. amount \in Int /\ tx[s].due \in Int
  BY NoteAssumption DEF SettleNote, Working, Lesser, SettlementInv, RequestTypes
<1>3. /\ Settle(s, i, amount) /\ GoOn(s, None, {i}, tx[s].due)
      /\ batch' = batch /\ settled' = settled
  BY DEF SettleNote, documents
<1>4. RequestTypes'
  BY <1>2, <1>3, GoOnTypes DEF SettlementInv
<1> HIDE DEF i, amount
<1>5. Money'
  BY <1>1, <1>2, <1>3, SettleMoney DEF SettlementInv
<1> QED
  BY <1>4, <1>5 DEF SettlementInv

(* A posted note settles what it flushed on its invoice.                      *)
LEMMA PostNoteInv ==
  ASSUME SettlementInv, NEW s \in Sessions, PostNote(s)
  PROVE  SettlementInv'
<1>1. NoteOf[tx[s].doc] \in Invoices
  BY NoteAssumption, InvoiceAssumption DEF PostNote, Working, SettlementInv, RequestTypes
<1>2. PICK i \in Invoices : i = NoteOf[tx[s].doc]
  BY <1>1
<1>3. End(s) /\ batch' = batch /\ settled' = [settled EXCEPT ![i] = @ + pend[s][i]]
  BY <1>2 DEF PostNote
<1>4. Money'
  BY <1>3, EndMoney DEF SettlementInv
<1>5. RequestTypes'
  BY <1>3, EndTypes DEF SettlementInv
<1> QED
  BY <1>4, <1>5 DEF SettlementInv

(* Every step keeps the invariant.                                            *)
LEMMA NextInv == SettlementInv /\ [Next]_vars => SettlementInv'
<1> SUFFICES ASSUME SettlementInv, [Next]_vars PROVE SettlementInv'
  OBVIOUS
<1>1. CASE UNCHANGED vars \/ Ship \/ \E i \in Invoices : Hold(i) \/ Release(i)
  <2>1. /\ settled' = settled /\ pend' = pend /\ rowLock' = rowLock
        /\ tx' = tx /\ batch' = batch
    BY <1>1 DEF vars, Ship, Hold, Release, documents
  <2> QED
    BY <2>1, QuietMoney DEF SettlementInv, RequestTypes
<1>2. ASSUME NEW s \in Sessions, PostInvoice(s) \/ Rollback(s) PROVE SettlementInv'
  BY <1>2, EndQuietInv DEF PostInvoice, Rollback, documents
<1> QED
  BY <1>1, <1>2, StartInv, WriteBatchInv, ExecuteInv, CheckInv, PayLineInv, SettleNoteInv, PostNoteInv
  DEF Next

(* The invariant holds of every behaviour of the payables.                    *)
THEOREM SettlementInvariant == Spec => []SettlementInv
<1> QED
  BY InitInv, NextInv, PTL DEF Spec

(* No interleaving of payment batches and debit notes settles an invoice for  *)
(* more than its gross amount.                                                *)
THEOREM NeverOverSettled == Spec => []SettledWithinGross
<1>1. SettlementInv => SettledWithinGross
  BY DEF SettlementInv, Money
<1> QED
  BY <1>1, SettlementInvariant, PTL

(* The ceiling checked under the row lock holds until the commit, and only    *)
(* the holder of the lock has unsettled work.                                 *)
THEOREM LockedUntilCommit == Spec => []SettlementIsLocked
<1>1. SettlementInv => SettlementIsLocked
  BY DEF SettlementInv, Money
<1> QED
  BY <1>1, SettlementInvariant, PTL

(* ------------------------------- what sums do ----------------------------- *)

(* What is summed is finite, so the sum is a number.                          *)
LEMMA UnitsAreFinite ==
  ASSUME NEW D, IsFiniteSet(D), NEW f \in [D -> Nat]
  PROVE  IsFiniteSet(Units(f)) /\ Total(f) \in Nat
<1> DEFINE Parts == {UnitsOf(f, x) : x \in D}
           part == [x \in D |-> UnitsOf(f, x)]
<1>1. part \in Surjection(D, Parts)
  BY DEF Surjection
<1>2. IsFiniteSet(Parts)
  BY <1>1, FS_Surjection
<1>3. ASSUME NEW x \in D PROVE IsFiniteSet(UnitsOf(f, x))
  <2>1. 1 \in Int /\ f[x] \in Int
    OBVIOUS
  <2>2. IsFiniteSet(1..f[x])
    BY ONLY <2>1, FS_Interval, Zenon
  <2>3. IsFiniteSet({x})
    BY FS_Singleton
  <2> QED
    BY <2>2, <2>3, FS_Product DEF UnitsOf
<1>4. \A T \in Parts : IsFiniteSet(T)
  BY <1>3
<1> HIDE DEF Parts
<1>5. IsFiniteSet(UNION Parts)
  BY <1>2, <1>4, FS_UNION
<1> QED
  BY <1>5, FS_CardinalityType DEF Parts, Units, Total

(* A unit of the sum is a unit of one of its amounts.                         *)
LEMMA UnitsMembers ==
  ASSUME NEW D, NEW f \in [D -> Nat], NEW u
  PROVE  u \in Units(f) <=> \E x \in D : \E k \in 1..f[x] : u = <<x, k>>
BY DEF Units, UnitsOf

(* Amounts that are not greater have a sum that is not greater.               *)
LEMMA TotalIsMonotone ==
  ASSUME NEW D, IsFiniteSet(D), NEW f \in [D -> Nat], NEW g \in [D -> Nat],
         \A x \in D : f[x] <= g[x]
  PROVE  Total(f) <= Total(g)
<1>1. \A x \in D : 1..f[x] \subseteq 1..g[x]
  OBVIOUS
<1>2. Units(f) \subseteq Units(g)
  BY <1>1, UnitsMembers
<1> QED
  BY <1>2, UnitsAreFinite, FS_Subset DEF Total

(* One amount that rises raises the sum by as much.                           *)
LEMMA TotalFollowsOneAmount ==
  ASSUME NEW D, IsFiniteSet(D), NEW f \in [D -> Nat], NEW g \in [D -> Nat], NEW x \in D,
         f[x] <= g[x], \A y \in D : y # x => g[y] = f[y]
  PROVE  Total(g) = Total(f) + g[x] - f[x]
<1> DEFINE more == {x} \X (f[x] + 1 .. g[x])
<1>1. f[x] \in Nat /\ g[x] \in Nat
  OBVIOUS
<1>2. IsFiniteSet(f[x] + 1 .. g[x]) /\ Cardinality(f[x] + 1 .. g[x]) = g[x] - f[x]
  <2>1. PICK a \in Int, b \in Int : a = f[x] + 1 /\ b = g[x]
    BY <1>1
  <2>2. IsFiniteSet(a..b) /\ Cardinality(a..b) = IF a > b THEN 0 ELSE b - a + 1
    BY ONLY a \in Int, b \in Int, FS_Interval, Zenon
  <2>3. (IF a > b THEN 0 ELSE b - a + 1) = g[x] - f[x]
    BY <1>1, <2>1
  <2> QED
    BY <2>1, <2>2, <2>3
<1>3. IsFiniteSet({x}) /\ Cardinality({x}) = 1
  BY FS_Singleton
<1>4. IsFiniteSet(more) /\ Cardinality(more) = g[x] - f[x]
  <2>1. /\ IsFiniteSet(more)
        /\ Cardinality(more) = Cardinality({x}) * Cardinality(f[x] + 1 .. g[x])
    BY ONLY <1>2, <1>3, FS_Product, Zenon
  <2>2. 1 * (g[x] - f[x]) = g[x] - f[x]
    BY <1>1
  <2> HIDE DEF more
  <2> QED
    BY <1>2, <1>3, <2>1, <2>2
<1>5. Units(g) = Units(f) \cup more
  <2>1. ASSUME NEW u PROVE u \in Units(g) <=> u \in Units(f) \cup more
    <3>1. u \in more <=> \E k \in f[x] + 1 .. g[x] : u = <<x, k>>
      OBVIOUS
    <3>2. \A k : k \in 1..g[x] <=> k \in 1..f[x] \/ k \in f[x] + 1 .. g[x]
      BY <1>1
    <3> HIDE DEF more
    <3> QED
      BY <3>1, <3>2, UnitsMembers
  <2> HIDE DEF more
  <2> QED
    BY <2>1
<1>6. Units(f) \cap more = {}
  <2>1. ASSUME NEW u \in Units(f), u \in more PROVE FALSE
    <3>1. \E k \in 1..f[x] : u = <<x, k>>
      BY <2>1, UnitsMembers
    <3> QED
      BY <1>1, <2>1, <3>1
  <2> QED
    BY <2>1
<1> HIDE DEF more
<1>7. Cardinality({}) = 0
  BY FS_EmptySet
<1>8. IsFiniteSet(Units(f)) /\ Total(f) \in Nat
  BY UnitsAreFinite
<1>9. Cardinality(Units(f) \cup more) =
        Cardinality(Units(f)) + Cardinality(more) - Cardinality(Units(f) \cap more)
  BY ONLY <1>4, <1>8, FS_Union, Zenon
<1>10. Total(g) = Total(f) + (g[x] - f[x]) - 0
  BY <1>4, <1>5, <1>6, <1>7, <1>9 DEF Total
<1> QED
  BY ONLY <1>1, <1>8, <1>10

(* --------------- batches pay no more than what was approved --------------- *)

OnBatch(s) == tx[s].op \in {"remove", "submit", "decide", "execute"}

(* A request for a document has that kind of document, and only a batch that  *)
(* was created is asked about.                                                *)
RequestFits(s) ==
  /\ tx[s].op \in Duties[s] \cup {None}
  /\ tx[s].op = "post" => tx[s].doc \in Invoices
  /\ tx[s].op = "note" => tx[s].doc \in Notes
  /\ tx[s].op = "create" \/ OnBatch(s) => tx[s].doc \in Batches
  /\ OnBatch(s) => batch[tx[s].doc].status # "none"

(* A line is for all that was open when it was written, and what is open only *)
(* falls: an invoice that any line has paid is settled in full.               *)
CopyPaysInFull(s) ==
  \A i \in Invoices :
    tx[s].copy.lines[i] > 0 => settled[i] + tx[s].copy.lines[i] >= Gross[i]
BatchPaysInFull(b) ==
  \A i \in Invoices :
    /\ batch[b].lines[i] > 0 => settled[i] + batch[b].lines[i] >= Gross[i]
    /\ paid[b][i] > 0 => settled[i] >= Gross[i]

(* Lines are never added to a batch: whoever loaded it before has them all,   *)
(* and who loaded a draft has all that the batch will ever pay.               *)
CopyHasTheLines(s) ==
  OnBatch(s) =>
    /\ \A i \in Invoices : batch[tx[s].doc].lines[i] \in {0, tx[s].copy.lines[i]}
    /\ batch[tx[s].doc].status = "draft" => tx[s].copy.status = "draft"
    /\ tx[s].copy.status = "draft" =>
         \A i \in Invoices : paid[tx[s].doc][i] <= tx[s].copy.lines[i]

(* The total a session has loaded, or will write, covers its lines; a batch   *)
(* that was not written yet is a draft.                                       *)
CopyIsCovered(s) ==
  /\ Total(tx[s].copy.lines) <= tx[s].copy.total
  /\ tx[s].op = "create" => tx[s].copy.status = "draft"

(* What an execution has flushed is what its lines say, and those lines       *)
(* stand; what a note has flushed is within the note.                         *)
WorkFollowsLines(s) ==
  /\ tx[s].at # None => tx[s].at \notin tx[s].ran
  /\ \A i \in Invoices : pend[s][i] > 0 => i \in tx[s].ran /\ tx[s].op \in {"execute", "note"}
  /\ tx[s].op = "execute" =>
       \A i \in tx[s].ran : pend[s][i] = tx[s].copy.lines[i] /\ pend[s][i] > 0
                           /\ batch[tx[s].doc].lines[i] = tx[s].copy.lines[i]
  /\ tx[s].op = "note" =>
       /\ tx[s].at # None => tx[s].ran = {}
       /\ \A i \in Invoices : pend[s][i] <= NoteGross[tx[s].doc]

(* What a batch has paid and what it may still pay: an invoice by invoice     *)
(* bound that no removal, decision or execution raises.                       *)
Exposed(b) == [i \in Invoices |-> IF paid[b][i] > 0 THEN paid[b][i] ELSE batch[b].lines[i]]

BatchIsCovered(b) ==
  /\ Total(batch[b].lines) <= batch[b].total
  /\ batch[b].status \in {"none", "draft"} => paid[b] = NoPending
  /\ batch[b].status \notin {"none", "draft"} => Total(Exposed(b)) <= batch[b].routed

SessionHolds(s) ==
  /\ RequestFits(s)
  /\ CopyPaysInFull(s)
  /\ CopyHasTheLines(s)
  /\ CopyIsCovered(s)
  /\ WorkFollowsLines(s)

BatchInv ==
  /\ TypeOK
  /\ \A s \in Sessions : SessionHolds(s)
  /\ \A b \in Batches : BatchPaysInFull(b) /\ BatchIsCovered(b)

(* Nothing adds up to nothing.                                                *)
LEMMA NothingInTotal == Total(NoPending) = 0
<1>1. Units(NoPending) = {}
  BY DEF Units, UnitsOf, NoPending
<1> QED
  BY <1>1, FS_EmptySet DEF Total

LEMMA NoBatchIsTyped == NoBatch \in BatchRow /\ NoPending \in Lines
BY DEF NoBatch, BatchRow, NoPending, Lines, Statuses

(* The fields of a request, and of the batch row it has loaded.               *)
LEMMA RequestFields ==
  ASSUME TypeOK, NEW s \in Sessions
  PROVE  /\ tx[s].op \in Operations \cup {None}
         /\ tx[s].doc \in Invoices \cup Batches \cup Notes \cup {None}
         /\ tx[s].at \in Invoices \cup {None}
         /\ tx[s].ran \in SUBSET Invoices
         /\ tx[s].due \in Nat
         /\ tx[s].fresh \in BOOLEAN
         /\ tx[s].copy \in BatchRow
         /\ tx[s].copy.lines \in [Invoices -> Nat]
         /\ tx[s].copy.total \in Nat
         /\ tx[s].copy.status \in Statuses
         /\ Total(tx[s].copy.lines) \in Nat
<1>1. tx[s] \in Request
  BY DEF TypeOK
<1>2. tx[s].copy \in BatchRow
  BY <1>1 DEF Request
<1>3. /\ tx[s].copy.lines \in [Invoices -> Nat]
      /\ tx[s].copy.total \in Nat
      /\ tx[s].copy.status \in Statuses
  BY <1>2 DEF BatchRow, Lines
<1>4. Total(tx[s].copy.lines) \in Nat
  BY <1>3, InvoiceAssumption, UnitsAreFinite
<1> QED
  BY <1>1, <1>2, <1>3, <1>4 DEF Request

LEMMA BatchFields ==
  ASSUME TypeOK, NEW b \in Batches
  PROVE  /\ batch[b] \in BatchRow
         /\ batch[b].lines \in [Invoices -> Nat]
         /\ batch[b].total \in Nat
         /\ batch[b].routed \in Nat
         /\ batch[b].status \in Statuses
         /\ paid[b] \in [Invoices -> Nat]
         /\ Total(batch[b].lines) \in Nat
<1>1. batch[b] \in BatchRow /\ paid[b] \in [Invoices -> Nat]
  BY DEF TypeOK
<1>2. /\ batch[b].lines \in [Invoices -> Nat]
      /\ batch[b].total \in Nat
      /\ batch[b].routed \in Nat
      /\ batch[b].status \in Statuses
  BY <1>1 DEF BatchRow, Lines
<1>3. Total(batch[b].lines) \in Nat
  BY <1>2, InvoiceAssumption, UnitsAreFinite
<1> QED
  BY <1>1, <1>2, <1>3

(* A request that is opened has what the row says that it loaded.             *)
LEMMA OpenKeepsTypes ==
  ASSUME TypeOK, NEW s \in Sessions, NEW op \in Operations,
         NEW doc \in Invoices \cup Batches \cup Notes, NEW copy \in BatchRow,
         NEW fresh \in BOOLEAN, Open(s, op, doc, copy, fresh)
  PROVE  /\ TypeOK'
         /\ tx'[s] = [op |-> op, doc |-> doc, copy |-> copy, fresh |-> fresh,
                      at |-> None, ran |-> {}, due |-> 0]
         /\ \A t \in Sessions : t # s => tx'[t] = tx[t]
<1> DEFINE new == [op |-> op, doc |-> doc, copy |-> copy, fresh |-> fresh,
                   at |-> None, ran |-> {}, due |-> 0]
<1>1. new \in Request
  BY DEF Request
<1>2. tx' = [tx EXCEPT ![s] = new]
  BY DEF Open
<1> HIDE DEF new
<1>3. tx' \in [Sessions -> Request]
  BY <1>1, <1>2 DEF TypeOK
<1>4. TypeOK'
  BY <1>3 DEF TypeOK, Open, documents
<1>5. tx'[s] = new /\ \A t \in Sessions : t # s => tx'[t] = tx[t]
  BY <1>2 DEF TypeOK
<1> QED
  BY <1>4, <1>5 DEF new

(* A request that goes on keeps its document and its copy.                    *)
LEMMA GoOnTx ==
  ASSUME TypeOK, NEW s \in Sessions, NEW at \in Invoices \cup {None},
         NEW ran \in SUBSET Invoices, NEW due \in Nat, GoOn(s, at, ran, due)
  PROVE  /\ tx' \in [Sessions -> Request]
         /\ tx'[s].op = tx[s].op /\ tx'[s].doc = tx[s].doc /\ tx'[s].copy = tx[s].copy
         /\ tx'[s].fresh = tx[s].fresh
         /\ tx'[s].at = at /\ tx'[s].ran = ran /\ tx'[s].due = due
         /\ \A t \in Sessions : t # s => tx'[t] = tx[t]
<1> DEFINE new == [op |-> tx[s].op, doc |-> tx[s].doc, copy |-> tx[s].copy,
                   fresh |-> tx[s].fresh, at |-> at, ran |-> ran, due |-> due]
<1>1. new \in Request
  BY RequestFields DEF Request
<1>2. tx' = [tx EXCEPT ![s] = new]
  BY DEF GoOn
<1>3. /\ new.op = tx[s].op /\ new.doc = tx[s].doc /\ new.copy = tx[s].copy
      /\ new.fresh = tx[s].fresh /\ new.at = at /\ new.ran = ran /\ new.due = due
  OBVIOUS
<1> HIDE DEF new
<1>4. tx' \in [Sessions -> Request]
  BY <1>1, <1>2 DEF TypeOK
<1>5. tx'[s] = new /\ \A t \in Sessions : t # s => tx'[t] = tx[t]
  BY <1>2 DEF TypeOK
<1> QED
  BY <1>3, <1>4, <1>5

(* A request that ends leaves nothing open.                                   *)
LEMMA EndTx ==
  ASSUME TypeOK, NEW s \in Sessions, End(s)
  PROVE  /\ tx' \in [Sessions -> Request]
         /\ pend' \in [Sessions -> [Invoices -> Nat]]
         /\ rowLock' \in [Invoices -> Sessions \cup {Free}]
         /\ \A t \in Sessions : t # s => tx'[t] = tx[t] /\ pend'[t] = pend[t]
         /\ SessionHolds(s)'
<1>1. Closed \in Request
  BY NoBatchIsTyped DEF Closed, Request
<1>2. tx' \in [Sessions -> Request]
  BY <1>1 DEF TypeOK, End
<1>3. pend' \in [Sessions -> [Invoices -> Nat]]
  BY DEF TypeOK, End, NoPending
<1>4. rowLock' \in [Invoices -> Sessions \cup {Free}]
  BY DEF TypeOK, End
<1>5. \A t \in Sessions : t # s => tx'[t] = tx[t] /\ pend'[t] = pend[t]
  BY DEF TypeOK, End
<1>6. tx'[s] = Closed /\ pend'[s] = NoPending
  BY DEF TypeOK, End
<1>7. /\ tx'[s].op = None /\ tx'[s].at = None /\ tx'[s].ran = {}
      /\ tx'[s].copy = NoBatch /\ NoBatch.lines = NoPending /\ NoBatch.total = 0
      /\ None \notin Operations
  BY <1>6 DEF Closed, NoBatch, None, Operations
<1>8. \A i \in Invoices : NoPending[i] = 0
  BY DEF NoPending
<1>9. SessionHolds(s)'
  <2>1. RequestFits(s)'
    BY <1>7 DEF RequestFits, OnBatch, Operations
  <2>2. CopyPaysInFull(s)'
    BY <1>7, <1>8 DEF CopyPaysInFull
  <2>3. CopyHasTheLines(s)'
    BY <1>7 DEF CopyHasTheLines, OnBatch, Operations
  <2>4. CopyIsCovered(s)'
    BY <1>7, NothingInTotal DEF CopyIsCovered, Operations
  <2>5. WorkFollowsLines(s)'
    BY <1>6, <1>7, <1>8 DEF WorkFollowsLines, Operations
  <2> QED
    BY <2>1, <2>2, <2>3, <2>4, <2>5 DEF SessionHolds
<1> QED
  BY <1>2, <1>3, <1>4, <1>5, <1>9

(* What one session writes to a batch leaves what the others rely on.         *)
BatchAdvances(b) ==
  /\ batch[b].status # "none" => batch'[b].status # "none"
  /\ batch[b].status \notin {"none", "draft"} => batch'[b].status # "draft"
  /\ batch[b].status # "none" =>
       \A i \in Invoices : batch'[b].lines[i] \in {0, batch[b].lines[i]}

LEMMA OtherSession ==
  ASSUME BatchInv, NEW t \in Sessions, tx'[t] = tx[t], pend'[t] = pend[t],
         settled' \in [Invoices -> Nat],
         \A i \in Invoices : settled[i] <= settled'[i],
         \A b \in Batches : BatchAdvances(b),
         tx[t].op = "execute" =>
           \A i \in tx[t].ran : batch'[tx[t].doc].lines[i] = batch[tx[t].doc].lines[i],
         OnBatch(t) /\ tx[t].copy.status = "draft" =>
           \A i \in Invoices : paid'[tx[t].doc][i] <= tx[t].copy.lines[i]
  PROVE  SessionHolds(t)'
<1>1. /\ SessionHolds(t) /\ TypeOK
      /\ OnBatch(t) => tx[t].doc \in Batches /\ BatchAdvances(tx[t].doc)
                       /\ batch[tx[t].doc].status # "none"
  BY DEF BatchInv, SessionHolds, RequestFits
<1>2. OnBatch(t)' <=> OnBatch(t)
  BY DEF OnBatch
<1>3. RequestFits(t)'
  BY <1>1, <1>2 DEF SessionHolds, RequestFits, BatchAdvances
<1>4. CopyPaysInFull(t)'
  <2> SUFFICES ASSUME NEW i \in Invoices, tx[t].copy.lines[i] > 0
               PROVE  settled'[i] + tx[t].copy.lines[i] >= Gross[i]
    BY DEF CopyPaysInFull
  <2>1. /\ settled[i] \in Nat /\ settled'[i] \in Nat /\ Gross[i] \in Nat
        /\ tx[t].copy.lines[i] \in Nat
    BY <1>1, RequestFields, InvoiceAssumption DEF TypeOK
  <2>2. settled[i] + tx[t].copy.lines[i] >= Gross[i] /\ settled[i] <= settled'[i]
    BY <1>1 DEF SessionHolds, CopyPaysInFull
  <2> QED
    BY <2>1, <2>2
<1>5. CopyHasTheLines(t)'
  BY <1>1, <1>2 DEF SessionHolds, CopyHasTheLines, BatchAdvances
<1>6. CopyIsCovered(t)'
  BY <1>1 DEF SessionHolds, CopyIsCovered
<1>7. WorkFollowsLines(t)'
  BY <1>1 DEF SessionHolds, WorkFollowsLines
<1> QED
  BY <1>3, <1>4, <1>5, <1>6, <1>7 DEF SessionHolds

(* A step that leaves the documents alone.                                    *)
LEMMA QuietSession ==
  ASSUME BatchInv, NEW t \in Sessions, tx'[t] = tx[t], pend'[t] = pend[t],
         settled' = settled, batch' = batch, paid' = paid
  PROVE  SessionHolds(t)'
<1>1. SessionHolds(t)
  BY DEF BatchInv
<1> QED
  BY <1>1 DEF SessionHolds, RequestFits, CopyPaysInFull, CopyHasTheLines, CopyIsCovered,
              WorkFollowsLines, OnBatch

LEMMA QuietBatch ==
  ASSUME BatchInv, NEW b \in Batches, settled' = settled,
         batch'[b] = batch[b], paid'[b] = paid[b]
  PROVE  (BatchPaysInFull(b) /\ BatchIsCovered(b))'
<1>1. BatchPaysInFull(b) /\ BatchIsCovered(b)
  BY DEF BatchInv
<1>2. Exposed(b)' = Exposed(b)
  BY DEF Exposed
<1> QED
  BY <1>1, <1>2 DEF BatchPaysInFull, BatchIsCovered

(* Other batches than the one written stay as they were; what is settled      *)
(* meanwhile only helps.                                                      *)
LEMMA OtherBatch ==
  ASSUME BatchInv, NEW b \in Batches, batch'[b] = batch[b], paid'[b] = paid[b],
         settled' \in [Invoices -> Nat],
         \A i \in Invoices : settled[i] <= settled'[i]
  PROVE  (BatchPaysInFull(b) /\ BatchIsCovered(b))'
<1>1. BatchPaysInFull(b) /\ BatchIsCovered(b) /\ TypeOK
  BY DEF BatchInv
<1>2. Exposed(b)' = Exposed(b)
  BY DEF Exposed
<1>3. BatchIsCovered(b)'
  BY <1>1, <1>2 DEF BatchIsCovered
<1>4. ASSUME NEW i \in Invoices
      PROVE  /\ batch[b].lines[i] > 0 => settled'[i] + batch[b].lines[i] >= Gross[i]
             /\ paid[b][i] > 0 => settled'[i] >= Gross[i]
  <2>1. /\ settled[i] \in Nat /\ settled'[i] \in Nat /\ Gross[i] \in Nat
        /\ batch[b].lines[i] \in Nat /\ settled[i] <= settled'[i]
    BY <1>1, BatchFields, InvoiceAssumption DEF TypeOK
  <2> QED
    BY <1>1, <2>1 DEF BatchPaysInFull
<1>5. BatchPaysInFull(b)'
  BY <1>4 DEF BatchPaysInFull
<1> QED
  BY <1>3, <1>5

LEMMA BatchInitInv == Init => BatchInv
<1> SUFFICES ASSUME Init PROVE BatchInv
  OBVIOUS
<1>1. TypeOK
  <2>1. tx \in [Sessions -> Request]
    BY NoBatchIsTyped DEF Init, Closed, Request
  <2>2. batch \in [Batches -> BatchRow]
    BY NoBatchIsTyped DEF Init
  <2>3. note \in [Notes -> NoteRow]
    BY DEF Init, Draft, NoteRow
  <2>4. /\ posted \subseteq Invoices /\ goods \in Int
        /\ payable \in [Invoices -> Int]
    BY InvoiceAssumption, AmountAssumption DEF Init
  <2> QED
    BY <2>1, <2>2, <2>3, <2>4 DEF TypeOK, Init, NoPending
<1>2. ASSUME NEW s \in Sessions PROVE SessionHolds(s)
  <2>1. /\ tx[s].op = None /\ tx[s].at = None /\ tx[s].ran = {}
        /\ tx[s].copy.lines = NoPending /\ tx[s].copy.total = 0
        /\ None \notin Operations /\ pend[s] = NoPending
    BY DEF Init, Closed, NoBatch, None, Operations
  <2>2. \A i \in Invoices : NoPending[i] = 0
    BY DEF NoPending
  <2> QED
    BY <2>1, <2>2, NothingInTotal
       DEF SessionHolds, RequestFits, CopyPaysInFull, CopyHasTheLines, CopyIsCovered,
           WorkFollowsLines, OnBatch, Operations
<1>3. ASSUME NEW b \in Batches PROVE BatchPaysInFull(b) /\ BatchIsCovered(b)
  <2>1. /\ batch[b].lines = NoPending /\ batch[b].total = 0 /\ batch[b].status = "none"
        /\ paid[b] = NoPending
    BY DEF Init, NoBatch
  <2>2. \A i \in Invoices : NoPending[i] = 0
    BY DEF NoPending
  <2> QED
    BY <2>1, <2>2, NothingInTotal DEF BatchPaysInFull, BatchIsCovered
<1> QED
  BY <1>1, <1>2, <1>3 DEF BatchInv

(* Who opens a request with a batch row as it stands, or a new one that is in *)
(* order, keeps the invariant.                                                *)
LEMMA OpenBatchInv ==
  ASSUME BatchInv, NEW s \in Sessions, NEW op \in Operations,
         NEW doc \in Invoices \cup Batches \cup Notes, NEW copy \in BatchRow,
         NEW fresh \in BOOLEAN, Open(s, op, doc, copy, fresh),
         op = "post" => doc \in Invoices,
         op = "note" => doc \in Notes,
         op = "create" => doc \in Batches /\ copy.status = "draft",
         op \in {"remove", "submit", "decide", "execute"} =>
           doc \in Batches /\ batch[doc].status # "none" /\ copy = batch[doc],
         \A i \in Invoices : copy.lines[i] > 0 => settled[i] + copy.lines[i] >= Gross[i],
         Total(copy.lines) <= copy.total
  PROVE  BatchInv'
<1>1. TypeOK
  BY DEF BatchInv
<1>2. /\ TypeOK'
      /\ tx'[s] = [op |-> op, doc |-> doc, copy |-> copy, fresh |-> fresh,
                   at |-> None, ran |-> {}, due |-> 0]
      /\ \A t \in Sessions : t # s => tx'[t] = tx[t]
  BY <1>1, OpenKeepsTypes
<1>3. /\ tx'[s].op = op /\ tx'[s].doc = doc /\ tx'[s].copy = copy
      /\ tx'[s].at = None /\ tx'[s].ran = {}
  BY <1>2
<1>4. /\ batch' = batch /\ paid' = paid /\ settled' = settled /\ pend' = pend
      /\ tx[s].op = None /\ op \in Duties[s]
  BY DEF Open, documents
<1>5. \A t \in Sessions : t # s => SessionHolds(t)'
  BY <1>2, <1>4, QuietSession
<1>6. \A b \in Batches : (BatchPaysInFull(b) /\ BatchIsCovered(b))'
  BY <1>4, QuietBatch
<1>7. SessionHolds(s)'
  <2>1. RequestFits(s)'
    BY <1>3, <1>4 DEF RequestFits, OnBatch
  <2>2. CopyPaysInFull(s)'
    BY <1>3, <1>4 DEF CopyPaysInFull
  <2>3. CopyHasTheLines(s)'
    <3> SUFFICES ASSUME op \in {"remove", "submit", "decide", "execute"}
                 PROVE  CopyHasTheLines(s)'
      BY <1>3 DEF CopyHasTheLines, OnBatch
    <3>1. doc \in Batches /\ copy = batch[doc]
      OBVIOUS
    <3>2. copy.status = "draft" => \A i \in Invoices : paid[doc][i] = 0
      BY <3>1 DEF BatchInv, BatchIsCovered, NoPending
    <3>3. \A i \in Invoices : copy.lines[i] \in Nat
      BY <1>1, <3>1, BatchFields
    <3> QED
      BY <1>3, <1>4, <3>1, <3>2, <3>3 DEF CopyHasTheLines
  <2>4. CopyIsCovered(s)'
    BY <1>3 DEF CopyIsCovered
  <2>5. WorkFollowsLines(s)'
    <3>1. \A i \in Invoices : pend[s][i] = 0
      BY <1>1, <1>4 DEF BatchInv, SessionHolds, WorkFollowsLines, None, TypeOK
    <3>2. op = "note" => NoteGross[doc] \in Nat
      BY NoteAssumption
    <3> QED
      BY <1>3, <1>4, <3>1, <3>2 DEF WorkFollowsLines
  <2> QED
    BY <2>1, <2>2, <2>3, <2>4, <2>5 DEF SessionHolds
<1> QED
  BY <1>2, <1>5, <1>6, <1>7 DEF BatchInv

(* The four ways to open a request.                                           *)
LEMMA StartBatchInv ==
  ASSUME BatchInv, SettlementInv, NEW s \in Sessions,
         \/ \E i \in Invoices : StartPost(s, i)
         \/ \E b \in Batches, selection \in Selections : StartCreate(s, b, selection)
         \/ \E b \in Batches, op \in Operations : StartBatch(s, op, b)
         \/ \E n \in Notes : StartNote(s, n)
  PROVE  BatchInv'
<1>0. TypeOK
  BY DEF BatchInv
<1>1. /\ NoBatch \in BatchRow /\ Total(NoBatch.lines) <= NoBatch.total
      /\ \A i \in Invoices : NoBatch.lines[i] = 0
  BY NoBatchIsTyped, NothingInTotal DEF NoBatch, NoPending
<1>2. ASSUME NEW i \in Invoices, StartPost(s, i) PROVE BatchInv'
  <2>1. PICK fresh \in BOOLEAN : Open(s, "post", i, NoBatch, fresh)
    BY <1>2 DEF StartPost
  <2> QED
    BY <1>1, <2>1, OpenBatchInv DEF Operations
<1>3. ASSUME NEW b \in Batches, NEW selection \in Selections, StartCreate(s, b, selection)
      PROVE  BatchInv'
  <2> DEFINE lines == [i \in Invoices |-> IF i \in selection THEN Gross[i] - settled[i] ELSE 0]
             copy == [status |-> "draft", lines |-> lines, total |-> Total(lines), routed |-> 0]
  <2>1. lines \in [Invoices -> Nat]
    BY InvoiceAssumption DEF SettlementInv, Money, MoneyTypes, SettledWithinGross
  <2>2. Total(lines) \in Nat
    BY <2>1, InvoiceAssumption, UnitsAreFinite
  <2>3. copy \in BatchRow
    BY <2>1, <2>2 DEF BatchRow, Lines, Statuses
  <2>4. Open(s, "create", b, copy, batch[b].status = "none")
    BY <1>3 DEF StartCreate
  <2>5. \A i \in Invoices : lines[i] > 0 => settled[i] + lines[i] >= Gross[i]
    BY InvoiceAssumption, <1>0 DEF TypeOK
  <2>6. copy.lines = lines /\ copy.total = Total(lines) /\ copy.status = "draft"
    OBVIOUS
  <2>7. Total(copy.lines) <= copy.total
    BY <2>2, <2>6
  <2>8. PICK fresh \in BOOLEAN : Open(s, "create", b, copy, fresh)
    BY <2>4
  <2> HIDE DEF copy, lines
  <2> QED
    BY <2>3, <2>5, <2>6, <2>7, <2>8, OpenBatchInv DEF Operations
<1>4. ASSUME NEW b \in Batches, NEW op \in Operations, StartBatch(s, op, b)
      PROVE  BatchInv'
  <2>1. /\ op \in {"remove", "submit", "decide", "execute"} /\ batch[b].status # "none"
        /\ Open(s, op, b, batch[b], TRUE)
    BY <1>4 DEF StartBatch
  <2>2. batch[b] \in BatchRow /\ Total(batch[b].lines) <= batch[b].total
    BY <1>0, BatchFields DEF BatchInv, BatchIsCovered
  <2>3. \A i \in Invoices : batch[b].lines[i] > 0 => settled[i] + batch[b].lines[i] >= Gross[i]
    BY DEF BatchInv, BatchPaysInFull
  <2>4. op \notin {"post", "note", "create"}
    BY <2>1
  <2> QED
    BY <2>1, <2>2, <2>3, <2>4, OpenBatchInv
<1>5. ASSUME NEW n \in Notes, StartNote(s, n) PROVE BatchInv'
  <2>1. PICK fresh \in BOOLEAN : Open(s, "note", n, NoBatch, fresh)
    BY <1>5 DEF StartNote
  <2> QED
    BY <1>1, <2>1, OpenBatchInv DEF Operations
<1> QED
  BY <1>2, <1>3, <1>4, <1>5

(* A request that ends by writing one row of one batch.                       *)
LEMMA WriteInv ==
  ASSUME BatchInv, NEW s \in Sessions, NEW b \in Batches, NEW row \in BatchRow,
         End(s), Write(b, row),
         UNCHANGED <<posted, payable, settled, paid, held, note, goods>>,
         batch[b].status # "none" => row.status # "none",
         batch[b].status \notin {"none", "draft"} => row.status # "draft",
         batch[b].status # "none" =>
           \A i \in Invoices : row.lines[i] \in {0, batch[b].lines[i]},
         \A t \in Sessions : tx[t].op = "execute" /\ tx[t].doc = b =>
           \A i \in tx[t].ran : row.lines[i] = batch[b].lines[i],
         \A i \in Invoices : row.lines[i] > 0 => settled[i] + row.lines[i] >= Gross[i],
         Total(row.lines) <= row.total,
         row.status \in {"none", "draft"} => paid[b] = NoPending,
         row.status \notin {"none", "draft"} =>
           Total([i \in Invoices |-> IF paid[b][i] > 0 THEN paid[b][i] ELSE row.lines[i]])
             <= row.routed
  PROVE  BatchInv'
<1>1. TypeOK
  BY DEF BatchInv
<1>2. /\ tx' \in [Sessions -> Request]
      /\ pend' \in [Sessions -> [Invoices -> Nat]]
      /\ rowLock' \in [Invoices -> Sessions \cup {Free}]
      /\ \A t \in Sessions : t # s => tx'[t] = tx[t] /\ pend'[t] = pend[t]
      /\ SessionHolds(s)'
  BY <1>1, EndTx
<1>3. batch' = [batch EXCEPT ![b] = row] /\ batch \in [Batches -> BatchRow]
  BY <1>1 DEF Write, TypeOK
<1>4. /\ batch' \in [Batches -> BatchRow] /\ batch'[b] = row
      /\ \A c \in Batches : c # b => batch'[c] = batch[c]
  BY <1>3
<1>5. TypeOK'
  BY <1>1, <1>2, <1>4 DEF TypeOK
<1>6. settled' \in [Invoices -> Nat] /\ \A i \in Invoices : settled[i] <= settled'[i]
  BY <1>1 DEF TypeOK
<1>7. \A c \in Batches : BatchAdvances(c)
  BY <1>4 DEF BatchAdvances
<1>8. ASSUME NEW t \in Sessions PROVE SessionHolds(t)'
  <2> SUFFICES ASSUME t # s PROVE SessionHolds(t)'
    BY <1>2
  <2>1. /\ SessionHolds(t)
        /\ OnBatch(t) => tx[t].doc \in Batches
    BY DEF BatchInv, SessionHolds, RequestFits
  <2>2. tx[t].op = "execute" =>
          \A i \in tx[t].ran : batch'[tx[t].doc].lines[i] = batch[tx[t].doc].lines[i]
    BY <1>4, <2>1 DEF OnBatch
  <2>3. OnBatch(t) /\ tx[t].copy.status = "draft" =>
          \A i \in Invoices : paid'[tx[t].doc][i] <= tx[t].copy.lines[i]
    BY <2>1 DEF SessionHolds, CopyHasTheLines
  <2> QED
    BY <1>2, <1>6, <1>7, <2>2, <2>3, OtherSession
<1>9. ASSUME NEW c \in Batches PROVE (BatchPaysInFull(c) /\ BatchIsCovered(c))'
  <2>1. CASE c # b
    BY <1>4, <2>1, QuietBatch
  <2>2. CASE c = b
    <3>1. BatchPaysInFull(b)'
      BY <1>4 DEF BatchPaysInFull, BatchInv
    <3>2. Exposed(b)' =
            [i \in Invoices |-> IF paid[b][i] > 0 THEN paid[b][i] ELSE row.lines[i]]
      BY <1>4 DEF Exposed
    <3>3. BatchIsCovered(b)'
      BY <1>4, <3>2 DEF BatchIsCovered
    <3> QED
      BY <2>2, <3>1, <3>3
  <2> QED
    BY <2>1, <2>2
<1> QED
  BY <1>5, <1>8, <1>9 DEF BatchInv

(* A batch is created.                                                        *)
LEMMA CreateBatchInv ==
  ASSUME BatchInv, NEW s \in Sessions, Create(s)
  PROVE  BatchInv'
<1>1. TypeOK /\ SessionHolds(s)
  BY DEF BatchInv
<1>2. PICK b \in Batches : b = tx[s].doc
  BY <1>1 DEF Create, Working, SessionHolds, RequestFits
<1>3. PICK row \in BatchRow : row = tx[s].copy
  BY <1>1, RequestFields
<1>4. End(s) /\ Write(b, row) /\ UNCHANGED <<posted, payable, settled, paid, held, note, goods>>
  BY <1>2, <1>3 DEF Create
<1>5. batch[b].status = "none" /\ row.status = "draft" /\ Total(row.lines) <= row.total
  BY <1>1, <1>2, <1>3 DEF Create, Working, SessionHolds, CopyIsCovered
<1>6. \A i \in Invoices : row.lines[i] > 0 => settled[i] + row.lines[i] >= Gross[i]
  BY <1>1, <1>3 DEF SessionHolds, CopyPaysInFull
<1>7. paid[b] = NoPending
  BY <1>5 DEF BatchInv, BatchIsCovered
<1>8. \A t \in Sessions : ~(tx[t].op = "execute" /\ tx[t].doc = b)
  BY <1>5 DEF BatchInv, SessionHolds, RequestFits, OnBatch
<1>9. /\ \A t \in Sessions : tx[t].op = "execute" /\ tx[t].doc = b =>
           \A i \in tx[t].ran : row.lines[i] = batch[b].lines[i]
      /\ batch[b].status # "none" =>
           \A i \in Invoices : row.lines[i] \in {0, batch[b].lines[i]}
      /\ batch[b].status # "none" => row.status # "none"
      /\ batch[b].status \notin {"none", "draft"} => row.status # "draft"
      /\ row.status \in {"none", "draft"} => paid[b] = NoPending
      /\ row.status \notin {"none", "draft"} =>
           Total([i \in Invoices |-> IF paid[b][i] > 0 THEN paid[b][i] ELSE row.lines[i]])
             <= row.routed
      /\ Total(row.lines) <= row.total
  BY <1>5, <1>7, <1>8
<1> QED
  BY <1>4, <1>6, <1>9, WriteInv

(* A line is removed: what the batch may pay falls, and the total it is given *)
(* still covers what is left, since the copy had every line.                  *)
LEMMA RemoveLineInv ==
  ASSUME BatchInv, NEW s \in Sessions, NEW i \in Invoices, RemoveLine(s, i)
  PROVE  BatchInv'
<1>1. TypeOK /\ SessionHolds(s) /\ OnBatch(s)
  BY DEF BatchInv, RemoveLine, Working, OnBatch
<1>2. PICK b \in Batches : b = tx[s].doc
  BY <1>1 DEF SessionHolds, RequestFits
<1> DEFINE kept == Without(batch[b].lines, i)
           copied == Without(tx[s].copy.lines, i)
           row == [status |-> batch[b].status, lines |-> kept,
                   total |-> Total(copied), routed |-> batch[b].routed]
<1>3. /\ batch[b].lines \in [Invoices -> Nat] /\ tx[s].copy.lines \in [Invoices -> Nat]
      /\ batch[b].status \in Statuses /\ batch[b].routed \in Nat
  BY <1>1, BatchFields, RequestFields
<1>4. /\ kept \in [Invoices -> Nat] /\ copied \in [Invoices -> Nat]
      /\ \A j \in Invoices : kept[j] = IF j = i THEN 0 ELSE batch[b].lines[j]
      /\ \A j \in Invoices : copied[j] = IF j = i THEN 0 ELSE tx[s].copy.lines[j]
  BY <1>3 DEF Without
<1>5. Total(kept) \in Nat /\ Total(copied) \in Nat
  BY <1>4, UnitsAreFinite, InvoiceAssumption
<1>6. row \in BatchRow
  BY <1>3, <1>4, <1>5 DEF BatchRow, Lines
<1>7. /\ row.status = batch[b].status /\ row.lines = kept /\ row.total = Total(copied)
      /\ row.routed = batch[b].routed
  OBVIOUS
<1>8. End(s) /\ Write(b, row) /\ UNCHANGED <<posted, payable, settled, paid, held, note, goods>>
  BY <1>2 DEF RemoveLine
<1> HIDE DEF kept, copied, row
<1>9. Total(kept) <= Total(copied)
  <2>1. \A j \in Invoices : batch[b].lines[j] \in {0, tx[s].copy.lines[j]}
    BY <1>1, <1>2 DEF SessionHolds, CopyHasTheLines
  <2>2. \A j \in Invoices : kept[j] <= copied[j]
    BY <1>3, <1>4, <2>1
  <2> QED
    BY <1>4, <2>2, InvoiceAssumption, TotalIsMonotone
<1>10. \A t \in Sessions : tx[t].op = "execute" /\ tx[t].doc = b =>
         \A j \in tx[t].ran : kept[j] = batch[b].lines[j]
  BY <1>1, <1>2, <1>4, RequestFields DEF RemoveLine, LineBusy, Working, None
<1>11. \A j \in Invoices : kept[j] > 0 => settled[j] + kept[j] >= Gross[j]
  BY <1>4 DEF BatchInv, BatchPaysInFull
<1>12. ASSUME batch[b].status \notin {"none", "draft"}
       PROVE  Total([j \in Invoices |-> IF paid[b][j] > 0 THEN paid[b][j] ELSE kept[j]])
                <= batch[b].routed
  <2> DEFINE less == [j \in Invoices |-> IF paid[b][j] > 0 THEN paid[b][j] ELSE kept[j]]
  <2>1. paid[b] \in [Invoices -> Nat]
    BY <1>1, BatchFields
  <2>2. less \in [Invoices -> Nat] /\ Exposed(b) \in [Invoices -> Nat]
    BY <1>3, <1>4, <2>1 DEF Exposed
  <2>3. \A j \in Invoices : less[j] <= Exposed(b)[j]
    BY <1>3, <1>4, <2>1 DEF Exposed
  <2> HIDE DEF less
  <2>4. Total(less) <= Total(Exposed(b))
    BY <2>2, <2>3, InvoiceAssumption, TotalIsMonotone
  <2>5. Total(Exposed(b)) <= batch[b].routed
    BY <1>12 DEF BatchInv, BatchIsCovered
  <2>6. Total(less) \in Nat /\ Total(Exposed(b)) \in Nat
    BY <2>2, UnitsAreFinite, InvoiceAssumption
  <2>7. Total(less) <= batch[b].routed
    BY <1>3, <2>4, <2>5, <2>6
  <2> QED
    BY <2>7 DEF less
<1>13. row.status \in {"none", "draft"} => paid[b] = NoPending
  BY <1>7 DEF BatchInv, BatchIsCovered
<1>14. \A j \in Invoices : kept[j] \in {0, batch[b].lines[j]}
  BY <1>4
<1>15. row.status \notin {"none", "draft"} =>
         Total([j \in Invoices |-> IF paid[b][j] > 0 THEN paid[b][j] ELSE row.lines[j]])
           <= row.routed
  BY <1>7, <1>12
<1>16. /\ \A j \in Invoices : row.lines[j] \in {0, batch[b].lines[j]}
       /\ \A t \in Sessions : tx[t].op = "execute" /\ tx[t].doc = b =>
            \A j \in tx[t].ran : row.lines[j] = batch[b].lines[j]
       /\ \A j \in Invoices : row.lines[j] > 0 => settled[j] + row.lines[j] >= Gross[j]
       /\ Total(row.lines) <= row.total
  BY <1>7, <1>9, <1>10, <1>11, <1>14
<1> QED
  BY <1>6, <1>7, <1>8, <1>13, <1>15, <1>16, WriteInv

(* What is sent for approval is the total of a copy that has every line the   *)
(* batch has and every line it has paid.                                      *)
LEMMA SubmitInv ==
  ASSUME BatchInv, NEW s \in Sessions, Submit(s)
  PROVE  BatchInv'
<1>1. TypeOK /\ SessionHolds(s) /\ OnBatch(s)
  BY DEF BatchInv, Submit, Working, OnBatch
<1>2. PICK b \in Batches : b = tx[s].doc
  BY <1>1 DEF SessionHolds, RequestFits
<1>3. PICK status \in {"pending", "approved"} :
        Write(b, [status |-> status, lines |-> batch[b].lines, total |-> batch[b].total,
                  routed |-> tx[s].copy.total])
  BY <1>2 DEF Submit
<1> DEFINE row == [status |-> status, lines |-> batch[b].lines, total |-> batch[b].total,
                   routed |-> tx[s].copy.total]
<1>4. /\ batch[b].lines \in [Invoices -> Nat] /\ tx[s].copy.lines \in [Invoices -> Nat]
      /\ batch[b].total \in Nat /\ tx[s].copy.total \in Nat /\ paid[b] \in [Invoices -> Nat]
      /\ Total(tx[s].copy.lines) \in Nat
  BY <1>1, BatchFields, RequestFields
<1>5. row \in BatchRow
  BY <1>4 DEF BatchRow, Lines, Statuses
<1>6. /\ row.status \notin {"none", "draft"} /\ row.lines = batch[b].lines
      /\ row.total = batch[b].total /\ row.routed = tx[s].copy.total
  OBVIOUS
<1>7. End(s) /\ Write(b, row) /\ UNCHANGED <<posted, payable, settled, paid, held, note, goods>>
  BY <1>3 DEF Submit
<1> HIDE DEF row
<1>8. Total(Exposed(b)) <= row.routed
  <2>1. \A i \in Invoices : /\ batch[b].lines[i] \in {0, tx[s].copy.lines[i]}
                             /\ paid[b][i] <= tx[s].copy.lines[i]
    BY <1>1, <1>2 DEF SessionHolds, CopyHasTheLines, Submit
  <2>2. /\ Exposed(b) \in [Invoices -> Nat]
        /\ \A i \in Invoices : Exposed(b)[i] <= tx[s].copy.lines[i]
    BY <1>4, <2>1 DEF Exposed
  <2>3. Total(Exposed(b)) <= Total(tx[s].copy.lines) /\ Total(Exposed(b)) \in Nat
    BY <1>4, <2>2, InvoiceAssumption, TotalIsMonotone, UnitsAreFinite
  <2>4. Total(tx[s].copy.lines) <= tx[s].copy.total
    BY <1>1 DEF SessionHolds, CopyIsCovered
  <2> QED
    BY <1>4, <1>6, <2>3, <2>4
<1>9. /\ \A t \in Sessions : tx[t].op = "execute" /\ tx[t].doc = b =>
           \A i \in tx[t].ran : row.lines[i] = batch[b].lines[i]
      /\ \A i \in Invoices : row.lines[i] \in {0, batch[b].lines[i]}
      /\ \A i \in Invoices : row.lines[i] > 0 => settled[i] + row.lines[i] >= Gross[i]
      /\ Total(row.lines) <= row.total
  BY <1>6 DEF BatchInv, BatchPaysInFull, BatchIsCovered
<1>10. Total([i \in Invoices |-> IF paid[b][i] > 0 THEN paid[b][i] ELSE row.lines[i]])
         <= row.routed
  BY <1>6, <1>8 DEF Exposed
<1> QED
  BY <1>5, <1>6, <1>7, <1>9, <1>10, WriteInv

(* A decision changes the status of a batch that was sent for approval.       *)
LEMMA DecideInv ==
  ASSUME BatchInv, NEW s \in Sessions, NEW outcome \in Outcomes, Decide(s, outcome)
  PROVE  BatchInv'
<1>1. TypeOK /\ SessionHolds(s) /\ OnBatch(s)
  BY DEF BatchInv, Decide, Working, OnBatch
<1>2. PICK b \in Batches : b = tx[s].doc
  BY <1>1 DEF SessionHolds, RequestFits
<1> DEFINE row == [status |-> outcome, lines |-> batch[b].lines, total |-> batch[b].total,
                   routed |-> batch[b].routed]
<1>3. /\ batch[b].lines \in [Invoices -> Nat] /\ batch[b].total \in Nat
      /\ batch[b].routed \in Nat
  BY <1>1, BatchFields
<1>4. row \in BatchRow
  BY <1>3 DEF BatchRow, Lines, Statuses, Outcomes
<1>5. /\ row.status \notin {"none", "draft"} /\ row.lines = batch[b].lines
      /\ row.total = batch[b].total /\ row.routed = batch[b].routed
  BY DEF Outcomes
<1>6. End(s) /\ Write(b, row) /\ UNCHANGED <<posted, payable, settled, paid, held, note, goods>>
  BY <1>2 DEF Decide
<1> HIDE DEF row
<1>7. batch[b].status \notin {"none", "draft"}
  BY <1>1, <1>2 DEF SessionHolds, CopyHasTheLines, RequestFits, Decide
<1>8. Total(Exposed(b)) <= row.routed
  BY <1>5, <1>7 DEF BatchInv, BatchIsCovered
<1>9. /\ \A t \in Sessions : tx[t].op = "execute" /\ tx[t].doc = b =>
           \A i \in tx[t].ran : row.lines[i] = batch[b].lines[i]
      /\ \A i \in Invoices : row.lines[i] \in {0, batch[b].lines[i]}
      /\ \A i \in Invoices : row.lines[i] > 0 => settled[i] + row.lines[i] >= Gross[i]
      /\ Total(row.lines) <= row.total
  BY <1>5 DEF BatchInv, BatchPaysInFull, BatchIsCovered
<1>10. Total([i \in Invoices |-> IF paid[b][i] > 0 THEN paid[b][i] ELSE row.lines[i]])
         <= row.routed
  BY <1>5, <1>8 DEF Exposed
<1> QED
  BY <1>4, <1>5, <1>6, <1>9, <1>10, WriteInv

(* An execution pays its lines as they stand, each for the first time.        *)
LEMMA ExecuteBatchInv ==
  ASSUME BatchInv, SettlementInv, SettlementInv', NEW s \in Sessions, Execute(s)
  PROVE  BatchInv'
<1>1. TypeOK /\ SessionHolds(s) /\ OnBatch(s)
  BY DEF BatchInv, Execute, Executing, Working, OnBatch
<1>2. PICK b \in Batches : b = tx[s].doc
  BY <1>1 DEF SessionHolds, RequestFits
<1> DEFINE row == [status |-> "executed", lines |-> batch[b].lines, total |-> batch[b].total,
                   routed |-> batch[b].routed]
<1>3. /\ batch[b].lines \in [Invoices -> Nat] /\ batch[b].total \in Nat
      /\ batch[b].routed \in Nat /\ paid[b] \in [Invoices -> Nat]
      /\ pend[s] \in [Invoices -> Nat] /\ settled \in [Invoices -> Nat]
      /\ batch \in [Batches -> BatchRow] /\ paid \in [Batches -> [Invoices -> Nat]]
      /\ payable \in [Invoices -> Int] /\ Gross \in [Invoices -> Nat]
  BY <1>1, BatchFields, InvoiceAssumption DEF TypeOK
<1>4. row \in BatchRow
  BY <1>3 DEF BatchRow, Lines, Statuses
<1>5. /\ row.status = "executed" /\ row.lines = batch[b].lines
      /\ row.total = batch[b].total /\ row.routed = batch[b].routed
  OBVIOUS
<1>6. /\ End(s) /\ Write(b, row)
      /\ settled' = [i \in Invoices |-> settled[i] + pend[s][i]]
      /\ payable' = [i \in Invoices |-> payable[i] - pend[s][i]]
      /\ paid' = [paid EXCEPT ![b] = [i \in Invoices |-> paid[b][i] + pend[s][i]]]
      /\ UNCHANGED <<posted, held, note, goods>>
  BY <1>2 DEF Execute
<1> HIDE DEF row
<1>7. /\ batch' \in [Batches -> BatchRow] /\ batch'[b] = row
      /\ \A c \in Batches : c # b => batch'[c] = batch[c] /\ paid'[c] = paid[c]
      /\ paid'[b] = [i \in Invoices |-> paid[b][i] + pend[s][i]]
      /\ paid' \in [Batches -> [Invoices -> Nat]]
      /\ settled' \in [Invoices -> Nat] /\ payable' \in [Invoices -> Int]
      /\ \A i \in Invoices : settled[i] <= settled'[i] /\ settled'[i] = settled[i] + pend[s][i]
  BY <1>3, <1>4, <1>6 DEF Write
<1>8. /\ tx' \in [Sessions -> Request]
      /\ pend' \in [Sessions -> [Invoices -> Nat]]
      /\ rowLock' \in [Invoices -> Sessions \cup {Free}]
      /\ \A t \in Sessions : t # s => tx'[t] = tx[t] /\ pend'[t] = pend[t]
      /\ SessionHolds(s)'
  BY <1>1, <1>6, EndTx
<1>9. TypeOK'
  BY <1>1, <1>6, <1>7, <1>8 DEF TypeOK
<1>10. batch[b].status \notin {"none", "draft"}
  BY <1>1, <1>2 DEF SessionHolds, CopyHasTheLines, RequestFits, Execute, Executing
<1>11. ASSUME NEW i \in Invoices, pend[s][i] > 0
       PROVE  /\ pend[s][i] = batch[b].lines[i]
              /\ paid[b][i] = 0
              /\ settled[i] + batch[b].lines[i] >= Gross[i]
  <2>1. i \in tx[s].ran /\ pend[s][i] = batch[b].lines[i]
    BY <1>1, <1>2, <1>11 DEF SessionHolds, WorkFollowsLines, Execute, Executing, Working
  <2>2. settled[i] + pend[s][i] <= Gross[i]
    BY DEF SettlementInv, Money, SettlementIsLocked
  <2>3. settled[i] + batch[b].lines[i] >= Gross[i] /\ (paid[b][i] > 0 => settled[i] >= Gross[i])
    BY <1>11, <2>1 DEF BatchInv, BatchPaysInFull
  <2>4. settled[i] \in Nat /\ pend[s][i] \in Nat /\ Gross[i] \in Nat /\ paid[b][i] \in Nat
    BY <1>3
  <2> QED
    BY <1>11, <2>1, <2>2, <2>3, <2>4
<1>12. \A c \in Batches : BatchAdvances(c)
  BY <1>5, <1>7, <1>10 DEF BatchAdvances
<1>13. ASSUME NEW t \in Sessions PROVE SessionHolds(t)'
  <2> SUFFICES ASSUME t # s PROVE SessionHolds(t)'
    BY <1>8
  <2>1. SessionHolds(t) /\ (OnBatch(t) => tx[t].doc \in Batches)
    BY DEF BatchInv, SessionHolds, RequestFits
  <2>2. tx[t].op = "execute" =>
          \A i \in tx[t].ran : batch'[tx[t].doc].lines[i] = batch[tx[t].doc].lines[i]
    BY <1>5, <1>7, <2>1 DEF OnBatch
  <2>3. ASSUME OnBatch(t), tx[t].copy.status = "draft", NEW i \in Invoices
        PROVE  paid'[tx[t].doc][i] <= tx[t].copy.lines[i]
    <3>1. /\ paid[tx[t].doc][i] <= tx[t].copy.lines[i]
          /\ batch[tx[t].doc].lines[i] \in {0, tx[t].copy.lines[i]}
      BY <2>1, <2>3 DEF SessionHolds, CopyHasTheLines
    <3>2. CASE tx[t].doc # b
      BY <1>7, <2>1, <2>3, <3>1, <3>2
    <3>3. CASE tx[t].doc = b /\ pend[s][i] = 0
      <4>1. paid'[b][i] = paid[b][i]
        BY <1>3, <1>7, <3>3
      <4> QED
        BY <3>1, <3>3, <4>1
    <3>4. CASE tx[t].doc = b /\ pend[s][i] > 0
      <4>1. paid'[b][i] = batch[b].lines[i] /\ batch[b].lines[i] > 0
        BY <1>3, <1>7, <1>11, <3>4
      <4>2. batch[b].lines[i] \in Nat /\ batch[b].lines[i] = tx[t].copy.lines[i]
        BY <1>3, <3>1, <3>4, <4>1
      <4>3. paid'[tx[t].doc][i] = batch[b].lines[i]
        BY <3>4, <4>1
      <4> QED
        BY ONLY <4>2, <4>3
    <3> QED
      BY <1>3, <3>2, <3>3, <3>4
  <2> QED
    BY <1>7, <1>8, <1>12, <2>2, <2>3, OtherSession
<1>14. ASSUME NEW c \in Batches PROVE (BatchPaysInFull(c) /\ BatchIsCovered(c))'
  <2>1. CASE c # b
    BY <1>7, <2>1, OtherBatch
  <2>2. CASE c = b
    <3>1. ASSUME NEW i \in Invoices
          PROVE  /\ paid'[b][i] = IF pend[s][i] > 0 THEN batch[b].lines[i] ELSE paid[b][i]
                 /\ pend[s][i] > 0 => paid[b][i] = 0 /\ batch[b].lines[i] > 0
                 /\ batch[b].lines[i] > 0 => settled'[i] + batch[b].lines[i] >= Gross[i]
                 /\ paid'[b][i] > 0 => settled'[i] >= Gross[i]
      <4>1. /\ batch[b].lines[i] > 0 => settled[i] + batch[b].lines[i] >= Gross[i]
            /\ paid[b][i] > 0 => settled[i] >= Gross[i]
        BY DEF BatchInv, BatchPaysInFull
      <4>2. /\ settled[i] \in Nat /\ pend[s][i] \in Nat /\ Gross[i] \in Nat
            /\ paid[b][i] \in Nat /\ batch[b].lines[i] \in Nat
            /\ settled'[i] = settled[i] + pend[s][i]
            /\ paid'[b][i] = paid[b][i] + pend[s][i]
        BY <1>3, <1>7
      <4>3. CASE pend[s][i] > 0
        BY <1>11, <4>1, <4>2, <4>3
      <4>4. CASE pend[s][i] = 0
        BY <4>1, <4>2, <4>4
      <4> QED
        BY <4>2, <4>3, <4>4
    <3>2. BatchPaysInFull(b)'
      BY <1>5, <1>7, <3>1 DEF BatchPaysInFull
    <3>3. Exposed(b)' = Exposed(b)
      <4>1. Exposed(b)' = [i \in Invoices |-> IF paid'[b][i] > 0 THEN paid'[b][i]
                                              ELSE batch[b].lines[i]]
        BY <1>5, <1>7 DEF Exposed
      <4>2. \A i \in Invoices :
              (IF paid'[b][i] > 0 THEN paid'[b][i] ELSE batch[b].lines[i])
                = (IF paid[b][i] > 0 THEN paid[b][i] ELSE batch[b].lines[i])
        BY <1>3, <3>1
      <4> QED
        BY <4>1, <4>2 DEF Exposed
    <3>4. BatchIsCovered(b)'
      BY <1>5, <1>7, <1>10, <3>3 DEF BatchIsCovered, BatchInv
    <3> QED
      BY <2>2, <3>2, <3>4
  <2> QED
    BY <2>1, <2>2
<1> QED
  BY <1>9, <1>13, <1>14 DEF BatchInv

(* A request that goes on and leaves the documents alone keeps the invariant  *)
(* when its own part of it holds again.                                       *)
LEMMA GoOnBatchInv ==
  ASSUME BatchInv, NEW s \in Sessions, NEW at \in Invoices \cup {None},
         NEW ran \in SUBSET Invoices, NEW due \in Nat, GoOn(s, at, ran, due),
         UNCHANGED <<documents, held>>,
         pend' \in [Sessions -> [Invoices -> Nat]],
         rowLock' \in [Invoices -> Sessions \cup {Free}],
         \A t \in Sessions : t # s => pend'[t] = pend[t],
         WorkFollowsLines(s)'
  PROVE  BatchInv'
<1>1. TypeOK /\ SessionHolds(s)
  BY DEF BatchInv
<1>2. /\ tx' \in [Sessions -> Request]
      /\ tx'[s].op = tx[s].op /\ tx'[s].doc = tx[s].doc /\ tx'[s].copy = tx[s].copy
      /\ \A t \in Sessions : t # s => tx'[t] = tx[t]
  BY <1>1, GoOnTx
<1>3. /\ batch' = batch /\ paid' = paid /\ settled' = settled
  BY DEF documents
<1>4. TypeOK'
  BY <1>1, <1>2 DEF TypeOK, documents
<1>5. \A t \in Sessions : t # s => SessionHolds(t)'
  BY <1>2, <1>3, QuietSession
<1>6. \A b \in Batches : (BatchPaysInFull(b) /\ BatchIsCovered(b))'
  BY <1>3, QuietBatch
<1>8. SessionHolds(s)'
  BY <1>1, <1>2, <1>3
     DEF SessionHolds, RequestFits, CopyPaysInFull, CopyHasTheLines, CopyIsCovered, OnBatch
<1> QED
  BY <1>4, <1>5, <1>6, <1>8 DEF BatchInv

(* A hold or a note is looked at.                                             *)
LEMMA CheckBatchInv ==
  ASSUME BatchInv, SettlementInv, NEW s \in Sessions,
         CheckNote(s) \/ \E i \in Invoices : CheckHold(s, i)
  PROVE  BatchInv'
<1>1. TypeOK /\ SessionHolds(s)
  BY DEF BatchInv
<1>2. ASSUME NEW i \in Invoices, CheckHold(s, i) PROVE BatchInv'
  <2>1. /\ GoOn(s, i, tx[s].ran, tx[s].due) /\ UNCHANGED <<documents, held, rowLock, pend>>
        /\ i \notin tx[s].ran /\ tx[s].op = "execute"
    BY <1>2 DEF CheckHold, Executing, Working
  <2>2. tx[s].ran \in SUBSET Invoices /\ tx[s].due \in Nat
    BY <1>1, RequestFields
  <2>3. /\ tx'[s].op = tx[s].op /\ tx'[s].doc = tx[s].doc /\ tx'[s].copy = tx[s].copy
        /\ tx'[s].at = i /\ tx'[s].ran = tx[s].ran
    <3>1. i \in Invoices \cup {None}
      OBVIOUS
    <3>2. PICK ran \in SUBSET Invoices : ran = tx[s].ran
      BY <2>2
    <3>3. PICK due \in Nat : due = tx[s].due
      BY <2>2
    <3>4. TypeOK /\ GoOn(s, i, ran, due)
      BY <1>1, <2>1, <3>2, <3>3
    <3> QED
      BY ONLY <3>1, <3>2, <3>3, <3>4, s \in Sessions, GoOnTx
  <2>4. WorkFollowsLines(s)'
    BY <1>1, <2>1, <2>3 DEF SessionHolds, WorkFollowsLines, documents
  <2> QED
    BY <1>1, <2>1, <2>2, <2>4, GoOnBatchInv DEF TypeOK
<1>3. CASE CheckNote(s)
  <2>1. PICK n \in Notes : n = tx[s].doc
    BY <1>1, <1>3 DEF CheckNote, Working, SessionHolds, RequestFits
  <2>2. PICK i \in Invoices : i = NoteOf[n]
    BY NoteAssumption, InvoiceAssumption
  <2>3. PICK due \in Nat : due = Gross[i] - settled[i]
    BY InvoiceAssumption DEF SettlementInv, Money, MoneyTypes, SettledWithinGross
  <2>4. /\ GoOn(s, i, {}, due) /\ UNCHANGED <<documents, held, rowLock, pend>>
        /\ tx[s].ran = {} /\ tx[s].op = "note"
    BY <1>3, <2>1, <2>2, <2>3 DEF CheckNote, Working
  <2>5. /\ tx'[s].op = tx[s].op /\ tx'[s].doc = tx[s].doc /\ tx'[s].copy = tx[s].copy
        /\ tx'[s].at = i /\ tx'[s].ran = {}
    BY <1>1, <2>4, GoOnTx
  <2>6. WorkFollowsLines(s)'
    BY <1>1, <2>4, <2>5 DEF SessionHolds, WorkFollowsLines, documents
  <2> QED
    BY <1>1, <2>4, <2>6, GoOnBatchInv DEF TypeOK
<1> QED
  BY <1>2, <1>3

(* A settlement is added to what the session has open on the invoice.         *)
LEMMA SettlePend ==
  ASSUME TypeOK, NEW s \in Sessions, NEW i \in Invoices, NEW amount \in Int,
         Settle(s, i, amount)
  PROVE  /\ pend' \in [Sessions -> [Invoices -> Nat]]
         /\ rowLock' \in [Invoices -> Sessions \cup {Free}]
         /\ \A t \in Sessions : t # s => pend'[t] = pend[t]
         /\ pend'[s][i] = pend[s][i] + amount
         /\ \A j \in Invoices : j # i => pend'[s][j] = pend[s][j]
         /\ amount > 0
<1>1. /\ pend' = [pend EXCEPT ![s][i] = @ + amount] /\ amount \in Nat /\ amount > 0
      /\ rowLock' = [rowLock EXCEPT ![i] = s]
  BY DEF Settle
<1>2. pend \in [Sessions -> [Invoices -> Nat]]
  BY DEF TypeOK
<1>3. pend[s][i] + amount \in Nat
  BY <1>1, <1>2
<1>4. pend' \in [Sessions -> [Invoices -> Nat]]
  BY <1>1, <1>2, <1>3
<1>5. /\ \A t \in Sessions : t # s => pend'[t] = pend[t]
      /\ pend'[s][i] = pend[s][i] + amount
      /\ \A j \in Invoices : j # i => pend'[s][j] = pend[s][j]
  BY <1>1, <1>2
<1> QED
  BY <1>1, <1>4, <1>5 DEF TypeOK

(* A line is paid as the batch still has it.                                  *)
LEMMA PayLineBatchInv ==
  ASSUME BatchInv, NEW s \in Sessions, PayLine(s)
  PROVE  BatchInv'
<1>1. TypeOK /\ SessionHolds(s)
  BY DEF BatchInv
<1>2. PICK i \in Invoices : i = tx[s].at
  BY <1>1, RequestFields DEF PayLine
<1>3. PICK amount \in Nat : amount = tx[s].copy.lines[i]
  BY <1>1, RequestFields
<1>4. /\ Settle(s, i, amount) /\ GoOn(s, None, tx[s].ran \cup {i}, tx[s].due)
      /\ UNCHANGED <<documents, held>> /\ i \in Names(batch[tx[s].doc].lines)
      /\ tx[s].op = "execute" /\ i # None
  BY <1>2, <1>3 DEF PayLine, Executing, Working
<1>5. tx[s].ran \cup {i} \in SUBSET Invoices /\ tx[s].due \in Nat /\ None \in Invoices \cup {None}
  BY <1>1, RequestFields
<1>6. /\ tx'[s].op = "execute" /\ tx'[s].doc = tx[s].doc /\ tx'[s].copy = tx[s].copy
      /\ tx'[s].at = None /\ tx'[s].ran = tx[s].ran \cup {i}
  BY <1>1, <1>4, <1>5, GoOnTx
<1>7. /\ pend' \in [Sessions -> [Invoices -> Nat]]
      /\ rowLock' \in [Invoices -> Sessions \cup {Free}]
      /\ \A t \in Sessions : t # s => pend'[t] = pend[t]
      /\ pend'[s][i] = pend[s][i] + amount
      /\ \A j \in Invoices : j # i => pend'[s][j] = pend[s][j]
      /\ amount > 0
  BY <1>1, <1>4, SettlePend
<1>8. pend[s][i] = 0
  BY <1>1, <1>2, <1>4 DEF SessionHolds, WorkFollowsLines, TypeOK
<1>9. batch[tx[s].doc].lines[i] = tx[s].copy.lines[i]
  BY <1>1, <1>4 DEF SessionHolds, CopyHasTheLines, OnBatch, Names
<1>10. WorkFollowsLines(s)'
  <2>1. batch' = batch
    BY <1>4 DEF documents
  <2>2. pend'[s][i] = tx[s].copy.lines[i] /\ pend'[s][i] > 0
    BY <1>3, <1>7, <1>8
  <2>3. ASSUME NEW j \in Invoices, pend'[s][j] > 0
        PROVE  j \in tx'[s].ran
    BY <1>1, <1>6, <1>7, <2>3 DEF SessionHolds, WorkFollowsLines
  <2>4. ASSUME NEW j \in tx'[s].ran
        PROVE  /\ pend'[s][j] = tx[s].copy.lines[j] /\ pend'[s][j] > 0
               /\ batch[tx[s].doc].lines[j] = tx[s].copy.lines[j]
    <3>1. CASE j = i
      BY <1>9, <2>2, <3>1
    <3>2. CASE j # i
      <4>1. j \in tx[s].ran /\ j \in Invoices
        BY <1>5, <1>6, <3>2
      <4> QED
        BY <1>1, <1>4, <1>7, <3>2, <4>1 DEF SessionHolds, WorkFollowsLines
    <3> QED
      BY <3>1, <3>2
  <2> QED
    BY <1>6, <2>1, <2>3, <2>4 DEF WorkFollowsLines
<1> QED
  BY <1>4, <1>5, <1>7, <1>10, GoOnBatchInv

(* A note settles its invoice once.                                           *)
LEMMA SettleNoteBatchInv ==
  ASSUME BatchInv, NEW s \in Sessions, SettleNote(s)
  PROVE  BatchInv'
<1>1. TypeOK /\ SessionHolds(s)
  BY DEF BatchInv
<1>2. PICK i \in Invoices : i = tx[s].at
  BY <1>1, RequestFields DEF SettleNote
<1>3. PICK n \in Notes : n = tx[s].doc
  BY <1>1 DEF SettleNote, Working, SessionHolds, RequestFits
<1>4. NoteGross[n] \in Nat /\ tx[s].due \in Nat
  BY <1>1, NoteAssumption, RequestFields
<1>5. PICK amount \in Nat : amount = Lesser(NoteGross[n], tx[s].due)
  BY <1>4 DEF Lesser
<1>6. amount <= NoteGross[n]
  BY <1>4, <1>5 DEF Lesser
<1>7. /\ Settle(s, i, amount) /\ GoOn(s, None, {i}, tx[s].due)
      /\ UNCHANGED <<documents, held>> /\ tx[s].op = "note" /\ i # None
  BY <1>2, <1>3, <1>5 DEF SettleNote, Working
<1>8. {i} \in SUBSET Invoices /\ None \in Invoices \cup {None}
  OBVIOUS
<1>9. /\ tx'[s].op = "note" /\ tx'[s].doc = n /\ tx'[s].at = None /\ tx'[s].ran = {i}
  BY <1>1, <1>3, <1>4, <1>7, <1>8, GoOnTx
<1>10. /\ pend' \in [Sessions -> [Invoices -> Nat]]
       /\ rowLock' \in [Invoices -> Sessions \cup {Free}]
       /\ \A t \in Sessions : t # s => pend'[t] = pend[t]
       /\ pend'[s][i] = pend[s][i] + amount
       /\ \A j \in Invoices : j # i => pend'[s][j] = pend[s][j]
  BY <1>1, <1>7, SettlePend
<1>11. \A j \in Invoices : pend[s][j] = 0
  BY <1>1, <1>2, <1>7 DEF SessionHolds, WorkFollowsLines, TypeOK
<1>12. pend'[s][i] = amount /\ \A j \in Invoices : j # i => pend'[s][j] = 0
  BY <1>10, <1>11
<1>13. \A j \in Invoices : pend'[s][j] <= NoteGross[n] /\ (pend'[s][j] > 0 => j = i)
  BY <1>4, <1>6, <1>12
<1>14. WorkFollowsLines(s)'
  BY <1>9, <1>13 DEF WorkFollowsLines
<1> QED
  BY <1>4, <1>7, <1>8, <1>10, <1>14, GoOnBatchInv

(* A request that ends without writing a batch; it may have settled.          *)
LEMMA EndBatchInv ==
  ASSUME BatchInv, NEW s \in Sessions, End(s), TypeOK', batch' = batch, paid' = paid,
         \A i \in Invoices : settled[i] <= settled'[i]
  PROVE  BatchInv'
<1>1. TypeOK
  BY DEF BatchInv
<1>2. /\ \A t \in Sessions : t # s => tx'[t] = tx[t] /\ pend'[t] = pend[t]
      /\ SessionHolds(s)'
  BY <1>1, EndTx
<1>3. settled' \in [Invoices -> Nat]
  BY DEF TypeOK
<1>4. \A b \in Batches : BatchAdvances(b)
  BY DEF BatchAdvances
<1>5. ASSUME NEW t \in Sessions PROVE SessionHolds(t)'
  <2>1. SessionHolds(t)
    BY DEF BatchInv
  <2>2. OnBatch(t) /\ tx[t].copy.status = "draft" =>
          \A i \in Invoices : paid'[tx[t].doc][i] <= tx[t].copy.lines[i]
    BY <2>1 DEF SessionHolds, CopyHasTheLines
  <2>3. tx[t].op = "execute" =>
          \A i \in tx[t].ran : batch'[tx[t].doc].lines[i] = batch[tx[t].doc].lines[i]
    OBVIOUS
  <2> QED
    BY <1>2, <1>3, <1>4, <2>2, <2>3, OtherSession
<1>6. \A b \in Batches : (BatchPaysInFull(b) /\ BatchIsCovered(b))'
  BY <1>3, OtherBatch
<1> QED
  BY <1>5, <1>6 DEF BatchInv

LEMMA QuantityIsNatural ==
  ASSUME NEW n \in Notes
  PROVE  Quantity(n) \in Nat
<1>1. NoteLines[n] \in Seq(Nat \ {0})
  BY NoteAssumption
<1>2. Len(NoteLines[n]) \in Nat /\ NoteLines[n] \in [1..Len(NoteLines[n]) -> Nat]
  BY <1>1
<1>3. PICK a \in Int, b \in Int : a = 1 /\ b = Len(NoteLines[n])
  BY <1>2
<1>4. IsFiniteSet(a..b)
  BY ONLY a \in Int, b \in Int, FS_Interval, Zenon
<1>5. IsFiniteSet(1..Len(NoteLines[n]))
  BY <1>3, <1>4
<1> QED
  BY <1>2, <1>5, UnitsAreFinite DEF Quantity

(* A posted note settles its part, and keeps the rest as unapplied.           *)
LEMMA PostNoteBatchInv ==
  ASSUME BatchInv, SettlementInv, SettlementInv', NEW s \in Sessions, PostNote(s)
  PROVE  BatchInv'
<1>1. TypeOK /\ SessionHolds(s)
  BY DEF BatchInv
<1>2. PICK n \in Notes : n = tx[s].doc
  BY <1>1 DEF PostNote, Working, SessionHolds, RequestFits
<1>3. PICK i \in Invoices : i = NoteOf[n]
  BY NoteAssumption, InvoiceAssumption
<1>4. /\ End(s) /\ batch' = batch /\ paid' = paid /\ posted' = posted /\ held' = held
      /\ settled' = [settled EXCEPT ![i] = @ + pend[s][i]]
      /\ payable' = [payable EXCEPT ![i] = @ - NoteGross[n]]
      /\ goods' = goods - Quantity(n)
      /\ note' = [note EXCEPT ![n] = [posted |-> TRUE, unapplied |-> NoteGross[n] - pend[s][i]]]
      /\ tx[s].op = "note"
  BY <1>2, <1>3 DEF PostNote, Working
<1>5. /\ NoteGross[n] \in Nat /\ pend[s][i] \in Nat /\ pend[s][i] <= NoteGross[n]
      /\ Quantity(n) \in Nat
  <2>1. NoteGross[n] \in Nat /\ Quantity(n) \in Nat
    BY NoteAssumption, QuantityIsNatural
  <2>2. pend[s][i] \in Nat
    BY <1>1 DEF TypeOK
  <2>3. pend[s][i] <= NoteGross[n]
    BY <1>1, <1>2, <1>4 DEF SessionHolds, WorkFollowsLines
  <2> QED
    BY <2>1, <2>2, <2>3
<1>6. TypeOK'
  <2>1. /\ tx' \in [Sessions -> Request]
        /\ pend' \in [Sessions -> [Invoices -> Nat]]
        /\ rowLock' \in [Invoices -> Sessions \cup {Free}]
    BY <1>1, <1>4, EndTx
  <2>2. note' \in [Notes -> NoteRow]
    <3>1. [posted |-> TRUE, unapplied |-> NoteGross[n] - pend[s][i]] \in NoteRow
      BY <1>5 DEF NoteRow
    <3> QED
      BY <1>1, <1>4, <3>1 DEF TypeOK
  <2>3. payable' \in [Invoices -> Int] /\ goods' \in Int /\ settled' \in [Invoices -> Nat]
    BY <1>1, <1>4, <1>5 DEF TypeOK
  <2> QED
    BY <1>1, <1>4, <2>1, <2>2, <2>3 DEF TypeOK
<1>7. \A j \in Invoices : settled[j] <= settled'[j]
  BY <1>1, <1>4, <1>5 DEF TypeOK
<1> QED
  BY <1>4, <1>6, <1>7, EndBatchInv

(* An invoice is posted, or a request is given up.                            *)
LEMMA EndQuietBatchInv ==
  ASSUME BatchInv, NEW s \in Sessions, PostInvoice(s) \/ Rollback(s)
  PROVE  BatchInv'
<1>1. TypeOK /\ SessionHolds(s)
  BY DEF BatchInv
<1>2. /\ End(s) /\ batch' = batch /\ paid' = paid /\ settled' = settled
      /\ held' = held /\ note' = note /\ goods' = goods
  BY DEF PostInvoice, Rollback, documents
<1>3. posted' \subseteq Invoices /\ payable' \in [Invoices -> Int]
  <2>1. CASE PostInvoice(s)
    <3>1. PICK i \in Invoices : i = tx[s].doc
      BY <1>1, <2>1 DEF PostInvoice, Working, SessionHolds, RequestFits
    <3>2. Gross[i] \in Nat
      BY InvoiceAssumption
    <3>3. posted' = posted \cup {i} /\ payable' = [payable EXCEPT ![i] = @ + Gross[i]]
      BY <2>1, <3>1 DEF PostInvoice
    <3> QED
      BY <1>1, <3>2, <3>3 DEF TypeOK
  <2>2. CASE Rollback(s)
    BY <1>1, <2>2 DEF Rollback, documents, TypeOK
  <2> QED
    BY <2>1, <2>2
<1>4. TypeOK'
  <2>1. /\ tx' \in [Sessions -> Request]
        /\ pend' \in [Sessions -> [Invoices -> Nat]]
        /\ rowLock' \in [Invoices -> Sessions \cup {Free}]
    BY <1>1, <1>2, EndTx
  <2> QED
    BY <1>1, <1>2, <1>3, <2>1 DEF TypeOK
<1>5. \A j \in Invoices : settled[j] <= settled'[j]
  BY <1>1, <1>2 DEF TypeOK
<1> QED
  BY <1>2, <1>4, <1>5, EndBatchInv

(* Every step keeps the invariant of the batches.                             *)
LEMMA NextBatchInv ==
  BatchInv /\ SettlementInv /\ SettlementInv' /\ [Next]_vars => BatchInv'
<1> SUFFICES ASSUME BatchInv, SettlementInv, SettlementInv', [Next]_vars PROVE BatchInv'
  OBVIOUS
<1>1. CASE UNCHANGED vars \/ Ship \/ \E i \in Invoices : Hold(i) \/ Release(i)
  <2>1. /\ UNCHANGED <<posted, payable, settled, paid, batch, note, rowLock, tx, pend>>
        /\ held' \subseteq Invoices /\ goods' \in Int
    BY <1>1 DEF vars, Ship, Hold, Release, documents, BatchInv, TypeOK
  <2>2. TypeOK'
    BY <2>1 DEF BatchInv, TypeOK
  <2>3. \A s \in Sessions : SessionHolds(s)'
    BY <2>1, QuietSession
  <2>4. \A b \in Batches : (BatchPaysInFull(b) /\ BatchIsCovered(b))'
    BY <2>1, QuietBatch
  <2> QED
    BY <2>2, <2>3, <2>4 DEF BatchInv
<1> QED
  BY <1>1, StartBatchInv, CreateBatchInv, RemoveLineInv, SubmitInv, DecideInv, ExecuteBatchInv,
     CheckBatchInv, PayLineBatchInv, SettleNoteBatchInv, PostNoteBatchInv, EndQuietBatchInv
  DEF Next

(* In every reachable state a line of a batch settles its invoice in full,     *)
(* what a batch pays or may still pay stays within what it was approved for,   *)
(* and what a session has loaded of a batch is no less than what the batch     *)
(* still holds (payment_batches.py, payments.py).                              *)
THEOREM BatchInvariant == Spec => []BatchInv
<1> QED
  BY BatchInitInv, NextBatchInv, SettlementInvariant, PTL DEF Spec

(* What has been paid is part of what a batch is exposed to.                  *)
LEMMA CoveredMeansApproved == BatchInv => TypeOK /\ PaidWithinApproval
<1> SUFFICES ASSUME BatchInv, NEW b \in Batches
             PROVE  Total(paid[b]) <= batch[b].routed
  BY DEF BatchInv, PaidWithinApproval
<1>1. /\ TypeOK /\ BatchIsCovered(b)
      /\ paid[b] \in [Invoices -> Nat] /\ batch[b].lines \in [Invoices -> Nat]
      /\ batch[b].routed \in Nat
  BY BatchFields DEF BatchInv
<1>2. CASE batch[b].status \in {"none", "draft"}
  BY <1>1, <1>2, NothingInTotal DEF BatchIsCovered
<1>3. CASE batch[b].status \notin {"none", "draft"}
  <2>1. Exposed(b) \in [Invoices -> Nat] /\ \A i \in Invoices : paid[b][i] <= Exposed(b)[i]
    BY <1>1 DEF Exposed
  <2>2. /\ Total(paid[b]) <= Total(Exposed(b))
        /\ Total(paid[b]) \in Nat /\ Total(Exposed(b)) \in Nat
    BY <1>1, <2>1, InvoiceAssumption, TotalIsMonotone, UnitsAreFinite
  <2>3. Total(Exposed(b)) <= batch[b].routed
    BY <1>1, <1>3 DEF BatchIsCovered
  <2> QED
    BY <1>1, <2>2, <2>3
<1> QED
  BY <1>2, <1>3

(* Whatever is removed, decided twice or executed by several sessions, in any *)
(* interleaving, a batch pays at most the total that was sent for approval.   *)
THEOREM BatchesPayWhatWasApproved == Spec => [](TypeOK /\ PaidWithinApproval)
<1> QED
  BY BatchInvariant, CoveredMeansApproved, PTL

(* --------------- the control account follows the documents ---------------- *)

(* What is being posted is still a draft, and a draft note has nothing that   *)
(* is unapplied.                                                              *)
DraftsArePosted ==
  /\ \A n \in Notes : ~note[n].posted => note[n].unapplied = 0
  /\ \A s \in Sessions :
       /\ tx[s].op = "post" /\ tx[s].fresh => tx[s].doc \notin posted
       /\ tx[s].op = "note" /\ tx[s].fresh => ~note[tx[s].doc].posted
       /\ tx[s].op = "note" /\ (tx[s].at # None \/ tx[s].ran # {}) => tx[s].fresh

AccountsFollow ==
  \A i \in Invoices :
    payable[i] = (IF i \in posted THEN Gross[i] ELSE 0) - settled[i] - Unapplied(i)

ControlInv == DraftsArePosted /\ AccountsFollow

UnappliedOf(i) == [n \in Notes |-> IF NoteOf[n] = i THEN note[n].unapplied ELSE 0]

LEMMA UnappliedType ==
  ASSUME TypeOK, NEW i \in Invoices
  PROVE  /\ UnappliedOf(i) \in [Notes -> Nat]
         /\ Unapplied(i) = Total(UnappliedOf(i))
         /\ Unapplied(i) \in Nat
<1>1. \A n \in Notes : note[n].unapplied \in Nat
  BY DEF TypeOK, NoteRow
<1>2. UnappliedOf(i) \in [Notes -> Nat]
  BY <1>1 DEF UnappliedOf
<1> QED
  BY <1>2, UnitsAreFinite, NoteAssumption DEF Unapplied, UnappliedOf

LEMMA ControlInitInv == Init => ControlInv
<1> SUFFICES ASSUME Init PROVE ControlInv
  OBVIOUS
<1>1. TypeOK
  BY BatchInitInv DEF BatchInv
<1>2. DraftsArePosted
  BY DEF Init, DraftsArePosted, Draft, Closed, None
<1>3. ASSUME NEW i \in Invoices PROVE Unapplied(i) = 0
  <2>1. \A n \in Notes : UnappliedOf(i)[n] = 0
    BY DEF Init, Draft, UnappliedOf
  <2>2. Units(UnappliedOf(i)) = {}
    <3>1. \A u : u \notin Units(UnappliedOf(i))
      BY <1>1, <2>1, UnappliedType, UnitsMembers
    <3> QED
      BY <3>1
  <2> QED
    BY <1>1, <2>2, UnappliedType, FS_EmptySet DEF Total
<1>4. AccountsFollow
  BY <1>3, InvoiceAssumption DEF Init, AccountsFollow
<1> QED
  BY <1>2, <1>4 DEF ControlInv

(* A step that posts nothing and settles nothing.                             *)
LEMMA SameAccounts ==
  ASSUME AccountsFollow, UNCHANGED <<posted, payable, settled, note>>
  PROVE  AccountsFollow'
<1>1. \A i \in Invoices : Unapplied(i)' = Unapplied(i)
  BY DEF Unapplied
<1> QED
  BY <1>1 DEF AccountsFollow

(* A request that ends without posting keeps the drafts.                      *)
LEMMA EndDrafts ==
  ASSUME BatchInv, DraftsArePosted, NEW s \in Sessions, End(s), UNCHANGED <<posted, note>>
  PROVE  DraftsArePosted'
<1>1. /\ \A t \in Sessions : t # s => tx'[t] = tx[t]
      /\ tx'[s].op = None
  BY DEF BatchInv, TypeOK, End, Closed
<1> QED
  BY <1>1 DEF DraftsArePosted, None

LEMMA OpenDrafts ==
  ASSUME BatchInv, DraftsArePosted, NEW s \in Sessions, NEW op, NEW doc, NEW copy, NEW fresh,
         Open(s, op, doc, copy, fresh),
         op = "post" /\ fresh => doc \notin posted,
         op = "note" /\ fresh => ~note[doc].posted
  PROVE  DraftsArePosted'
<1> DEFINE new == [op |-> op, doc |-> doc, copy |-> copy, fresh |-> fresh,
                   at |-> None, ran |-> {}, due |-> 0]
<1>1. tx' = [tx EXCEPT ![s] = new] /\ posted' = posted /\ note' = note
  BY DEF Open, documents
<1>2. /\ new.op = op /\ new.doc = doc /\ (new.fresh <=> fresh)
      /\ new.at = None /\ new.ran = {}
  OBVIOUS
<1> HIDE DEF new
<1>3. tx'[s] = new /\ \A t \in Sessions : t # s => tx'[t] = tx[t]
  BY <1>1 DEF BatchInv, TypeOK
<1> QED
  BY <1>1, <1>2, <1>3 DEF DraftsArePosted

LEMMA StartControlInv ==
  ASSUME BatchInv, ControlInv, NEW s \in Sessions,
         \/ \E i \in Invoices : StartPost(s, i)
         \/ \E b \in Batches, selection \in Selections : StartCreate(s, b, selection)
         \/ \E b \in Batches, op \in Operations : StartBatch(s, op, b)
         \/ \E n \in Notes : StartNote(s, n)
  PROVE  ControlInv'
<1>1. ASSUME NEW i \in Invoices, StartPost(s, i) PROVE DraftsArePosted'
  BY <1>1, OpenDrafts DEF StartPost, ControlInv
<1>2. ASSUME NEW b \in Batches, NEW selection \in Selections, StartCreate(s, b, selection)
      PROVE  DraftsArePosted'
  <2>1. PICK copy, fresh : Open(s, "create", b, copy, fresh)
    BY <1>2 DEF StartCreate
  <2> QED
    BY <2>1, OpenDrafts DEF ControlInv
<1>3. ASSUME NEW b \in Batches, NEW op \in Operations, StartBatch(s, op, b)
      PROVE  DraftsArePosted'
  <2>1. op \notin {"post", "note"} /\ Open(s, op, b, batch[b], TRUE)
    BY <1>3 DEF StartBatch
  <2> QED
    BY <2>1, OpenDrafts DEF ControlInv
<1>4. ASSUME NEW n \in Notes, StartNote(s, n) PROVE DraftsArePosted'
  BY <1>4, OpenDrafts DEF StartNote, ControlInv
<1>5. UNCHANGED <<posted, payable, settled, note>>
  BY DEF StartPost, StartCreate, StartBatch, StartNote, Open, documents
<1> QED
  BY <1>1, <1>2, <1>3, <1>4, <1>5, SameAccounts DEF ControlInv

LEMMA GoOnControlInv ==
  ASSUME BatchInv, SettlementInv, ControlInv, NEW s \in Sessions,
         \/ \E i \in Invoices : CheckHold(s, i)
         \/ PayLine(s)
         \/ CheckNote(s)
         \/ SettleNote(s)
  PROVE  ControlInv'
<1>1. /\ UNCHANGED <<posted, payable, settled, note>>
      /\ \E at, ran, due : GoOn(s, at, ran, due)
      /\ tx[s].op = "note" => tx[s].fresh
  <2>1. CASE CheckNote(s)
    BY <2>1 DEF CheckNote, documents
  <2>2. CASE SettleNote(s)
    BY <2>2 DEF SettleNote, documents, ControlInv, DraftsArePosted
  <2>3. CASE PayLine(s)
    BY <2>3 DEF PayLine, Executing, Working, documents
  <2>4. ASSUME NEW i \in Invoices, CheckHold(s, i)
        PROVE  /\ UNCHANGED <<posted, payable, settled, note>>
               /\ GoOn(s, i, tx[s].ran, tx[s].due)
               /\ tx[s].op # "note"
    BY <2>4 DEF CheckHold, Executing, Working, documents
  <2> QED
    BY <2>1, <2>2, <2>3, <2>4
<1>2. PICK at, ran, due : GoOn(s, at, ran, due)
  BY <1>1
<1>3. /\ tx'[s].op = tx[s].op /\ tx'[s].doc = tx[s].doc /\ tx'[s].fresh = tx[s].fresh
      /\ \A t \in Sessions : t # s => tx'[t] = tx[t]
  BY <1>2 DEF GoOn, BatchInv, TypeOK
<1>4. DraftsArePosted'
  BY <1>1, <1>3 DEF ControlInv, DraftsArePosted
<1> QED
  BY <1>1, <1>4, SameAccounts DEF ControlInv

(* Money that is settled leaves the account with it.                          *)
LEMMA ExecuteControlInv ==
  ASSUME BatchInv, ControlInv, NEW s \in Sessions, Execute(s)
  PROVE  ControlInv'
<1>1. /\ End(s) /\ UNCHANGED <<posted, note>>
      /\ settled' = [i \in Invoices |-> settled[i] + pend[s][i]]
      /\ payable' = [i \in Invoices |-> payable[i] - pend[s][i]]
  BY DEF Execute
<1>2. DraftsArePosted'
  BY <1>1, EndDrafts DEF ControlInv
<1>3. \A i \in Invoices : Unapplied(i)' = Unapplied(i)
  BY <1>1 DEF Unapplied
<1>4. ASSUME NEW i \in Invoices
      PROVE  payable'[i] = (IF i \in posted' THEN Gross[i] ELSE 0) - settled'[i] - Unapplied(i)'
  <2>1. /\ settled[i] \in Nat /\ pend[s][i] \in Nat /\ payable[i] \in Int /\ Gross[i] \in Nat
        /\ Unapplied(i) \in Nat
    BY InvoiceAssumption, UnappliedType DEF BatchInv, TypeOK
  <2>2. payable[i] = (IF i \in posted THEN Gross[i] ELSE 0) - settled[i] - Unapplied(i)
    BY DEF ControlInv, AccountsFollow
  <2>3. /\ settled'[i] = settled[i] + pend[s][i] /\ payable'[i] = payable[i] - pend[s][i]
        /\ posted' = posted /\ Unapplied(i)' = Unapplied(i)
    BY <1>1, <1>3
  <2> QED
    BY <2>1, <2>2, <2>3
<1> QED
  BY <1>2, <1>4 DEF ControlInv, AccountsFollow

(* One clerk posts an invoice: it was a draft and becomes owed once.          *)
LEMMA PostInvoiceControlInv ==
  ASSUME OneClerk, BatchInv, ControlInv, NEW s \in Sessions, PostInvoice(s)
  PROVE  ControlInv'
<1>1. TypeOK /\ SessionHolds(s)
  BY DEF BatchInv
<1>2. PICK i \in Invoices : i = tx[s].doc
  BY <1>1 DEF PostInvoice, Working, SessionHolds, RequestFits
<1>3. /\ End(s) /\ UNCHANGED <<settled, note>> /\ tx[s].op = "post" /\ tx[s].fresh
      /\ posted' = posted \cup {i}
      /\ payable' = [payable EXCEPT ![i] = @ + Gross[i]]
  BY <1>2 DEF PostInvoice, Working
<1>4. \A t \in Sessions : t # s => tx[t].op # "post"
  BY <1>3 DEF OneClerk, BatchInv, SessionHolds, RequestFits, None
<1>5. DraftsArePosted'
  <2>1. /\ \A t \in Sessions : t # s => tx'[t] = tx[t]
        /\ tx'[s].op = None
    BY <1>1, <1>3 DEF TypeOK, End, Closed
  <2> QED
    BY <1>3, <1>4, <2>1 DEF ControlInv, DraftsArePosted, None
<1>6. i \notin posted
  BY <1>2, <1>3 DEF ControlInv, DraftsArePosted
<1>7. ASSUME NEW j \in Invoices
      PROVE  payable'[j] = (IF j \in posted' THEN Gross[j] ELSE 0) - settled'[j] - Unapplied(j)'
  <2>1. /\ settled[j] \in Nat /\ payable[j] \in Int /\ Gross[j] \in Nat
        /\ Unapplied(j) \in Nat
    BY InvoiceAssumption, UnappliedType, <1>1 DEF TypeOK
  <2>2. payable[j] = (IF j \in posted THEN Gross[j] ELSE 0) - settled[j] - Unapplied(j)
    BY DEF ControlInv, AccountsFollow
  <2>3. Unapplied(j)' = Unapplied(j)
    BY <1>3 DEF Unapplied
  <2>4. payable'[j] = IF j = i THEN payable[j] + Gross[j] ELSE payable[j]
    BY <1>1, <1>3 DEF TypeOK
  <2> QED
    BY <1>3, <1>6, <2>1, <2>2, <2>3, <2>4
<1> QED
  BY <1>5, <1>7 DEF ControlInv, AccountsFollow

(* One clerk posts a note: what it settles and what it leaves unapplied make  *)
(* up what it takes off the account.                                          *)
LEMMA PostNoteControlInv ==
  ASSUME OneClerk, BatchInv, BatchInv', ControlInv, NEW s \in Sessions, PostNote(s)
  PROVE  ControlInv'
<1>1. TypeOK /\ SessionHolds(s) /\ TypeOK'
  BY DEF BatchInv
<1>2. PICK n \in Notes : n = tx[s].doc
  BY <1>1 DEF PostNote, Working, SessionHolds, RequestFits
<1>3. PICK i \in Invoices : i = NoteOf[n]
  BY NoteAssumption, InvoiceAssumption
<1>4. /\ End(s) /\ posted' = posted
      /\ settled' = [settled EXCEPT ![i] = @ + pend[s][i]]
      /\ payable' = [payable EXCEPT ![i] = @ - NoteGross[n]]
      /\ note' = [note EXCEPT ![n] = [posted |-> TRUE, unapplied |-> NoteGross[n] - pend[s][i]]]
      /\ tx[s].op = "note" /\ tx[s].ran # {}
  BY <1>2, <1>3 DEF PostNote, Working
<1>5. NoteGross[n] \in Nat /\ pend[s][i] \in Nat
  BY <1>1, NoteAssumption DEF TypeOK
<1>6. ~note[n].posted /\ note[n].unapplied = 0
  BY <1>2, <1>4 DEF ControlInv, DraftsArePosted
<1>7. \A t \in Sessions : t # s => tx[t].op # "note"
  BY <1>4 DEF OneClerk, BatchInv, SessionHolds, RequestFits, None
<1>8. /\ note'[n].posted /\ note'[n].unapplied = NoteGross[n] - pend[s][i]
      /\ \A m \in Notes : m # n => note'[m] = note[m]
  BY <1>1, <1>4 DEF TypeOK
<1>9. DraftsArePosted'
  <2>1. /\ \A t \in Sessions : t # s => tx'[t] = tx[t]
        /\ tx'[s].op = None
    BY <1>1, <1>4 DEF TypeOK, End, Closed
  <2> QED
    BY <1>4, <1>7, <1>8, <2>1 DEF ControlInv, DraftsArePosted, None
<1>10. ASSUME NEW j \in Invoices
       PROVE  payable'[j] = (IF j \in posted' THEN Gross[j] ELSE 0) - settled'[j] - Unapplied(j)'
  <2>1. /\ settled[j] \in Nat /\ payable[j] \in Int /\ Gross[j] \in Nat
        /\ Unapplied(j) \in Nat
        /\ UnappliedOf(j) \in [Notes -> Nat] /\ Unapplied(j) = Total(UnappliedOf(j))
    BY InvoiceAssumption, UnappliedType, <1>1 DEF TypeOK
  <2>2. UnappliedOf(j)' \in [Notes -> Nat] /\ Unapplied(j)' = Total(UnappliedOf(j)')
    <3>1. \A m \in Notes : note'[m].unapplied \in Nat
      BY <1>1 DEF TypeOK, NoteRow
    <3> QED
      BY <3>1 DEF UnappliedOf, Unapplied
  <2>3. payable[j] = (IF j \in posted THEN Gross[j] ELSE 0) - settled[j] - Unapplied(j)
    BY DEF ControlInv, AccountsFollow
  <2>4. CASE j # i
    <3>1. UnappliedOf(j)' = UnappliedOf(j)
      BY <1>3, <1>8, <2>4 DEF UnappliedOf
    <3>2. payable'[j] = payable[j] /\ settled'[j] = settled[j]
      BY <1>1, <1>4, <2>4 DEF TypeOK
    <3> QED
      BY <1>4, <2>1, <2>2, <2>3, <3>1, <3>2
  <2>5. CASE j = i
    <3>1. /\ UnappliedOf(j)[n] = 0 /\ UnappliedOf(j)'[n] = NoteGross[n] - pend[s][i]
          /\ \A m \in Notes : m # n => UnappliedOf(j)'[m] = UnappliedOf(j)[m]
      BY <1>3, <1>6, <1>8, <2>5 DEF UnappliedOf
    <3>2. UnappliedOf(j)[n] <= UnappliedOf(j)'[n]
      BY <2>2, <3>1
    <3>3. PICK f \in [Notes -> Nat], g \in [Notes -> Nat] :
            f = UnappliedOf(j) /\ g = UnappliedOf(j)'
      BY <2>1, <2>2
    <3>4. f[n] <= g[n] /\ \A m \in Notes : m # n => g[m] = f[m]
      BY <3>1, <3>2, <3>3
    <3>5. Total(g) = Total(f) + g[n] - f[n]
      <4>1. IsFiniteSet(Notes)
        BY NoteAssumption
      <4> QED
        BY ONLY <3>4, <4>1, TotalFollowsOneAmount, n \in Notes,
                f \in [Notes -> Nat], g \in [Notes -> Nat]
    <3>6. g[n] = NoteGross[n] - pend[s][i] /\ f[n] = 0
      BY <3>1, <3>3
    <3>7. Unapplied(j) = Total(f) /\ Unapplied(j)' = Total(g)
      BY <2>1, <2>2, <3>3
    <3>8. Unapplied(j)' = Unapplied(j) + NoteGross[n] - pend[s][i]
      BY <1>5, <2>1, <3>5, <3>6, <3>7
    <3>9. payable'[j] = payable[j] - NoteGross[n] /\ settled'[j] = settled[j] + pend[s][i]
      BY <1>1, <1>4, <2>5 DEF TypeOK
    <3> QED
      BY <1>4, <1>5, <2>1, <2>3, <3>8, <3>9
  <2> QED
    BY <2>4, <2>5
<1> QED
  BY <1>9, <1>10 DEF ControlInv, AccountsFollow

LEMMA NextControlInv ==
  ASSUME OneClerk
  PROVE  ControlInv /\ BatchInv /\ BatchInv' /\ SettlementInv /\ [Next]_vars => ControlInv'
<1> SUFFICES ASSUME ControlInv, BatchInv, BatchInv', SettlementInv, [Next]_vars PROVE ControlInv'
  OBVIOUS
<1>1. CASE UNCHANGED vars \/ Ship \/ \E i \in Invoices : Hold(i) \/ Release(i)
  <2>1. UNCHANGED <<posted, payable, settled, note, tx>>
    BY <1>1 DEF vars, Ship, Hold, Release, documents
  <2>2. DraftsArePosted'
    BY <2>1 DEF ControlInv, DraftsArePosted
  <2> QED
    BY <2>1, <2>2, SameAccounts DEF ControlInv
<1>2. ASSUME NEW s \in Sessions,
             \/ Create(s) \/ Submit(s) \/ Rollback(s)
             \/ \E i \in Invoices : RemoveLine(s, i)
             \/ \E outcome \in Outcomes : Decide(s, outcome)
      PROVE  ControlInv'
  <2>1. End(s) /\ UNCHANGED <<posted, payable, settled, note>>
    BY <1>2 DEF Create, Submit, Rollback, RemoveLine, Decide, documents
  <2> QED
    BY <2>1, EndDrafts, SameAccounts DEF ControlInv
<1> QED
  BY <1>1, <1>2, StartControlInv, GoOnControlInv, ExecuteControlInv, PostInvoiceControlInv,
     PostNoteControlInv
  DEF Next

(* Where one person posts the documents, batches and their payments hold what *)
(* the settlements promise: rows are typed, a batch pays what was approved,   *)
(* open work is under its lock, and the control account is what the posted    *)
(* documents leave open, however many sessions build and execute batches.     *)
THEOREM BatchesKeepTheBooks ==
  ASSUME OneClerk
  PROVE  Spec => []BatchesHold
<1>1. Spec => []ControlInv
  BY ControlInitInv, NextControlInv, BatchInvariant, SettlementInvariant, PTL DEF Spec
<1>2. ControlInv /\ BatchInv /\ SettlementInv => BatchesHold
  <2> SUFFICES ASSUME ControlInv, BatchInv, SettlementInv PROVE BatchesHold
    OBVIOUS
  <2>1. TypeOK /\ PaidWithinApproval
    BY CoveredMeansApproved
  <2>2. SettlementIsLocked
    BY DEF SettlementInv, Money
  <2>3. \A i \in posted : i \in Invoices
    BY <2>1 DEF TypeOK
  <2>4. ControlFollowsDocuments
    BY <2>3 DEF ControlInv, AccountsFollow, ControlFollowsDocuments
  <2> QED
    BY <2>1, <2>2, <2>4 DEF BatchesHold
<1> QED
  BY <1>1, <1>2, BatchInvariant, SettlementInvariant, PTL
=============================================================================
