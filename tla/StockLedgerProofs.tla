-------------------------- MODULE StockLedgerProofs --------------------------
(* Stock never goes negative and documents are atomic, for any number of      *)
(* sessions, bins and documents, when the movements of the item all name      *)
(* nothing or all name a tag.                                                 *)
EXTENDS StockLedger, SumTheorems

(* Either no movement of the item names a variant or batch, or all do (what   *)
(* record_movement enforces for a batch-tracked and for an untracked item).   *)
Uniform == Carried = {Untagged} \/ Untagged \notin Carried

(* A row counts towards exactly the narrowing it names.                       *)
LEMMA CountsOwn ==
  ASSUME Uniform, NEW t \in Carried, NEW q \in Carried
  PROVE  Counts(t, q) <=> t = q
BY DEF Uniform, Counts

(* The current line of an open request is a line, and names a carried tag.    *)
LEMMA LineType ==
  ASSUME TypeOK, NEW s \in Sessions, InLine(s)
  PROVE  /\ Line(s) \in Lines
         /\ Line(s).tag \in Carried
         /\ tx[s].doc \in Documents
<1>1. tx[s] \in Request
  BY DEF TypeOK
<1>2. tx[s].doc \in Documents
  <2>1. CASE tx[s].doc = <<>>
    <3>1. Len(tx[s].doc) = 0
      BY <2>1
    <3>2. tx[s].line \in Nat \ {0} /\ tx[s].line <= Len(tx[s].doc)
      BY <1>1 DEF Request, InLine
    <3> QED
      BY <3>1, <3>2
  <2> QED
    BY <1>1, <2>1 DEF Request
<1>3. tx[s].doc \in Seq(Lines)
  BY <1>2, DocumentsAssumption
<1>4. tx[s].line \in 1..Len(tx[s].doc)
  BY <1>1, <1>3 DEF Request, InLine
<1>5. Line(s) \in Lines
  BY <1>3, <1>4 DEF Line
<1>6. Line(s).tag \in Carried
  BY <1>2, <1>4, CarriedAssumption DEF Line
<1> QED
  BY <1>2, <1>5, <1>6

(* Every key a line locks is a key, and a line locks at most two.             *)
LEMMA LockOrderType ==
  ASSUME NEW line \in Lines
  PROVE  /\ LockOrder(line) \in Seq(Keys)
         /\ Len(LockOrder(line)) \in {1, 2}
<1>1. line.from \in Bins /\ line.to \in Bins /\ line.tag \in Narrowings
  BY DEF Lines
<1>2. Key(line.from, line) \in Keys /\ Key(line.to, line) \in Keys
  BY <1>1 DEF Key, Keys
<1> QED
  BY <1>2 DEF LockOrder

(* A line locks every bucket whose quantity it changes.                       *)
LEMMA LockOrderCovers ==
  ASSUME NEW line \in Lines
  PROVE  /\ Arrives(line) => \E n \in 1..Len(LockOrder(line)) :
                               LockOrder(line)[n] = <<line.to, line.tag>>
         /\ Leaves(line) => \E n \in 1..Len(LockOrder(line)) :
                               LockOrder(line)[n] = <<line.from, line.tag>>
<1>1. CASE line.kind = Transfer
  <2> DEFINE a == Key(line.from, line)
             b == Key(line.to, line)
  <2>1. LockOrder(line) = <<a, b>> \/ LockOrder(line) = <<b, a>>
    BY <1>1 DEF LockOrder
  <2> HIDE DEF a, b
  <2>2. \E n \in 1..Len(LockOrder(line)) : LockOrder(line)[n] = a
    BY <2>1
  <2>3. \E n \in 1..Len(LockOrder(line)) : LockOrder(line)[n] = b
    BY <2>1
  <2> QED
    BY <2>2, <2>3 DEF a, b, Key
<1>2. CASE line.kind = Receive
  BY <1>2 DEF LockOrder, Key, Arrives, Leaves, Receive, Issue, Transfer
<1>3. CASE line.kind = Issue
  BY <1>3 DEF LockOrder, Key, Arrives, Leaves, Receive, Issue, Transfer
<1> QED
  BY <1>1, <1>2, <1>3 DEF Lines

(* Rows added to quantities give quantities.                                  *)
LEMMA MovedType ==
  ASSUME NEW held \in Movement, NEW line \in Lines
  PROVE  Moved(held, line) \in Movement
<1>1. \A b \in Bins, q \in Narrowings : Delta(line, b, q) \in Int
  BY DEF Delta, Lines
<1> QED
  BY <1>1 DEF Moved, Movement

(* Two sets of quantities read together are quantities.                       *)
LEMMA TogetherType ==
  ASSUME NEW held \in Movement, NEW more \in Movement
  PROVE  Together(held, more) \in Movement
BY DEF Together, Movement

(* A transaction that has flushed nothing is well typed.                      *)
LEMMA NoWorkType == NoWork \in Work
BY DEF NoWork, Work, NoMovement, Movement

(* So is a session that serves no request.                                    *)
LEMMA IdleType == Idle \in Request
BY DEF Idle, Request

(* ------------------------------ the invariant ----------------------------- *)

(* Nothing is locked or flushed, and the opening stock is not negative.       *)
LEMMA InitInv == Init => LedgerInv
<1> SUFFICES ASSUME Init PROVE LedgerInv
  OBVIOUS
<1>1. TypeOK
  BY OriginAssumption, NoWorkType, IdleType DEF Init, TypeOK
<1>2. WorkIsLocked
  BY CarriedAssumption DEF Init, WorkIsLocked, NoWork, NoMovement
<1>3. LineIsLocked
  BY DEF Init, LineIsLocked, InLine, Idle
<1>4. PendingIssuesStayCovered
  BY OriginAssumption, CarriedAssumption
     DEF Init, PendingIssuesStayCovered, Visible, Together, NoWork, NoMovement, Movement
<1>5. NeverNegative
  BY OriginAssumption, CarriedAssumption DEF Init, NeverNegative
<1> QED
  BY <1>1, <1>2, <1>3, <1>4, <1>5 DEF LedgerInv

(* Ending a transaction that publishes nothing keeps the invariant: Refuse,   *)
(* Fail and AbortDeadlock.                                                    *)
LEMMA EndInv ==
  ASSUME LedgerInv, NEW s \in Sessions, End(s), UNCHANGED <<stock, worth, inventory, begun>>
  PROVE  LedgerInv'
<1> USE DEF LedgerInv
<1>1. TypeOK'
  BY NoWorkType, IdleType DEF TypeOK, End
<1>2. \A t \in Sessions : pending'[t] = IF t = s THEN NoWork ELSE pending[t]
  BY DEF TypeOK, End
<1>3. \A t \in Sessions : tx'[t] = IF t = s THEN Idle ELSE tx[t]
  BY DEF TypeOK, End
<1>4. \A k \in Keys, t \in Sessions : t # s /\ lock[k] = t => lock'[k] = t
  BY DEF End
<1>5. \A b \in Bins, q \in Carried : <<b, q>> \in Keys /\ NoWork.qty[b][q] = 0
  BY CarriedAssumption DEF NoWork, NoMovement, Keys
<1>6. WorkIsLocked'
  BY <1>2, <1>4, <1>5 DEF WorkIsLocked
<1>7. LineIsLocked'
  <2> SUFFICES ASSUME NEW t \in Sessions, InLine(t)',
                      NEW n \in 1..Len(LockOrder(Line(t)')), n <= tx'[t].got
               PROVE  lock'[LockOrder(Line(t)')[n]] = t
    BY DEF LineIsLocked
  <2>1. t # s
    BY <1>3 DEF InLine, Idle
  <2>2. tx'[t] = tx[t]
    BY <1>3, <2>1
  <2>3. InLine(t) /\ Line(t)' = Line(t)
    BY <2>2 DEF InLine, Line
  <2>4. lock[LockOrder(Line(t))[n]] = t
    BY <2>2, <2>3 DEF LineIsLocked
  <2>5. LockOrder(Line(t))[n] \in Keys
    BY <2>3, LineType, LockOrderType
  <2> QED
    BY <1>4, <2>1, <2>3, <2>4, <2>5
<1>8. stock' = stock
  OBVIOUS
<1>9. NeverNegative'
  BY <1>8 DEF NeverNegative
<1>10. PendingIssuesStayCovered'
  <2> SUFFICES ASSUME NEW t \in Sessions, NEW b \in Bins, NEW q \in Carried
               PROVE  (Visible(t)[b][q])' >= 0
    BY DEF PendingIssuesStayCovered
  <2>1. CASE t = s
    <3>1. (Visible(t)[b][q])' = stock[b][q] + 0
      BY <1>2, <1>5, <1>8, <2>1, CarriedAssumption DEF Visible, Together
    <3> QED
      BY <3>1, CarriedAssumption DEF NeverNegative, TypeOK, Movement
  <2>2. CASE t # s
    <3>1. (Visible(t)[b][q])' = Visible(t)[b][q]
      BY <1>2, <1>8, <2>2 DEF Visible
    <3> QED
      BY <3>1 DEF PendingIssuesStayCovered
  <2> QED
    BY <2>1, <2>2
<1> QED
  BY <1>1, <1>6, <1>7, <1>9, <1>10

(* A request that opens has no lock and no rows yet.                          *)
LEMMA BeginInv ==
  ASSUME LedgerInv, NEW s \in Sessions, NEW doc \in Documents, Begin(s, doc)
  PROVE  LedgerInv'
<1> USE DEF LedgerInv
<1>1. \A t \in Sessions :
        tx'[t] = IF t = s THEN [open |-> TRUE, doc |-> doc, line |-> 1, got |-> 0] ELSE tx[t]
  BY DEF Begin, TypeOK
<1>2. TypeOK'
  BY <1>1 DEF TypeOK, Begin, Request
<1>3. LineIsLocked'
  <2> SUFFICES ASSUME NEW t \in Sessions, InLine(t)',
                      NEW n \in 1..Len(LockOrder(Line(t)')), n <= tx'[t].got
               PROVE  lock'[LockOrder(Line(t)')[n]] = t
    BY DEF LineIsLocked
  <2>1. t # s
    BY <1>1
  <2>2. tx'[t] = tx[t] /\ lock' = lock
    BY <1>1, <2>1 DEF Begin
  <2>3. InLine(t) /\ Line(t)' = Line(t)
    BY <2>2 DEF InLine, Line
  <2> QED
    BY <2>2, <2>3 DEF LineIsLocked
<1>4. WorkIsLocked' /\ NeverNegative' /\ PendingIssuesStayCovered'
  BY DEF Begin, WorkIsLocked, NeverNegative, PendingIssuesStayCovered, Visible
<1> QED
  BY <1>2, <1>3, <1>4

(* Taking a lock disturbs no other session: the key was free, or its own.     *)
LEMMA TakeLockInv ==
  ASSUME LedgerInv, NEW s \in Sessions, TakeLock(s)
  PROVE  LedgerInv'
<1> USE DEF LedgerInv
<1> DEFINE k == NextKey(s)
<1>1. InLine(s) /\ Line(s) \in Lines /\ tx[s] \in Request
  BY LineType DEF TakeLock, Locking, TypeOK
<1>2. /\ LockOrder(Line(s)) \in Seq(Keys)
      /\ Len(LockOrder(Line(s))) \in {1, 2}
  BY <1>1, LockOrderType
<1>3. tx[s].got \in 0..1 /\ k \in Keys
  BY <1>1, <1>2 DEF TakeLock, Locking, Request, NextKey
<1>4. \A t \in Sessions : tx'[t] = IF t = s THEN [tx[s] EXCEPT !.got = @ + 1] ELSE tx[t]
  BY DEF TakeLock, TypeOK
<1>5. \A j \in Keys : lock'[j] = IF j = k THEN s ELSE lock[j]
  BY <1>3 DEF TakeLock, TypeOK
<1>6. lock[k] \in {Free, s}
  BY DEF TakeLock
<1> HIDE DEF k
<1>7. TypeOK'
  <2>1. tx' \in [Sessions -> Request]
    <3>1. [tx[s] EXCEPT !.got = @ + 1] \in Request
      BY <1>1, <1>3 DEF Request
    <3>2. tx' = [tx EXCEPT ![s] = [tx[s] EXCEPT !.got = @ + 1]]
      BY DEF TakeLock
    <3> QED
      BY <3>1, <3>2 DEF TypeOK
  <2>2. lock' \in [Keys -> Sessions \cup {Free}]
    BY <1>3 DEF TakeLock, TypeOK, k
  <2> QED
    BY <2>1, <2>2 DEF TakeLock, TypeOK
<1>8. \A t \in Sessions, j \in Keys : lock[j] = t => lock'[j] = t
  BY <1>5, <1>6, FreeAssumption
<1>9. LineIsLocked'
  <2> SUFFICES ASSUME NEW t \in Sessions, InLine(t)',
                      NEW n \in 1..Len(LockOrder(Line(t)')), n <= tx'[t].got
               PROVE  lock'[LockOrder(Line(t)')[n]] = t
    BY DEF LineIsLocked
  <2>1. tx'[t].doc = tx[t].doc /\ tx'[t].line = tx[t].line /\ tx'[t].open = tx[t].open
    BY <1>1, <1>4 DEF Request
  <2>2. InLine(t) /\ Line(t)' = Line(t)
    BY <2>1 DEF InLine, Line
  <2>3. LockOrder(Line(t))[n] \in Keys
    BY <2>2, LineType, LockOrderType
  <2>4. CASE t # s \/ n <= tx[s].got
    <3>1. n <= tx[t].got
      BY <1>4, <2>4
    <3>2. lock[LockOrder(Line(t))[n]] = t
      BY <2>2, <3>1 DEF LineIsLocked
    <3> QED
      BY <1>8, <2>2, <2>3, <3>2
  <2>5. CASE t = s /\ ~(n <= tx[s].got)
    <3>1. n = tx[s].got + 1
      BY <1>1, <1>2, <1>3, <1>4, <2>2, <2>5 DEF Request
    <3>2. LockOrder(Line(t))[n] = k
      BY <2>5, <3>1 DEF k, NextKey
    <3> QED
      BY <1>3, <1>5, <2>2, <2>5, <3>2
  <2> QED
    BY <2>4, <2>5
<1>10. pending' = pending /\ stock' = stock
  BY DEF TakeLock
<1>11. WorkIsLocked'
  <2>1. \A b \in Bins, q \in Carried : <<b, q>> \in Keys
    BY CarriedAssumption DEF Keys
  <2> QED
    BY <1>8, <1>10, <2>1 DEF WorkIsLocked
<1>12. NeverNegative' /\ PendingIssuesStayCovered'
  BY <1>10 DEF NeverNegative, PendingIssuesStayCovered, Visible
<1> QED
  BY <1>7, <1>9, <1>11, <1>12

(* The step of the argument that the check of issue and transfer exists for.  *)
LEMMA WriteLineInv ==
  ASSUME Uniform, LedgerInv, NEW s \in Sessions, WriteLine(s)
  PROVE  LedgerInv'
<1> USE DEF LedgerInv
<1> DEFINE line == Line(s)
<1>1. /\ InLine(s) /\ WellFormed(line)
      /\ tx[s] \in Request /\ pending[s] \in Work
      /\ line \in Lines /\ line.tag \in Carried
  BY LineType DEF WriteLine, Ready, TypeOK
<1>2. tx[s].got = Len(LockOrder(line)) /\ Covered(Visible(s), line)
  BY DEF WriteLine, Ready
<1>3. \A t \in Sessions :
        tx'[t] = IF t = s THEN [open |-> TRUE, doc |-> tx[s].doc, line |-> tx[s].line + 1, got |-> 0] ELSE tx[t]
  BY DEF WriteLine, TypeOK
<1>4. \A t \in Sessions :
        pending'[t] = IF t = s
                      THEN [qty |-> Moved(pending[s].qty, line),
                            worth |-> pending[s].worth + LineValue(line),
                            inventory |-> pending[s].inventory + LineValue(line)]
                      ELSE pending[t]
  BY DEF WriteLine, TypeOK
<1>5. stock' = stock /\ lock' = lock
  BY DEF WriteLine
<1>6. \A b \in Bins, q \in Carried : /\ <<b, q>> \in Keys
                                    /\ stock[b][q] \in Int
                                    /\ pending[s].qty[b][q] \in Int
                                    /\ Delta(line, b, q) \in Int
  <2>1. \A b \in Bins, q \in Carried : Delta(line, b, q) \in Int
    BY <1>1 DEF Delta, Lines
  <2> QED
    BY <1>1, <2>1, CarriedAssumption DEF Keys, TypeOK, Work, Movement
<1>7. line.qty \in Nat \ {0} /\ line.kind \in {Receive, Issue, Transfer}
  BY <1>1 DEF Lines
<1> HIDE DEF line
<1>20. \A b \in Bins, q \in Carried :
         pending'[s].qty[b][q] = pending[s].qty[b][q] + Delta(line, b, q)
  <2>1. pending'[s].qty = Moved(pending[s].qty, line)
    BY <1>4
  <2> QED
    BY <2>1, CarriedAssumption DEF Moved
<1>8. TypeOK'
  <2>1. pending' \in [Sessions -> Work]
    <3>1. Moved(pending[s].qty, line) \in Movement
      BY <1>1, MovedType DEF Work
    <3>2. LineValue(line) \in Int
      BY <1>1, <1>7, CostAssumption DEF LineValue, Lines, Receive, Issue, Transfer
    <3>3. [qty |-> Moved(pending[s].qty, line),
           worth |-> pending[s].worth + LineValue(line),
           inventory |-> pending[s].inventory + LineValue(line)] \in Work
      BY <1>1, <3>1, <3>2 DEF Work
    <3> QED
      BY <3>3 DEF WriteLine, TypeOK, line
  <2>2. tx' \in [Sessions -> Request]
    <3>1. [open |-> TRUE, doc |-> tx[s].doc, line |-> tx[s].line + 1, got |-> 0] \in Request
      BY <1>1 DEF Request
    <3>2. tx' = [tx EXCEPT ![s] = [open |-> TRUE, doc |-> tx[s].doc, line |-> tx[s].line + 1, got |-> 0]]
      BY DEF WriteLine
    <3> QED
      BY <3>1, <3>2 DEF TypeOK
  <2> QED
    BY <2>1, <2>2 DEF WriteLine, TypeOK
(* What the line changes, this session has locked.                            *)
<1>9. \A b \in Bins, q \in Carried : Delta(line, b, q) # 0 => lock[<<b, q>>] = s
  <2> SUFFICES ASSUME NEW b \in Bins, NEW q \in Carried, Delta(line, b, q) # 0
               PROVE  lock[<<b, q>>] = s
    OBVIOUS
  <2>1. line.tag = q
    BY <1>1, CountsOwn DEF Delta
  <2>2. (Arrives(line) /\ b = line.to) \/ (Leaves(line) /\ b = line.from)
    BY DEF Delta
  <2>3. \E n \in 1..Len(LockOrder(line)) : LockOrder(line)[n] = <<b, q>>
    BY <1>1, <2>1, <2>2, LockOrderCovers
  <2> QED
    BY <1>1, <1>2, <2>3 DEF LineIsLocked, line
<1>10. WorkIsLocked'
  <2> SUFFICES ASSUME NEW t \in Sessions, NEW b \in Bins, NEW q \in Carried,
                      pending'[t].qty[b][q] # 0
               PROVE  lock'[<<b, q>>] = t
    BY DEF WorkIsLocked
  <2>1. CASE t # s
    BY <1>4, <1>5, <2>1 DEF WorkIsLocked
  <2>2. CASE t = s
    <3>1. pending'[t].qty[b][q] = pending[s].qty[b][q] + Delta(line, b, q)
      BY <1>20, <2>2
    <3>2. pending[s].qty[b][q] # 0 \/ Delta(line, b, q) # 0
      BY <1>6, <3>1
    <3> QED
      BY <1>5, <1>9, <2>2, <3>2 DEF WorkIsLocked
  <2> QED
    BY <2>1, <2>2
<1>11. LineIsLocked'
  <2> SUFFICES ASSUME NEW t \in Sessions, InLine(t)',
                      NEW n \in 1..Len(LockOrder(Line(t)')), n <= tx'[t].got
               PROVE  lock'[LockOrder(Line(t)')[n]] = t
    BY DEF LineIsLocked
  <2>1. t # s
    <3> SUFFICES ASSUME t = s PROVE FALSE
      OBVIOUS
    <3>1. tx'[t].got = 0
      BY <1>1, <1>3 DEF Request
    <3> QED
      BY <3>1
  <2>2. tx'[t] = tx[t]
    BY <1>3, <2>1
  <2>3. InLine(t) /\ Line(t)' = Line(t)
    BY <2>2 DEF InLine, Line
  <2> QED
    BY <1>5, <2>2, <2>3 DEF LineIsLocked
<1>12. PendingIssuesStayCovered'
  <2> SUFFICES ASSUME NEW t \in Sessions, NEW b \in Bins, NEW q \in Carried
               PROVE  (Visible(t)[b][q])' >= 0
    BY DEF PendingIssuesStayCovered
  <2>1. CASE t # s
    <3>1. (Visible(t)[b][q])' = Visible(t)[b][q]
      BY <1>4, <1>5, <2>1 DEF Visible
    <3> QED
      BY <3>1 DEF PendingIssuesStayCovered
  <2>2. CASE t = s
    <3>0. /\ stock[b][q] \in Int
          /\ pending[s].qty[b][q] \in Int
          /\ Delta(line, b, q) \in Int
      BY <1>6
    <3>1. Visible(s)[b][q] = stock[b][q] + pending[s].qty[b][q]
      BY CarriedAssumption DEF Visible, Together
    <3>2. (Visible(t)[b][q])' = Visible(s)[b][q] + Delta(line, b, q)
      <4>1. pending'[t].qty[b][q] = pending[s].qty[b][q] + Delta(line, b, q)
        BY <1>20, <2>2
      <4>2. (Visible(t)[b][q])' = stock[b][q] + pending'[t].qty[b][q]
        BY <1>5, CarriedAssumption DEF Visible, Together
      <4> QED
        BY <3>0, <3>1, <4>1, <4>2
    <3>3. Visible(s)[b][q] >= 0 /\ Visible(s)[b][q] \in Int
      <4>1. PendingIssuesStayCovered
        OBVIOUS
      <4>2. Visible(s)[b][q] >= 0
        BY <4>1 DEF PendingIssuesStayCovered
      <4> QED
        BY <3>0, <3>1, <4>2
    <3>4. CASE Delta(line, b, q) >= 0
      BY <3>0, <3>2, <3>3, <3>4
    <3>5. CASE ~(Delta(line, b, q) >= 0)
      <4>1. line.tag = q /\ Leaves(line) /\ b = line.from
        BY <1>1, <1>7, <3>5, CountsOwn DEF Delta
      <4>2. Visible(s)[b][q] >= line.qty
        BY <1>2, <4>1 DEF Covered
      <4>3. Delta(line, b, q) >= -line.qty
        BY <1>7, <4>1 DEF Delta
      <4> QED
        BY <3>0, <1>7, <3>2, <3>3, <4>2, <4>3
    <3> QED
      BY <3>4, <3>5
  <2> QED
    BY <2>1, <2>2
<1>13. NeverNegative'
  BY <1>5 DEF NeverNegative
<1> QED
  BY <1>8, <1>10, <1>11, <1>12, <1>13

(* Publishing one session's rows leaves every other session's check true: a   *)
(* bucket another session has written to is not one this session wrote to.    *)
LEMMA CommitInv ==
  ASSUME LedgerInv, NEW s \in Sessions, Commit(s)
  PROVE  LedgerInv'
<1> USE DEF LedgerInv
<1>1. stock' = Together(stock, pending[s].qty)
  BY DEF Commit
<1>2. \A t \in Sessions : pending'[t] = IF t = s THEN NoWork ELSE pending[t]
  BY DEF TypeOK, Commit, End
<1>3. \A t \in Sessions : tx'[t] = IF t = s THEN Idle ELSE tx[t]
  BY DEF TypeOK, Commit, End
<1>4. \A k \in Keys, t \in Sessions : t # s /\ lock[k] = t => lock'[k] = t
  BY DEF Commit, End
<1>5. \A b \in Bins, q \in Carried : <<b, q>> \in Keys /\ NoWork.qty[b][q] = 0
  BY CarriedAssumption DEF NoWork, NoMovement, Keys
<1>6. pending[s] \in Work
  BY DEF TypeOK
<1>7. TypeOK'
  <2>1. stock' \in Movement
    BY <1>1, <1>6, TogetherType DEF TypeOK, Work
  <2>2. worth' \in Int /\ inventory' \in Int
    BY <1>6 DEF Commit, TypeOK, Work
  <2>3. /\ pending' \in [Sessions -> Work]
        /\ tx' \in [Sessions -> Request]
        /\ lock' \in [Keys -> Sessions \cup {Free}]
        /\ begun' \in Nat
    BY NoWorkType, IdleType DEF TypeOK, Commit, End
  <2> QED
    BY <2>1, <2>2, <2>3 DEF TypeOK
<1>8. WorkIsLocked'
  BY <1>2, <1>4, <1>5 DEF WorkIsLocked
<1>9. LineIsLocked'
  <2> SUFFICES ASSUME NEW t \in Sessions, InLine(t)',
                      NEW n \in 1..Len(LockOrder(Line(t)')), n <= tx'[t].got
               PROVE  lock'[LockOrder(Line(t)')[n]] = t
    BY DEF LineIsLocked
  <2>1. t # s
    BY <1>3 DEF InLine, Idle
  <2>2. tx'[t] = tx[t]
    BY <1>3, <2>1
  <2>3. InLine(t) /\ Line(t)' = Line(t)
    BY <2>2 DEF InLine, Line
  <2>4. lock[LockOrder(Line(t))[n]] = t
    BY <2>2, <2>3 DEF LineIsLocked
  <2>5. LockOrder(Line(t))[n] \in Keys
    BY <2>3, LineType, LockOrderType
  <2> QED
    BY <1>4, <2>1, <2>3, <2>4, <2>5
<1>10. \A b \in Bins, q \in Carried : stock'[b][q] = stock[b][q] + pending[s].qty[b][q]
  BY <1>1, CarriedAssumption DEF Together
<1>11. \A b \in Bins, q \in Carried : stock'[b][q] = Visible(s)[b][q]
  BY <1>1 DEF Visible
<1>12. NeverNegative'
  BY <1>11 DEF NeverNegative, PendingIssuesStayCovered
<1>13. PendingIssuesStayCovered'
  <2> SUFFICES ASSUME NEW t \in Sessions, NEW b \in Bins, NEW q \in Carried
               PROVE  (Visible(t)[b][q])' >= 0
    BY DEF PendingIssuesStayCovered
  <2>1. (Visible(t)[b][q])' = stock'[b][q] + pending'[t].qty[b][q]
    BY CarriedAssumption DEF Visible, Together
  <2>2. stock'[b][q] >= 0 /\ stock'[b][q] \in Int
    BY <1>7, <1>12, CarriedAssumption DEF NeverNegative, TypeOK, Movement
  <2>3. CASE pending'[t].qty[b][q] = 0
    BY <2>1, <2>2, <2>3
  <2>4. CASE pending'[t].qty[b][q] # 0
    <3>1. t # s /\ pending'[t] = pending[t]
      BY <1>2, <1>5, <2>4
    <3>2. lock[<<b, q>>] = t
      BY <2>4, <3>1 DEF WorkIsLocked
    <3>3. pending[s].qty[b][q] = 0
      BY <3>1, <3>2 DEF WorkIsLocked
    <3>4. stock[b][q] \in Int /\ stock'[b][q] = stock[b][q]
      BY <1>10, <3>3, CarriedAssumption DEF TypeOK, Movement
    <3>5. (Visible(t)[b][q])' = Visible(t)[b][q]
      <4>1. Visible(t)[b][q] = stock[b][q] + pending[t].qty[b][q]
        BY CarriedAssumption DEF Visible, Together
      <4> QED
        BY <2>1, <3>1, <3>4, <4>1
    <3> QED
      BY <3>5 DEF PendingIssuesStayCovered
  <2> QED
    BY <2>3, <2>4
<1> QED
  BY <1>7, <1>8, <1>9, <1>12, <1>13

(* The invariant reads nothing but the variables.                             *)
LEMMA StutterInv == LedgerInv /\ UNCHANGED vars => LedgerInv'
BY DEF vars, LedgerInv, TypeOK, WorkIsLocked, LineIsLocked, PendingIssuesStayCovered,
       NeverNegative, Visible, InLine, Line

(* Every step keeps the invariant.                                            *)
LEMMA NextInv ==
  ASSUME Uniform, LedgerInv, [Next]_vars
  PROVE  LedgerInv'
<1>1. CASE UNCHANGED vars
  BY <1>1, StutterInv
<1>2. CASE Next
  <2>1. PICK s \in Sessions : (\E doc \in Documents : Begin(s, doc)) \/ Step(s) \/ Fail(s)
    BY <1>2 DEF Next
  <2>2. CASE \E doc \in Documents : Begin(s, doc)
    BY <2>2, BeginInv
  <2>3. CASE TakeLock(s)
    BY <2>3, TakeLockInv
  <2>4. CASE WriteLine(s)
    BY <2>4, WriteLineInv
  <2>5. CASE Commit(s)
    BY <2>5, CommitInv
  <2>6. CASE Refuse(s) \/ AbortDeadlock(s) \/ Fail(s)
    <3>1. End(s) /\ UNCHANGED <<stock, worth, inventory, begun>>
      BY <2>6 DEF Refuse, AbortDeadlock, Fail
    <3> QED
      BY <3>1, EndInv
  <2> QED
    BY <2>1, <2>2, <2>3, <2>4, <2>5, <2>6 DEF Step
<1> QED
  BY <1>1, <1>2

(* -------------------------------- theorems -------------------------------- *)

(* The inductive invariant holds throughout, whatever the number of sessions, *)
(* bins, tags and documents.                                                  *)
THEOREM LedgerInvariant ==
  ASSUME Uniform
  PROVE  Spec => []LedgerInv
<1>1. Init => LedgerInv
  BY InitInv
<1>2. LedgerInv /\ [Next]_vars => LedgerInv'
  BY NextInv
<1> QED
  BY <1>1, <1>2, PTL DEF Spec

(* Type correctness (app/stock/transactions.py, app/stock/entries.py).        *)
THEOREM TypeCorrect ==
  ASSUME Uniform
  PROVE  Spec => []TypeOK
<1>1. LedgerInv => TypeOK
  BY DEF LedgerInv
<1> QED
  BY <1>1, LedgerInvariant, PTL

(* "Stock never goes negative": no bin is ever taken below zero for any       *)
(* narrowing the item's movements name (transactions.py, issue and transfer). *)
THEOREM StockNeverNegative ==
  ASSUME Uniform
  PROVE  Spec => []NeverNegative
<1>1. LedgerInv => NeverNegative
  BY DEF LedgerInv
<1> QED
  BY <1>1, LedgerInvariant, PTL

(* The on_hand check of issue and transfer, made under the advisory lock, is  *)
(* still true when the transaction commits.                                   *)
THEOREM ChecksStayTrue ==
  ASSUME Uniform
  PROVE  Spec => []PendingIssuesStayCovered
<1>1. LedgerInv => PendingIssuesStayCovered
  BY DEF LedgerInv
<1> QED
  BY <1>1, LedgerInvariant, PTL

(* The advisory locks give every bucket at most one uncommitted writer.       *)
THEOREM OneWriter ==
  ASSUME Uniform
  PROVE  Spec => []OneWriterPerBucket
<1>1. LedgerInv => OneWriterPerBucket
  <2> SUFFICES ASSUME LedgerInv, NEW s \in Sessions, NEW t \in Sessions,
                      NEW b \in Bins, NEW q \in Carried,
                      pending[s].qty[b][q] # 0, pending[t].qty[b][q] # 0
               PROVE  s = t
    BY DEF OneWriterPerBucket
  <2>1. lock[<<b, q>>] = s /\ lock[<<b, q>>] = t
    BY DEF LedgerInv, WorkIsLocked
  <2> QED
    BY <2>1
<1> QED
  BY <1>1, LedgerInvariant, PTL

(* ----------------------------- the refinement ------------------------------ *)

(* What the first n lines of a document move and are worth, whoever posts it.  *)
Movements(doc) ==
  CHOOSE f \in [0..Len(doc) -> Movement] :
    f[0] = NoMovement /\ \A n \in 1..Len(doc) : f[n] = Moved(f[n - 1], doc[n])
Values(doc) ==
  CHOOSE f \in [0..Len(doc) -> Int] :
    f[0] = 0 /\ \A n \in 1..Len(doc) : f[n] = f[n - 1] + LineValue(doc[n])

LEMMA LineValueType == ASSUME NEW line \in Lines PROVE LineValue(line) \in Int
<1>1. line.qty \in Nat /\ line.value \in Nat /\ StandardCost \in Nat
  BY CostAssumption DEF Lines
<1>2. PICK n \in Nat : n = line.qty * StandardCost
  BY <1>1
<1> QED
  BY <1>1, <1>2 DEF LineValue, Lines, Receive, Issue, Transfer

LEMMA DocumentLines ==
  ASSUME NEW doc \in Documents
  PROVE  /\ Len(doc) \in Nat \ {0} /\ doc \in Seq(Lines)
         /\ \A n \in 1..Len(doc) : doc[n] \in Lines /\ doc[n].tag \in Carried
<1>1. doc \in Seq(Lines) /\ doc # <<>>
  BY DocumentsAssumption
<1> QED
  BY <1>1, CarriedAssumption

LEMMA MovementsUnfold ==
  ASSUME NEW doc \in Documents
  PROVE  /\ Movements(doc) \in [0..Len(doc) -> Movement]
         /\ Movements(doc)[0] = NoMovement
         /\ \A n \in 1..Len(doc) : Movements(doc)[n] = Moved(Movements(doc)[n - 1], doc[n])
<1> DEFINE step == [x \in Movement \X (1..Len(doc)) |-> Moved(x[1], doc[x[2]])]
<1>1. step \in [Movement \X (1..Len(doc)) -> Movement]
  BY DocumentLines, MovedType
<1>2. NoMovement \in Movement
  BY DEF NoMovement, Movement
<1>3. PICK f \in [0..Len(doc) -> Movement] :
        f[0] = NoMovement /\ \A n \in 1..Len(doc) : f[n] = step[<<f[n - 1], n>>]
  <2>1. Len(doc) \in Nat
    BY DocumentLines
  <2> HIDE DEF step
  <2>2. PICK f : Iterates(f, step, Movement, NoMovement, Len(doc))
    BY <1>1, <1>2, <2>1, IterationExists DEF Stepping
  <2> QED
    BY <2>2 DEF Iterates
<1>4. \A n \in 1..Len(doc) : f[n] = Moved(f[n - 1], doc[n])
  <2> SUFFICES ASSUME NEW n \in 1..Len(doc) PROVE f[n] = Moved(f[n - 1], doc[n])
    OBVIOUS
  <2>1. n - 1 \in 0..Len(doc)
    BY DocumentLines
  <2>2. <<f[n - 1], n>> \in Movement \X (1..Len(doc))
    BY <2>1
  <2> QED
    BY <1>3, <2>2
<1> HIDE DEF step
<1> QED
  BY <1>3, <1>4 DEF Movements

LEMMA ValuesUnfold ==
  ASSUME NEW doc \in Documents
  PROVE  /\ Values(doc) \in [0..Len(doc) -> Int]
         /\ Values(doc)[0] = 0
         /\ \A n \in 1..Len(doc) : Values(doc)[n] = Values(doc)[n - 1] + LineValue(doc[n])
<1> DEFINE step == [x \in Int \X (1..Len(doc)) |-> x[1] + LineValue(doc[x[2]])]
<1>1. step \in [Int \X (1..Len(doc)) -> Int]
  BY DocumentLines, LineValueType
<1>2. PICK f \in [0..Len(doc) -> Int] :
        f[0] = 0 /\ \A n \in 1..Len(doc) : f[n] = step[<<f[n - 1], n>>]
  <2>1. Len(doc) \in Nat
    BY DocumentLines
  <2> HIDE DEF step
  <2>2. PICK f : Iterates(f, step, Int, 0, Len(doc))
    <3>1. Stepping(step, Int, Len(doc)) /\ 0 \in Int
      BY <1>1 DEF Stepping
    <3> QED
      BY <2>1, <3>1, IterationExists, Zenon
  <2> QED
    BY <2>2 DEF Iterates
<1>3. \A n \in 1..Len(doc) : f[n] = f[n - 1] + LineValue(doc[n])
  <2> SUFFICES ASSUME NEW n \in 1..Len(doc) PROVE f[n] = f[n - 1] + LineValue(doc[n])
    OBVIOUS
  <2>1. n - 1 \in 0..Len(doc)
    BY DocumentLines
  <2>2. <<f[n - 1], n>> \in Int \X (1..Len(doc))
    BY <2>1
  <2> QED
    BY <1>2, <2>2
<1> HIDE DEF step
<1> QED
  BY <1>2, <1>3 DEF Values

(* The document of an open request, up to the line it is at: its rows are what *)
(* is flushed, it was covered on the way, and its buckets are locked, so that  *)
(* no commit of others makes that untrue.                                      *)
Done(s) == tx[s].line - 1
LineStands(s, n) ==
  LET doc == tx[s].doc IN
  /\ WellFormed(doc[n])
  /\ Covered(Together(stock, Movements(doc)[n - 1]), doc[n])
  /\ \A j \in 1..Len(LockOrder(doc[n])) : lock[LockOrder(doc[n])[j]] = s
Progress(s) ==
  LET doc == tx[s].doc IN
  /\ doc \in Documents /\ Done(s) \in 0..Len(doc)
  /\ pending[s].qty = Movements(doc)[Done(s)]
  /\ pending[s].worth = Values(doc)[Done(s)] /\ pending[s].inventory = Values(doc)[Done(s)]
  /\ \A n \in 1..Done(s) : LineStands(s, n)
DocumentsProgress ==
  \A s \in Sessions : IF tx[s].open THEN Progress(s) ELSE pending[s] = NoWork

LEMMA ProgressStarts == Init => DocumentsProgress
BY DEF Init, DocumentsProgress, Idle

(* A bucket that a line has locked is not among those another session changes. *)
LEMMA LineStillStands ==
  ASSUME LedgerInv, NEW s \in Sessions, NEW n \in Nat, LineStands(s, n),
         tx[s].doc \in Documents, n \in 1..Len(tx[s].doc),
         tx'[s].doc = tx[s].doc,
         \A k \in Keys : lock[k] = s => lock'[k] = s,
         \A b \in Bins, q \in Carried : lock[<<b, q>>] = s => stock'[b][q] = stock[b][q]
  PROVE  LineStands(s, n)'
<1> DEFINE doc == tx[s].doc
           line == doc[n]
<1>1. line \in Lines /\ line.tag \in Carried
  BY DocumentLines
<1>2. \A j \in 1..Len(LockOrder(line)) : LockOrder(line)[j] \in Keys /\ lock[LockOrder(line)[j]] = s
  BY <1>1, LockOrderType DEF LineStands
<1>3. \A j \in 1..Len(LockOrder(line)) : lock'[LockOrder(line)[j]] = s
  BY <1>2
<1>4. ASSUME Leaves(line)
      PROVE  Together(stock', Movements(doc)[n - 1])[line.from][line.tag] >= line.qty
  <2>1. lock[<<line.from, line.tag>>] = s
    BY <1>1, <1>2, <1>4, LockOrderCovers
  <2>2. line.from \in Bins /\ line.tag \in Narrowings
    BY <1>1 DEF Lines
  <2>3. stock'[line.from][line.tag] = stock[line.from][line.tag]
    BY <1>1, <2>1, <2>2
  <2>4. Together(stock, Movements(doc)[n - 1])[line.from][line.tag] >= line.qty
    BY <1>4 DEF LineStands, Covered
  <2> QED
    BY <2>2, <2>3, <2>4 DEF Together
<1>5. (Covered(Together(stock, Movements(doc)[n - 1]), line))'
  BY <1>4 DEF Covered
<1> QED
  BY <1>3, <1>5 DEF LineStands

(* A session that others leave alone is where it was.                          *)
LEMMA OthersStand ==
  ASSUME LedgerInv, DocumentsProgress, NEW s \in Sessions,
         tx'[s] = tx[s], pending'[s] = pending[s],
         \A k \in Keys : lock[k] = s => lock'[k] = s,
         \A b \in Bins, q \in Carried : lock[<<b, q>>] = s => stock'[b][q] = stock[b][q]
  PROVE  (IF tx[s].open THEN Progress(s) ELSE pending[s] = NoWork)'
<1>1. CASE ~tx[s].open
  BY <1>1 DEF DocumentsProgress
<1>2. CASE tx[s].open
  <2>1. Progress(s)
    BY <1>2 DEF DocumentsProgress
  <2>2. ASSUME NEW n \in 1..Done(s) PROVE LineStands(s, n)'
    <3>1. n \in Nat /\ n \in 1..Len(tx[s].doc)
      BY <2>1, DocumentLines DEF Progress
    <3> QED
      BY <2>1, <3>1, LineStillStands DEF Progress
  <2> QED
    BY <1>2, <2>1, <2>2 DEF Progress, Done
<1> QED
  BY <1>1, <1>2

LEMMA ProgressBegins ==
  ASSUME LedgerInv, DocumentsProgress, NEW s \in Sessions, NEW doc \in Documents, Begin(s, doc)
  PROVE  DocumentsProgress'
<1>1. \A t \in Sessions :
        tx'[t] = IF t = s THEN [open |-> TRUE, doc |-> doc, line |-> 1, got |-> 0] ELSE tx[t]
  BY DEF LedgerInv, TypeOK, Begin
<1>2. pending' = pending /\ stock' = stock /\ lock' = lock /\ ~tx[s].open
  BY DEF Begin
<1>3. (IF tx[s].open THEN Progress(s) ELSE pending[s] = NoWork)'
  <2>1. tx'[s].open /\ tx'[s].doc = doc /\ Done(s)' = 0 /\ pending'[s] = NoWork
    BY <1>1, <1>2 DEF DocumentsProgress, Done
  <2>2. Len(doc) \in Nat /\ Movements(doc)[0] = NoMovement /\ Values(doc)[0] = 0
    BY DocumentLines, MovementsUnfold, ValuesUnfold
  <2> QED
    BY <2>1, <2>2 DEF Progress, NoWork
<1>4. ASSUME NEW t \in Sessions, t # s
      PROVE  (IF tx[t].open THEN Progress(t) ELSE pending[t] = NoWork)'
  BY <1>1, <1>2, <1>4, OthersStand
<1> QED
  BY <1>3, <1>4 DEF DocumentsProgress

(* A lock is taken: nobody loses one.                                          *)
LEMMA ProgressLocks ==
  ASSUME LedgerInv, DocumentsProgress, NEW s \in Sessions, TakeLock(s)
  PROVE  DocumentsProgress'
<1>1. \A t \in Sessions : tx'[t] = IF t = s THEN [tx[s] EXCEPT !.got = @ + 1] ELSE tx[t]
  BY DEF LedgerInv, TypeOK, TakeLock
<1>2. pending' = pending /\ stock' = stock
  BY DEF TakeLock
<1>3. \A t \in Sessions, k \in Keys : lock[k] = t => lock'[k] = t
  BY FreeAssumption DEF LedgerInv, TypeOK, TakeLock
<1>4. tx[s].open /\ tx[s] \in Request
  BY DEF TakeLock, Locking, InLine, LedgerInv, TypeOK
<1>5. tx'[s].open /\ tx'[s].doc = tx[s].doc /\ tx'[s].line = tx[s].line
  BY <1>1, <1>4 DEF Request
<1>6. Progress(s)'
  <2>1. Progress(s)
    BY <1>4 DEF DocumentsProgress
  <2>2. ASSUME NEW n \in 1..Done(s) PROVE LineStands(s, n)'
    <3>1. n \in Nat /\ n \in 1..Len(tx[s].doc)
      BY <2>1, DocumentLines DEF Progress
    <3> QED
      BY <1>2, <1>3, <1>5, <2>1, <3>1, LineStillStands DEF Progress
  <2> QED
    BY <1>2, <1>5, <2>1, <2>2 DEF Progress, Done
<1>7. ASSUME NEW t \in Sessions, t # s
      PROVE  (IF tx[t].open THEN Progress(t) ELSE pending[t] = NoWork)'
  BY <1>1, <1>2, <1>3, <1>7, OthersStand
<1> QED
  BY <1>5, <1>6, <1>7 DEF DocumentsProgress

(* A line is written under its locks, after its check.                         *)
LEMMA ProgressWrites ==
  ASSUME LedgerInv, DocumentsProgress, NEW s \in Sessions, WriteLine(s)
  PROVE  DocumentsProgress'
<1> DEFINE doc == tx[s].doc
           k == tx[s].line
           line == Line(s)
<1>1. /\ InLine(s) /\ WellFormed(line) /\ Covered(Visible(s), line)
      /\ tx[s] \in Request /\ tx[s].got = Len(LockOrder(line))
      /\ line \in Lines /\ line = doc[k]
  BY LineType DEF WriteLine, Ready, LedgerInv, TypeOK, Line
<1>2. \A t \in Sessions :
        /\ tx'[t] = IF t = s THEN [open |-> TRUE, doc |-> doc, line |-> k + 1, got |-> 0] ELSE tx[t]
        /\ pending'[t] = IF t = s
                         THEN [qty |-> Moved(pending[s].qty, line),
                               worth |-> pending[s].worth + LineValue(line),
                               inventory |-> pending[s].inventory + LineValue(line)]
                         ELSE pending[t]
  BY DEF WriteLine, LedgerInv, TypeOK
<1>3. stock' = stock /\ lock' = lock
  BY DEF WriteLine
<1>4. Progress(s)
  BY <1>1 DEF DocumentsProgress, InLine
<1>5. doc \in Documents /\ k \in 1..Len(doc) /\ Done(s) = k - 1
  BY <1>1, <1>4, DocumentLines DEF Progress, Done, InLine, Request
<1>6. /\ Movements(doc)[k] = Moved(Movements(doc)[k - 1], line)
      /\ Values(doc)[k] = Values(doc)[k - 1] + LineValue(line)
  BY <1>1, <1>5, MovementsUnfold, ValuesUnfold
<1>7. LineStands(s, k)
  <2>1. \A j \in 1..Len(LockOrder(line)) : lock[LockOrder(line)[j]] = s
    BY <1>1 DEF LedgerInv, LineIsLocked
  <2>2. Visible(s) = Together(stock, Movements(doc)[k - 1])
    BY <1>4, <1>5 DEF Progress, Visible
  <2> QED
    BY <1>1, <2>1, <2>2 DEF LineStands
<1>8. tx'[s].open /\ tx'[s].doc = doc /\ Done(s)' = k
  BY <1>2, <1>5 DEF Done
<1>9. ASSUME NEW n \in 1..k PROVE LineStands(s, n)'
  <2>1. LineStands(s, n)
    BY <1>4, <1>5, <1>7 DEF Progress
  <2> QED
    BY <1>3, <1>8, <2>1 DEF LineStands
<1>10. /\ pending'[s].qty = Movements(doc)[k]
       /\ pending'[s].worth = Values(doc)[k] /\ pending'[s].inventory = Values(doc)[k]
  BY <1>2, <1>4, <1>5, <1>6 DEF Progress
<1> HIDE DEF doc, k, line
<1>11. Progress(s)'
  <2>1. k \in 0..Len(doc)
    BY <1>5, DocumentLines
  <2> QED
    BY <1>5, <1>8, <1>9, <1>10, <2>1 DEF Progress
<1>12. ASSUME NEW t \in Sessions, t # s
       PROVE  (IF tx[t].open THEN Progress(t) ELSE pending[t] = NoWork)'
  BY <1>2, <1>3, <1>12, OthersStand
<1> QED
  BY <1>8, <1>11, <1>12 DEF DocumentsProgress

(* A transaction ends, with its rows or without: what others have locked is no *)
(* bucket it wrote to.                                                         *)
LEMMA ProgressEnds ==
  ASSUME LedgerInv, DocumentsProgress, NEW s \in Sessions, End(s),
         stock' = stock \/ stock' = Together(stock, pending[s].qty)
  PROVE  DocumentsProgress'
<1>1. \A t \in Sessions : /\ tx'[t] = IF t = s THEN Idle ELSE tx[t]
                          /\ pending'[t] = IF t = s THEN NoWork ELSE pending[t]
  BY DEF LedgerInv, TypeOK, End
<1>2. ASSUME NEW t \in Sessions, t # s
      PROVE  (IF tx[t].open THEN Progress(t) ELSE pending[t] = NoWork)'
  <2>1. \A k \in Keys : lock[k] = t => lock'[k] = t
    BY <1>2 DEF End
  <2>2. ASSUME NEW b \in Bins, NEW q \in Carried, lock[<<b, q>>] = t
        PROVE  stock'[b][q] = stock[b][q]
    <3>1. pending[s].qty[b][q] = 0 /\ q \in Narrowings /\ stock[b][q] \in Int
      BY <1>2, <2>2, CarriedAssumption DEF LedgerInv, WorkIsLocked, TypeOK, Movement
    <3> QED
      BY <3>1 DEF Together
  <2> QED
    BY <1>1, <1>2, <2>1, <2>2, OthersStand
<1> QED
  BY <1>1, <1>2 DEF DocumentsProgress, Idle

LEMMA ProgressStep ==
  ASSUME LedgerInv, DocumentsProgress, [Next]_vars
  PROVE  DocumentsProgress'
<1>1. CASE UNCHANGED vars
  BY <1>1 DEF vars, DocumentsProgress, Progress, Done, LineStands
<1>2. CASE Next
  <2>1. PICK s \in Sessions : (\E doc \in Documents : Begin(s, doc)) \/ Step(s) \/ Fail(s)
    BY <1>2 DEF Next
  <2>2. CASE \E doc \in Documents : Begin(s, doc)
    BY <2>2, ProgressBegins
  <2>3. CASE TakeLock(s)
    BY <2>3, ProgressLocks
  <2>4. CASE WriteLine(s)
    BY <2>4, ProgressWrites
  <2>5. CASE Commit(s) \/ Refuse(s) \/ AbortDeadlock(s) \/ Fail(s)
    <3>1. End(s) /\ (stock' = stock \/ stock' = Together(stock, pending[s].qty))
      BY <2>5 DEF Commit, Refuse, AbortDeadlock, Fail
    <3> QED
      BY <3>1, ProgressEnds
  <2> QED
    BY <2>1, <2>2, <2>3, <2>4, <2>5 DEF Step
<1> QED
  BY <1>1, <1>2

(* The abstract module defines the arithmetic as this one does.                *)
LEMMA SameArithmetic ==
  ASSUME NEW held, NEW line \in Lines
  PROVE  /\ Atomic!WellFormed(line) = WellFormed(line)
         /\ Atomic!Covered(held, line) = Covered(held, line)
         /\ Atomic!Moved(held, line) = Moved(held, line)
         /\ Atomic!LineValue(line) = LineValue(line)
BY DEF Atomic!WellFormed, WellFormed, Atomic!Covered, Covered, Atomic!Moved, Moved,
       Atomic!LineValue, LineValue, Atomic!Leaves, Leaves, Atomic!Arrives, Arrives,
       Atomic!Delta, Delta, Atomic!Counts, Counts, Atomic!Narrowings, Narrowings,
       Atomic!Receive, Receive, Atomic!Issue, Issue, Atomic!Transfer, Transfer

(* Rows that are appended to what is read together with others.                *)
LEMMA MovedTogether ==
  ASSUME NEW held \in Movement, NEW more \in Movement, NEW line \in Lines
  PROVE  Moved(Together(held, more), line) = Together(held, Moved(more, line))
<1>1. \A b \in Bins, q \in Narrowings :
        held[b][q] \in Int /\ more[b][q] \in Int /\ Delta(line, b, q) \in Int
  BY DEF Delta, Lines, Movement
<1>2. \A b \in Bins, q \in Narrowings :
        (held[b][q] + more[b][q]) + Delta(line, b, q)
          = held[b][q] + (more[b][q] + Delta(line, b, q))
  BY <1>1
<1> QED
  BY <1>2 DEF Moved, Together

(* The stock after n lines is the stock together with what the lines move.     *)
LEMMA AfterIsTogether ==
  ASSUME TypeOK, NEW doc \in Documents
  PROVE  \A n \in 0..Len(doc) : Atomic!After(doc)[n] = Together(stock, Movements(doc)[n])
<1> DEFINE F == [n \in 0..Len(doc) |-> Together(stock, Movements(doc)[n])]
           Rec(f) == f = [n \in 0..Len(doc) |->
                            IF n = 0 THEN stock ELSE Atomic!Moved(f[n - 1], doc[n])]
           G == Atomic!After(doc)
           Bad == {n \in 0..Len(doc) : G[n] # F[n]}
<1>1. stock \in Movement /\ Len(doc) \in Nat
  BY DocumentLines DEF TypeOK
<1>2. F[0] = stock
  <2>1. F[0] = Together(stock, NoMovement)
    BY <1>1, MovementsUnfold
  <2> QED
    BY <1>1, <2>1 DEF Together, NoMovement, Movement
<1>3. \A n \in 1..Len(doc) : F[n] = Atomic!Moved(F[n - 1], doc[n])
  <2> SUFFICES ASSUME NEW n \in 1..Len(doc) PROVE F[n] = Atomic!Moved(F[n - 1], doc[n])
    OBVIOUS
  <2>1. doc[n] \in Lines /\ Movements(doc)[n - 1] \in Movement /\ n - 1 \in 0..Len(doc)
    <3>1. n - 1 \in 0..Len(doc)
      BY <1>1
    <3>2. Movements(doc) \in [0..Len(doc) -> Movement]
      BY MovementsUnfold
    <3> QED
      BY <3>1, <3>2, DocumentLines
  <2>2. F[n] = Together(stock, Moved(Movements(doc)[n - 1], doc[n]))
    BY MovementsUnfold
  <2>3. F[n] = Moved(F[n - 1], doc[n])
    BY <1>1, <2>1, <2>2, MovedTogether
  <2> HIDE DEF F
  <2> QED
    BY <2>1, <2>3, SameArithmetic
<1>4. Rec(F)
  <2>1. F = [n \in 0..Len(doc) |-> F[n]]
    OBVIOUS
  <2> HIDE DEF F
  <2> QED
    BY <1>1, <1>2, <1>3, <2>1
<1>5. Rec(G)
  <2>1. G = CHOOSE f : Rec(f)
    BY DEF Atomic!After
  <2> HIDE DEF Rec, F, G
  <2> QED
    BY <1>4, <2>1
<1>6. ASSUME Bad # {} PROVE FALSE
  <2>1. Bad \in SUBSET Nat
    OBVIOUS
  <2>2. PICK n \in Bad : \A m \in Bad : n <= m
    <3> HIDE DEF Bad
    <3> QED
      BY <1>6, <2>1, LeastOf
  <2> HIDE DEF F, G
  <2>3. CASE n = 0
    BY <1>1, <1>2, <1>5, <2>2, <2>3
  <2>4. CASE n # 0
    <3>1. n \in 1..Len(doc) /\ n - 1 \in 0..Len(doc) /\ n - 1 \notin Bad
      BY <2>2, <2>4
    <3>2. G[n - 1] = F[n - 1]
      BY <3>1
    <3>3. G[n] = Atomic!Moved(G[n - 1], doc[n])
      BY <1>5, <3>1
    <3> QED
      BY <1>3, <2>2, <3>1, <3>2, <3>3
  <2> QED
    BY <2>3, <2>4
<1> QED
  BY <1>6

LEMMA DocumentValueIsLast ==
  ASSUME NEW doc \in Documents
  PROVE  Atomic!DocumentValue(doc) = Values(doc)[Len(doc)]
<1> DEFINE F == Values(doc)
           Rec(f) == f = [n \in 0..Len(doc) |->
                            IF n = 0 THEN 0 ELSE f[n - 1] + Atomic!LineValue(doc[n])]
           G == CHOOSE f : Rec(f)
           Bad == {n \in 0..Len(doc) : G[n] # F[n]}
<1>1. Len(doc) \in Nat /\ F \in [0..Len(doc) -> Int] /\ F[0] = 0
  BY DocumentLines, ValuesUnfold
<1>2. \A n \in 1..Len(doc) : F[n] = F[n - 1] + Atomic!LineValue(doc[n])
  BY DocumentLines, ValuesUnfold, SameArithmetic
<1>3. Atomic!DocumentValue(doc) = G[Len(doc)]
  BY DEF Atomic!DocumentValue
<1> HIDE DEF F
<1>4. Rec(F)
  BY <1>1, <1>2
<1>5. Rec(G)
  <2> HIDE DEF Rec
  <2> QED
    BY <1>4
<1> HIDE DEF G
<1>6. ASSUME Bad # {} PROVE FALSE
  <2>1. Bad \in SUBSET Nat
    OBVIOUS
  <2>2. PICK n \in Bad : \A m \in Bad : n <= m
    <3> HIDE DEF Bad
    <3> QED
      BY <1>6, <2>1, LeastOf
  <2>3. CASE n = 0
    BY <1>1, <1>5, <2>2, <2>3
  <2>4. CASE n # 0
    <3>1. n \in 1..Len(doc) /\ n - 1 \in 0..Len(doc) /\ n - 1 \notin Bad
      BY <2>2, <2>4
    <3>2. G[n - 1] = F[n - 1]
      BY <3>1
    <3>3. G[n] = G[n - 1] + Atomic!LineValue(doc[n])
      BY <1>5, <3>1
    <3> QED
      BY <1>2, <2>2, <3>1, <3>2, <3>3
  <2> QED
    BY <2>3, <2>4
<1>7. Len(doc) \in 0..Len(doc)
  BY <1>1
<1> QED
  BY <1>3, <1>6, <1>7 DEF F

(* The commit is the whole document at once; every other step changes nothing  *)
(* that is committed.                                                          *)
LEMMA CommitIsApply ==
  ASSUME LedgerInv, DocumentsProgress, NEW s \in Sessions, Commit(s)
  PROVE  Atomic!Next
<1> DEFINE doc == tx[s].doc
<1>1. Progress(s) /\ tx[s].line > Len(doc)
  BY DEF Commit, DocumentsProgress
<1>2. doc \in Documents /\ Len(doc) \in Nat /\ TypeOK
  BY <1>1, DocumentLines DEF Progress, LedgerInv
<1>3. Done(s) = Len(doc)
  <2>1. tx[s].line \in Nat
    BY <1>2 DEF TypeOK, Request
  <2> QED
    BY <1>1, <1>2, <2>1 DEF Progress, Done
<1>4. ASSUME NEW n \in 1..Len(doc)
      PROVE  /\ Atomic!WellFormed(doc[n])
             /\ Atomic!Covered(Atomic!After(doc)[n - 1], doc[n])
  <2>1. LineStands(s, n) /\ doc[n] \in Lines /\ n - 1 \in 0..Len(doc)
    BY <1>1, <1>2, <1>3, DocumentLines DEF Progress
  <2>2. Atomic!After(doc)[n - 1] = Together(stock, Movements(doc)[n - 1])
    BY <1>2, <2>1, AfterIsTogether
  <2> QED
    BY <2>1, <2>2, SameArithmetic DEF LineStands
<1>5. stock' = Atomic!After(doc)[Len(doc)]
  <2>1. Len(doc) \in 0..Len(doc)
    BY <1>2
  <2>2. Atomic!After(doc)[Len(doc)] = Together(stock, Movements(doc)[Len(doc)])
    BY <1>2, <2>1, AfterIsTogether
  <2> QED
    BY <1>1, <1>3, <2>2 DEF Commit, Progress
<1>6. /\ worth' = worth + Atomic!DocumentValue(doc)
      /\ inventory' = inventory + Atomic!DocumentValue(doc)
  BY <1>1, <1>2, <1>3, DocumentValueIsLast DEF Commit, Progress
<1>7. Atomic!Apply(doc)
  BY <1>4, <1>5, <1>6 DEF Atomic!Apply
<1> QED
  BY <1>2, <1>7 DEF Atomic!Next

LEMMA StepIsAtomic ==
  ASSUME LedgerInv, DocumentsProgress, [Next]_vars
  PROVE  [Atomic!Next]_(Atomic!vars)
<1>1. ASSUME NEW s \in Sessions, Commit(s) PROVE Atomic!Next
  BY <1>1, CommitIsApply
<1>2. CASE UNCHANGED <<stock, worth, inventory>>
  BY <1>2 DEF Atomic!vars
<1>3. UNCHANGED <<stock, worth, inventory>> \/ \E s \in Sessions : Commit(s)
  BY DEF Next, Step, Begin, TakeLock, WriteLine, Refuse, AbortDeadlock, Fail, vars
<1> QED
  BY <1>1, <1>2, <1>3

(* Documents are atomic (transactions.py under the caller's transaction):      *)
(* whatever sessions do between its lines, a document that commits moves stock *)
(* and value as if all of its lines, each covered, had happened at once, and   *)
(* one that does not commit leaves no trace.                                   *)
THEOREM DocumentsAreAtomic ==
  ASSUME Uniform
  PROVE  Spec => Atomicity
<1>1. Init => Atomic!Init
  BY DEF Init, Atomic!Init
<1>2. Init => LedgerInv /\ DocumentsProgress
  BY InitInv, ProgressStarts
<1>3. LedgerInv /\ DocumentsProgress /\ [Next]_vars => LedgerInv' /\ DocumentsProgress'
  BY NextInv, ProgressStep
<1>4. LedgerInv /\ DocumentsProgress /\ [Next]_vars => [Atomic!Next]_(Atomic!vars)
  BY StepIsAtomic
<1> QED
  BY <1>1, <1>2, <1>3, <1>4, PTL DEF Spec, Atomicity, Atomic!Spec
=============================================================================
