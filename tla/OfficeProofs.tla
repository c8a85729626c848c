------------------------------ MODULE OfficeProofs ------------------------------
(* Approvals: an approved document was approved at every level of its chain,  *)
(* for any number of sessions deciding on stale rows, any chain and any       *)
(* amounts.  The desks of the office: the tree of the staff and its history,  *)
(* rosters, the journal, payroll, leave, the accounts and the clock, for any   *)
(* number of people, clerks, days, shifts, keys, rates, periods and loans.    *)
(* The two share no variable.                                                 *)
EXTENDS Approval, MCOffice, SumTheorems, TLAPS, FiniteSetTheorems

(* --------------------------------- approvals ------------------------------- *)

(* The chain of any amount is finite.                                         *)
LEMMA ChainLengthType ==
  ASSUME NEW a
  PROVE  ChainLength(a) \in Nat
<1>1. IsFiniteSet(1..Levels)
  BY LevelsAssumption, FS_Interval
<1>2. IsFiniteSet(Reached(a))
  BY <1>1, FS_Subset DEF Reached
<1> QED
  BY <1>2, FS_CardinalityType DEF ChainLength

(* A longer record still carries the approvals of a shorter one.              *)
LEMMA RecordKeepsApprovals ==
  ASSUME TypeOK, NEW r \in Requests, NEW p \in Nat \ {0}, ApprovedBefore(r, p),
         \/ decisions'[r] = decisions[r]
         \/ \E d \in Decision : decisions'[r] = Append(decisions[r], d)
  PROVE  ApprovedBefore(r, p)'
<1>1. decisions[r] \in Seq(Decision)
  BY DEF TypeOK
<1>2. /\ Len(decisions'[r]) >= Len(decisions[r])
      /\ \A i \in 1..Len(decisions[r]) : decisions'[r][i] = decisions[r][i]
      /\ Len(decisions'[r]) \in Nat
  BY <1>1
<1> SUFFICES ASSUME NEW q \in 1..(p - 1)
             PROVE  \E i \in 1..Len(decisions'[r]) :
                      decisions'[r][i] = [position |-> q, action |-> "approve"]
  BY DEF ApprovedBefore
<1>3. PICK i \in 1..Len(decisions[r]) :
        decisions[r][i] = [position |-> q, action |-> "approve"]
  BY DEF ApprovedBefore
<1>4. i \in 1..Len(decisions'[r])
  BY <1>1, <1>2
<1> QED
  BY <1>2, <1>3, <1>4

(* Approving one more position extends the approvals by that position.        *)
LEMMA ApprovalExtends ==
  ASSUME TypeOK, NEW r \in Requests, NEW p \in Nat \ {0}, ApprovedBefore(r, p),
         decisions'[r] = Append(decisions[r], [position |-> p, action |-> "approve"])
  PROVE  ApprovedBefore(r, p + 1)'
<1> DEFINE d == [position |-> p, action |-> "approve"]
<1>1. decisions[r] \in Seq(Decision) /\ d \in Decision
  BY DEF TypeOK, Decision, Actions
<1>2. ApprovedBefore(r, p)'
  BY <1>1, RecordKeepsApprovals
<1>3. LET n == Len(decisions'[r]) IN n \in 1..n /\ decisions'[r][n] = d
  BY <1>1
<1> SUFFICES ASSUME NEW q \in 1..((p + 1) - 1)
             PROVE  \E i \in 1..Len(decisions'[r]) :
                      decisions'[r][i] = [position |-> q, action |-> "approve"]
  BY DEF ApprovedBefore
<1>4. CASE q \in 1..(p - 1)
  BY <1>2, <1>4 DEF ApprovedBefore
<1>5. CASE q = p
  BY <1>3, <1>5
<1> QED
  BY <1>4, <1>5

(* Nothing is approved, and nothing is waiting beyond the first level.        *)
LEMMA InitInv == Init => ApprovalInv
<1> SUFFICES ASSUME Init PROVE ApprovalInv
  OBVIOUS
<1>1. TypeOK
  BY DEF Init, TypeOK, States, Hand, EmptyHand
<1>2. ReachedLevelsApproved
  <2>1. \A r \in Requests : level[r] = 1
    BY DEF Init
  <2>2. \A s \in Sessions : hand[s].request = Nothing
    BY DEF Init, EmptyHand
  <2> QED
    BY <2>1, <2>2 DEF ReachedLevelsApproved, ApprovedBefore
<1>3. ApprovedByEveryLevel
  BY DEF Init, ApprovedByEveryLevel
<1> QED
  BY <1>1, <1>2, <1>3 DEF ApprovalInv

(* Submitting changes no record and approves nothing.                         *)
LEMMA SubmitInv ==
  ASSUME ApprovalInv, NEW r \in Requests, NEW a \in Amounts, Submit(r, a)
  PROVE  ApprovalInv'
<1> USE DEF ApprovalInv
<1>1. TypeOK'
  BY AmountsAssumption DEF TypeOK, Submit, States
<1>2. ReachedLevelsApproved'
  BY DEF Submit, ReachedLevelsApproved, ApprovedBefore
<1>3. ApprovedByEveryLevel'
  <2> SUFFICES ASSUME NEW t \in Requests, state'[t] = "approved"
               PROVE  ApprovedBefore(t, ChainLength(amount[t]) + 1)'
    BY DEF ApprovedByEveryLevel
  <2>1. t # r
    BY DEF Submit, TypeOK
  <2>2. state'[t] = state[t] /\ amount'[t] = amount[t] /\ decisions' = decisions
    BY <2>1 DEF Submit, TypeOK
  <2> QED
    BY <2>2 DEF ApprovedByEveryLevel, ApprovedBefore
<1> QED
  BY <1>1, <1>2, <1>3

(* A loaded row carries the approvals the row itself has.                     *)
LEMMA LoadInv ==
  ASSUME ApprovalInv, NEW s \in Sessions, NEW r \in Requests, Load(s, r)
  PROVE  ApprovalInv'
<1> USE DEF ApprovalInv
<1>1. TypeOK'
  BY DEF TypeOK, Load, Hand
<1>2. ReachedLevelsApproved'
  <2>1. \A t \in Sessions :
          hand'[t] = IF t = s THEN [request |-> r, state |-> state[r], level |-> level[r]]
                     ELSE hand[t]
    BY DEF Load, TypeOK
  <2>2. level' = level /\ decisions' = decisions
    BY DEF Load
  <2> QED
    BY <2>1, <2>2 DEF ReachedLevelsApproved, ApprovedBefore
<1>3. ApprovedByEveryLevel'
  BY DEF Load, ApprovedByEveryLevel, ApprovedBefore
<1> QED
  BY <1>1, <1>2, <1>3

(* What every decision does to the hands and the records.                     *)
LEMMA DecisionKeepsApprovals ==
  ASSUME ApprovalInv, NEW s \in Sessions, NEW d \in Decision, hand[s].request # Nothing,
         decisions' = [decisions EXCEPT ![hand[s].request] = Append(@, d)],
         PutDown(s), amount' = amount,
         \A r \in Requests : level'[r] = level[r] \/ r = hand[s].request,
         \A r \in Requests : state'[r] = state[r] \/ r = hand[s].request
  PROVE  /\ \A r \in Requests, p \in Nat \ {0} : ApprovedBefore(r, p) => ApprovedBefore(r, p)'
         /\ hand[s].request \in Requests
         /\ hand' \in [Sessions -> Hand]
         /\ decisions' \in [Requests -> Seq(Decision)]
         /\ \A t \in Sessions : hand'[t].request # Nothing =>
              ApprovedBefore(hand[t].request, hand[t].level)' /\ hand'[t] = hand[t]
<1> USE DEF ApprovalInv
<1> DEFINE r0 == hand[s].request
<1>1. r0 \in Requests
  BY DEF TypeOK, Hand
<1>2. hand' \in [Sessions -> Hand] /\ decisions' \in [Requests -> Seq(Decision)]
  BY <1>1 DEF TypeOK, PutDown, Hand, EmptyHand, States
<1>3. \A r \in Requests :
        \/ decisions'[r] = decisions[r]
        \/ \E e \in Decision : decisions'[r] = Append(decisions[r], e)
  BY <1>1 DEF TypeOK
<1>4. \A r \in Requests, p \in Nat \ {0} : ApprovedBefore(r, p) => ApprovedBefore(r, p)'
  BY <1>3, RecordKeepsApprovals
<1>5. \A t \in Sessions : hand'[t].request # Nothing => t # s /\ hand'[t] = hand[t]
  BY DEF TypeOK, PutDown, EmptyHand
<1>6. \A t \in Sessions : hand'[t].request # Nothing =>
              ApprovedBefore(hand[t].request, hand[t].level)' /\ hand'[t] = hand[t]
  <2> SUFFICES ASSUME NEW t \in Sessions, hand'[t].request # Nothing
               PROVE  ApprovedBefore(hand[t].request, hand[t].level)' /\ hand'[t] = hand[t]
    OBVIOUS
  <2>1. hand'[t] = hand[t]
    BY <1>5
  <2>2. hand[t].request \in Requests /\ hand[t].level \in Nat \ {0}
    BY <2>1 DEF TypeOK, Hand
  <2>3. ApprovedBefore(hand[t].request, hand[t].level)
    BY <2>1 DEF ReachedLevelsApproved
  <2>4. hand'[t].request = hand[t].request /\ hand'[t].level = hand[t].level
    BY <2>1
  <2>5. decisions'[hand[t].request] = decisions[hand[t].request] \/ \E e \in Decision :
           decisions'[hand[t].request] = Append(decisions[hand[t].request], e)
    BY <1>3, <2>2
  <2> DEFINE r == hand[t].request
             p == hand[t].level
  <2>6. r \in Requests /\ p \in Nat \ {0} /\ ApprovedBefore(r, p)
    BY <2>2, <2>3
  <2>7. \A i \in 1..(p - 1) : \E j \in 1..Len(decisions'[r]) :
           decisions'[r][j] = [position |-> i, action |-> "approve"]
    BY <1>4, <2>6 DEF ApprovedBefore
  <2> QED
    BY <2>1, <2>4, <2>7 DEF ApprovedBefore
<1> QED
  BY <1>1, <1>2, <1>4, <1>6

(* An approval moves the request on by exactly the level it approved.         *)
LEMMA ApproveInv ==
  ASSUME ApprovalInv, NEW s \in Sessions, NEW role \in Roles, Approve(s, role)
  PROVE  ApprovalInv'
<1> USE DEF ApprovalInv
<1>1. hand[s].request # Nothing /\ hand[s] \in Hand
  BY DEF Approve, MayDecide, TypeOK
<1>2. PICK r0 \in Requests, p0 \in Nat \ {0} : r0 = hand[s].request /\ p0 = hand[s].level
  BY <1>1 DEF Hand
<1> DEFINE d == [position |-> p0, action |-> "approve"]
<1>3. d \in Decision
  BY DEF Decision, Actions
<1>4. decisions' = [decisions EXCEPT ![r0] = Append(@, d)] /\ PutDown(s) /\ amount' = amount
  BY <1>2 DEF Approve, Record
<1>5. /\ \A r \in Requests : level'[r] = IF r = r0 /\ ~LastLevel(s) THEN p0 + 1 ELSE level[r]
      /\ \A r \in Requests : state'[r] = IF r = r0 /\ LastLevel(s) THEN "approved" ELSE state[r]
      /\ state' \in [Requests -> States]
      /\ level' \in [Requests -> Nat \ {0}]
  <2>1. state \in [Requests -> States] /\ level \in [Requests -> Nat \ {0}]
    BY DEF TypeOK
  <2>2. "approved" \in States /\ p0 + 1 \in Nat \ {0}
    BY DEF States, Finished
  <2>3. CASE LastLevel(s)
    <3>1. state' = [state EXCEPT ![r0] = "approved"] /\ level' = level
      BY <1>2, <2>3 DEF Approve
    <3> QED
      BY <2>1, <2>2, <2>3, <3>1
  <2>4. CASE ~LastLevel(s)
    <3>1. level' = [level EXCEPT ![r0] = p0 + 1] /\ state' = state
      BY <1>2, <2>4 DEF Approve
    <3> QED
      BY <2>1, <2>2, <2>4, <3>1
  <2> QED
    BY <2>3, <2>4
<1>6. /\ \A r \in Requests, p \in Nat \ {0} : ApprovedBefore(r, p) => ApprovedBefore(r, p)'
      /\ hand' \in [Sessions -> Hand]
      /\ decisions' \in [Requests -> Seq(Decision)]
      /\ \A t \in Sessions : hand'[t].request # Nothing =>
           ApprovedBefore(hand[t].request, hand[t].level)' /\ hand'[t] = hand[t]
  BY <1>1, <1>2, <1>3, <1>4, <1>5, DecisionKeepsApprovals
<1>7. ApprovedBefore(r0, p0 + 1)'
  <2>1. ApprovedBefore(r0, p0)
    BY <1>1, <1>2 DEF ReachedLevelsApproved
  <2>2. decisions'[r0] = Append(decisions[r0], [position |-> p0, action |-> "approve"])
    BY <1>2, <1>4 DEF TypeOK
  <2> QED
    BY <2>1, <2>2, ApprovalExtends
<1>8. TypeOK'
  BY <1>4, <1>5, <1>6 DEF TypeOK
<1>9. ReachedLevelsApproved'
  <2>1. ASSUME NEW r \in Requests PROVE ApprovedBefore(r, level[r])'
    <3>1. CASE r = r0 /\ ~LastLevel(s)
      BY <1>5, <1>7, <3>1 DEF ApprovedBefore
    <3>2. CASE ~(r = r0 /\ ~LastLevel(s))
      <4>1. level'[r] = level[r] /\ level[r] \in Nat \ {0}
        BY <1>5, <3>2 DEF TypeOK
      <4>2. ApprovedBefore(r, level[r])
        BY DEF ReachedLevelsApproved
      <4>3. PICK p \in Nat \ {0} : p = level[r]
        BY <4>1
      <4>4. ApprovedBefore(r, p)'
        BY <1>6, <4>2, <4>3
      <4> QED
        BY <4>1, <4>3, <4>4 DEF ApprovedBefore
    <3> QED
      BY <3>1, <3>2
  <2>2. ASSUME NEW t \in Sessions, hand'[t].request # Nothing
        PROVE  ApprovedBefore(hand[t].request, hand[t].level)'
    BY <1>6, <2>2
  <2> QED
    BY <2>1, <2>2 DEF ReachedLevelsApproved
<1>10. ApprovedByEveryLevel'
  <2> SUFFICES ASSUME NEW r \in Requests, state'[r] = "approved"
               PROVE  ApprovedBefore(r, ChainLength(amount[r]) + 1)'
    BY DEF ApprovedByEveryLevel
  <2>1. PICK n \in Nat : n = ChainLength(amount[r])
    BY ChainLengthType
  <2>2. amount'[r] = amount[r]
    BY <1>4
  <2>3. ApprovedBefore(r, n + 1)'
    <3>1. CASE r = r0 /\ LastLevel(s)
      <4>1. p0 >= n
        BY <1>2, <2>1, <3>1 DEF LastLevel
      <4> QED
        BY <1>7, <3>1, <4>1 DEF ApprovedBefore
    <3>2. CASE ~(r = r0 /\ LastLevel(s))
      <4>1. state[r] = "approved"
        BY <1>5, <3>2
      <4> QED
        BY <1>6, <2>1, <4>1 DEF ApprovedByEveryLevel
    <3> QED
      BY <3>1, <3>2
  <2> QED
    BY <2>1, <2>2, <2>3 DEF ApprovedBefore
<1> QED
  BY <1>8, <1>9, <1>10

(* A refusal adds to the record and leaves every level where it is.           *)
LEMMA TurnDownInv ==
  ASSUME ApprovalInv, NEW s \in Sessions, NEW role \in Roles, NEW action \in Actions,
         TurnDown(s, role, action)
  PROVE  ApprovalInv'
<1> USE DEF ApprovalInv
<1>1. hand[s].request # Nothing /\ hand[s] \in Hand
  BY DEF TurnDown, MayDecide, TypeOK
<1>2. PICK r0 \in Requests, p0 \in Nat \ {0} : r0 = hand[s].request /\ p0 = hand[s].level
  BY <1>1 DEF Hand
<1> DEFINE d == [position |-> p0, action |-> action]
<1>3. d \in Decision
  BY DEF Decision
<1>4. /\ decisions' = [decisions EXCEPT ![r0] = Append(@, d)]
      /\ PutDown(s) /\ amount' = amount /\ level' = level
  BY <1>2 DEF TurnDown, Record
<1>5. /\ \A r \in Requests : state'[r] = state[r] \/ (r = r0 /\ state'[r] # "approved")
      /\ state' \in [Requests -> States]
  BY <1>2 DEF TurnDown, TypeOK, States, Finished
<1>6. /\ \A r \in Requests, p \in Nat \ {0} : ApprovedBefore(r, p) => ApprovedBefore(r, p)'
      /\ hand' \in [Sessions -> Hand]
      /\ decisions' \in [Requests -> Seq(Decision)]
      /\ \A t \in Sessions : hand'[t].request # Nothing =>
           ApprovedBefore(hand[t].request, hand[t].level)' /\ hand'[t] = hand[t]
  BY <1>1, <1>2, <1>3, <1>4, <1>5, DecisionKeepsApprovals
<1>7. TypeOK'
  BY <1>4, <1>5, <1>6 DEF TypeOK
<1>8. ReachedLevelsApproved'
  <2>1. ASSUME NEW r \in Requests PROVE ApprovedBefore(r, level[r])'
    <3>1. PICK p \in Nat \ {0} : p = level[r]
      BY DEF TypeOK
    <3>2. ApprovedBefore(r, p)'
      BY <1>6, <3>1 DEF ReachedLevelsApproved
    <3> QED
      BY <1>4, <3>1, <3>2 DEF ApprovedBefore
  <2>2. ASSUME NEW t \in Sessions, hand'[t].request # Nothing
        PROVE  ApprovedBefore(hand[t].request, hand[t].level)'
    BY <1>6, <2>2
  <2> QED
    BY <2>1, <2>2 DEF ReachedLevelsApproved
<1>9. ApprovedByEveryLevel'
  <2> SUFFICES ASSUME NEW r \in Requests, state'[r] = "approved"
               PROVE  ApprovedBefore(r, ChainLength(amount[r]) + 1)'
    BY DEF ApprovedByEveryLevel
  <2>1. PICK n \in Nat : n = ChainLength(amount[r])
    BY ChainLengthType
  <2>2. amount'[r] = amount[r] /\ state[r] = "approved"
    BY <1>4, <1>5
  <2>3. ApprovedBefore(r, n + 1)'
    BY <1>6, <2>1, <2>2 DEF ApprovedByEveryLevel
  <2> QED
    BY <2>1, <2>2, <2>3 DEF ApprovedBefore
<1> QED
  BY <1>7, <1>8, <1>9

(* A session that puts its row down leaves nothing waiting.                   *)
LEMMA GiveUpInv ==
  ASSUME ApprovalInv, NEW s \in Sessions, GiveUp(s)
  PROVE  ApprovalInv'
<1> USE DEF ApprovalInv
<1>1. TypeOK'
  BY DEF TypeOK, GiveUp, PutDown, EmptyHand, Hand, States
<1>2. ReachedLevelsApproved'
  <2>1. \A t \in Sessions : hand'[t].request # Nothing => hand'[t] = hand[t]
    BY DEF GiveUp, PutDown, EmptyHand, TypeOK
  <2>2. level' = level /\ decisions' = decisions
    BY DEF GiveUp
  <2> QED
    BY <2>1, <2>2 DEF ReachedLevelsApproved, ApprovedBefore
<1>3. ApprovedByEveryLevel'
  BY DEF GiveUp, ApprovedByEveryLevel, ApprovedBefore
<1> QED
  BY <1>1, <1>2, <1>3

(* Every step keeps the invariant.                                            *)
LEMMA NextInv == ApprovalInv /\ [Next]_vars => ApprovalInv'
<1> SUFFICES ASSUME ApprovalInv, [Next]_vars PROVE ApprovalInv'
  OBVIOUS
<1>1. ASSUME NEW r \in Requests, NEW a \in Amounts, Submit(r, a) PROVE ApprovalInv'
  BY <1>1, SubmitInv
<1>2. ASSUME NEW s \in Sessions, NEW r \in Requests, Load(s, r) PROVE ApprovalInv'
  BY <1>2, LoadInv
<1>3. ASSUME NEW s \in Sessions, NEW role \in Roles, Approve(s, role) PROVE ApprovalInv'
  BY <1>3, ApproveInv
<1>4. ASSUME NEW s \in Sessions, NEW role \in Roles, NEW action \in Actions,
             TurnDown(s, role, action)
      PROVE ApprovalInv'
  BY <1>4, TurnDownInv
<1>5. ASSUME NEW s \in Sessions, GiveUp(s) PROVE ApprovalInv'
  BY <1>5, GiveUpInv
<1>6. CASE UNCHANGED vars
  BY <1>6 DEF vars, ApprovalInv, TypeOK, ReachedLevelsApproved, ApprovedByEveryLevel,
              ApprovedBefore
<1> QED
  BY <1>1, <1>2, <1>3, <1>4, <1>5, <1>6 DEF Next

(* The strengthened invariant holds of every behaviour of decide.             *)
THEOREM ApprovalInvariant == Spec => []ApprovalInv
<1> QED
  BY InitInv, NextInv, PTL DEF Spec

(* The requests, records and loaded rows keep their types.                    *)
THEOREM TypeCorrect == Spec => []TypeOK
<1>1. ApprovalInv => TypeOK
  BY DEF ApprovalInv
<1> QED
  BY <1>1, ApprovalInvariant, PTL

(* No race of decisions approves a document a level of its chain has not      *)
(* approved.                                                                  *)
THEOREM NeverApprovedEarly == Spec => []ApprovedByEveryLevel
<1>1. ApprovalInv => ApprovedByEveryLevel
  BY DEF ApprovalInv
<1> QED
  BY <1>1, ApprovalInvariant, PTL

(* A decision is recorded at the level its session loaded, which comes after  *)
(* approvals of every earlier level; the records before it stay in place.     *)
LEMMA DecisionFollows ==
  ASSUME ApprovalInv, DecisionsFollowTheChain, NEW s \in Sessions, NEW action \in Actions,
         hand[s].request # Nothing, Record(s, action)
  PROVE  DecisionsFollowTheChain'
<1> USE DEF ApprovalInv
<1>1. hand[s] \in Hand
  BY DEF TypeOK
<1>2. PICK r0 \in Requests, p0 \in Nat \ {0} : r0 = hand[s].request /\ p0 = hand[s].level
  BY <1>1 DEF Hand
<1> DEFINE d == [position |-> p0, action |-> action]
<1>3. decisions \in [Requests -> Seq(Decision)] /\ d \in Decision
  BY DEF TypeOK, Decision
<1>4. decisions' = [decisions EXCEPT ![r0] = Append(@, d)]
  BY <1>2 DEF Record
<1>5. ApprovedBefore(r0, p0)
  BY <1>2 DEF ReachedLevelsApproved
<1> SUFFICES ASSUME NEW r \in Requests, NEW i \in 1..Len(decisions'[r]),
                    NEW q \in 1..(decisions'[r][i].position - 1)
             PROVE  \E j \in 1..(i - 1) :
                      decisions'[r][j] = [position |-> q, action |-> "approve"]
  BY DEF DecisionsFollowTheChain
<1>6. CASE r # r0
  <2>1. decisions'[r] = decisions[r]
    BY <1>3, <1>4, <1>6
  <2> QED
    BY <2>1 DEF DecisionsFollowTheChain
<1>7. CASE r = r0
  <2> DEFINE old == decisions[r]
  <2>1. old \in Seq(Decision) /\ decisions'[r] = Append(old, d)
    BY <1>3, <1>4, <1>7
  <2>2. /\ Len(old) \in Nat /\ i \in 1..(Len(old) + 1)
        /\ \A j \in 1..Len(old) : decisions'[r][j] = old[j]
        /\ decisions'[r][Len(old) + 1] = d
    BY <2>1
  <2>3. CASE i = Len(old) + 1
    <3>1. decisions'[r][i].position = p0
      BY <2>2, <2>3
    <3>2. PICK j \in 1..Len(old) : old[j] = [position |-> q, action |-> "approve"]
      BY <1>5, <1>7, <3>1 DEF ApprovedBefore
    <3>3. j \in 1..(i - 1) /\ decisions'[r][j] = old[j]
      BY <2>2, <2>3
    <3> QED
      BY <3>2, <3>3
  <2>4. CASE i # Len(old) + 1
    <3>1. i \in 1..Len(old) /\ decisions'[r][i] = old[i]
      BY <2>2, <2>4
    <3>2. PICK j \in 1..(i - 1) : old[j] = [position |-> q, action |-> "approve"]
      BY <3>1 DEF DecisionsFollowTheChain
    <3>3. decisions'[r][j] = old[j]
      BY <2>2, <3>1
    <3> QED
      BY <3>2, <3>3
  <2> QED
    BY <2>3, <2>4
<1> QED
  BY <1>6, <1>7

(* Whoever decides on whatever row was loaded, each decision on the record    *)
(* comes after an approval of every earlier level: the document had reached   *)
(* that level (workflow.py decide).                                           *)
THEOREM DecisionsComeInOrder == Spec => []DecisionsFollowTheChain
<1>1. Init => DecisionsFollowTheChain
  BY DEF Init, DecisionsFollowTheChain
<1>2. ApprovalInv /\ DecisionsFollowTheChain /\ [Next]_vars => DecisionsFollowTheChain'
  <2> SUFFICES ASSUME ApprovalInv, DecisionsFollowTheChain, [Next]_vars
               PROVE  DecisionsFollowTheChain'
    OBVIOUS
  <2>1. CASE UNCHANGED decisions
    BY <2>1 DEF DecisionsFollowTheChain
  <2>2. ASSUME NEW s \in Sessions, NEW role \in Roles, Approve(s, role)
        PROVE  DecisionsFollowTheChain'
    BY <2>2, DecisionFollows DEF Approve, MayDecide, Actions
  <2>3. ASSUME NEW s \in Sessions, NEW role \in Roles, NEW action \in Actions,
               TurnDown(s, role, action)
        PROVE  DecisionsFollowTheChain'
    BY <2>3, DecisionFollows DEF TurnDown, MayDecide
  <2> QED
    BY <2>1, <2>2, <2>3 DEF Next, Submit, Load, GiveUp, vars
<1> QED
  BY <1>1, <1>2, ApprovalInvariant, PTL DEF Spec

(* ----------------------------------- staff --------------------------------- *)

LEMMA OrgConstants ==
  /\ IsFiniteSet(People) /\ Org!Nobody \notin People /\ Org!Absent \notin People
  /\ Org!Nobody # Org!Absent
  /\ Org!Cardinality(People) = Cardinality(People) /\ Cardinality(People) \in Nat
  /\ LastDay \in Nat \ {0} /\ Salaries \subseteq Nat
  /\ \A S : Org!Cardinality(S) = Cardinality(S)
<1>1. \A S : Org!IsFiniteSet(S) <=> IsFiniteSet(S)
  BY DEF Org!IsFiniteSet, IsFiniteSet
<1>2. \A S : Org!Cardinality(S) = Cardinality(S)
  BY DEF Org!Cardinality, Cardinality
<1>3. Org!StaffAssumption /\ Org!BoundAssumption
  BY OfficeParameters
<1> QED
  BY <1>1, <1>2, <1>3, FS_CardinalityType
     DEF Org!StaffAssumption, Org!BoundAssumption, Org!Nobody, Org!Absent

(* The start of the row in force on a day is the latest that is not later.     *)
LEMMA StartIs ==
  ASSUME NEW history, NEW none, NEW day \in Nat
  PROVE  LET d == Org!Start(history, none, day) IN
         /\ d \in 0..day
         /\ d # 0 => history[d] # none
         /\ \A x \in 1..day : history[x] # none => x <= d
<1> DEFINE S == {0} \cup {d \in 1..day : history[d] # none}
           Back == {day - d : d \in S}
<1>1. Back \in SUBSET Nat /\ Back # {}
  <2>1. day - 0 \in Back
    OBVIOUS
  <2> QED
    BY <2>1
<1>2. PICK k \in Back : \A m \in Back : k <= m
  <2> HIDE DEF Back
  <2> QED
    BY <1>1, LeastOf
<1>3. PICK d \in S : k = day - d
  BY <1>2
<1>4. \A x \in S : d >= x
  <2> TAKE x \in S
  <2>1. day - x \in Back
    OBVIOUS
  <2>2. day - d <= day - x
    BY <1>2, <1>3, <2>1
  <2> QED
    BY <2>2
<1>5. Org!Start(history, none, day) = CHOOSE x \in S : \A y \in S : x >= y
  BY DEF Org!Start, Org!Max
<1> DEFINE t == CHOOSE x \in S : \A y \in S : x >= y
<1>6. t \in S /\ \A y \in S : t >= y
  BY <1>4
<1> HIDE DEF t
<1>7. t \in 0..day /\ (t # 0 => history[t] # none)
  BY <1>6
<1>8. ASSUME NEW x \in 1..day, history[x] # none PROVE x <= t
  <2>1. x \in S
    BY <1>8
  <2> QED
    BY <1>6, <1>7, <2>1
<1>9. Org!Start(history, none, day) = t
  BY <1>5 DEF t
<1> QED
  BY <1>7, <1>8, <1>9

(* What a day's row is, as a property of the day.                              *)
LEMMA StartIsThe ==
  ASSUME NEW history, NEW none, NEW day \in Nat, NEW d \in 0..day,
         d # 0 => history[d] # none, \A x \in 1..day : history[x] # none => x <= d
  PROVE  Org!Start(history, none, day) = d
<1> DEFINE t == Org!Start(history, none, day)
<1>1. /\ t \in 0..day /\ (t # 0 => history[t] # none)
      /\ \A x \in 1..day : history[x] # none => x <= t
  BY StartIs
<1> HIDE DEF t
<1>2. d <= t
  <2>1. CASE d = 0
    BY <1>1, <2>1
  <2>2. CASE d # 0
    BY <1>1, <2>2
  <2> QED
    BY <2>1, <2>2
<1>3. t <= d
  <2>1. CASE t = 0
    BY <1>1, <2>1
  <2>2. CASE t # 0
    BY <1>1, <2>2
  <2> QED
    BY <2>1, <2>2
<1> QED
  BY <1>1, <1>2, <1>3 DEF t

(* Histories that agree up to a day have the same row in force on it.          *)
LEMMA StartOfSame ==
  ASSUME NEW old, NEW new, NEW none, NEW day \in Nat, \A x \in 1..day : old[x] = new[x]
  PROVE  LET d == Org!Start(old, none, day) IN
         d = Org!Start(new, none, day) /\ (d # 0 => old[d] = new[d])
<1> DEFINE t == Org!Start(old, none, day)
<1>1. /\ t \in 0..day /\ (t # 0 => old[t] # none)
      /\ \A x \in 1..day : old[x] # none => x <= t
  BY StartIs
<1> HIDE DEF t
<1>2. t # 0 => old[t] = new[t]
  BY <1>1
<1>3. (t # 0 => new[t] # none) /\ \A x \in 1..day : new[x] # none => x <= t
  BY <1>1, <1>2
<1>4. Org!Start(new, none, day) = t
  BY <1>1, <1>3, StartIsThe
<1> QED
  BY <1>2, <1>4 DEF t

(* A new row, later than the last one: it is in force from its day on, and     *)
(* what was in force before stays so.                                          *)
LEMMA StartOfNew ==
  ASSUME NEW history, NEW none, NEW new \in Org!Days, NEW row, row # none,
         DOMAIN history = Org!Days, Org!Latest(history, none) < new
  PROVE  LET now == [history EXCEPT ![new] = row] IN
         \A day \in 0..LastDay :
           /\ day >= new => Org!Start(now, none, day) = new /\ now[new] = row
           /\ day < new =>
                LET d == Org!Start(history, none, day) IN
                Org!Start(now, none, day) = d /\ (d # 0 => now[d] = history[d])
<1> DEFINE now == [history EXCEPT ![new] = row]
<1>1. LastDay \in Nat /\ Org!Days = 1..LastDay
  BY OrgConstants DEF Org!Days
<1>2. \A x \in 1..LastDay : now[x] = IF x = new THEN row ELSE history[x]
  BY <1>1
<1>3. \A x \in 1..LastDay : history[x] # none => x < new
  BY <1>1, StartIs DEF Org!Latest
<1> HIDE DEF now
<1>4. ASSUME NEW day \in 0..LastDay, day >= new
      PROVE  Org!Start(now, none, day) = new /\ now[new] = row
  <2>1. now[new] = row /\ new \in 0..day /\ day \in Nat
    BY <1>1, <1>2, <1>4
  <2>2. \A x \in 1..day : now[x] # none => x <= new
    BY <1>1, <1>2, <1>3
  <2> QED
    BY <2>1, <2>2, StartIsThe
<1>5. ASSUME NEW day \in 0..LastDay, day < new
      PROVE  LET d == Org!Start(history, none, day) IN
             Org!Start(now, none, day) = d /\ (d # 0 => now[d] = history[d])
  <2>1. day \in Nat /\ \A x \in 1..day : history[x] = now[x]
    BY <1>1, <1>2, <1>5
  <2> QED
    BY <2>1, StartOfSame
<1> QED
  BY <1>4, <1>5 DEF now

(* The structure of a day: who has a manager is lower than the manager is, so  *)
(* that no way up comes back; and one root.                                    *)
ManagerOf(day) == [e \in People |-> Org!ManagerOn(e, day)]
Falls(S, depth, manager) ==
  /\ depth \in [S -> Nat]
  /\ \A e \in S : manager[e] \in S => depth[manager[e]] < depth[e]
OneTree(manager) ==
  /\ \E depth : Falls(People, depth, manager)
  /\ \A e, f \in People : manager[e] = Org!Nobody /\ manager[f] = Org!Nobody => e = f

OrgInv == Org!TypeOK /\ \A day \in Org!Days : OneTree(ManagerOf(day))

LEMMA ManagersAre ==
  ASSUME Org!TypeOK, NEW day \in 0..LastDay
  PROVE  ManagerOf(day) \in [People -> People \cup {Org!Nobody, Org!Absent}]
<1> SUFFICES ASSUME NEW e \in People
             PROVE  Org!ManagerOn(e, day) \in People \cup {Org!Nobody, Org!Absent}
  BY DEF ManagerOf
<1> DEFINE d == Org!Start(staffPlacements[e], Org!Absent, day)
<1>1. d \in 0..day /\ day \in Nat /\ day <= LastDay
  BY StartIs, OrgConstants
<1>2. d # 0 => staffPlacements[e][d] \in People \cup {Org!Nobody, Org!Absent}
  BY <1>1, OrgConstants DEF Org!TypeOK, Org!PlacementRows, Org!Days
<1> HIDE DEF d
<1>3. Org!ManagerOn(e, day) = IF d = 0 THEN Org!Absent ELSE staffPlacements[e][d]
  BY DEF Org!ManagerOn, d
<1> QED
  BY <1>2, <1>3

LEMMA OrgStart == Org!Init => OrgInv
<1> SUFFICES ASSUME Org!Init PROVE OrgInv
  OBVIOUS
<1>1. Org!TypeOK
  BY DEF Org!Init, Org!TypeOK, Org!ContractRows, Org!PlacementRows
<1>2. ASSUME NEW day \in Org!Days, NEW e \in People PROVE Org!ManagerOn(e, day) = Org!Absent
  <2>1. \A x \in 1..day : staffPlacements[e][x] = Org!Absent
    BY <1>2, OrgConstants DEF Org!Init, Org!Days
  <2>2. day \in Nat
    BY OrgConstants DEF Org!Days
  <2>3. Org!Start(staffPlacements[e], Org!Absent, day) = 0
    BY <2>1, <2>2, StartIs
  <2> QED
    BY <2>3 DEF Org!ManagerOn
<1>3. ASSUME NEW day \in Org!Days PROVE OneTree(ManagerOf(day))
  <2>1. \A e \in People : ManagerOf(day)[e] = Org!Absent
    BY <1>2 DEF ManagerOf
  <2>2. Falls(People, [e \in People |-> 0], ManagerOf(day))
    BY <2>1, OrgConstants DEF Falls
  <2> QED
    BY <2>1, <2>2, OrgConstants DEF OneTree
<1> QED
  BY <1>1, <1>3 DEF OrgInv

(* ------------------------ everybody above somebody ------------------------- *)

Climb(manager, T) == T \cup ({manager[m] : m \in T} \cap People)
Climbs(over, e, day) ==
  over = [n \in 0..Org!Cardinality(People) |->
            IF n = 0 THEN {e}
            ELSE over[n - 1] \cup ({Org!ManagerOn(m, day) : m \in over[n - 1]} \cap People)]

LEMMA AboveIsChosen ==
  ASSUME NEW e, NEW day
  PROVE  Org!Above(e, day)
           = (CHOOSE over : Climbs(over, e, day))[Org!Cardinality(People)] \ {e}
BY DEF Org!Above, Climbs

(* The walk up ends at a set that is closed.                                   *)
LEMMA AboveIsClosed ==
  ASSUME NEW e \in People, NEW day
  PROVE  \E W \in SUBSET People :
           /\ e \in W /\ Org!Above(e, day) = W \ {e}
           /\ \A m \in W : Org!ManagerOn(m, day) \in People => Org!ManagerOn(m, day) \in W
<1> DEFINE manager == ManagerOf(day)
           A == SUBSET People
<1>1. PICK C \in Nat : C = Cardinality(People)
  BY OrgConstants
<1> DEFINE step == [p \in A \X (1..C) |-> Climb(manager, p[1])]
           g == [T \in A |-> Climb(manager, T)]
<1>2. Stepping(step, A, C)
  BY DEF Stepping, Climb
<1>3. {e} \in A
  OBVIOUS
<1>4. \A T \in A, n \in 1..C : step[<<T, n>>] = Climb(manager, T)
  OBVIOUS
<1>5. g \in [A -> A] /\ \A T \in A : T \subseteq g[T] /\ g[T] = Climb(manager, T)
  BY DEF Climb
<1>6. \A T \in A : Climb(manager, T) = T \cup ({Org!ManagerOn(m, day) : m \in T} \cap People)
  BY DEF Climb, ManagerOf
<1> HIDE DEF step, A, g
<1>7. PICK f : Iterates(f, step, A, {e}, C)
  BY <1>2, <1>3, IterationExists
<1>8. Climbs(f, e, day)
  <2>1. /\ f \in [0..C -> A] /\ f[0] = {e} /\ \A n \in 1..C : n - 1 \in 0..C
        /\ \A n \in 1..C : f[n] = step[<<f[n - 1], n>>]
    BY <1>7 DEF Iterates
  <2>2. \A n \in 1..C : f[n - 1] \in A
    BY <2>1
  <2>3. \A n \in 1..C :
          f[n] = f[n - 1] \cup ({Org!ManagerOn(m, day) : m \in f[n - 1]} \cap People)
    BY <1>4, <1>6, <2>1, <2>2
  <2>4. f = [n \in 0..C |-> f[n]]
    BY <2>1
  <2>5. \A n \in 0..C : f[n] = IF n = 0 THEN {e} ELSE
          f[n - 1] \cup ({Org!ManagerOn(m, day) : m \in f[n - 1]} \cap People)
    BY <2>1, <2>3
  <2> QED
    BY <1>1, <2>4, <2>5, OrgConstants DEF Climbs
<1> DEFINE v == CHOOSE over : Climbs(over, e, day)
<1>9. Climbs(v, e, day)
  BY <1>8
<1>10. Org!Above(e, day) = v[C] \ {e}
  BY <1>1, AboveIsChosen, OrgConstants
<1> HIDE DEF v
<1>11. v = [n \in 0..C |-> IF n = 0 THEN {e} ELSE
          v[n - 1] \cup ({Org!ManagerOn(m, day) : m \in v[n - 1]} \cap People)]
  BY <1>1, <1>9, OrgConstants DEF Climbs
<1>12. /\ DOMAIN v = 0..C /\ v[0] = {e}
       /\ \A n \in 1..C : v[n] = v[n - 1] \cup ({Org!ManagerOn(m, day) : m \in v[n - 1]} \cap People)
  BY <1>11
<1>13. Iterates(v, step, A, {e}, C)
  <2>1. \A n \in 1..C : v[n - 1] \in A => v[n] = step[<<v[n - 1], n>>]
    BY <1>4, <1>6, <1>12
  <2>2. v = [n \in 0..C |-> v[n]]
    BY <1>11
  <2> QED
    BY <1>2, <1>3, <1>12, <2>1, <2>2, IterationRuns
<1>14. /\ v \in [0..C -> SUBSET People] /\ v[0] # {}
       /\ \A n \in 1..C : v[n] = g[v[n - 1]]
  <2>1. v \in [0..C -> A] /\ \A n \in 1..C : n - 1 \in 0..C /\ v[n] = step[<<v[n - 1], n>>]
    BY <1>13 DEF Iterates
  <2>2. \A n \in 1..C : v[n - 1] \in A
    BY <2>1
  <2>3. \A n \in 1..C : v[n] = g[v[n - 1]]
    BY <1>4, <1>5, <2>1, <2>2
  <2> QED
    BY <1>12, <2>1, <2>3 DEF A
<1>15. v[0] \subseteq v[C] /\ g[v[C]] = v[C]
  BY <1>1, <1>5, <1>14, OrgConstants, WalkCloses DEF A
<1> DEFINE W == v[C]
<1>16. W \in A
  BY <1>14 DEF A
<1>17. W = W \cup ({Org!ManagerOn(m, day) : m \in W} \cap People)
  BY <1>5, <1>6, <1>15, <1>16
<1>18. \A m \in W : Org!ManagerOn(m, day) \in People => Org!ManagerOn(m, day) \in W
  BY <1>17
<1>19. e \in W
  BY <1>12, <1>15
<1> QED
  BY <1>10, <1>16, <1>18, <1>19 DEF A

(* Somebody is put under a manager whose way up does not meet them, or under   *)
(* nobody: whoever is not on that way is moved further down.                   *)
LEMMA FallsWhenPlaced ==
  ASSUME NEW S, NEW depth, NEW manager, Falls(S, depth, manager), NEW e \in S, NEW above,
         NEW W \in SUBSET S, e \notin W, above \in S => above \in W,
         \A m \in W : manager[m] \in S => manager[m] \in W,
         DOMAIN manager = S
  PROVE  \E d : Falls(S, d, [manager EXCEPT ![e] = above])
<1> DEFINE k == IF above \in S THEN depth[above] + 1 ELSE 0
           d == [x \in S |-> IF x \in W THEN depth[x] ELSE depth[x] + k]
           new == [manager EXCEPT ![e] = above]
<1>1. /\ depth \in [S -> Nat]
      /\ \A x \in S : manager[x] \in S => depth[manager[x]] < depth[x]
  BY DEF Falls
<1>2. k \in Nat /\ (above \in S => k > depth[above])
  BY <1>1
<1>3. \A x \in S : new[x] = IF x = e THEN above ELSE manager[x]
  OBVIOUS
<1> HIDE DEF k, new
<1>4. d \in [S -> Nat]
  BY <1>1, <1>2
<1>5. ASSUME NEW x \in S, new[x] \in S PROVE d[new[x]] < d[x]
  <2>1. PICK a \in Nat, b \in Nat : a = depth[x] /\ b = depth[new[x]]
    BY <1>1, <1>5
  <2>2. CASE x = e
    <3>1. new[x] = above /\ above \in W /\ d[above] = b /\ d[x] = a + k /\ k > b
      BY <1>2, <1>3, <1>5, <2>1, <2>2
    <3> QED
      BY <1>2, <2>1, <3>1
  <2>3. CASE x # e
    <3>1. new[x] = manager[x] /\ b < a
      BY <1>1, <1>3, <1>5, <2>1, <2>3
    <3>2. CASE x \in W
      <4>1. d[x] = a /\ d[new[x]] = b
        BY <1>5, <2>1, <3>1, <3>2
      <4> QED
        BY <3>1, <4>1
    <3>3. CASE x \notin W
      <4>1. d[x] = a + k /\ d[new[x]] \in {b, b + k}
        BY <1>5, <2>1, <3>3
      <4> QED
        BY <1>2, <2>1, <3>1, <4>1
    <3> QED
      BY <3>2, <3>3
  <2> QED
    BY <2>2, <2>3
<1> HIDE DEF d
<1>6. Falls(S, d, new)
  BY <1>4, <1>5 DEF Falls
<1> QED
  BY <1>6 DEF new

(* Placing somebody from a day on that is later than all that was recorded of  *)
(* them and not before what was recorded of anybody.                           *)
LEMMA ManagersAfter ==
  ASSUME Org!TypeOK, NEW e \in People, NEW new \in Org!Days, NEW above,
         above \in People \cup {Org!Nobody},
         Org!Latest(staffPlacements[e], Org!Absent) < new,
         \A o \in People : Org!Latest(staffPlacements[o], Org!Absent) <= new,
         staffPlacements' = [staffPlacements EXCEPT ![e][new] = above],
         NEW day \in Org!Days
  PROVE  ManagerOf(day)' = IF day < new THEN ManagerOf(day)
                           ELSE [ManagerOf(new) EXCEPT ![e] = above]
<1>1. LastDay \in Nat /\ Org!Days = 1..LastDay /\ above # Org!Absent
  BY OrgConstants DEF Org!Days
<1>2. staffPlacements \in [People -> [Org!Days -> People \cup {Org!Nobody, Org!Absent}]]
  BY DEF Org!TypeOK, Org!PlacementRows
<1> DEFINE now == [staffPlacements[e] EXCEPT ![new] = above]
<1>3. \A o \in People : staffPlacements'[o] = IF o = e THEN now ELSE staffPlacements[o]
  BY <1>2
<1>4. \A x \in 0..LastDay :
        /\ x >= new => Org!Start(now, Org!Absent, x) = new /\ now[new] = above
        /\ x < new =>
             LET d == Org!Start(staffPlacements[e], Org!Absent, x) IN
             Org!Start(now, Org!Absent, x) = d /\ (d # 0 => now[d] = staffPlacements[e][d])
  <2>1. DOMAIN staffPlacements[e] = Org!Days
    BY <1>2
  <2> QED
    BY <1>1, <2>1, StartOfNew
<1> HIDE DEF now
<1>5. day \in 0..LastDay /\ new \in 0..LastDay /\ new # 0
  BY <1>1
<1>6. \A o \in People : o # e => Org!ManagerOn(o, day)' = Org!ManagerOn(o, day)
  BY <1>3 DEF Org!ManagerOn
<1>7. ASSUME day < new PROVE ManagerOf(day)' = ManagerOf(day)
  <2>1. Org!ManagerOn(e, day)' = Org!ManagerOn(e, day)
    BY <1>3, <1>4, <1>5, <1>7 DEF Org!ManagerOn
  <2> QED
    BY <1>6, <2>1 DEF ManagerOf
<1>8. ASSUME ~(day < new) PROVE ManagerOf(day)' = [ManagerOf(new) EXCEPT ![e] = above]
  <2>0. day >= new
    BY <1>1, <1>8
  <2>1. Org!ManagerOn(e, day)' = above
    BY <1>3, <1>4, <1>5, <2>0 DEF Org!ManagerOn
  <2>2. ASSUME NEW o \in People, o # e PROVE Org!ManagerOn(o, day)' = Org!ManagerOn(o, new)
    <3>1. PICK t : t = Org!Start(staffPlacements[o], Org!Absent, new)
      OBVIOUS
    <3>2. /\ t \in 0..new /\ (t # 0 => staffPlacements[o][t] # Org!Absent)
          /\ \A x \in 1..new : staffPlacements[o][x] # Org!Absent => x <= t
      BY <1>5, <3>1, StartIs
    <3>3. \A x \in 1..LastDay : staffPlacements[o][x] # Org!Absent => x <= new
      <4>1. PICK l : l = Org!Start(staffPlacements[o], Org!Absent, LastDay)
        OBVIOUS
      <4>2. l \in 0..LastDay /\ \A x \in 1..LastDay : staffPlacements[o][x] # Org!Absent => x <= l
        BY <1>1, <4>1, StartIs
      <4>3. l <= new
        BY <4>1 DEF Org!Latest
      <4> QED
        BY <1>1, <4>2, <4>3
    <3>4. t \in 0..day /\ \A x \in 1..day : staffPlacements[o][x] # Org!Absent => x <= t
      BY <1>1, <2>0, <3>2, <3>3
    <3>5. Org!Start(staffPlacements[o], Org!Absent, day) = t
      BY <1>5, <3>2, <3>4, StartIsThe
    <3>6. Org!ManagerOn(o, day) = Org!ManagerOn(o, new)
      BY <3>1, <3>5 DEF Org!ManagerOn
    <3> QED
      BY <1>6, <2>2, <3>6
  <2>3. ManagerOf(day)' = [o \in People |-> Org!ManagerOn(o, day)']
    BY DEF ManagerOf
  <2>4. ManagerOf(new) = [o \in People |-> Org!ManagerOn(o, new)]
    BY DEF ManagerOf
  <2> QED
    BY <2>1, <2>2, <2>3, <2>4
<1> QED
  BY <1>7, <1>8

LEMMA OrgPlaces ==
  ASSUME OrgInv, NEW e \in People, NEW new \in Org!Days, NEW above,
         above \in People \cup {Org!Nobody}, Org!PlaceEmployee(e, new, above)
  PROVE  OrgInv'
<1>1. /\ Org!Latest(staffPlacements[e], Org!Absent) < new
      /\ \A o \in People : Org!Latest(staffPlacements[o], Org!Absent) <= new
      /\ staffPlacements' = [staffPlacements EXCEPT ![e][new] = above]
      /\ UNCHANGED <<staffHired, staffContracts, staffJoined, staffExits>>
      /\ above = Org!Nobody => ~Org!OtherRoot(e, new)
      /\ above # Org!Nobody => above # e /\ e \notin Org!Above(above, new)
  <2>1. Org!MayPlace(e, new, above)
    BY DEF Org!PlaceEmployee
  <2>2. Org!Latest(staffPlacements[e], Org!Absent) < new
    BY <2>1 DEF Org!MayPlace, Org!Follows
  <2>3. \A o \in People : Org!Latest(staffPlacements[o], Org!Absent) <= new
    BY <2>1 DEF Org!MayPlace
  <2> QED
    BY <2>1, <2>2, <2>3 DEF Org!PlaceEmployee, Org!MayPlace
<1>2. Org!TypeOK /\ \A day \in Org!Days : OneTree(ManagerOf(day))
  BY DEF OrgInv
<1>3. Org!TypeOK'
  BY <1>1, <1>2, OrgConstants DEF Org!TypeOK, Org!PlacementRows
<1> DEFINE m == ManagerOf(new)
<1>4. OneTree([m EXCEPT ![e] = above])
  <2>0. DOMAIN m = People /\ \A o \in People : m[o] = Org!ManagerOn(o, new)
    BY DEF ManagerOf
  <2>1. OneTree(m)
    BY <1>2
  <2>2. PICK depth : Falls(People, depth, m)
    BY <2>1 DEF OneTree
  <2>3. \E W \in SUBSET People : /\ e \notin W /\ (above \in People => above \in W)
                                 /\ \A o \in W : m[o] \in People => m[o] \in W
    <3>1. CASE above \notin People
      <4> HIDE DEF m
      <4> WITNESS {} \in SUBSET People
      <4> QED
        BY <3>1
    <3>2. CASE above \in People
      <4>1. above # e /\ e \notin Org!Above(above, new)
        BY <1>1, <3>2, OrgConstants
      <4>2. PICK W \in SUBSET People :
              /\ above \in W /\ Org!Above(above, new) = W \ {above}
              /\ \A o \in W : Org!ManagerOn(o, new) \in People => Org!ManagerOn(o, new) \in W
        BY <3>2, AboveIsClosed
      <4> QED
        BY <2>0, <4>1, <4>2
    <3> QED
      BY <3>1, <3>2
  <2> DEFINE now == [m EXCEPT ![e] = above]
  <2>4. \E d : Falls(People, d, now)
    <3> HIDE DEF m
    <3> QED
      BY <2>0, <2>2, <2>3, FallsWhenPlaced
  <2>5. \A x, y \in People : now[x] = Org!Nobody /\ now[y] = Org!Nobody => x = y
    <3>1. \A x \in People : now[x] = IF x = e THEN above ELSE m[x]
      BY <2>0
    <3>2. \A x, y \in People : m[x] = Org!Nobody /\ m[y] = Org!Nobody => x = y
      BY <2>1 DEF OneTree
    <3>3. above = Org!Nobody => \A x \in People : x # e => m[x] # Org!Nobody
      BY <1>1, <2>0 DEF Org!OtherRoot
    <3> HIDE DEF now, m
    <3> QED
      BY <3>1, <3>2, <3>3
  <2> HIDE DEF now
  <2>6. OneTree(now)
    BY <2>4, <2>5 DEF OneTree
  <2> QED
    BY <2>6 DEF now
<1>5. ASSUME NEW day \in Org!Days PROVE OneTree(ManagerOf(day)')
  <2>1. ManagerOf(day)' = IF day < new THEN ManagerOf(day) ELSE [m EXCEPT ![e] = above]
    BY <1>1, <1>2, ManagersAfter
  <2>2. OneTree(ManagerOf(day))
    BY <1>2
  <2> HIDE DEF m
  <2> QED
    BY <1>4, <2>1, <2>2
<1>6. \A day \in Org!Days : OneTree(ManagerOf(day))'
  BY <1>5 DEF OneTree, Falls
<1> QED
  BY <1>3, <1>6 DEF OrgInv

(* The other operations leave the placements alone.                            *)
LEMMA OrgLeaves ==
  ASSUME OrgInv, Org!TypeOK', staffPlacements' = staffPlacements
  PROVE  OrgInv'
<1>1. \A day \in Org!Days : OneTree(ManagerOf(day))
  BY DEF OrgInv
<1>2. \A day \in Org!Days : ManagerOf(day)' = ManagerOf(day)
  BY DEF ManagerOf, Org!ManagerOn
<1>3. \A day \in Org!Days : OneTree(ManagerOf(day))'
  BY <1>1, <1>2 DEF OneTree, Falls
<1> QED
  BY <1>3 DEF OrgInv

LEMMA OrgRecords ==
  ASSUME OrgInv, NEW e \in People, NEW day \in Org!Days,
         \/ Org!Joining(e) \/ Org!CreateEmployee(e, day) \/ Org!Exit(e, day)
         \/ \E salary \in Salaries : Org!RecordContract(e, day, salary)
  PROVE  OrgInv'
<1>1. Org!TypeOK
  BY DEF OrgInv
<1>2. CASE Org!Joining(e)
  <2>1. Org!TypeOK' /\ staffPlacements' = staffPlacements
    BY <1>1, <1>2 DEF Org!TypeOK, Org!Joining
  <2> QED
    BY <2>1, OrgLeaves
<1>3. CASE Org!CreateEmployee(e, day)
  <2>1. Org!TypeOK' /\ staffPlacements' = staffPlacements
    BY <1>1, <1>3 DEF Org!TypeOK, Org!CreateEmployee
  <2> QED
    BY <2>1, OrgLeaves
<1>4. CASE Org!Exit(e, day)
  <2>1. Org!TypeOK' /\ staffPlacements' = staffPlacements
    BY <1>1, <1>4 DEF Org!TypeOK, Org!Exit
  <2> QED
    BY <2>1, OrgLeaves
<1>5. ASSUME NEW salary \in Salaries, Org!RecordContract(e, day, salary) PROVE OrgInv'
  <2>1. Org!TypeOK' /\ staffPlacements' = staffPlacements
    BY <1>1, <1>5 DEF Org!TypeOK, Org!RecordContract, Org!ContractRows
  <2> QED
    BY <2>1, OrgLeaves
<1> QED
  BY <1>2, <1>3, <1>4, <1>5

(* A placement that keeps the manager keeps one there is.                      *)
LEMMA TransferPlaces ==
  ASSUME OrgInv, NEW e \in People, NEW day \in Org!Days, Org!TransferAny(e, day)
  PROVE  \E above \in People \cup {Org!Nobody} : Org!PlaceEmployee(e, day, above)
<1>1. CASE \E manager \in People : Org!Transfer(e, day, manager)
  <2>1. PICK manager \in People : Org!Transfer(e, day, manager)
    BY <1>1
  <2>2. Org!PlaceEmployee(e, day, manager)
    BY <2>1, OrgConstants DEF Org!Transfer
  <2> QED
    BY <2>2
<1>2. CASE Org!ManagerOn(e, day - 1) # Org!Absent /\ Org!Transfer(e, day, Org!Absent)
  <2>1. day - 1 \in 0..LastDay
    BY OrgConstants DEF Org!Days
  <2>2. Org!ManagerOn(e, day - 1) \in People \cup {Org!Nobody, Org!Absent}
    BY <2>1, ManagersAre DEF OrgInv, ManagerOf
  <2>3. Org!PlaceEmployee(e, day, Org!ManagerOn(e, day - 1))
    BY <1>2 DEF Org!Transfer
  <2> QED
    BY <1>2, <2>2, <2>3
<1> QED
  BY <1>1, <1>2 DEF Org!TransferAny

LEMMA OrgStep == OrgInv /\ [Org!Next]_(Org!vars) => OrgInv'
<1> SUFFICES ASSUME OrgInv, [Org!Next]_(Org!vars) PROVE OrgInv'
  OBVIOUS
<1>1. CASE UNCHANGED Org!vars
  <2>1. Org!TypeOK' /\ staffPlacements' = staffPlacements
    BY <1>1 DEF Org!vars, OrgInv, Org!TypeOK
  <2> QED
    BY <2>1, OrgLeaves
<1>2. ASSUME NEW e \in People, NEW day \in Org!Days,
             \/ \E manager \in People \cup {Org!Nobody} : Org!PlaceEmployee(e, day, manager)
             \/ Org!TransferAny(e, day)
      PROVE  OrgInv'
  BY <1>2, TransferPlaces, OrgPlaces
<1>3. ASSUME NEW e \in People, NEW day \in Org!Days, NEW salary \in Salaries,
             Org!Promote(e, day, salary)
      PROVE  OrgInv'
  BY <1>3, OrgRecords DEF Org!Promote
<1>4. 1 \in Org!Days
  BY OrgConstants DEF Org!Days
<1> QED
  BY <1>1, <1>2, <1>3, <1>4, OrgRecords DEF Org!Next

(* --------------------------- what it shows --------------------------------- *)

Ascends(up, e, day) ==
  up = [n \in 0..Org!Cardinality(People) |->
          IF n = 0 THEN e
          ELSE IF up[n - 1] \in People THEN Org!ManagerOn(up[n - 1], day) ELSE up[n - 1]]

LEMMA TreeIsChosen ==
  Org!TreeEachDay <=>
    \A day \in Org!Days :
      /\ \A e \in People :
           (CHOOSE up : Ascends(up, e, day))[Org!Cardinality(People)] \notin People
      /\ Org!Cardinality({e \in People : Org!ManagerOn(e, day) = Org!Nobody}) <= 1
BY DEF Org!TreeEachDay, Ascends

(* A way up meets somebody new at every step, so it ends.                      *)
LEMMA WayUpEnds ==
  ASSUME OrgInv, NEW day \in Org!Days, NEW e \in People
  PROVE  (CHOOSE up : Ascends(up, e, day))[Org!Cardinality(People)] \notin People
<1> DEFINE manager == ManagerOf(day)
           A == People \cup {Org!Nobody, Org!Absent}
<1>1. PICK C \in Nat : C = Cardinality(People)
  BY OrgConstants
<1>2. day \in 0..LastDay /\ Org!TypeOK /\ OneTree(manager)
  BY OrgConstants DEF OrgInv, Org!Days
<1>3. manager \in [People -> A] /\ \A m \in People : manager[m] = Org!ManagerOn(m, day)
  BY <1>2, ManagersAre DEF ManagerOf
<1>4. PICK depth : Falls(People, depth, manager)
  BY <1>2 DEF OneTree
<1>5. /\ depth \in [People -> Nat]
      /\ \A m \in People : manager[m] \in People => depth[manager[m]] < depth[m]
  BY <1>4 DEF Falls
<1> HIDE DEF manager
<1> DEFINE step == [p \in A \X (1..C) |-> IF p[1] \in People THEN manager[p[1]] ELSE p[1]]
<1>6. Stepping(step, A, C)
  BY <1>3 DEF Stepping
<1>7. \A x \in A, n \in 1..C : step[<<x, n>>] = IF x \in People THEN manager[x] ELSE x
  OBVIOUS
<1>8. \A x \in A : (IF x \in People THEN manager[x] ELSE x)
                     = IF x \in People THEN Org!ManagerOn(x, day) ELSE x
  BY <1>3
<1>9. e \in A
  OBVIOUS
<1> HIDE DEF step, A
<1>10. PICK f : Iterates(f, step, A, e, C)
  BY <1>6, <1>9, IterationExists
<1>11. Ascends(f, e, day)
  <2>1. /\ f \in [0..C -> A] /\ f[0] = e /\ \A n \in 1..C : n - 1 \in 0..C
        /\ \A n \in 1..C : f[n] = step[<<f[n - 1], n>>]
    BY <1>10 DEF Iterates
  <2>2. \A n \in 1..C : f[n - 1] \in A
    BY <2>1
  <2>3. \A n \in 1..C :
          f[n] = IF f[n - 1] \in People THEN Org!ManagerOn(f[n - 1], day) ELSE f[n - 1]
    BY <1>7, <1>8, <2>1, <2>2
  <2>4. f = [n \in 0..C |-> f[n]]
    BY <2>1
  <2>5. \A n \in 0..C : f[n] = IF n = 0 THEN e
          ELSE IF f[n - 1] \in People THEN Org!ManagerOn(f[n - 1], day) ELSE f[n - 1]
    BY <2>1, <2>3
  <2> QED
    BY <1>1, <2>4, <2>5, OrgConstants DEF Ascends
<1> DEFINE up == CHOOSE w : Ascends(w, e, day)
<1>12. Ascends(up, e, day)
  BY <1>11
<1> HIDE DEF up
<1>13. up = [n \in 0..C |-> IF n = 0 THEN e
               ELSE IF up[n - 1] \in People THEN Org!ManagerOn(up[n - 1], day) ELSE up[n - 1]]
  BY <1>1, <1>12, OrgConstants DEF Ascends
<1>14. /\ up[0] = e
       /\ \A n \in 1..C :
            up[n] = IF up[n - 1] \in People THEN Org!ManagerOn(up[n - 1], day) ELSE up[n - 1]
  BY <1>13
<1>15. \A n \in 1..C : up[n - 1] \in People => up[n] = manager[up[n - 1]]
  BY <1>3, <1>14
<1>16. \A n \in 1..C : up[n] \in People => up[n - 1] \in People
  BY <1>14
<1> DEFINE Met(n) == \E T \in SUBSET People :
             /\ Cardinality(T) = n + 1 /\ \A t \in T : depth[up[n]] <= depth[t]
           Bad == {n \in 0..C : up[n] \in People /\ ~Met(n)}
<1>17. \A T \in SUBSET People : IsFiniteSet(T) /\ Cardinality(T) \in Nat /\ Cardinality(T) <= C
  BY <1>1, OrgConstants, FS_Subset, FS_CardinalityType
<1>18. ASSUME Bad # {} PROVE FALSE
  <2>1. Bad \in SUBSET Nat
    OBVIOUS
  <2>2. PICK n \in Bad : \A m \in Bad : n <= m
    <3> HIDE DEF Bad
    <3> QED
      BY <1>18, <2>1, LeastOf
  <2>3. n # 0
    <3>1. Cardinality({e}) = 1 /\ {e} \in SUBSET People
      BY FS_Singleton
    <3>2. \A t \in {e} : depth[up[0]] <= depth[t]
      BY <1>5, <1>14
    <3>3. Met(0)
      BY <3>1, <3>2
    <3> QED
      BY <2>2, <3>3
  <2>4. n \in 1..C /\ n - 1 \in 0..C /\ n - 1 \notin Bad
    BY <2>2, <2>3
  <2>5. up[n] \in People /\ up[n - 1] \in People
    BY <1>16, <2>2, <2>4
  <2>6. PICK T \in SUBSET People :
          Cardinality(T) = (n - 1) + 1 /\ \A t \in T : depth[up[n - 1]] <= depth[t]
    BY <2>4, <2>5
  <2>7. depth[up[n]] < depth[up[n - 1]]
    BY <1>5, <1>15, <2>4, <2>5
  <2>8. depth[up[n]] \in Nat /\ depth[up[n - 1]] \in Nat /\ \A t \in T : depth[t] \in Nat
    BY <1>5, <2>5
  <2>9. \A t \in T : depth[up[n]] < depth[t]
    BY <2>6, <2>7, <2>8
  <2>10. up[n] \notin T
    BY <2>8, <2>9
  <2>11. Cardinality(T \cup {up[n]}) = n + 1 /\ T \cup {up[n]} \in SUBSET People
    <3>1. Cardinality(T \cup {up[n]}) = Cardinality(T) + 1
      BY <1>17, <2>10, FS_AddElement
    <3> QED
      BY <2>4, <2>5, <2>6, <3>1
  <2>12. \A t \in T \cup {up[n]} : depth[up[n]] <= depth[t]
    BY <2>8, <2>9
  <2>13. Met(n)
    BY <2>11, <2>12
  <2> QED
    BY <2>2, <2>13
<1>19. up[C] \notin People
  <2> SUFFICES ASSUME up[C] \in People PROVE FALSE
    OBVIOUS
  <2>1. C \in 0..C
    OBVIOUS
  <2>2. Met(C)
    BY <1>18, <2>1
  <2>3. PICK T \in SUBSET People : Cardinality(T) = C + 1
    BY <2>2
  <2>4. C + 1 <= C
    BY <1>17, <2>3
  <2> QED
    BY <2>4
<1> QED
  BY <1>1, <1>19, OrgConstants DEF up

LEMMA OrgInvSuffices == OrgInv => Org!TreeEachDay
<1> SUFFICES ASSUME OrgInv PROVE Org!TreeEachDay
  OBVIOUS
<1>1. ASSUME NEW day \in Org!Days
      PROVE  Org!Cardinality({e \in People : Org!ManagerOn(e, day) = Org!Nobody}) <= 1
  <2> DEFINE Roots == {e \in People : Org!ManagerOn(e, day) = Org!Nobody}
  <2>1. \A e, f \in Roots : e = f
    BY DEF OrgInv, OneTree, ManagerOf
  <2>2. CASE Roots = {}
    BY <2>2, OrgConstants, FS_EmptySet
  <2>3. CASE Roots # {}
    <3>1. PICK e : Roots = {e}
      BY <2>1, <2>3
    <3>2. Cardinality(Roots) = 1
      BY <3>1, FS_Singleton
    <3> QED
      BY <3>2, OrgConstants
  <2> QED
    BY <2>2, <2>3
<1> QED
  BY <1>1, WayUpEnds, TreeIsChosen

(* What is in force before the last recorded start stays so.                   *)
LEMMA HistoryStays ==
  ASSUME OrgInv, [Org!Next]_(Org!vars), NEW e \in People, NEW day \in Org!Days
  PROVE  /\ day < Org!Latest(staffContracts[e], Org!NoTerms)
              => Org!TermsOn(e, day)' = Org!TermsOn(e, day)
         /\ day < Org!Latest(staffPlacements[e], Org!Absent)
              => Org!ManagerOn(e, day)' = Org!ManagerOn(e, day)
<1>1. LastDay \in Nat /\ Org!Days = 1..LastDay /\ Org!TypeOK
  BY OrgConstants DEF OrgInv, Org!Days
<1>2. ASSUME NEW o \in People, NEW new \in Org!Days, NEW salary \in Salaries,
             Org!RecordContract(o, new, salary), day < Org!Latest(staffContracts[e], Org!NoTerms)
      PROVE  Org!TermsOn(e, day)' = Org!TermsOn(e, day)
  <2>1. /\ Org!Latest(staffContracts[o], Org!NoTerms) < new
        /\ staffContracts' = [staffContracts EXCEPT ![o][new] = salary]
    BY <1>2 DEF Org!RecordContract, Org!Follows
  <2> DEFINE now == [staffContracts[o] EXCEPT ![new] = salary]
  <2>2. DOMAIN staffContracts = People /\ DOMAIN staffContracts[o] = Org!Days
    BY <1>1 DEF Org!TypeOK, Org!ContractRows
  <2>3. \A x \in People : staffContracts'[x] = IF x = o THEN now ELSE staffContracts[x]
    BY <2>1, <2>2
  <2>4. CASE e = o
    <3>1. salary # Org!NoTerms
      BY OrgConstants DEF Org!NoTerms
    <3>2. Org!Latest(staffContracts[o], Org!NoTerms) \in 0..LastDay
      BY <1>1, StartIs DEF Org!Latest
    <3>3. day \in 0..LastDay /\ day < new
      BY <1>1, <1>2, <2>1, <2>4, <3>2
    <3>4. \A x \in 0..LastDay :
            /\ x >= new => Org!Start(now, Org!NoTerms, x) = new /\ now[new] = salary
            /\ x < new =>
                 LET d == Org!Start(staffContracts[o], Org!NoTerms, x) IN
                 Org!Start(now, Org!NoTerms, x) = d /\ (d # 0 => now[d] = staffContracts[o][d])
      <4>1. /\ Org!Latest(staffContracts[o], Org!NoTerms) < new
            /\ DOMAIN staffContracts[o] = Org!Days
        BY <2>1, <2>2
      <4> QED
        BY <3>1, <4>1, StartOfNew
    <3> HIDE DEF now
    <3>5. PICK d : d = Org!Start(staffContracts[e], Org!NoTerms, day)
      OBVIOUS
    <3>6. /\ Org!Start(now, Org!NoTerms, day) = d
          /\ d # 0 => now[d] = staffContracts[e][d]
      BY <2>4, <3>3, <3>4, <3>5
    <3>7. staffContracts'[e] = now
      BY <2>3, <2>4
    <3> QED
      BY <3>5, <3>6, <3>7 DEF Org!TermsOn
  <2>5. CASE e # o
    BY <2>3, <2>5 DEF Org!TermsOn
  <2> QED
    BY <2>4, <2>5
<1>3. ASSUME NEW o \in People, NEW new \in Org!Days, NEW above \in People \cup {Org!Nobody},
             Org!PlaceEmployee(o, new, above), day < Org!Latest(staffPlacements[e], Org!Absent)
      PROVE  Org!ManagerOn(e, day)' = Org!ManagerOn(e, day)
  <2>1. Org!MayPlace(o, new, above)
    BY <1>3 DEF Org!PlaceEmployee
  <2>2. /\ Org!Latest(staffPlacements[o], Org!Absent) < new
        /\ \A x \in People : Org!Latest(staffPlacements[x], Org!Absent) <= new
        /\ staffPlacements' = [staffPlacements EXCEPT ![o][new] = above]
    BY <1>3, <2>1 DEF Org!PlaceEmployee, Org!MayPlace, Org!Follows
  <2>3. Org!Latest(staffPlacements[e], Org!Absent) \in 0..LastDay
    BY <1>1, StartIs DEF Org!Latest
  <2>4. day < new
    BY <1>1, <1>3, <2>2, <2>3
  <2>5. ManagerOf(day)' = ManagerOf(day)
    BY <1>1, <2>2, <2>4, ManagersAfter
  <2>6. /\ ManagerOf(day)'[e] = Org!ManagerOn(e, day)'
        /\ ManagerOf(day)[e] = Org!ManagerOn(e, day)
    BY DEF ManagerOf
  <2> QED
    BY <2>5, <2>6
<1>4. (staffContracts' = staffContracts => Org!TermsOn(e, day)' = Org!TermsOn(e, day))
      /\ (staffPlacements' = staffPlacements => Org!ManagerOn(e, day)' = Org!ManagerOn(e, day))
  BY DEF Org!TermsOn, Org!ManagerOn
<1>5. \/ staffContracts' = staffContracts
      \/ \E o \in People, new \in Org!Days, salary \in Salaries :
           Org!RecordContract(o, new, salary)
  BY DEF Org!Next, Org!vars, Org!Joining, Org!CreateEmployee, Org!Exit, Org!PlaceEmployee,
         Org!TransferAny, Org!Transfer, Org!Promote
<1>6. \/ staffPlacements' = staffPlacements
      \/ \E o \in People, new \in Org!Days, above \in People \cup {Org!Nobody} :
           Org!PlaceEmployee(o, new, above)
  <2>1. \A o \in People, new \in Org!Days : Org!TransferAny(o, new) =>
          \E above \in People \cup {Org!Nobody} : Org!PlaceEmployee(o, new, above)
    BY TransferPlaces
  <2> QED
    BY <2>1 DEF Org!Next, Org!vars, Org!Joining, Org!CreateEmployee, Org!Exit,
         Org!RecordContract, Org!Promote
<1> QED
  BY <1>2, <1>3, <1>4, <1>5, <1>6

(* ---------------------------------- rosters -------------------------------- *)

OfCalendar == {"state", "remove"}

(* Work(s): what the open request of s has found still holds when it commits.  *)
Pending(s) ==
  /\ rosterTx[s].op = "roster" =>
       /\ rosterTx[s].who \in Staffed /\ rosterTx[s].shift \in Shifts
       /\ rosterTx[s].day \in Rosters!Days
       /\ rosterShifts[rosterTx[s].shift] = "live"
       /\ Rosters!Supersedes(rosterTx[s].who, rosterTx[s].day)
  /\ rosterTx[s].op = "retire" =>
       rosterTx[s].shift \in Shifts /\ Rosters!Rostered(rosterTx[s].shift) = {}
  /\ rosterTx[s].op \in OfCalendar =>
       /\ rosterTx[s].day \in Rosters!Days /\ rosterTx[s].day \notin rosterClosed
       /\ rosterTx[s] \in Rosters!Changes(rosterTx[s].day)

(* One request at a time is between its read and its write, and a shift that   *)
(* is on a roster is live.                                                     *)
RosterInv ==
  /\ Rosters!TypeOK
  /\ \A s, t \in Clerks : rosterTx[s] # Rosters!Idle /\ rosterTx[t] # Rosters!Idle => s = t
  /\ \A s \in Clerks : Pending(s)
  /\ \A h \in Shifts : Rosters!Rostered(h) # {} => rosterShifts[h] = "live"

LEMMA RosterConstants ==
  /\ LastDay \in Nat \ {0} /\ Rosters!Days = 1..LastDay /\ Rosters!Days = Org!Days
  /\ Rosters!NoShift \notin Shifts /\ Rosters!Off \notin Shifts
  /\ Limits \subseteq Nat /\ Rosters!NoRule \notin Limits
  /\ Rosters!Off # Rosters!NoShift
BY OfficeParameters DEF Rosters!RosterAssumption, Rosters!Days, Org!Days, Rosters!NoRule,
   Rosters!Off, Rosters!NoShift

(* The rows of a history are dated like those of the staff.                    *)
LEMMA RosterIsDated ==
  ASSUME NEW history, NEW none
  PROVE  /\ Rosters!Latest(history, none) = Org!Latest(history, none)
         /\ \A d : Rosters!InForce(history, none, d)
                     = IF Org!Start(history, none, d) = 0 THEN none
                       ELSE history[Org!Start(history, none, d)]
BY DEF Rosters!Latest, Rosters!InForce, Org!Latest, Org!Start, Rosters!Max, Org!Max,
       Rosters!Days, Org!Days

LEMMA RosterStarts == Rosters!Init => RosterInv
<1> SUFFICES ASSUME Rosters!Init PROVE RosterInv
  OBVIOUS
<1>1. Rosters!TypeOK
  BY RosterConstants
     DEF Rosters!Init, Rosters!TypeOK, Rosters!ShiftRows, Rosters!EntryRows, Rosters!OverrideRows,
         Rosters!RuleRows, Rosters!Requests, Rosters!Idle
<1>2. \A s \in Clerks : rosterTx[s] = Rosters!Idle
  BY DEF Rosters!Init
<1>3. \A s \in Clerks : Pending(s)
  BY <1>2 DEF Pending, OfCalendar, Rosters!Idle
<1>4. \A h \in Shifts : Rosters!Rostered(h) = {}
  BY RosterConstants DEF Rosters!Init, Rosters!Rostered
<1> QED
  BY <1>1, <1>2, <1>3, <1>4 DEF RosterInv

(* What touches neither the rosters nor the shifts of live requests.           *)
LEMMA RosterStays ==
  ASSUME RosterInv, Rosters!TypeOK', rosterTx' = rosterTx, rosterRoster' = rosterRoster,
         \A h \in Shifts : rosterShifts[h] = "live" => rosterShifts'[h] = "live",
         \/ rosterClosed' = rosterClosed
         \/ \A s \in Clerks : rosterTx[s].op \in OfCalendar => rosterTx[s].day \notin rosterClosed'
  PROVE  RosterInv'
<1>1. \A h \in Shifts : Rosters!Rostered(h)' = Rosters!Rostered(h)
  BY DEF Rosters!Rostered
<1>2. ASSUME NEW s \in Clerks PROVE Pending(s)'
  <2>1. Pending(s) /\ rosterTx'[s] = rosterTx[s]
    BY DEF RosterInv
  <2>2. rosterTx[s].op = "roster" =>
          Rosters!Supersedes(rosterTx[s].who, rosterTx[s].day)'
            = Rosters!Supersedes(rosterTx[s].who, rosterTx[s].day)
    BY DEF Rosters!Supersedes
  <2> QED
    BY <1>1, <2>1, <2>2 DEF Pending, Rosters!Supersedes
<1> QED
  BY <1>1, <1>2 DEF RosterInv

(* A request that begins finds nobody else at work.                            *)
LEMMA RosterBegins ==
  ASSUME RosterInv, NEW s \in Clerks, NEW request \in Rosters!Requests,
         Rosters!Starts(s, request),
         request.op = "roster" =>
           /\ request.who \in Staffed /\ request.shift \in Shifts /\ request.day \in Rosters!Days
           /\ rosterShifts[request.shift] = "live"
           /\ Rosters!Supersedes(request.who, request.day),
         request.op = "retire" =>
           request.shift \in Shifts /\ Rosters!Rostered(request.shift) = {},
         request.op \in OfCalendar =>
           /\ request.day \in Rosters!Days /\ request.day \notin rosterClosed
           /\ request \in Rosters!Changes(request.day)
  PROVE  RosterInv'
<1>1. /\ rosterTx' = [rosterTx EXCEPT ![s] = request]
      /\ \A t \in Clerks : rosterTx[t] = Rosters!Idle
      /\ UNCHANGED <<rosterShifts, rosterRoster, rosterOverrides, rosterHolidays, rosterClosed,
                     rosterExits, rosterRules>>
  BY DEF Rosters!Starts
<1>2. rosterTx \in [Clerks -> Rosters!Requests]
  BY DEF RosterInv, Rosters!TypeOK
<1>3. \A t \in Clerks : rosterTx'[t] = IF t = s THEN request ELSE Rosters!Idle
  BY <1>1, <1>2
<1>4. rosterTx' \in [Clerks -> Rosters!Requests]
  BY <1>1, <1>2
<1>5. Rosters!TypeOK'
  BY <1>1, <1>4 DEF RosterInv, Rosters!TypeOK
<1>6. \A h \in Shifts : Rosters!Rostered(h)' = Rosters!Rostered(h)
  BY <1>1 DEF Rosters!Rostered
<1>7. \A e, d : Rosters!Supersedes(e, d)' = Rosters!Supersedes(e, d)
  BY <1>1 DEF Rosters!Supersedes
<1>8. ASSUME NEW t \in Clerks PROVE Pending(t)'
  <2>1. CASE t = s
    <3>1. rosterTx'[t] = request
      BY <1>3, <2>1
    <3>2. request.op = "roster" => Rosters!Supersedes(request.who, request.day)'
      BY <1>7
    <3>3. Rosters!Changes(request.day)' = Rosters!Changes(request.day)
      BY DEF Rosters!Changes, Rosters!OnDay, Rosters!Idle
    <3> QED
      BY <1>1, <1>6, <3>1, <3>2, <3>3 DEF Pending, Rosters!Supersedes
  <2>2. CASE t # s
    <3>1. rosterTx'[t].op = "none"
      BY <1>3, <2>2 DEF Rosters!Idle
    <3> QED
      BY <3>1 DEF Pending, OfCalendar
  <2> QED
    BY <2>1, <2>2
<1> QED
  BY <1>1, <1>3, <1>5, <1>6, <1>8 DEF RosterInv

(* A request that ends leaves nobody at work.                                  *)
LEMMA RosterEnds ==
  ASSUME RosterInv, NEW s \in Clerks, rosterTx[s] # Rosters!Idle,
         rosterTx' = [rosterTx EXCEPT ![s] = Rosters!Idle], Rosters!TypeOK',
         \A h \in Shifts : Rosters!Rostered(h)' # {} => rosterShifts'[h] = "live"
  PROVE  RosterInv'
<1>1. rosterTx \in [Clerks -> Rosters!Requests]
  BY DEF RosterInv, Rosters!TypeOK
<1>2. \A t \in Clerks : rosterTx'[t] = Rosters!Idle
  BY <1>1 DEF RosterInv
<1>3. \A t \in Clerks : Pending(t)'
  BY <1>2 DEF Pending, OfCalendar, Rosters!Idle
<1> QED
  BY <1>2, <1>3 DEF RosterInv

(* An entry that is committed rules every day from its start on.               *)
LEMMA EntryRules ==
  ASSUME RosterInv, NEW s \in Clerks, Rosters!CommitRoster(s), NEW e, e = rosterTx[s].who,
         NEW new, new = rosterTx[s].day, NEW h, h = rosterTx[s].shift
  PROVE  /\ e \in Staffed /\ new \in Rosters!Days /\ h \in Shifts
         /\ rosterShifts[h] = "live" /\ rosterRoster' = [rosterRoster EXCEPT ![e][new] = h]
         /\ \A x \in Rosters!Days :
              Rosters!InForce(rosterRoster[e], Rosters!NoShift, x)'
                = IF x >= new THEN h ELSE Rosters!InForce(rosterRoster[e], Rosters!NoShift, x)
<1>1. /\ e \in Staffed /\ new \in Rosters!Days /\ h \in Shifts /\ rosterShifts[h] = "live"
      /\ Rosters!Supersedes(e, new)
  <2>1. rosterTx[s].op = "roster" /\ Pending(s)
    BY DEF Rosters!CommitRoster, RosterInv
  <2> QED
    BY <2>1 DEF Pending
<1>2. rosterRoster' = [rosterRoster EXCEPT ![e][new] = h]
  BY DEF Rosters!CommitRoster
<1>3. rosterRoster \in [Staffed -> [Rosters!Days -> Shifts \cup {Rosters!NoShift}]]
  BY DEF RosterInv, Rosters!TypeOK, Rosters!EntryRows
<1> DEFINE now == [rosterRoster[e] EXCEPT ![new] = h]
<1>4. rosterRoster'[e] = now
  BY <1>1, <1>2, <1>3
<1>5. /\ Org!Latest(rosterRoster[e], Rosters!NoShift) < new
      /\ DOMAIN rosterRoster[e] = Org!Days /\ new \in Org!Days /\ h # Rosters!NoShift
  <2>1. Org!Latest(rosterRoster[e], Rosters!NoShift) \in 0..LastDay
    BY RosterConstants, StartIs DEF Org!Latest
  <2>2. new > Org!Latest(rosterRoster[e], Rosters!NoShift)
    BY <1>1, RosterIsDated DEF Rosters!Supersedes
  <2> QED
    BY <1>1, <1>3, <2>1, <2>2, RosterConstants
<1>6. \A x \in 0..LastDay :
        /\ x >= new => Org!Start(now, Rosters!NoShift, x) = new /\ now[new] = h
        /\ x < new =>
             LET d == Org!Start(rosterRoster[e], Rosters!NoShift, x) IN
             Org!Start(now, Rosters!NoShift, x) = d /\ (d # 0 => now[d] = rosterRoster[e][d])
  BY <1>5, StartOfNew
<1> HIDE DEF now
<1>7. ASSUME NEW x \in Rosters!Days
      PROVE  Rosters!InForce(rosterRoster[e], Rosters!NoShift, x)'
               = IF x >= new THEN h ELSE Rosters!InForce(rosterRoster[e], Rosters!NoShift, x)
  <2>1. x \in 0..LastDay /\ new \in 1..LastDay /\ (x < new \/ x >= new)
    BY <1>1, RosterConstants
  <2>2. Rosters!InForce(rosterRoster[e], Rosters!NoShift, x)'
          = Rosters!InForce(now, Rosters!NoShift, x)
    BY <1>4 DEF Rosters!InForce
  <2>3. Rosters!InForce(now, Rosters!NoShift, x)
          = IF Org!Start(now, Rosters!NoShift, x) = 0 THEN Rosters!NoShift
            ELSE now[Org!Start(now, Rosters!NoShift, x)]
    BY RosterIsDated
  <2>4. Rosters!InForce(rosterRoster[e], Rosters!NoShift, x)
          = IF Org!Start(rosterRoster[e], Rosters!NoShift, x) = 0 THEN Rosters!NoShift
            ELSE rosterRoster[e][Org!Start(rosterRoster[e], Rosters!NoShift, x)]
    BY RosterIsDated
  <2>5. CASE x >= new
    <3>1. Org!Start(now, Rosters!NoShift, x) = new /\ now[new] = h
      BY <1>6, <2>1, <2>5
    <3> QED
      BY <2>1, <2>2, <2>3, <2>5, <3>1
  <2>6. CASE x < new
    <3>1. PICK d : d = Org!Start(rosterRoster[e], Rosters!NoShift, x)
      OBVIOUS
    <3>2. Org!Start(now, Rosters!NoShift, x) = d /\ (d # 0 => now[d] = rosterRoster[e][d])
      BY <1>6, <2>1, <2>6, <3>1
    <3>3. ~(x >= new)
      BY <2>1, <2>6
    <3> QED
      BY <2>2, <2>3, <2>4, <3>1, <3>2, <3>3
  <2> QED
    BY <2>1, <2>5, <2>6
<1> QED
  BY <1>1, <1>2, <1>7

LEMMA RosterStep == RosterInv /\ [Rosters!Next]_(Rosters!vars) => RosterInv'
<1> SUFFICES ASSUME RosterInv, [Rosters!Next]_(Rosters!vars) PROVE RosterInv'
  OBVIOUS
<1>0. /\ rosterShifts \in [Shifts -> Rosters!ShiftRows]
      /\ rosterRoster \in [Staffed -> Rosters!EntryRows]
      /\ rosterOverrides \in [Staffed -> Rosters!OverrideRows]
      /\ rosterHolidays \subseteq Rosters!Days /\ rosterClosed \subseteq Rosters!Days
      /\ rosterExits \in [Staffed -> Rosters!Days \cup {0}]
      /\ rosterRules \in [Rosters!Bands -> Rosters!RuleRows]
      /\ rosterTx \in [Clerks -> Rosters!Requests]
  BY DEF RosterInv, Rosters!TypeOK
<1>1. ASSUME NEW h \in Shifts, Rosters!DefineShift(h) PROVE RosterInv'
  <2>1. Rosters!TypeOK'
    BY <1>0, <1>1 DEF Rosters!DefineShift, Rosters!TypeOK, Rosters!ShiftRows
  <2>2. \A g \in Shifts : rosterShifts[g] = "live" => rosterShifts'[g] = "live"
    BY <1>0, <1>1 DEF Rosters!DefineShift
  <2> QED
    BY <1>1, <2>1, <2>2, RosterStays DEF Rosters!DefineShift
<1>2. ASSUME NEW e \in Staffed, NEW d \in Rosters!Days, Rosters!Leave(e, d) PROVE RosterInv'
  <2>1. Rosters!TypeOK'
    BY <1>0, <1>2 DEF Rosters!Leave, Rosters!TypeOK
  <2> QED
    BY <1>2, <2>1, RosterStays DEF Rosters!Leave
<1>3. ASSUME NEW e \in Staffed, NEW d \in Rosters!Days, NEW h \in Shifts \cup {Rosters!Off},
             Rosters!OverrideDay(e, d, h)
      PROVE  RosterInv'
  <2>1. rosterOverrides' = [rosterOverrides EXCEPT ![e] = [rosterOverrides[e] EXCEPT ![d] = h]]
    BY <1>3 DEF Rosters!OverrideDay
  <2>2. rosterOverrides[e] \in Rosters!OverrideRows
    BY <1>0
  <2>3. [rosterOverrides[e] EXCEPT ![d] = h] \in Rosters!OverrideRows
    BY <2>2 DEF Rosters!OverrideRows
  <2>4. rosterOverrides' \in [Staffed -> Rosters!OverrideRows]
    BY <1>0, <2>1, <2>3
  <2>5. Rosters!TypeOK'
    BY <1>0, <1>3, <2>4 DEF Rosters!OverrideDay, Rosters!TypeOK
  <2> QED
    BY <1>3, <2>5, RosterStays DEF Rosters!OverrideDay
<1>4. ASSUME NEW d \in Rosters!Days, Rosters!LockPeriod(d) PROVE RosterInv'
  <2>1. Rosters!TypeOK'
    BY <1>0, <1>4 DEF Rosters!LockPeriod, Rosters!TypeOK
  <2>2. /\ rosterClosed' = rosterClosed \cup {d}
        /\ \A s \in Clerks : rosterTx[s] \notin Rosters!Changes(d)
    BY <1>4 DEF Rosters!LockPeriod
  <2>3. ASSUME NEW s \in Clerks, rosterTx[s].op \in OfCalendar
        PROVE  rosterTx[s].day \notin rosterClosed'
    BY <2>2, <2>3 DEF RosterInv, Pending
  <2> QED
    BY <1>4, <2>1, <2>3, RosterStays DEF Rosters!LockPeriod
<1>12. ASSUME NEW s \in Clerks, NEW d \in Rosters!Days,
              Rosters!BeginStateHoliday(s, d) \/ Rosters!BeginRemoveHoliday(s, d)
       PROVE  RosterInv'
  <2>1. PICK op \in OfCalendar : Rosters!Starts(s, Rosters!OnDay(op, d)) /\ d \notin rosterClosed
    BY <1>12 DEF Rosters!BeginStateHoliday, Rosters!BeginRemoveHoliday, OfCalendar
  <2> DEFINE request == Rosters!OnDay(op, d)
  <2>2. /\ request \in Rosters!Requests /\ request.op = op /\ request.day = d
        /\ request \in Rosters!Changes(d)
    BY <2>1 DEF Rosters!OnDay, Rosters!Changes, Rosters!Requests, Rosters!Idle, OfCalendar
  <2>3. op # "roster" /\ op # "retire"
    BY <2>1 DEF OfCalendar
  <2> HIDE DEF request
  <2> QED
    BY <2>1, <2>2, <2>3, RosterBegins DEF request
<1>13. ASSUME NEW s \in Clerks, Rosters!CommitStateHoliday(s) \/ Rosters!CommitRemoveHoliday(s)
       PROVE  RosterInv'
  <2>1. /\ rosterTx[s].op \in OfCalendar /\ rosterTx' = [rosterTx EXCEPT ![s] = Rosters!Idle]
        /\ rosterHolidays' \subseteq rosterHolidays \cup {rosterTx[s].day}
        /\ UNCHANGED <<rosterShifts, rosterRoster, rosterOverrides, rosterClosed, rosterExits,
                       rosterRules>>
    BY <1>13 DEF Rosters!CommitStateHoliday, Rosters!CommitRemoveHoliday, OfCalendar
  <2>2. rosterTx[s].day \in Rosters!Days
    BY <2>1 DEF RosterInv, Pending
  <2>3. Rosters!Idle \in Rosters!Requests /\ rosterTx[s] # Rosters!Idle
    BY <2>1 DEF Rosters!Idle, Rosters!Requests, OfCalendar
  <2>4. Rosters!TypeOK'
    BY <1>0, <2>1, <2>2, <2>3 DEF Rosters!TypeOK
  <2>5. \A h \in Shifts : Rosters!Rostered(h)' = Rosters!Rostered(h)
    BY <2>1 DEF Rosters!Rostered
  <2> QED
    BY <2>1, <2>3, <2>4, <2>5, RosterEnds DEF RosterInv
<1>5. ASSUME NEW band \in Ruled, NEW d \in Rosters!Days, NEW limit \in Limits,
             Rosters!StateRule(band, d, limit)
      PROVE  RosterInv'
  <2>0. band \in Rosters!Bands
    BY OfficeParameters DEF Rosters!RosterAssumption
  <2>1. rosterRules' = [rosterRules EXCEPT ![band] = [rosterRules[band] EXCEPT ![d] = limit]]
    BY <1>5 DEF Rosters!StateRule
  <2>2. rosterRules[band] \in Rosters!RuleRows
    BY <1>0, <2>0
  <2>3. [rosterRules[band] EXCEPT ![d] = limit] \in Rosters!RuleRows
    BY <2>2 DEF Rosters!RuleRows
  <2>4. rosterRules' \in [Rosters!Bands -> Rosters!RuleRows]
    BY <1>0, <2>1, <2>3
  <2>5. Rosters!TypeOK'
    BY <1>0, <1>5, <2>4 DEF Rosters!StateRule, Rosters!TypeOK
  <2> QED
    BY <1>5, <2>5, RosterStays DEF Rosters!StateRule
<1>6. ASSUME NEW s \in Clerks, NEW e \in Staffed, NEW h \in Shifts, NEW d \in Rosters!Days,
             Rosters!BeginRoster(s, e, h, d)
      PROVE  RosterInv'
  <2> DEFINE request == [op |-> "roster", who |-> e, shift |-> h, day |-> d]
  <2>1. request \in Rosters!Requests
    BY DEF Rosters!Requests
  <2>2. Rosters!Starts(s, request) /\ rosterShifts[h] = "live" /\ Rosters!Supersedes(e, d)
    BY <1>6 DEF Rosters!BeginRoster
  <2>3. /\ request.op = "roster" /\ request.who = e /\ request.shift = h /\ request.day = d
        /\ "roster" # "retire" /\ "roster" \notin OfCalendar
    BY DEF OfCalendar
  <2> HIDE DEF request
  <2> QED
    BY <2>1, <2>2, <2>3, RosterBegins
<1>7. ASSUME NEW s \in Clerks, NEW h \in Shifts, Rosters!BeginRetire(s, h) PROVE RosterInv'
  <2> DEFINE request == [Rosters!Idle EXCEPT !.op = "retire", !.shift = h]
  <2>1. request \in Rosters!Requests
    BY DEF Rosters!Requests, Rosters!Idle
  <2>2. Rosters!Starts(s, request) /\ Rosters!Rostered(h) = {}
    BY <1>7 DEF Rosters!BeginRetire
  <2>3. /\ request.op = "retire" /\ request.shift = h /\ "roster" # "retire"
        /\ "retire" \notin OfCalendar
    BY DEF Rosters!Idle, OfCalendar
  <2> HIDE DEF request
  <2> QED
    BY <2>1, <2>2, <2>3, RosterBegins
<1>8. ASSUME NEW s \in Clerks, Rosters!CommitRoster(s) PROVE RosterInv'
  <2> DEFINE e == rosterTx[s].who
             new == rosterTx[s].day
             h == rosterTx[s].shift
  <2>1. /\ e \in Staffed /\ new \in Rosters!Days /\ h \in Shifts /\ rosterShifts[h] = "live"
        /\ rosterRoster' = [rosterRoster EXCEPT ![e][new] = h]
    BY <1>8, EntryRules
  <2>2. /\ rosterTx[s].op = "roster" /\ rosterTx' = [rosterTx EXCEPT ![s] = Rosters!Idle]
        /\ UNCHANGED <<rosterShifts, rosterOverrides, rosterHolidays, rosterClosed, rosterExits,
                       rosterRules>>
    BY <1>8 DEF Rosters!CommitRoster
  <2> HIDE DEF e, new, h
  <2>3. rosterTx[s] # Rosters!Idle
    BY <2>2 DEF Rosters!Idle
  <2>4. rosterRoster[e] \in Rosters!EntryRows
    BY <1>0, <2>1
  <2>5. [rosterRoster[e] EXCEPT ![new] = h] \in Rosters!EntryRows
    BY <2>1, <2>4 DEF Rosters!EntryRows
  <2>6. /\ rosterRoster' = [rosterRoster EXCEPT ![e] = [rosterRoster[e] EXCEPT ![new] = h]]
        /\ rosterRoster' \in [Staffed -> Rosters!EntryRows]
    BY <1>0, <2>1, <2>5
  <2>7. Rosters!Idle \in Rosters!Requests
    BY DEF Rosters!Idle, Rosters!Requests
  <2>8. Rosters!TypeOK'
    BY <1>0, <2>2, <2>6, <2>7 DEF Rosters!TypeOK
  <2>9. \A x \in Staffed, d \in Rosters!Days :
          rosterRoster'[x][d] = IF x = e /\ d = new THEN h ELSE rosterRoster[x][d]
    BY <1>0, <2>1, <2>4, <2>6 DEF Rosters!EntryRows
  <2>10. ASSUME NEW g \in Shifts, Rosters!Rostered(g)' # {} PROVE rosterShifts'[g] = "live"
    <3>1. PICK x \in Staffed, d \in Rosters!Days : rosterRoster'[x][d] = g
      BY <2>10 DEF Rosters!Rostered
    <3>2. g = h \/ rosterRoster[x][d] = g
      BY <2>9, <3>1
    <3>3. rosterRoster[x][d] = g => Rosters!Rostered(g) # {}
      BY DEF Rosters!Rostered
    <3> QED
      BY <2>1, <2>2, <3>2, <3>3 DEF RosterInv
  <2> QED
    BY <2>2, <2>3, <2>8, <2>10, RosterEnds
<1>9. ASSUME NEW s \in Clerks, Rosters!CommitRetire(s) PROVE RosterInv'
  <2>1. /\ rosterTx[s].op = "retire"
        /\ rosterShifts' = [rosterShifts EXCEPT ![rosterTx[s].shift] = "retired"]
        /\ rosterTx' = [rosterTx EXCEPT ![s] = Rosters!Idle]
        /\ UNCHANGED <<rosterRoster, rosterOverrides, rosterHolidays, rosterClosed, rosterExits,
                       rosterRules>>
    BY <1>9 DEF Rosters!CommitRetire
  <2>2. rosterTx[s].shift \in Shifts /\ Rosters!Rostered(rosterTx[s].shift) = {}
    BY <2>1 DEF RosterInv, Pending
  <2>3. Rosters!Idle \in Rosters!Requests /\ rosterTx[s] # Rosters!Idle
    BY <2>1 DEF Rosters!Idle, Rosters!Requests
  <2>4. Rosters!TypeOK'
    BY <1>0, <2>1, <2>2, <2>3 DEF Rosters!TypeOK, Rosters!ShiftRows
  <2>5. ASSUME NEW g \in Shifts, Rosters!Rostered(g)' # {} PROVE rosterShifts'[g] = "live"
    <3>1. Rosters!Rostered(g) # {}
      BY <2>1, <2>5 DEF Rosters!Rostered
    <3> QED
      BY <1>0, <2>1, <2>2, <3>1 DEF RosterInv
  <2> QED
    BY <2>1, <2>3, <2>4, <2>5, RosterEnds
<1>10. ASSUME NEW s \in Clerks, Rosters!Abort(s) PROVE RosterInv'
  <2>1. /\ rosterTx[s] # Rosters!Idle /\ rosterTx' = [rosterTx EXCEPT ![s] = Rosters!Idle]
        /\ UNCHANGED <<rosterShifts, rosterRoster, rosterOverrides, rosterHolidays, rosterClosed,
                       rosterExits, rosterRules>>
    BY <1>10 DEF Rosters!Abort
  <2>2. Rosters!Idle \in Rosters!Requests
    BY DEF Rosters!Idle, Rosters!Requests
  <2>3. Rosters!TypeOK'
    BY <1>0, <2>1, <2>2 DEF Rosters!TypeOK
  <2>4. \A g \in Shifts : Rosters!Rostered(g)' = Rosters!Rostered(g)
    BY <2>1 DEF Rosters!Rostered
  <2> QED
    BY <2>1, <2>3, <2>4, RosterEnds DEF RosterInv
<1>11. CASE UNCHANGED Rosters!vars
  <2>1. Rosters!TypeOK'
    BY <1>11 DEF RosterInv, Rosters!TypeOK, Rosters!vars
  <2> QED
    BY <1>11, <2>1, RosterStays DEF Rosters!vars
<1> QED
  BY <1>1, <1>2, <1>3, <1>4, <1>5, <1>6, <1>7, <1>8, <1>9, <1>10, <1>11, <1>12,
     <1>13
     DEF Rosters!Next

(* What holds of one step: EntriesTakeEffect.                                  *)
LEMMA EntriesRule ==
  ASSUME RosterInv, [Rosters!Next]_(Rosters!vars)
  PROVE  /\ \A e \in Staffed : rosterRoster'[e] # rosterRoster[e] =>
              \E d \in Rosters!Days, h \in Shifts : \A x \in Rosters!Days :
                Rosters!InForce(rosterRoster[e], Rosters!NoShift, x)'
                  = IF x >= d THEN h ELSE Rosters!InForce(rosterRoster[e], Rosters!NoShift, x)
         /\ \A h \in Shifts : Rosters!Rostered(h)' # {} => rosterShifts'[h] = "live"
<1>1. RosterInv'
  BY RosterStep
<1>2. rosterRoster' = rosterRoster \/ \E s \in Clerks : Rosters!CommitRoster(s)
  BY DEF Rosters!Next, Rosters!vars, Rosters!DefineShift, Rosters!Leave, Rosters!OverrideDay,
         Rosters!BeginStateHoliday, Rosters!CommitStateHoliday, Rosters!BeginRemoveHoliday,
         Rosters!CommitRemoveHoliday, Rosters!LockPeriod, Rosters!StateRule,
         Rosters!BeginRoster, Rosters!BeginRetire, Rosters!Starts, Rosters!CommitRetire,
         Rosters!Abort
<1>3. ASSUME NEW e \in Staffed, rosterRoster'[e] # rosterRoster[e]
      PROVE  \E d \in Rosters!Days, h \in Shifts : \A x \in Rosters!Days :
               Rosters!InForce(rosterRoster[e], Rosters!NoShift, x)'
                 = IF x >= d THEN h ELSE Rosters!InForce(rosterRoster[e], Rosters!NoShift, x)
  <2>1. PICK s \in Clerks : Rosters!CommitRoster(s)
    BY <1>2, <1>3
  <2>2. PICK o : o = rosterTx[s].who
    OBVIOUS
  <2>3. PICK d : d = rosterTx[s].day
    OBVIOUS
  <2>4. PICK h : h = rosterTx[s].shift
    OBVIOUS
  <2>5. /\ o \in Staffed /\ d \in Rosters!Days /\ h \in Shifts
        /\ rosterRoster' = [rosterRoster EXCEPT ![o][d] = h]
        /\ \A x \in Rosters!Days :
             Rosters!InForce(rosterRoster[o], Rosters!NoShift, x)'
               = IF x >= d THEN h ELSE Rosters!InForce(rosterRoster[o], Rosters!NoShift, x)
    BY <2>1, <2>2, <2>3, <2>4, EntryRules
  <2>6. o = e
    BY <1>3, <2>5 DEF RosterInv, Rosters!TypeOK
  <2> QED
    BY <2>5, <2>6
<1> QED
  BY <1>1, <1>3 DEF RosterInv

(* A closed day is classified by its holiday, which stands, and by rows.       *)
LEMMA ClosedDayStands ==
  ASSUME RosterInv, [Rosters!Next]_(Rosters!vars),
         UNCHANGED <<rosterRoster, rosterOverrides, rosterRules>>,
         NEW e \in Staffed, NEW d \in rosterClosed
  PROVE  Rosters!ClassifyDay(e, d)' = Rosters!ClassifyDay(e, d)
<1>1. d \in rosterHolidays' <=> d \in rosterHolidays
  <2>1. \/ rosterHolidays' = rosterHolidays
        \/ \E s \in Clerks : Rosters!CommitStateHoliday(s) \/ Rosters!CommitRemoveHoliday(s)
    BY DEF Rosters!Next, Rosters!vars, Rosters!DefineShift, Rosters!Leave, Rosters!OverrideDay,
           Rosters!BeginStateHoliday, Rosters!BeginRemoveHoliday, Rosters!LockPeriod,
           Rosters!StateRule, Rosters!BeginRoster, Rosters!BeginRetire, Rosters!Starts,
           Rosters!CommitRoster, Rosters!CommitRetire, Rosters!Abort
  <2>2. ASSUME NEW s \in Clerks, Rosters!CommitStateHoliday(s) \/ Rosters!CommitRemoveHoliday(s)
        PROVE  d \in rosterHolidays' <=> d \in rosterHolidays
    <3>1. rosterTx[s].op \in OfCalendar
      BY <2>2 DEF Rosters!CommitStateHoliday, Rosters!CommitRemoveHoliday, OfCalendar
    <3>2. rosterTx[s].day # d
      BY <3>1 DEF RosterInv, Pending
    <3> QED
      BY <2>2, <3>2 DEF Rosters!CommitStateHoliday, Rosters!CommitRemoveHoliday
  <2> QED
    BY <2>1, <2>2
<1>2. Rosters!ResolvedShift(e, d)' = Rosters!ResolvedShift(e, d)
  <2>1. Rosters!InForce(rosterRoster[e], Rosters!NoShift, d)'
          = Rosters!InForce(rosterRoster[e], Rosters!NoShift, d)
    OBVIOUS
  <2> QED
    BY <1>1, <2>1 DEF Rosters!ResolvedShift
<1>3. Rosters!Band(e, d)' = Rosters!Band(e, d)
  BY <1>1, <1>2 DEF Rosters!Band
<1>4. PICK band : band = Rosters!Band(e, d) /\ Rosters!Band(e, d)' = band
  BY <1>3
<1>5. Rosters!InForce(rosterRules[band], Rosters!NoRule, d)'
        = Rosters!InForce(rosterRules[band], Rosters!NoRule, d)
  OBVIOUS
<1> QED
  BY <1>2, <1>4, <1>5 DEF Rosters!ClassifyDay

(* ---------------------------------- journal -------------------------------- *)

Entries == DOMAIN journalJournal
Restated == {i \in Entries : journalJournal[i].kind \in Journal!Restatements}
Documents == {i \in Entries : journalJournal[i].kind = "document"}
ValueOf == [i \in Entries |-> journalJournal[i].amount * journalJournal[i].rate]
AmountOf == [i \in Entries |-> journalJournal[i].amount]
WorthUpto(rows, d) == {i \in rows : journalJournal[i].day <= d}

(* What a revaluation that is about to be committed was computed from.         *)
Computed(w) ==
  /\ \A i \in Entries : journalJournal[i].kind # "fx_settlement"
  /\ w.amount = Journal!Foreign(w.day) * w.memo - Journal!Booked(w.day)
                  - Journal!AlreadyRevalued(w.day)

(* A document names its source and keeps its rate; a restatement is in the     *)
(* base currency; a key is on one entry.  Whoever restates works alone, and    *)
(* what is at work is of an open month.                                        *)
Kept(w) ==
  /\ w.kind = "document" => w.sourced = TRUE
  /\ w.kind \in Journal!Restatements => w.rate = 1
  /\ w.kind # "document" => w.key = Journal!NoKey
JournalInv ==
  /\ Journal!TypeOK
  /\ \A i \in Entries : Kept(journalJournal[i])
                        /\ journalJournal[i].key \in journalKeys \cup {Journal!NoKey}
  /\ \A i, j \in Entries :
       journalJournal[i].key = journalJournal[j].key /\ journalJournal[i].key # Journal!NoKey => i = j
  /\ \A s \in Handlers : journalWork[s] # Journal!Idle =>
       /\ Kept(journalWork[s])
       /\ journalPeriods[journalWork[s].day] # "closed"
       /\ journalWork[s].kind = "fx_revaluation" => Computed(journalWork[s])
       /\ journalWork[s].kind # "document" =>
            \A t \in Handlers : t # s => journalWork[t] = Journal!Idle

LEMMA JournalConstants ==
  /\ LastDay \in Nat \ {0} /\ Journal!Days = 1..LastDay
  /\ (\A r \in Rates \cup {0} : r \in Nat /\ r \in Int) /\ (\A a \in SumsBooked : a \in Int)
  /\ Journal!NoKey \notin Keys /\ MaxEntries \in Nat
BY OfficeParameters DEF Journal!LedgerAssumption, Journal!Days

LEMMA JournalTypes ==
  ASSUME JournalInv
  PROVE  /\ journalJournal \in Seq(Journal!EntryRows)
         /\ IsFiniteSet(Entries) /\ Entries = 1..Len(journalJournal) /\ Len(journalJournal) \in Nat
         /\ \A i \in Entries : /\ journalJournal[i] \in Journal!EntryRows
                               /\ AmountOf[i] \in Int /\ ValueOf[i] \in Int
<1>1. journalJournal \in Seq(Journal!EntryRows)
  BY DEF JournalInv, Journal!TypeOK
<1>2. Entries = 1..Len(journalJournal) /\ Len(journalJournal) \in Nat
  BY <1>1 DEF Entries
<1>3. IsFiniteSet(Entries)
  BY <1>2, FS_Interval
<1>4. \A i \in Entries : journalJournal[i] \in Journal!EntryRows
  BY <1>1, <1>2
<1>5. \A i \in Entries : journalJournal[i].amount \in Int /\ journalJournal[i].rate \in Int
  BY <1>4 DEF Journal!EntryRows
<1> QED
  BY <1>1, <1>2, <1>3, <1>4, <1>5 DEF AmountOf, ValueOf

(* The sums of the module are sums of these functions.                         *)
LEMMA JournalSumOf ==
  ASSUME NEW S \in SUBSET Entries
  PROVE  /\ Journal!Sum(S, LAMBDA row : row.amount) = SumOver(AmountOf, S)
         /\ Journal!Sum(S, LAMBDA row : row.amount * row.rate) = SumOver(ValueOf, S)
<1> DEFINE P(it, s) == IF s = {} THEN 0
                       ELSE journalJournal[First(s)].amount + it[s \ {First(s)}]
           Q(it, s) == IF s = {} THEN 0
                       ELSE journalJournal[First(s)].amount * journalJournal[First(s)].rate
                              + it[s \ {First(s)}]
<1>1. ASSUME NEW it, NEW s \in SUBSET S
      PROVE  P(it, s) = Added(AmountOf, it, s) /\ Q(it, s) = Added(ValueOf, it, s)
  <2>1. s # {} => First(s) \in Entries
    BY DEF First
  <2> QED
    BY <2>1 DEF Added, AmountOf, ValueOf
<1>2. ASSUME NEW it
      PROVE  /\ [s \in SUBSET S |-> P(it, s)] = [s \in SUBSET S |-> Added(AmountOf, it, s)]
             /\ [s \in SUBSET S |-> Q(it, s)] = [s \in SUBSET S |-> Added(ValueOf, it, s)]
  BY <1>1
<1>3. /\ (CHOOSE it : it = [s \in SUBSET S |-> P(it, s)]) = CHOOSE it : Adds(AmountOf, SUBSET S, it)
      /\ (CHOOSE it : it = [s \in SUBSET S |-> Q(it, s)]) = CHOOSE it : Adds(ValueOf, SUBSET S, it)
  BY <1>2 DEF Adds
<1>4. /\ SumOver(AmountOf, S) = (CHOOSE it : Adds(AmountOf, SUBSET S, it))[S]
      /\ SumOver(ValueOf, S) = (CHOOSE it : Adds(ValueOf, SUBSET S, it))[S]
  BY SumIsChosen
<1>5. Journal!Sum(S, LAMBDA row : row.amount) = (CHOOSE it : it = [s \in SUBSET S |-> P(it, s)])[S]
  BY DEF Journal!Sum, Journal!MapThenSumSet, Journal!MapThenFoldSet, First
<1>6. Journal!Sum(S, LAMBDA row : row.amount * row.rate)
        = (CHOOSE it : it = [s \in SUBSET S |-> Q(it, s)])[S]
  BY DEF Journal!Sum, Journal!MapThenSumSet, Journal!MapThenFoldSet, First
<1> QED
  BY <1>3, <1>4, <1>5, <1>6

LEMMA JournalSums ==
  ASSUME NEW d
  PROVE  /\ Journal!Carried(d) = SumOver(ValueOf, WorthUpto(Entries, d))
         /\ Journal!ForeignNet(d) = SumOver(AmountOf, WorthUpto(Documents, d))
         /\ Journal!AlreadyRevalued(d) = SumOver(AmountOf, WorthUpto(Restated, d))
         /\ Journal!Foreign(d) = SumOver(AmountOf, Journal!OpenRows(d))
         /\ Journal!Booked(d) = SumOver(ValueOf, Journal!OpenRows(d))
<1> DEFINE docs == {i \in Journal!Upto(d) : journalJournal[i].kind = "document"}
           rest == {i \in Journal!Upto(d) : journalJournal[i].kind \in Journal!Restatements}
<1>1. /\ Journal!Upto(d) \in SUBSET Entries /\ docs \in SUBSET Entries
      /\ rest \in SUBSET Entries /\ Journal!OpenRows(d) \in SUBSET Entries
  BY DEF Journal!Upto, Journal!OpenRows, Entries
<1>2. /\ Journal!Upto(d) = WorthUpto(Entries, d) /\ docs = WorthUpto(Documents, d)
      /\ rest = WorthUpto(Restated, d)
  BY DEF WorthUpto, Entries, Documents, Restated, Journal!Upto
<1>3. Journal!Sum(Journal!Upto(d), LAMBDA row : row.amount * row.rate)
        = SumOver(ValueOf, Journal!Upto(d))
  BY <1>1, JournalSumOf
<1>4. Journal!Sum(docs, LAMBDA row : row.amount) = SumOver(AmountOf, docs)
  BY <1>1, JournalSumOf
<1>5. Journal!Sum(rest, LAMBDA row : row.amount) = SumOver(AmountOf, rest)
  BY <1>1, JournalSumOf
<1>6. Journal!Sum(Journal!OpenRows(d), LAMBDA row : row.amount) = SumOver(AmountOf, Journal!OpenRows(d))
  BY <1>1, JournalSumOf
<1>7. Journal!Sum(Journal!OpenRows(d), LAMBDA row : row.amount * row.rate)
        = SumOver(ValueOf, Journal!OpenRows(d))
  BY <1>1, JournalSumOf
<1>8. Journal!Carried(d) = SumOver(ValueOf, WorthUpto(Entries, d))
  BY <1>2, <1>3 DEF Journal!Carried
<1>9. Journal!ForeignNet(d) = SumOver(AmountOf, WorthUpto(Documents, d))
  BY <1>2, <1>4 DEF Journal!ForeignNet
<1>10. Journal!AlreadyRevalued(d) = SumOver(AmountOf, WorthUpto(Restated, d))
  BY <1>2, <1>5 DEF Journal!AlreadyRevalued
<1>11. Journal!Foreign(d) = SumOver(AmountOf, Journal!OpenRows(d))
  BY <1>6 DEF Journal!Foreign
<1>12. Journal!Booked(d) = SumOver(ValueOf, Journal!OpenRows(d))
  BY <1>7 DEF Journal!Booked
<1> QED
  BY <1>8, <1>9, <1>10, <1>11, <1>12

LEMMA JournalStarts == Journal!Init => JournalInv
<1> SUFFICES ASSUME Journal!Init PROVE JournalInv
  OBVIOUS
<1>1. Entries = {}
  BY DEF Entries, Journal!Init
<1>2. Journal!TypeOK
  BY JournalConstants DEF Journal!Init, Journal!TypeOK, Journal!PeriodRows
<1>3. \A s \in Handlers : journalWork[s] = Journal!Idle
  BY DEF Journal!Init
<1> QED
  BY <1>1, <1>2, <1>3 DEF JournalInv

(* What leaves the journal, the keys and the work alone, while the months of   *)
(* open requests stay open.                                                    *)
LEMMA JournalStays ==
  ASSUME JournalInv, Journal!TypeOK', UNCHANGED <<journalJournal, journalKeys, journalWork>>,
         \/ journalPeriods' = journalPeriods
         \/ \A s \in Handlers : journalWork[s] = Journal!Idle
  PROVE  JournalInv'
<1>1. Entries' = Entries
  BY DEF Entries
<1>2. ASSUME NEW s \in Handlers, journalWork'[s] # Journal!Idle
      PROVE  /\ Kept(journalWork'[s])
             /\ journalPeriods'[journalWork'[s].day] # "closed"
             /\ journalWork'[s].kind = "fx_revaluation" => Computed(journalWork[s])'
             /\ journalWork'[s].kind # "document" =>
                  \A t \in Handlers : t # s => journalWork'[t] = Journal!Idle
  <2>1. journalPeriods' = journalPeriods /\ journalWork' = journalWork
    BY <1>2
  <2>2. \A d : /\ Journal!Foreign(d)' = Journal!Foreign(d) /\ Journal!Booked(d)' = Journal!Booked(d)
               /\ Journal!AlreadyRevalued(d)' = Journal!AlreadyRevalued(d)
    BY DEF Journal!Foreign, Journal!Booked, Journal!AlreadyRevalued, Journal!OpenRows, Journal!Upto,
           Journal!Sum, Journal!MapThenSumSet, Journal!MapThenFoldSet
  <2>3. Computed(journalWork[s])' <=> Computed(journalWork[s])
    BY <1>1, <2>1, <2>2 DEF Computed
  <2> QED
    BY <1>2, <2>1, <2>3 DEF JournalInv
<1>3. \A i \in Entries' : Kept(journalJournal'[i])
                          /\ journalJournal'[i].key \in journalKeys' \cup {Journal!NoKey}
  BY <1>1 DEF JournalInv
<1> QED
  BY <1>1, <1>2, <1>3 DEF JournalInv, Kept, Computed

(* A request that begins: documents beside documents, anything else alone.     *)
LEMMA JournalBegins ==
  ASSUME JournalInv, NEW s \in Handlers, NEW entry \in Journal!EntryRows,
         Journal!Posting(s, entry), Kept(entry), entry.kind = "fx_revaluation" => Computed(entry)
  PROVE  JournalInv'
<1>1. /\ journalWork' = [journalWork EXCEPT ![s] = entry]
      /\ UNCHANGED <<journalToday, journalPeriods, journalRates, journalJournal, journalKeys>>
      /\ journalPeriods[entry.day] # "closed"
      /\ IF entry.kind = "document" THEN ~Journal!Restating ELSE Journal!Alone
  BY DEF Journal!Posting
<1>2. journalWork \in [Handlers -> Journal!EntryRows \cup {Journal!Idle}]
  BY DEF JournalInv, Journal!TypeOK
<1>3. \A t \in Handlers : journalWork'[t] = IF t = s THEN entry ELSE journalWork[t]
  BY <1>1, <1>2
<1>4. Journal!TypeOK'
  <2>1. journalWork' \in [Handlers -> Journal!EntryRows \cup {Journal!Idle}]
    BY <1>1, <1>2
  <2> QED
    BY <1>1, <2>1 DEF JournalInv, Journal!TypeOK
<1>5. \A t \in Handlers : journalWork[t] # Journal!Idle => journalWork[t].kind # "none"
  BY <1>2 DEF Journal!EntryRows, Journal!Kinds, Journal!Restatements
<1>6. \A d : /\ Journal!Foreign(d)' = Journal!Foreign(d) /\ Journal!Booked(d)' = Journal!Booked(d)
             /\ Journal!AlreadyRevalued(d)' = Journal!AlreadyRevalued(d)
  BY <1>1 DEF Journal!Foreign, Journal!Booked, Journal!AlreadyRevalued, Journal!OpenRows,
         Journal!Upto, Journal!Sum, Journal!MapThenSumSet, Journal!MapThenFoldSet
<1>7. Entries' = Entries
  BY <1>1 DEF Entries
<1>8. ASSUME NEW t \in Handlers, journalWork'[t] # Journal!Idle
      PROVE  /\ Kept(journalWork'[t])
             /\ journalPeriods'[journalWork'[t].day] # "closed"
             /\ journalWork'[t].kind = "fx_revaluation" => Computed(journalWork[t])'
             /\ journalWork'[t].kind # "document" =>
                  \A u \in Handlers : u # t => journalWork'[u] = Journal!Idle
  <2>1. CASE t = s
    <3>1. journalWork'[t] = entry
      BY <1>3, <2>1
    <3>2. entry.kind = "fx_revaluation" => Computed(journalWork[t])'
      BY <1>1, <1>6, <1>7, <3>1 DEF Computed
    <3>3. entry.kind # "document" => \A u \in Handlers : u # t => journalWork'[u] = Journal!Idle
      BY <1>1, <1>3, <2>1 DEF Journal!Alone
    <3> QED
      BY <1>1, <3>1, <3>2, <3>3
  <2>2. CASE t # s
    <3>1. journalWork'[t] = journalWork[t]
      BY <1>3, <2>2
    <3>2. entry.kind = "document"
      BY <1>1, <1>8, <2>2, <3>1 DEF Journal!Alone
    <3>3. journalWork[t].kind = "document"
      BY <1>1, <1>5, <1>8, <3>1, <3>2 DEF Journal!Restating
    <3> QED
      BY <1>1, <1>8, <3>1, <3>3 DEF JournalInv
  <2> QED
    BY <2>1, <2>2
<1>9. \A i \in Entries' : Kept(journalJournal'[i])
                          /\ journalJournal'[i].key \in journalKeys' \cup {Journal!NoKey}
  BY <1>1, <1>7 DEF JournalInv
<1>10. \A i, j \in Entries' :
         journalJournal'[i].key = journalJournal'[j].key /\ journalJournal'[i].key # Journal!NoKey => i = j
  BY <1>1, <1>7 DEF JournalInv
<1> QED
  BY <1>4, <1>8, <1>9, <1>10 DEF JournalInv, Kept, Computed

(* What a commit appends.                                                      *)
LEMMA JournalGrows ==
  ASSUME JournalInv, NEW s \in Handlers, Journal!Commit(s)
  PROVE  /\ journalWork[s] \in Journal!EntryRows
         /\ Entries' = Entries \cup {Len(journalJournal) + 1}
         /\ Len(journalJournal) + 1 \notin Entries
         /\ Len(journalJournal') = Len(journalJournal) + 1
         /\ journalJournal'[Len(journalJournal) + 1] = journalWork[s]
         /\ \A i \in Entries : journalJournal'[i] = journalJournal[i]
<1>1. journalJournal' = Append(journalJournal, journalWork[s]) /\ journalWork[s] # Journal!Idle
  BY DEF Journal!Commit
<1>2. journalWork[s] \in Journal!EntryRows
  BY <1>1 DEF JournalInv, Journal!TypeOK
<1>3. journalJournal \in Seq(Journal!EntryRows) /\ Entries = 1..Len(journalJournal)
      /\ Len(journalJournal) \in Nat
  BY JournalTypes
<1>4. Len(journalJournal') = Len(journalJournal) + 1 /\ Entries' = 1..(Len(journalJournal) + 1)
  BY <1>1, <1>2, <1>3 DEF Entries
<1>5. /\ journalJournal'[Len(journalJournal) + 1] = journalWork[s]
      /\ \A i \in Entries : journalJournal'[i] = journalJournal[i]
  BY <1>1, <1>2, <1>3
<1>6. 1..(Len(journalJournal) + 1) = 1..Len(journalJournal) \cup {Len(journalJournal) + 1}
  BY <1>3
<1> QED
  BY <1>2, <1>3, <1>4, <1>5, <1>6

LEMMA JournalCommits ==
  ASSUME JournalInv, NEW s \in Handlers, Journal!Commit(s)
  PROVE  JournalInv'
<1> DEFINE n == Len(journalJournal) + 1
           w == journalWork[s]
<1>1. /\ w \in Journal!EntryRows /\ Entries' = Entries \cup {n} /\ n \notin Entries
      /\ journalJournal'[n] = w /\ \A i \in Entries : journalJournal'[i] = journalJournal[i]
  BY JournalGrows
<1>2. /\ w # Journal!Idle /\ w.key \notin journalKeys
      /\ journalJournal' = Append(journalJournal, w)
      /\ journalKeys' = journalKeys \cup ({w.key} \ {Journal!NoKey})
      /\ journalWork' = [journalWork EXCEPT ![s] = Journal!Idle]
      /\ UNCHANGED <<journalToday, journalPeriods, journalRates>>
  BY DEF Journal!Commit, Journal!FirstOf
<1> HIDE DEF n, w
<1>3. journalWork \in [Handlers -> Journal!EntryRows \cup {Journal!Idle}]
      /\ journalJournal \in Seq(Journal!EntryRows) /\ journalKeys \subseteq Keys
  BY DEF JournalInv, Journal!TypeOK
<1>4. \A t \in Handlers : journalWork'[t] = IF t = s THEN Journal!Idle ELSE journalWork[t]
  BY <1>2, <1>3
<1>5. w.key \in Keys \cup {Journal!NoKey}
  BY <1>1 DEF Journal!EntryRows
<1>6. Journal!TypeOK'
  <2>1. journalWork' \in [Handlers -> Journal!EntryRows \cup {Journal!Idle}]
    BY <1>2, <1>3
  <2>2. journalJournal' \in Seq(Journal!EntryRows) /\ journalKeys' \subseteq Keys
    BY <1>1, <1>2, <1>3, <1>5
  <2> QED
    BY <1>2, <2>1, <2>2 DEF JournalInv, Journal!TypeOK
<1>7. Kept(w)
  BY <1>2 DEF JournalInv, w
<1>8. ASSUME NEW i \in Entries'
      PROVE  Kept(journalJournal'[i]) /\ journalJournal'[i].key \in journalKeys' \cup {Journal!NoKey}
  <2>1. CASE i = n
    BY <1>1, <1>2, <1>5, <1>7, <2>1
  <2>2. CASE i \in Entries
    BY <1>1, <1>2, <2>2 DEF JournalInv
  <2> QED
    BY <1>1, <1>8, <2>1, <2>2
<1>9. ASSUME NEW i \in Entries', NEW j \in Entries', journalJournal'[i].key = journalJournal'[j].key,
             journalJournal'[i].key # Journal!NoKey
      PROVE  i = j
  <2>1. \A k \in Entries : journalJournal'[k].key # Journal!NoKey => journalJournal'[k].key \in journalKeys
    BY <1>1 DEF JournalInv
  <2>2. CASE i = n \/ j = n
    BY <1>1, <1>2, <1>9, <2>1, <2>2
  <2>3. CASE i # n /\ j # n
    BY <1>1, <1>9, <2>3 DEF JournalInv
  <2> QED
    BY <2>2, <2>3
<1>10. ASSUME NEW t \in Handlers, journalWork'[t] # Journal!Idle
       PROVE  /\ Kept(journalWork'[t])
              /\ journalPeriods'[journalWork'[t].day] # "closed"
              /\ journalWork'[t].kind = "document"
  <2>1. t # s /\ journalWork'[t] = journalWork[t]
    BY <1>4, <1>10
  <2>2. journalWork[t].kind = "document"
    BY <1>2, <1>10, <2>1 DEF JournalInv, w
  <2> QED
    BY <1>2, <1>10, <2>1, <2>2 DEF JournalInv
<1>11. \A t \in Handlers : journalWork'[t] # Journal!Idle => journalWork'[t].kind # "fx_revaluation"
  BY <1>10
<1> QED
  BY <1>6, <1>8, <1>9, <1>10, <1>11 DEF JournalInv, Kept, Computed

LEMMA JournalStep == JournalInv /\ [Journal!Next]_(Journal!vars) => JournalInv'
<1> SUFFICES ASSUME JournalInv, [Journal!Next]_(Journal!vars) PROVE JournalInv'
  OBVIOUS
<1>0. /\ journalToday \in Journal!Days
      /\ journalPeriods \in [Journal!Days -> Journal!PeriodRows]
      /\ journalRates \in [Journal!Days -> Rates \cup {0}]
      /\ journalJournal \in Seq(Journal!EntryRows)
      /\ journalKeys \subseteq Keys
      /\ journalWork \in [Handlers -> Journal!EntryRows \cup {Journal!Idle}]
  BY DEF JournalInv, Journal!TypeOK
<1>1. ASSUME NEW d \in Journal!Days, Journal!LockPeriod(d) \/ Journal!UnlockPeriod(d)
      PROVE  JournalInv'
  <2>1. Journal!TypeOK'
    BY <1>0, <1>1
       DEF Journal!LockPeriod, Journal!UnlockPeriod, Journal!TypeOK, Journal!PeriodRows
  <2>2. \A s \in Handlers : journalWork[s] = Journal!Idle
    BY <1>1 DEF Journal!LockPeriod, Journal!UnlockPeriod, Journal!Alone
  <2> QED
    BY <1>1, <2>1, <2>2, JournalStays DEF Journal!LockPeriod, Journal!UnlockPeriod
<1>2. ASSUME NEW d \in Journal!Days, NEW rate \in Rates, Journal!StoreRate(d, rate)
      PROVE  JournalInv'
  <2>1. Journal!TypeOK'
    BY <1>0, <1>2 DEF Journal!StoreRate, Journal!TypeOK
  <2> QED
    BY <1>2, <2>1, JournalStays DEF Journal!StoreRate
<1>3. ASSUME Journal!NextDay PROVE JournalInv'
  <2>1. journalToday' \in Journal!Days
    BY <1>0, <1>3, JournalConstants DEF Journal!NextDay
  <2>2. Journal!TypeOK'
    BY <1>0, <1>3, <2>1 DEF Journal!NextDay, Journal!TypeOK
  <2> QED
    BY <1>3, <2>2, JournalStays DEF Journal!NextDay
<1>4. ASSUME NEW s \in Handlers, NEW key \in Keys, NEW d \in Journal!Days, NEW sum \in SumsBooked,
             NEW sourced \in {TRUE}, Journal!BeginPost(s, key, d, sum, sourced)
      PROVE  JournalInv'
  <2> DEFINE entry == [kind |-> "document", day |-> d, amount |-> sum,
                       rate |-> journalRates[d], memo |-> 0, sourced |-> sourced, key |-> key]
  <2>1. entry \in Journal!EntryRows
    <3>1. sum \in Int /\ journalRates[d] \in Nat
      <4>1. journalRates[d] \in Rates \cup {0}
        BY <1>0
      <4> QED
        BY <4>1, JournalConstants
    <3> QED
      BY <3>1 DEF Journal!EntryRows, Journal!Kinds
  <2>2. Kept(entry)
    BY DEF Kept, Journal!Restatements
  <2>3. entry.kind # "fx_revaluation" /\ Journal!Posting(s, entry)
    BY <1>4 DEF Journal!BeginPost
  <2> HIDE DEF entry
  <2> QED
    BY <2>1, <2>2, <2>3, JournalBegins
<1>5. ASSUME NEW s \in Handlers, NEW kind \in Journal!Kinds, kind # "document",
             NEW d \in Journal!Days, NEW difference \in Int, NEW memo \in Rates \cup {0},
             Journal!PostDifference(s, kind, d, difference, memo),
             kind = "fx_revaluation" =>
               /\ \A i \in Entries : journalJournal[i].kind # "fx_settlement"
               /\ difference = Journal!Foreign(d) * memo - Journal!Booked(d)
                                 - Journal!AlreadyRevalued(d)
      PROVE  JournalInv'
  <2> DEFINE entry == [kind |-> kind, day |-> d, amount |-> difference, rate |-> 1,
                       memo |-> memo, sourced |-> TRUE, key |-> Journal!NoKey]
  <2>1. entry \in Journal!EntryRows
    BY DEF Journal!EntryRows
  <2>2. Kept(entry)
    BY <1>5 DEF Kept
  <2>3. entry.kind = "fx_revaluation" => Computed(entry)
    BY <1>5 DEF Computed
  <2>4. Journal!Posting(s, entry)
    BY <1>5 DEF Journal!PostDifference
  <2> HIDE DEF entry
  <2> QED
    BY <2>1, <2>2, <2>3, <2>4, JournalBegins
<1>6. ASSUME NEW d
      PROVE  /\ Journal!AlreadyRevalued(d) \in Int /\ Journal!Foreign(d) \in Int
             /\ Journal!Booked(d) \in Int
  <2>1. /\ WorthUpto(Restated, d) \subseteq Entries /\ Journal!OpenRows(d) \subseteq Entries
        /\ IsFiniteSet(WorthUpto(Restated, d)) /\ IsFiniteSet(Journal!OpenRows(d))
    BY JournalTypes, FS_Subset
       DEF WorthUpto, Restated, Journal!OpenRows, Journal!Upto, Entries
  <2>2. \A i \in Entries : AmountOf[i] \in Int /\ ValueOf[i] \in Int
    BY JournalTypes
  <2>3. SumOver(AmountOf, WorthUpto(Restated, d)) \in Int
    BY <2>1, <2>2, SumTakesAny
  <2>4. SumOver(AmountOf, Journal!OpenRows(d)) \in Int
    BY <2>1, <2>2, SumTakesAny
  <2>5. SumOver(ValueOf, Journal!OpenRows(d)) \in Int
    BY <2>1, <2>2, SumTakesAny
  <2> QED
    BY <2>3, <2>4, <2>5, JournalSums
<1>7. ASSUME NEW s \in Handlers, NEW d \in Journal!Days, NEW wanted \in Rates,
             Journal!BeginRevalue(s, d, wanted)
      PROVE  JournalInv'
  <2> DEFINE difference == Journal!Foreign(d) * wanted - Journal!Booked(d)
                             - Journal!AlreadyRevalued(d)
  <2>1. difference \in Int
    <3>1. wanted \in Int
      BY JournalConstants
    <3> QED
      BY <1>6, <3>1
  <2>2. /\ Journal!PostDifference(s, "fx_revaluation", d, difference, wanted)
        /\ \A i \in Entries : journalJournal[i].kind # "fx_settlement"
    BY <1>7 DEF Journal!BeginRevalue, Entries
  <2>3. "fx_revaluation" \in Journal!Kinds /\ "fx_revaluation" # "document"
    BY DEF Journal!Kinds, Journal!Restatements
  <2>4. difference = Journal!Foreign(d) * wanted - Journal!Booked(d) - Journal!AlreadyRevalued(d)
    OBVIOUS
  <2> HIDE DEF difference
  <2> QED
    BY <1>5, <2>1, <2>2, <2>3, <2>4
<1>8. ASSUME NEW s \in Handlers, NEW d \in Journal!Days, NEW on \in Journal!Days,
             Journal!BeginReverse(s, d, on)
      PROVE  JournalInv'
  <2>1. PICK difference \in Int : difference = -Journal!AlreadyRevalued(d)
    BY <1>6
  <2>2. Journal!PostDifference(s, "fx_revaluation_reversal", on, difference, 0)
    BY <1>8, <2>1 DEF Journal!BeginReverse
  <2>3. /\ "fx_revaluation_reversal" \in Journal!Kinds
        /\ "fx_revaluation_reversal" # "document" /\ "fx_revaluation_reversal" # "fx_revaluation"
    BY DEF Journal!Kinds, Journal!Restatements
  <2> QED
    BY <1>5, <2>2, <2>3
<1>9. ASSUME NEW s \in Handlers, NEW i \in Entries, NEW d \in Journal!Days, NEW rate \in Rates,
             Journal!BeginSettle(s, i, d, rate)
      PROVE  JournalInv'
  <2>1. journalJournal[i].amount \in Int /\ journalJournal[i].rate \in Int /\ rate \in Int
    BY JournalTypes, JournalConstants DEF Journal!EntryRows
  <2>2. PICK difference \in Int :
          difference = journalJournal[i].amount * (rate - journalJournal[i].rate)
    BY <2>1
  <2>3. Journal!PostDifference(s, "fx_settlement", d, difference, 0)
    BY <1>9, <2>2 DEF Journal!BeginSettle
  <2>4. "fx_settlement" \in Journal!Kinds /\ "fx_settlement" # "document"
        /\ "fx_settlement" # "fx_revaluation"
    BY DEF Journal!Kinds, Journal!Restatements
  <2> QED
    BY <1>5, <2>3, <2>4
<1>10. ASSUME NEW s \in Handlers, Journal!Abort(s) PROVE JournalInv'
  <2>1. /\ journalWork' = [journalWork EXCEPT ![s] = Journal!Idle]
        /\ UNCHANGED <<journalToday, journalPeriods, journalRates, journalJournal, journalKeys>>
    BY <1>10 DEF Journal!Abort
  <2>2. \A t \in Handlers : journalWork'[t] = IF t = s THEN Journal!Idle ELSE journalWork[t]
    BY <1>0, <2>1
  <2>3. Journal!TypeOK'
    BY <1>0, <2>1 DEF Journal!TypeOK
  <2>4. Entries' = Entries
    BY <2>1 DEF Entries
  <2>5. \A d : /\ Journal!Foreign(d)' = Journal!Foreign(d) /\ Journal!Booked(d)' = Journal!Booked(d)
               /\ Journal!AlreadyRevalued(d)' = Journal!AlreadyRevalued(d)
    BY <2>1 DEF Journal!Foreign, Journal!Booked, Journal!AlreadyRevalued, Journal!OpenRows,
           Journal!Upto, Journal!Sum, Journal!MapThenSumSet, Journal!MapThenFoldSet
  <2>6. ASSUME NEW t \in Handlers, journalWork'[t] # Journal!Idle
        PROVE  /\ Kept(journalWork'[t])
               /\ journalPeriods'[journalWork'[t].day] # "closed"
               /\ journalWork'[t].kind = "fx_revaluation" => Computed(journalWork[t])'
               /\ journalWork'[t].kind # "document" =>
                    \A u \in Handlers : u # t => journalWork'[u] = Journal!Idle
    <3>1. journalWork'[t] = journalWork[t]
      BY <2>2, <2>6
    <3>2. Computed(journalWork[t])' <=> Computed(journalWork[t])
      BY <2>1, <2>4, <2>5, <3>1 DEF Computed
    <3> QED
      BY <2>1, <2>2, <2>6, <3>1, <3>2 DEF JournalInv
  <2>7. \A i \in Entries' : Kept(journalJournal'[i])
                            /\ journalJournal'[i].key \in journalKeys' \cup {Journal!NoKey}
    BY <2>1, <2>4 DEF JournalInv
  <2>8. \A i, j \in Entries' :
          journalJournal'[i].key = journalJournal'[j].key /\ journalJournal'[i].key # Journal!NoKey => i = j
    BY <2>1, <2>4 DEF JournalInv
  <2> QED
    BY <2>3, <2>6, <2>7, <2>8 DEF JournalInv, Kept, Computed
<1>11. CASE UNCHANGED Journal!vars
  <2>1. Journal!TypeOK'
    BY <1>11 DEF JournalInv, Journal!TypeOK, Journal!vars
  <2> QED
    BY <1>11, <2>1, JournalStays DEF Journal!vars
<1>12. ASSUME Journal!Next PROVE JournalInv'
  BY <1>1, <1>2, <1>3, <1>4, <1>7, <1>8, <1>9, <1>10, <1>12, JournalCommits
     DEF Journal!Next, Entries
<1> QED
  BY <1>11, <1>12

(* What changes the journal is a commit.                                       *)
LEMMA JournalChanges ==
  ASSUME [Journal!Next]_(Journal!vars), journalJournal' # journalJournal
  PROVE  \E s \in Handlers : Journal!Commit(s)
BY DEF Journal!Next, Journal!vars, Journal!LockPeriod, Journal!UnlockPeriod, Journal!StoreRate,
       Journal!NextDay, Journal!BeginPost, Journal!BeginRevalue, Journal!BeginReverse,
       Journal!BeginSettle, Journal!PostDifference, Journal!Posting, Journal!Abort

LEMMA JournalInvSuffices == JournalInv => Journal!PostedOnce
<1> SUFFICES ASSUME JournalInv, NEW key \in Keys
             PROVE  Cardinality({i \in Entries : journalJournal[i].key = key}) <= 1
  BY DEF Journal!PostedOnce, Entries, Journal!Cardinality, Cardinality
<1> DEFINE S == {i \in Entries : journalJournal[i].key = key}
<1>1. key # Journal!NoKey
  BY JournalConstants
<1>2. \A i, j \in S : i = j
  BY <1>1 DEF JournalInv
<1>3. CASE S = {}
  BY <1>3, FS_EmptySet
<1>4. CASE S # {}
  <2>1. PICK i \in S : TRUE
    BY <1>4
  <2>2. S = {i}
    BY <1>2, <2>1
  <2>3. Cardinality({i}) = 1
    BY FS_Singleton
  <2> HIDE DEF S
  <2>4. Cardinality(S) <= 1
    BY <2>2, <2>3
  <2> QED
    BY <2>4 DEF S
<1> QED
  BY <1>3, <1>4

(* A month gets no entry while it is closed.                                   *)
LEMMA ClosedMonthGetsNone ==
  ASSUME JournalInv, [Journal!Next]_(Journal!vars), journalJournal' # journalJournal
  PROVE  journalPeriods[journalJournal'[Len(journalJournal')].day] # "closed"
<1>1. PICK s \in Handlers : Journal!Commit(s)
  BY JournalChanges
<1>2. journalJournal'[Len(journalJournal')] = journalWork[s]
  BY <1>1, JournalGrows
<1>3. journalWork[s] # Journal!Idle
  BY <1>1 DEF Journal!Commit
<1> QED
  BY <1>2, <1>3 DEF JournalInv

(* The sums of the books after a step.                                         *)
LEMMA JournalSumsNext ==
  ASSUME NEW d
  PROVE  /\ Journal!Carried(d)' = SumOver(ValueOf', WorthUpto(Entries, d)')
         /\ Journal!ForeignNet(d)' = SumOver(AmountOf', WorthUpto(Documents, d)')
<1> DEFINE P(it, s) == IF s = {} THEN 0
                       ELSE journalJournal'[First(s)].amount + it[s \ {First(s)}]
           Q(it, s) == IF s = {} THEN 0
                       ELSE journalJournal'[First(s)].amount * journalJournal'[First(s)].rate
                              + it[s \ {First(s)}]
           U == {i \in DOMAIN journalJournal' : journalJournal'[i].day <= d}
           D == {i \in U : journalJournal'[i].kind = "document"}
<1>1. ASSUME NEW it, NEW S \in SUBSET Entries', NEW s \in SUBSET S
      PROVE  P(it, s) = Added(AmountOf', it, s) /\ Q(it, s) = Added(ValueOf', it, s)
  <2>1. s # {} => First(s) \in Entries'
    BY DEF First
  <2> QED
    BY <2>1 DEF Added, AmountOf, ValueOf
<1>2. ASSUME NEW it, NEW S \in SUBSET Entries'
      PROVE  /\ [s \in SUBSET S |-> P(it, s)] = [s \in SUBSET S |-> Added(AmountOf', it, s)]
             /\ [s \in SUBSET S |-> Q(it, s)] = [s \in SUBSET S |-> Added(ValueOf', it, s)]
  BY <1>1
<1>3. ASSUME NEW S \in SUBSET Entries'
      PROVE  /\ (CHOOSE it : it = [s \in SUBSET S |-> P(it, s)])[S] = SumOver(AmountOf', S)
             /\ (CHOOSE it : it = [s \in SUBSET S |-> Q(it, s)])[S] = SumOver(ValueOf', S)
  <2>0. \A it :
          /\ [s \in SUBSET S |-> P(it, s)] = [s \in SUBSET S |-> Added(AmountOf', it, s)]
          /\ [s \in SUBSET S |-> Q(it, s)] = [s \in SUBSET S |-> Added(ValueOf', it, s)]
    BY <1>2
  <2>1. /\ (CHOOSE it : it = [s \in SUBSET S |-> P(it, s)])
              = CHOOSE it : Adds(AmountOf', SUBSET S, it)
        /\ (CHOOSE it : it = [s \in SUBSET S |-> Q(it, s)])
              = CHOOSE it : Adds(ValueOf', SUBSET S, it)
    BY <2>0 DEF Adds
  <2>2. /\ SumOver(AmountOf', S) = (CHOOSE it : Adds(AmountOf', SUBSET S, it))[S]
        /\ SumOver(ValueOf', S) = (CHOOSE it : Adds(ValueOf', SUBSET S, it))[S]
    BY SumIsChosen
  <2>3. (CHOOSE it : it = [s \in SUBSET S |-> P(it, s)])[S] = SumOver(AmountOf', S)
    BY <2>1, <2>2
  <2>4. (CHOOSE it : it = [s \in SUBSET S |-> Q(it, s)])[S] = SumOver(ValueOf', S)
    BY <2>1, <2>2
  <2> QED
    BY <2>3, <2>4
<1>4. Journal!Carried(d)' = (CHOOSE it : it = [s \in SUBSET U |-> Q(it, s)])[U]
  BY DEF Journal!Carried, Journal!Upto, Journal!Sum, Journal!MapThenSumSet,
         Journal!MapThenFoldSet, First
<1>5. Journal!ForeignNet(d)' = (CHOOSE it : it = [s \in SUBSET D |-> P(it, s)])[D]
  BY DEF Journal!ForeignNet, Journal!Upto, Journal!Sum, Journal!MapThenSumSet,
         Journal!MapThenFoldSet, First
<1>6. U = WorthUpto(Entries, d)' /\ D = WorthUpto(Documents, d)'
  BY DEF WorthUpto, Entries, Documents
<1>7. U \in SUBSET Entries' /\ D \in SUBSET Entries'
  BY DEF Entries
<1> HIDE DEF U, D
<1> QED
  BY <1>3, <1>4, <1>5, <1>6, <1>7

(* What the books carry is what the documents are worth and what they were     *)
(* restated by; a revaluation makes up for the difference.                     *)
LEMMA RevaluedIsCarried ==
  ASSUME JournalInv, [Journal!Next]_(Journal!vars), NEW d \in Journal!Days,
         journalJournal' # journalJournal,
         journalJournal'[Len(journalJournal')].kind = "fx_revaluation",
         journalJournal'[Len(journalJournal')].day = d
  PROVE  Journal!Carried(d)'
           = Journal!ForeignNet(d)' * journalJournal'[Len(journalJournal')].memo
<1>1. PICK s \in Handlers : Journal!Commit(s)
  BY JournalChanges
<1> DEFINE n == Len(journalJournal) + 1
           w == journalWork[s]
           U == WorthUpto(Entries, d)
           D == WorthUpto(Documents, d)
           R == WorthUpto(Restated, d)
<1>2. /\ w \in Journal!EntryRows /\ Entries' = Entries \cup {n} /\ n \notin Entries
      /\ journalJournal'[n] = w /\ \A i \in Entries : journalJournal'[i] = journalJournal[i]
      /\ w.kind = "fx_revaluation" /\ w.day = d /\ journalJournal'[Len(journalJournal')] = w
  BY <1>1, JournalGrows
<1>3. w # Journal!Idle /\ Kept(w) /\ Computed(w)
  BY <1>1, <1>2 DEF Journal!Commit, JournalInv
<1>4. /\ IsFiniteSet(Entries) /\ \A i \in Entries : AmountOf[i] \in Int /\ ValueOf[i] \in Int
      /\ \A i \in Entries : journalJournal[i] \in Journal!EntryRows
  BY JournalTypes
<1>5. /\ w.amount \in Int /\ w.day \in Journal!Days /\ w.rate = 1
      /\ w.amount = Journal!Foreign(d) * w.memo - Journal!Booked(d)
                      - Journal!AlreadyRevalued(d)
  BY <1>2, <1>3 DEF Kept, Computed, Journal!EntryRows, Journal!Restatements
<1> HIDE DEF n, w
<1>6. d \in Int /\ d <= d
  BY <1>2, <1>5, JournalConstants
<1>7. \A i \in Entries : journalJournal[i].kind = "document" \/ journalJournal[i].kind \in Journal!Restatements
  BY <1>3, <1>4 DEF Computed, Journal!EntryRows, Journal!Kinds
<1>8. Journal!OpenRows(d) = D
  BY DEF Journal!OpenRows, Journal!Upto, WorthUpto, Documents, JournalInv, Kept, Entries
<1>9. U = D \cup R /\ D \cap R = {} /\ D \subseteq Entries /\ R \subseteq Entries
  BY <1>7 DEF WorthUpto, Documents, Restated, Journal!Restatements
<1>10. IsFiniteSet(U) /\ IsFiniteSet(D) /\ IsFiniteSet(R)
  BY <1>4, FS_Subset DEF WorthUpto, Documents, Restated
<1> HIDE DEF U, D, R
<1>11. SumOver(ValueOf, U) = SumOver(ValueOf, D) + SumOver(ValueOf, R)
  BY <1>4, <1>9, <1>10, SumOfParts
<1>12. SumOver(ValueOf, R) = SumOver(AmountOf, R)
  <2>1. \A i \in R : ValueOf[i] = AmountOf[i]
    <3>1. \A i \in R : journalJournal[i].rate = 1 /\ journalJournal[i].amount \in Int /\ i \in Entries
      BY <1>4 DEF R, WorthUpto, Restated, JournalInv, Kept, Journal!EntryRows
    <3> QED
      BY <3>1 DEF ValueOf, AmountOf
  <2> QED
    BY <1>10, <2>1, SumOfSame
<1>13. /\ Journal!Foreign(d) = SumOver(AmountOf, D) /\ Journal!Booked(d) = SumOver(ValueOf, D)
       /\ Journal!AlreadyRevalued(d) = SumOver(AmountOf, R)
  BY <1>8, JournalSums DEF R
<1>14. /\ SumOver(AmountOf, D) \in Int /\ SumOver(ValueOf, D) \in Int
       /\ SumOver(AmountOf, R) \in Int /\ SumOver(ValueOf, U) \in Int
  <2>1. \A i \in D : AmountOf[i] \in Int /\ ValueOf[i] \in Int
    BY <1>4, <1>9
  <2>2. \A i \in R : AmountOf[i] \in Int
    BY <1>4, <1>9
  <2>3. \A i \in U : ValueOf[i] \in Int
    BY <1>4, <1>9
  <2> QED
    BY <1>10, <2>1, <2>2, <2>3, SumTakesAny
<1>15. /\ \A i \in Entries : ValueOf'[i] = ValueOf[i] /\ AmountOf'[i] = AmountOf[i]
       /\ ValueOf'[n] = w.amount
  BY <1>2, <1>5 DEF ValueOf, AmountOf
<1>16. WorthUpto(Entries, d)' = U \cup {n} /\ n \notin U
  BY <1>2, <1>6 DEF WorthUpto, U
<1>17. WorthUpto(Documents, d)' = D
  <2>1. Documents' = Documents
    BY <1>2 DEF Documents
  <2> QED
    BY <1>2, <2>1 DEF WorthUpto, D, Documents
<1>18. Journal!Carried(d)' = SumOver(ValueOf', U \cup {n})
       /\ Journal!ForeignNet(d)' = SumOver(AmountOf', D)
  BY <1>16, <1>17, JournalSumsNext
<1>19. SumOver(AmountOf', D) = SumOver(AmountOf, D)
  BY <1>9, <1>10, <1>15, SumOfSame
<1>20. SumOver(ValueOf', U \cup {n}) = SumOver(ValueOf', U) + w.amount
  <2>1. \A i \in U : ValueOf'[i] \in Int
    BY <1>4, <1>9, <1>15
  <2> QED
    BY <1>5, <1>10, <1>15, <1>16, <2>1, SumOfOneMore
<1>21. SumOver(ValueOf', U) = SumOver(ValueOf, U)
  BY <1>9, <1>10, <1>15, SumOfSame
<1>22. w.memo \in Int
  <2>1. w.memo \in Rates \cup {0}
    BY <1>2 DEF Journal!EntryRows
  <2> QED
    BY <2>1, JournalConstants
<1>23. PICK a \in Int, b \in Int, c \in Int, r \in Int :
         /\ a = SumOver(AmountOf, D) /\ b = SumOver(ValueOf, D) /\ c = SumOver(AmountOf, R)
         /\ r = w.memo
  BY <1>14, <1>22
<1>24. PICK p \in Int : p = a * r
  OBVIOUS
<1>25. w.amount = p - b - c
  BY <1>5, <1>13, <1>23, <1>24
<1>26. SumOver(ValueOf, U) = b + c
  BY <1>11, <1>12, <1>23
<1>27. Journal!Carried(d)' = (b + c) + (p - b - c)
  BY <1>18, <1>20, <1>21, <1>25, <1>26
<1>28. Journal!Carried(d)' = p
  BY <1>27
<1> QED
  BY <1>2, <1>18, <1>19, <1>23, <1>24, <1>28

(* ---------------------------------- payroll -------------------------------- *)

(* A period's revisions are numbered without a gap, each superseded by the     *)
(* next, and none before it was computed.                                      *)
Chained(p) ==
  \A v \in Pay!Existing(p) :
    /\ \A u \in 1..v : u \in Pay!Existing(p)
    /\ payRuns[p][v].superseded = IF v + 1 \in Pay!Existing(p) THEN v + 1 ELSE 0
    /\ v + 1 \in Pay!Existing(p) => payRuns[p][v].state # "draft"

(* A revision that is about to be inserted follows one that was computed.      *)
Follows(tx) ==
  tx # Pay!Idle =>
    /\ tx[1] \in Pay!Periods /\ tx[2] \in Pay!Revisions
    /\ tx[2] # 1 => tx[2] - 1 \in Pay!Revisions
                    /\ payRuns[tx[1]][tx[2] - 1].state \in {"computed", "approved"}

RunsInv ==
  /\ payRuns \in [Pay!Periods -> [Pay!Revisions -> Pay!RunRows]]
  /\ \A s \in Handlers : payTx[s] \in (0..LastPeriod) \X (0..LastRevision)
  /\ \A p \in Pay!Periods : Chained(p)
  /\ \A s \in Handlers : Follows(payTx[s])

(* A loan is settled exactly when its recoveries come to its principal, which  *)
(* they do not exceed.                                                         *)
LoanInv ==
  /\ payRecoveries \in [Pay!Ids -> [Pay!Periods -> Pay!RecoveryRows]]
  /\ paySettled \subseteq Pay!Ids
  /\ \A l \in Pay!Ids, p \in Pay!Periods :
       payRecoveries[l][p] # Pay!NoRecovery => payRecoveries[l][p].amount \in Nat
  /\ \A l \in Pay!Ids : /\ Pay!Recovered(l) <= Loans[l].principal
                        /\ l \in paySettled <=> Pay!Recovered(l) = Loans[l].principal

RestInv ==
  /\ payFacts \in [Pay!Periods -> Facts] /\ payChanges \in Nat
  /\ payLocked \subseteq Pay!Periods
  /\ payEntries \in [Pay!Periods -> [Pay!Revisions -> Int]]
  /\ DOMAIN payTx = Handlers

(* What a request is about to write of a loan: nothing, or a row of no more    *)
(* than is outstanding, which closes the loan when it is all of that.          *)
Writes(w, l) ==
  \/ w.rows[l] = Pay!NoRecovery /\ l \notin w.closes
  \/ /\ l \notin paySettled /\ w.rows[l] # Pay!NoRecovery
     /\ w.rows[l].amount \in Nat /\ w.rows[l].amount <= Pay!Outstanding(l)
     /\ l \in w.closes <=> w.rows[l].amount = Pay!Outstanding(l)

(* It is the only request at the loans, and what it read still stands.         *)
WorkFits(s) ==
  payPending[s] # Pay!NoWork =>
    /\ payPending[s].period \in Pay!Periods
    /\ \A t \in Handlers : t # s => payPending[t] = Pay!NoWork
    /\ \A l \in Pay!Ids : Writes(payPending[s], l)
    /\ payPending[s].run # Pay!Idle =>
         /\ payPending[s].run[1] \in Pay!Periods /\ payPending[s].run[2] \in Pay!Revisions
         /\ payPending[s].line.state = "computed" /\ payPending[s].line.superseded = 0
WorkInv ==
  /\ payPending \in [Handlers -> Pay!Works]
  /\ \A s \in Handlers : WorkFits(s)

PayInv == RunsInv /\ LoanInv /\ RestInv /\ WorkInv

LEMMA PayConstants ==
  /\ LastPeriod \in Nat /\ LastRevision \in Nat \ {0} /\ Salary \in Nat /\ Withheld \in Nat
  /\ Percent \in Nat
  /\ Pay!Periods = 1..LastPeriod /\ Pay!Revisions = 1..LastRevision
  /\ IsFiniteSet(Pay!Periods) /\ IsFiniteSet(Pay!Revisions)
  /\ Pay!Cardinality(Pay!Ids) \in Nat /\ Pay!Ids = 1..Pay!Cardinality(Pay!Ids)
  /\ \A S : Pay!Cardinality(S) = Cardinality(S)
  /\ \A l \in Pay!Ids : Loans[l].principal \in Nat \ {0} /\ Loans[l].instalment \in Nat \ {0}
<1>1. Pay!PayAssumption
  BY OfficeParameters
<1>2. \A S : Pay!Cardinality(S) = Cardinality(S)
  BY DEF Pay!Cardinality, Cardinality
<1>3. \A S : Pay!IsFiniteSet(S) <=> IsFiniteSet(S)
  BY DEF Pay!IsFiniteSet, IsFiniteSet
<1>4. Pay!Cardinality(Pay!Ids) \in Nat
  BY <1>1, <1>2, <1>3, FS_CardinalityType DEF Pay!PayAssumption
<1>5. Withheld \in 0..100 /\ Percent \in 0..100
  BY <1>1 DEF Pay!PayAssumption
<1>6. Withheld \in Nat /\ Percent \in Nat
  BY <1>5
<1>7. LastPeriod \in Nat /\ LastRevision \in Nat \ {0}
  BY <1>1 DEF Pay!PayAssumption
<1>8. IsFiniteSet(1..LastPeriod) /\ IsFiniteSet(1..LastRevision)
  BY <1>7, FS_Interval
<1> QED
  BY <1>1, <1>2, <1>4, <1>6, <1>7, <1>8 DEF Pay!PayAssumption, Pay!Periods, Pay!Revisions

(* What the recoveries of a loan come to.                                      *)
RowsOf(rec, l) == {p \in Pay!Periods : rec[l][p] # Pay!NoRecovery}
AmountsOf(rec, l) == [p \in Pay!Periods |-> rec[l][p].amount]
RecoveredOf(rec, l) == Pay!MapThenSumSet(LAMBDA p : rec[l][p].amount, RowsOf(rec, l))

LEMMA RecoveredIs ==
  ASSUME NEW l
  PROVE  /\ Pay!Recovered(l) = RecoveredOf(payRecoveries, l)
         /\ Pay!Recovered(l)' = RecoveredOf(payRecoveries', l)
BY DEF Pay!Recovered, Pay!Total, RecoveredOf, RowsOf, Pay!MapThenSumSet, Pay!MapThenFoldSet

LEMMA RecoveredIsSum ==
  ASSUME NEW rec, NEW l
  PROVE  RecoveredOf(rec, l) = SumOver(AmountsOf(rec, l), RowsOf(rec, l))
<1> DEFINE S == RowsOf(rec, l)
           f == AmountsOf(rec, l)
           Plus(it, s) == IF s = {} THEN 0 ELSE rec[l][First(s)].amount + it[s \ {First(s)}]
<1>1. ASSUME NEW it, NEW s \in SUBSET S PROVE Plus(it, s) = Added(f, it, s)
  BY DEF Added, First, AmountsOf, RowsOf
<1>2. ASSUME NEW it PROVE [s \in SUBSET S |-> Plus(it, s)] = [s \in SUBSET S |-> Added(f, it, s)]
  BY <1>1
<1>3. (CHOOSE it : it = [s \in SUBSET S |-> Plus(it, s)]) = CHOOSE it : Adds(f, SUBSET S, it)
  BY <1>2 DEF Adds
<1>4. SumOver(f, S) = (CHOOSE it : Adds(f, SUBSET S, it))[S]
  BY SumIsChosen
<1>5. RecoveredOf(rec, l) = (CHOOSE it : it = [s \in SUBSET S |-> Plus(it, s)])[S]
  BY DEF RecoveredOf, Pay!MapThenSumSet, Pay!MapThenFoldSet, First
<1> QED
  BY <1>3, <1>4, <1>5

(* A row more recovers its amount more.                                        *)
LEMMA RecoveredMore ==
  ASSUME NEW rec, NEW new, NEW l, NEW p \in Pay!Periods,
         \A q \in Pay!Periods : rec[l][q] # Pay!NoRecovery => rec[l][q].amount \in Nat,
         rec[l][p] = Pay!NoRecovery, new[l][p] # Pay!NoRecovery, new[l][p].amount \in Nat,
         \A q \in Pay!Periods : q # p => new[l][q] = rec[l][q]
  PROVE  /\ RecoveredOf(rec, l) \in Nat
         /\ RecoveredOf(new, l) = RecoveredOf(rec, l) + new[l][p].amount
<1> DEFINE S == RowsOf(rec, l)
           f == AmountsOf(rec, l)
           g == AmountsOf(new, l)
<1>1. IsFiniteSet(S)
  BY PayConstants, FS_Subset DEF RowsOf
<1>2. \A q \in S : f[q] \in Nat
  BY DEF RowsOf, AmountsOf
<1>3. RowsOf(new, l) = S \cup {p} /\ p \notin S
  BY DEF RowsOf
<1>4. g[p] = new[l][p].amount /\ \A q \in S : g[q] = f[q]
  BY <1>3 DEF AmountsOf, RowsOf
<1> HIDE DEF S, f, g
<1>5. SumOver(f, S) \in Nat /\ SumOver(g, S) = SumOver(f, S)
  BY <1>1, <1>2, <1>4, SumOfNats, SumOfSame
<1>6. SumOver(g, S \cup {p}) = SumOver(g, S) + g[p]
  <2>1. \A q \in S : g[q] \in Int
    BY <1>2, <1>4
  <2> QED
    BY <1>1, <1>3, <1>4, <2>1, SumOfOneMore
<1> QED
  BY <1>3, <1>4, <1>5, <1>6, RecoveredIsSum DEF S, f, g

LEMMA RecoveredSame ==
  ASSUME NEW rec, NEW new, NEW l, \A q \in Pay!Periods : new[l][q] = rec[l][q]
  PROVE  RecoveredOf(new, l) = RecoveredOf(rec, l)
<1>1. RowsOf(new, l) = RowsOf(rec, l) /\ AmountsOf(new, l) = AmountsOf(rec, l)
  BY DEF RowsOf, AmountsOf
<1> QED
  BY <1>1, RecoveredIsSum

LEMMA RecoveredIsNat ==
  ASSUME NEW rec, NEW l,
         \A q \in Pay!Periods : rec[l][q] # Pay!NoRecovery => rec[l][q].amount \in Nat
  PROVE  RecoveredOf(rec, l) \in Nat
<1>1. IsFiniteSet(RowsOf(rec, l)) /\ \A q \in RowsOf(rec, l) : AmountsOf(rec, l)[q] \in Nat
  BY PayConstants, FS_Subset DEF RowsOf, AmountsOf
<1> QED
  BY <1>1, SumOfNats, RecoveredIsSum

LEMMA MinMax ==
  ASSUME NEW a \in Int, NEW b \in Int
  PROVE  /\ Pay!Min({a, b}) = IF a <= b THEN a ELSE b
         /\ Pay!Max({a, b}) = IF a >= b THEN a ELSE b
<1>1. Pay!Min({a, b}) = CHOOSE x \in {a, b} : \A y \in {a, b} : x <= y
  BY DEF Pay!Min
<1>2. Pay!Max({a, b}) = CHOOSE x \in {a, b} : \A y \in {a, b} : x >= y
  BY DEF Pay!Max
<1>3. \E x \in {a, b} : \A y \in {a, b} : x <= y
  BY a <= b \/ b <= a
<1>4. \E x \in {a, b} : \A y \in {a, b} : x >= y
  BY a <= b \/ b <= a
<1> QED
  BY <1>1, <1>2, <1>3, <1>4

(* ------------------------------- the loans --------------------------------- *)

LEMMA OutstandingIs ==
  ASSUME LoanInv, NEW l \in Pay!Ids
  PROVE  /\ Pay!Recovered(l) \in Nat /\ Pay!Outstanding(l) \in Nat
         /\ Pay!Outstanding(l) = Loans[l].principal - Pay!Recovered(l)
         /\ l \in Pay!Open <=> Pay!Outstanding(l) > 0
         /\ l \in Pay!Open =>
              Pay!Due(l) \in Nat /\ Pay!Due(l) > 0 /\ Pay!Due(l) <= Pay!Outstanding(l)
<1>1. Loans[l].principal \in Nat /\ Loans[l].instalment \in Nat \ {0}
  BY PayConstants
<1>2. Pay!Recovered(l) \in Nat /\ Pay!Recovered(l) <= Loans[l].principal
      /\ (l \in paySettled <=> Pay!Recovered(l) = Loans[l].principal)
  BY RecoveredIs, RecoveredIsNat DEF LoanInv
<1>3. Pay!Outstanding(l) = Loans[l].principal - Pay!Recovered(l)
  BY DEF Pay!Outstanding
<1>4. Pay!Outstanding(l) \in Nat /\ (l \in Pay!Open <=> Pay!Outstanding(l) > 0)
  BY <1>1, <1>2, <1>3 DEF Pay!Open
<1>5. Pay!Due(l) = IF Loans[l].instalment <= Pay!Outstanding(l)
                   THEN Loans[l].instalment ELSE Pay!Outstanding(l)
  BY <1>1, <1>4, MinMax DEF Pay!Due
<1> QED
  BY <1>1, <1>2, <1>3, <1>4, <1>5

(* What a loan takes in a period is not negative, and not more than is due.    *)
LEMMA ShareIs ==
  ASSUME LoanInv, NEW l \in Pay!Open, NEW p \in Pay!Periods, NEW available \in Int,
         NEW before \in Int
  PROVE  /\ Pay!Share(l, p, available, before) \in Nat
         /\ payRecoveries[l][p] = Pay!NoRecovery =>
              Pay!Share(l, p, available, before) <= Pay!Due(l)
<1>1. l \in Pay!Ids
  BY DEF Pay!Open
<1>2. CASE payRecoveries[l][p] # Pay!NoRecovery
  BY <1>1, <1>2 DEF Pay!Share, LoanInv
<1>3. CASE payRecoveries[l][p] = Pay!NoRecovery
  <2>1. Pay!Outstanding(l) > 0 /\ Pay!Outstanding(l) \in Nat /\ Pay!Due(l) \in Nat
    BY <1>1, OutstandingIs
  <2>2. PICK c \in Int : c = Pay!Capped(available)
    <3>1. available * Percent \in Int
      BY PayConstants
    <3> QED
      BY <3>1 DEF Pay!Capped
  <2>3. PICK m \in Nat : m = Pay!Max({0, Pay!Capped(available) - before})
    <3>1. PICK e \in Int : e = c - before
      OBVIOUS
    <3>2. Pay!Max({0, e}) = IF 0 >= e THEN 0 ELSE e
      BY MinMax
    <3>3. Pay!Max({0, e}) \in Nat
      BY <3>2
    <3> QED
      BY <2>2, <3>1, <3>3
  <2>4. Pay!Share(l, p, available, before) = Pay!Min({Pay!Due(l), m})
    BY <1>3, <2>1, <2>3 DEF Pay!Share
  <2>5. Pay!Min({Pay!Due(l), m}) = IF Pay!Due(l) <= m THEN Pay!Due(l) ELSE m
    BY <2>1, MinMax
  <2> QED
    BY <2>1, <2>4, <2>5
<1> QED
  BY <1>2, <1>3

(* The loans take what is natural, however many of them.                       *)
LEMMA TakenIs ==
  ASSUME LoanInv, NEW p \in Pay!Periods, NEW available \in Int
  PROVE  \A l \in 0..Pay!Cardinality(Pay!Ids) : Pay!Taken(p, available)[l] \in Nat
<1> DEFINE M == Pay!Cardinality(Pay!Ids)
           Part(b, l) == IF l \in Pay!Open THEN Pay!Share(l, p, available, b) ELSE 0
           Obeys(t) == t = [l \in 0..M |-> IF l = 0 THEN 0 ELSE t[l - 1] + Part(t[l - 1], l)]
           step == [x \in Nat \X (1..M) |-> x[1] + Part(x[1], x[2])]
<1>1. M \in Nat /\ Pay!Ids = 1..M
  BY PayConstants
<1>2. Pay!Taken(p, available) = CHOOSE t : Obeys(t)
  BY DEF Pay!Taken
<1> HIDE DEF M
<1>3. \A b \in Nat, l \in 1..M : Part(b, l) \in Nat
  BY ShareIs
<1> HIDE DEF Part
<1>4. Stepping(step, Nat, M)
  <2>1. \A x \in Nat \X (1..M) : step[x] \in Nat
    BY <1>3
  <2> QED
    BY <2>1 DEF Stepping
<1>5. PICK f : Iterates(f, step, Nat, 0, M)
  BY <1>1, <1>4, IterationExists
<1>6. Obeys(f)
  <2>1. /\ f \in [0..M -> Nat] /\ f[0] = 0
        /\ \A n \in 1..M : f[n] = step[<<f[n - 1], n>>]
    BY <1>5 DEF Iterates
  <2>2. \A n \in 1..M : n - 1 \in 0..M
    BY <1>1
  <2>3. \A n \in 1..M : f[n] = f[n - 1] + Part(f[n - 1], n)
    BY <2>1, <2>2
  <2>4. \A n \in 0..M : f[n] = IF n = 0 THEN 0 ELSE f[n - 1] + Part(f[n - 1], n)
    BY <1>1, <2>1, <2>3
  <2> QED
    BY <2>1, <2>4
<1> DEFINE v == CHOOSE t : Obeys(t)
<1>7. Obeys(v)
  BY <1>6
<1> HIDE DEF v
<1>8. Iterates(v, step, Nat, 0, M)
  <2>1. v = [l \in 0..M |-> v[l]] /\ v[0] = 0
    BY <1>1, <1>7
  <2>2. \A n \in 1..M : v[n] = v[n - 1] + Part(v[n - 1], n)
    BY <1>1, <1>7
  <2>3. \A n \in 1..M : v[n - 1] \in Nat => v[n] = step[<<v[n - 1], n>>]
    BY <2>2
  <2> HIDE DEF step
  <2> QED
    BY <1>1, <1>4, <2>1, <2>3, IterationRuns
<1>9. v \in [0..M -> Nat]
  BY <1>8 DEF Iterates
<1> QED
  BY <1>2, <1>9 DEF M, v

(* What a computed run writes of a loan: nothing where a row is, or a row that *)
(* takes no more than is outstanding.                                          *)
LEMMA RecoveryIs ==
  ASSUME LoanInv, NEW l \in Pay!Ids, NEW p \in Pay!Periods, NEW available \in Int
  PROVE  LET new == Pay!RecoveryOf(l, p, available)
             writes == l \in Pay!Open /\ payRecoveries[l][p] = Pay!NoRecovery
         IN /\ new \in Pay!RecoveryRows
            /\ ~writes => new = Pay!NoRecovery
            /\ writes => /\ new.amount \in Nat /\ new # Pay!NoRecovery
                         /\ new.amount <= Pay!Outstanding(l)
<1> DEFINE new == Pay!RecoveryOf(l, p, available)
<1>1. Pay!NoRecovery \in Pay!RecoveryRows
  BY DEF Pay!NoRecovery, Pay!RecoveryRows
<1>2. CASE l \notin Pay!Open \/ payRecoveries[l][p] # Pay!NoRecovery
  <2>1. new = Pay!NoRecovery
    BY <1>2 DEF Pay!RecoveryOf
  <2> QED
    BY <1>1, <1>2, <2>1
<1>3. CASE l \in Pay!Open /\ payRecoveries[l][p] = Pay!NoRecovery
  <2>1. /\ Pay!Outstanding(l) > 0 /\ Pay!Outstanding(l) \in Nat /\ Pay!Due(l) \in Nat
        /\ Pay!Due(l) <= Pay!Outstanding(l)
    BY <1>3, OutstandingIs
  <2>2. l - 1 \in 0..Pay!Cardinality(Pay!Ids)
    BY PayConstants
  <2>3. PICK before \in Nat : before = Pay!Taken(p, available)[l - 1]
    BY <2>2, TakenIs
  <2>4. PICK paid \in Nat : paid = Pay!Share(l, p, available, before) /\ paid <= Pay!Due(l)
    BY <1>3, ShareIs
  <2>5. new = [amount |-> paid, deferred |-> Pay!Due(l) - paid]
    BY <1>3, <2>1, <2>3, <2>4 DEF Pay!RecoveryOf
  <2>6. new \in Pay!RecoveryRows /\ new.amount = paid /\ new # Pay!NoRecovery
    BY <2>1, <2>4, <2>5 DEF Pay!RecoveryRows, Pay!NoRecovery
  <2>7. paid <= Pay!Outstanding(l)
    BY <2>1, <2>4
  <2>8. new \in Pay!RecoveryRows /\ new.amount \in Nat /\ new # Pay!NoRecovery
        /\ new.amount <= Pay!Outstanding(l)
    BY <2>6, <2>7
  <2> QED
    BY <1>3, <2>8
<1> QED
  BY <1>2, <1>3

(* One loan after a step that writes at most its row of one period.            *)
LEMMA LoanStep ==
  ASSUME LoanInv, NEW l \in Pay!Ids, NEW p \in Pay!Periods, NEW new,
         payRecoveries' \in [Pay!Ids -> [Pay!Periods -> Pay!RecoveryRows]],
         payRecoveries'[l][p] = new,
         \A q \in Pay!Periods : q # p => payRecoveries'[l][q] = payRecoveries[l][q],
         \/ new = payRecoveries[l][p] /\ (l \in paySettled' <=> l \in paySettled)
         \/ /\ payRecoveries[l][p] = Pay!NoRecovery /\ new # Pay!NoRecovery
            /\ new.amount \in Nat /\ new.amount <= Pay!Outstanding(l) /\ l \notin paySettled
            /\ l \in paySettled' <=> new.amount = Pay!Outstanding(l)
  PROVE  /\ \A q \in Pay!Periods :
              payRecoveries'[l][q] # Pay!NoRecovery => payRecoveries'[l][q].amount \in Nat
         /\ Pay!Recovered(l)' <= Loans[l].principal
         /\ l \in paySettled' <=> Pay!Recovered(l)' = Loans[l].principal
<1>1. /\ \A q \in Pay!Periods :
           payRecoveries[l][q] # Pay!NoRecovery => payRecoveries[l][q].amount \in Nat
      /\ Pay!Recovered(l) <= Loans[l].principal
      /\ l \in paySettled <=> Pay!Recovered(l) = Loans[l].principal
  BY DEF LoanInv
<1>2. /\ Pay!Recovered(l) = RecoveredOf(payRecoveries, l)
      /\ Pay!Recovered(l)' = RecoveredOf(payRecoveries', l)
  BY RecoveredIs
<1>3. CASE new = payRecoveries[l][p] /\ (l \in paySettled' <=> l \in paySettled)
  <2>1. \A q \in Pay!Periods : payRecoveries'[l][q] = payRecoveries[l][q]
    BY <1>3
  <2>2. RecoveredOf(payRecoveries', l) = RecoveredOf(payRecoveries, l)
    BY <2>1, RecoveredSame
  <2> QED
    BY <1>1, <1>2, <1>3, <2>1, <2>2
<1>4. CASE /\ payRecoveries[l][p] = Pay!NoRecovery /\ new # Pay!NoRecovery
           /\ new.amount \in Nat /\ new.amount <= Pay!Outstanding(l) /\ l \notin paySettled
           /\ l \in paySettled' <=> new.amount = Pay!Outstanding(l)
  <2>1. /\ RecoveredOf(payRecoveries, l) \in Nat
        /\ RecoveredOf(payRecoveries', l) = RecoveredOf(payRecoveries, l) + payRecoveries'[l][p].amount
    <3>1. payRecoveries'[l][p] # Pay!NoRecovery /\ payRecoveries'[l][p].amount \in Nat
      BY <1>4
    <3> QED
      BY <1>1, <1>4, <3>1, RecoveredMore
  <2>2. Pay!Outstanding(l) = Loans[l].principal - Pay!Recovered(l) /\ Loans[l].principal \in Nat
    BY PayConstants DEF Pay!Outstanding
  <2>3. PICK a \in Nat, b \in Nat, c \in Nat :
          a = new.amount /\ b = Pay!Recovered(l) /\ c = Loans[l].principal
    BY <1>2, <1>4, <2>1, <2>2
  <2>4. Pay!Recovered(l)' = b + a /\ a <= c - b /\ (l \in paySettled' <=> a = c - b)
    BY <1>2, <1>4, <2>1, <2>2, <2>3
  <2>5. Pay!Recovered(l)' <= Loans[l].principal
        /\ (l \in paySettled' <=> Pay!Recovered(l)' = Loans[l].principal)
    BY <2>3, <2>4
  <2> QED
    BY <1>1, <1>4, <2>5
<1> QED
  BY <1>3, <1>4

LEMMA LoansStay ==
  ASSUME LoanInv, UNCHANGED <<payRecoveries, paySettled>>
  PROVE  LoanInv'
<1>1. \A l : Pay!Recovered(l)' = Pay!Recovered(l)
  BY RecoveredIs
<1> QED
  BY <1>1 DEF LoanInv

(* What was asked for is written: every loan gets at most its row.             *)
LEMMA LoansRecover ==
  ASSUME LoanInv, WorkInv, NEW s \in Handlers, payPending[s] # Pay!NoWork, Pay!Recover(s)
  PROVE  LoanInv'
<1>1. PICK w \in Pay!Works : w = payPending[s]
  BY DEF WorkInv
<1>2. PICK p \in Pay!Periods : p = w.period
  BY <1>1 DEF WorkInv, WorkFits
<1>3. \A l \in Pay!Ids : Writes(w, l)
  BY <1>1 DEF WorkInv, WorkFits
<1>4. /\ \A l \in Pay!Ids : w.rows[l] # Pay!NoRecovery => payRecoveries[l][p] = Pay!NoRecovery
      /\ payRecoveries' = [l \in Pay!Ids |->
           IF w.rows[l] = Pay!NoRecovery THEN payRecoveries[l]
           ELSE [payRecoveries[l] EXCEPT ![p] = w.rows[l]]]
      /\ paySettled' = paySettled \cup w.closes
  BY <1>1, <1>2 DEF Pay!Recover
<1>5. /\ payRecoveries \in [Pay!Ids -> [Pay!Periods -> Pay!RecoveryRows]]
      /\ paySettled \subseteq Pay!Ids
  BY DEF LoanInv
<1>6. \A l \in Pay!Ids : w.rows[l] \in Pay!RecoveryRows
  BY DEF Pay!Works
<1>7. w.closes \subseteq Pay!Ids
  BY DEF Pay!Works
<1>8. ASSUME NEW l \in Pay!Ids
      PROVE  /\ payRecoveries'[l] \in [Pay!Periods -> Pay!RecoveryRows]
             /\ \A q \in Pay!Periods : payRecoveries'[l][q] =
                  IF q = p /\ w.rows[l] # Pay!NoRecovery THEN w.rows[l] ELSE payRecoveries[l][q]
  <2>1. /\ payRecoveries'[l] = IF w.rows[l] = Pay!NoRecovery THEN payRecoveries[l]
                              ELSE [payRecoveries[l] EXCEPT ![p] = w.rows[l]]
        /\ payRecoveries[l] \in [Pay!Periods -> Pay!RecoveryRows]
        /\ w.rows[l] \in Pay!RecoveryRows
    BY <1>4, <1>5, <1>6
  <2> QED
    BY <2>1
<1>9. payRecoveries' \in [Pay!Ids -> [Pay!Periods -> Pay!RecoveryRows]]
  BY <1>4, <1>8
<1>10. ASSUME NEW k \in Pay!Ids
       PROVE  /\ \A q \in Pay!Periods :
                   payRecoveries'[k][q] # Pay!NoRecovery => payRecoveries'[k][q].amount \in Nat
              /\ Pay!Recovered(k)' <= Loans[k].principal
              /\ k \in paySettled' <=> Pay!Recovered(k)' = Loans[k].principal
  <2>1. CASE w.rows[k] = Pay!NoRecovery /\ k \notin w.closes
    <3>1. \A q \in Pay!Periods : payRecoveries'[k][q] = payRecoveries[k][q]
      BY <1>8, <2>1
    <3>2. k \in paySettled' <=> k \in paySettled
      BY <1>4, <2>1
    <3> QED
      BY <1>9, <3>1, <3>2, LoanStep
  <2>2. CASE /\ k \notin paySettled /\ w.rows[k] # Pay!NoRecovery
             /\ w.rows[k].amount \in Nat /\ w.rows[k].amount <= Pay!Outstanding(k)
             /\ k \in w.closes <=> w.rows[k].amount = Pay!Outstanding(k)
    <3>1. PICK new : new = w.rows[k]
      OBVIOUS
    <3>2. /\ payRecoveries'[k][p] = new
          /\ \A q \in Pay!Periods : q # p => payRecoveries'[k][q] = payRecoveries[k][q]
      BY <1>8, <2>2, <3>1
    <3>3. /\ payRecoveries[k][p] = Pay!NoRecovery /\ new # Pay!NoRecovery
          /\ new.amount \in Nat /\ new.amount <= Pay!Outstanding(k) /\ k \notin paySettled
          /\ k \in paySettled' <=> new.amount = Pay!Outstanding(k)
      BY <1>4, <2>2, <3>1
    <3> QED
      BY <1>9, <3>2, <3>3, LoanStep
  <2> QED
    BY <1>3, <2>1, <2>2 DEF Writes
<1>11. paySettled' \subseteq Pay!Ids
  BY <1>4, <1>5, <1>7
<1> QED
  BY <1>9, <1>10, <1>11 DEF LoanInv

(* -------------------------------- the requests ----------------------------- *)

LEMMA WorkStays ==
  ASSUME WorkInv, UNCHANGED <<payRecoveries, paySettled, payPending>>
  PROVE  WorkInv'
<1>1. \A l : Pay!Outstanding(l)' = Pay!Outstanding(l)
  BY RecoveredIs DEF Pay!Outstanding
<1>2. \A s \in Handlers : WorkFits(s)'
  BY <1>1 DEF WorkInv, WorkFits, Writes
<1> QED
  BY <1>2 DEF WorkInv

LEMMA NoWorkIs ==
  /\ Pay!NoWork \in Pay!Works /\ Pay!NoWork.period = 0 /\ Pay!NoWork.run = Pay!Idle
  /\ Pay!NoWork.rows = [l \in Pay!Ids |-> Pay!NoRecovery] /\ Pay!NoWork.closes = {}
  /\ Pay!NoWork.line = Pay!NoRun
<1>1. Pay!Idle \in (0..LastPeriod) \X (0..LastRevision) /\ 0 \in 0..LastPeriod
      /\ 0 \in 0..LastRevision /\ 0 \in Nat /\ 0 \in Int
  BY PayConstants DEF Pay!Idle
<1>2. Pay!NoRun \in Pay!RunRows
  BY <1>1 DEF Pay!NoRun, Pay!RunRows
<1>3. Pay!NoRecovery \in Pay!RecoveryRows
  BY DEF Pay!NoRecovery, Pay!RecoveryRows
<1>4. [l \in Pay!Ids |-> Pay!NoRecovery] \in [Pay!Ids -> Pay!RecoveryRows]
  BY <1>3
<1> QED
  BY <1>1, <1>2, <1>4 DEF Pay!NoWork, Pay!Works

LEMMA WorkEnds ==
  ASSUME WorkInv, NEW s \in Handlers, payPending[s] # Pay!NoWork,
         payPending' = [payPending EXCEPT ![s] = Pay!NoWork]
  PROVE  WorkInv'
<1>1. \A t \in Handlers : payPending'[t] = Pay!NoWork
  BY DEF WorkInv, WorkFits
<1>2. payPending' \in [Handlers -> Pay!Works]
  BY NoWorkIs DEF WorkInv
<1> QED
  BY <1>1, <1>2 DEF WorkInv, WorkFits

LEMMA WorkBegins ==
  ASSUME WorkInv, NEW s \in Handlers, NEW w \in Pay!Works, Pay!MayWork(s),
         payPending' = [payPending EXCEPT ![s] = w],
         UNCHANGED <<payRecoveries, paySettled>>,
         w.period \in Pay!Periods, \A l \in Pay!Ids : Writes(w, l),
         w.run # Pay!Idle =>
           /\ w.run[1] \in Pay!Periods /\ w.run[2] \in Pay!Revisions
           /\ w.line.state = "computed" /\ w.line.superseded = 0
  PROVE  WorkInv'
<1>1. \A t \in Handlers : payPending[t] = Pay!NoWork
  BY DEF Pay!MayWork
<1>2. /\ payPending' \in [Handlers -> Pay!Works] /\ payPending'[s] = w
      /\ \A t \in Handlers : t # s => payPending'[t] = Pay!NoWork
  BY <1>1 DEF WorkInv
<1>3. \A l : Pay!Outstanding(l)' = Pay!Outstanding(l)
  BY RecoveredIs DEF Pay!Outstanding
<1>4. \A l \in Pay!Ids : Writes(w, l)'
  BY <1>3 DEF Writes
<1>5. \A l \in Pay!Ids : Writes(payPending[s], l)'
  BY <1>2, <1>4 DEF Writes
<1>6. WorkFits(s)'
  BY <1>2, <1>5 DEF WorkFits
<1>7. \A t \in Handlers : t # s => WorkFits(t)'
  BY <1>2 DEF WorkFits
<1> QED
  BY <1>2, <1>6, <1>7 DEF WorkInv

(* --------------------------------- the runs -------------------------------- *)

(* A step that changes the state of a run but not which revisions there are.   *)
LEMMA RunsStay ==
  ASSUME RunsInv, payTx' = payTx,
         payRuns' \in [Pay!Periods -> [Pay!Revisions -> Pay!RunRows]],
         \A p \in Pay!Periods, v \in Pay!Revisions :
           /\ payRuns'[p][v].state = Pay!None <=> payRuns[p][v].state = Pay!None
           /\ payRuns'[p][v].superseded = payRuns[p][v].superseded
           /\ payRuns[p][v].state \in {"computed", "approved"} =>
                payRuns'[p][v].state \in {"computed", "approved"}
           /\ payRuns'[p][v].state = "draft" => payRuns[p][v].state = "draft"
  PROVE  RunsInv'
<1>1. \A p \in Pay!Periods : Pay!Existing(p)' = Pay!Existing(p)
  BY DEF Pay!Existing
<1>2. \A p \in Pay!Periods : Pay!Existing(p) \subseteq Pay!Revisions
  BY DEF Pay!Existing
<1>3. ASSUME NEW p \in Pay!Periods PROVE Chained(p)'
  <2>1. Chained(p) /\ Pay!Existing(p)' = Pay!Existing(p)
    BY <1>1 DEF RunsInv
  <2> QED
    BY <1>2, <2>1 DEF Chained
<1>4. ASSUME NEW s \in Handlers PROVE Follows(payTx[s])'
  <2>1. Follows(payTx[s])
    BY DEF RunsInv
  <2> QED
    BY <2>1 DEF Follows
<1> QED
  BY <1>3, <1>4 DEF RunsInv

LEMMA RunsBegin ==
  ASSUME RunsInv, NEW s \in Handlers, NEW p \in Pay!Periods, NEW v \in Pay!Revisions,
         payTx' = [payTx EXCEPT ![s] = <<p, v>>], payRuns' = payRuns, DOMAIN payTx = Handlers,
         v # 1 => v - 1 \in Pay!Revisions /\ payRuns[p][v - 1].state \in {"computed", "approved"}
  PROVE  RunsInv'
<1>1. \A t \in Handlers : payTx'[t] = IF t = s THEN <<p, v>> ELSE payTx[t]
  OBVIOUS
<1>2. <<p, v>> \in (0..LastPeriod) \X (0..LastRevision)
  BY PayConstants
<1>3. ASSUME NEW t \in Handlers PROVE Follows(payTx[t])'
  <2>1. CASE t = s
    BY <1>1, <2>1 DEF Follows
  <2>2. CASE t # s
    <3>1. Follows(payTx[t]) /\ payTx'[t] = payTx[t]
      BY <1>1, <2>2 DEF RunsInv
    <3> QED
      BY <3>1 DEF Follows
  <2> QED
    BY <2>1, <2>2
<1>4. \A q \in Pay!Periods : Chained(q)'
  BY DEF RunsInv, Chained, Pay!Existing
<1> QED
  BY <1>1, <1>2, <1>3, <1>4 DEF RunsInv

LEMMA RunsAbort ==
  ASSUME RunsInv, NEW s \in Handlers, payTx' = [payTx EXCEPT ![s] = Pay!Idle],
         payRuns' = payRuns, DOMAIN payTx = Handlers
  PROVE  RunsInv'
<1>1. \A t \in Handlers : payTx'[t] = IF t = s THEN Pay!Idle ELSE payTx[t]
  OBVIOUS
<1>2. Pay!Idle \in (0..LastPeriod) \X (0..LastRevision)
  BY PayConstants DEF Pay!Idle
<1>3. ASSUME NEW t \in Handlers PROVE Follows(payTx[t])'
  <2>1. CASE t = s
    BY <1>1, <2>1 DEF Follows
  <2>2. CASE t # s
    <3>1. Follows(payTx[t]) /\ payTx'[t] = payTx[t]
      BY <1>1, <2>2 DEF RunsInv
    <3> QED
      BY <3>1 DEF Follows
  <2> QED
    BY <2>1, <2>2
<1>4. \A q \in Pay!Periods : Chained(q)'
  BY DEF RunsInv, Chained, Pay!Existing
<1> QED
  BY <1>1, <1>2, <1>3, <1>4 DEF RunsInv

(* A revision is inserted after the last one, which it supersedes.             *)
LEMMA RunsCommit ==
  ASSUME RunsInv, NEW s \in Handlers, Pay!CommitRevision(s), DOMAIN payTx = Handlers
  PROVE  RunsInv'
<1>1. PICK p \in Pay!Periods, v \in Pay!Revisions :
        /\ payTx[s] = <<p, v>> /\ payTx[s] # Pay!Idle
        /\ v # 1 => v - 1 \in Pay!Revisions /\ payRuns[p][v - 1].state \in {"computed", "approved"}
  <2>1. /\ payTx[s] # Pay!Idle /\ Follows(payTx[s])
        /\ payTx[s] \in (0..LastPeriod) \X (0..LastRevision)
    BY DEF RunsInv, Pay!CommitRevision
  <2>2. payTx[s] = <<payTx[s][1], payTx[s][2]>>
    BY <2>1
  <2> QED
    BY <2>1, <2>2 DEF Follows
<1>2. v \in 1..LastRevision /\ LastRevision \in Nat
  BY PayConstants
<1>3. /\ payRuns[p][v].state = Pay!None
      /\ payRuns' = [payRuns EXCEPT ![p] =
           [u \in Pay!Revisions |-> CASE u = v -> [Pay!NoRun EXCEPT !.state = "draft"]
                                      [] u = v - 1 -> [payRuns[p][u] EXCEPT !.superseded = v]
                                      [] OTHER -> payRuns[p][u]]]
      /\ payTx' = [payTx EXCEPT ![s] = Pay!Idle]
  BY <1>1 DEF Pay!CommitRevision, Pay!Free
<1>4. payRuns \in [Pay!Periods -> [Pay!Revisions -> Pay!RunRows]]
  BY DEF RunsInv
<1> DEFINE fresh == [Pay!NoRun EXCEPT !.state = "draft"]
           over(u) == [payRuns[p][u] EXCEPT !.superseded = v]
<1>5. /\ fresh \in Pay!RunRows /\ fresh.state = "draft" /\ fresh.superseded = 0
  <2>1. 0 \in 0..LastRevision /\ 0 \in Nat /\ 0 \in Int
    BY <1>2
  <2>2. Pay!NoRun \in Pay!RunRows
    BY <2>1 DEF Pay!NoRun, Pay!RunRows, Pay!None
  <2> QED
    BY <2>2 DEF Pay!NoRun, Pay!RunRows, Pay!None
<1>6. \A u \in Pay!Revisions : /\ over(u) \in Pay!RunRows /\ over(u).superseded = v
                               /\ over(u).state = payRuns[p][u].state
  <2> TAKE u \in Pay!Revisions
  <2>1. payRuns[p][u] \in Pay!RunRows
    BY <1>4
  <2>2. v \in 0..LastRevision
    BY <1>2
  <2> QED
    BY <2>1, <2>2 DEF Pay!RunRows
<1>7. \A u \in Pay!Revisions : u = v => u # v - 1
  BY <1>2
<1> DEFINE row(u) == IF u = v THEN fresh ELSE IF u = v - 1 THEN over(u) ELSE payRuns[p][u]
<1>8. payRuns' = [payRuns EXCEPT ![p] = [u \in Pay!Revisions |-> row(u)]]
  <2>1. [u \in Pay!Revisions |-> row(u)]
          = [u \in Pay!Revisions |-> CASE u = v -> [Pay!NoRun EXCEPT !.state = "draft"]
                                       [] u = v - 1 -> [payRuns[p][u] EXCEPT !.superseded = v]
                                       [] OTHER -> payRuns[p][u]]
    BY <1>7
  <2> QED
    BY <1>3, <2>1
<1> HIDE DEF fresh, over
<1>9. \A u \in Pay!Revisions : row(u) \in Pay!RunRows
  BY <1>4, <1>5, <1>6
<1>10. payRuns' \in [Pay!Periods -> [Pay!Revisions -> Pay!RunRows]]
  <2> DEFINE new == [u \in Pay!Revisions |-> row(u)]
  <2>1. new \in [Pay!Revisions -> Pay!RunRows] /\ payRuns' = [payRuns EXCEPT ![p] = new]
    BY <1>8, <1>9
  <2> HIDE DEF new
  <2> QED
    BY <1>4, <2>1
<1>11. \A q \in Pay!Periods, u \in Pay!Revisions :
         payRuns'[q][u] = IF q = p THEN row(u) ELSE payRuns[q][u]
  BY <1>4, <1>8
<1> HIDE DEF row
<1>12. Pay!None \notin {"draft", "computed", "approved"}
  BY DEF Pay!None
<1>13. \A u \in Pay!Revisions :
         /\ row(u).state = IF u = v THEN "draft" ELSE payRuns[p][u].state
         /\ row(u).superseded = IF u = v THEN 0 ELSE IF u = v - 1 THEN v
                                ELSE payRuns[p][u].superseded
  BY <1>5, <1>6 DEF row
<1>14. Pay!Existing(p)' = Pay!Existing(p) \cup {v} /\ v \notin Pay!Existing(p)
       /\ \A q \in Pay!Periods : q # p => Pay!Existing(q)' = Pay!Existing(q)
  <2>1. \A q \in Pay!Periods : q # p => Pay!Existing(q)' = Pay!Existing(q)
    BY <1>11 DEF Pay!Existing
  <2>2. \A u \in Pay!Revisions : payRuns'[p][u].state # Pay!None
          <=> u = v \/ payRuns[p][u].state # Pay!None
    BY <1>11, <1>12, <1>13
  <2>3. Pay!Existing(p)' = Pay!Existing(p) \cup {v} /\ v \notin Pay!Existing(p)
    BY <1>3, <2>2 DEF Pay!Existing
  <2> QED
    BY <2>1, <2>3
<1>15. \A q \in Pay!Periods : Pay!Existing(q) \subseteq Pay!Revisions
  BY DEF Pay!Existing
<1>16. v # 1 => v - 1 \in Pay!Existing(p)
  BY <1>1, <1>12 DEF Pay!Existing
<1>17. Chained(p)
  BY DEF RunsInv
<1>18. \A w \in Pay!Existing(p) : w < v
  <2> TAKE w \in Pay!Existing(p)
  <2>1. w \in 1..LastRevision /\ \A u \in 1..w : u \in Pay!Existing(p)
    BY <1>15, <1>17, PayConstants DEF Chained
  <2> QED
    BY <1>2, <1>14, <2>1
<1>19. ASSUME NEW w \in Pay!Existing(p)'
       PROVE  /\ \A u \in 1..w : u \in Pay!Existing(p)'
              /\ payRuns'[p][w].superseded = IF w + 1 \in Pay!Existing(p)' THEN w + 1 ELSE 0
              /\ w + 1 \in Pay!Existing(p)' => payRuns'[p][w].state # "draft"
  <2>1. CASE w = v
    <3>1. \A u \in 1..v : u \in Pay!Existing(p)'
      <4>1. CASE v = 1
        BY <1>14, <4>1
      <4>2. CASE v # 1
        <5>1. \A u \in 1..(v - 1) : u \in Pay!Existing(p)
          BY <1>16, <1>17, <4>2 DEF Chained
        <5> QED
          BY <1>2, <1>14, <5>1
      <4> QED
        BY <4>1, <4>2
    <3>2. v + 1 \notin Pay!Existing(p)'
      BY <1>2, <1>14, <1>18
    <3>3. payRuns'[p][v].superseded = 0
      BY <1>11, <1>13
    <3> QED
      BY <2>1, <3>1, <3>2, <3>3
  <2>2. CASE w # v
    <3>1. w \in Pay!Existing(p) /\ w < v /\ w \in Pay!Revisions /\ w \in Nat
      BY <1>14, <1>15, <1>18, <2>2, PayConstants
    <3>2. \A u \in 1..w : u \in Pay!Existing(p)'
      BY <1>14, <1>17, <3>1 DEF Chained
    <3>3. /\ payRuns'[p][w].state = payRuns[p][w].state
          /\ payRuns'[p][w].superseded = IF w = v - 1 THEN v ELSE payRuns[p][w].superseded
      BY <1>11, <1>13, <2>2, <3>1
    <3>4. CASE w = v - 1
      <4>0. w + 1 = v /\ v # 1
        BY <1>2, <1>15, <3>1, <3>4, PayConstants
      <4>1. w + 1 = v /\ w + 1 \in Pay!Existing(p)' /\ v # 1
        BY <1>14, <4>0
      <4>2. payRuns[p][w].state # "draft"
        BY <1>1, <3>4, <4>1
      <4> QED
        BY <3>2, <3>3, <3>4, <4>1, <4>2
    <3>5. CASE w # v - 1
      <4>1. w + 1 # v
        BY <1>2, <3>1, <3>5
      <4>2. w + 1 \in Pay!Existing(p)' <=> w + 1 \in Pay!Existing(p)
        BY <1>14, <4>1
      <4> QED
        BY <1>17, <3>1, <3>2, <3>3, <3>5, <4>2 DEF Chained
    <3> QED
      BY <3>4, <3>5
  <2> QED
    BY <2>1, <2>2
<1>20. ASSUME NEW q \in Pay!Periods PROVE Chained(q)'
  <2>1. CASE q = p
    BY <1>19, <2>1 DEF Chained
  <2>2. CASE q # p
    <3>1. /\ Pay!Existing(q)' = Pay!Existing(q) /\ Pay!Existing(q) \subseteq Pay!Revisions
          /\ \A u \in Pay!Revisions : payRuns'[q][u] = payRuns[q][u]
      BY <1>11, <1>14, <1>15, <2>2
    <3>2. Chained(q)
      BY DEF RunsInv
    <3> QED
      BY <3>1, <3>2 DEF Chained
  <2> QED
    BY <2>1, <2>2
<1>21. \A t \in Handlers : payTx'[t] = IF t = s THEN Pay!Idle ELSE payTx[t]
  BY <1>3
<1>22. Pay!Idle \in (0..LastPeriod) \X (0..LastRevision)
  BY PayConstants DEF Pay!Idle
<1>23. ASSUME NEW t \in Handlers PROVE Follows(payTx[t])'
  <2>1. CASE t = s
    BY <1>21, <2>1 DEF Follows
  <2>2. CASE t # s
    <3>1. Follows(payTx[t]) /\ payTx'[t] = payTx[t]
      BY <1>21, <2>2 DEF RunsInv
    <3>2. \A q \in Pay!Periods, u \in Pay!Revisions :
            payRuns[q][u].state \in {"computed", "approved"} =>
              payRuns'[q][u].state \in {"computed", "approved"}
      BY <1>3, <1>11, <1>12, <1>13
    <3> QED
      BY <3>1, <3>2 DEF Follows
  <2> QED
    BY <2>1, <2>2
<1> QED
  BY <1>10, <1>20, <1>21, <1>22, <1>23 DEF RunsInv

LEMMA PayStarts == Pay!Init => PayInv
<1> SUFFICES ASSUME Pay!Init PROVE PayInv
  OBVIOUS
<1>1. /\ payFacts \in [Pay!Periods -> Facts] /\ payChanges = 0
      /\ payRuns = [p \in Pay!Periods |-> [v \in Pay!Revisions |-> Pay!NoRun]]
      /\ payRecoveries = [l \in Pay!Ids |-> [p \in Pay!Periods |-> Pay!NoRecovery]]
      /\ paySettled = {} /\ payLocked = {}
      /\ payEntries = [p \in Pay!Periods |-> [v \in Pay!Revisions |-> 0]]
      /\ payTx = [s \in Handlers |-> Pay!Idle]
      /\ payPending = [s \in Handlers |-> Pay!NoWork]
  BY DEF Pay!Init
<1>2. Pay!NoRun \in Pay!RunRows /\ Pay!NoRun.state = Pay!None
  <2>1. 0 \in 0..LastRevision /\ 0 \in Nat /\ 0 \in Int
    BY PayConstants
  <2> QED
    BY <2>1 DEF Pay!NoRun, Pay!RunRows
<1>3. payRuns \in [Pay!Periods -> [Pay!Revisions -> Pay!RunRows]]
  BY <1>1, <1>2
<1>4. \A p \in Pay!Periods : Pay!Existing(p) = {}
  BY <1>1, <1>2 DEF Pay!Existing
<1>5. Pay!Idle \in (0..LastPeriod) \X (0..LastRevision)
  BY PayConstants DEF Pay!Idle
<1>6. RunsInv
  BY <1>1, <1>3, <1>4, <1>5 DEF RunsInv, Chained, Follows
<1>7. \A l \in Pay!Ids : Pay!Recovered(l) = 0
  <2> TAKE l \in Pay!Ids
  <2>1. RowsOf(payRecoveries, l) = {}
    BY <1>1 DEF RowsOf
  <2> QED
    BY <2>1, RecoveredIs, RecoveredIsSum, SumOfNone
<1>8. Pay!NoRecovery \in Pay!RecoveryRows
  BY DEF Pay!NoRecovery, Pay!RecoveryRows
<1>9. LoanInv
  BY <1>1, <1>7, <1>8, PayConstants DEF LoanInv
<1>10. RestInv
  BY <1>1 DEF RestInv
<1>11. WorkInv
  BY <1>1, NoWorkIs DEF WorkInv, WorkFits
<1> QED
  BY <1>6, <1>9, <1>10, <1>11 DEF PayInv

(* One row of a run is rewritten.                                              *)
LEMMA RunRewritten ==
  ASSUME RunsInv, NEW p \in Pay!Periods, NEW v \in Pay!Revisions, NEW row \in Pay!RunRows,
         payRuns' = [payRuns EXCEPT ![p][v] = row], payTx' = payTx,
         row.state \in {"computed", "approved"}, payRuns[p][v].state # Pay!None,
         row.superseded = payRuns[p][v].superseded
  PROVE  RunsInv'
<1>1. payRuns \in [Pay!Periods -> [Pay!Revisions -> Pay!RunRows]]
  BY DEF RunsInv
<1>2. \A q \in Pay!Periods, u \in Pay!Revisions :
        payRuns'[q][u] = IF q = p /\ u = v THEN row ELSE payRuns[q][u]
  BY <1>1
<1>3. payRuns' \in [Pay!Periods -> [Pay!Revisions -> Pay!RunRows]]
  BY <1>1
<1>4. \A q \in Pay!Periods, u \in Pay!Revisions :
        /\ payRuns'[q][u].state = Pay!None <=> payRuns[q][u].state = Pay!None
        /\ payRuns'[q][u].superseded = payRuns[q][u].superseded
        /\ payRuns[q][u].state \in {"computed", "approved"} =>
             payRuns'[q][u].state \in {"computed", "approved"}
        /\ payRuns'[q][u].state = "draft" => payRuns[q][u].state = "draft"
  BY <1>2 DEF Pay!None
<1> QED
  BY <1>3, <1>4, RunsStay

(* What a session asks for when it computes a run.                             *)
LEMMA ComputedIs ==
  ASSUME RunsInv, LoanInv, NEW p \in Pay!Periods, NEW v \in Pay!Revisions,
         payRuns[p][v].state = "draft"
  PROVE  \E w \in Pay!Works :
           /\ w = Pay!Computed(p, v) /\ w.period = p /\ w.run = <<p, v>>
           /\ w.line.state = "computed" /\ w.line.superseded = 0
           /\ \A l \in Pay!Ids : Writes(w, l)
<1> DEFINE gross == IF Pay!Pays(payFacts[p]) THEN Salary ELSE 0
           deduction == (gross * Withheld) \div 100
           available == gross - deduction
           loan == Pay!Taken(p, available)[Pay!Cardinality(Pay!Ids)]
           kind == Pay!Kind(payFacts[p])
           incomplete == Pay!Incomplete(payFacts[p])
           line == [payRuns[p][v] EXCEPT !.state = "computed", !.kind = kind, !.gross = gross,
                                         !.loan = loan, !.net = available - loan,
                                         !.incomplete = incomplete]
           rows == [l \in Pay!Ids |-> Pay!RecoveryOf(l, p, available)]
           closes == {l \in Pay!Ids : /\ rows[l] # Pay!NoRecovery
                                      /\ rows[l].amount >= Pay!Outstanding(l)}
           w == [run |-> <<p, v>>, period |-> p, line |-> line, rows |-> rows,
                 closes |-> closes]
<1>1. Pay!Computed(p, v) = w
  BY DEF Pay!Computed
<1>2. gross \in Nat /\ available \in Int
  <2>1. gross \in Nat
    BY PayConstants
  <2> HIDE DEF gross
  <2>2. gross * Withheld \in Int
    BY <2>1, PayConstants
  <2> QED
    BY <2>1, <2>2
<1> HIDE DEF gross, deduction, available
<1>3. loan \in Nat
  <2>1. Pay!Cardinality(Pay!Ids) \in 0..Pay!Cardinality(Pay!Ids)
    BY PayConstants
  <2> QED
    BY <1>2, <2>1, TakenIs
<1>4. kind \in {"worked", "absent", "paid_leave", "unpaid_leave", "holiday", "not_worked"}
  BY DEF Pay!Kind, Pay!None
<1>5. incomplete \in BOOLEAN
  BY DEF Pay!Incomplete
<1> HIDE DEF loan, kind, incomplete
<1>6. payRuns[p][v] \in Pay!RunRows
  BY DEF RunsInv
<1>7. available - loan \in Int
  BY <1>2, <1>3
<1>8. /\ line \in Pay!RunRows /\ line.state = "computed"
      /\ line.superseded = payRuns[p][v].superseded
  BY <1>2, <1>3, <1>4, <1>5, <1>6, <1>7 DEF Pay!RunRows
<1>9. payRuns[p][v].superseded = 0
  <2>1. v \in Pay!Existing(p)
    BY DEF Pay!Existing, Pay!None
  <2> QED
    BY <2>1 DEF RunsInv, Chained
<1> HIDE DEF line
<1>10. \A l \in Pay!Ids : rows[l] \in Pay!RecoveryRows
  BY <1>2, RecoveryIs
<1>11. ASSUME NEW l \in Pay!Ids
       PROVE  \/ rows[l] = Pay!NoRecovery /\ l \notin closes
              \/ /\ l \notin paySettled /\ rows[l] # Pay!NoRecovery
                 /\ rows[l].amount \in Nat /\ rows[l].amount <= Pay!Outstanding(l)
                 /\ l \in closes <=> rows[l].amount = Pay!Outstanding(l)
  <2>1. PICK new : new = rows[l] /\ new = Pay!RecoveryOf(l, p, available)
    OBVIOUS
  <2>2. CASE l \in Pay!Open /\ payRecoveries[l][p] = Pay!NoRecovery
    <3>1. /\ new.amount \in Nat /\ new # Pay!NoRecovery
          /\ new.amount <= Pay!Outstanding(l)
      BY <1>2, <2>1, <2>2, RecoveryIs
    <3>2. Pay!Outstanding(l) \in Nat
      BY OutstandingIs
    <3>3. l \notin paySettled
      BY <2>2 DEF Pay!Open
    <3>4. l \in closes <=> new.amount >= Pay!Outstanding(l)
      BY <2>1, <3>1
    <3>5. l \in closes <=> new.amount = Pay!Outstanding(l)
      BY <3>1, <3>2, <3>4
    <3> QED
      BY <2>1, <3>1, <3>3, <3>5
  <2>3. CASE ~(l \in Pay!Open /\ payRecoveries[l][p] = Pay!NoRecovery)
    <3>1. new = Pay!NoRecovery
      BY <1>2, <2>1, <2>3, RecoveryIs
    <3>2. l \notin closes
      BY <2>1, <3>1
    <3> QED
      BY <2>1, <3>1, <3>2
  <2> QED
    BY <2>2, <2>3
<1>12. rows \in [Pay!Ids -> Pay!RecoveryRows] /\ closes \in SUBSET Pay!Ids
  BY <1>10
<1> HIDE DEF rows, closes
<1>13. <<p, v>> \in (0..LastPeriod) \X (0..LastRevision) /\ p \in 0..LastPeriod
  BY PayConstants
<1>14. w \in Pay!Works
  BY <1>8, <1>12, <1>13 DEF Pay!Works
<1>15. \A l \in Pay!Ids : Writes(w, l)
  BY <1>11 DEF Writes
<1> QED
  BY <1>1, <1>8, <1>9, <1>14, <1>15

LEMMA PayBeginsCompute ==
  ASSUME PayInv, NEW s \in Handlers, NEW p \in Pay!Periods, NEW v \in Pay!Revisions,
         Pay!BeginCompute(s, p, v)
  PROVE  PayInv'
<1>1. /\ Pay!MayWork(s) /\ payRuns[p][v].state = "draft"
      /\ payPending' = [payPending EXCEPT ![s] = Pay!Computed(p, v)]
      /\ UNCHANGED <<payFacts, payChanges, payRuns, payRecoveries, paySettled, payLocked,
                     payEntries, payTx>>
  BY DEF Pay!BeginCompute, Pay!books
<1>2. PICK w \in Pay!Works :
        /\ w = Pay!Computed(p, v) /\ w.period = p /\ w.run = <<p, v>>
        /\ w.line.state = "computed" /\ w.line.superseded = 0
        /\ \A l \in Pay!Ids : Writes(w, l)
  BY <1>1, ComputedIs DEF PayInv
<1>3. w.run[1] = p /\ w.run[2] = v
  BY <1>2
<1>4. WorkInv'
  BY <1>1, <1>2, <1>3, WorkBegins DEF PayInv
<1>5. LoanInv'
  BY <1>1, LoansStay DEF PayInv
<1>6. RunsInv' /\ RestInv'
  BY <1>1, RunsStay DEF PayInv, RunsInv, RestInv
<1> QED
  BY <1>4, <1>5, <1>6 DEF PayInv

LEMMA PayBeginsSettle ==
  ASSUME PayInv, NEW s \in Handlers, NEW l \in Pay!Ids, NEW p \in Pay!Periods,
         Pay!BeginSettle(s, l, p)
  PROVE  PayInv'
<1> DEFINE row == [amount |-> Pay!Outstanding(l), deferred |-> 0]
           rows == [[k \in Pay!Ids |-> Pay!NoRecovery] EXCEPT ![l] = row]
           w == [run |-> Pay!Idle, period |-> p, line |-> Pay!NoRun, rows |-> rows,
                 closes |-> {l}]
<1>1. /\ Pay!MayWork(s) /\ l \notin paySettled /\ Pay!Outstanding(l) > 0
      /\ payPending' = [payPending EXCEPT ![s] =
           [run |-> Pay!Idle, period |-> p, line |-> Pay!NoRun,
            rows |-> [Pay!NoWork.rows EXCEPT ![l] = row], closes |-> {l}]]
      /\ UNCHANGED <<payFacts, payChanges, payRuns, payRecoveries, paySettled, payLocked,
                     payEntries, payTx>>
  BY DEF Pay!BeginSettle, Pay!books
<1>2. [Pay!NoWork.rows EXCEPT ![l] = row] = rows
  BY NoWorkIs
<1>3. Pay!Outstanding(l) \in Nat
  BY OutstandingIs DEF PayInv
<1>4. row \in Pay!RecoveryRows /\ row # Pay!NoRecovery /\ row.amount = Pay!Outstanding(l)
  BY <1>3 DEF Pay!RecoveryRows, Pay!NoRecovery
<1> HIDE DEF row
<1>5. /\ rows \in [Pay!Ids -> Pay!RecoveryRows]
      /\ \A k \in Pay!Ids : rows[k] = IF k = l THEN row ELSE Pay!NoRecovery
  BY <1>4 DEF Pay!RecoveryRows, Pay!NoRecovery
<1> HIDE DEF rows
<1>6. /\ Pay!Idle \in (0..LastPeriod) \X (0..LastRevision) /\ p \in 0..LastPeriod
      /\ Pay!NoRun \in Pay!RunRows
  BY PayConstants, NoWorkIs DEF Pay!Works
<1>7. w \in Pay!Works /\ w.period = p /\ w.run = Pay!Idle /\ w.rows = rows /\ w.closes = {l}
  BY <1>5, <1>6 DEF Pay!Works
<1> HIDE DEF w
<1>8. \A k \in Pay!Ids : Writes(w, k)
  BY <1>1, <1>3, <1>4, <1>5, <1>7 DEF Writes
<1>9. payPending' = [payPending EXCEPT ![s] = w]
  BY <1>1, <1>2 DEF w
<1>10. WorkInv'
  BY <1>1, <1>7, <1>8, <1>9, WorkBegins DEF PayInv
<1>11. LoanInv'
  BY <1>1, LoansStay DEF PayInv
<1>12. RunsInv' /\ RestInv'
  BY <1>1, RunsStay DEF PayInv, RunsInv, RestInv
<1> QED
  BY <1>10, <1>11, <1>12 DEF PayInv

LEMMA PayRecovers ==
  ASSUME PayInv, NEW s \in Handlers, payPending[s] # Pay!NoWork, Pay!Recover(s), RunsInv'
  PROVE  PayInv'
<1>1. /\ payPending' = [payPending EXCEPT ![s] = Pay!NoWork]
      /\ UNCHANGED <<payFacts, payChanges, payLocked, payEntries, payTx>>
  BY DEF Pay!Recover
<1>2. LoanInv'
  BY LoansRecover DEF PayInv
<1>3. WorkInv'
  BY <1>1, WorkEnds DEF PayInv
<1>4. RestInv'
  BY <1>1 DEF PayInv, RestInv
<1> QED
  BY <1>2, <1>3, <1>4 DEF PayInv

LEMMA PayCommits ==
  ASSUME PayInv, NEW s \in Handlers, Pay!CommitCompute(s) \/ Pay!CommitSettle(s)
  PROVE  PayInv'
<1>0. RunsInv /\ WorkInv
  BY DEF PayInv
<1>1. CASE Pay!CommitCompute(s)
  <2>1. PICK w \in Pay!Works : w = payPending[s]
    BY <1>0 DEF WorkInv
  <2>2. /\ w.run # Pay!Idle /\ payRuns[w.run[1]][w.run[2]].state = "draft"
        /\ payRuns' = [payRuns EXCEPT ![w.run[1]][w.run[2]] = w.line] /\ Pay!Recover(s)
    BY <1>1, <2>1 DEF Pay!CommitCompute
  <2>3. w # Pay!NoWork
    BY <2>2, NoWorkIs
  <2>4. /\ w.run[1] \in Pay!Periods /\ w.run[2] \in Pay!Revisions
        /\ w.line.state = "computed" /\ w.line.superseded = 0
    BY <1>0, <2>1, <2>2, <2>3 DEF WorkInv, WorkFits
  <2>5. PICK p \in Pay!Periods : p = w.run[1]
    BY <2>4
  <2>6. PICK v \in Pay!Revisions : v = w.run[2]
    BY <2>4
  <2>7. PICK row \in Pay!RunRows : row = w.line
    BY DEF Pay!Works
  <2>8. payRuns[p][v].superseded = 0 /\ payRuns[p][v].state # Pay!None
    <3>1. v \in Pay!Existing(p)
      BY <2>2, <2>5, <2>6 DEF Pay!Existing, Pay!None
    <3> QED
      BY <1>0, <2>2, <2>5, <2>6, <3>1 DEF RunsInv, Chained, Pay!None
  <2>9. payTx' = payTx
    BY <2>2 DEF Pay!Recover
  <2>10. /\ payRuns' = [payRuns EXCEPT ![p][v] = row] /\ row.state \in {"computed", "approved"}
         /\ row.superseded = payRuns[p][v].superseded
    BY <2>2, <2>4, <2>5, <2>6, <2>7, <2>8
  <2>11. RunsInv'
    BY <1>0, <2>8, <2>9, <2>10, RunRewritten
  <2> QED
    BY <2>1, <2>2, <2>3, <2>11, PayRecovers
<1>2. CASE Pay!CommitSettle(s)
  <2>1. /\ payPending[s] # Pay!NoWork /\ Pay!Recover(s) /\ payRuns' = payRuns
        /\ payTx' = payTx
    BY <1>2 DEF Pay!CommitSettle, Pay!Recover
  <2>2. RunsInv'
    BY <1>0, <2>1, RunsStay DEF RunsInv
  <2> QED
    BY <2>1, <2>2, PayRecovers
<1> QED
  BY <1>1, <1>2

LEMMA PayAborts ==
  ASSUME PayInv, NEW s \in Handlers, Pay!AbortWork(s) PROVE PayInv'
<1>1. /\ payPending[s] # Pay!NoWork /\ payPending' = [payPending EXCEPT ![s] = Pay!NoWork]
      /\ UNCHANGED <<payFacts, payChanges, payRuns, payRecoveries, paySettled, payLocked,
                     payEntries, payTx>>
  BY DEF Pay!AbortWork, Pay!books
<1>2. WorkInv'
  BY <1>1, WorkEnds DEF PayInv
<1>3. LoanInv'
  BY <1>1, LoansStay DEF PayInv
<1>4. RunsInv' /\ RestInv'
  BY <1>1, RunsStay DEF PayInv, RunsInv, RestInv
<1> QED
  BY <1>2, <1>3, <1>4 DEF PayInv

LEMMA PayStep == PayInv /\ [Pay!Next]_(Pay!vars) => PayInv'
<1> SUFFICES ASSUME PayInv, [Pay!Next]_(Pay!vars) PROVE PayInv'
  OBVIOUS
<1>0. RunsInv /\ LoanInv /\ RestInv /\ WorkInv
  BY DEF PayInv
<1>1. ASSUME NEW s \in Handlers, NEW p \in Pay!Periods, Pay!BeginStart(s, p) PROVE PayInv'
  <2>1. /\ payTx' = [payTx EXCEPT ![s] = <<p, 1>>] /\ Pay!Current(p) = {}
        /\ UNCHANGED <<payFacts, payChanges, payRuns, payRecoveries, paySettled, payLocked,
                       payEntries, payPending>>
    BY <1>1 DEF Pay!BeginStart, Pay!books
  <2>2. RestInv'
    BY <1>0, <2>1 DEF RestInv
  <2>3. LoanInv' /\ WorkInv'
    BY <1>0, <2>1, LoansStay, WorkStays
  <2>4. 1 \in Pay!Revisions
    BY PayConstants
  <2>5. RunsInv'
    BY <1>0, <2>1, <2>4, RunsBegin DEF RestInv
  <2> QED
    BY <2>2, <2>3, <2>5 DEF PayInv
<1>2. ASSUME NEW s \in Handlers, NEW p \in Pay!Periods, NEW v \in Pay!Revisions,
             Pay!BeginCorrect(s, p, v)
      PROVE  PayInv'
  <2>1. /\ payTx' = [payTx EXCEPT ![s] = <<p, v + 1>>]
        /\ payRuns[p][v].state \in {"computed", "approved"} /\ v < LastRevision
        /\ UNCHANGED <<payFacts, payChanges, payRuns, payRecoveries, paySettled, payLocked,
                       payEntries, payPending>>
    BY <1>2 DEF Pay!BeginCorrect, Pay!books
  <2>2. RestInv'
    BY <1>0, <2>1 DEF RestInv
  <2>3. LoanInv' /\ WorkInv'
    BY <1>0, <2>1, LoansStay, WorkStays
  <2>4. PICK w \in Pay!Revisions : w = v + 1 /\ w - 1 = v
    BY <2>1, PayConstants
  <2>5. RunsInv'
    BY <1>0, <2>1, <2>4, RunsBegin DEF RestInv
  <2> QED
    BY <2>2, <2>3, <2>5 DEF PayInv
<1>3. ASSUME NEW s \in Handlers, Pay!CommitRevision(s) PROVE PayInv'
  <2>1. /\ UNCHANGED <<payFacts, payChanges, payRecoveries, paySettled, payLocked, payEntries, payPending>>
        /\ payTx' = [payTx EXCEPT ![s] = Pay!Idle]
    BY <1>3 DEF Pay!CommitRevision, Pay!books
  <2>2. RestInv'
    BY <1>0, <2>1 DEF RestInv
  <2>3. LoanInv' /\ WorkInv'
    BY <1>0, <2>1, LoansStay, WorkStays
  <2>4. RunsInv'
    BY <1>0, <1>3, RunsCommit DEF RestInv
  <2> QED
    BY <2>2, <2>3, <2>4 DEF PayInv
<1>4. ASSUME NEW s \in Handlers, Pay!AbortRevision(s) PROVE PayInv'
  <2>1. /\ UNCHANGED <<payFacts, payChanges, payRuns, payRecoveries, paySettled, payLocked,
                       payEntries, payPending>>
        /\ payTx' = [payTx EXCEPT ![s] = Pay!Idle]
    BY <1>4 DEF Pay!AbortRevision, Pay!books
  <2>2. RestInv'
    BY <1>0, <2>1 DEF RestInv
  <2>3. LoanInv' /\ WorkInv'
    BY <1>0, <2>1, LoansStay, WorkStays
  <2>4. RunsInv'
    BY <1>0, <2>1, RunsAbort DEF RestInv
  <2> QED
    BY <2>2, <2>3, <2>4 DEF PayInv
<1>5. ASSUME NEW p \in Pay!Periods, NEW v \in Pay!Revisions, Pay!Approve(p, v) PROVE PayInv'
  <2> DEFINE row == [payRuns[p][v] EXCEPT !.state = "approved"]
  <2>1. /\ payRuns[p][v].state = "computed"
        /\ payRuns' = [payRuns EXCEPT ![p][v] = row]
        /\ UNCHANGED <<payFacts, payChanges, payRecoveries, paySettled, payLocked, payEntries,
                       payTx, payPending>>
    BY <1>5 DEF Pay!Approve, Pay!books
  <2>2. payRuns[p][v] \in Pay!RunRows
    BY <1>0 DEF RunsInv
  <2>3. /\ row \in Pay!RunRows /\ row.state = "approved"
        /\ row.superseded = payRuns[p][v].superseded /\ payRuns[p][v].state # Pay!None
    BY <2>1, <2>2 DEF Pay!RunRows, Pay!None
  <2> HIDE DEF row
  <2>4. RunsInv'
    BY <1>0, <2>1, <2>3, RunRewritten
  <2>5. LoanInv' /\ RestInv' /\ WorkInv'
    BY <1>0, <2>1, LoansStay, WorkStays DEF RestInv
  <2> QED
    BY <2>4, <2>5 DEF PayInv
<1>6. ASSUME NEW p \in Pay!Periods, NEW v \in Pay!Revisions, Pay!Post(p, v) PROVE PayInv'
  <2> DEFINE row == [payRuns[p][v] EXCEPT !.posted = TRUE]
             new == [u \in Pay!Revisions |->
                       CASE u = v -> 1
                         [] u = v - 1 /\ payRuns[p][u].posted -> payEntries[p][u] - 1
                         [] OTHER -> payEntries[p][u]]
  <2>1. /\ payRuns[p][v].state = "approved"
        /\ payRuns' = [payRuns EXCEPT ![p][v] = row]
        /\ payEntries' = [payEntries EXCEPT ![p] = new]
        /\ UNCHANGED <<payFacts, payChanges, payRecoveries, paySettled, payLocked, payTx, payPending>>
    BY <1>6 DEF Pay!Post
  <2>2. payRuns[p][v] \in Pay!RunRows
    BY <1>0 DEF RunsInv
  <2>3. /\ row \in Pay!RunRows /\ row.state = "approved"
        /\ row.superseded = payRuns[p][v].superseded /\ payRuns[p][v].state # Pay!None
    BY <2>1, <2>2 DEF Pay!RunRows, Pay!None
  <2> HIDE DEF row
  <2>4. RunsInv'
    BY <1>0, <2>1, <2>3, RunRewritten
  <2>5. new \in [Pay!Revisions -> Int]
    <3>1. \A u \in Pay!Revisions : payEntries[p][u] \in Int /\ u \in Int /\ v \in Int
      BY <1>0, PayConstants DEF RestInv
    <3>2. \A u \in Pay!Revisions : u = v => u # v - 1
      BY <3>1
    <3>3. \A u \in Pay!Revisions : payEntries[p][u] - 1 \in Int
      BY <3>1
    <3> QED
      BY <3>1, <3>2, <3>3
  <2> HIDE DEF new
  <2>6. payEntries' \in [Pay!Periods -> [Pay!Revisions -> Int]]
    BY <1>0, <2>1, <2>5 DEF RestInv
  <2>7. LoanInv' /\ RestInv' /\ WorkInv'
    BY <1>0, <2>1, <2>6, LoansStay, WorkStays DEF RestInv
  <2> QED
    BY <2>4, <2>7 DEF PayInv
<1>7. ASSUME \/ \E s \in Handlers, p \in Pay!Periods, v \in Pay!Revisions :
                  Pay!BeginCompute(s, p, v)
             \/ \E s \in Handlers, l \in Pay!Ids, p \in Pay!Periods : Pay!BeginSettle(s, l, p)
             \/ \E s \in Handlers :
                  Pay!CommitCompute(s) \/ Pay!CommitSettle(s) \/ Pay!AbortWork(s)
      PROVE  PayInv'
  BY <1>7, PayBeginsCompute, PayBeginsSettle, PayCommits, PayAborts
<1>8. CASE \/ \E p \in Pay!Periods, f \in Facts : Pay!Change(p, f)
           \/ \E p \in Pay!Periods : Pay!LockPeriod(p) \/ Pay!ReopenPeriod(p)
           \/ UNCHANGED Pay!vars
  <2>1. UNCHANGED <<payRuns, payRecoveries, paySettled, payEntries, payTx, payPending>>
    BY <1>8 DEF Pay!Change, Pay!LockPeriod, Pay!ReopenPeriod, Pay!vars, Pay!books
  <2>2. /\ payFacts' \in [Pay!Periods -> Facts] /\ payChanges' \in Nat
        /\ payLocked' \subseteq Pay!Periods
    BY <1>0, <1>8 DEF RestInv, Pay!Change, Pay!LockPeriod, Pay!ReopenPeriod, Pay!vars, Pay!books
  <2>3. RunsInv'
    BY <1>0, <2>1, RunsStay DEF RunsInv
  <2>4. LoanInv' /\ RestInv' /\ WorkInv'
    BY <1>0, <2>1, <2>2, LoansStay, WorkStays DEF RestInv
  <2> QED
    BY <2>3, <2>4 DEF PayInv
<1>9. ASSUME Pay!Next PROVE PayInv'
  BY <1>1, <1>2, <1>3, <1>4, <1>5, <1>6, <1>7, <1>8, <1>9 DEF Pay!Next
<1> QED
  BY <1>8, <1>9

(* The revisions of a period are 1 to their number.                            *)
LEMMA PayInvSuffices ==
  PayInv => Pay!TypeOK /\ Pay!LoanIsRecoveredOnce /\ Pay!OneRunStands
<1> SUFFICES ASSUME PayInv PROVE Pay!TypeOK /\ Pay!LoanIsRecoveredOnce /\ Pay!OneRunStands
  OBVIOUS
<1>0. RunsInv /\ LoanInv /\ RestInv /\ WorkInv
  BY DEF PayInv
<1>1. Pay!TypeOK
  BY <1>0 DEF Pay!TypeOK, RunsInv, LoanInv, RestInv, WorkInv
<1>2. Pay!LoanIsRecoveredOnce
  BY <1>0 DEF Pay!LoanIsRecoveredOnce, LoanInv
<1>3. ASSUME NEW p \in Pay!Periods
      PROVE  /\ Pay!Existing(p) = {} \/ Pay!Existing(p) = 1..Pay!Cardinality(Pay!Existing(p))
             /\ \A v \in Pay!Existing(p) :
                  payRuns[p][v].superseded = IF v + 1 \in Pay!Existing(p) THEN v + 1 ELSE 0
             /\ \A v \in Pay!Existing(p) :
                  v + 1 \in Pay!Existing(p) => payRuns[p][v].state # "draft"
  <2> DEFINE E == Pay!Existing(p)
             Back == {LastRevision - v : v \in E}
  <2>1. /\ LastRevision \in Nat /\ E \subseteq 1..LastRevision
        /\ \A v \in E : \A u \in 1..v : u \in E
    BY <1>0, PayConstants DEF RunsInv, Chained, Pay!Existing
  <2> HIDE DEF E
  <2>2. ASSUME E # {} PROVE E = 1..Cardinality(E)
    <3>1. Back \in SUBSET Nat /\ Back # {}
      <4>1. PICK v \in E : TRUE
        BY <2>2
      <4>2. LastRevision - v \in Back
        OBVIOUS
      <4>3. \A u \in E : LastRevision - u \in Nat
        BY <2>1
      <4> QED
        BY <4>2, <4>3
    <3>2. PICK k \in Back : \A m \in Back : k <= m
      <4> HIDE DEF Back
      <4> QED
        BY <3>1, LeastOf
    <3>3. PICK n \in E : k = LastRevision - n
      BY <3>2
    <3>4. ASSUME NEW v \in E PROVE v <= n
      <4>1. v \in Int /\ n \in Int /\ LastRevision \in Int
        BY <2>1
      <4>2. LastRevision - v \in Back
        OBVIOUS
      <4> HIDE DEF Back
      <4>3. LastRevision - n <= LastRevision - v
        BY <3>2, <3>3, <4>2
      <4> QED
        BY <4>1, <4>3
    <3>5. E = 1..n /\ n \in Nat /\ 1 <= n
      <4>1. n \in Nat /\ 1 <= n
        BY <2>1
      <4>2. \A v \in E : v \in 1..n
        BY <2>1, <3>4, <4>1
      <4>3. \A v \in 1..n : v \in E
        BY <2>1
      <4> QED
        BY <4>1, <4>2, <4>3
    <3>6. Cardinality(1..n) = n
      BY <3>5, FS_Interval
    <3> QED
      BY <3>5, <3>6
  <2>3. Pay!Cardinality(E) = Cardinality(E)
    BY PayConstants
  <2>4. E = {} \/ E = 1..Pay!Cardinality(E)
    BY <2>2, <2>3
  <2>5. Chained(p)
    BY <1>0 DEF RunsInv
  <2> QED
    BY <2>4, <2>5 DEF Chained, E
<1>4. Pay!OneRunStands
  BY <1>3 DEF Pay!OneRunStands
<1> QED
  BY <1>1, <1>2, <1>4

(* ----------------------------------- leave --------------------------------- *)

(* A bag of entries, and what a request adds to it: each entry once, one of a  *)
(* kind per period, and nothing carried over that does not lapse.              *)
EntryBag(B) ==
  B \in [DOMAIN B -> Nat \ {0}] /\ IsFiniteSet(DOMAIN B) /\ DOMAIN B \subseteq Leave!EntryRows
OnceIn(B) ==
  /\ \A e \in DOMAIN B : e.period # 0 => B[e] = 1
  /\ \A e, f \in DOMAIN B :
       e.period # 0 /\ e # f => <<f.kind, f.period>> # <<e.kind, e.period>>
  /\ \A e \in DOMAIN B : e.kind = "carry_forward" =>
       \E f \in DOMAIN B : f.period = YearEnd /\ f.kind = "adjustment" /\ e.days <= -f.days
Single(e) == Leave!SetToBag({e})

(* What an application has taken or given back in a bag, and what it should.   *)
RowsFor(B, r) == {e \in DOMAIN B : e.request = r}
TakenOf(B, r) == Leave!MapThenSumSet(LAMBDA e : e.days * B[e], RowsFor(B, r))
Owes(row) == IF row.state = "approved" THEN -row.days ELSE 0

(* What waits for the engine was not deducted.                                 *)
Undecided(row) ==
  row.engine = "pending" => row.entry = FALSE /\ row.state \in {"pending", "cancelled"}

(* An application, a decision, a cancellation adds what its row is to change.  *)
Answers(t, requests) ==
  LET r == t.request IN
  /\ r \in Applications
  /\ Undecided(t.row)
  /\ \/ t.add = Leave!EmptyBag /\ Owes(t.row) = Owes(requests[r])
     \/ \E e \in Leave!EntryRows :
          /\ t.add = Single(e) /\ e.request = r
          /\ e.days = Owes(t.row) - Owes(requests[r])
TxFits(t, requests) ==
  /\ t.op \in Leave!Operations /\ t.row \in Leave!RequestRows
  /\ EntryBag(t.add) /\ OnceIn(t.add)
  /\ t.op \in {"request", "decide", "cancel"} => Answers(t, requests)
  /\ t.op \notin {"request", "decide", "cancel"} =>
       t.request = Leave!NoRequest /\ \A e \in DOMAIN t.add : e.request = Leave!NoRequest

(* The rows, the open requests, and the sums.                                  *)
LeaveRowsInv ==
  /\ leaveToday \in Leave!Days /\ leaveHolidays \subseteq Leave!Days
  /\ leaveClosed \subseteq Leave!Days /\ leaveExit \in 1..Leave!Never
  /\ EntryBag(leaveEntries) /\ OnceIn(leaveEntries)
LeaveTxInv ==
  /\ DOMAIN leaveTx = Handlers
  /\ \A s \in Handlers : TxFits(leaveTx[s], leaveRequests)
  /\ \A s, u \in Handlers :
       s # u /\ leaveTx[s].request # Leave!NoRequest => leaveTx[u].request # leaveTx[s].request
LeaveSums ==
  /\ leaveRequests \in [Applications -> Leave!RequestRows]
  /\ \A r \in Applications : /\ Undecided(leaveRequests[r])
                             /\ TakenOf(leaveEntries, r) = Owes(leaveRequests[r])
LeaveInv == LeaveRowsInv /\ LeaveTxInv /\ LeaveSums

LEMMA LeaveConstants ==
  /\ LastLeaveDay \in Nat /\ YearEnd \in 1..LastLeaveDay /\ YearEnd < LastLeaveDay
  /\ (\A m \in MonthEnds : m \in 1..LastLeaveDay) /\ (\A d \in Expiries : d \in 1..LastLeaveDay)
  /\ (\A d \in Movable : d \in 1..LastLeaveDay)
  /\ Accrual \in Nat /\ Cap \in Nat /\ Leave!NoRequest \notin Applications
  /\ Leave!Days = 1..LastLeaveDay /\ Leave!Never = LastLeaveDay + 1 /\ Leave!NoRequest = 0
BY OfficeParameters DEF Leave!CalendarAssumption, Leave!Days, Leave!Never, Leave!NoRequest

LEMMA SingleIs ==
  ASSUME NEW e
  PROVE  DOMAIN Single(e) = {e} /\ Single(e)[e] = 1 /\ Single(e) = [x \in {e} |-> 1]
BY DEF Single, Leave!SetToBag

LEMMA EmptyIs == DOMAIN Leave!EmptyBag = {} /\ EntryBag(Leave!EmptyBag) /\ OnceIn(Leave!EmptyBag)
<1>1. DOMAIN Leave!EmptyBag = {} /\ Leave!EmptyBag = [x \in {} |-> 1]
  BY DEF Leave!EmptyBag, Leave!SetToBag
<1>2. IsFiniteSet({})
  BY FS_EmptySet
<1> QED
  BY <1>1, <1>2 DEF EntryBag, OnceIn

(* What the union of two bags has.                                             *)
Joins(U, B, T) ==
  /\ DOMAIN U = DOMAIN B \cup DOMAIN T
  /\ \A e \in DOMAIN B : e \notin DOMAIN T => U[e] = B[e]
  /\ \A e \in DOMAIN T : e \notin DOMAIN B => U[e] = T[e]
  /\ \A e \in DOMAIN B : e \in DOMAIN T => U[e] = B[e] + T[e]

LEMMA BagsTogether ==
  ASSUME NEW B, NEW T, EntryBag(B), EntryBag(T)
  PROVE  EntryBag(Leave!(+)(B, T)) /\ Joins(Leave!(+)(B, T), B, T)
<1> DEFINE U == Leave!(+)(B, T)
           count(e) == (IF e \in DOMAIN B THEN B[e] ELSE 0) + (IF e \in DOMAIN T THEN T[e] ELSE 0)
<1>1. U = [e \in (DOMAIN B) \cup (DOMAIN T) |-> count(e)]
  BY DEF Leave!(+)
<1>2. /\ \A e \in DOMAIN B : B[e] \in Nat /\ B[e] # 0
      /\ \A e \in DOMAIN T : T[e] \in Nat /\ T[e] # 0
  BY DEF EntryBag
<1>3. /\ \A e \in DOMAIN B : e \notin DOMAIN T => count(e) = B[e]
      /\ \A e \in DOMAIN T : e \notin DOMAIN B => count(e) = T[e]
      /\ \A e \in DOMAIN B : e \in DOMAIN T => count(e) = B[e] + T[e]
      /\ \A e \in (DOMAIN B) \cup (DOMAIN T) : count(e) \in Nat \ {0}
  BY <1>2
<1> HIDE DEF count, U
<1>4. DOMAIN U = DOMAIN B \cup DOMAIN T /\ \A e \in DOMAIN U : U[e] = count(e)
  BY <1>1
<1>5. IsFiniteSet(DOMAIN U) /\ DOMAIN U \subseteq Leave!EntryRows
  <2>1. /\ IsFiniteSet(DOMAIN B) /\ IsFiniteSet(DOMAIN T)
        /\ DOMAIN B \subseteq Leave!EntryRows /\ DOMAIN T \subseteq Leave!EntryRows
    BY DEF EntryBag
  <2>2. IsFiniteSet(DOMAIN B \cup DOMAIN T)
    BY <2>1, FS_Union
  <2> QED
    BY <1>4, <2>1, <2>2
<1>6. U \in [DOMAIN U -> Nat \ {0}]
  BY <1>1, <1>3, <1>4
<1>7. EntryBag(U)
  BY <1>5, <1>6 DEF EntryBag
<1>8. Joins(U, B, T)
  BY <1>3, <1>4 DEF Joins
<1> QED
  BY <1>7, <1>8 DEF U

(* Where the index finds nothing, there is still one of a kind per period.     *)
LEMMA OnceTogether ==
  ASSUME NEW B, NEW T, EntryBag(B), EntryBag(T), OnceIn(B), OnceIn(T),
         \A e \in DOMAIN T : e.period # 0 =>
           ~ \E f \in DOMAIN B : f.kind = e.kind /\ f.period = e.period
  PROVE  OnceIn(Leave!(+)(B, T))
<1> DEFINE U == Leave!(+)(B, T)
<1>0. Joins(U, B, T)
  BY BagsTogether
<1> HIDE DEF U
<1>1. /\ DOMAIN U = DOMAIN B \cup DOMAIN T
      /\ \A e \in DOMAIN B : e \notin DOMAIN T => U[e] = B[e]
      /\ \A e \in DOMAIN T : e \notin DOMAIN B => U[e] = T[e]
  BY <1>0 DEF Joins
<1>2. \A e \in DOMAIN U : e.period # 0 => U[e] = 1
  BY <1>1 DEF OnceIn
<1>3. \A e, f \in DOMAIN U :
        e.period # 0 /\ e # f => <<f.kind, f.period>> # <<e.kind, e.period>>
  BY <1>1 DEF OnceIn
<1>4. \A e \in DOMAIN U : e.kind = "carry_forward" =>
        \E f \in DOMAIN U : f.period = YearEnd /\ f.kind = "adjustment" /\ e.days <= -f.days
  BY <1>1 DEF OnceIn
<1>5. OnceIn(U)
  BY <1>2, <1>3, <1>4 DEF OnceIn
<1> QED
  BY <1>5 DEF U

(* What is summed up of an application.                                        *)
WorthIn(B) == [e \in DOMAIN B |-> e.days * B[e]]

LEMMA TakenIsSum ==
  ASSUME NEW B, NEW S \in SUBSET DOMAIN B
  PROVE  Leave!MapThenSumSet(LAMBDA e : e.days * B[e], S) = SumOver(WorthIn(B), S)
<1> DEFINE f == WorthIn(B)
           Plus(it, s) == IF s = {} THEN 0 ELSE First(s).days * B[First(s)] + it[s \ {First(s)}]
<1>1. ASSUME NEW it, NEW s \in SUBSET S PROVE Plus(it, s) = Added(f, it, s)
  <2>1. s # {} => First(s) \in DOMAIN B
    BY DEF First
  <2> QED
    BY <2>1 DEF Added, WorthIn
<1>2. ASSUME NEW it PROVE [s \in SUBSET S |-> Plus(it, s)] = [s \in SUBSET S |-> Added(f, it, s)]
  BY <1>1
<1>3. (CHOOSE it : it = [s \in SUBSET S |-> Plus(it, s)]) = CHOOSE it : Adds(f, SUBSET S, it)
  BY <1>2 DEF Adds
<1>4. SumOver(f, S) = (CHOOSE it : Adds(f, SUBSET S, it))[S]
  BY SumIsChosen
<1>5. Leave!MapThenSumSet(LAMBDA e : e.days * B[e], S)
        = (CHOOSE it : it = [s \in SUBSET S |-> Plus(it, s)])[S]
  BY DEF Leave!MapThenSumSet, Leave!MapThenFoldSet, First
<1> QED
  BY <1>3, <1>4, <1>5

LEMMA WorthIsInt ==
  ASSUME NEW B, EntryBag(B)
  PROVE  /\ \A e \in DOMAIN B : e.days \in Int /\ B[e] \in Int /\ WorthIn(B)[e] = e.days * B[e]
                                /\ WorthIn(B)[e] \in Int
         /\ \A S \in SUBSET DOMAIN B : IsFiniteSet(S) /\ SumOver(WorthIn(B), S) \in Int
<1>1. \A e \in DOMAIN B : e.days \in Int /\ B[e] \in Int /\ WorthIn(B)[e] = e.days * B[e]
                          /\ WorthIn(B)[e] \in Int
  BY DEF EntryBag, Leave!EntryRows, WorthIn
<1>2. ASSUME NEW S \in SUBSET DOMAIN B PROVE IsFiniteSet(S) /\ SumOver(WorthIn(B), S) \in Int
  <2>1. IsFiniteSet(S)
    BY FS_Subset DEF EntryBag
  <2>2. \A e \in S : WorthIn(B)[e] \in Int
    BY <1>1
  <2> QED
    BY <2>1, <2>2, SumTakesAny
<1> QED
  BY <1>1, <1>2

LEMMA TakenOfIs ==
  ASSUME NEW B, NEW r, EntryBag(B)
  PROVE  /\ TakenOf(B, r) = SumOver(WorthIn(B), RowsFor(B, r))
         /\ TakenOf(B, r) \in Int /\ IsFiniteSet(RowsFor(B, r))
<1>1. RowsFor(B, r) \in SUBSET DOMAIN B
  BY DEF RowsFor
<1>2. TakenOf(B, r) = SumOver(WorthIn(B), RowsFor(B, r))
  BY <1>1, TakenIsSum DEF TakenOf
<1> QED
  BY <1>1, <1>2, WorthIsInt

(* Entries of others, and of none, leave the sum as it is.                     *)
LEMMA TakenSame ==
  ASSUME NEW B, NEW T, NEW r, EntryBag(B), EntryBag(T), \A e \in DOMAIN T : e.request # r
  PROVE  TakenOf(Leave!(+)(B, T), r) = TakenOf(B, r)
<1> DEFINE U == Leave!(+)(B, T)
<1>0. EntryBag(U) /\ Joins(U, B, T)
  BY BagsTogether
<1> HIDE DEF U
<1>1. /\ EntryBag(U) /\ DOMAIN U = DOMAIN B \cup DOMAIN T
      /\ \A e \in DOMAIN B : e \notin DOMAIN T => U[e] = B[e]
  BY <1>0 DEF Joins
<1>2. RowsFor(U, r) = RowsFor(B, r)
  BY <1>1 DEF RowsFor
<1>3. \A e \in RowsFor(B, r) : WorthIn(U)[e] = WorthIn(B)[e]
  BY <1>1 DEF RowsFor, WorthIn
<1>4. SumOver(WorthIn(U), RowsFor(B, r)) = SumOver(WorthIn(B), RowsFor(B, r))
  <2>1. IsFiniteSet(RowsFor(B, r))
    BY TakenOfIs
  <2> QED
    BY <1>3, <2>1, SumOfSame
<1>5. TakenOf(U, r) = TakenOf(B, r)
  BY <1>1, <1>2, <1>4, TakenOfIs
<1> QED
  BY <1>5 DEF U

(* An entry more takes its days more.                                          *)
LEMMA TakenMore ==
  ASSUME NEW B, NEW y \in Leave!EntryRows, EntryBag(B), EntryBag(Single(y))
  PROVE  TakenOf(Leave!(+)(B, Single(y)), y.request) = TakenOf(B, y.request) + y.days
<1> DEFINE U == Leave!(+)(B, Single(y))
           S == RowsFor(B, y.request)
<1>0. DOMAIN Single(y) = {y} /\ Single(y)[y] = 1
  BY SingleIs
<1>1. /\ EntryBag(U) /\ DOMAIN U = DOMAIN B \cup {y}
      /\ \A e \in DOMAIN B : e # y => U[e] = B[e]
      /\ y \notin DOMAIN B => U[y] = 1
      /\ y \in DOMAIN B => U[y] = B[y] + 1
  <2>1. EntryBag(U) /\ Joins(U, B, Single(y))
    BY BagsTogether
  <2> HIDE DEF U
  <2> QED
    BY <1>0, <2>1 DEF Joins
<1> HIDE DEF U
<1>2. RowsFor(U, y.request) = S \cup {y}
  BY <1>1 DEF RowsFor
<1>3. IsFiniteSet(S) /\ TakenOf(B, y.request) = SumOver(WorthIn(B), S)
      /\ SumOver(WorthIn(B), S) \in Int
  BY TakenOfIs
<1>4. TakenOf(U, y.request) = SumOver(WorthIn(U), S \cup {y})
  BY <1>1, <1>2, TakenOfIs
<1>5. \A e \in S : e # y => WorthIn(U)[e] = WorthIn(B)[e]
  BY <1>1 DEF RowsFor, WorthIn
<1>6. /\ \A e \in S : WorthIn(B)[e] \in Int
      /\ \A e \in S \cup {y} : WorthIn(U)[e] \in Int
  <2>1. S \subseteq DOMAIN B /\ S \cup {y} \subseteq DOMAIN U
    BY <1>1 DEF RowsFor
  <2> QED
    BY <1>1, <2>1, WorthIsInt
<1>7. y.days \in Int /\ WorthIn(U)[y] = y.days * U[y]
  BY <1>1 DEF Leave!EntryRows, WorthIn
<1>8. CASE y \in DOMAIN B
  <2>1. y \in S /\ S \cup {y} = S
    BY <1>8 DEF RowsFor
  <2>2. SumOver(WorthIn(U), S) = SumOver(WorthIn(B), S) + WorthIn(U)[y] - WorthIn(B)[y]
    <3>1. \A e \in S : WorthIn(B)[e] \in Int /\ WorthIn(U)[e] \in Int
      BY <1>6
    <3> QED
      BY <1>3, <1>5, <2>1, <3>1, SumOfChanged
  <2>3. WorthIn(B)[y] = y.days * B[y] /\ B[y] \in Int
    BY <1>8, WorthIsInt
  <2>4. PICK b \in Int : b = B[y]
    BY <2>3
  <2>5. WorthIn(U)[y] = y.days * (b + 1) /\ WorthIn(B)[y] = y.days * b
    BY <1>1, <1>7, <1>8, <2>3, <2>4
  <2>6. y.days * (b + 1) = y.days * b + y.days /\ y.days * b \in Int
    BY <1>7
  <2>7. PICK w \in Int : w = WorthIn(B)[y]
    BY <2>5, <2>6
  <2>8. WorthIn(U)[y] = w + y.days
    BY <2>5, <2>6, <2>7
  <2>9. SumOver(WorthIn(U), S) = SumOver(WorthIn(B), S) + y.days
    BY <1>3, <1>7, <2>2, <2>7, <2>8
  <2> QED
    BY <1>3, <1>4, <2>1, <2>9 DEF U
<1>9. CASE y \notin DOMAIN B
  <2>1. y \notin S
    BY <1>9 DEF RowsFor
  <2>2. WorthIn(U)[y] = y.days
    BY <1>1, <1>7, <1>9
  <2>3. SumOver(WorthIn(U), S \cup {y}) = SumOver(WorthIn(U), S) + WorthIn(U)[y]
    BY <1>3, <1>6, <2>1, SumOfOneMore
  <2>4. SumOver(WorthIn(U), S) = SumOver(WorthIn(B), S)
    <3>1. \A e \in S : WorthIn(U)[e] = WorthIn(B)[e]
      BY <1>5, <2>1
    <3> QED
      BY <1>3, <3>1, SumOfSame
  <2> QED
    BY <1>3, <1>4, <2>2, <2>3, <2>4 DEF U
<1> QED
  BY <1>8, <1>9

(* What a balance adds up to is a number of days.                              *)
LEMMA BalanceIsInt ==
  ASSUME EntryBag(leaveEntries), NEW d
  PROVE  Leave!Balance(d) \in Int
<1> DEFINE S == Leave!Counted(leaveEntries, d)
<1>1. S \in SUBSET DOMAIN leaveEntries
  BY DEF Leave!Counted, Leave!BagToSet
<1>2. Leave!Balance(d) = Leave!MapThenSumSet(LAMBDA e : e.days * leaveEntries[e], S)
  BY DEF Leave!Balance
<1> HIDE DEF S
<1>3. Leave!Balance(d) = SumOver(WorthIn(leaveEntries), S)
  BY <1>1, <1>2, TakenIsSum
<1> QED
  BY <1>1, <1>3, WorthIsInt


LEMMA SingleFits ==
  ASSUME NEW e \in Leave!EntryRows, e.kind # "carry_forward"
  PROVE  EntryBag(Single(e)) /\ OnceIn(Single(e))
<1>1. DOMAIN Single(e) = {e} /\ Single(e)[e] = 1 /\ Single(e) = [x \in {e} |-> 1]
  BY SingleIs
<1>2. IsFiniteSet({e})
  BY FS_Singleton
<1>3. EntryBag(Single(e))
  BY <1>1, <1>2 DEF EntryBag
<1>4. OnceIn(Single(e))
  BY <1>1 DEF OnceIn
<1> QED
  BY <1>3, <1>4

LEMMA IdleFits ==
  /\ \A requests : TxFits(Leave!Idle, requests)
  /\ Leave!Idle.request = Leave!NoRequest
<1>1. /\ Leave!Idle.op = "none" /\ Leave!Idle.request = Leave!NoRequest
      /\ Leave!Idle.add = Leave!EmptyBag /\ Leave!Idle.row = Leave!NoApplication
  BY DEF Leave!Idle, Leave!None
<1>2. Leave!NoApplication \in Leave!RequestRows /\ "none" \in Leave!Operations
  BY LeaveConstants DEF Leave!NoApplication, Leave!RequestRows, Leave!Operations, Leave!None
<1> QED
  BY <1>1, <1>2, EmptyIs DEF TxFits, Leave!None

LEMMA LeaveStarts == Leave!Init => LeaveInv
<1> SUFFICES ASSUME Leave!Init PROVE LeaveInv
  OBVIOUS
<1>1. LeaveRowsInv
  BY LeaveConstants, EmptyIs DEF Leave!Init, LeaveRowsInv
<1>2. LeaveTxInv
  <2>1. \A s \in Handlers : leaveTx[s] = Leave!Idle
    BY DEF Leave!Init
  <2> QED
    BY <2>1, IdleFits DEF Leave!Init, LeaveTxInv
<1>3. LeaveSums
  <2>1. ASSUME NEW r \in Applications
        PROVE  /\ leaveRequests[r] = Leave!NoApplication
               /\ TakenOf(leaveEntries, r) = 0
    <3>1. RowsFor(Leave!EmptyBag, r) = {}
      BY EmptyIs DEF RowsFor
    <3>2. TakenOf(Leave!EmptyBag, r) = 0
      BY <3>1, EmptyIs, TakenOfIs, SumOfNone
    <3> QED
      BY <3>2 DEF Leave!Init
  <2>2. Leave!NoApplication \in Leave!RequestRows
    BY LeaveConstants DEF Leave!NoApplication, Leave!RequestRows, Leave!None
  <2>3. Undecided(Leave!NoApplication) /\ Owes(Leave!NoApplication) = 0
    BY DEF Undecided, Owes, Leave!NoApplication, Leave!None
  <2> QED
    BY <2>1, <2>2, <2>3 DEF Leave!Init, LeaveSums
<1> QED
  BY <1>1, <1>2, <1>3 DEF LeaveInv

(* What neither enters nor answers anything.                                   *)
LEMMA LeaveStays ==
  ASSUME LeaveInv, UNCHANGED <<leaveEntries, leaveRequests, leaveTx>>,
         leaveToday' \in Leave!Days, leaveHolidays' \subseteq Leave!Days,
         leaveClosed' \subseteq Leave!Days, leaveExit' \in 1..Leave!Never
  PROVE  LeaveInv'
<1>1. LeaveRowsInv'
  BY DEF LeaveInv, LeaveRowsInv, EntryBag, OnceIn
<1>3. LeaveTxInv'
  BY DEF LeaveInv, LeaveTxInv
<1>4. LeaveSums'
  BY DEF LeaveInv, LeaveSums
<1> QED
  BY <1>1, <1>3, <1>4 DEF LeaveInv

LEMMA LeaveBegins ==
  ASSUME LeaveInv, NEW s \in Handlers, NEW operation, TxFits(operation, leaveRequests),
         Leave!Starts(s, operation)
  PROVE  LeaveInv'
<1>1. /\ leaveTx' = [leaveTx EXCEPT ![s] = operation]
      /\ operation.request # Leave!NoRequest =>
           \A t \in Handlers : leaveTx[t].request # operation.request
      /\ leaveTx[s] = Leave!Idle
      /\ UNCHANGED <<leaveToday, leaveHolidays, leaveClosed, leaveExit, leaveEntries, leaveRequests>>
  BY DEF Leave!Starts
<1>2. LeaveRowsInv'
  BY <1>1 DEF LeaveInv, LeaveRowsInv, EntryBag, OnceIn
<1>4. LeaveTxInv'
  <2>1. DOMAIN leaveTx = Handlers /\ \A u \in Handlers : TxFits(leaveTx[u], leaveRequests)
    BY DEF LeaveInv, LeaveTxInv
  <2>2. /\ DOMAIN leaveTx' = Handlers /\ leaveTx'[s] = operation
        /\ \A u \in Handlers : u # s => leaveTx'[u] = leaveTx[u]
    BY <1>1, <2>1
  <2>3. \A u \in Handlers : TxFits(leaveTx'[u], leaveRequests')
    BY <1>1, <2>1, <2>2
  <2>4. \A u, v \in Handlers : u # v /\ leaveTx'[u].request # Leave!NoRequest
          => leaveTx'[v].request # leaveTx'[u].request
    <3>1. \A u, v \in Handlers : u # v /\ leaveTx[u].request # Leave!NoRequest
            => leaveTx[v].request # leaveTx[u].request
      BY DEF LeaveInv, LeaveTxInv
    <3> QED
      BY <1>1, <2>2, <3>1
  <2> QED
    BY <2>2, <2>3, <2>4 DEF LeaveTxInv
<1>5. LeaveSums'
  BY <1>1 DEF LeaveInv, LeaveSums
<1> QED
  BY <1>2, <1>4, <1>5 DEF LeaveInv

(* The rows of the applications after a commit.                                *)
Answered(op) == op \in {"request", "decide", "cancel"}
Rewrites(s, op) ==
  leaveRequests' = IF Answered(op) THEN [leaveRequests EXCEPT ![leaveTx[s].request] = leaveTx[s].row]
                   ELSE leaveRequests

LEMMA LeaveCommitsRows ==
  ASSUME LeaveInv, NEW s \in Handlers, NEW op, Leave!Commits(s, op)
  PROVE  LeaveRowsInv'
<1> DEFINE T == leaveTx[s].add
<1>1. EntryBag(T) /\ OnceIn(T) /\ EntryBag(leaveEntries) /\ OnceIn(leaveEntries)
  BY DEF LeaveInv, LeaveTxInv, LeaveRowsInv, TxFits
<1>2. \A e \in DOMAIN T : e.period # 0 => ~Leave!Recorded(e.kind, e.period)
  BY DEF Leave!Commits, Leave!BagToSet
<1>3. leaveEntries' = Leave!(+)(leaveEntries, T)
      /\ UNCHANGED <<leaveToday, leaveHolidays, leaveClosed, leaveExit>>
  BY DEF Leave!Commits
<1> HIDE DEF T
<1>4. \A e \in DOMAIN T : e.period # 0 =>
        ~ \E f \in DOMAIN leaveEntries : f.kind = e.kind /\ f.period = e.period
  BY <1>2 DEF Leave!Recorded, Leave!BagToSet
<1>5. EntryBag(leaveEntries') /\ OnceIn(leaveEntries')
  BY <1>1, <1>3, <1>4, BagsTogether, OnceTogether
<1> QED
  BY <1>3, <1>5 DEF LeaveInv, LeaveRowsInv

LEMMA LeaveCommitsTx ==
  ASSUME LeaveInv, NEW s \in Handlers, NEW op, Leave!Commits(s, op), Rewrites(s, op)
  PROVE  LeaveTxInv'
<1>1. leaveTx' = [leaveTx EXCEPT ![s] = Leave!Idle] /\ leaveTx[s].op = op
  BY DEF Leave!Commits
<1>2. DOMAIN leaveTx = Handlers /\ \A u \in Handlers : TxFits(leaveTx[u], leaveRequests)
  BY DEF LeaveInv, LeaveTxInv
<1>3. /\ DOMAIN leaveTx' = Handlers /\ leaveTx'[s] = Leave!Idle
      /\ \A u \in Handlers : u # s => leaveTx'[u] = leaveTx[u]
  BY <1>1, <1>2
<1>4. \A u, v \in Handlers :
        u # v /\ leaveTx[u].request # Leave!NoRequest => leaveTx[v].request # leaveTx[u].request
  BY DEF LeaveInv, LeaveTxInv
<1>5. \A u, v \in Handlers : u # v /\ leaveTx'[u].request # Leave!NoRequest
        => leaveTx'[v].request # leaveTx'[u].request
  BY <1>3, <1>4, IdleFits
<1>6. ASSUME NEW u \in Handlers PROVE TxFits(leaveTx'[u], leaveRequests')
  <2>1. CASE u = s
    BY <1>3, <2>1, IdleFits
  <2>2. CASE u # s
    <3> DEFINE t == leaveTx[u]
               old == leaveRequests
    <3>1. TxFits(t, leaveRequests) /\ leaveTx'[u] = t
      BY <1>2, <1>3, <2>2
    <3> HIDE DEF t
    <3>2. t.op \in {"request", "decide", "cancel"} => leaveRequests'[t.request] = leaveRequests[t.request]
      <4> SUFFICES ASSUME t.op \in {"request", "decide", "cancel"}
                   PROVE  leaveRequests'[t.request] = leaveRequests[t.request]
        OBVIOUS
      <4>1. t.request \in Applications
        BY <3>1 DEF TxFits, Answers
      <4>2. t.request # leaveTx[s].request
        BY <1>4, <2>2, <4>1, LeaveConstants DEF t
      <4>3. leaveRequests \in [Applications -> Leave!RequestRows]
        BY DEF LeaveInv, LeaveSums
      <4> QED
        BY <4>1, <4>2, <4>3 DEF Rewrites
    <3>3. ASSUME NEW requests, TxFits(t, leaveRequests),
                 t.op \in {"request", "decide", "cancel"} => requests[t.request] = leaveRequests[t.request]
          PROVE  TxFits(t, requests)
      BY <3>3 DEF TxFits, Answers
    <3> QED
      BY <3>1, <3>2, <3>3
  <2> QED
    BY <2>1, <2>2
<1> QED
  BY <1>3, <1>5, <1>6 DEF LeaveTxInv

(* What is answered changes the sum by what its row is to change.              *)
LEMMA AnswerTakes ==
  ASSUME NEW B, NEW t, NEW requests, EntryBag(B), EntryBag(t.add), Answers(t, requests),
         requests \in [Applications -> Leave!RequestRows], t.row \in Leave!RequestRows,
         TakenOf(B, t.request) = Owes(requests[t.request])
  PROVE  /\ TakenOf(Leave!(+)(B, t.add), t.request) = Owes(t.row)
         /\ \A q : q # t.request => TakenOf(Leave!(+)(B, t.add), q) = TakenOf(B, q)
<1> DEFINE r == t.request
<1>1. r \in Applications /\ requests[r] \in Leave!RequestRows
  BY DEF Answers
<1>2. Owes(t.row) \in Int /\ Owes(requests[r]) \in Int
  BY <1>1 DEF Owes, Leave!RequestRows
<1>3. CASE t.add = Leave!EmptyBag /\ Owes(t.row) = Owes(requests[r])
  <2>1. \A q : \A e \in DOMAIN t.add : e.request # q
    BY <1>3, EmptyIs
  <2>2. \A q : TakenOf(Leave!(+)(B, t.add), q) = TakenOf(B, q)
    BY <2>1, TakenSame
  <2> QED
    BY <1>3, <2>2
<1>4. CASE \E e \in Leave!EntryRows :
             t.add = Single(e) /\ e.request = r /\ e.days = Owes(t.row) - Owes(requests[r])
  <2>1. PICK e \in Leave!EntryRows :
          t.add = Single(e) /\ e.request = r /\ e.days = Owes(t.row) - Owes(requests[r])
    BY <1>4
  <2>2. TakenOf(Leave!(+)(B, t.add), r) = TakenOf(B, r) + e.days
    BY <2>1, TakenMore
  <2>3. TakenOf(Leave!(+)(B, t.add), r) = Owes(t.row)
    BY <1>2, <2>1, <2>2
  <2>4. ASSUME NEW q, q # r PROVE TakenOf(Leave!(+)(B, t.add), q) = TakenOf(B, q)
    <3>0. DOMAIN Single(e) = {e} /\ e.request # q
      BY <2>1, <2>4, SingleIs
    <3>1. \A x \in DOMAIN t.add : x.request # q
      BY <2>1, <3>0
    <3> QED
      BY <3>1, TakenSame
  <2> QED
    BY <2>3, <2>4
<1> QED
  BY <1>3, <1>4 DEF Answers

LEMMA LeaveCommitsSums ==
  ASSUME LeaveInv, NEW s \in Handlers, NEW op, Leave!Commits(s, op), Rewrites(s, op)
  PROVE  LeaveSums'
<1> DEFINE t == leaveTx[s]
<1>1. /\ TxFits(t, leaveRequests) /\ t.op = op /\ EntryBag(leaveEntries)
      /\ leaveEntries' = Leave!(+)(leaveEntries, t.add)
  BY DEF LeaveInv, LeaveTxInv, LeaveRowsInv, Leave!Commits
<1>2. /\ leaveRequests \in [Applications -> Leave!RequestRows]
      /\ \A r \in Applications : /\ Undecided(leaveRequests[r])
                                 /\ TakenOf(leaveEntries, r) = Owes(leaveRequests[r])
  BY DEF LeaveInv, LeaveSums
<1>3. leaveRequests' = IF Answered(op) THEN [leaveRequests EXCEPT ![t.request] = t.row]
                       ELSE leaveRequests
  BY DEF Rewrites
<1> HIDE DEF t
<1>4. EntryBag(t.add) /\ t.row \in Leave!RequestRows
  BY <1>1 DEF TxFits
<1>5. CASE Answered(op)
  <2>1. Answers(t, leaveRequests) /\ t.request \in Applications
    BY <1>1, <1>5 DEF TxFits, Answered, Answers
  <2>2. /\ TakenOf(leaveEntries', t.request) = Owes(t.row)
        /\ \A q : q # t.request => TakenOf(leaveEntries', q) = TakenOf(leaveEntries, q)
    BY <1>1, <1>2, <1>4, <2>1, AnswerTakes
  <2>3. /\ leaveRequests' \in [Applications -> Leave!RequestRows]
        /\ leaveRequests'[t.request] = t.row
        /\ \A q \in Applications : q # t.request => leaveRequests'[q] = leaveRequests[q]
    BY <1>2, <1>3, <1>4, <1>5, <2>1
  <2>4. Undecided(t.row)
    BY <2>1 DEF Answers
  <2>5. \A q \in Applications : /\ Undecided(leaveRequests'[q])
                                /\ TakenOf(leaveEntries', q) = Owes(leaveRequests'[q])
    BY <1>2, <2>2, <2>3, <2>4
  <2> QED
    BY <2>3, <2>5 DEF LeaveSums
<1>6. CASE ~Answered(op)
  <2>1. \A e \in DOMAIN t.add : e.request = Leave!NoRequest
    BY <1>1, <1>6 DEF TxFits, Answered
  <2>2. \A q \in Applications : TakenOf(leaveEntries', q) = TakenOf(leaveEntries, q)
    BY <1>1, <1>4, <2>1, TakenSame, LeaveConstants
  <2> QED
    BY <1>2, <1>3, <1>6, <2>2 DEF LeaveSums
<1> QED
  BY <1>5, <1>6

LEMMA LeaveCommits ==
  ASSUME LeaveInv, NEW s \in Handlers, NEW op, Leave!Commits(s, op), Rewrites(s, op)
  PROVE  LeaveInv'
BY LeaveCommitsRows, LeaveCommitsTx, LeaveCommitsSums DEF LeaveInv

LEMMA LeaveAborts ==
  ASSUME LeaveInv, NEW s \in Handlers, Leave!Abort(s)
  PROVE  LeaveInv'
<1>1. /\ leaveTx' = [leaveTx EXCEPT ![s] = Leave!Idle]
      /\ UNCHANGED <<leaveToday, leaveHolidays, leaveClosed, leaveExit, leaveEntries, leaveRequests>>
  BY DEF Leave!Abort
<1>2. LeaveRowsInv'
  BY <1>1 DEF LeaveInv, LeaveRowsInv, EntryBag, OnceIn
<1>3. DOMAIN leaveTx = Handlers /\ \A u \in Handlers : TxFits(leaveTx[u], leaveRequests)
  BY DEF LeaveInv, LeaveTxInv
<1>4. /\ DOMAIN leaveTx' = Handlers /\ leaveTx'[s] = Leave!Idle
      /\ \A u \in Handlers : u # s => leaveTx'[u] = leaveTx[u]
  BY <1>1, <1>3
<1>5. \A u, v \in Handlers :
        u # v /\ leaveTx[u].request # Leave!NoRequest => leaveTx[v].request # leaveTx[u].request
  BY DEF LeaveInv, LeaveTxInv
<1>6. \A u, v \in Handlers : u # v /\ leaveTx'[u].request # Leave!NoRequest
        => leaveTx'[v].request # leaveTx'[u].request
  BY <1>4, <1>5, IdleFits
<1>7. \A u \in Handlers : TxFits(leaveTx'[u], leaveRequests')
  BY <1>1, <1>3, <1>4, IdleFits
<1>8. LeaveTxInv'
  BY <1>4, <1>6, <1>7 DEF LeaveTxInv
<1>9. LeaveSums'
  BY <1>1 DEF LeaveInv, LeaveSums
<1> QED
  BY <1>2, <1>8, <1>9 DEF LeaveInv

LEMMA LeaveAccrues ==
  ASSUME LeaveInv, NEW s \in Handlers, NEW m \in MonthEnds, Leave!BeginAccrue(s, m)
  PROVE  LeaveInv'
<1> DEFINE e == [kind |-> "accrual", days |-> Accrual, on |-> m, period |-> m,
                 expires |-> Leave!Never, request |-> Leave!NoRequest]
           operation == [Leave!Idle EXCEPT !.op = "accrue",
             !.add = Leave!Entry("accrual", Accrual, m, m, Leave!Never, Leave!NoRequest)]
<1>1. e \in Leave!EntryRows /\ e.kind # "carry_forward" /\ e.request = Leave!NoRequest
  BY LeaveConstants DEF Leave!EntryRows
<1>2. Leave!Entry("accrual", Accrual, m, m, Leave!Never, Leave!NoRequest) = Single(e)
  BY DEF Leave!Entry, Single
<1>3. Leave!Starts(s, operation)
  BY DEF Leave!BeginAccrue
<1>4. /\ operation.op = "accrue" /\ operation.add = Single(e)
      /\ operation.request = Leave!NoRequest /\ operation.row = Leave!NoApplication
  BY <1>2 DEF Leave!Idle
<1> HIDE DEF e, operation
<1>5. EntryBag(Single(e)) /\ OnceIn(Single(e)) /\ DOMAIN Single(e) = {e}
  BY <1>1, SingleFits, SingleIs
<1>6. Leave!NoApplication \in Leave!RequestRows /\ "accrue" \in Leave!Operations
  BY LeaveConstants DEF Leave!NoApplication, Leave!RequestRows, Leave!Operations, Leave!None
<1>7. TxFits(operation, leaveRequests)
  BY <1>1, <1>4, <1>5, <1>6 DEF TxFits
<1> QED
  BY <1>3, <1>7, LeaveBegins

(* The lesser of two numbers.                                                  *)
LEMMA LeaveMin ==
  ASSUME NEW a \in Int, NEW b \in Int
  PROVE  Leave!Min({a, b}) = IF a <= b THEN a ELSE b
<1>1. Leave!Min({a, b}) = CHOOSE x \in {a, b} : \A y \in {a, b} : x <= y
  BY DEF Leave!Min
<1>2. \E x \in {a, b} : \A y \in {a, b} : x <= y
  BY a <= b \/ b <= a
<1> QED
  BY <1>1, <1>2

(* What lapses, and what is carried over of it.                                *)
LEMMA CarryFits ==
  ASSUME NEW a \in Leave!EntryRows, NEW c \in Leave!EntryRows,
         a.kind = "adjustment", a.period = YearEnd, a.request = Leave!NoRequest,
         c.kind = "carry_forward", c.period = YearEnd + 1, c.request = Leave!NoRequest,
         c.days <= -a.days, NEW T, T \in {Single(c), Leave!EmptyBag}
  PROVE  LET U == Leave!(+)(Single(a), T) IN
         /\ EntryBag(U) /\ OnceIn(U)
         /\ \A e \in DOMAIN U : e.request = Leave!NoRequest
<1> DEFINE U == Leave!(+)(Single(a), T)
<1>1. /\ DOMAIN Single(a) = {a} /\ Single(a)[a] = 1
      /\ DOMAIN Single(c) = {c} /\ Single(c)[c] = 1 /\ Single(c) = [x \in {c} |-> 1]
  BY SingleIs
<1>2. a # c /\ EntryBag(Single(a))
  BY SingleFits
<1>3. EntryBag(T)
  <2>1. IsFiniteSet({c})
    BY FS_Singleton
  <2>2. EntryBag(Single(c))
    BY <1>1, <2>1 DEF EntryBag
  <2> QED
    BY <2>2, EmptyIs
<1>4. (DOMAIN T = {c} /\ T[c] = 1) \/ DOMAIN T = {}
  BY <1>1, EmptyIs
<1>5. EntryBag(U) /\ Joins(U, Single(a), T)
  BY <1>2, <1>3, BagsTogether
<1> HIDE DEF U
<1>6. /\ DOMAIN U = {a, c} \/ DOMAIN U = {a}
      /\ \A e \in DOMAIN U : U[e] = 1 /\ e.request = Leave!NoRequest
  BY <1>1, <1>2, <1>4, <1>5 DEF Joins
<1>7. \A e, f \in DOMAIN U : e # f => f.kind # e.kind
  BY <1>6
<1>8. \A e \in DOMAIN U : e.kind = "carry_forward" =>
        \E f \in DOMAIN U : f.period = YearEnd /\ f.kind = "adjustment" /\ e.days <= -f.days
  BY <1>6
<1>9. OnceIn(U)
  BY <1>6, <1>7, <1>8 DEF OnceIn
<1> QED
  BY <1>5, <1>6, <1>9 DEF U

LEMMA LeaveCarries ==
  ASSUME LeaveInv, NEW s \in Handlers, NEW d \in Expiries, Leave!BeginCarry(s, d)
  PROVE  LeaveInv'
<1>1. PICK remaining \in Int : remaining = Leave!Balance(YearEnd)
  BY BalanceIsInt DEF LeaveInv, LeaveRowsInv
<1>2. PICK carried \in Int : carried = Leave!Min({remaining, Cap}) /\ carried <= remaining
  BY LeaveMin, LeaveConstants
<1> DEFINE a == [kind |-> "adjustment", days |-> -remaining, on |-> YearEnd, period |-> YearEnd,
                 expires |-> Leave!Never, request |-> Leave!NoRequest]
           c == [kind |-> "carry_forward", days |-> carried, on |-> YearEnd + 1,
                 period |-> YearEnd + 1, expires |-> d, request |-> Leave!NoRequest]
           T == IF carried > 0 THEN Single(c) ELSE Leave!EmptyBag
           U == Leave!(+)(Single(a), T)
           operation == [Leave!Idle EXCEPT !.op = "carry", !.add = U]
<1>3. Leave!Starts(s, operation)
  BY <1>1, <1>2 DEF Leave!BeginCarry, Leave!Entry, Single
<1>4. a \in Leave!EntryRows /\ c \in Leave!EntryRows
  <2>1. YearEnd \in Leave!Days /\ YearEnd + 1 \in Leave!Days /\ d \in 1..Leave!Never
        /\ Leave!Never \in 1..Leave!Never
    BY LeaveConstants
  <2> QED
    BY <2>1 DEF Leave!EntryRows
<1>5. /\ operation.op = "carry" /\ operation.add = U
      /\ operation.request = Leave!NoRequest /\ operation.row = Leave!NoApplication
  BY DEF Leave!Idle
<1>6. /\ a.kind = "adjustment" /\ a.period = YearEnd /\ a.request = Leave!NoRequest
      /\ c.kind = "carry_forward" /\ c.period = YearEnd + 1 /\ c.request = Leave!NoRequest
      /\ a.days = -remaining /\ c.days = carried
  OBVIOUS
<1>7. T \in {Single(c), Leave!EmptyBag}
  OBVIOUS
<1> HIDE DEF a, c, T, operation
<1>8. c.days <= -a.days
  BY <1>2, <1>6
<1>9. /\ EntryBag(U) /\ OnceIn(U)
      /\ \A e \in DOMAIN U : e.request = Leave!NoRequest
  BY <1>4, <1>6, <1>7, <1>8, CarryFits
<1> HIDE DEF U
<1>10. Leave!NoApplication \in Leave!RequestRows /\ "carry" \in Leave!Operations
  BY LeaveConstants DEF Leave!NoApplication, Leave!RequestRows, Leave!Operations, Leave!None
<1>11. TxFits(operation, leaveRequests)
  BY <1>5, <1>9, <1>10 DEF TxFits
<1> QED
  BY <1>3, <1>11, LeaveBegins

(* A decision: what waited was not deducted, and is when it is approved.       *)
LEMMA LeaveDecides ==
  ASSUME LeaveInv, NEW s \in Handlers, NEW r \in Applications,
         NEW action \in {"approved", "rejected"}, Leave!BeginDecide(s, r, action)
  PROVE  LeaveInv'
<1> DEFINE old == leaveRequests[r]
           row == [old EXCEPT !.engine = action, !.state = action,
                              !.entry = @ \/ action = "approved"]
           e == [kind |-> "leave_taken", days |-> -old.days, on |-> leaveToday, period |-> 0,
                 expires |-> Leave!Never, request |-> r]
           T == IF action = "approved" THEN Leave!Deduction(r) ELSE Leave!EmptyBag
           operation == [op |-> "decide", request |-> r, add |-> T, row |-> row]
<1>1. Leave!Starts(s, operation) /\ old.engine = "pending"
  BY DEF Leave!BeginDecide
<1>2. /\ old \in Leave!RequestRows /\ Undecided(old)
      /\ leaveToday \in Leave!Days
  BY DEF LeaveInv, LeaveSums, LeaveRowsInv
<1>3. old.entry = FALSE /\ old.state \in {"pending", "cancelled"} /\ old.days \in Nat
  BY <1>1, <1>2 DEF Undecided, Leave!RequestRows
<1>4. /\ row \in Leave!RequestRows
      /\ row.engine = action /\ row.state = action /\ row.days = old.days
  BY <1>2 DEF Leave!RequestRows
<1>5. e \in Leave!EntryRows /\ e.kind # "carry_forward" /\ e.request = r /\ e.days = -old.days
  <2>1. Leave!Never \in 1..Leave!Never /\ 0 \in Leave!Days \cup {0} /\ -old.days \in Int
    BY <1>3, LeaveConstants
  <2> QED
    BY <1>2, <2>1 DEF Leave!EntryRows
<1>6. T = IF action = "approved" THEN Single(e) ELSE Leave!EmptyBag
  BY <1>3 DEF Leave!Deduction, Leave!Entry, Single
<1>7. operation.op = "decide" /\ operation.request = r /\ operation.add = T /\ operation.row = row
  OBVIOUS
<1>8. leaveRequests[r] = old
  OBVIOUS
<1> HIDE DEF row, e, T, operation, old
<1>9. EntryBag(T) /\ OnceIn(T)
  BY <1>5, <1>6, SingleFits, EmptyIs
<1>10. Owes(old) = 0 /\ Owes(row) = IF action = "approved" THEN -old.days ELSE 0
  BY <1>3, <1>4 DEF Owes
<1>11. Undecided(row) /\ "decide" \in Leave!Operations
  BY <1>3, <1>4 DEF Undecided, Leave!Operations
<1>12. \/ T = Leave!EmptyBag /\ Owes(row) = Owes(old)
       \/ T = Single(e) /\ e.request = r /\ e.days = Owes(row) - Owes(old)
  BY <1>3, <1>5, <1>6, <1>10
<1>13. Answers(operation, leaveRequests)
  BY <1>5, <1>7, <1>8, <1>11, <1>12 DEF Answers
<1>14. TxFits(operation, leaveRequests)
  BY <1>4, <1>7, <1>9, <1>11, <1>13 DEF TxFits
<1> QED
  BY <1>1, <1>14, LeaveBegins

(* A cancellation gives back what was taken.                                   *)
LEMMA LeaveCancels ==
  ASSUME LeaveInv, NEW s \in Handlers, NEW r \in Applications, Leave!BeginCancel(s, r)
  PROVE  LeaveInv'
<1> DEFINE old == leaveRequests[r]
           row == [old EXCEPT !.state = "cancelled"]
           e == [kind |-> "adjustment", days |-> old.days, on |-> leaveToday, period |-> 0,
                 expires |-> Leave!Never, request |-> r]
           T == Leave!Refund(r)
           operation == [op |-> "cancel", request |-> r, add |-> T, row |-> row]
<1>1. Leave!Starts(s, operation) /\ old.state \in {"pending", "approved"}
  BY DEF Leave!BeginCancel
<1>2. /\ old \in Leave!RequestRows /\ Undecided(old)
      /\ leaveToday \in Leave!Days
  BY DEF LeaveInv, LeaveSums, LeaveRowsInv
<1>3. old.days \in Nat
  BY <1>2 DEF Leave!RequestRows
<1>4. /\ row \in Leave!RequestRows
      /\ row.engine = old.engine /\ row.state = "cancelled" /\ row.entry = old.entry
  BY <1>2 DEF Leave!RequestRows
<1>5. e \in Leave!EntryRows /\ e.kind # "carry_forward" /\ e.request = r /\ e.days = old.days
  <2>1. Leave!Never \in 1..Leave!Never /\ 0 \in Leave!Days \cup {0} /\ old.days \in Int
    BY <1>3, LeaveConstants
  <2> QED
    BY <1>2, <2>1 DEF Leave!EntryRows
<1>6. T = IF old.state = "approved" THEN Single(e) ELSE Leave!EmptyBag
  BY DEF Leave!Refund, Leave!Entry, Single
<1>7. operation.op = "cancel" /\ operation.request = r /\ operation.add = T /\ operation.row = row
  OBVIOUS
<1>8. leaveRequests[r] = old
  OBVIOUS
<1> HIDE DEF row, e, T, operation, old
<1>9. EntryBag(T) /\ OnceIn(T)
  BY <1>5, <1>6, SingleFits, EmptyIs
<1>10. Owes(row) = 0 /\ Owes(old) = IF old.state = "approved" THEN -old.days ELSE 0
  BY <1>4 DEF Owes
<1>11. Undecided(row) /\ "cancel" \in Leave!Operations
  BY <1>1, <1>2, <1>4 DEF Undecided, Leave!Operations
<1>12. \/ T = Leave!EmptyBag /\ Owes(row) = Owes(old)
       \/ T = Single(e) /\ e.request = r /\ e.days = Owes(row) - Owes(old)
  BY <1>3, <1>5, <1>6, <1>10
<1>13. Answers(operation, leaveRequests)
  BY <1>5, <1>7, <1>8, <1>11, <1>12 DEF Answers
<1>14. TxFits(operation, leaveRequests)
  BY <1>4, <1>7, <1>9, <1>11, <1>13 DEF TxFits
<1> QED
  BY <1>1, <1>14, LeaveBegins

(* An application waits for the engine, or is approved and deducted at once.   *)
LEMMA LeaveAsks ==
  ASSUME LeaveInv, NEW s \in Handlers, NEW r \in Applications, NEW from \in Leave!Days,
         NEW to \in Leave!Days, NEW override \in BOOLEAN, NEW waits \in BOOLEAN,
         Leave!BeginRequest(s, r, from, to, override, waits)
  PROVE  LeaveInv'
<1> DEFINE days == Leave!WorkingDays(from, to)
           over == days > Leave!Balance(from)
           row == [state |-> IF waits THEN "pending" ELSE "approved",
                   engine |-> IF waits THEN "pending" ELSE Leave!None,
                   from |-> from, days |-> days, entry |-> ~waits, override |-> over]
           e == [kind |-> "leave_taken", days |-> -days, on |-> leaveToday, period |-> 0,
                 expires |-> Leave!Never, request |-> r]
           T == IF waits THEN Leave!EmptyBag
                ELSE Leave!Entry("leave_taken", -days, leaveToday, 0, Leave!Never, r)
           operation == [op |-> "request", request |-> r, add |-> T, row |-> row]
<1>1. Leave!Starts(s, operation) /\ leaveRequests[r] = Leave!NoApplication
  BY DEF Leave!BeginRequest
<1>2. days \in Nat
  <2>1. from \in Int /\ to \in Int
    BY LeaveConstants
  <2>2. IsFiniteSet(from..to)
    BY <2>1, FS_Interval
  <2>3. IsFiniteSet((from..to) \ leaveHolidays)
    BY <2>2, FS_Subset
  <2>4. Cardinality((from..to) \ leaveHolidays) \in Nat
    BY <2>3, FS_CardinalityType
  <2>5. Leave!Cardinality((from..to) \ leaveHolidays) = Cardinality((from..to) \ leaveHolidays)
    BY DEF Leave!Cardinality, Cardinality
  <2> QED
    BY <2>4, <2>5 DEF Leave!WorkingDays
<1>3. over \in BOOLEAN
  OBVIOUS
<1> HIDE DEF over, days
<1>4. /\ row \in Leave!RequestRows /\ row.days = days /\ row.entry = ~waits
      /\ row.state = IF waits THEN "pending" ELSE "approved"
      /\ row.engine = IF waits THEN "pending" ELSE Leave!None
  BY <1>2, <1>3 DEF Leave!RequestRows
<1>5. e \in Leave!EntryRows /\ e.kind # "carry_forward" /\ e.request = r /\ e.days = -days
  <2>1. Leave!Never \in 1..Leave!Never /\ 0 \in Leave!Days \cup {0} /\ -days \in Int
    BY <1>2, LeaveConstants
  <2>2. leaveToday \in Leave!Days
    BY DEF LeaveInv, LeaveRowsInv
  <2> QED
    BY <2>1, <2>2 DEF Leave!EntryRows
<1>6. T = IF waits THEN Leave!EmptyBag ELSE Single(e)
  BY DEF Leave!Entry, Single
<1>7. operation.op = "request" /\ operation.request = r /\ operation.add = T /\ operation.row = row
  OBVIOUS
<1> HIDE DEF row, e, T, operation
<1>8. EntryBag(T) /\ OnceIn(T)
  BY <1>5, <1>6, SingleFits, EmptyIs
<1>9. Owes(leaveRequests[r]) = 0 /\ Owes(row) = IF waits THEN 0 ELSE -days
  BY <1>1, <1>4 DEF Owes, Leave!NoApplication, Leave!None
<1>10. Undecided(row) /\ "request" \in Leave!Operations
  BY <1>4 DEF Undecided, Leave!None, Leave!Operations
<1>11. \/ T = Leave!EmptyBag /\ Owes(row) = Owes(leaveRequests[r])
       \/ T = Single(e) /\ e.request = r /\ e.days = Owes(row) - Owes(leaveRequests[r])
  BY <1>2, <1>5, <1>6, <1>9
<1>12. Answers(operation, leaveRequests)
  BY <1>5, <1>7, <1>10, <1>11 DEF Answers
<1>13. TxFits(operation, leaveRequests)
  BY <1>4, <1>7, <1>8, <1>10, <1>12 DEF TxFits
<1> QED
  BY <1>1, <1>13, LeaveBegins

LEMMA LeaveStep == LeaveInv /\ [Leave!Next]_(Leave!vars) => LeaveInv'
<1> SUFFICES ASSUME LeaveInv, [Leave!Next]_(Leave!vars) PROVE LeaveInv'
  OBVIOUS
<1>0. /\ leaveToday \in Leave!Days /\ leaveHolidays \subseteq Leave!Days
      /\ leaveClosed \subseteq Leave!Days /\ leaveExit \in 1..Leave!Never
  BY DEF LeaveInv, LeaveRowsInv
<1>1. ASSUME NEW s \in Handlers, Leave!CommitAccrue(s) PROVE LeaveInv'
  <2>1. Leave!Commits(s, "accrue") /\ Rewrites(s, "accrue")
    BY <1>1 DEF Leave!CommitAccrue, Rewrites, Answered
  <2> QED
    BY <2>1, LeaveCommits
<1>2. ASSUME NEW s \in Handlers, Leave!CommitCarry(s) PROVE LeaveInv'
  <2>1. Leave!Commits(s, "carry") /\ Rewrites(s, "carry")
    BY <1>2 DEF Leave!CommitCarry, Rewrites, Answered
  <2> QED
    BY <2>1, LeaveCommits
<1>3. ASSUME NEW s \in Handlers, Leave!CommitDecide(s) PROVE LeaveInv'
  <2>1. Leave!Commits(s, "decide") /\ Rewrites(s, "decide")
    BY <1>3 DEF Leave!CommitDecide, Rewrites, Answered
  <2> QED
    BY <2>1, LeaveCommits
<1>4. ASSUME NEW s \in Handlers, Leave!CommitCancel(s) PROVE LeaveInv'
  <2>1. Leave!Commits(s, "cancel") /\ Rewrites(s, "cancel")
    BY <1>4 DEF Leave!CommitCancel, Rewrites, Answered
  <2> QED
    BY <2>1, LeaveCommits
<1>5. ASSUME Leave!Tick PROVE LeaveInv'
  <2>1. leaveToday' \in Leave!Days
    BY <1>0, <1>5, LeaveConstants DEF Leave!Tick
  <2> QED
    BY <1>0, <1>5, <2>1, LeaveStays DEF Leave!Tick
<1>6. ASSUME Leave!Leave PROVE LeaveInv'
  <2>1. leaveExit' \in 1..Leave!Never
    BY <1>0, <1>6, LeaveConstants DEF Leave!Leave
  <2> QED
    BY <1>0, <1>6, <2>1, LeaveStays DEF Leave!Leave
<1>7. ASSUME NEW d \in Movable, Leave!StateHoliday(d) \/ Leave!RemoveHoliday(d) PROVE LeaveInv'
  <2>1. leaveHolidays' \subseteq Leave!Days
    BY <1>0, <1>7, LeaveConstants DEF Leave!StateHoliday, Leave!RemoveHoliday
  <2> QED
    BY <1>0, <1>7, <2>1, LeaveStays DEF Leave!StateHoliday, Leave!RemoveHoliday
<1>8. ASSUME NEW m \in MonthEnds, Leave!LockPeriod(m) PROVE LeaveInv'
  <2>1. leaveClosed' \subseteq Leave!Days
    BY <1>0, <1>8 DEF Leave!LockPeriod
  <2> QED
    BY <1>0, <1>8, <2>1, LeaveStays DEF Leave!LockPeriod
<1>11. ASSUME NEW s \in Handlers, Leave!CommitRequest(s) PROVE LeaveInv'
  <2>1. Leave!Commits(s, "request") /\ Rewrites(s, "request")
    BY <1>11 DEF Leave!CommitRequest, Rewrites, Answered
  <2> QED
    BY <2>1, LeaveCommits
<1>9. CASE UNCHANGED Leave!vars
  BY <1>0, <1>9, LeaveStays DEF Leave!vars
<1>10. ASSUME Leave!Next PROVE LeaveInv'
  BY <1>1, <1>2, <1>3, <1>4, <1>5, <1>6, <1>7, <1>8, <1>10, <1>11, LeaveAccrues, LeaveCarries,
     LeaveDecides, LeaveCancels, LeaveAborts, LeaveAsks DEF Leave!Next
<1> QED
  BY <1>9, <1>10

LEMMA LeaveInvSuffices ==
  LeaveInv => Leave!TypeOK /\ Leave!OncePerPeriod /\ Leave!RestoresWhatItTook
<1> SUFFICES ASSUME LeaveInv
             PROVE  Leave!TypeOK /\ Leave!OncePerPeriod /\ Leave!RestoresWhatItTook
  OBVIOUS
<1>1. LeaveRowsInv /\ LeaveTxInv /\ LeaveSums
  BY DEF LeaveInv
<1>2. Leave!TypeOK
  <2>1. Leave!IsABag(leaveEntries) /\ Leave!BagToSet(leaveEntries) \subseteq Leave!EntryRows
    BY <1>1 DEF LeaveRowsInv, EntryBag, Leave!IsABag, Leave!BagToSet
  <2>2. \A s \in Handlers :
          leaveTx[s].op \in Leave!Operations /\ leaveTx[s].row \in Leave!RequestRows
    BY <1>1 DEF LeaveTxInv, TxFits
  <2> QED
    BY <1>1, <2>1, <2>2 DEF Leave!TypeOK, LeaveRowsInv, LeaveSums
<1>3. Leave!OncePerPeriod
  BY <1>1 DEF Leave!OncePerPeriod, LeaveRowsInv, OnceIn, Leave!BagToSet
<1>4. Leave!RestoresWhatItTook
  <2> SUFFICES ASSUME NEW r \in Applications
               PROVE  Leave!MapThenSumSet(LAMBDA e : e.days * leaveEntries[e],
                        {e \in Leave!BagToSet(leaveEntries) : e.request = r})
                        = IF leaveRequests[r].state = "approved" THEN -leaveRequests[r].days ELSE 0
    BY DEF Leave!RestoresWhatItTook
  <2>1. TakenOf(leaveEntries, r) = Owes(leaveRequests[r])
    BY <1>1 DEF LeaveSums
  <2>2. {e \in Leave!BagToSet(leaveEntries) : e.request = r} = RowsFor(leaveEntries, r)
    BY DEF Leave!BagToSet, RowsFor
  <2> QED
    BY <2>1, <2>2 DEF TakenOf, Owes
<1> QED
  BY <1>2, <1>3, <1>4

(* --------------------------- the chart of accounts ------------------------- *)

LEMMA BooksConstants ==
  /\ IsFiniteSet(Charted) /\ Accounts!NoParent \notin Charted
  /\ LastDay \in Nat \ {0} /\ MaxPosted \in Nat
  /\ \A n \in Charted : KindOf[n] \in Classes
  /\ \A S : Accounts!Cardinality(S) = Cardinality(S)
  /\ Cardinality(Charted) \in Nat
<1>1. \A S : Accounts!IsFiniteSet(S) <=> IsFiniteSet(S)
  BY DEF Accounts!IsFiniteSet, IsFiniteSet
<1>2. \A S : Accounts!Cardinality(S) = Cardinality(S)
  BY DEF Accounts!Cardinality, Cardinality
<1>3. Accounts!MasterTreeAssumption /\ Accounts!BooksAssumption
  BY OfficeParameters
<1> QED
  BY <1>1, <1>2, <1>3, FS_CardinalityType
     DEF Accounts!MasterTreeAssumption, Accounts!BooksAssumption, Accounts!Classes, Classes

(* What n may stand under, and that p and what is above it are without n.      *)
Under(n, p, rows) ==
  p # Accounts!NoParent => p \in Charted /\ rows[p] = "live" /\ KindOf[p] = KindOf[n]
Outside(n, p, above) == \E W \in SUBSET Charted :
  /\ n \notin W /\ (p \in Charted => p \in W)
  /\ \A m \in W : above[m] \in Charted => above[m] \in W

(* What a request found when it began, or its trigger, still holds.            *)
StillHolds(r, rows, above) ==
  /\ r.op = "none" => r = Accounts!Idle
  /\ r.op # "none" => r.node \in Charted
  /\ r.op = "create" => rows[r.node] = "absent" /\ Under(r.node, r.parent, rows)
  /\ r.op = "move" => rows[r.node] = "live" /\ Under(r.node, r.parent, rows)
  /\ r.op = "move" /\ r.checked => Outside(r.node, r.parent, above)
  /\ r.op = "retire" => \A m \in Charted : rows[m] = "live" => above[m] # r.node

OneRequest == \A s, o \in Clerks :
  bookTx[s] # Accounts!Idle /\ bookTx[o] # Accounts!Idle => s = o
ChartInv ==
  /\ Accounts!TreeTypeOK
  /\ OneRequest
  /\ \A s \in Clerks : StillHolds(bookTx[s], bookState, bookParent)
  /\ \A n \in Charted : bookState[n] = "live" => Under(n, bookParent[n], bookState)
  /\ \A n \in Charted : bookParent[n] \in Charted => bookState[bookParent[n]] # "absent"
  /\ \E depth : Falls(Charted, depth, bookParent)

LEMMA MayStandIs ==
  ASSUME NEW n \in Charted, NEW p \in Charted \cup {Accounts!NoParent}
  PROVE  Accounts!MayStand(n, p) <=> Under(n, p, bookState)
<1>1. KindOf[n] \in Classes /\ Accounts!NoParent \notin Charted
  BY BooksConstants
<1>2. CASE p = Accounts!NoParent
  BY <1>1, <1>2 DEF Accounts!MayStand, Under
<1>3. CASE p # Accounts!NoParent
  <2>1. <<KindOf[n], KindOf[p]>> \in {<<c, c>> : c \in Classes} <=> KindOf[p] = KindOf[n]
    BY <1>1
  <2> QED
    BY <1>3, <2>1 DEF Accounts!MayStand, Accounts!Live, Under
<1> QED
  BY <1>2, <1>3

LEMMA ChartStarts == Accounts!TreeInit => ChartInv
<1> SUFFICES ASSUME Accounts!TreeInit PROVE ChartInv
  OBVIOUS
<1>1. /\ bookState = [n \in Charted |-> "absent"]
      /\ bookParent = [n \in Charted |-> Accounts!NoParent]
      /\ bookTx = [s \in Clerks |-> Accounts!Idle]
  BY DEF Accounts!TreeInit
<1>2. Accounts!TreeTypeOK
  BY <1>1 DEF Accounts!TreeTypeOK, Accounts!TreeRequests, Accounts!Idle
<1>3. Falls(Charted, [n \in Charted |-> 0], bookParent)
  BY <1>1, BooksConstants DEF Falls
<1>4. \A s \in Clerks : StillHolds(bookTx[s], bookState, bookParent)
  BY <1>1 DEF StillHolds, Accounts!Idle
<1>5. OneRequest
  BY <1>1 DEF OneRequest
<1>6. \A n \in Charted : /\ bookState[n] # "live" /\ bookParent[n] \notin Charted
  BY <1>1, BooksConstants
<1> QED
  BY <1>2, <1>3, <1>4, <1>5, <1>6 DEF ChartInv

(* ----------------------------- what is above a row ------------------------- *)

ClimbRows(T) == T \cup {bookParent[m] : m \in T \cap Charted}
ClimbsFrom(above, n) ==
  above = [k \in 0..Accounts!Cardinality(Charted) |->
             IF k = 0 THEN {bookParent[n]}
             ELSE above[k - 1] \cup {bookParent[m] : m \in above[k - 1] \cap Charted}]

LEMMA AncestorsAreChosen ==
  ASSUME NEW n
  PROVE  Accounts!Ancestors(n)
           = (CHOOSE above : ClimbsFrom(above, n))[Accounts!Cardinality(Charted)] \cap Charted
BY DEF Accounts!Ancestors, ClimbsFrom

WalksUp(v, n, C) ==
  /\ v \in [0..C -> SUBSET (Charted \cup {Accounts!NoParent})]
  /\ v[0] = {bookParent[n]}
  /\ \A k \in 1..C : k - 1 \in 0..C /\ v[k] = ClimbRows(v[k - 1])
  /\ Accounts!Ancestors(n) = v[C] \cap Charted

LEMMA AncestorsWalk ==
  ASSUME bookParent \in [Charted -> Charted \cup {Accounts!NoParent}], NEW n \in Charted,
         NEW C, C = Cardinality(Charted)
  PROVE  \E v : WalksUp(v, n, C)
<1> DEFINE A == SUBSET (Charted \cup {Accounts!NoParent})
           step == [p \in A \X (1..C) |-> ClimbRows(p[1])]
<1>1. C \in Nat
  BY BooksConstants
<1>2. Stepping(step, A, C)
  BY DEF Stepping, ClimbRows
<1>3. {bookParent[n]} \in A
  OBVIOUS
<1>4. \A T \in A, k \in 1..C : step[<<T, k>>] = ClimbRows(T)
  OBVIOUS
<1> HIDE DEF step, A
<1>5. PICK f : Iterates(f, step, A, {bookParent[n]}, C)
  BY <1>1, <1>2, <1>3, IterationExists
<1>6. ClimbsFrom(f, n)
  <2>1. /\ f \in [0..C -> A] /\ f[0] = {bookParent[n]} /\ \A k \in 1..C : k - 1 \in 0..C
        /\ \A k \in 1..C : f[k] = step[<<f[k - 1], k>>]
    BY <1>1, <1>5 DEF Iterates
  <2>2. \A k \in 1..C : f[k - 1] \in A
    BY <2>1
  <2>3. \A k \in 1..C : f[k] = ClimbRows(f[k - 1])
    BY <1>4, <2>1, <2>2
  <2>4. f = [k \in 0..C |-> f[k]]
    BY <2>1
  <2>5. \A k \in 0..C : f[k] = IF k = 0 THEN {bookParent[n]} ELSE
          f[k - 1] \cup {bookParent[m] : m \in f[k - 1] \cap Charted}
    BY <1>1, <2>1, <2>3 DEF ClimbRows
  <2> QED
    BY <2>4, <2>5, BooksConstants DEF ClimbsFrom
<1> DEFINE v == CHOOSE above : ClimbsFrom(above, n)
<1>7. ClimbsFrom(v, n)
  BY <1>6
<1>8. Accounts!Ancestors(n) = v[C] \cap Charted
  BY AncestorsAreChosen, BooksConstants
<1> HIDE DEF v
<1>9. v = [k \in 0..C |-> IF k = 0 THEN {bookParent[n]} ELSE
          v[k - 1] \cup {bookParent[m] : m \in v[k - 1] \cap Charted}]
  BY <1>7, BooksConstants DEF ClimbsFrom
<1>10. /\ DOMAIN v = 0..C /\ v[0] = {bookParent[n]}
       /\ \A k \in 1..C : v[k] = ClimbRows(v[k - 1])
  <2>1. DOMAIN v = 0..C /\ v[0] = {bookParent[n]}
    BY <1>1, <1>9
  <2>2. ASSUME NEW k \in 1..C
        PROVE  v[k] = v[k - 1] \cup {bookParent[m] : m \in v[k - 1] \cap Charted}
    <3>1. k \in 0..C /\ k # 0
      BY <1>1
    <3> QED
      BY <1>9, <3>1
  <2> QED
    BY <2>1, <2>2 DEF ClimbRows
<1>11. Iterates(v, step, A, {bookParent[n]}, C)
  <2>1. \A k \in 1..C : v[k - 1] \in A => v[k] = step[<<v[k - 1], k>>]
    BY <1>4, <1>10
  <2>2. v = [k \in 0..C |-> v[k]]
    BY <1>9
  <2> QED
    BY <1>1, <1>2, <1>3, <1>10, <2>1, <2>2, IterationRuns
<1>12. v \in [0..C -> A] /\ \A k \in 1..C : k - 1 \in 0..C
  BY <1>1, <1>11 DEF Iterates
<1> QED
  BY <1>8, <1>10, <1>12 DEF A, WalksUp

(* A row that is not met on the way up from p is outside of what is above p.   *)
LEMMA AncestorsClose ==
  ASSUME bookParent \in [Charted -> Charted \cup {Accounts!NoParent}],
         NEW n \in Charted, NEW p \in Charted, n # p, n \notin Accounts!Ancestors(p)
  PROVE  Outside(n, p, bookParent)
<1>1. PICK C \in Nat : C = Cardinality(Charted)
  BY BooksConstants
<1>w. PICK v : WalksUp(v, p, C)
  BY <1>1, AncestorsWalk
<1>2. /\ v \in [0..C -> SUBSET (Charted \cup {Accounts!NoParent})]
      /\ v[0] = {bookParent[p]}
      /\ \A k \in 1..C : k - 1 \in 0..C /\ v[k] = ClimbRows(v[k - 1])
      /\ Accounts!Ancestors(p) = v[C] \cap Charted
  BY <1>w DEF WalksUp
<1>3. CASE bookParent[p] \notin Charted
  <2>1. {p} \in SUBSET Charted
    OBVIOUS
  <2> QED
    BY <1>3, <2>1 DEF Outside
<1>4. CASE bookParent[p] \in Charted
  <2> DEFINE V == [k \in 0..C |-> v[k] \cap Charted]
             g == [T \in SUBSET Charted |-> T \cup ({bookParent[m] : m \in T} \cap Charted)]
  <2>1. g \in [SUBSET Charted -> SUBSET Charted] /\ \A T \in SUBSET Charted : T \subseteq g[T]
    OBVIOUS
  <2>2. V \in [0..C -> SUBSET Charted] /\ V[0] = {bookParent[p]} /\ V[0] # {}
    BY <1>1, <1>2, <1>4
  <2>3. ASSUME NEW k \in 1..C PROVE V[k] = g[V[k - 1]]
    <3>1. k \in 0..C /\ k - 1 \in 0..C
      BY <1>1
    <3>2. V[k] = ClimbRows(v[k - 1]) \cap Charted /\ V[k - 1] = v[k - 1] \cap Charted
      BY <1>2, <3>1
    <3>3. g[V[k - 1]] = V[k - 1] \cup ({bookParent[m] : m \in V[k - 1]} \cap Charted)
      BY <2>2, <3>1
    <3> HIDE DEF V, g
    <3>4. \A T : ClimbRows(T) \cap Charted
                  = (T \cap Charted) \cup ({bookParent[m] : m \in T \cap Charted} \cap Charted)
      BY DEF ClimbRows
    <3>5. V[k] = V[k - 1] \cup ({bookParent[m] : m \in V[k - 1]} \cap Charted)
      BY <3>2, <3>4
    <3> QED
      BY <3>3, <3>5
  <2>4. V[C] = v[C] \cap Charted /\ V[C] \in SUBSET Charted
    BY <1>1, <2>2
  <2>5. g[V[C]] = V[C] \cup ({bookParent[m] : m \in V[C]} \cap Charted)
    <3> HIDE DEF V
    <3> QED
      BY <2>4
  <2> HIDE DEF V, g
  <2>6. V[0] \subseteq V[C] /\ g[V[C]] = V[C]
    BY <1>1, <2>1, <2>2, <2>3, BooksConstants, WalkCloses
  <2> DEFINE W == V[C] \cup {p}
  <2>7. \A m \in W : bookParent[m] \in Charted => bookParent[m] \in W
    BY <2>2, <2>4, <2>6, <2>5
  <2>8. n \notin W /\ p \in W /\ W \in SUBSET Charted
    BY <1>2, <2>4
  <2> HIDE DEF W
  <2> QED
    BY <2>7, <2>8 DEF Outside
<1> QED
  BY <1>3, <1>4

(* What has a depth does not come back.                                        *)
LEMMA AncestorsAreHigher ==
  ASSUME bookParent \in [Charted -> Charted \cup {Accounts!NoParent}], NEW n \in Charted,
         NEW depth, Falls(Charted, depth, bookParent)
  PROVE  n \notin Accounts!Ancestors(n)
<1>1. PICK C \in Nat : C = Cardinality(Charted)
  BY BooksConstants
<1>w. PICK v : WalksUp(v, n, C)
  BY <1>1, AncestorsWalk
<1>2. /\ v \in [0..C -> SUBSET (Charted \cup {Accounts!NoParent})]
      /\ v[0] = {bookParent[n]}
      /\ \A k \in 1..C : k - 1 \in 0..C /\ v[k] = ClimbRows(v[k - 1])
      /\ Accounts!Ancestors(n) = v[C] \cap Charted
  BY <1>w DEF WalksUp
<1>3. /\ depth \in [Charted -> Nat]
      /\ \A e \in Charted : bookParent[e] \in Charted => depth[bookParent[e]] < depth[e]
  BY DEF Falls
<1> DEFINE Bad == {k \in 0..C : \E m \in v[k] \cap Charted : ~(depth[m] < depth[n])}
<1>4. ASSUME Bad # {} PROVE FALSE
  <2>1. Bad \in SUBSET Nat
    BY <1>1
  <2>2. PICK k \in Bad : \A j \in Bad : k <= j
    <3> HIDE DEF Bad
    <3> QED
      BY <1>4, <2>1, LeastOf
  <2>3. PICK m \in v[k] \cap Charted : ~(depth[m] < depth[n])
    BY <2>2
  <2>4. CASE k = 0
    BY <1>2, <1>3, <2>3, <2>4
  <2>5. CASE k # 0
    <3>1. k \in 1..C /\ k - 1 \in 0..C /\ k - 1 \notin Bad
      BY <1>1, <2>2, <2>5
    <3>2. \A o \in v[k - 1] \cap Charted : depth[o] < depth[n]
      BY <3>1
    <3>3. m \in v[k - 1] \/ \E o \in v[k - 1] \cap Charted : m = bookParent[o]
      BY <1>2, <2>3, <3>1 DEF ClimbRows
    <3>4. m \notin v[k - 1]
      BY <2>3, <3>2
    <3>5. PICK o \in v[k - 1] \cap Charted : m = bookParent[o]
      BY <3>3, <3>4
    <3>6. depth[m] < depth[o] /\ depth[o] < depth[n] /\ depth[m] \in Nat /\ depth[o] \in Nat
          /\ depth[n] \in Nat
      BY <1>3, <2>3, <3>2, <3>5
    <3> QED
      BY <2>3, <3>6
  <2> QED
    BY <2>4, <2>5
<1>5. \A m \in v[C] \cap Charted : depth[m] < depth[n]
  BY <1>1, <1>4
<1>6. ~(depth[n] < depth[n])
  BY <1>3
<1> QED
  BY <1>2, <1>5, <1>6

LEMMA ChartTxIs ==
  ASSUME ChartInv, NEW s \in Clerks
  PROVE  /\ bookTx[s] \in Accounts!TreeRequests
         /\ StillHolds(bookTx[s], bookState, bookParent)
BY DEF ChartInv, Accounts!TreeTypeOK

LEMMA ChartKeeps ==
  ASSUME ChartInv, UNCHANGED <<bookState, bookParent, bookTx>>
  PROVE  ChartInv'
BY DEF ChartInv, Accounts!TreeTypeOK, OneRequest, StillHolds, Under, Outside, Falls

LEMMA IdleHolds ==
  ASSUME NEW rows, NEW above
  PROVE  StillHolds(Accounts!Idle, rows, above) /\ Accounts!Idle \in Accounts!TreeRequests
BY DEF StillHolds, Accounts!Idle, Accounts!TreeRequests

(* A request that is opened, checked or ended leaves the rows alone.           *)
LEMMA ChartRequest ==
  ASSUME ChartInv, NEW s \in Clerks, NEW r \in Accounts!TreeRequests,
         bookTx' = [bookTx EXCEPT ![s] = r], UNCHANGED <<bookState, bookParent>>,
         StillHolds(r, bookState, bookParent),
         r # Accounts!Idle => \A o \in Clerks : o # s => bookTx[o] = Accounts!Idle
  PROVE  ChartInv'
<1>1. bookTx \in [Clerks -> Accounts!TreeRequests]
  BY DEF ChartInv, Accounts!TreeTypeOK
<1>2. \A o \in Clerks : bookTx'[o] = IF o = s THEN r ELSE bookTx[o]
  BY <1>1
<1>3. Accounts!TreeTypeOK'
  BY <1>1 DEF ChartInv, Accounts!TreeTypeOK
<1>4. OneRequest'
  BY <1>2 DEF ChartInv, OneRequest
<1>5. \A o \in Clerks : StillHolds(bookTx'[o], bookState', bookParent')
  BY <1>2 DEF ChartInv
<1>6. /\ \A n \in Charted : bookState'[n] = "live" => Under(n, bookParent'[n], bookState')
      /\ \A n \in Charted : bookParent'[n] \in Charted => bookState'[bookParent'[n]] # "absent"
      /\ \E depth : Falls(Charted, depth, bookParent')
  BY DEF ChartInv
<1> QED
  BY <1>3, <1>4, <1>5, <1>6 DEF ChartInv, StillHolds, Under, Outside, Falls

LEMMA ChartBegins ==
  ASSUME ChartInv, NEW s \in Clerks, NEW n \in Charted,
         NEW p \in Charted \cup {Accounts!NoParent},
         Accounts!BeginCreate(s, n, p) \/ Accounts!BeginMove(s, n, p)
           \/ (Accounts!BeginRetire(s, n) /\ p = Accounts!NoParent)
  PROVE  ChartInv'
<1> DEFINE r(op) == [op |-> op, node |-> n, parent |-> p, checked |-> FALSE]
<1>1. PICK op \in {"create", "move", "retire"} :
        /\ Accounts!Begins(s, op, n, p)
        /\ op = "create" => bookState[n] = "absent" /\ Accounts!MayStand(n, p)
        /\ op = "move" => bookState[n] = "live" /\ Accounts!MayStand(n, p)
        /\ op = "retire" => Accounts!Children(n) = {}
  BY DEF Accounts!BeginCreate, Accounts!BeginMove, Accounts!BeginRetire, Accounts!Live
<1>2. /\ bookTx' = [bookTx EXCEPT ![s] = r(op)] /\ UNCHANGED <<bookState, bookParent>>
      /\ \A o \in Clerks : bookTx[o] = Accounts!Idle
  BY <1>1 DEF Accounts!Begins
<1>3. r(op) \in Accounts!TreeRequests
  BY <1>1 DEF Accounts!TreeRequests
<1>4. StillHolds(r(op), bookState, bookParent)
  <2>1. op \in {"create", "move"} => Under(n, p, bookState)
    BY <1>1, MayStandIs
  <2>2. op = "retire" => \A m \in Charted : bookState[m] = "live" => bookParent[m] # n
    BY <1>1 DEF Accounts!Children, Accounts!Live
  <2> QED
    BY <1>1, <2>1, <2>2 DEF StillHolds
<1> HIDE DEF r
<1> QED
  BY <1>2, <1>3, <1>4, ChartRequest

LEMMA ChartAborts ==
  ASSUME ChartInv, NEW s \in Clerks, Accounts!Abort(s)
  PROVE  ChartInv'
BY IdleHolds, ChartRequest DEF Accounts!Abort

LEMMA OthersAreIdle ==
  ASSUME ChartInv, NEW s \in Clerks, bookTx[s] # Accounts!Idle
  PROVE  \A o \in Clerks : o # s => bookTx[o] = Accounts!Idle
BY DEF ChartInv, OneRequest

LEMMA ChartChecks ==
  ASSUME ChartInv, NEW s \in Clerks, Accounts!Check(s)
  PROVE  ChartInv'
<1> DEFINE t == bookTx[s]
           r == [t EXCEPT !.checked = TRUE]
<1>1. /\ t # Accounts!Idle /\ ~t.checked /\ Accounts!Sound(t)
      /\ bookTx' = [bookTx EXCEPT ![s].checked = TRUE] /\ UNCHANGED <<bookState, bookParent>>
  BY DEF Accounts!Check
<1>2. t \in Accounts!TreeRequests /\ StillHolds(t, bookState, bookParent)
  BY ChartTxIs
<1>3. bookTx \in [Clerks -> Accounts!TreeRequests]
  BY DEF ChartInv, Accounts!TreeTypeOK
<1>4. /\ bookTx' = [bookTx EXCEPT ![s] = r] /\ r \in Accounts!TreeRequests
      /\ r.op = t.op /\ r.node = t.node /\ r.parent = t.parent /\ r.checked
  BY <1>1, <1>2, <1>3 DEF Accounts!TreeRequests
<1>5. t.op # "none" /\ t.node \in Charted
  BY <1>1, <1>2 DEF StillHolds
<1>6. r.op = "move" => Outside(r.node, r.parent, bookParent)
  <2>1. SUFFICES ASSUME t.op = "move" PROVE Outside(t.node, t.parent, bookParent)
    BY <1>4
  <2>2. t.parent \in Charted \cup {Accounts!NoParent} /\ t.node # t.parent
        /\ (t.parent # Accounts!NoParent => t.node \notin Accounts!Ancestors(t.parent))
    BY <1>1, <1>2, <2>1 DEF Accounts!Sound, Accounts!TreeRequests
  <2>3. CASE t.parent = Accounts!NoParent
    <3>1. {} \in SUBSET Charted /\ t.parent \notin Charted
      BY <2>3, BooksConstants
    <3> HIDE DEF t
    <3> QED
      BY <3>1 DEF Outside
  <2>4. CASE t.parent # Accounts!NoParent
    <3>1. bookParent \in [Charted -> Charted \cup {Accounts!NoParent}]
      BY DEF ChartInv, Accounts!TreeTypeOK
    <3> HIDE DEF t
    <3> QED
      BY <1>5, <2>2, <2>4, <3>1, AncestorsClose
  <2> QED
    BY <2>3, <2>4
<1>7. StillHolds(r, bookState, bookParent)
  <2> HIDE DEF r, t
  <2> QED
    BY <1>2, <1>4, <1>5, <1>6 DEF StillHolds
<1>8. \A o \in Clerks : o # s => bookTx[o] = Accounts!Idle
  BY <1>1, OthersAreIdle
<1> HIDE DEF r, t
<1> QED
  BY <1>1, <1>4, <1>7, <1>8, ChartRequest

(* The row is written as the request says.                                     *)
LEMMA ChartCommits ==
  ASSUME ChartInv, NEW s \in Clerks, Accounts!Commit(s)
  PROVE  ChartInv'
<1> DEFINE t == bookTx[s]
<1>1. t \in Accounts!TreeRequests /\ StillHolds(t, bookState, bookParent)
  BY ChartTxIs
<1>2. t.checked /\ t # Accounts!Idle /\ t.op \in {"create", "move", "retire"} /\ t.node \in Charted
      /\ t.parent \in Charted \cup {Accounts!NoParent}
  BY <1>1 DEF Accounts!Commit, Accounts!Idle, StillHolds, Accounts!TreeRequests
<1>3. PICK n \in Charted, p \in Charted \cup {Accounts!NoParent}, op \in {"create", "move", "retire"} :
        n = t.node /\ p = t.parent /\ op = t.op
  BY <1>2
<1>4. /\ op = "create" => bookState' = [bookState EXCEPT ![n] = "live"]
      /\ op = "retire" => bookState' = [bookState EXCEPT ![n] = "retired"]
      /\ op = "move" => bookState' = bookState
      /\ op = "retire" => bookParent' = bookParent
      /\ op # "retire" => bookParent' = [bookParent EXCEPT ![n] = p]
      /\ bookTx' = [bookTx EXCEPT ![s] = Accounts!Idle]
  BY <1>3 DEF Accounts!Commit
<1>5. /\ op = "create" => bookState[n] = "absent" /\ Under(n, p, bookState)
      /\ op = "move" => bookState[n] = "live" /\ Under(n, p, bookState)
                          /\ Outside(n, p, bookParent)
      /\ op = "retire" => \A m \in Charted : bookState[m] = "live" => bookParent[m] # n
  BY <1>1, <1>2, <1>3 DEF StillHolds
<1> HIDE DEF t
<1>6. /\ bookState \in [Charted -> {"absent", "live", "retired"}]
      /\ bookParent \in [Charted -> Charted \cup {Accounts!NoParent}]
      /\ bookTx \in [Clerks -> Accounts!TreeRequests]
      /\ \A m \in Charted : bookState[m] = "live" => Under(m, bookParent[m], bookState)
      /\ \A m \in Charted : bookParent[m] \in Charted => bookState[bookParent[m]] # "absent"
      /\ \A o \in Clerks : o # s => bookTx[o] = Accounts!Idle
  <2>1. \A o \in Clerks : o # s => bookTx[o] = Accounts!Idle
    BY <1>2, OthersAreIdle DEF t
  <2> QED
    BY <2>1 DEF ChartInv, Accounts!TreeTypeOK
<1>7. PICK depth : Falls(Charted, depth, bookParent)
  BY DEF ChartInv
<1>8. Accounts!NoParent \notin Charted
  BY BooksConstants
<1>9. \A m \in Charted : bookState'[m] =
        IF m = n /\ op = "create" THEN "live"
        ELSE IF m = n /\ op = "retire" THEN "retired" ELSE bookState[m]
  BY <1>3, <1>4, <1>6
<1>10. \A m \in Charted : bookParent'[m] = IF m = n /\ op # "retire" THEN p ELSE bookParent[m]
  BY <1>4, <1>6
<1>11. Accounts!TreeTypeOK'
  <2>1. bookState' \in [Charted -> {"absent", "live", "retired"}]
    BY <1>3, <1>4, <1>6
  <2>2. bookParent' \in [Charted -> Charted \cup {Accounts!NoParent}]
    BY <1>3, <1>4, <1>6
  <2>3. bookTx' \in [Clerks -> Accounts!TreeRequests]
    BY <1>4, <1>6, IdleHolds
  <2> QED
    BY <2>1, <2>2, <2>3 DEF Accounts!TreeTypeOK
<1>12. \A o \in Clerks : bookTx'[o] = Accounts!Idle
  BY <1>4, <1>6
<1>13. \A m \in Charted : bookState'[m] = "live" => Under(m, bookParent'[m], bookState')
  <2> SUFFICES ASSUME NEW m \in Charted, bookState'[m] = "live"
               PROVE  Under(m, bookParent'[m], bookState')
    OBVIOUS
  <2>1. Under(m, bookParent'[m], bookState) /\ (op = "retire" => bookParent'[m] # n)
    BY <1>3, <1>5, <1>6, <1>9, <1>10
  <2> QED
    BY <1>9, <2>1 DEF Under
<1>14. \A m \in Charted : bookParent'[m] \in Charted => bookState'[bookParent'[m]] # "absent"
  <2> SUFFICES ASSUME NEW m \in Charted, bookParent'[m] \in Charted
               PROVE  bookState'[bookParent'[m]] # "absent"
    OBVIOUS
  <2>1. bookState[bookParent'[m]] # "absent"
    <3>1. op # "retire" => Under(n, p, bookState)
      BY <1>3, <1>5
    <3> QED
      BY <1>6, <1>8, <1>10, <3>1 DEF Under
  <2> QED
    BY <1>9, <2>1
<1>15. \E d : Falls(Charted, d, bookParent')
  <2>1. CASE op = "retire"
    BY <1>4, <1>7, <2>1
  <2>2. CASE op # "retire"
    <3>1. \E W \in SUBSET Charted : /\ n \notin W /\ (p \in Charted => p \in W)
                                    /\ \A m \in W : bookParent[m] \in Charted => bookParent[m] \in W
      <4>1. CASE op = "move"
        BY <1>5, <4>1 DEF Outside
      <4>2. CASE op = "create"
        <5> DEFINE W == Charted \ {n}
        <5>1. p # n
          BY <1>5, <1>8, <4>2 DEF Under
        <5>2. \A m \in W : bookParent[m] \in Charted => bookParent[m] \in W
          BY <1>5, <1>6, <4>2
        <5> QED
          BY <5>1, <5>2
      <4> QED
        BY <1>3, <2>2, <4>1, <4>2
    <3>2. DOMAIN bookParent = Charted
      BY <1>6
    <3>3. \E d : Falls(Charted, d, [bookParent EXCEPT ![n] = p])
      BY <1>7, <3>1, <3>2, FallsWhenPlaced
    <3> QED
      BY <1>4, <2>2, <3>3
  <2> QED
    BY <2>1, <2>2
<1>16. OneRequest'
  BY <1>12 DEF OneRequest
<1>17. \A o \in Clerks : StillHolds(bookTx'[o], bookState', bookParent')
  BY <1>12, IdleHolds
<1> QED
  BY <1>11, <1>13, <1>14, <1>15, <1>16, <1>17 DEF ChartInv, StillHolds, Under, Outside, Falls

LEMMA ChartSuffices == ChartInv => Accounts!TreeIsWhole
<1> SUFFICES ASSUME ChartInv PROVE Accounts!TreeIsWhole
  OBVIOUS
<1>1. bookParent \in [Charted -> Charted \cup {Accounts!NoParent}]
  BY DEF ChartInv, Accounts!TreeTypeOK
<1>2. PICK depth : Falls(Charted, depth, bookParent)
  BY DEF ChartInv
<1>3. \A n \in Charted : n \notin Accounts!Ancestors(n)
  BY <1>1, <1>2, AncestorsAreHigher
<1>4. ASSUME NEW n \in Accounts!Live PROVE Accounts!MayStand(n, bookParent[n])
  <2>1. n \in Charted /\ bookState[n] = "live"
    BY DEF Accounts!Live
  <2>2. Under(n, bookParent[n], bookState) /\ bookParent[n] \in Charted \cup {Accounts!NoParent}
    BY <1>1, <2>1 DEF ChartInv
  <2> QED
    BY <2>1, <2>2, MayStandIs
<1> QED
  BY <1>3, <1>4 DEF Accounts!TreeIsWhole

(* ------------------------- sums of what was posted ------------------------- *)

Cell == [c \in Accounts!Cells |-> bookLedger[c[1]][c[2]][c[3]]]
Flow(D, A, B) == SumOver(Cell, D \X A \X B)
LedgerTyped == bookLedger \in [Accounts!Days -> [Charted -> [Charted -> 0..MaxPosted]]]

LEMMA TotalIsSum ==
  ASSUME NEW S \in SUBSET Accounts!Cells
  PROVE  Accounts!Total(S) = SumOver(Cell, S)
<1> DEFINE Plus(it, s) == IF s = {} THEN 0
                          ELSE bookLedger[First(s)[1]][First(s)[2]][First(s)[3]] + it[s \ {First(s)}]
<1>1. ASSUME NEW it, NEW s \in SUBSET S PROVE Plus(it, s) = Added(Cell, it, s)
  <2>1. s # {} => First(s) \in Accounts!Cells
    BY DEF First
  <2> QED
    BY <2>1 DEF Added, Cell
<1>2. ASSUME NEW it PROVE [s \in SUBSET S |-> Plus(it, s)] = [s \in SUBSET S |-> Added(Cell, it, s)]
  BY <1>1
<1>3. (CHOOSE it : it = [s \in SUBSET S |-> Plus(it, s)]) = CHOOSE it : Adds(Cell, SUBSET S, it)
  BY <1>2 DEF Adds
<1>4. SumOver(Cell, S) = (CHOOSE it : Adds(Cell, SUBSET S, it))[S]
  BY SumIsChosen
<1>5. Accounts!Total(S) = (CHOOSE it : it = [s \in SUBSET S |-> Plus(it, s)])[S]
  BY DEF Accounts!Total, Accounts!MapThenSumSet, Accounts!MapThenFoldSet, First
<1> QED
  BY <1>3, <1>4, <1>5

LEMMA DaysAre == Accounts!Days = 1..LastDay /\ IsFiniteSet(Accounts!Days)
BY BooksConstants, FS_Interval DEF Accounts!Days

LEMMA CellsAreFinite ==
  IsFiniteSet(Accounts!Cells) /\ \A S \in SUBSET Accounts!Cells : IsFiniteSet(S)
<1> DEFINE T == (Accounts!Days \X Charted) \X Charted
           f == [c \in Accounts!Cells |-> <<<<c[1], c[2]>>, c[3]>>]
<1>1. IsFiniteSet(T)
  BY DaysAre, BooksConstants, FS_Product
<1>2. f \in Injection(Accounts!Cells, T)
  BY DEF Injection, IsInjective, Accounts!Cells
<1> HIDE DEF f, T
<1> QED
  BY <1>1, <1>2, FS_Injection, FS_Subset

LEMMA CellIs ==
  ASSUME LedgerTyped
  PROVE  \A c \in Accounts!Cells : Cell[c] \in Nat /\ Cell[c] \in Int /\ Cell[c] <= MaxPosted
BY BooksConstants DEF LedgerTyped, Cell, Accounts!Cells

(* The flows of parts add up.                                                  *)
LEMMA FlowsAddUp ==
  ASSUME LedgerTyped, NEW S \in SUBSET Accounts!Cells, NEW A \in SUBSET Accounts!Cells, S \cap A = {}
  PROVE  /\ SumOver(Cell, S \cup A) = SumOver(Cell, S) + SumOver(Cell, A)
         /\ SumOver(Cell, S) \in Int /\ SumOver(Cell, A) \in Int
<1>1. IsFiniteSet(S) /\ IsFiniteSet(A) /\ \A x \in S \cup A : Cell[x] \in Int
  BY CellsAreFinite, CellIs
<1> QED
  BY <1>1, SumOfParts, SumTakesAny

LEMMA FlowIsInt ==
  ASSUME LedgerTyped, NEW D \in SUBSET Accounts!Days, NEW A \in SUBSET Charted, NEW B \in SUBSET Charted
  PROVE  Flow(D, A, B) \in Int /\ D \X A \X B \in SUBSET Accounts!Cells
<1>1. D \X A \X B \in SUBSET Accounts!Cells
  BY DEF Accounts!Cells
<1>2. {} \in SUBSET Accounts!Cells
  OBVIOUS
<1> QED
  BY <1>1, <1>2, FlowsAddUp DEF Flow

LEMMA FlowByDay ==
  ASSUME LedgerTyped, NEW D \in SUBSET Accounts!Days, NEW E \in SUBSET Accounts!Days, D \cap E = {},
         NEW A \in SUBSET Charted, NEW B \in SUBSET Charted
  PROVE  Flow(D \cup E, A, B) = Flow(D, A, B) + Flow(E, A, B)
<1>1. D \X A \X B \in SUBSET Accounts!Cells /\ E \X A \X B \in SUBSET Accounts!Cells
  BY FlowIsInt
<1>2. (D \cup E) \X A \X B = (D \X A \X B) \cup (E \X A \X B)
      /\ (D \X A \X B) \cap (E \X A \X B) = {}
  OBVIOUS
<1> QED
  BY <1>1, <1>2, FlowsAddUp DEF Flow

LEMMA FlowByDebit ==
  ASSUME LedgerTyped, NEW D \in SUBSET Accounts!Days, NEW A \in SUBSET Charted,
         NEW B \in SUBSET Charted, NEW E \in SUBSET Charted, A \cap E = {}
  PROVE  Flow(D, A \cup E, B) = Flow(D, A, B) + Flow(D, E, B)
<1>1. D \X A \X B \in SUBSET Accounts!Cells /\ D \X E \X B \in SUBSET Accounts!Cells
  BY FlowIsInt
<1>2. D \X (A \cup E) \X B = (D \X A \X B) \cup (D \X E \X B)
      /\ (D \X A \X B) \cap (D \X E \X B) = {}
  OBVIOUS
<1> QED
  BY <1>1, <1>2, FlowsAddUp DEF Flow

LEMMA FlowByCredit ==
  ASSUME LedgerTyped, NEW D \in SUBSET Accounts!Days, NEW A \in SUBSET Charted,
         NEW B \in SUBSET Charted, NEW E \in SUBSET Charted, B \cap E = {}
  PROVE  Flow(D, A, B \cup E) = Flow(D, A, B) + Flow(D, A, E)
<1>1. D \X A \X B \in SUBSET Accounts!Cells /\ D \X A \X E \in SUBSET Accounts!Cells
  BY FlowIsInt
<1>2. D \X A \X (B \cup E) = (D \X A \X B) \cup (D \X A \X E)
      /\ (D \X A \X B) \cap (D \X A \X E) = {}
  OBVIOUS
<1> QED
  BY <1>1, <1>2, FlowsAddUp DEF Flow

LEMMA NoFlow ==
  ASSUME NEW D, NEW A, NEW B, D = {} \/ A = {} \/ B = {}
  PROVE  Flow(D, A, B) = 0
<1>1. D \X A \X B = {}
  OBVIOUS
<1> QED
  BY <1>1, SumOfNone DEF Flow

(* What the accounts of some keys moved together.                              *)
NetOf(D, A) == Flow(D, A, Charted) - Flow(D, Charted, A)

LEMMA NetIsInt ==
  ASSUME LedgerTyped, NEW D \in SUBSET Accounts!Days, NEW A \in SUBSET Charted
  PROVE  NetOf(D, A) \in Int
<1>1. Flow(D, A, Charted) \in Int /\ Flow(D, Charted, A) \in Int
  BY FlowIsInt
<1> QED
  BY <1>1 DEF NetOf

(* f[k] is what account at[k] moved, and A has these accounts, one for a key.   *)
Pools(D, K, at, f, A) ==
  /\ IsFiniteSet(K)
  /\ \A k \in K : at[k] \in Charted /\ f[k] = NetOf(D, {at[k]}) /\ at[k] \in A
  /\ \A j, k \in K : at[j] = at[k] => j = k
  /\ \A a \in A : \E k \in K : a = at[k]

LEMMA MovementsAddUp ==
  ASSUME LedgerTyped, NEW D \in SUBSET Accounts!Days, NEW K, NEW at, NEW f, NEW A,
         Pools(D, K, at, f, A)
  PROVE  SumOver(f, K) = NetOf(D, A)
<1>0. /\ IsFiniteSet(K)
      /\ \A k \in K : at[k] \in Charted /\ f[k] = NetOf(D, {at[k]}) /\ at[k] \in A
      /\ \A j, k \in K : at[j] = at[k] => j = k
      /\ \A a \in A : \E k \in K : a = at[k]
  BY DEF Pools
<1> DEFINE At(J) == {at[k] : k \in J}
           g == [J \in SUBSET K |-> NetOf(D, At(J))]
<1>1. \A B \in SUBSET Charted : NetOf(D, B) \in Int
  BY NetIsInt
<1>2. ASSUME NEW J \in SUBSET K, NEW k \in J
      PROVE  NetOf(D, At(J)) = NetOf(D, {at[k]}) + NetOf(D, At(J \ {k}))
  <2>1. /\ At(J) = {at[k]} \cup At(J \ {k}) /\ {at[k]} \cap At(J \ {k}) = {}
        /\ {at[k]} \in SUBSET Charted /\ At(J \ {k}) \in SUBSET Charted
    <3>1. \A i \in K : at[i] \in Charted /\ (at[i] = at[k] => i = k)
      BY <1>0
    <3>2. At(J) = {at[k]} \cup At(J \ {k})
      OBVIOUS
    <3>3. {at[k]} \cap At(J \ {k}) = {}
      BY <3>1
    <3> QED
      BY <3>1, <3>2, <3>3
  <2> HIDE DEF At
  <2>2. Flow(D, At(J), Charted) = Flow(D, {at[k]}, Charted) + Flow(D, At(J \ {k}), Charted)
    BY <2>1, FlowByDebit
  <2>3. Flow(D, Charted, At(J)) = Flow(D, Charted, {at[k]}) + Flow(D, Charted, At(J \ {k}))
    BY <2>1, FlowByCredit
  <2>4. PICK a \in Int, b \in Int, c \in Int, d \in Int :
          /\ a = Flow(D, {at[k]}, Charted) /\ b = Flow(D, At(J \ {k}), Charted)
          /\ c = Flow(D, Charted, {at[k]}) /\ d = Flow(D, Charted, At(J \ {k}))
    BY <2>1, FlowIsInt
  <2>5. /\ NetOf(D, At(J)) = (a + b) - (c + d) /\ NetOf(D, {at[k]}) = a - c
        /\ NetOf(D, At(J \ {k})) = b - d
    BY <2>2, <2>3, <2>4 DEF NetOf
  <2> QED
    BY <2>5
<1>3. g[{}] = 0
  <2>1. At({}) = {} /\ {} \in SUBSET K
    OBVIOUS
  <2>2. NetOf(D, {}) = 0
    BY NoFlow DEF NetOf
  <2> QED
    BY <2>1, <2>2
<1>4. ASSUME NEW J \in SUBSET K, J # {} PROVE \E k \in J : g[J] = f[k] + g[J \ {k}]
  <2>1. PICK k \in J : TRUE
    BY <1>4
  <2>2. g[J] = NetOf(D, At(J)) /\ g[J \ {k}] = NetOf(D, At(J \ {k})) /\ f[k] = NetOf(D, {at[k]})
    BY <1>0
  <2> HIDE DEF g, At
  <2>3. g[J] = f[k] + g[J \ {k}]
    BY <1>2, <2>2
  <2> QED
    BY <2>3
<1>5. ASSUME NEW k \in K PROVE f[k] \in Int
  <2>1. {at[k]} \in SUBSET Charted /\ f[k] = NetOf(D, {at[k]})
    BY <1>0
  <2> QED
    BY <1>1, <2>1
<1>6. g[K] = NetOf(D, A)
  <2>1. At(K) = A
    <3>1. (\A k \in K : at[k] \in A) /\ \A a \in A : \E k \in K : a = at[k]
      BY <1>0
    <3> QED
      BY <3>1
  <2>2. g[K] = NetOf(D, At(K))
    OBVIOUS
  <2> QED
    BY <2>1, <2>2
<1> HIDE DEF g
<1>7. g[K] = SumOver(f, K)
  BY <1>0, <1>3, <1>4, <1>5, SumIsUnique
<1> QED
  BY <1>6, <1>7

(* -------------------------------- statements ------------------------------- *)

Span(first, last) == {d \in Accounts!Days : d >= first /\ d <= last}

LEMMA MovementIs ==
  ASSUME NEW n \in Charted, NEW first, NEW last
  PROVE  Accounts!Movement(n, first, last) = NetOf(Span(first, last), {n})
<1> DEFINE D == Span(first, last)
<1>1. D \X {n} \X Charted \in SUBSET Accounts!Cells /\ D \X Charted \X {n} \in SUBSET Accounts!Cells
  BY DEF Accounts!Cells, Span
<1>2. Accounts!Movement(n, first, last)
        = Accounts!Total(D \X {n} \X Charted) - Accounts!Total(D \X Charted \X {n})
  BY DEF Accounts!Movement, Span
<1>3. /\ Accounts!Total(D \X {n} \X Charted) = Flow(D, {n}, Charted)
      /\ Accounts!Total(D \X Charted \X {n}) = Flow(D, Charted, {n})
  BY <1>1, TotalIsSum DEF Flow
<1> QED
  BY <1>2, <1>3 DEF NetOf

(* The sums of the statements are sums of such functions.                      *)
Moved(first, last) == [n \in Charted |-> Accounts!Movement(n, first, last)]
Size(day) == [n \in Charted |-> Accounts!Abs(Accounts!Movement(n, 1, day))]
MovedCash(first, last) ==
  [k \in Accounts!CashKeys |-> Accounts!Movement(bookMapping[k], first, last)]

LEMMA MovedIsSum ==
  ASSUME NEW first, NEW last, NEW S \in SUBSET Charted
  PROVE  Accounts!Sum(LAMBDA n : Accounts!Movement(n, first, last), S)
           = SumOver(Moved(first, last), S)
<1> DEFINE f == Moved(first, last)
           Plus(it, s) == IF s = {} THEN 0
                          ELSE Accounts!Movement(First(s), first, last) + it[s \ {First(s)}]
<1>1. ASSUME NEW it, NEW s \in SUBSET S PROVE Plus(it, s) = Added(f, it, s)
  <2>1. s # {} => First(s) \in Charted
    BY DEF First
  <2> QED
    BY <2>1 DEF Added, Moved
<1>2. ASSUME NEW it PROVE [s \in SUBSET S |-> Plus(it, s)] = [s \in SUBSET S |-> Added(f, it, s)]
  BY <1>1
<1>3. (CHOOSE it : it = [s \in SUBSET S |-> Plus(it, s)]) = CHOOSE it : Adds(f, SUBSET S, it)
  BY <1>2 DEF Adds
<1>4. SumOver(f, S) = (CHOOSE it : Adds(f, SUBSET S, it))[S]
  BY SumIsChosen
<1>5. Accounts!Sum(LAMBDA n : Accounts!Movement(n, first, last), S)
        = (CHOOSE it : it = [s \in SUBSET S |-> Plus(it, s)])[S]
  BY DEF Accounts!Sum, Accounts!MapThenSumSet, Accounts!MapThenFoldSet, First
<1> QED
  BY <1>3, <1>4, <1>5

LEMMA SizeIsSum ==
  ASSUME NEW day, NEW S \in SUBSET Charted
  PROVE  Accounts!Sum(LAMBDA n : Accounts!Abs(Accounts!Movement(n, 1, day)), S)
           = SumOver(Size(day), S)
<1> DEFINE f == Size(day)
           Plus(it, s) == IF s = {} THEN 0
                          ELSE Accounts!Abs(Accounts!Movement(First(s), 1, day)) + it[s \ {First(s)}]
<1>1. ASSUME NEW it, NEW s \in SUBSET S PROVE Plus(it, s) = Added(f, it, s)
  <2>1. s # {} => First(s) \in Charted
    BY DEF First
  <2> QED
    BY <2>1 DEF Added, Size
<1>2. ASSUME NEW it PROVE [s \in SUBSET S |-> Plus(it, s)] = [s \in SUBSET S |-> Added(f, it, s)]
  BY <1>1
<1>3. (CHOOSE it : it = [s \in SUBSET S |-> Plus(it, s)]) = CHOOSE it : Adds(f, SUBSET S, it)
  BY <1>2 DEF Adds
<1>4. SumOver(f, S) = (CHOOSE it : Adds(f, SUBSET S, it))[S]
  BY SumIsChosen
<1>5. Accounts!Sum(LAMBDA n : Accounts!Abs(Accounts!Movement(n, 1, day)), S)
        = (CHOOSE it : it = [s \in SUBSET S |-> Plus(it, s)])[S]
  BY DEF Accounts!Sum, Accounts!MapThenSumSet, Accounts!MapThenFoldSet, First
<1> QED
  BY <1>3, <1>4, <1>5

LEMMA CashIsSum ==
  ASSUME NEW first, NEW last
  PROVE  Accounts!CashOf(first, last) = SumOver(MovedCash(first, last), Accounts!CashKeys)
<1> DEFINE f == MovedCash(first, last)
           S == Accounts!CashKeys
           Plus(it, s) == IF s = {} THEN 0
                          ELSE Accounts!Movement(bookMapping[First(s)], first, last) + it[s \ {First(s)}]
<1>1. ASSUME NEW it, NEW s \in SUBSET S PROVE Plus(it, s) = Added(f, it, s)
  <2>1. s # {} => First(s) \in S
    BY DEF First
  <2> QED
    BY <2>1 DEF Added, MovedCash
<1>2. ASSUME NEW it PROVE [s \in SUBSET S |-> Plus(it, s)] = [s \in SUBSET S |-> Added(f, it, s)]
  BY <1>1
<1>3. (CHOOSE it : it = [s \in SUBSET S |-> Plus(it, s)]) = CHOOSE it : Adds(f, SUBSET S, it)
  BY <1>2 DEF Adds
<1>4. SumOver(f, S) = (CHOOSE it : Adds(f, SUBSET S, it))[S]
  BY SumIsChosen
<1>5. Accounts!CashOf(first, last) = (CHOOSE it : it = [s \in SUBSET S |-> Plus(it, s)])[S]
  BY DEF Accounts!CashOf, Accounts!Sum, Accounts!MapThenSumSet, Accounts!MapThenFoldSet, First
<1> QED
  BY <1>3, <1>4, <1>5

(* What is between the accounts of A cancels out.                              *)
LEMMA NetIsCrossing ==
  ASSUME LedgerTyped, NEW D \in SUBSET Accounts!Days, NEW A \in SUBSET Charted
  PROVE  NetOf(D, A) = Flow(D, A, Charted \ A) - Flow(D, Charted \ A, A)
<1> DEFINE B == Charted \ A
<1>1. A \cup B = Charted /\ A \cap B = {} /\ B \in SUBSET Charted
  OBVIOUS
<1> HIDE DEF B
<1>2. Flow(D, A, A \cup B) = Flow(D, A, A) + Flow(D, A, B)
  BY <1>1, FlowByCredit
<1>3. Flow(D, A \cup B, A) = Flow(D, A, A) + Flow(D, B, A)
  BY <1>1, FlowByDebit
<1>4. PICK a \in Int, b \in Int, c \in Int :
        a = Flow(D, A, A) /\ b = Flow(D, A, B) /\ c = Flow(D, B, A)
  BY <1>1, FlowIsInt
<1>5. NetOf(D, A) = (a + b) - (a + c)
  BY <1>1, <1>2, <1>3, <1>4 DEF NetOf
<1>6. NetOf(D, A) = Flow(D, A, B) - Flow(D, B, A)
  BY <1>4, <1>5
<1> QED
  BY <1>6 DEF B

LEMMA NetByDay ==
  ASSUME LedgerTyped, NEW D \in SUBSET Accounts!Days, NEW E \in SUBSET Accounts!Days, D \cap E = {},
         NEW A \in SUBSET Charted
  PROVE  NetOf(D \cup E, A) = NetOf(D, A) + NetOf(E, A)
<1>1. /\ Flow(D \cup E, A, Charted) = Flow(D, A, Charted) + Flow(E, A, Charted)
      /\ Flow(D \cup E, Charted, A) = Flow(D, Charted, A) + Flow(E, Charted, A)
  BY FlowByDay
<1>2. PICK a \in Int, b \in Int, c \in Int, d \in Int :
        /\ a = Flow(D, A, Charted) /\ b = Flow(E, A, Charted)
        /\ c = Flow(D, Charted, A) /\ d = Flow(E, Charted, A)
  BY FlowIsInt
<1> QED
  BY <1>1, <1>2 DEF NetOf

Cash == {bookMapping[k] : k \in Accounts!CashKeys}

LEMMA CashIsNet ==
  ASSUME LedgerTyped, NEW first, NEW last,
         \A j, k \in Accounts!CashKeys : bookMapping[j] = bookMapping[k] => j = k
  PROVE  Accounts!CashOf(first, last) = NetOf(Span(first, last), Cash)
<1> DEFINE K == Accounts!CashKeys
           f == MovedCash(first, last)
           h == [k \in K |-> bookMapping[k]]
<1>1. Span(first, last) \in SUBSET Accounts!Days
  BY DEF Span
<1>2. \A k \in K : bookMapping[k] \in Charted
  BY DEF Accounts!CashKeys, Accounts!Live
<1>3. h \in Injection(K, Charted) /\ \A k \in K : h[k] = bookMapping[k]
  BY <1>2 DEF Injection, IsInjective
<1> HIDE DEF h
<1>4. IsFiniteSet(K)
  BY <1>3, BooksConstants, FS_Injection
<1>5. \A k \in K : f[k] = NetOf(Span(first, last), {bookMapping[k]})
  BY <1>2, MovementIs DEF MovedCash
<1> HIDE DEF f
<1>6. SumOver(f, K) = NetOf(Span(first, last), Cash)
  <2>1. /\ \A j, k \in K : bookMapping[j] = bookMapping[k] => j = k
        /\ \A k \in K : bookMapping[k] \in Cash
        /\ \A a \in Cash : \E k \in K : a = bookMapping[k]
    BY DEF Cash
  <2> HIDE DEF K
  <2>2. Pools(Span(first, last), K, bookMapping, f, Cash)
    BY <1>2, <1>4, <1>5, <2>1 DEF Pools
  <2> QED
    BY <1>1, <2>2, MovementsAddUp
<1>7. Accounts!CashOf(first, last) = SumOver(f, K)
  BY CashIsSum DEF f
<1> QED
  BY <1>6, <1>7

(* The cash flow statement foots.                                              *)
LEMMA CashFlowSuffices == LedgerTyped => Accounts!CashFlowFoots
<1> SUFFICES ASSUME LedgerTyped,
                    \A j, k \in Accounts!CashKeys : bookMapping[j] = bookMapping[k] => j = k,
                    NEW first \in Accounts!Days, NEW last \in first..LastDay
             PROVE  Accounts!Opening(first) + Accounts!NetChange(first, last)
                      = Accounts!CashOf(1, last)
  BY DEF Accounts!CashFlowFoots
<1> DEFINE D == Span(1, first - 1)
           E == first..last
<1>1. first \in Nat /\ last \in Nat /\ 1 <= first /\ first <= last /\ last <= LastDay
  BY DaysAre, BooksConstants
<1>2. /\ D \in SUBSET Accounts!Days /\ E \in SUBSET Accounts!Days /\ D \cap E = {}
      /\ D \cup E = Span(1, last)
  BY <1>1, DaysAre, BooksConstants DEF Span
<1>3. Cash \in SUBSET Charted
  BY DEF Cash, Accounts!CashKeys, Accounts!Live
<1>4. Accounts!NetChange(first, last)
        = Accounts!Total(E \X Cash \X (Charted \ Cash)) - Accounts!Total(E \X (Charted \ Cash) \X Cash)
  BY DEF Accounts!NetChange, Cash
<1> HIDE DEF D, E
<1>5. /\ E \X Cash \X (Charted \ Cash) \in SUBSET Accounts!Cells
      /\ E \X (Charted \ Cash) \X Cash \in SUBSET Accounts!Cells
  BY <1>2, <1>3 DEF Accounts!Cells
<1>6. Accounts!NetChange(first, last) = NetOf(E, Cash)
  BY <1>2, <1>3, <1>4, <1>5, TotalIsSum, NetIsCrossing DEF Flow
<1>7. Accounts!Opening(first) = NetOf(D, Cash)
  BY CashIsNet DEF Accounts!Opening, D
<1>8. Accounts!CashOf(1, last) = NetOf(D \cup E, Cash)
  BY <1>2, CashIsNet
<1> QED
  BY <1>2, <1>3, <1>6, <1>7, <1>8, NetByDay

(* The balance sheet foots: what was posted comes to nothing over all accounts.*)
LEMMA SheetSuffices == LedgerTyped => Accounts!SheetFoots
<1> SUFFICES ASSUME LedgerTyped, NEW day \in Accounts!Days, Accounts!OrdinaryDay(day)
             PROVE  Accounts!Balanced(day) /\ Accounts!Earnings(day) = Accounts!NetProfit(1, day)
  BY DEF Accounts!SheetFoots
<1> DEFINE M == Moved(1, day)
           Z == Size(day)
           I == Accounts!Named("income")
           X == Accounts!Named("expense")
           R == Accounts!Named("asset") \cup Accounts!Named("liability") \cup Accounts!Named("equity")
           D == Span(1, day)
<1>1. D \in SUBSET Accounts!Days
  BY DEF Span
<1>2. \A n \in Charted : /\ M[n] = NetOf(D, {n}) /\ M[n] \in Int
                         /\ M[n] = Accounts!Movement(n, 1, day)
                         /\ Z[n] = Accounts!Abs(M[n])
  <2> SUFFICES ASSUME NEW n \in Charted
               PROVE  /\ M[n] = NetOf(D, {n}) /\ M[n] \in Int
                      /\ M[n] = Accounts!Movement(n, 1, day) /\ Z[n] = Accounts!Abs(M[n])
    OBVIOUS
  <2>1. M[n] = Accounts!Movement(n, 1, day) /\ Z[n] = Accounts!Abs(M[n])
    BY DEF Moved, Size
  <2>2. Accounts!Movement(n, 1, day) = NetOf(D, {n})
    BY MovementIs
  <2>3. NetOf(D, {n}) \in Int
    BY <1>1, NetIsInt
  <2> QED
    BY <2>1, <2>2, <2>3
<1>3. /\ \A n \in I : M[n] <= 0
      /\ \A n \in Charted \ Accounts!Live : M[n] = 0
  BY <1>2 DEF Accounts!OrdinaryDay, Accounts!Named, Accounts!Live
<1>4. /\ Accounts!Live \in SUBSET Charted /\ I \cup X \cup R = Accounts!Live
      /\ I \cap X = {} /\ (I \cup X) \cap R = {}
  BY BooksConstants DEF Accounts!Named, Accounts!Live, Classes
<1>5. /\ Accounts!Earnings(day) = SumOver(Z, I) - SumOver(M, X)
      /\ Accounts!NetProfit(1, day) = -SumOver(M, I \cup X)
      /\ Accounts!Balanced(day) <=> SumOver(M, R) = Accounts!Earnings(day)
  <2>1. I \in SUBSET Charted /\ X \in SUBSET Charted /\ R \in SUBSET Charted
        /\ I \cup X \in SUBSET Charted
    BY <1>4
  <2>2. Accounts!Earnings(day) = SumOver(Z, I) - SumOver(M, X)
    <3>1. Accounts!Sum(LAMBDA n : Accounts!Abs(Accounts!Movement(n, 1, day)), I) = SumOver(Z, I)
      BY <2>1, SizeIsSum
    <3>2. Accounts!Sum(LAMBDA n : Accounts!Movement(n, 1, day), X) = SumOver(M, X)
      BY <2>1, MovedIsSum
    <3> QED
      BY <3>1, <3>2 DEF Accounts!Earnings
  <2>3. Accounts!NetProfit(1, day) = -SumOver(M, I \cup X)
    BY <2>1, MovedIsSum DEF Accounts!NetProfit
  <2>4. Accounts!Balanced(day) <=> SumOver(M, R) = Accounts!Earnings(day)
    BY <2>1, MovedIsSum DEF Accounts!Balanced
  <2> QED
    BY <2>2, <2>3, <2>4
<1> HIDE DEF M, Z, I, X, R
<1>6. /\ IsFiniteSet(Charted) /\ IsFiniteSet(I) /\ IsFiniteSet(X) /\ IsFiniteSet(R)
      /\ IsFiniteSet(I \cup X) /\ IsFiniteSet(Accounts!Live) /\ IsFiniteSet(Charted \ Accounts!Live)
  BY <1>4, BooksConstants, FS_Subset
<1>7. SumOver(M, Charted) = 0
  <2> DEFINE at == [n \in Charted |-> n]
  <2>1. /\ \A n \in Charted : at[n] \in Charted /\ M[n] = NetOf(D, {at[n]})
        /\ \A n, m \in Charted : at[n] = at[m] => n = m
        /\ \A n \in Charted : \E m \in Charted : n = at[m]
    BY <1>2
  <2> HIDE DEF at, D
  <2>2. SumOver(M, Charted) = NetOf(D, Charted)
    <3>1. Pools(D, Charted, at, M, Charted)
      BY <1>6, <2>1 DEF Pools
    <3> QED
      BY <1>1, <3>1, MovementsAddUp
  <2>3. Flow(D, Charted, Charted) \in Int
    BY <1>1, FlowIsInt
  <2> QED
    BY <2>2, <2>3 DEF NetOf
<1>8. SumOver(M, Accounts!Live) = 0
  <2> DEFINE rest == Charted \ Accounts!Live
  <2>1. Accounts!Live \cup rest = Charted /\ Accounts!Live \cap rest = {}
    BY <1>4
  <2>2. SumOver(M, rest) = 0
    BY <1>3, <1>6, SumOfZeros
  <2>3. \A x \in Charted : M[x] \in Int
    BY <1>2
  <2>4. \A x \in Accounts!Live \cup rest : M[x] \in Int
    BY <2>1, <2>3
  <2>5. IsFiniteSet(rest)
    BY <1>6
  <2> HIDE DEF rest
  <2>6. SumOver(M, Accounts!Live \cup rest) = SumOver(M, Accounts!Live) + SumOver(M, rest)
    BY <1>6, <2>1, <2>4, <2>5, SumOfParts
  <2>7. SumOver(M, Accounts!Live) \in Int
    BY <1>6, <2>4, SumTakesAny
  <2>8. SumOver(M, Accounts!Live \cup rest) = 0
    BY <1>7, <2>1
  <2>9. PICK a \in Int : a = SumOver(M, Accounts!Live)
    BY <2>7
  <2>10. a + 0 = 0
    BY <2>2, <2>6, <2>8, <2>9
  <2> QED
    BY <2>9, <2>10
<1>9. \A n \in I \cup X \cup R : M[n] \in Int
  BY <1>2, <1>4
<1>10. /\ SumOver(M, I \cup X) = SumOver(M, I) + SumOver(M, X)
       /\ SumOver(M, (I \cup X) \cup R) = SumOver(M, I \cup X) + SumOver(M, R)
  <2>1. /\ \A n \in I \cup X : M[n] \in Int
        /\ \A n \in (I \cup X) \cup R : M[n] \in Int
    BY <1>9
  <2>2. SumOver(M, I \cup X) = SumOver(M, I) + SumOver(M, X)
    BY <1>4, <1>6, <2>1, SumOfParts
  <2>3. SumOver(M, (I \cup X) \cup R) = SumOver(M, I \cup X) + SumOver(M, R)
    BY <1>4, <1>6, <2>1, SumOfParts
  <2> QED
    BY <2>2, <2>3
<1>11. \A n \in I : Z[n] = -M[n] /\ Z[n] \in Int
  <2> SUFFICES ASSUME NEW n \in I PROVE Z[n] = -M[n] /\ Z[n] \in Int
    OBVIOUS
  <2>1. PICK m \in Int : m = M[n] /\ m <= 0
    BY <1>3, <1>9
  <2>2. Z[n] = Accounts!Abs(m)
    BY <1>2, <1>4, <2>1
  <2>3. Accounts!Abs(m) = -m
    BY <2>1 DEF Accounts!Abs
  <2> QED
    BY <2>1, <2>2, <2>3
<1>12. SumOver(M, I) + SumOver(Z, I) = 0
  <2> DEFINE t == [n \in I |-> 0]
  <2>1. \A n \in I : M[n] \in Int /\ Z[n] \in Int /\ t[n] = M[n] + Z[n]
    BY <1>9, <1>11
  <2>2. \A n \in I : t[n] = 0
    OBVIOUS
  <2> HIDE DEF t
  <2>3. SumOver(t, I) = SumOver(M, I) + SumOver(Z, I)
    BY <1>6, <2>1, SumOfSums
  <2>4. SumOver(t, I) = 0
    BY <1>6, <2>2, SumOfZeros
  <2> QED
    BY <2>3, <2>4
<1>13. PICK a \in Int, b \in Int, c \in Int, z \in Int :
         a = SumOver(M, I) /\ b = SumOver(M, X) /\ c = SumOver(M, R) /\ z = SumOver(Z, I)
  <2>1. SumOver(M, I) \in Int /\ SumOver(M, X) \in Int /\ SumOver(M, R) \in Int
    BY <1>6, <1>9, SumTakesAny
  <2>2. SumOver(Z, I) \in Int
    BY <1>6, <1>11, SumTakesAny
  <2> QED
    BY <2>1, <2>2
<1>14. (a + b) + c = 0 /\ a + z = 0
  BY <1>4, <1>8, <1>10, <1>12, <1>13
<1>15. /\ Accounts!Earnings(day) = z - b /\ Accounts!NetProfit(1, day) = -(a + b)
       /\ Accounts!Balanced(day) <=> c = z - b
  BY <1>5, <1>10, <1>13
<1> QED
  BY <1>14, <1>15

(* -------------------------- the desk of the accounts ----------------------- *)

AccountsInv ==
  /\ ChartInv
  /\ bookMapping \in [BankKeys -> Charted \cup {Accounts!NoParent}]
  /\ LedgerTyped

LEMMA AccountsStarts == Accounts!Init => AccountsInv
<1> SUFFICES ASSUME Accounts!Init PROVE AccountsInv
  OBVIOUS
<1>1. ChartInv
  BY ChartStarts DEF Accounts!Init
<1>2. bookMapping \in [BankKeys -> Charted \cup {Accounts!NoParent}]
  BY DEF Accounts!Init
<1>3. LedgerTyped
  BY BooksConstants DEF Accounts!Init, LedgerTyped
<1> QED
  BY <1>1, <1>2, <1>3 DEF AccountsInv

LEMMA PostIsTyped ==
  ASSUME LedgerTyped, NEW d \in Accounts!Days, NEW debit \in Charted, NEW credit \in Charted,
         Accounts!Post(d, debit, credit)
  PROVE  LedgerTyped'
<1> DEFINE n == bookLedger[d][debit][credit]
<1>1. <<d, debit, credit>> \in Accounts!Cells /\ Cell[<<d, debit, credit>>] = n
  BY DEF Accounts!Cells, Cell
<1>2. IsFiniteSet(Accounts!Cells) /\ \A c \in Accounts!Cells : Cell[c] \in Nat
  BY CellsAreFinite, CellIs
<1>3. SumOver(Cell, Accounts!Cells) \in Nat /\ n <= SumOver(Cell, Accounts!Cells)
  BY <1>1, <1>2, SumOfNats
<1>4. SumOver(Cell, Accounts!Cells) < MaxPosted
  <2>1. Accounts!Total(Accounts!Cells) = SumOver(Cell, Accounts!Cells)
    BY TotalIsSum
  <2>2. Accounts!Total(Accounts!Cells) < MaxPosted
    BY DEF Accounts!Post
  <2> QED
    BY <2>1, <2>2
<1>5. n \in Nat
  BY <1>1, <1>2
<1>6. n + 1 \in 0..MaxPosted
  <2>1. PICK t \in Nat : t = SumOver(Cell, Accounts!Cells)
    BY <1>3
  <2>2. n <= t /\ t < MaxPosted /\ MaxPosted \in Nat
    BY <1>3, <1>4, <2>1, BooksConstants
  <2> HIDE DEF n
  <2> QED
    BY <1>5, <2>1, <2>2
<1>7. bookLedger' = [bookLedger EXCEPT ![d][debit][credit] = n + 1]
  BY DEF Accounts!Post, LedgerTyped
<1> HIDE DEF n
<1> QED
  BY <1>6, <1>7 DEF LedgerTyped

LEMMA AccountsStep == AccountsInv /\ [Accounts!Next]_(Accounts!vars) => AccountsInv'
<1> SUFFICES ASSUME AccountsInv, [Accounts!Next]_(Accounts!vars) PROVE AccountsInv'
  OBVIOUS
<1>0. ChartInv /\ bookMapping \in [BankKeys -> Charted \cup {Accounts!NoParent}] /\ LedgerTyped
  BY DEF AccountsInv
<1>1. ASSUME UNCHANGED <<bookMapping, bookLedger>>, ChartInv' PROVE AccountsInv'
  BY <1>0, <1>1 DEF AccountsInv, LedgerTyped
<1>2. ASSUME NEW s \in Clerks, NEW n \in Charted, Accounts!RetireAccount(s, n) PROVE AccountsInv'
  <2>1. Accounts!NoParent \in Charted \cup {Accounts!NoParent}
    OBVIOUS
  <2> QED
    BY <1>0, <1>1, <1>2, <2>1, ChartBegins DEF Accounts!RetireAccount, Accounts!bookVars
<1>3. ASSUME NEW s \in Clerks, NEW n \in Charted, NEW p \in Charted \cup {Accounts!NoParent},
             Accounts!CreateAccount(s, n, p) \/ Accounts!Reparent(s, n, p)
      PROVE  AccountsInv'
  BY <1>0, <1>1, <1>3, ChartBegins
     DEF Accounts!CreateAccount, Accounts!Reparent, Accounts!bookVars
<1>4. ASSUME NEW s \in Clerks, Accounts!TreeRules(s) PROVE AccountsInv'
  BY <1>0, <1>1, <1>4, ChartChecks DEF Accounts!TreeRules, Accounts!bookVars
<1>5. ASSUME NEW s \in Clerks, Accounts!End(s) PROVE AccountsInv'
  BY <1>0, <1>1, <1>5, ChartCommits, ChartAborts DEF Accounts!End, Accounts!bookVars
<1>6. ASSUME NEW k \in BankKeys, NEW n \in Charted, Accounts!SetMapping(k, n) PROVE AccountsInv'
  <2>1. ChartInv'
    BY <1>0, <1>6, ChartKeeps DEF Accounts!SetMapping
  <2>2. bookMapping' \in [BankKeys -> Charted \cup {Accounts!NoParent}]
    BY <1>0, <1>6 DEF Accounts!SetMapping
  <2>3. LedgerTyped'
    BY <1>0, <1>6 DEF Accounts!SetMapping, LedgerTyped
  <2> QED
    BY <2>1, <2>2, <2>3 DEF AccountsInv
<1>7. ASSUME NEW d \in Accounts!Days, NEW debit \in Charted, NEW credit \in Charted,
             Accounts!Post(d, debit, credit)
      PROVE  AccountsInv'
  <2>1. ChartInv'
    BY <1>0, <1>7, ChartKeeps DEF Accounts!Post
  <2>2. bookMapping' = bookMapping
    BY <1>7 DEF Accounts!Post
  <2> QED
    BY <1>0, <1>7, <2>1, <2>2, PostIsTyped DEF AccountsInv
<1>8. ASSUME UNCHANGED Accounts!vars PROVE AccountsInv'
  BY <1>0, <1>1, <1>8, ChartKeeps DEF Accounts!vars
<1> QED
  BY <1>2, <1>3, <1>4, <1>5, <1>6, <1>7, <1>8 DEF Accounts!Next

LEMMA AccountsInvSuffices ==
  AccountsInv => /\ Accounts!TypeOK /\ Accounts!TreeIsWhole
                 /\ Accounts!CashFlowFoots /\ Accounts!SheetFoots
<1> SUFFICES ASSUME AccountsInv
             PROVE  /\ Accounts!TypeOK /\ Accounts!TreeIsWhole
                    /\ Accounts!CashFlowFoots /\ Accounts!SheetFoots
  OBVIOUS
<1>1. Accounts!TypeOK
  BY DEF AccountsInv, ChartInv, LedgerTyped, Accounts!TypeOK, Accounts!Rows
<1> QED
  BY <1>1, ChartSuffices, CashFlowSuffices, SheetSuffices DEF AccountsInv

(* ------------------------------- the clock --------------------------------- *)

LEMMA ClockConstants ==
  /\ Readings \subseteq Clock!ReadingRows /\ IsFiniteSet(Readings)
  /\ ByHand \subseteq Clock!PunchRows
  /\ Windows \subseteq Clock!Instants \X Clock!Instants
  /\ LastAt \in Nat /\ Break \in Nat /\ Clock!Nobody \notin Clocked
  /\ \A S : Clock!Cardinality(S) = Cardinality(S)
<1>1. \A S : Clock!IsFiniteSet(S) <=> IsFiniteSet(S)
  BY DEF Clock!IsFiniteSet, IsFiniteSet
<1>2. \A S : Clock!Cardinality(S) = Cardinality(S)
  BY DEF Clock!Cardinality, Cardinality
<1>3. Clock!ReadingAssumption /\ Clock!WindowAssumption
  BY OfficeParameters
<1> QED
  BY <1>1, <1>2, <1>3 DEF Clock!ReadingAssumption, Clock!WindowAssumption

(* An instant of an employment that ends at exit, 0 while it does not.         *)
Here(exit, at) == exit = 0 \/ at < exit

ClockRequests ==
  [op : {Clock!None, "pull", "map"}, window : Windows \cup {<<0, 0>>},
   user : ClockUsers \cup {Clock!Nobody}, who : Clocked \cup {Clock!Nobody},
   new : SUBSET Clock!PunchRows, park : SUBSET Clock!ReadingRows,
   resolve : SUBSET Clock!ParkedRows]

(* A reading became a punch, or will when the request that has `new` commits.  *)
PunchedBy(u, reading, new, mapped, punches) ==
  /\ reading.way \in Clock!Ways /\ mapped[u] # Clock!Nobody
  /\ \/ Clock!Punch(mapped[u], reading) \in new
     \/ punches[Clock!Punch(mapped[u], reading)] > 0
Waits(reading, mapped, exits) ==
  \/ reading.way \notin Clock!Ways
  \/ mapped[reading.user] = Clock!Nobody
  \/ ~Here(exits[mapped[reading.user]], reading.at)

(* What an open pull holds is what became, or will become, of its readings.    *)
PullFits(t, mapped, punches, exits) ==
  /\ t.window \in Windows
  /\ \A r \in t.park : Waits(r, mapped, exits)
  /\ \A r \in Clock!Delivered(t.window) :
       r \in t.park \/ PunchedBy(r.user, r, t.new, mapped, punches)

(* Its punches and what it parks are of different readings.                    *)
PullCounts(t) ==
  /\ IsFiniteSet(t.new) /\ IsFiniteSet(t.park)
  /\ Cardinality(t.new) + Cardinality(t.park) <= Cardinality(Clock!Delivered(t.window))

(* What an open mapping holds is all that waits for its user, while nobody     *)
(* else has mapped the user.                                                   *)
MapFits(t, mapped, punches, parked, exits) ==
  /\ t.user \in ClockUsers /\ t.who \in Clocked
  /\ \A row \in t.resolve :
       /\ row.reading.user = t.user /\ row.reading.way \in Clock!Ways
       /\ Clock!Punch(t.who, row.reading) \in t.new
            \/ punches[Clock!Punch(t.who, row.reading)] > 0
  /\ mapped[t.user] = Clock!Nobody =>
       \A row \in parked :
         (~row.resolved /\ row.reading.user = t.user /\ row.reading.way \in Clock!Ways
            /\ Here(exits[t.who], row.reading.at))
           => row \in t.resolve

RequestFits(t, mapped, punches, parked, exits) ==
  /\ t.op = "pull" => PullFits(t, mapped, punches, exits) /\ PullCounts(t)
  /\ t.op = "map" => MapFits(t, mapped, punches, parked, exits)

ClockTyped ==
  /\ clockNow \in 0..LastAt
  /\ clockMapped \in [ClockUsers -> Clocked \cup {Clock!Nobody}]
  /\ clockExits \in [Clocked -> 0..LastAt]
  /\ clockPunches \in [Clock!PunchRows -> Nat]
  /\ clockParked \subseteq Clock!ParkedRows
  /\ clockPulls \in [Windows -> Clock!PullRows \cup {Clock!Unpulled}]
  /\ clockTx \in [Handlers -> ClockRequests]

(* Pulls and mappings are not open at once.                                    *)
OneKind == \A s, o \in Handlers :
  clockTx[s].op # Clock!None /\ clockTx[o].op # Clock!None => clockTx[s].op = clockTx[o].op

RequestsFit == \A s \in Handlers :
  RequestFits(clockTx[s], clockMapped, clockPunches, clockParked, clockExits)

(* Every reading of a pull is where it can be found.                           *)
Found(w, mapped, punches, parked) == \A r \in Clock!Delivered(w) :
  \/ PunchedBy(r.user, r, {}, mapped, punches)
  \/ \E row \in parked : row.pull = w /\ row.reading = r /\ ~row.resolved
AllFound == \A w \in Windows :
  clockPulls[w] # Clock!Unpulled => Found(w, clockMapped, clockPunches, clockParked)

ParkedWaits == \A row \in clockParked :
  ~row.resolved => Waits(row.reading, clockMapped, clockExits)

ClockInv ==
  /\ ClockTyped /\ OneKind /\ RequestsFit /\ AllFound /\ ParkedWaits
  /\ Clock!CountedOnce

LEMMA ClockStarts == Clock!Init => ClockInv
<1> SUFFICES ASSUME Clock!Init PROVE ClockInv
  OBVIOUS
<1>1. /\ clockNow = 0
      /\ clockMapped = [u \in ClockUsers |-> Clock!Nobody]
      /\ clockExits = [e \in Clocked |-> 0]
      /\ clockPunches = [p \in Clock!PunchRows |-> 0]
      /\ clockParked = {}
      /\ clockPulls = [w \in Windows |-> Clock!Unpulled]
      /\ clockTx = [s \in Handlers |-> Clock!Idle]
  BY DEF Clock!Init
<1>2. Clock!Idle \in ClockRequests /\ Clock!Idle.op = Clock!None
      /\ Clock!None \notin {"pull", "map"}
  BY DEF Clock!Idle, ClockRequests, Clock!None
<1>3. ClockTyped
  BY <1>1, <1>2, ClockConstants DEF ClockTyped
<1>4. OneKind /\ RequestsFit
  BY <1>1, <1>2 DEF OneKind, RequestsFit, RequestFits
<1>5. AllFound /\ ParkedWaits
  BY <1>1 DEF AllFound, ParkedWaits
<1>6. Clock!CountedOnce
  BY <1>1 DEF Clock!CountedOnce
<1> QED
  BY <1>3, <1>4, <1>5, <1>6 DEF ClockInv

(* What stays as the rows grow.                                                *)
LEMMA PunchedStays ==
  ASSUME NEW u, NEW r, NEW new, NEW m, NEW p, NEW m2, NEW p2,
         PunchedBy(u, r, new, m, p), m2[u] = m[u],
         m[u] # Clock!Nobody => Clock!Punch(m[u], r) \in Clock!PunchRows,
         \A x \in Clock!PunchRows : p[x] > 0 \/ x \in new => p2[x] > 0
  PROVE  PunchedBy(u, r, {}, m2, p2)
BY DEF PunchedBy

(* From one state of the rows to a later one.                                  *)
Later(p, x, p2, x2) ==
  /\ \A a \in Clock!PunchRows : p[a] > 0 => p2[a] > 0
  /\ \A e \in Clocked, at \in Clock!Instants : Here(x2[e], at) => Here(x[e], at)

LEMMA WaitsStays ==
  ASSUME NEW r \in Clock!ReadingRows, NEW m \in [ClockUsers -> Clocked \cup {Clock!Nobody}],
         NEW x, NEW p, NEW p2, NEW x2, Later(p, x, p2, x2), Waits(r, m, x)
  PROVE  Waits(r, m, x2)
<1>1. r.user \in ClockUsers /\ r.at \in Clock!Instants
  BY DEF Clock!ReadingRows
<1> QED
  BY <1>1 DEF Waits, Later

LEMMA PunchIsRow ==
  ASSUME NEW r \in Clock!ReadingRows, r.way \in Clock!Ways, NEW e \in Clocked
  PROVE  Clock!Punch(e, r) \in Clock!PunchRows
BY DEF Clock!ReadingRows, Clock!PunchRows, Clock!Punch

LEMMA PunchedLater ==
  ASSUME NEW r \in Clock!ReadingRows, NEW m \in [ClockUsers -> Clocked \cup {Clock!Nobody}],
         NEW x, NEW p, NEW p2, NEW x2, Later(p, x, p2, x2), NEW new,
         PunchedBy(r.user, r, new, m, p)
  PROVE  PunchedBy(r.user, r, new, m, p2)
<1>1. r.user \in ClockUsers /\ m[r.user] \in Clocked /\ r.way \in Clock!Ways
  BY DEF Clock!ReadingRows, PunchedBy
<1>2. Clock!Punch(m[r.user], r) \in Clock!PunchRows
  BY <1>1, PunchIsRow
<1> QED
  BY <1>2 DEF PunchedBy, Later

LEMMA DeliveredAre ==
  ASSUME NEW w
  PROVE  Clock!Delivered(w) \in SUBSET Clock!ReadingRows /\ IsFiniteSet(Clock!Delivered(w))
<1>1. Clock!Delivered(w) \in SUBSET Readings
  BY DEF Clock!Delivered
<1> QED
  BY <1>1, ClockConstants, FS_Subset

(* An open request still fits.                                                 *)
LEMMA RequestStays ==
  ASSUME NEW t \in ClockRequests, NEW m \in [ClockUsers -> Clocked \cup {Clock!Nobody}],
         NEW p, NEW k, NEW x, RequestFits(t, m, p, k, x),
         NEW m2, NEW p2, NEW k2 \in SUBSET Clock!ParkedRows, NEW x2, Later(p, x, p2, x2),
         t.op = "pull" => m2 = m,
         t.op = "map" => /\ m2[t.user] = Clock!Nobody => m[t.user] = Clock!Nobody
                         /\ \A row \in k2 : ~row.resolved => row \in k
  PROVE  RequestFits(t, m2, p2, k2, x2)
<1>0. t.park \in SUBSET Clock!ReadingRows /\ t.resolve \in SUBSET Clock!ParkedRows
  BY DEF ClockRequests
<1>1. ASSUME t.op = "pull" PROVE PullFits(t, m2, p2, x2)
  <2>1. m2 = m /\ PullFits(t, m, p, x)
    BY <1>1 DEF RequestFits
  <2>2. \A r \in t.park : Waits(r, m, x2)
    BY <1>0, <2>1, WaitsStays DEF PullFits
  <2>3. ASSUME NEW r \in Clock!Delivered(t.window)
        PROVE  r \in t.park \/ PunchedBy(r.user, r, t.new, m, p2)
    <3>1. r \in Clock!ReadingRows /\ (r \in t.park \/ PunchedBy(r.user, r, t.new, m, p))
      BY <2>1, DeliveredAre DEF PullFits
    <3> QED
      BY <3>1, PunchedLater
  <2> QED
    BY <2>1, <2>2, <2>3 DEF PullFits
<1>2. ASSUME t.op = "map" PROVE MapFits(t, m2, p2, k2, x2)
  <2>1. MapFits(t, m, p, k, x)
    BY <1>2 DEF RequestFits
  <2>2. t.user \in ClockUsers /\ t.who \in Clocked
    BY <2>1 DEF MapFits
  <2>3. ASSUME NEW row \in t.resolve
        PROVE  /\ row.reading.user = t.user /\ row.reading.way \in Clock!Ways
               /\ Clock!Punch(t.who, row.reading) \in t.new
                    \/ p2[Clock!Punch(t.who, row.reading)] > 0
    <3>1. /\ row.reading.user = t.user /\ row.reading.way \in Clock!Ways
          /\ Clock!Punch(t.who, row.reading) \in t.new
               \/ p[Clock!Punch(t.who, row.reading)] > 0
      BY <2>1 DEF MapFits
    <3>2. row.reading \in Clock!ReadingRows
      BY <1>0 DEF Clock!ParkedRows
    <3>3. Clock!Punch(t.who, row.reading) \in Clock!PunchRows
      BY <2>2, <3>1, <3>2, PunchIsRow
    <3> QED
      BY <3>1, <3>3 DEF Later
  <2>4. ASSUME m2[t.user] = Clock!Nobody, NEW row \in k2, ~row.resolved,
               row.reading.user = t.user, row.reading.way \in Clock!Ways,
               Here(x2[t.who], row.reading.at)
        PROVE  row \in t.resolve
    <3>1. row.reading.at \in Clock!Instants
      BY DEF Clock!ParkedRows, Clock!ReadingRows
    <3>2. Here(x[t.who], row.reading.at)
      BY <2>2, <2>4, <3>1 DEF Later
    <3>3. row \in k /\ m[t.user] = Clock!Nobody
      BY <1>2, <2>4
    <3> QED
      BY <2>1, <2>4, <3>2, <3>3 DEF MapFits
  <2> QED
    BY <2>2, <2>3, <2>4 DEF MapFits
<1>3. t.op = "pull" => PullCounts(t)
  BY DEF RequestFits
<1> QED
  BY <1>1, <1>2, <1>3 DEF RequestFits

LEMMA ClockTxIs ==
  ASSUME ClockInv, NEW s \in Handlers
  PROVE  /\ clockTx[s] \in ClockRequests
         /\ RequestFits(clockTx[s], clockMapped, clockPunches, clockParked, clockExits)
BY DEF ClockInv, ClockTyped, RequestsFit

LEMMA FoundStays ==
  ASSUME NEW w, NEW m \in [ClockUsers -> Clocked \cup {Clock!Nobody}], NEW p, NEW x, NEW k,
         NEW m2, NEW p2, NEW x2, NEW k2, Later(p, x, p2, x2), Found(w, m, p, k),
         \A u \in ClockUsers : m[u] # Clock!Nobody => m2[u] = m[u],
         \A row \in k : row \in k2 \/ PunchedBy(row.reading.user, row.reading, {}, m2, p2)
  PROVE  Found(w, m2, p2, k2)
<1> SUFFICES ASSUME NEW r \in Clock!Delivered(w)
             PROVE  \/ PunchedBy(r.user, r, {}, m2, p2)
                    \/ \E row \in k2 : row.pull = w /\ row.reading = r /\ ~row.resolved
  BY DEF Found
<1>1. r \in Clock!ReadingRows /\ r.user \in ClockUsers
  BY DeliveredAre DEF Clock!ReadingRows
<1>2. CASE PunchedBy(r.user, r, {}, m, p)
  <2>1. PunchedBy(r.user, r, {}, m, p2) /\ m2[r.user] = m[r.user]
    <3>1. PunchedBy(r.user, r, {}, m, p2)
      BY <1>1, <1>2, PunchedLater
    <3>2. m[r.user] # Clock!Nobody
      BY <1>2 DEF PunchedBy
    <3> QED
      BY <1>1, <3>1, <3>2
  <2> QED
    BY <2>1 DEF PunchedBy
<1>3. CASE \E row \in k : row.pull = w /\ row.reading = r /\ ~row.resolved
  BY <1>3
<1> QED
  BY <1>2, <1>3 DEF Found

(* Nothing but instants, exits and punches entered by hand.                    *)
LEMMA ClockPasses ==
  ASSUME ClockInv, ClockTyped', UNCHANGED <<clockMapped, clockParked, clockPulls, clockTx>>,
         Later(clockPunches, clockExits, clockPunches', clockExits'),
         Clock!CountedOnce'
  PROVE  ClockInv'
<1>1. /\ clockMapped \in [ClockUsers -> Clocked \cup {Clock!Nobody}]
      /\ clockParked \in SUBSET Clock!ParkedRows
  BY DEF ClockInv, ClockTyped
<1>2. OneKind'
  BY DEF ClockInv, OneKind
<1>3. ASSUME NEW s \in Handlers
      PROVE  RequestFits(clockTx'[s], clockMapped', clockPunches', clockParked', clockExits')
  <2>1. clockTx'[s] = clockTx[s] /\ clockMapped' = clockMapped /\ clockParked' = clockParked
    OBVIOUS
  <2> QED
    BY <1>1, <2>1, ClockTxIs, RequestStays
<1>4. ASSUME NEW w \in Windows, clockPulls'[w] # Clock!Unpulled
      PROVE  Found(w, clockMapped', clockPunches', clockParked')
  <2>1. Found(w, clockMapped, clockPunches, clockParked)
    BY <1>4 DEF ClockInv, AllFound
  <2>2. clockMapped' = clockMapped /\ clockParked' = clockParked
    OBVIOUS
  <2> QED
    BY <1>1, <2>1, <2>2, FoundStays
<1>5. ASSUME NEW row \in clockParked', ~row.resolved
      PROVE  Waits(row.reading, clockMapped', clockExits')
  <2>1. row \in clockParked /\ clockMapped' = clockMapped /\ row.reading \in Clock!ReadingRows
    BY <1>1, <1>5 DEF Clock!ParkedRows
  <2>2. Waits(row.reading, clockMapped, clockExits)
    BY <1>5, <2>1 DEF ClockInv, ParkedWaits
  <2> QED
    BY <1>1, <2>1, <2>2, WaitsStays
<1>6. RequestsFit' /\ AllFound' /\ ParkedWaits'
  BY <1>3, <1>4, <1>5
     DEF RequestsFit, AllFound, ParkedWaits, RequestFits, PullFits, PullCounts, MapFits, Found,
         PunchedBy, Waits, Here
<1> QED
  BY <1>2, <1>6 DEF ClockInv

LEMMA ClockTick ==
  ASSUME ClockInv, Clock!Tick
  PROVE  ClockInv'
<1>1. /\ clockNow < LastAt /\ clockNow' = clockNow + 1
      /\ UNCHANGED <<clockMapped, clockExits, clockPunches, clockParked, clockPulls, clockTx>>
  BY DEF Clock!Tick
<1>2. ClockTyped'
  BY <1>1, ClockConstants DEF ClockInv, ClockTyped
<1>3. Clock!CountedOnce'
  BY <1>1 DEF ClockInv, Clock!CountedOnce
<1>4. Later(clockPunches, clockExits, clockPunches', clockExits')
  BY <1>1 DEF Later
<1> QED
  BY <1>1, <1>2, <1>3, <1>4, ClockPasses

(* Who left has left: the day does not change.                                 *)
LEMMA ClockLeave ==
  ASSUME ClockInv, NEW e \in Clocked, Clock!Leave(e)
  PROVE  ClockInv'
<1>1. /\ clockExits[e] = 0 /\ clockExits' = [clockExits EXCEPT ![e] = clockNow]
      /\ UNCHANGED <<clockNow, clockMapped, clockPunches, clockParked, clockPulls, clockTx>>
  BY DEF Clock!Leave
<1>2. clockExits \in [Clocked -> 0..LastAt] /\ clockNow \in 0..LastAt
  BY DEF ClockInv, ClockTyped
<1>3. ClockTyped'
  BY <1>1 DEF ClockInv, ClockTyped
<1>4. Clock!CountedOnce'
  BY <1>1 DEF ClockInv, Clock!CountedOnce
<1>5. Later(clockPunches, clockExits, clockPunches', clockExits')
  <2>1. \A o \in Clocked : clockExits'[o] = IF o = e THEN clockNow ELSE clockExits[o]
    BY <1>1, <1>2
  <2> QED
    BY <1>1, <2>1 DEF Later, Here
<1> QED
  BY <1>1, <1>3, <1>4, <1>5, ClockPasses

LEMMA InsertIs ==
  ASSUME clockPunches \in [Clock!PunchRows -> Nat], NEW new \in SUBSET Clock!PunchRows,
         Clock!Unique(new), Clock!Insert(new), Clock!CountedOnce
  PROVE  /\ clockPunches' \in [Clock!PunchRows -> Nat] /\ Clock!CountedOnce'
         /\ \A a \in Clock!PunchRows : clockPunches[a] > 0 \/ a \in new => clockPunches'[a] > 0
<1>1. \A a \in Clock!PunchRows : clockPunches'[a] = clockPunches[a] + IF a \in new THEN 1 ELSE 0
  BY DEF Clock!Insert
<1>2. \A a \in new : clockPunches[a] = 0
  BY DEF Clock!Unique
<1>3. DOMAIN clockPunches' = Clock!PunchRows
      /\ clockPunches' = [a \in Clock!PunchRows |-> clockPunches'[a]]
  BY DEF Clock!Insert
<1>4. \A a \in Clock!PunchRows : clockPunches'[a] \in Nat
  BY <1>1
<1>5. clockPunches' \in [Clock!PunchRows -> Nat]
  BY <1>3, <1>4
<1>6. \A a \in Clock!PunchRows : clockPunches'[a] <= 1
  BY <1>1, <1>2 DEF Clock!CountedOnce
<1>7. \A a \in Clock!PunchRows : clockPunches[a] > 0 \/ a \in new => clockPunches'[a] > 0
  BY <1>1
<1> QED
  BY <1>5, <1>6, <1>7 DEF Clock!CountedOnce

LEMMA ClockByHand ==
  ASSUME ClockInv, NEW a \in ByHand, Clock!RecordPunch(a)
  PROVE  ClockInv'
<1>1. /\ Clock!Unique({a}) /\ Clock!Insert({a})
      /\ UNCHANGED <<clockNow, clockMapped, clockExits, clockParked, clockPulls, clockTx>>
  BY DEF Clock!RecordPunch
<1>2. {a} \in SUBSET Clock!PunchRows /\ clockPunches \in [Clock!PunchRows -> Nat]
      /\ Clock!CountedOnce
  BY ClockConstants DEF ClockInv, ClockTyped
<1>3. /\ clockPunches' \in [Clock!PunchRows -> Nat] /\ Clock!CountedOnce'
      /\ \A b \in Clock!PunchRows : clockPunches[b] > 0 => clockPunches'[b] > 0
  BY <1>1, <1>2, InsertIs
<1>4. ClockTyped'
  BY <1>1, <1>3 DEF ClockInv, ClockTyped
<1>5. Later(clockPunches, clockExits, clockPunches', clockExits')
  BY <1>1, <1>3 DEF Later
<1> QED
  BY <1>1, <1>3, <1>4, <1>5, ClockPasses

(* A request that begins, or is given up, leaves the rows alone.               *)
LEMMA ClockRequest ==
  ASSUME ClockInv, NEW s \in Handlers, NEW r \in ClockRequests,
         clockTx' = [clockTx EXCEPT ![s] = r],
         UNCHANGED <<clockNow, clockMapped, clockExits, clockPunches, clockParked, clockPulls>>,
         RequestFits(r, clockMapped, clockPunches, clockParked, clockExits),
         r.op # Clock!None => \A o \in Handlers : clockTx[o].op \in {Clock!None, r.op}
  PROVE  ClockInv'
<1>1. clockTx \in [Handlers -> ClockRequests]
  BY DEF ClockInv, ClockTyped
<1>2. \A o \in Handlers : clockTx'[o] = IF o = s THEN r ELSE clockTx[o]
  BY <1>1
<1>3. ClockTyped'
  BY <1>1 DEF ClockInv, ClockTyped
<1>4. OneKind'
  BY <1>2 DEF ClockInv, OneKind
<1>5. ASSUME NEW o \in Handlers
      PROVE  RequestFits(clockTx'[o], clockMapped', clockPunches', clockParked', clockExits')
  BY <1>2, ClockTxIs
<1>6. AllFound' /\ ParkedWaits' /\ Clock!CountedOnce'
  BY DEF ClockInv, AllFound, ParkedWaits, Clock!CountedOnce, Found, Waits, PunchedBy, Here
<1>7. RequestsFit'
  BY <1>5 DEF RequestsFit, RequestFits, PullFits, PullCounts, MapFits, PunchedBy, Waits, Here
<1> QED
  BY <1>3, <1>4, <1>6, <1>7 DEF ClockInv

LEMMA ClockIdle ==
  ASSUME NEW m, NEW p, NEW k, NEW x
  PROVE  /\ Clock!Idle \in ClockRequests /\ Clock!Idle.op = Clock!None
         /\ RequestFits(Clock!Idle, m, p, k, x)
<1>1. Clock!Idle \in ClockRequests /\ Clock!Idle.op = Clock!None
      /\ Clock!None \notin {"pull", "map"}
  BY DEF Clock!Idle, ClockRequests, Clock!None
<1> QED
  BY <1>1 DEF RequestFits

LEMMA ClockAborts ==
  ASSUME ClockInv, NEW s \in Handlers, Clock!Abort(s)
  PROVE  ClockInv'
BY ClockIdle, ClockRequest DEF Clock!Abort

(* A pull begins with what its window delivers.                                *)
LEMMA ClockBeginsPull ==
  ASSUME ClockInv, NEW s \in Handlers, NEW w \in Windows, Clock!BeginPull(s, w)
  PROVE  ClockInv'
<1> DEFINE park == {r \in Clock!Delivered(w) : Clock!Parkable(r)}
           rest == {r \in Clock!Delivered(w) : ~Clock!Parkable(r)}
           all == {Clock!PunchOf(r) : r \in rest}
           new == {a \in all : clockPunches[a] = 0}
<1>1. PICK t : /\ t = [Clock!Idle EXCEPT !.op = "pull", !.window = w, !.park = park, !.new = new]
               /\ Clock!Starts(s, t)
  BY DEF Clock!BeginPull
<1>2. /\ clockTx' = [clockTx EXCEPT ![s] = t]
      /\ UNCHANGED <<clockNow, clockMapped, clockExits, clockPunches, clockParked, clockPulls>>
      /\ \A o \in Handlers : clockTx[o].op \in {Clock!None, t.op}
  BY <1>1 DEF Clock!Starts
<1>3. /\ t.op = "pull" /\ t.window = w /\ t.park = park /\ t.new = new
      /\ t.user = Clock!Nobody /\ t.who = Clock!Nobody /\ t.resolve = {}
      /\ t = [op |-> "pull", window |-> w, user |-> Clock!Nobody, who |-> Clock!Nobody,
              new |-> new, park |-> park, resolve |-> {}]
  <2> HIDE DEF park, new
  <2>1. t = [op |-> "pull", window |-> w, user |-> Clock!Nobody, who |-> Clock!Nobody,
             new |-> new, park |-> park, resolve |-> {}]
    BY <1>1 DEF Clock!Idle
  <2> QED
    BY <2>1
<1>4. /\ clockMapped \in [ClockUsers -> Clocked \cup {Clock!Nobody}]
      /\ clockExits \in [Clocked -> 0..LastAt] /\ clockPunches \in [Clock!PunchRows -> Nat]
  BY DEF ClockInv, ClockTyped
<1>5. /\ Clock!Delivered(w) \in SUBSET Clock!ReadingRows /\ IsFiniteSet(Clock!Delivered(w))
  BY DeliveredAre
<1>6. ASSUME NEW r \in Clock!Delivered(w)
      PROVE  /\ Clock!Parkable(r) <=> Waits(r, clockMapped, clockExits)
             /\ ~Clock!Parkable(r) =>
                  /\ r.way \in Clock!Ways /\ clockMapped[r.user] \in Clocked
                  /\ Clock!PunchOf(r) = Clock!Punch(clockMapped[r.user], r)
                  /\ Clock!PunchOf(r) \in Clock!PunchRows
  <2>1. r \in Clock!ReadingRows /\ r.user \in ClockUsers
    BY <1>5 DEF Clock!ReadingRows
  <2>2. Clock!Parkable(r) <=> Waits(r, clockMapped, clockExits)
    BY DEF Clock!Parkable, Waits, Clock!Active, Here
  <2>3. ASSUME ~Clock!Parkable(r)
        PROVE  /\ r.way \in Clock!Ways /\ clockMapped[r.user] \in Clocked
               /\ Clock!PunchOf(r) = Clock!Punch(clockMapped[r.user], r)
               /\ Clock!PunchOf(r) \in Clock!PunchRows
    <3>1. r.way \in Clock!Ways /\ clockMapped[r.user] \in Clocked
      BY <1>4, <2>1, <2>3 DEF Clock!Parkable
    <3> QED
      BY <2>1, <3>1, PunchIsRow DEF Clock!PunchOf
  <2> QED
    BY <2>2, <2>3
<1>7. new \in SUBSET Clock!PunchRows /\ park \in SUBSET Clock!ReadingRows
  BY <1>5, <1>6
<1>8. PullFits(t, clockMapped, clockPunches, clockExits)
  <2>1. \A r \in park : Waits(r, clockMapped, clockExits)
    BY <1>6
  <2>2. ASSUME NEW r \in Clock!Delivered(w), r \notin park
        PROVE  PunchedBy(r.user, r, new, clockMapped, clockPunches)
    <3>1. ~Clock!Parkable(r)
      BY <2>2
    <3>2. /\ r.way \in Clock!Ways /\ clockMapped[r.user] \in Clocked
          /\ Clock!PunchOf(r) = Clock!Punch(clockMapped[r.user], r)
          /\ Clock!PunchOf(r) \in Clock!PunchRows
      BY <1>6, <3>1
    <3>3. Clock!PunchOf(r) \in new \/ clockPunches[Clock!PunchOf(r)] # 0
      BY <3>1
    <3>4. Clock!PunchOf(r) \in new \/ clockPunches[Clock!PunchOf(r)] > 0
      BY <1>4, <3>2, <3>3
    <3> HIDE DEF new
    <3> QED
      BY <3>2, <3>4, ClockConstants DEF PunchedBy
  <2> HIDE DEF new, park
  <2> QED
    BY <1>3, <2>1, <2>2 DEF PullFits
<1>9. PullCounts(t)
  <2>1. park \in SUBSET Clock!Delivered(w) /\ rest = Clock!Delivered(w) \ park
    OBVIOUS
  <2>2. /\ IsFiniteSet(park) /\ IsFiniteSet(rest) /\ Cardinality(park) \in Nat
        /\ Cardinality(Clock!Delivered(w)) \in Nat /\ Cardinality(rest) \in Nat
    BY <1>5, <2>1, FS_Subset, FS_CardinalityType
  <2>3. Cardinality(rest) = Cardinality(Clock!Delivered(w)) - Cardinality(park)
    <3>1. Clock!Delivered(w) \cap park = park
      BY <2>1
    <3>2. ASSUME NEW all0, NEW part0, IsFiniteSet(all0), part0 = all0 \cap part0
          PROVE  Cardinality(all0 \ part0) = Cardinality(all0) - Cardinality(part0)
      BY <3>2, FS_Difference
    <3> HIDE DEF park, rest
    <3> QED
      BY <1>5, <2>1, <3>1, <3>2
  <2>4. IsFiniteSet(all) /\ Cardinality(all) <= Cardinality(rest)
    <3> DEFINE f == [r \in rest |-> Clock!PunchOf(r)]
    <3>1. f \in Surjection(rest, all)
      BY DEF Surjection
    <3> HIDE DEF f, rest, all
    <3> QED
      BY <2>2, <3>1, FS_Surjection
  <2>5. IsFiniteSet(new) /\ Cardinality(new) <= Cardinality(all) /\ Cardinality(new) \in Nat
        /\ Cardinality(all) \in Nat
    <3>1. new \in SUBSET all
      OBVIOUS
    <3> HIDE DEF new, all
    <3> QED
      BY <2>4, <3>1, FS_Subset, FS_CardinalityType
  <2> HIDE DEF new, all, rest, park
  <2> QED
    BY <1>3, <2>2, <2>3, <2>4, <2>5 DEF PullCounts
<1> HIDE DEF new, park
<1>10. t \in ClockRequests
  BY <1>3, <1>7 DEF ClockRequests
<1>11. RequestFits(t, clockMapped, clockPunches, clockParked, clockExits)
  BY <1>3, <1>8, <1>9 DEF RequestFits
<1> QED
  BY <1>2, <1>10, <1>11, ClockRequest

LEMMA ClockBeginsMap ==
  ASSUME ClockInv, NEW s \in Handlers, NEW u \in ClockUsers, NEW e \in Clocked,
         Clock!BeginMap(s, u, e)
  PROVE  ClockInv'
<1> DEFINE taken == Clock!TakenUp(u, e)
           all == {Clock!Punch(e, row.reading) : row \in taken}
           new == {a \in all : clockPunches[a] = 0 /\ Clock!Active(e, a.at)}
<1>1. PICK t : /\ t = [Clock!Idle EXCEPT !.op = "map", !.user = u, !.who = e, !.resolve = taken,
                                          !.new = new]
               /\ Clock!Starts(s, t)
  BY DEF Clock!BeginMap
<1>2. /\ clockTx' = [clockTx EXCEPT ![s] = t]
      /\ UNCHANGED <<clockNow, clockMapped, clockExits, clockPunches, clockParked, clockPulls>>
      /\ \A o \in Handlers : clockTx[o].op \in {Clock!None, t.op}
  BY <1>1 DEF Clock!Starts
<1>3. /\ t.op = "map" /\ t.user = u /\ t.who = e /\ t.resolve = taken /\ t.new = new
      /\ t = [op |-> "map", window |-> <<0, 0>>, user |-> u, who |-> e,
              new |-> new, park |-> {}, resolve |-> taken]
  <2> HIDE DEF taken, new
  <2>1. t = [op |-> "map", window |-> <<0, 0>>, user |-> u, who |-> e,
             new |-> new, park |-> {}, resolve |-> taken]
    BY <1>1 DEF Clock!Idle
  <2> QED
    BY <2>1
<1>4. /\ clockParked \in SUBSET Clock!ParkedRows /\ clockPunches \in [Clock!PunchRows -> Nat]
  BY DEF ClockInv, ClockTyped
<1>5. taken = {row \in clockParked : /\ ~row.resolved /\ row.reading.user = u
                                     /\ row.reading.way \in Clock!Ways
                                     /\ Here(clockExits[e], row.reading.at)}
  BY DEF Clock!TakenUp, Clock!Active, Here
<1> HIDE DEF taken
<1>6. ASSUME NEW row \in taken
      PROVE  /\ row.reading \in Clock!ReadingRows /\ row.reading.way \in Clock!Ways
             /\ Clock!Punch(e, row.reading) \in Clock!PunchRows
             /\ Clock!Punch(e, row.reading).at = row.reading.at
             /\ Clock!Active(e, row.reading.at)
  <2>1. row.reading \in Clock!ReadingRows /\ row.reading.way \in Clock!Ways
    BY <1>4, <1>5 DEF Clock!ParkedRows
  <2>2. Clock!Active(e, row.reading.at)
    BY <1>5 DEF Clock!Active, Here
  <2> QED
    BY <2>1, <2>2, PunchIsRow DEF Clock!Punch
<1>7. all \in SUBSET Clock!PunchRows /\ new \in SUBSET Clock!PunchRows
  BY <1>6
<1>8. MapFits(t, clockMapped, clockPunches, clockParked, clockExits)
  <2>1. ASSUME NEW row \in taken
        PROVE  /\ row.reading.user = u /\ row.reading.way \in Clock!Ways
               /\ Clock!Punch(e, row.reading) \in new \/ clockPunches[Clock!Punch(e, row.reading)] > 0
    <3>1. Clock!Punch(e, row.reading) \in all /\ Clock!Punch(e, row.reading) \in Clock!PunchRows
          /\ Clock!Active(e, Clock!Punch(e, row.reading).at)
      BY <1>6
    <3>2. clockPunches[Clock!Punch(e, row.reading)] \in Nat
      BY <1>4, <3>1
    <3>3. row.reading.user = u /\ row.reading.way \in Clock!Ways
      BY <1>5
    <3> HIDE DEF all
    <3> QED
      BY <3>1, <3>2, <3>3
  <2> HIDE DEF new
  <2> QED
    BY <1>3, <1>5, <2>1 DEF MapFits
<1> HIDE DEF new, all
<1>9. t \in ClockRequests
  BY <1>3, <1>4, <1>5, <1>7 DEF ClockRequests
<1>10. RequestFits(t, clockMapped, clockPunches, clockParked, clockExits)
  BY <1>3, <1>8 DEF RequestFits
<1> QED
  BY <1>2, <1>9, <1>10, ClockRequest

(* A request commits: the rows grow, and the session is idle again.            *)
LEMMA ClockCommits ==
  ASSUME ClockInv, NEW s \in Handlers, clockTx' = [clockTx EXCEPT ![s] = Clock!Idle],
         ClockTyped', Clock!CountedOnce', ParkedWaits',
         Later(clockPunches, clockExits, clockPunches', clockExits'),
         \A o \in Handlers : o # s /\ clockTx[o].op = "pull" => clockMapped' = clockMapped,
         \A o \in Handlers : o # s /\ clockTx[o].op = "map" =>
           /\ clockMapped'[clockTx[o].user] = Clock!Nobody
                => clockMapped[clockTx[o].user] = Clock!Nobody
           /\ \A row \in clockParked' : ~row.resolved => row \in clockParked,
         \A u \in ClockUsers : clockMapped[u] # Clock!Nobody => clockMapped'[u] = clockMapped[u],
         \A row \in clockParked : row \in clockParked'
           \/ PunchedBy(row.reading.user, row.reading, {}, clockMapped', clockPunches'),
         \A w \in Windows : clockPulls'[w] # Clock!Unpulled =>
           \/ clockPulls[w] # Clock!Unpulled
           \/ Found(w, clockMapped', clockPunches', clockParked')
  PROVE  ClockInv'
<1>1. /\ clockMapped \in [ClockUsers -> Clocked \cup {Clock!Nobody}]
      /\ clockTx \in [Handlers -> ClockRequests]
  BY DEF ClockInv, ClockTyped
<1>2. \A o \in Handlers : clockTx'[o] = IF o = s THEN Clock!Idle ELSE clockTx[o]
  BY <1>1
<1>3. OneKind'
  <2>1. Clock!Idle.op = Clock!None
    BY ClockIdle
  <2>2. ASSUME NEW a \in Handlers, NEW o \in Handlers, clockTx'[a].op # Clock!None,
               clockTx'[o].op # Clock!None
        PROVE  clockTx'[a].op = clockTx'[o].op
    <3>1. a # s /\ o # s
      BY <1>2, <2>1, <2>2
    <3>2. clockTx'[a] = clockTx[a] /\ clockTx'[o] = clockTx[o]
      BY <1>2, <3>1
    <3> QED
      BY <2>2, <3>2 DEF ClockInv, OneKind
  <2> QED
    BY <2>2 DEF OneKind
<1>4. clockParked' \in SUBSET Clock!ParkedRows
  BY DEF ClockTyped
<1>5. ASSUME NEW o \in Handlers
      PROVE  RequestFits(clockTx'[o], clockMapped', clockPunches', clockParked', clockExits')
  <2>1. CASE o = s
    BY <1>2, <2>1, ClockIdle
  <2>2. CASE o # s
    <3>1. clockTx'[o] = clockTx[o] /\ clockTx[o] \in ClockRequests
      BY <1>1, <1>2, <2>2
    <3>2. RequestFits(clockTx[o], clockMapped, clockPunches, clockParked, clockExits)
      BY ClockTxIs
    <3>3. clockTx[o].op = "pull" => clockMapped' = clockMapped
      BY <2>2
    <3>4. clockTx[o].op = "map" =>
            /\ clockMapped'[clockTx[o].user] = Clock!Nobody
                 => clockMapped[clockTx[o].user] = Clock!Nobody
            /\ \A row \in clockParked' : ~row.resolved => row \in clockParked
      BY <2>2
    <3> QED
      BY <1>1, <1>4, <3>1, <3>2, <3>3, <3>4, RequestStays
  <2> QED
    BY <2>1, <2>2
<1>6. ASSUME NEW w \in Windows, clockPulls'[w] # Clock!Unpulled
      PROVE  Found(w, clockMapped', clockPunches', clockParked')
  <2>1. CASE clockPulls[w] # Clock!Unpulled
    <3>1. Found(w, clockMapped, clockPunches, clockParked)
      BY <2>1 DEF ClockInv, AllFound
    <3> QED
      BY <1>1, <3>1, FoundStays
  <2> QED
    BY <1>6, <2>1
<1>7. RequestsFit' /\ AllFound'
  <2>1. RequestsFit' <=> \A o \in Handlers :
          RequestFits(clockTx'[o], clockMapped', clockPunches', clockParked', clockExits')
    BY DEF RequestsFit, RequestFits, PullFits, PullCounts, MapFits, PunchedBy, Waits, Here
  <2>2. AllFound' <=> \A w \in Windows : clockPulls'[w] # Clock!Unpulled =>
          Found(w, clockMapped', clockPunches', clockParked')
    BY DEF AllFound, Found, PunchedBy
  <2> QED
    BY <1>5, <1>6, <2>1, <2>2
<1> QED
  BY <1>3, <1>7 DEF ClockInv

(* The pull of a window commits its counters, its parked rows, its punches.    *)
LEMMA ClockCommitsPull ==
  ASSUME ClockInv, NEW s \in Handlers, Clock!CommitPull(s)
  PROVE  ClockInv'
<1> DEFINE t == clockTx[s]
           waiting == {[pull |-> t.window, reading |-> r, resolved |-> FALSE] : r \in t.park}
           stated == Clock!Cardinality(Clock!Delivered(t.window))
           counted == [recorded |-> Clock!Cardinality(t.new), parked |-> Clock!Cardinality(t.park),
             duplicates |-> stated - Clock!Cardinality(t.new) - Clock!Cardinality(t.park)]
<1>1. /\ t.op = "pull" /\ clockTx' = [clockTx EXCEPT ![s] = Clock!Idle]
      /\ Clock!Unique(t.new) /\ Clock!Insert(t.new) /\ Clock!Storable(t.park)
      /\ clockParked' = clockParked \cup waiting
      /\ clockPulls' = [clockPulls EXCEPT ![t.window] = counted]
      /\ clockNow' = clockNow /\ clockMapped' = clockMapped /\ clockExits' = clockExits
  BY DEF Clock!CommitPull, Clock!Ends
<1>2. /\ t \in ClockRequests /\ t.new \in SUBSET Clock!PunchRows
      /\ t.park \in SUBSET Clock!ReadingRows
      /\ PullFits(t, clockMapped, clockPunches, clockExits) /\ PullCounts(t)
  <2>1. t \in ClockRequests
        /\ RequestFits(t, clockMapped, clockPunches, clockParked, clockExits)
    BY ClockTxIs
  <2>2. t.new \in SUBSET Clock!PunchRows /\ t.park \in SUBSET Clock!ReadingRows
    BY <2>1 DEF ClockRequests
  <2> HIDE DEF t
  <2> QED
    BY <1>1, <2>1, <2>2 DEF RequestFits
<1>3. OneKind /\ ClockTyped /\ Clock!CountedOnce /\ ParkedWaits
  BY DEF ClockInv
<1>4. \A o \in Handlers : clockTx[o].op # "map"
  <2>1. Clock!None \notin {"pull", "map"}
    BY DEF Clock!None
  <2> QED
    BY <1>1, <1>3, <2>1 DEF OneKind
<1> HIDE DEF t
<1>5. /\ clockMapped \in [ClockUsers -> Clocked \cup {Clock!Nobody}]
      /\ clockPunches \in [Clock!PunchRows -> Nat] /\ clockParked \in SUBSET Clock!ParkedRows
      /\ clockPulls \in [Windows -> Clock!PullRows \cup {Clock!Unpulled}]
      /\ clockTx \in [Handlers -> ClockRequests]
  BY <1>3 DEF ClockTyped
<1>6. t.window \in Windows
  BY <1>2 DEF PullFits
<1>7. /\ clockPunches' \in [Clock!PunchRows -> Nat] /\ Clock!CountedOnce'
      /\ \A a \in Clock!PunchRows : clockPunches[a] > 0 \/ a \in t.new => clockPunches'[a] > 0
  BY <1>1, <1>2, <1>3, <1>5, InsertIs
<1>8. counted \in Clock!PullRows
  <2>1. /\ IsFiniteSet(t.new) /\ IsFiniteSet(t.park) /\ IsFiniteSet(Clock!Delivered(t.window))
        /\ Cardinality(t.new) + Cardinality(t.park) <= Cardinality(Clock!Delivered(t.window))
    BY <1>2, DeliveredAre DEF PullCounts
  <2>2. /\ Cardinality(t.new) \in Nat /\ Cardinality(t.park) \in Nat
        /\ Cardinality(Clock!Delivered(t.window)) \in Nat
    BY <2>1, FS_CardinalityType
  <2>3. /\ Clock!Cardinality(t.new) = Cardinality(t.new)
        /\ Clock!Cardinality(t.park) = Cardinality(t.park)
        /\ stated = Cardinality(Clock!Delivered(t.window))
    BY ClockConstants
  <2>4. stated - Clock!Cardinality(t.new) - Clock!Cardinality(t.park) \in Nat
    <3> HIDE DEF stated
    <3> QED
      BY <2>1, <2>2, <2>3
  <2>5. Clock!Cardinality(t.new) \in Nat /\ Clock!Cardinality(t.park) \in Nat
    BY <2>2, <2>3
  <2> HIDE DEF stated
  <2> QED
    BY <2>4, <2>5 DEF Clock!PullRows
<1>9. ASSUME NEW row \in waiting PROVE row \in Clock!ParkedRows
  <2>1. PICK r \in t.park : row = [pull |-> t.window, reading |-> r, resolved |-> FALSE]
    BY <1>9
  <2> QED
    BY <1>1, <1>2, <1>6, <2>1 DEF Clock!ParkedRows, Clock!Storable
<1> HIDE DEF counted
<1>10. ClockTyped'
  <2>1. clockParked' \in SUBSET Clock!ParkedRows
    <3> HIDE DEF waiting
    <3> QED
      BY <1>1, <1>5, <1>9
  <2>2. clockPulls' \in [Windows -> Clock!PullRows \cup {Clock!Unpulled}]
    BY <1>1, <1>5, <1>8
  <2>3. clockTx' \in [Handlers -> ClockRequests]
    BY <1>1, <1>5, ClockIdle
  <2>4. clockNow' = clockNow /\ clockMapped' = clockMapped /\ clockExits' = clockExits
    BY <1>1
  <2> QED
    BY <1>3, <1>7, <2>1, <2>2, <2>3, <2>4 DEF ClockTyped
<1>11. ASSUME NEW row \in clockParked', ~row.resolved
       PROVE  Waits(row.reading, clockMapped, clockExits)
  <2>1. CASE row \in clockParked
    BY <1>3, <1>11, <2>1 DEF ParkedWaits
  <2>2. CASE row \in waiting
    <3>1. PICK r \in t.park : row = [pull |-> t.window, reading |-> r, resolved |-> FALSE]
      BY <2>2
    <3>2. row.reading = r
      BY <3>1
    <3> QED
      BY <1>2, <3>2 DEF PullFits
  <2> QED
    BY <1>1, <1>11, <2>1, <2>2
<1>12. ParkedWaits'
  BY <1>1, <1>11 DEF ParkedWaits, Waits, Here
<1>13. Later(clockPunches, clockExits, clockPunches', clockExits')
  BY <1>1, <1>7 DEF Later
<1>14. ASSUME NEW r \in Clock!Delivered(t.window)
       PROVE  \/ PunchedBy(r.user, r, {}, clockMapped', clockPunches')
              \/ \E row \in clockParked' :
                   row.pull = t.window /\ row.reading = r /\ ~row.resolved
  <2>1. r \in t.park \/ PunchedBy(r.user, r, t.new, clockMapped, clockPunches)
    BY <1>2 DEF PullFits
  <2>2. CASE r \in t.park
    <3> DEFINE row == [pull |-> t.window, reading |-> r, resolved |-> FALSE]
    <3>1. row \in clockParked'
      BY <1>1, <2>2
    <3>2. row.pull = t.window /\ row.reading = r /\ ~row.resolved
      OBVIOUS
    <3> HIDE DEF row
    <3> QED
      BY <3>1, <3>2
  <2>3. CASE PunchedBy(r.user, r, t.new, clockMapped, clockPunches)
    <3>1. r \in Clock!ReadingRows /\ r.user \in ClockUsers
      BY DeliveredAre DEF Clock!ReadingRows
    <3>2. r.way \in Clock!Ways
      BY <2>3 DEF PunchedBy
    <3>3. clockMapped[r.user] # Clock!Nobody =>
            Clock!Punch(clockMapped[r.user], r) \in Clock!PunchRows
      BY <1>5, <3>1, <3>2, PunchIsRow
    <3>4. PunchedBy(r.user, r, {}, clockMapped, clockPunches')
      BY <1>7, <2>3, <3>3, PunchedStays
    <3> QED
      BY <1>1, <3>4
  <2> QED
    BY <2>1, <2>2, <2>3
<1>15. Found(t.window, clockMapped', clockPunches', clockParked')
  BY <1>14 DEF Found
<1>16. \A w \in Windows : clockPulls'[w] = IF w = t.window THEN counted ELSE clockPulls[w]
  BY <1>1, <1>5
<1>17. \A w \in Windows : clockPulls'[w] # Clock!Unpulled =>
         clockPulls[w] # Clock!Unpulled \/ Found(w, clockMapped', clockPunches', clockParked')
  BY <1>15, <1>16
<1>18. \A row \in clockParked : row \in clockParked'
  BY <1>1
<1> QED
  BY <1>1, <1>4, <1>7, <1>10, <1>12, <1>13, <1>17, <1>18, ClockCommits

(* Somebody is mapped, and what waited for them is taken up.                   *)
LEMMA ClockCommitsMap ==
  ASSUME ClockInv, NEW s \in Handlers, Clock!CommitMap(s)
  PROVE  ClockInv'
<1> DEFINE t == clockTx[s]
           settled == {[row EXCEPT !.resolved = TRUE] : row \in t.resolve}
<1>1. /\ t.op = "map" /\ clockTx' = [clockTx EXCEPT ![s] = Clock!Idle]
      /\ clockMapped[t.user] = Clock!Nobody
      /\ Clock!Unique(t.new) /\ Clock!Insert(t.new)
      /\ clockMapped' = [clockMapped EXCEPT ![t.user] = t.who]
      /\ clockParked' = (clockParked \ t.resolve) \cup settled
      /\ clockNow' = clockNow /\ clockPulls' = clockPulls /\ clockExits' = clockExits
  BY DEF Clock!CommitMap, Clock!Ends
<1>2. /\ t \in ClockRequests /\ t.new \in SUBSET Clock!PunchRows
      /\ t.resolve \in SUBSET Clock!ParkedRows
      /\ MapFits(t, clockMapped, clockPunches, clockParked, clockExits)
  <2>1. t \in ClockRequests
        /\ RequestFits(t, clockMapped, clockPunches, clockParked, clockExits)
    BY ClockTxIs
  <2>2. t.new \in SUBSET Clock!PunchRows /\ t.resolve \in SUBSET Clock!ParkedRows
    BY <2>1 DEF ClockRequests
  <2> HIDE DEF t
  <2> QED
    BY <1>1, <2>1, <2>2 DEF RequestFits
<1>3. OneKind /\ ClockTyped /\ Clock!CountedOnce /\ ParkedWaits
  BY DEF ClockInv
<1>4. \A o \in Handlers : clockTx[o].op # "pull"
  <2>1. Clock!None \notin {"pull", "map"}
    BY DEF Clock!None
  <2> QED
    BY <1>1, <1>3, <2>1 DEF OneKind
<1> HIDE DEF t
<1>5. /\ clockMapped \in [ClockUsers -> Clocked \cup {Clock!Nobody}]
      /\ clockPunches \in [Clock!PunchRows -> Nat] /\ clockParked \in SUBSET Clock!ParkedRows
      /\ clockTx \in [Handlers -> ClockRequests]
  BY <1>3 DEF ClockTyped
<1>6. t.user \in ClockUsers /\ t.who \in Clocked /\ t.who # Clock!Nobody
  BY <1>2, ClockConstants DEF MapFits
<1>7. /\ clockPunches' \in [Clock!PunchRows -> Nat] /\ Clock!CountedOnce'
      /\ \A a \in Clock!PunchRows : clockPunches[a] > 0 \/ a \in t.new => clockPunches'[a] > 0
  BY <1>1, <1>2, <1>3, <1>5, InsertIs
<1>8. ASSUME NEW row \in settled PROVE row \in Clock!ParkedRows /\ row.resolved
  <2>1. PICK old \in t.resolve : row = [old EXCEPT !.resolved = TRUE]
    BY <1>8
  <2>2. old \in Clock!ParkedRows
    BY <1>2, <2>1
  <2> QED
    BY <2>1, <2>2 DEF Clock!ParkedRows
<1> HIDE DEF settled
<1>9. \A u \in ClockUsers : clockMapped'[u] = IF u = t.user THEN t.who ELSE clockMapped[u]
  BY <1>1, <1>5
<1>10. ClockTyped'
  <2>1. clockParked' \in SUBSET Clock!ParkedRows
    BY <1>1, <1>5, <1>8
  <2>2. clockMapped' \in [ClockUsers -> Clocked \cup {Clock!Nobody}]
    BY <1>1, <1>5, <1>6
  <2>3. clockTx' \in [Handlers -> ClockRequests]
    BY <1>1, <1>5, ClockIdle
  <2>4. clockNow' = clockNow /\ clockPulls' = clockPulls /\ clockExits' = clockExits
    BY <1>1
  <2> QED
    BY <1>3, <1>7, <2>1, <2>2, <2>3, <2>4 DEF ClockTyped
<1>11. \A row \in clockParked' : ~row.resolved => row \in clockParked /\ row \notin t.resolve
  BY <1>1, <1>8
<1>12. ASSUME NEW row \in clockParked', ~row.resolved
       PROVE  Waits(row.reading, clockMapped', clockExits)
  <2>1. row \in clockParked /\ row \notin t.resolve
    BY <1>11, <1>12
  <2>2. row.reading \in Clock!ReadingRows /\ row.reading.user \in ClockUsers
    BY <1>5, <2>1 DEF Clock!ParkedRows, Clock!ReadingRows
  <2>3. Waits(row.reading, clockMapped, clockExits)
    BY <1>3, <1>12, <2>1 DEF ParkedWaits
  <2>4. CASE row.reading.user # t.user
    BY <1>9, <2>2, <2>3, <2>4 DEF Waits
  <2>5. CASE row.reading.user = t.user
    <3>1. clockMapped'[row.reading.user] = t.who
      BY <1>9, <2>2, <2>5
    <3>2. row.reading.way \notin Clock!Ways \/ ~Here(clockExits[t.who], row.reading.at)
      BY <1>1, <1>2, <1>12, <2>1, <2>5 DEF MapFits
    <3> QED
      BY <3>1, <3>2 DEF Waits
  <2> QED
    BY <2>4, <2>5
<1>13. ParkedWaits'
  BY <1>1, <1>12 DEF ParkedWaits, Waits, Here
<1>14. Later(clockPunches, clockExits, clockPunches', clockExits')
  BY <1>1, <1>7 DEF Later
<1>15. ASSUME NEW row \in t.resolve
       PROVE  PunchedBy(row.reading.user, row.reading, {}, clockMapped', clockPunches')
  <2>1. /\ row.reading.user = t.user /\ row.reading.way \in Clock!Ways
        /\ Clock!Punch(t.who, row.reading) \in t.new
             \/ clockPunches[Clock!Punch(t.who, row.reading)] > 0
    BY <1>2 DEF MapFits
  <2>2. row.reading \in Clock!ReadingRows
    BY <1>2 DEF Clock!ParkedRows
  <2>3. Clock!Punch(t.who, row.reading) \in Clock!PunchRows
    BY <1>6, <2>1, <2>2, PunchIsRow
  <2>4. clockMapped'[row.reading.user] = t.who
    BY <1>6, <1>9, <2>1
  <2>5. clockPunches'[Clock!Punch(t.who, row.reading)] > 0
    BY <1>7, <2>1, <2>3
  <2> QED
    BY <1>6, <2>1, <2>4, <2>5 DEF PunchedBy
<1>16. \A row \in clockParked : row \in clockParked'
         \/ PunchedBy(row.reading.user, row.reading, {}, clockMapped', clockPunches')
  BY <1>1, <1>15
<1>17. \A u \in ClockUsers : clockMapped[u] # Clock!Nobody => clockMapped'[u] = clockMapped[u]
  BY <1>1, <1>9
<1>18. ASSUME NEW o \in Handlers, clockTx[o].op = "map"
       PROVE  clockMapped'[clockTx[o].user] = Clock!Nobody
                => clockMapped[clockTx[o].user] = Clock!Nobody
  <2>1. clockTx[o].user \in ClockUsers
    <3>1. MapFits(clockTx[o], clockMapped, clockPunches, clockParked, clockExits)
      BY <1>18, ClockTxIs DEF RequestFits
    <3> QED
      BY <3>1 DEF MapFits
  <2> QED
    BY <1>6, <1>9, <2>1
<1>19. \A w \in Windows : clockPulls'[w] # Clock!Unpulled => clockPulls[w] # Clock!Unpulled
  BY <1>1
<1> QED
  BY <1>1, <1>4, <1>7, <1>10, <1>11, <1>13, <1>14, <1>16, <1>17, <1>18, <1>19, ClockCommits

LEMMA ClockStep ==
  ASSUME ClockInv, [Clock!Next]_(Clock!vars)
  PROVE  ClockInv'
<1>1. CASE Clock!Next
  <2>1. CASE \E s \in Handlers, w \in Windows : Clock!BeginPull(s, w)
    BY <2>1, ClockBeginsPull
  <2>2. CASE \E s \in Handlers : Clock!CommitPull(s)
    BY <2>2, ClockCommitsPull
  <2>3. CASE \E s \in Handlers, u \in ClockUsers, e \in Clocked : Clock!BeginMap(s, u, e)
    BY <2>3, ClockBeginsMap
  <2>4. CASE \E s \in Handlers : Clock!CommitMap(s)
    BY <2>4, ClockCommitsMap
  <2>5. CASE \E s \in Handlers : Clock!Abort(s)
    BY <2>5, ClockAborts
  <2>6. CASE \E a \in ByHand : Clock!RecordPunch(a)
    BY <2>6, ClockByHand
  <2>7. CASE \E e \in Clocked : Clock!Leave(e)
    BY <2>7, ClockLeave
  <2>8. CASE Clock!Tick
    BY <2>8, ClockTick
  <2> QED
    BY <1>1, <2>1, <2>2, <2>3, <2>4, <2>5, <2>6, <2>7, <2>8 DEF Clock!Next
<1>2. CASE UNCHANGED Clock!vars
  <2>1. UNCHANGED <<clockNow, clockMapped, clockExits, clockPunches, clockParked, clockPulls, clockTx>>
    BY <1>2 DEF Clock!vars
  <2>2. ClockTyped' /\ Clock!CountedOnce'
    BY <2>1 DEF ClockInv, ClockTyped, Clock!CountedOnce
  <2>3. Later(clockPunches, clockExits, clockPunches', clockExits')
    BY <2>1 DEF Later
  <2> QED
    BY <2>1, <2>2, <2>3, ClockPasses
<1> QED
  BY <1>1, <1>2

LEMMA ClockInvSuffices ==
  ASSUME ClockInv
  PROVE  Clock!TypeOK /\ Clock!CountedOnce /\ Clock!NothingLost /\ Clock!ParkedIsTakenUp
<1>1. ClockTyped /\ Clock!CountedOnce /\ AllFound /\ ParkedWaits
  BY DEF ClockInv
<1>2. Clock!TypeOK
  <2>1. \A s \in Handlers : clockTx[s].new \subseteq Clock!PunchRows
    BY <1>1 DEF ClockTyped, ClockRequests
  <2> QED
    BY <1>1, <2>1 DEF ClockTyped, Clock!TypeOK
<1>3. Clock!NothingLost
  <2> SUFFICES ASSUME NEW w \in Windows, clockPulls[w] # Clock!Unpulled,
                      NEW r \in Clock!Delivered(w)
               PROVE  \/ r.way \in Clock!Ways /\ clockMapped[r.user] # Clock!Nobody
                           /\ clockPunches[Clock!PunchOf(r)] > 0
                      \/ \E row \in clockParked :
                           row.pull = w /\ row.reading = r /\ ~row.resolved
    BY DEF Clock!NothingLost
  <2>1. \/ PunchedBy(r.user, r, {}, clockMapped, clockPunches)
        \/ \E row \in clockParked : row.pull = w /\ row.reading = r /\ ~row.resolved
    BY <1>1 DEF AllFound, Found
  <2> QED
    BY <2>1 DEF PunchedBy, Clock!PunchOf
<1>4. Clock!ParkedIsTakenUp
  <2>1. \A row \in clockParked : row.reading.way \in Clock!Ways
    BY <1>1 DEF ClockTyped, Clock!ParkedRows
  <2> QED
    BY <1>1, <2>1 DEF ParkedWaits, Waits, Here, Clock!ParkedIsTakenUp, Clock!Active
<1> QED
  BY <1>1, <1>2, <1>3, <1>4

(* ------------------------------- the hours --------------------------------- *)

(* The turns of attendance_day one by one, as the fold over the punches takes  *)
(* them: the punches without the last, and then the last.                      *)
Morning == [open |-> 0, pairs |-> 0, minutes |-> 0, unmatched |-> 0]
Latest(s) == CHOOSE x \in s : \A y \in s : x >= y
Turned(p, it, s) ==
  IF s = {} THEN Morning ELSE Clock!PairUp(it[s \ {Latest(s)}], p[Latest(s)])
Turns(p, D, it) == it = [s \in D |-> Turned(p, it, s)]

LEMMA LatestIs ==
  ASSUME NEW s, IsFiniteSet(s), s \in SUBSET Nat, s # {}
  PROVE  Latest(s) \in s
<1> DEFINE Above == {k \in Nat : \A y \in s : y <= k}
           Bad == {k \in Nat : \E S \in SUBSET s : Cardinality(S) = k /\ S # {}
                                  /\ ~ \E x \in S : \A y \in S : x >= y}
<1>1. \A S \in SUBSET s : IsFiniteSet(S) /\ Cardinality(S) \in Nat
  BY FS_Subset, FS_CardinalityType
<1>2. ASSUME Bad # {} PROVE FALSE
  <2>0. Bad \in SUBSET Nat
    OBVIOUS
  <2>1. PICK k \in Bad : \A m \in Bad : k <= m
    <3> HIDE DEF Bad
    <3> QED
      BY <1>2, <2>0, LeastOf
  <2>2. PICK S \in SUBSET s : Cardinality(S) = k /\ S # {} /\ ~ \E x \in S : \A y \in S : x >= y
    BY <2>1
  <2>3. PICK a \in S : TRUE
    BY <2>2
  <2>4. Cardinality(S \ {a}) = k - 1 /\ k - 1 \in Nat
    <3>1. Cardinality(S \ {a}) = Cardinality(S) - 1
      BY <1>1, <2>3, FS_RemoveElement
    <3>2. S \ {a} \in SUBSET s
      OBVIOUS
    <3>3. Cardinality(S \ {a}) \in Nat
      BY <1>1, <3>2
    <3> QED
      BY <2>2, <3>1, <3>3
  <2>5. k - 1 \notin Bad
    BY <2>1, <2>4
  <2>6. S \ {a} # {}
    BY <2>2, <2>3
  <2>7. PICK b \in S \ {a} : \A y \in S \ {a} : b >= y
    BY <2>4, <2>5, <2>6
  <2>8. a \in Nat /\ b \in Nat /\ \A y \in S : y \in Nat
    OBVIOUS
  <2>9. CASE a >= b
    <3>1. \A y \in S : a >= y
      BY <2>7, <2>8, <2>9
    <3> QED
      BY <2>2, <3>1
  <2>10. CASE b >= a
    <3>1. \A y \in S : b >= y
      BY <2>7, <2>8, <2>10
    <3> QED
      BY <2>2, <3>1
  <2> QED
    BY <2>8, <2>9, <2>10
<1>3. s \in SUBSET s /\ Cardinality(s) \in Nat
  BY <1>1
<1>4. \E x \in s : \A y \in s : x >= y
  BY <1>2, <1>3
<1> QED
  BY <1>4 DEF Latest

(* There is such a function.                                                   *)
LEMMA TurnsExist ==
  ASSUME NEW p, NEW S, IsFiniteSet(S), S \in SUBSET Nat
  PROVE  \E it : Turns(p, SUBSET S, it)
<1> DEFINE Bad == {k \in Nat : ~ \E it : Turns(p, UpTo(S, k), it)}
<1>1. \A s \in SUBSET S : IsFiniteSet(s) /\ Cardinality(s) \in Nat /\ Cardinality(s) <= Cardinality(S)
  BY FS_Subset, FS_CardinalityType
<1>2. UpTo(S, Cardinality(S)) = SUBSET S
  BY <1>1 DEF UpTo
<1>3. ASSUME Bad # {} PROVE FALSE
  <2>1. PICK k \in Bad : \A m \in Bad : k <= m
    BY <1>3, LeastOf
  <2>2. k # 0
    <3> SUFFICES ASSUME k = 0 PROVE FALSE
      OBVIOUS
    <3>1. UpTo(S, 0) = {{}}
      BY <1>1, FS_EmptySet DEF UpTo
    <3>2. Turns(p, {{}}, [s \in {{}} |-> Morning])
      BY DEF Turns, Turned
    <3> QED
      BY <3>1, <3>2
  <2>3. k \in Nat /\ k - 1 \in Nat /\ k - 1 \notin Bad
    BY <2>1, <2>2
  <2>4. PICK it : Turns(p, UpTo(S, k - 1), it)
    BY <2>3
  <2> DEFINE new == [s \in UpTo(S, k) |-> Turned(p, it, s)]
  <2>5. ASSUME NEW s \in UpTo(S, k - 1) PROVE new[s] = it[s] /\ s \in UpTo(S, k)
    <3>1. s \in UpTo(S, k)
      BY <1>1, <2>3 DEF UpTo
    <3> QED
      BY <2>4, <3>1 DEF Turns
  <2>6. ASSUME NEW s \in UpTo(S, k) PROVE Turned(p, new, s) = Turned(p, it, s)
    <3> SUFFICES ASSUME s # {} PROVE new[s \ {Latest(s)}] = it[s \ {Latest(s)}]
      BY DEF Turned
    <3>1. s \in SUBSET S /\ Cardinality(s) <= k
      BY DEF UpTo
    <3>2. Latest(s) \in s
      BY <1>1, <3>1, LatestIs
    <3>3. Cardinality(s \ {Latest(s)}) = Cardinality(s) - 1
      BY <1>1, <3>1, <3>2, FS_RemoveElement
    <3>4. s \ {Latest(s)} \in UpTo(S, k - 1)
      <4>1. s \ {Latest(s)} \in SUBSET S /\ Cardinality(s) \in Nat
        BY <1>1, <3>1
      <4> QED
        BY <2>3, <3>1, <3>3, <4>1 DEF UpTo
    <3> QED
      BY <2>5, <3>4
  <2>7. Turns(p, UpTo(S, k), new)
    BY <2>6 DEF Turns
  <2> QED
    BY <2>1, <2>7
<1>4. Cardinality(S) \in Nat \ Bad
  BY <1>3, FS_CardinalityType
<1> QED
  BY <1>2, <1>4

(* The fold is the last of its turns.                                          *)
LEMMA PairedIs ==
  ASSUME NEW e
  PROVE  Clock!Paired(e)
           = (CHOOSE it : Turns(Clock!PunchesOf(e), SUBSET (DOMAIN Clock!PunchesOf(e)), it))
               [DOMAIN Clock!PunchesOf(e)]
BY DEF Clock!Paired, Clock!FoldLeft, Clock!MapThenFoldSet, Clock!Max, Turns, Turned, Latest, Morning

LEMMA TurnsAre ==
  ASSUME NEW p, NEW n \in Nat, DOMAIN p = 1..n
  PROVE  \E run : /\ run[n] = (CHOOSE it : Turns(p, SUBSET (DOMAIN p), it))[DOMAIN p]
                  /\ run[0] = Morning
                  /\ \A k \in 1..n : run[k] = Clock!PairUp(run[k - 1], p[k])
<1> DEFINE it == CHOOSE it : Turns(p, SUBSET (DOMAIN p), it)
           run == [k \in 0..n |-> it[1..k]]
<1>1. IsFiniteSet(1..n) /\ 1..n \in SUBSET Nat
  BY FS_Interval
<1>2. Turns(p, SUBSET (1..n), it)
  BY <1>1, TurnsExist
<1> HIDE DEF it
<1>3. \A s \in SUBSET (1..n) : it[s] = Turned(p, it, s)
  BY <1>2 DEF Turns
<1>4. run[0] = Morning
  <2>1. 1..0 = {} /\ {} \in SUBSET (1..n) /\ 0 \in 0..n
    OBVIOUS
  <2>2. it[{}] = Morning
    BY <1>3, <2>1 DEF Turned
  <2> QED
    BY <2>1, <2>2
<1>5. ASSUME NEW k \in 1..n PROVE run[k] = Clock!PairUp(run[k - 1], p[k])
  <2>1. 1..k \in SUBSET (1..n) /\ 1..k # {} /\ k \in 1..k
    <3>1. \A x \in 1..k : x \in 1..n
      OBVIOUS
    <3>2. k \in 1..k
      OBVIOUS
    <3> QED
      BY <3>1, <3>2
  <2>2. Latest(1..k) = k
    <3>1. \A x \in 1..k : (\A y \in 1..k : x >= y) <=> x = k
      BY <2>1
    <3> QED
      BY <2>1, <3>1 DEF Latest
  <2>3. (1..k) \ {k} = 1..(k - 1)
    OBVIOUS
  <2>4. it[1..k] = Clock!PairUp(it[1..(k - 1)], p[k])
    BY <1>3, <2>1, <2>2, <2>3 DEF Turned
  <2> QED
    BY <2>4
<1>6. run[n] = it[DOMAIN p]
  OBVIOUS
<1> QED
  BY <1>4, <1>5, <1>6 DEF it

(* Hours come from an in and the out that follows it directly.                 *)
DayRows == [open : Nat, pairs : Nat, minutes : Int, unmatched : Nat]
MatchedIn(p, k) == {j \in 1..(k - 1) : p[j].way = "in" /\ p[j + 1].way = "out"}
Gaps(p, n) == [j \in 1..(n - 1) |-> p[j + 1].at - p[j].at]
OpenAt(p, k) == IF k # 0 /\ p[k].way = "in" THEN p[k].at ELSE 0
DayFits(d, p, k, n) ==
  /\ d \in DayRows /\ d.open = OpenAt(p, k)
  /\ d.minutes = SumOver(Gaps(p, n), MatchedIn(p, k))
  /\ 2 * Cardinality(MatchedIn(p, k)) + d.unmatched = k - (IF d.open # 0 THEN 1 ELSE 0)

LEMMA PairUpIs ==
  ASSUME NEW d \in DayRows, NEW a \in Clock!PunchRows, NEW r, r = Clock!PairUp(d, a)
  PROVE  /\ d.open = 0 /\ a.way = "out" =>
              r \in DayRows /\ r.open = 0 /\ r.minutes = d.minutes /\ r.unmatched = d.unmatched + 1
         /\ d.open = 0 /\ a.way = "in" =>
              r \in DayRows /\ r.open = a.at /\ r.minutes = d.minutes /\ r.unmatched = d.unmatched
         /\ d.open # 0 /\ a.way = "in" =>
              r \in DayRows /\ r.open = a.at /\ r.minutes = d.minutes
                /\ r.unmatched = d.unmatched + 1
         /\ d.open # 0 /\ a.way = "out" =>
              r \in DayRows /\ r.open = 0 /\ r.minutes = d.minutes + a.at - d.open
                /\ r.unmatched = d.unmatched
<1>1. a.at \in Nat
  <2>1. a.at \in Clock!Instants
    BY DEF Clock!PunchRows
  <2> QED
    BY <2>1, ClockConstants DEF Clock!Instants
<1>2. /\ d.open \in Nat /\ d.pairs \in Nat /\ d.minutes \in Int /\ d.unmatched \in Nat
      /\ d = [open |-> d.open, pairs |-> d.pairs, minutes |-> d.minutes, unmatched |-> d.unmatched]
  BY DEF DayRows
<1>3. CASE d.open = 0 /\ a.way = "out"
  <2>1. r = [d EXCEPT !.unmatched = @ + 1]
    BY <1>3 DEF Clock!PairUp
  <2> QED
    BY <1>2, <1>3, <2>1 DEF DayRows
<1>4. CASE d.open = 0 /\ a.way = "in"
  <2>1. r = [d EXCEPT !.open = a.at]
    BY <1>4 DEF Clock!PairUp
  <2> QED
    BY <1>1, <1>2, <1>4, <2>1 DEF DayRows
<1>5. CASE d.open # 0 /\ a.way = "in"
  <2>1. r = [d EXCEPT !.open = a.at, !.unmatched = @ + 1]
    BY <1>5 DEF Clock!PairUp
  <2>2. r = [open |-> a.at, pairs |-> d.pairs, minutes |-> d.minutes,
            unmatched |-> d.unmatched + 1]
    BY <1>2, <2>1
  <2>3. r.open \in Nat /\ r.pairs \in Nat /\ r.minutes \in Int /\ r.unmatched \in Nat
    BY <1>1, <1>2, <2>2
  <2> QED
    BY <1>5, <2>2, <2>3 DEF DayRows
<1>6. CASE d.open # 0 /\ a.way = "out"
  <2>1. r = [d EXCEPT !.open = 0, !.pairs = @ + 1, !.minutes = @ + a.at - d.open]
    BY <1>6 DEF Clock!PairUp
  <2>2. r = [open |-> 0, pairs |-> d.pairs + 1, minutes |-> d.minutes + a.at - d.open,
            unmatched |-> d.unmatched]
    BY <1>2, <2>1
  <2>3. r.open \in Nat /\ r.pairs \in Nat /\ r.minutes \in Int /\ r.unmatched \in Nat
    BY <1>1, <1>2, <2>2
  <2> QED
    BY <1>6, <2>2, <2>3 DEF DayRows
<1> QED
  BY <1>3, <1>4, <1>5, <1>6

LEMMA GapsAre ==
  ASSUME NEW n \in Nat, NEW p \in [1..n -> Clock!PunchRows]
  PROVE  /\ \A j \in 1..n : p[j].at \in Nat \ {0} /\ p[j].way \in {"in", "out"}
                            /\ p[j] \in Clock!PunchRows
         /\ \A j \in 1..(n - 1) : j \in 1..n /\ j + 1 \in 1..n
              /\ Gaps(p, n)[j] = p[j + 1].at - p[j].at /\ Gaps(p, n)[j] \in Int
         /\ \A k \in 0..n : MatchedIn(p, k) \in SUBSET (1..(n - 1)) /\ IsFiniteSet(MatchedIn(p, k))
              /\ Cardinality(MatchedIn(p, k)) \in Nat
<1>1. ASSUME NEW j \in 1..n
      PROVE  p[j].at \in Nat \ {0} /\ p[j].way \in {"in", "out"} /\ p[j] \in Clock!PunchRows
  <2>1. p[j] \in Clock!PunchRows
    OBVIOUS
  <2>2. p[j].at \in Clock!Instants /\ p[j].way \in {"in", "out"}
    BY <2>1 DEF Clock!PunchRows, Clock!Ways
  <2> QED
    BY <2>1, <2>2, ClockConstants DEF Clock!Instants
<1>2. ASSUME NEW j \in 1..(n - 1)
      PROVE  j \in 1..n /\ j + 1 \in 1..n
             /\ Gaps(p, n)[j] = p[j + 1].at - p[j].at /\ Gaps(p, n)[j] \in Int
  <2>1. j \in 1..n /\ j + 1 \in 1..n
    OBVIOUS
  <2>2. Gaps(p, n)[j] = p[j + 1].at - p[j].at
    BY DEF Gaps
  <2>3. p[j].at \in Nat /\ p[j + 1].at \in Nat
    BY <1>1, <2>1
  <2> QED
    BY <2>1, <2>2, <2>3
<1>3. ASSUME NEW k \in 0..n
      PROVE  MatchedIn(p, k) \in SUBSET (1..(n - 1)) /\ IsFiniteSet(MatchedIn(p, k))
             /\ Cardinality(MatchedIn(p, k)) \in Nat
  <2>1. ASSUME NEW j \in MatchedIn(p, k) PROVE j \in 1..(n - 1)
    <3>1. j \in 1..(k - 1)
      BY DEF MatchedIn
    <3> QED
      BY <3>1
  <2>2. IsFiniteSet(1..(n - 1))
    BY FS_Interval
  <2> QED
    BY <2>1, <2>2, FS_Subset, FS_CardinalityType
<1> QED
  BY <1>1, <1>2, <1>3

(* One turn.                                                                   *)
LEMMA HoursTurn ==
  ASSUME NEW n \in Nat, NEW p \in [1..n -> Clock!PunchRows], NEW k \in 1..n,
         NEW d, DayFits(d, p, k - 1, n), NEW r, r = Clock!PairUp(d, p[k])
  PROVE  DayFits(r, p, k, n)
<1>1. p[k].at \in Nat \ {0} /\ p[k].way \in {"in", "out"} /\ p[k] \in Clock!PunchRows
  BY GapsAre
<1>2. d \in DayRows /\ d.open = OpenAt(p, k - 1) /\ d.open \in Nat /\ d.minutes \in Int
      /\ d.unmatched \in Nat
  BY DEF DayFits, DayRows
<1>3. k - 1 \in 0..n /\ k \in 0..n
  OBVIOUS
<1>4. /\ IsFiniteSet(MatchedIn(p, k)) /\ IsFiniteSet(MatchedIn(p, k - 1))
      /\ Cardinality(MatchedIn(p, k)) \in Nat /\ Cardinality(MatchedIn(p, k - 1)) \in Nat
  BY <1>3, GapsAre
<1>5. 2 * Cardinality(MatchedIn(p, k - 1)) + d.unmatched = k - 1 - (IF d.open # 0 THEN 1 ELSE 0)
      /\ d.minutes = SumOver(Gaps(p, n), MatchedIn(p, k - 1))
  BY DEF DayFits
<1>6. d.open # 0 <=> k - 1 \in 1..n /\ p[k - 1].way = "in"
  <2>1. CASE k - 1 = 0
    BY <1>2, <2>1 DEF OpenAt
  <2>2. CASE k - 1 # 0
    <3>1. k - 1 \in 1..n /\ p[k - 1].at # 0
      BY <2>2, GapsAre
    <3> QED
      BY <1>2, <2>2, <3>1 DEF OpenAt
  <2> QED
    BY <2>1, <2>2
<1>7. ASSUME NEW j
      PROVE  j \in MatchedIn(p, k) <=>
               (j \in MatchedIn(p, k - 1) \/ (j = k - 1 /\ d.open # 0 /\ p[k].way = "out"))
  <2>1. j \in 1..(k - 1) <=> (j \in 1..(k - 1 - 1) \/ (j = k - 1 /\ k - 1 \in 1..n))
    OBVIOUS
  <2>2. (k - 1) + 1 = k
    OBVIOUS
  <2> QED
    BY <1>6, <2>1, <2>2 DEF MatchedIn
<1>8. CASE ~(d.open # 0 /\ p[k].way = "out")
  <2>1. MatchedIn(p, k) = MatchedIn(p, k - 1)
    BY <1>7, <1>8
  <2>2. /\ r \in DayRows /\ r.minutes = d.minutes
        /\ r.open = IF p[k].way = "in" THEN p[k].at ELSE 0
        /\ r.unmatched = d.unmatched + (IF d.open = 0 /\ p[k].way = "in" THEN 0 ELSE 1)
    BY <1>1, <1>2, <1>8, PairUpIs
  <2>3. r.open = OpenAt(p, k)
    BY <2>2 DEF OpenAt
  <2>4. 2 * Cardinality(MatchedIn(p, k)) + r.unmatched = k - (IF r.open # 0 THEN 1 ELSE 0)
    <3>1. PICK c \in Nat : c = Cardinality(MatchedIn(p, k - 1))
      BY <1>4
    <3>2. k \in Int /\ p[k].at # 0 /\ (p[k].way = "in" \/ p[k].way = "out")
      BY <1>1
    <3>3. CASE d.open = 0 /\ p[k].way = "in"
      BY <1>2, <1>5, <2>1, <2>2, <3>1, <3>2, <3>3
    <3>4. CASE d.open = 0 /\ p[k].way = "out"
      BY <1>2, <1>5, <2>1, <2>2, <3>1, <3>2, <3>4
    <3>5. CASE d.open # 0 /\ p[k].way = "in"
      BY <1>2, <1>5, <2>1, <2>2, <3>1, <3>2, <3>5
    <3> QED
      BY <1>8, <3>2, <3>3, <3>4, <3>5
  <2> QED
    BY <1>5, <2>1, <2>2, <2>3, <2>4 DEF DayFits
<1>9. CASE d.open # 0 /\ p[k].way = "out"
  <2>1. MatchedIn(p, k) = MatchedIn(p, k - 1) \cup {k - 1}
    BY <1>7, <1>9
  <2>2. /\ r \in DayRows /\ r.minutes = d.minutes + p[k].at - d.open
        /\ r.open = 0 /\ r.unmatched = d.unmatched
    BY <1>1, <1>2, <1>9, PairUpIs
  <2>3. k - 1 \in 1..n /\ k - 1 \in 1..(n - 1) /\ p[k - 1].way = "in" /\ (k - 1) + 1 = k
        /\ k - 1 \notin MatchedIn(p, k - 1)
    BY <1>6, <1>9 DEF MatchedIn
  <2>4. Gaps(p, n)[k - 1] = p[k].at - p[k - 1].at /\ Gaps(p, n)[k - 1] \in Int
        /\ d.open = p[k - 1].at
    <3>1. Gaps(p, n)[k - 1] = p[(k - 1) + 1].at - p[k - 1].at /\ Gaps(p, n)[k - 1] \in Int
      BY <2>3, GapsAre
    <3>2. d.open = p[k - 1].at
      BY <1>2, <2>3 DEF OpenAt
    <3> QED
      BY <2>3, <3>1, <3>2
  <2>5. SumOver(Gaps(p, n), MatchedIn(p, k))
          = SumOver(Gaps(p, n), MatchedIn(p, k - 1)) + Gaps(p, n)[k - 1]
    <3>1. \A j \in MatchedIn(p, k - 1) : Gaps(p, n)[j] \in Int
      BY <1>3, GapsAre
    <3> QED
      BY <1>4, <2>1, <2>3, <2>4, <3>1, SumOfOneMore
  <2>6. Cardinality(MatchedIn(p, k)) = Cardinality(MatchedIn(p, k - 1)) + 1
    BY <1>4, <2>1, <2>3, FS_AddElement
  <2>7. r.open = OpenAt(p, k)
    BY <1>9, <2>2 DEF OpenAt
  <2>8. r.minutes = SumOver(Gaps(p, n), MatchedIn(p, k))
    BY <1>1, <1>2, <1>5, <2>2, <2>4, <2>5
  <2>9. 2 * Cardinality(MatchedIn(p, k)) + r.unmatched = k - (IF r.open # 0 THEN 1 ELSE 0)
    <3>1. PICK c \in Nat : c = Cardinality(MatchedIn(p, k - 1))
      BY <1>4
    <3> QED
      BY <1>2, <1>5, <1>9, <2>2, <2>6, <3>1
  <2> QED
    BY <2>2, <2>7, <2>8, <2>9 DEF DayFits
<1> QED
  BY <1>8, <1>9

(* All the turns: a first one that does not fit would follow one that does.    *)
LEMMA HoursRun ==
  ASSUME NEW n \in Nat, NEW p \in [1..n -> Clock!PunchRows], NEW run, run[0] = Morning,
         \A k \in 1..n : run[k] = Clock!PairUp(run[k - 1], p[k])
  PROVE  DayFits(run[n], p, n, n)
<1> DEFINE Bad == {k \in 0..n : ~DayFits(run[k], p, k, n)}
<1>1. DayFits(run[0], p, 0, n)
  <2>1. MatchedIn(p, 0) = {}
    BY DEF MatchedIn
  <2>2. SumOver(Gaps(p, n), MatchedIn(p, 0)) = 0 /\ Cardinality(MatchedIn(p, 0)) = 0
    BY <2>1, SumOfNone, FS_EmptySet
  <2>3. Morning \in DayRows /\ Morning.open = 0 /\ Morning.minutes = 0 /\ Morning.unmatched = 0
    BY DEF Morning, DayRows
  <2> QED
    BY <2>2, <2>3 DEF DayFits, OpenAt
<1>2. ASSUME Bad # {} PROVE FALSE
  <2>1. Bad \in SUBSET Nat
    OBVIOUS
  <2>2. PICK k \in Bad : \A m \in Bad : k <= m
    <3> HIDE DEF Bad
    <3> QED
      BY <1>2, <2>1, LeastOf
  <2>3. k \in 1..n /\ k - 1 \in 0..n /\ k - 1 \notin Bad
    BY <1>1, <2>2
  <2>4. DayFits(run[k - 1], p, k - 1, n)
    BY <2>3
  <2>5. DayFits(run[k], p, k, n)
    BY <2>3, <2>4, HoursTurn
  <2> QED
    BY <2>2, <2>5
<1> QED
  BY <1>2

(* The punches of an employee have a first, a second, and so on: each has as   *)
(* many before it as no other has.                                             *)
Earlier(S, p) == {q \in S : Clock!Before(q, p)}

LEMMA BeforeOrders ==
  ASSUME NEW S \in SUBSET Clock!PunchRows, \A a, b \in S : a.who = b.who
  PROVE  /\ \A a \in S : ~Clock!Before(a, a)
         /\ \A a, b \in S : a # b => (Clock!Before(a, b) \/ Clock!Before(b, a))
         /\ \A a, b, c \in S : Clock!Before(a, b) /\ Clock!Before(b, c) => Clock!Before(a, c)
<1>1. ASSUME NEW a \in S
      PROVE  a.at \in Nat /\ (a.way = "in" \/ a.way = "out")
             /\ a = [who |-> a.who, at |-> a.at, way |-> a.way]
  <2>1. a \in Clock!PunchRows
    OBVIOUS
  <2>2. a.at \in Clock!Instants /\ a.way \in Clock!Ways
        /\ a = [who |-> a.who, at |-> a.at, way |-> a.way]
    BY <2>1 DEF Clock!PunchRows
  <2> QED
    BY <2>2, ClockConstants DEF Clock!Instants, Clock!Ways
<1>2. \A a \in S : ~Clock!Before(a, a)
  BY <1>1 DEF Clock!Before
<1>3. ASSUME NEW a \in S, NEW b \in S, a # b PROVE Clock!Before(a, b) \/ Clock!Before(b, a)
  <2>1. a.at # b.at \/ a.way # b.way
    BY <1>1, <1>3
  <2>2. a.at \in Nat /\ b.at \in Nat
    BY <1>1
  <2>3. (a.way = "in" \/ a.way = "out") /\ (b.way = "in" \/ b.way = "out")
    BY <1>1
  <2> QED
    BY <2>1, <2>2, <2>3 DEF Clock!Before
<1>4. ASSUME NEW a \in S, NEW b \in S, NEW c \in S, Clock!Before(a, b), Clock!Before(b, c)
      PROVE  Clock!Before(a, c)
  <2>1. a.at \in Nat /\ b.at \in Nat /\ c.at \in Nat
    BY <1>1
  <2> QED
    BY <1>4, <2>1 DEF Clock!Before
<1> QED
  BY <1>2, <1>3, <1>4

LEMMA PunchesAreFinite ==
  ASSUME NEW S \in SUBSET Clock!PunchRows, \A a, b \in S : a.who = b.who
  PROVE  IsFiniteSet(S)
<1> DEFINE f == [a \in S |-> <<a.at, a.way>>]
           T == Clock!Instants \X Clock!Ways
<1>1. IsFiniteSet(Clock!Instants)
  BY ClockConstants, FS_Interval DEF Clock!Instants
<1>2. IsFiniteSet(Clock!Ways)
  <2>1. Clock!Ways = {"in"} \cup {"out"}
    BY DEF Clock!Ways
  <2> QED
    BY <2>1, FS_Singleton, FS_Union
<1>3. IsFiniteSet(T)
  BY <1>1, <1>2, FS_Product
<1>4. ASSUME NEW a \in S
      PROVE  /\ a.at \in Clock!Instants /\ a.way \in Clock!Ways
             /\ a = [who |-> a.who, at |-> a.at, way |-> a.way]
  BY DEF Clock!PunchRows
<1>5. ASSUME NEW a \in S, NEW b \in S, f[a] = f[b] PROVE a = b
  <2>1. a.at = b.at /\ a.way = b.way /\ a.who = b.who
    BY <1>5
  <2> QED
    BY <1>4, <2>1
<1>6. f \in [S -> T]
  BY <1>4
<1> HIDE DEF f, T
<1>7. f \in Injection(S, T)
  BY <1>5, <1>6 DEF Injection, IsInjective
<1> QED
  BY <1>3, <1>7, FS_Injection

LEMMA PunchesAreRanked ==
  ASSUME NEW S \in SUBSET Clock!PunchRows, \A a, b \in S : a.who = b.who,
         NEW k \in 1..Cardinality(S)
  PROVE  \E p \in S : Cardinality(Earlier(S, p)) = k - 1
<1> DEFINE rank == [p \in S |-> Cardinality(Earlier(S, p))]
<1>1. IsFiniteSet(S)
  BY PunchesAreFinite
<1>2. PICK n \in Nat : n = Cardinality(S)
  BY <1>1, FS_CardinalityType
<1>3. ASSUME NEW p \in S
      PROVE  /\ Earlier(S, p) \in SUBSET S /\ p \notin Earlier(S, p)
             /\ IsFiniteSet(Earlier(S, p)) /\ Cardinality(Earlier(S, p)) \in 0..(n - 1)
  <2>1. Earlier(S, p) \in SUBSET S /\ p \notin Earlier(S, p)
    BY BeforeOrders DEF Earlier
  <2>2. IsFiniteSet(Earlier(S, p)) /\ Cardinality(Earlier(S, p)) \in Nat
    BY <1>1, <2>1, FS_Subset, FS_CardinalityType
  <2>3. Cardinality(Earlier(S, p)) <= Cardinality(S) /\ Cardinality(Earlier(S, p)) # Cardinality(S)
    BY <1>1, <2>1, FS_Subset
  <2> QED
    BY <1>2, <2>1, <2>2, <2>3
<1>4. ASSUME NEW p \in S, NEW q \in S, Clock!Before(p, q)
      PROVE  Cardinality(Earlier(S, p)) # Cardinality(Earlier(S, q))
  <2>1. Earlier(S, p) \in SUBSET Earlier(S, q)
    BY <1>4, BeforeOrders DEF Earlier
  <2>2. p \in Earlier(S, q) /\ p \notin Earlier(S, p)
    BY <1>3, <1>4 DEF Earlier
  <2> QED
    BY <1>3, <2>1, <2>2, FS_Subset
<1>5. rank \in [S -> 0..(n - 1)]
  BY <1>3
<1>6. ASSUME NEW p \in S, NEW q \in S, rank[p] = rank[q] PROVE p = q
  <2>1. Cardinality(Earlier(S, p)) = Cardinality(Earlier(S, q))
    BY <1>6
  <2> QED
    BY <1>4, <2>1, BeforeOrders
<1>7. k - 1 \in 0..(n - 1)
  BY <1>2
<1> HIDE DEF rank
<1>8. rank \in Injection(S, 0..(n - 1))
  BY <1>5, <1>6 DEF Injection, IsInjective
<1>9. IsFiniteSet(0..(n - 1)) /\ Cardinality(0..(n - 1)) = n
  <2>1. Cardinality(0..(n - 1)) = IF 0 > n - 1 THEN 0 ELSE (n - 1) - 0 + 1
    BY FS_Interval
  <2> QED
    BY <2>1, FS_Interval
<1>10. rank \in Surjection(S, 0..(n - 1))
  BY <1>2, <1>8, <1>9, FS_Injection
<1>11. PICK p \in S : rank[p] = k - 1
  BY <1>7, <1>10 DEF Surjection
<1> QED
  BY <1>11 DEF rank

LEMMA PunchesAre ==
  ASSUME NEW e
  PROVE  \E n \in Nat : Clock!PunchesOf(e) \in [1..n -> Clock!PunchRows]
<1> DEFINE S == {p \in Clock!PunchRows : p.who = e /\ clockPunches[p] > 0}
           n == Clock!Cardinality(S)
           Has(p, k) == Clock!Cardinality({q \in S : Clock!Before(q, p)}) = k - 1
           s == [k \in 1..n |-> CHOOSE p \in S : Has(p, k)]
<1>1. S \in SUBSET Clock!PunchRows /\ \A a, b \in S : a.who = b.who
  OBVIOUS
<1>2. Clock!PunchesOf(e) = s
  BY DEF Clock!PunchesOf
<1> HIDE DEF S
<1>3. n = Cardinality(S) /\ n \in Nat
  BY <1>1, PunchesAreFinite, FS_CardinalityType, ClockConstants
<1>4. ASSUME NEW k \in 1..n PROVE \E p \in S : Has(p, k)
  <2>1. PICK p \in S : Cardinality(Earlier(S, p)) = k - 1
    BY <1>1, <1>3, PunchesAreRanked
  <2>2. Has(p, k)
    BY <2>1, ClockConstants DEF Earlier
  <2> QED
    BY <2>2
<1> HIDE DEF Has
<1>5. s \in [1..n -> Clock!PunchRows]
  <2>1. ASSUME NEW k \in 1..n PROVE s[k] \in Clock!PunchRows
    <3>1. \E p \in S : Has(p, k)
      BY <1>4
    <3>2. (CHOOSE p \in S : Has(p, k)) \in S
      BY <3>1
    <3> QED
      BY <1>1, <3>2
  <2> HIDE DEF n
  <2> QED
    BY <2>1
<1> QED
  BY <1>2, <1>3, <1>5

(* What attendance_day reports of an employee.                                 *)
LEMMA PairedFits ==
  ASSUME NEW e
  PROVE  \E n \in Nat : /\ Clock!PunchesOf(e) \in [1..n -> Clock!PunchRows]
                        /\ DayFits(Clock!Paired(e), Clock!PunchesOf(e), n, n)
<1>1. PICK n \in Nat : Clock!PunchesOf(e) \in [1..n -> Clock!PunchRows]
  BY PunchesAre
<1>2. PICK p : p = Clock!PunchesOf(e)
  OBVIOUS
<1>3. DOMAIN p = 1..n /\ p \in [1..n -> Clock!PunchRows]
  BY <1>1, <1>2
<1>4. PICK run : /\ run[n] = (CHOOSE it : Turns(p, SUBSET (DOMAIN p), it))[DOMAIN p]
                 /\ run[0] = Morning
                 /\ \A k \in 1..n : run[k] = Clock!PairUp(run[k - 1], p[k])
  BY <1>3, TurnsAre
<1>5. DayFits(run[n], p, n, n)
  BY <1>3, <1>4, HoursRun
<1>6. Clock!Paired(e) = run[n]
  BY <1>2, <1>4, PairedIs
<1> QED
  BY <1>2, <1>3, <1>5, <1>6

(* The minutes are the sum of the matched gaps.                                *)
LEMMA GapsSumUp ==
  ASSUME NEW n \in Nat, NEW p, NEW S \in SUBSET (1..(n - 1))
  PROVE  Clock!MapThenSumSet(LAMBDA k : p[k + 1].at - p[k].at, S) = SumOver(Gaps(p, n), S)
<1> DEFINE f == Gaps(p, n)
           Plus(it, s) == IF s = {} THEN 0
                          ELSE (p[First(s) + 1].at - p[First(s)].at) + it[s \ {First(s)}]
<1>1. ASSUME NEW it, NEW s \in SUBSET S PROVE Plus(it, s) = Added(f, it, s)
  <2>1. s # {} => First(s) \in 1..(n - 1)
    BY DEF First
  <2> QED
    BY <2>1 DEF Added, Gaps
<1>2. ASSUME NEW it PROVE [s \in SUBSET S |-> Plus(it, s)] = [s \in SUBSET S |-> Added(f, it, s)]
  BY <1>1
<1>3. (CHOOSE it : it = [s \in SUBSET S |-> Plus(it, s)]) = CHOOSE it : Adds(f, SUBSET S, it)
  BY <1>2 DEF Adds
<1>4. SumOver(f, S) = (CHOOSE it : Adds(f, SUBSET S, it))[S]
  BY SumIsChosen
<1>5. Clock!MapThenSumSet(LAMBDA k : p[k + 1].at - p[k].at, S)
        = (CHOOSE it : it = [s \in SUBSET S |-> Plus(it, s)])[S]
  BY DEF Clock!MapThenSumSet, Clock!MapThenFoldSet, First
<1> QED
  BY <1>3, <1>4, <1>5

(* The smaller of two numbers.                                                 *)
LEMMA LessOf ==
  ASSUME NEW a \in Int, NEW b \in Int
  PROVE  Clock!Min({a, b}) \in Int /\ Clock!Min({a, b}) <= b
<1>1. \E x \in {a, b} : \A y \in {a, b} : x =< y
  OBVIOUS
<1>2. Clock!Min({a, b}) \in {a, b} /\ \A y \in {a, b} : Clock!Min({a, b}) =< y
  BY <1>1 DEF Clock!Min
<1> QED
  BY <1>2

(* Hours are matched, whatever the punches are.                                *)
LEMMA HoursMatch == Clock!HoursAreMatched
<1> SUFFICES ASSUME NEW e \in Clocked
    PROVE LET p == Clock!PunchesOf(e)
              matched == {k \in 1..(Len(p) - 1) : p[k].way = "in" /\ p[k + 1].way = "out"}
          IN /\ Clock!Paired(e).minutes
                  = Clock!MapThenSumSet(LAMBDA k : p[k + 1].at - p[k].at, matched)
             /\ 2 * Clock!Cardinality(matched) + Clock!Paired(e).unmatched
                  = Len(p) - (IF Clock!Paired(e).open # 0 THEN 1 ELSE 0)
             /\ Clock!Worked(e) >= 0
  BY DEF Clock!HoursAreMatched
<1>1. PICK n \in Nat : /\ Clock!PunchesOf(e) \in [1..n -> Clock!PunchRows]
                       /\ DayFits(Clock!Paired(e), Clock!PunchesOf(e), n, n)
  BY PairedFits
<1> DEFINE p == Clock!PunchesOf(e)
<1>2. p = Clock!PunchesOf(e)
  OBVIOUS
<1> HIDE DEF p
<1>3. p \in [1..n -> Clock!PunchRows] /\ DayFits(Clock!Paired(e), p, n, n)
  BY <1>1, <1>2
<1>4. Len(p) = n
  <2>1. p \in Seq(Clock!PunchRows) /\ DOMAIN p = 1..n
    BY <1>3
  <2>2. Len(p) \in Nat /\ DOMAIN p = 1..Len(p)
    BY <2>1
  <2>3. \A k \in Nat : 1..k = 1..n => k = n
    OBVIOUS
  <2> QED
    BY <2>1, <2>2, <2>3
<1> DEFINE matched == {k \in 1..(Len(p) - 1) : p[k].way = "in" /\ p[k + 1].way = "out"}
<1>5. matched = MatchedIn(p, n)
  BY <1>4 DEF MatchedIn
<1>6. n \in 0..n /\ MatchedIn(p, n) \in SUBSET (1..(n - 1))
  BY <1>3, GapsAre
<1>7. Clock!Paired(e).minutes = Clock!MapThenSumSet(LAMBDA k : p[k + 1].at - p[k].at, matched)
  <2>1. Clock!MapThenSumSet(LAMBDA k : p[k + 1].at - p[k].at, MatchedIn(p, n))
          = SumOver(Gaps(p, n), MatchedIn(p, n))
    BY <1>6, GapsSumUp
  <2> HIDE DEF matched
  <2> QED
    BY <1>3, <1>5, <2>1 DEF DayFits
<1>8. 2 * Clock!Cardinality(matched) + Clock!Paired(e).unmatched
        = Len(p) - (IF Clock!Paired(e).open # 0 THEN 1 ELSE 0)
  BY <1>3, <1>4, <1>5, ClockConstants DEF DayFits
<1>9. Clock!Worked(e) >= 0
  <2>1. Clock!Paired(e).minutes \in Int
    BY <1>3 DEF DayFits, DayRows
  <2>2. PICK m \in Int : m = Clock!Paired(e).minutes
    BY <2>1
  <2>3. Clock!Min({Break, m}) \in Int /\ Clock!Min({Break, m}) <= m
    BY ClockConstants, LessOf
  <2>4. Clock!Worked(e) = m - Clock!Min({Break, m})
    BY <2>2 DEF Clock!Worked
  <2> QED
    BY <2>3, <2>4
<1> QED
  BY <1>7, <1>8, <1>9 DEF p

(* -------------------------------- the office ------------------------------- *)

(* A step of the office is a step of the desk at work, and of none other.      *)
LEMMA DesksStep ==
  ASSUME [OfficeNext]_officeVars
  PROVE  /\ [Org!Next]_(Org!vars)
         /\ [Rosters!Next]_(Rosters!vars)
         /\ [Journal!Next]_(Journal!vars)
         /\ [Pay!Next]_(Pay!vars)
         /\ [Leave!Next]_(Leave!vars)
         /\ [Accounts!Next]_(Accounts!vars)
         /\ [Clock!Next]_(Clock!vars)
         /\ desk' = desk
<1> USE DEF leaveVars, payVars, staffVars, clockVars, rosterVars, journalVars, bookVars,
            officeVars, OfficeNext, LeaveWork, PayWork, StaffWork, ClockWork, RostersWork,
            JournalWork, AccountsWork
<1>1. [Org!Next]_(Org!vars)
  BY DEF Org!vars
<1>2. [Rosters!Next]_(Rosters!vars)
  BY DEF Rosters!vars
<1>3. [Journal!Next]_(Journal!vars)
  BY DEF Journal!vars
<1>4. [Pay!Next]_(Pay!vars)
  BY DEF Pay!vars
<1>5. [Leave!Next]_(Leave!vars)
  BY DEF Leave!vars
<1>6. [Accounts!Next]_(Accounts!vars)
  BY DEF Accounts!vars
<1>7. [Clock!Next]_(Clock!vars)
  BY DEF Clock!vars
<1>8. desk' = desk
  OBVIOUS
<1> QED
  BY <1>1, <1>2, <1>3, <1>4, <1>5, <1>6, <1>7, <1>8

OfficeInv ==
  /\ desk \in Desks
  /\ OrgInv /\ RosterInv /\ JournalInv /\ PayInv /\ LeaveInv /\ AccountsInv /\ ClockInv

LEMMA OfficeStarts == OfficeInit => OfficeInv
BY OrgStart, RosterStarts, JournalStarts, PayStarts, LeaveStarts, AccountsStarts,
   ClockStarts
   DEF OfficeInit, OfficeInv

LEMMA OfficeSteps == OfficeInv /\ [OfficeNext]_officeVars => OfficeInv'
<1> SUFFICES ASSUME OfficeInv, [OfficeNext]_officeVars PROVE OfficeInv'
  OBVIOUS
<1>1. OrgInv'
  BY DesksStep, OrgStep DEF OfficeInv
<1>2. RosterInv'
  BY DesksStep, RosterStep DEF OfficeInv
<1>3. JournalInv'
  BY DesksStep, JournalStep DEF OfficeInv
<1>4. PayInv'
  BY DesksStep, PayStep DEF OfficeInv
<1>5. LeaveInv'
  BY DesksStep, LeaveStep DEF OfficeInv
<1>6. AccountsInv'
  BY DesksStep, AccountsStep DEF OfficeInv
<1>7. ClockInv'
  BY DesksStep, ClockStep DEF OfficeInv
<1>8. desk' \in Desks
  BY DesksStep DEF OfficeInv
<1> QED
  BY <1>1, <1>2, <1>3, <1>4, <1>5, <1>6, <1>7, <1>8 DEF OfficeInv

(* What the desks rely on holds throughout: the tree of every day has a depth, *)
(* a request has found what still holds when it commits, the journal carries   *)
(* what was restated, a loan's recoveries add up, leave is entered once and    *)
(* given back as it was taken, the chart of accounts has a depth, what an open *)
(* pull or mapping of the clock holds is still what becomes of its readings    *)
(* (app/hr, app/payroll, app/ledger).                                          *)
THEOREM OfficeInvariant == OfficeSpec => []OfficeInv
<1> QED
  BY OfficeStarts, OfficeSteps, PTL DEF OfficeSpec

(* Every row of every desk keeps its type.                                     *)
THEOREM RowsAlwaysTyped == OfficeSpec => []RowsTyped
<1>1. OfficeInv => RowsTyped
  BY LeaveInvSuffices, PayInvSuffices, ClockInvSuffices, AccountsInvSuffices
     DEF OfficeInv, RowsTyped, OrgInv, RosterInv, JournalInv
<1> QED
  BY <1>1, OfficeInvariant, PTL

(* Whoever is hired, placed, transferred or promoted, in whatever order, on    *)
(* every day the employees form one tree: each way up ends at the one root     *)
(* (org.py place_employee walks up from the new manager).                      *)
THEOREM TreeStandsEachDay == OfficeSpec => []TreeEachDay
<1>1. OfficeInv => TreeEachDay
  BY OrgInvSuffices DEF OfficeInv, TreeEachDay
<1> QED
  BY <1>1, OfficeInvariant, PTL

(* While loans are recovered and settled by one request at a time, a loan is  *)
(* recovered no further than its principal and settled exactly then           *)
(* (loans.py), whatever is computed anew, superseded and approved. However    *)
(* the openings and corrections of runs overlap, the revisions of a period    *)
(* are numbered without a gap, all but the last superseded (engine.py).       *)
THEOREM PayrollAlwaysHolds == OfficeSpec => []PayrollHolds
<1>1. OfficeInv => PayrollHolds
  BY PayInvSuffices DEF OfficeInv, PayrollHolds
<1> QED
  BY <1>1, OfficeInvariant, PTL

(* Of every pull that is recorded, however often windows that overlap deliver *)
(* a reading: it is a punch counted once, or parked until it can be one;      *)
(* where mappings and pulls do not overlap, what can be a punch is taken up   *)
(* (biometric.py). Whatever the punches are, hours come from an in and the    *)
(* out that follows it directly, every other punch is reported, and the break *)
(* takes no more than was worked (attendance.py).                             *)
THEOREM HoursAlwaysHold == OfficeSpec => []HoursHold
<1>1. OfficeInv => HoursHold
  BY ClockInvSuffices, HoursMatch DEF OfficeInv, HoursHold
<1> QED
  BY <1>1, OfficeInvariant, PTL

(* However jobs run again and applications are filed, approved at once or by  *)
(* a chain, and cancelled, one request at a time: leave is accrued once for a *)
(* period, and a cancelled application gives back exactly what its approval   *)
(* took, from the lots it took it from (leave.py, leave_requests.py).         *)
THEOREM LeaveAlwaysHolds == OfficeSpec => []LeaveHolds
<1>1. OfficeInv => LeaveHolds
  BY LeaveInvSuffices DEF OfficeInv, LeaveHolds
<1> QED
  BY <1>1, OfficeInvariant, PTL

(* A key posts one entry, however many requests use it (posting.py).  Whoever  *)
(* creates, moves and retires accounts, in whatever order, the chart is a tree *)
(* of live accounts (accounts.py); and whatever has been posted, the cash flow *)
(* statement ends in the cash there is and the balance sheet balances on every *)
(* day on which no income account is in debit and no retired one has a balance *)
(* (statements.py), for any number of accounts, keys, days and entries.        *)
THEOREM BooksAlwaysHold == OfficeSpec => []BooksHold
<1>1. OfficeInv => BooksHold
  BY JournalInvSuffices, AccountsInvSuffices DEF OfficeInv, BooksHold
<1> QED
  BY <1>1, OfficeInvariant, PTL

(* What was recorded for a day that passed or a month that closed is not      *)
(* rewritten, for any number of staff, days, shifts, rates and clerks: terms  *)
(* and placements before the last start, rosters before an entry's day; and,  *)
(* while no month is closed around a change of its calendar or a posting into *)
(* it, the class of a closed day and a closed month's journal. A revaluation  *)
(* leaves the balance at the rate its memo names.                             *)
THEOREM RecordsAlwaysStand == OfficeSpec => RecordsStand
<1>1. OfficeInv /\ [OfficeNext]_officeVars =>
        [\A e \in People, day \in Org!Days :
           /\ day < Org!Latest(staffContracts[e], Org!NoTerms)
                => Org!TermsOn(e, day)' = Org!TermsOn(e, day)
           /\ day < Org!Latest(staffPlacements[e], Org!Absent)
                => Org!ManagerOn(e, day)' = Org!ManagerOn(e, day)]_(Org!vars)
  BY DesksStep, HistoryStays DEF OfficeInv
<1>2. OfficeInv /\ [OfficeNext]_officeVars =>
        [/\ \A e \in Staffed : rosterRoster'[e] # rosterRoster[e] =>
              \E d \in Rosters!Days, h \in Shifts : \A x \in Rosters!Days :
                Rosters!InForce(rosterRoster[e], Rosters!NoShift, x)'
                  = IF x >= d THEN h ELSE Rosters!InForce(rosterRoster[e], Rosters!NoShift, x)
         /\ \A h \in Shifts :
              Rosters!Rostered(h)' # {} => rosterShifts'[h] = "live"]_(Rosters!vars)
  BY DesksStep, EntriesRule DEF OfficeInv
<1>3. OfficeInv /\ [OfficeNext]_officeVars =>
        [UNCHANGED <<rosterRoster, rosterOverrides, rosterRules>> =>
           \A e \in Staffed, d \in rosterClosed :
             Rosters!ClassifyDay(e, d)' = Rosters!ClassifyDay(e, d)]_(Rosters!vars)
  BY DesksStep, ClosedDayStands DEF OfficeInv
<1>4. OfficeInv /\ [OfficeNext]_officeVars =>
        [journalJournal' # journalJournal =>
           journalPeriods[journalJournal'[Len(journalJournal')].day] # "closed"]_(Journal!vars)
  BY DesksStep, ClosedMonthGetsNone DEF OfficeInv
<1>5. OfficeInv /\ [OfficeNext]_officeVars =>
        [\A d \in Journal!Days :
           (journalJournal' # journalJournal
              /\ journalJournal'[Len(journalJournal')].kind = "fx_revaluation"
              /\ journalJournal'[Len(journalJournal')].day = d)
             => Journal!Carried(d)'
                  = Journal!ForeignNet(d)' * journalJournal'[Len(journalJournal')].memo]_(Journal!vars)
  BY DesksStep, RevaluedIsCarried DEF OfficeInv
<1>6. OfficeSpec => Org!HistoryStands
  BY <1>1, OfficeInvariant, PTL DEF OfficeSpec, Org!HistoryStands
<1>7. OfficeSpec => Rosters!EntriesTakeEffect
  BY <1>2, OfficeInvariant, PTL DEF OfficeSpec, Rosters!EntriesTakeEffect
<1>8. OfficeSpec => Rosters!ClosedDaysStand
  BY <1>3, OfficeInvariant, PTL DEF OfficeSpec, Rosters!ClosedDaysStand
<1>9. OfficeSpec => Journal!ClosedMonthStands
  BY <1>4, OfficeInvariant, PTL DEF OfficeSpec, Journal!ClosedMonthStands
<1>10. OfficeSpec => Journal!CarriedAtTheRate
  BY <1>5, OfficeInvariant, PTL DEF OfficeSpec, Journal!CarriedAtTheRate
<1> QED
  BY <1>6, <1>7, <1>8, <1>9, <1>10 DEF RecordsStand
=============================================================================
