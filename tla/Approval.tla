------------------------------- MODULE Approval -------------------------------
(* The approval engine (app/workflow.py): a document is routed through the    *)
(* levels its amount reaches and decided one level at a time.                 *)
(*                                                                            *)
(* decide works on the request row the session loaded.  Nothing locks the     *)
(* row: between the load and the commit other sessions may commit decisions   *)
(* of their own, and the flush then writes the columns this session changed   *)
(* (state, or current_level) over theirs.  Decisions are only ever appended.  *)
EXTENDS Integers, Sequences, FiniteSets

CONSTANTS
  Requests,      \* the documents submitted for approval
  Sessions,      \* the sessions deciding on them
  Levels,        \* how many levels the chain configures
  Threshold,     \* the amount from which each level applies
  Role,          \* the role that decides each level
  Amounts,       \* the amounts a document may state
  MaxDecisions,  \* decisions recorded per request (a bound, not code)
  Nothing        \* "this session has no request in hand"

ASSUME LevelsAssumption == Levels \in Nat /\ Threshold \in [1..Levels -> Nat]
ASSUME AmountsAssumption == Amounts \subseteq Nat
ASSUME NothingAssumption == Nothing \notin Requests
ASSUME DecisionBoundAssumption == MaxDecisions \in Nat

VARIABLES
  state,       \* state[r]: ApprovalRequest.state, "unsubmitted" before it exists
  amount,      \* amount[r]: the amount it was routed for
  level,       \* level[r]: current_level, a position in its chain
  decisions,   \* decisions[r]: the ApprovalDecision rows, oldest first
  hand         \* hand[s]: the request session s loaded, as it was then

vars == <<state, amount, level, decisions, hand>>

Finished == {"approved", "rejected", "returned"}
Actions == {"approve", "reject", "return"}
Roles == {Role[l] : l \in 1..Levels}

(* The levels an amount reaches (chain_for), the length of that chain, and    *)
(* the level at one position of it.                                           *)
Reached(a) == {l \in 1..Levels : Threshold[l] <= a}
ChainLength(a) == Cardinality(Reached(a))
LevelAt(a, position) ==
  CHOOSE l \in Reached(a) : Cardinality({m \in Reached(a) : m <= l}) = position

EmptyHand == [request |-> Nothing, state |-> "unsubmitted", level |-> 1]

Init ==
  /\ state = [r \in Requests |-> "unsubmitted"]
  /\ amount = [r \in Requests |-> 0]
  /\ level = [r \in Requests |-> 1]
  /\ decisions = [r \in Requests |-> <<>>]
  /\ hand = [s \in Sessions |-> EmptyHand]

(* start_approval: no request is made for an amount that reaches no level.    *)
Submit(r, a) ==
  /\ state[r] = "unsubmitted"
  /\ state' = [state EXCEPT ![r] = IF Reached(a) = {} THEN "unrouted" ELSE "pending"]
  /\ amount' = [amount EXCEPT ![r] = a]
  /\ UNCHANGED <<level, decisions, hand>>

(* A request handler loads the row it is going to decide on.                  *)
Load(s, r) ==
  /\ hand[s].request = Nothing
  /\ state[r] \notin {"unsubmitted", "unrouted"}
  /\ hand' = [hand EXCEPT ![s] = [request |-> r, state |-> state[r], level |-> level[r]]]
  /\ UNCHANGED <<state, amount, level, decisions>>

(* The role stated owns the level that was waiting when the row was loaded.   *)
MayDecide(s, role) ==
  /\ hand[s].request # Nothing
  /\ hand[s].state = "pending"
  /\ role = Role[LevelAt(amount[hand[s].request], hand[s].level)]

Record(s, action) ==
  decisions' = [decisions EXCEPT ![hand[s].request] =
                  Append(@, [position |-> hand[s].level, action |-> action])]

PutDown(s) == hand' = [hand EXCEPT ![s] = EmptyHand]

Room(s) == Len(decisions[hand[s].request]) < MaxDecisions

(* Mutant of LastLevel: the chain is finished one level early.                *)
MutLastLevelEarly(s) == hand[s].level + 1 >= ChainLength(amount[hand[s].request])

LastLevel(s) == hand[s].level >= ChainLength(amount[hand[s].request])

(* decide with "approve", flushed and committed.                              *)
Approve(s, role) ==
  /\ MayDecide(s, role)
  /\ Room(s)
  /\ Record(s, "approve")
  /\ IF LastLevel(s)
     THEN /\ state' = [state EXCEPT ![hand[s].request] = "approved"]
          /\ UNCHANGED level
     ELSE /\ level' = [level EXCEPT ![hand[s].request] = hand[s].level + 1]
          /\ UNCHANGED state
  /\ PutDown(s)
  /\ UNCHANGED amount

(* Mutants of TurnDown: a return leaves the request pending at the next       *)
(* level; the action is stored as the state.                                  *)
MutReturnAdvances(s, role, action) ==
  /\ action \in {"reject", "return"}
  /\ MayDecide(s, role)
  /\ Room(s)
  /\ Record(s, action)
  /\ IF action = "reject" \/ LastLevel(s)
     THEN /\ state' = [state EXCEPT ![hand[s].request] = "rejected"]
          /\ UNCHANGED level
     ELSE /\ level' = [level EXCEPT ![hand[s].request] = hand[s].level + 1]
          /\ UNCHANGED state
  /\ PutDown(s)
  /\ UNCHANGED amount
MutStateIsAction(s, role, action) ==
  /\ action \in {"reject", "return"}
  /\ MayDecide(s, role)
  /\ Room(s)
  /\ Record(s, action)
  /\ state' = [state EXCEPT ![hand[s].request] = action]
  /\ PutDown(s)
  /\ UNCHANGED <<amount, level>>

(* decide with "reject" or "return", flushed and committed.                   *)
TurnDown(s, role, action) ==
  /\ action \in {"reject", "return"}
  /\ MayDecide(s, role)
  /\ Room(s)
  /\ Record(s, action)
  /\ state' = [state EXCEPT ![hand[s].request] =
                 IF action = "reject" THEN "rejected" ELSE "returned"]
  /\ PutDown(s)
  /\ UNCHANGED <<amount, level>>

(* RequestNotPending, WrongApprover, a missing reason, or the handler dies:   *)
(* nothing is written.                                                        *)
GiveUp(s) ==
  /\ hand[s].request # Nothing
  /\ PutDown(s)
  /\ UNCHANGED <<state, amount, level, decisions>>

Next ==
  \/ \E r \in Requests, a \in Amounts : Submit(r, a)
  \/ \E s \in Sessions, r \in Requests : Load(s, r)
  \/ \E s \in Sessions, role \in Roles :
       \/ Approve(s, role)
       \/ \E action \in Actions : TurnDown(s, role, action)
  \/ \E s \in Sessions : GiveUp(s)

Spec == Init /\ [][Next]_vars

(* -------------------------------- properties ------------------------------ *)

States == {"unsubmitted", "unrouted", "pending"} \cup Finished
Decision == [position : Nat \ {0}, action : Actions]
Hand == [request : Requests \cup {Nothing}, state : States, level : Nat \ {0}]

TypeOK ==
  /\ state \in [Requests -> States]
  /\ amount \in [Requests -> Nat]
  /\ level \in [Requests -> Nat \ {0}]
  /\ decisions \in [Requests -> Seq(Decision)]
  /\ hand \in [Sessions -> Hand]

(* r carries an approval of every position before p.                          *)
ApprovedBefore(r, p) ==
  \A q \in 1..(p - 1) :
    \E i \in 1..Len(decisions[r]) : decisions[r][i] = [position |-> q, action |-> "approve"]

(* An approved document was approved at every level its amount reaches,       *)
(* however the decisions raced ("nobody configured it" is not "approved").    *)
ApprovedByEveryLevel ==
  \A r \in Requests :
    state[r] = "approved" => ApprovedBefore(r, ChainLength(amount[r]) + 1)

(* "A decision cannot arrive at a level the document has not reached": every  *)
(* decision on the record comes after an approval of every earlier level.     *)
DecisionsFollowTheChain ==
  \A r \in Requests : \A i \in 1..Len(decisions[r]) :
    \A q \in 1..(decisions[r][i].position - 1) :
      \E j \in 1..(i - 1) : decisions[r][j] = [position |-> q, action |-> "approve"]

(* "A finished request takes no further decisions" (decide).                  *)
FinishedIsFinal ==
  [][\A r \in Requests : state[r] \in Finished =>
       state'[r] = state[r] /\ decisions'[r] = decisions[r]]_vars

(* The inductive strengthening: a level that is waiting, or was when a        *)
(* session loaded the row, has every earlier level approved on the record.    *)
ReachedLevelsApproved ==
  /\ \A r \in Requests : ApprovedBefore(r, level[r])
  /\ \A s \in Sessions : hand[s].request # Nothing =>
       ApprovedBefore(hand[s].request, hand[s].level)

ApprovalInv ==
  /\ TypeOK
  /\ ReachedLevelsApproved
  /\ ApprovedByEveryLevel

(* ------------------------- the small instance of TLC ---------------------- *)

(* Three levels: 10 decides a document of 1, 10 and 30 one of 5, all three    *)
(* one of 9; a document of 0 reaches no level.  The first and last level are  *)
(* decided by the same role.                                                  *)
ThreeThresholds == [l \in 1..3 |-> CASE l = 1 -> 1 [] l = 2 -> 9 [] l = 3 -> 5]
TwoRoles == [l \in 1..3 |-> IF l = 2 THEN "director" ELSE "buyer"]
=============================================================================
