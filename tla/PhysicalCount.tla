---------------------------- MODULE PhysicalCount -----------------------------
(* Physical counts (app/stock/counts.py): a count snapshots what the ledger   *)
(* says of a bin, records what was found there, and posts the variance as an  *)
(* adjustment, approved first when its value reaches the threshold.  Posting  *)
(* takes no lock and does not look at what the bin holds by then.             *)
(*                                                                            *)
(* One bin and one item, of one unit cost; the approval is a document of      *)
(* module Approval, here pending and then approved.                           *)
EXTENDS Integers

CONSTANTS
  Counts,     \* the counts of the bin
  Sessions,   \* the sessions that may post a count
  Frozen,     \* whether an open count is the only thing that happens to the
              \* bin, and its posting the only thing that happens to the count
  Cost,       \* what a unit is worth, when the bin holds any
  Threshold,  \* the value from which an adjustment needs an approval
  MaxHeld     \* what the bin or a finding may come to (a bound, not code)

FrozenAssumption == Frozen \in BOOLEAN
CostAssumption == Cost \in Nat \ {0} /\ Threshold \in Nat \ {0}
BoundAssumption == MaxHeld \in Nat \ {0}

VARIABLES
  held,     \* on_hand of the bin
  count,    \* count[c]: the PhysicalCount row and its line
  request,  \* request[c]: the approval request of c
  posts,    \* posts[c]: how often the variance of c was posted
  tx        \* tx[s]: the open posting of s

vars == <<held, count, request, posts, tx>>

None == "none"
NotCounted == -1
Idle == [at |-> "idle", count |-> None, variance |-> 0, value |-> 0]

Init ==
  /\ held = 0
  /\ count = [c \in Counts |-> [state |-> "absent", system |-> 0, found |-> NotCounted]]
  /\ request = [c \in Counts |-> [state |-> None, amount |-> 0]]
  /\ posts = [c \in Counts |-> 0]
  /\ tx = [s \in Sessions |-> Idle]

Open(c) == count[c].state = "open"
Free == Frozen => \A c \in Counts : ~Open(c)

(* receive and issue, under the lock of the bin.                              *)
Move(n) ==
  /\ Free
  /\ held + n \in 0..MaxHeld
  /\ held' = held + n
  /\ UNCHANGED <<count, request, posts, tx>>

(* start_count: the snapshot.                                                 *)
Start(c) ==
  /\ count[c].state = "absent"
  /\ Free
  /\ count' = [count EXCEPT ![c] = [state |-> "open", system |-> held, found |-> NotCounted]]
  /\ UNCHANGED <<held, request, posts, tx>>

(* record_count, again if need be, until the count is posted.                 *)
Record(c, found) ==
  /\ Open(c)
  /\ Frozen => \A s \in Sessions : tx[s].count # c
  /\ count' = [count EXCEPT ![c].found = found]
  /\ UNCHANGED <<held, request, posts, tx>>

Counted(c) == Open(c) /\ count[c].found # NotCounted
Variance(c) == count[c].found - count[c].system

(* value_issue and valuation: an empty bin has no unit cost.                  *)
UnitCost == IF held = 0 THEN 0 ELSE Cost
Value(variance) == IF variance < 0 THEN variance * Cost ELSE variance * UnitCost
Size(n) == IF n < 0 THEN -n ELSE n

(* start_approval, with the value of the adjustment as it is now.             *)
Route(c) ==
  /\ Counted(c)
  /\ request[c].state = None
  /\ Size(Value(Variance(c))) >= Threshold
  /\ request' = [request EXCEPT ![c] = [state |-> "pending", amount |-> Size(Value(Variance(c)))]]
  /\ UNCHANGED <<held, count, posts, tx>>

(* The last decision of its chain.                                            *)
Approve(c) ==
  /\ request[c].state = "pending"
  /\ request' = [request EXCEPT ![c].state = "approved"]
  /\ UNCHANGED <<held, count, posts, tx>>

Takes(s, c, at) ==
  tx' = [tx EXCEPT ![s] = [at |-> at, count |-> c, variance |-> Variance(c), value |-> 0]]

(* Mutant of Begin: nobody is asked.                                          *)
MutUnasked(s, c) ==
  /\ tx[s] = Idle
  /\ Counted(c)
  /\ Takes(s, c, "value")
  /\ UNCHANGED <<held, count, request, posts>>

(* post_adjustment: the count is open, and its value needs no approval, or    *)
(* the request it is posted under is approved.                                *)
Begin(s, c) ==
  /\ tx[s] = Idle
  /\ Counted(c)
  /\ request[c].state = "approved" \/ Size(Value(Variance(c))) < Threshold
  /\ Takes(s, c, "value")
  /\ UNCHANGED <<held, count, request, posts>>

(* The line is valued once more.  The journal refuses lines of no value, so   *)
(* what was found in an empty bin cannot be posted.                           *)
ValueLine(s) ==
  LET value == Value(tx[s].variance) IN
  /\ tx[s].at = "value"
  /\ tx' = [tx EXCEPT ![s].value = value,
                      ![s].at = IF tx[s].variance # 0 /\ value = 0 THEN "refused" ELSE "commit"]
  /\ UNCHANGED <<held, count, request, posts>>

(* Mutants of Commit: what was found is added; the count gets a state of its  *)
(* own.                                                                       *)
MutPostFound(s) ==
  LET c == tx[s].count IN
  /\ tx[s].at = "commit"
  /\ held' = held + count[c].found
  /\ count' = [count EXCEPT ![c].state = "posted"]
  /\ posts' = [posts EXCEPT ![c] = @ + 1]
  /\ tx' = [tx EXCEPT ![s] = Idle]
  /\ UNCHANGED request
MutClosed(s) ==
  /\ tx[s].at = "commit"
  /\ held' = held + tx[s].variance
  /\ count' = [count EXCEPT ![tx[s].count].state = "closed"]
  /\ posts' = [posts EXCEPT ![tx[s].count] = @ + 1]
  /\ tx' = [tx EXCEPT ![s] = Idle]
  /\ UNCHANGED request
(* The movement and the state of the count are committed together.            *)
Commit(s) ==
  LET c == tx[s].count IN
  /\ tx[s].at = "commit"
  /\ held' = held + tx[s].variance
  /\ count' = [count EXCEPT ![c].state = "posted"]
  /\ posts' = [posts EXCEPT ![c] = @ + 1]
  /\ tx' = [tx EXCEPT ![s] = Idle]
  /\ UNCHANGED request

(* A refused or a dying request leaves nothing.                               *)
Abort(s) ==
  /\ tx[s] # Idle
  /\ tx' = [tx EXCEPT ![s] = Idle]
  /\ UNCHANGED <<held, count, request, posts>>

Next ==
  \/ \E n \in -MaxHeld..MaxHeld : Move(n)
  \/ \E c \in Counts :
       \/ Start(c)
       \/ \E found \in 0..MaxHeld : Record(c, found)
       \/ Route(c)
       \/ Approve(c)
       \/ \E s \in Sessions : Begin(s, c)
  \/ \E s \in Sessions : ValueLine(s) \/ Commit(s) \/ Abort(s)

Spec == Init /\ [][Next]_vars

(* -------------------------------- properties ------------------------------ *)

TypeOK ==
  /\ held \in Int
  /\ count \in [Counts -> [state : {"absent", "open", "posted"}, system : Int,
                           found : NotCounted..MaxHeld]]
  /\ request \in [Counts -> [state : {None, "pending", "approved"}, amount : Nat]]
  /\ posts \in [Counts -> Nat]
  /\ tx \in [Sessions -> [at : {"idle", "value", "commit", "refused"}, count : Counts \cup {None},
                          variance : Int, value : Int]]

(* "The location's on-hand quantity then equals what was counted".            *)
CountedIsOnHand ==
  [][\A c \in Counts : posts'[c] > posts[c] => held' = count[c].found]_vars

(* "The ledger is not touched until somebody decided": an adjustment whose    *)
(* value reaches the threshold was approved.                                  *)
ApprovedFirst ==
  [][\A s \in Sessions :
       (tx[s].at = "commit" /\ tx'[s] = Idle /\ posts' # posts /\ Size(tx[s].value) >= Threshold)
         => request[tx[s].count].state = "approved"]_vars
=============================================================================
