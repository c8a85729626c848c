----------------------------- MODULE Traceability -----------------------------
(* Batches through purchase, production and sale, and the trace and the recall *)
(* of one of them (app/stock/batches.py, trace.py).                            *)
(*                                                                             *)
(* A movement moves one unit.  A supplier and a customer are told by the batch *)
(* that came or went; dates, serials and the deepest chain that is followed    *)
(* are left out.                                                               *)
EXTENDS Integers, FiniteSets

CONSTANTS
  Batches,  \* batch rows
  Orders,   \* work orders
  Uses,     \* Uses[o]: the batches whose item order o is built from
  Makes,    \* Makes[o]: the batches whose item order o builds
  MaxHeld   \* units of one batch in stock (a bound, not code)

(* No item is built from itself: a component that its parent is reachable      *)
(* through is refused, in whatever version of a bill (bom.py).                 *)
BuiltUpwards == \E rank \in [Batches -> 0..Cardinality(Batches)] :
  \A o \in Orders : \A used \in Uses[o], made \in Makes[o] : rank[used] < rank[made]

TraceabilityAssumption ==
  /\ IsFiniteSet(Batches) /\ IsFiniteSet(Orders) /\ MaxHeld \in Nat
  /\ Uses \in [Orders -> SUBSET Batches] /\ Makes \in [Orders -> SUBSET Batches]
  /\ BuiltUpwards

VARIABLES
  batches,   \* batches[b]: absent, live or retired
  held,      \* held[b]: units in stock
  supplied,  \* the batches a supplier delivered
  shipped,   \* the batches that went to a customer
  consumed,  \* consumed[o]: the batches order o was issued
  produced   \* produced[o]: the batches order o was received as

vars == <<batches, held, supplied, shipped, consumed, produced>>

Init ==
  /\ batches = [b \in Batches |-> "absent"]
  /\ held = [b \in Batches |-> 0]
  /\ supplied = {} /\ shipped = {}
  /\ consumed = [o \in Orders |-> {}]
  /\ produced = [o \in Orders |-> {}]

(* arriving_batch: the batch of that code, or a new one; the code of a retired *)
(* batch is neither found nor free.                                            *)
Arrives(b) ==
  /\ batches[b] # "retired" /\ held[b] < MaxHeld
  /\ batches' = [batches EXCEPT ![b] = "live"]
  /\ held' = [held EXCEPT ![b] = @ + 1]

Leaves(b) ==
  /\ batches[b] = "live" /\ held[b] > 0
  /\ held' = [held EXCEPT ![b] = @ - 1]
  /\ UNCHANGED batches

ReceiveGoods(b) ==
  /\ Arrives(b)
  /\ supplied' = supplied \cup {b}
  /\ UNCHANGED <<shipped, consumed, produced>>

Ship(b) ==
  /\ Leaves(b)
  /\ shipped' = shipped \cup {b}
  /\ UNCHANGED <<supplied, consumed, produced>>

IssueMaterial(o, b) ==
  /\ b \in Uses[o] /\ Leaves(b)
  /\ consumed' = [consumed EXCEPT ![o] = @ \cup {b}]
  /\ UNCHANGED <<supplied, shipped, produced>>

(* receive_finished_goods: what is received has been consumed for.             *)
ReceiveFinished(o, b) ==
  /\ b \in Makes[o] /\ consumed[o] # {} /\ Arrives(b)
  /\ produced' = [produced EXCEPT ![o] = @ \cup {b}]
  /\ UNCHANGED <<supplied, shipped, consumed>>

RetireBatch(b) ==
  /\ batches[b] = "live" /\ held[b] = 0
  /\ batches' = [batches EXCEPT ![b] = "retired"]
  /\ UNCHANGED <<held, supplied, shipped, consumed, produced>>

Next ==
  \/ \E b \in Batches : ReceiveGoods(b) \/ Ship(b) \/ RetireBatch(b)
  \/ \E o \in Orders, b \in Batches : IssueMaterial(o, b) \/ ReceiveFinished(o, b)

Spec == Init /\ [][Next]_vars

(* --------------------------------- the trace ------------------------------- *)

(* Mutant of Steps: the walk goes on through what a batch was received from.   *)
MutBothWays(direction, b) == {o \in Orders : b \in consumed[o] \cup produced[o]}

(* The work orders at which the walk goes on from a batch.                     *)
Steps(direction, b) == {o \in Orders :
  b \in (IF direction = "forward" THEN consumed[o] ELSE produced[o])}

Documents(direction, o) == IF direction = "forward" THEN produced[o] ELSE consumed[o]

(* walk: what is visited from a batch, through orders that are not among the   *)
(* steps yet.                                                                  *)
Walk(direction, batch, steps) ==
  LET visited[n \in 0..Cardinality(Batches)] ==
        IF n = 0 THEN {batch}
        ELSE visited[n - 1] \cup UNION {Documents(direction, o) :
               o \in (UNION {Steps(direction, b) : b \in visited[n - 1]}) \ steps}
  IN visited[Cardinality(Batches)]

(* Mutant of Backward: the batches visited forward stay visited.               *)
MutKeepVisited(batch) == {}

(* trace: the steps of the forward walk are still there in the backward walk.  *)
Forward(batch) == Walk("forward", batch, {})
Backward(batch) ==
  Walk("backward", batch, UNION {Steps("forward", b) : b \in Forward(batch)})

(* A batch that has been retired is not loaded, and the walk fails on it.      *)
Fails(batch) == \E b \in Forward(batch) \cup Backward(batch) : batches[b] # "live"

(* recall: every hop of either walk names its customer or its supplier.        *)
Customers(batch) == (Forward(batch) \cup Backward(batch)) \cap shipped
Suppliers(batch) == (Forward(batch) \cup Backward(batch)) \cap supplied

(* -------------------------------- properties ------------------------------- *)

(* The batches and the movements.                                              *)
TypeOK ==
  /\ batches \in [Batches -> {"absent", "live", "retired"}]
  /\ held \in [Batches -> 0..MaxHeld]
  /\ supplied \cup shipped \subseteq Batches
  /\ consumed \in [Orders -> SUBSET Batches] /\ produced \in [Orders -> SUBSET Batches]

(* What a batch may have become, by any chain of work orders.                  *)
Chains == [1..Cardinality(Orders) -> Orders]
BecameBy(chain, k, batch, other) ==
  /\ batch \in consumed[chain[1]] /\ other \in produced[chain[k]]
  /\ \A i \in 1..(k - 1) : produced[chain[i]] \cap consumed[chain[i + 1]] # {}
Became(batch, other) ==
  \/ batch = other
  \/ \E chain \in Chains : \E k \in 1..Cardinality(Orders) : BecameBy(chain, k, batch, other)

(* "Raw material reaches the customers of the finished goods, and a finished   *)
(* lot reaches the supplier of its raw material" (trace.py): a recall that     *)
(* does not fail misses no customer who has the batch or what it became, and   *)
(* no supplier of what it was made of.                                         *)
RecallIsComplete == \A batch, other \in Batches :
  batches[batch] = "live" /\ ~Fails(batch) =>
    /\ Became(batch, other) /\ other \in shipped => other \in Customers(batch)
    /\ Became(other, batch) /\ other \in supplied => other \in Suppliers(batch)

(* "The customers the identity (or what it became) reached" (trace.py): a      *)
(* recall names no customer of anything else.                                  *)
RecallNamesOnlyReached == \A batch, other \in Batches :
  batches[batch] = "live" /\ ~Fails(batch) /\ other \in Customers(batch) =>
    Became(batch, other)

(* The recall of a batch that is there answers.                                *)
RecallAnswers == \A batch \in Batches : batches[batch] = "live" => ~Fails(batch)
=============================================================================
