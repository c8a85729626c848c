----------------------------- MODULE OrderPromise -----------------------------
(* What fulfilment promises about a sales order (app/sales/fulfilment.py): a  *)
(* confirmed order owes its units once, goods leave only against what is owed, *)
(* and every unit that leaves comes out of the bin.  SalesOrders implements it. *)
EXTENDS Integers

CONSTANTS
  Orders,
  Quantity   \* Quantity[o]: the units o asks for

VARIABLES
  owed,  \* owed[o]: units promised and not yet gone; -1 before the promise
  bin    \* units in the warehouse

vars == <<owed, bin>>

Init ==
  /\ owed = [o \in Orders |-> -1]
  /\ bin \in Nat

Promise(o) ==
  /\ owed[o] = -1
  /\ owed' = [owed EXCEPT ![o] = Quantity[o]]
  /\ bin' = bin

Leave(o) ==
  \E units \in 1..owed[o] :
    /\ units <= bin
    /\ owed' = [owed EXCEPT ![o] = @ - units]
    /\ bin' = bin - units

Next == \E o \in Orders : Promise(o) \/ Leave(o)

Spec == Init /\ [][Next]_vars
=============================================================================
