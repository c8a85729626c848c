---------------------------- MODULE BillOfMaterials ----------------------------
(* Bills of materials with their routings (app/manufacturing/bom.py,          *)
(* routing.py) and the work orders that copy them (work_orders.py).           *)
(*                                                                            *)
(* The lines of a bill are a function: units of each item in a unit of the    *)
(* parent, scrap included, 0 where no line names it.  A line is added in two  *)
(* steps: the cycle check reads, the commit writes.                           *)
EXTENDS Integers, FiniteSets, FiniteSetsExt, Folds

CONSTANTS
  Count,       \* items
  LastVersion, \* versions of one item's bill (a bound, not code)
  LastBill,    \* bills in all (a bound, not code)
  Quantities,  \* what a line may state
  MaxLine,     \* units of one component (a bound, not code)
  Steps,       \* operations of a routing (a bound, not code)
  Orders,      \* work orders
  Sessions,    \* database sessions
  Serial       \* whether one line is added at a time

Items == 1..Count
Versions == 1..LastVersion
BomAssumption ==
  /\ Count \in Nat /\ LastVersion \in Nat /\ LastBill \in Nat /\ MaxLine \in Nat /\ Steps \in Nat
  /\ Quantities \subseteq Nat \ {0} /\ Serial \in BOOLEAN

VARIABLES
  boms,    \* boms[i][v]: the bill of item i at version v
  orders,
  adding   \* adding[s]: the line an open request of s is about to insert

vars == <<boms, orders, adding>>

Lines == [Items -> 0..MaxLine]
BomRows == [status : {"absent", "draft", "released"}, lines : Lines, route : 0..Steps]
OrderRows == [item : 0..Count, bom : 0..LastVersion, units : Nat, required : [Items -> Nat],
              route : 0..Steps]
Insertions == [item : 0..Count, bom : 0..LastVersion, part : 0..Count, quantity : Nat]

NoLines == [j \in Items |-> 0]
NoBom == [status |-> "absent", lines |-> NoLines, route |-> 0]
NoOrder == [item |-> 0, bom |-> 0, units |-> 0, required |-> NoLines, route |-> 0]
Idle == [item |-> 0, bom |-> 0, part |-> 0, quantity |-> 0]

Init ==
  /\ boms = [i \in Items |-> [v \in Versions |-> NoBom]]
  /\ orders = [o \in Orders |-> NoOrder]
  /\ adding = [s \in Sessions |-> Idle]

Of(i, status) == {v \in Versions : boms[i][v].status = status}
Highest(S) == IF S = {} THEN 0 ELSE Max(S)

(* ----------------------------------- bills -------------------------------- *)

NextVersion(i) == Highest(Of(i, "draft") \cup Of(i, "released")) + 1
Another(i) ==
  /\ NextVersion(i) \in Versions
  /\ Cardinality({b \in Items \X Versions : boms[b[1]][b[2]] # NoBom}) < LastBill
ReleasedBom(i) == Highest(Of(i, "released"))

CreateBom(i) ==
  /\ Another(i)
  /\ boms' = [boms EXCEPT ![i][NextVersion(i)].status = "draft"]
  /\ UNCHANGED <<orders, adding>>

(* Mutant of Below: only the bills that are released are looked through.      *)
MutReleasedOnly(S) ==
  {j \in Items : \E i \in S : \E v \in Of(i, "released") : boms[i][v].lines[j] > 0}

(* Items reached from a set in one step, through the lines of every version.  *)
Below(S) == {j \in Items : \E i \in S, v \in Versions : boms[i][v].lines[j] > 0}

Descendants(i) ==
  LET reach[n \in 0..Count] == IF n = 0 THEN Below({i}) ELSE reach[n - 1] \cup Below(reach[n - 1])
  IN reach[Count]

ClosesCycle(i, j) == i = j \/ i \in Descendants(j)

BeginAddLine(s, i, v, j, q) ==
  /\ adding[s] = Idle /\ (Serial => \A t \in Sessions : adding[t] = Idle)
  /\ boms[i][v].status = "draft" /\ boms[i][v].lines[j] + q <= MaxLine
  /\ ~ClosesCycle(i, j)
  /\ adding' = [adding EXCEPT ![s] = [item |-> i, bom |-> v, part |-> j, quantity |-> q]]
  /\ UNCHANGED <<boms, orders>>

CommitAddLine(s) ==
  LET a == adding[s] IN
  /\ a # Idle
  /\ boms' = [boms EXCEPT ![a.item][a.bom].lines[a.part] = @ + a.quantity]
  /\ adding' = [adding EXCEPT ![s] = Idle]
  /\ UNCHANGED orders

(* An operation takes the next number of the sequence.                        *)
AddOperation(i, v) ==
  /\ boms[i][v].status = "draft" /\ boms[i][v].route < Steps
  /\ boms' = [boms EXCEPT ![i][v].route = @ + 1]
  /\ UNCHANGED <<orders, adding>>

Release(i, v) ==
  /\ boms[i][v].status = "draft" /\ \A s \in Sessions : adding[s] = Idle
  /\ boms' = [boms EXCEPT ![i][v].status = "released"]
  /\ UNCHANGED <<orders, adding>>

(* The revision is a draft with the same lines; its routing starts empty.     *)
Revise(i, v) ==
  /\ boms[i][v].status = "released" /\ Another(i)
  /\ \A j \in Items : boms[i][v].lines[j] > 0 => ~ClosesCycle(i, j)
  /\ boms' = [boms EXCEPT ![i][NextVersion(i)] =
                [status |-> "draft", lines |-> boms[i][v].lines, route |-> 0]]
  /\ UNCHANGED <<orders, adding>>

(* -------------------------------- explosion ------------------------------- *)

(* The units of each item at a depth below units of i at version v: a         *)
(* component is exploded through the newest bill released for it.             *)
Level(i, v, units) ==
  LET level[n \in 1..(Count + 1)] ==
        IF n = 1 THEN [j \in Items |-> units * boms[i][v].lines[j]]
        ELSE [j \in Items |-> MapThenSumSet(
                LAMBDA k : IF ReleasedBom(k) = 0 THEN 0
                           ELSE level[n - 1][k] * boms[k][ReleasedBom(k)].lines[j], Items)]
  IN level

(* _explode_into refuses a component on the path to itself.                   *)
Finite(i, v) == Level(i, v, 1)[Count + 1] = NoLines

Required(i, v, units) ==
  [j \in Items |-> MapThenSumSet(LAMBDA n : Level(i, v, units)[n][j], 1..Count)]

CreateWorkOrder(o, i, units) ==
  LET v == ReleasedBom(i) IN
  /\ orders[o] = NoOrder /\ v # 0 /\ Finite(i, v)
  /\ orders' = [orders EXCEPT ![o] = [item |-> i, bom |-> v, units |-> units,
                  required |-> Required(i, v, units), route |-> boms[i][v].route]]
  /\ UNCHANGED <<boms, adding>>

Next ==
  \/ \E i \in Items : CreateBom(i)
  \/ \E s \in Sessions, i, j \in Items, v \in Versions, q \in Quantities :
       BeginAddLine(s, i, v, j, q)
  \/ \E s \in Sessions : CommitAddLine(s)
  \/ \E i \in Items, v \in Versions : AddOperation(i, v) \/ Release(i, v) \/ Revise(i, v)
  \/ \E o \in Orders, i \in Items, units \in Quantities : CreateWorkOrder(o, i, units)

Spec == Init /\ [][Next]_vars

(* ------------------------------- properties ------------------------------- *)

(* The bill, order and request rows (bom.py, routing.py, work_orders.py).     *)
TypeOK ==
  /\ boms \in [Items -> [Versions -> BomRows]]
  /\ orders \in [Orders -> OrderRows]
  /\ adding \in [Sessions -> Insertions]

(* Whatever is revised and released in whatever order, every bill an order    *)
(* could be raised from explodes: no item is made of itself, at any depth     *)
(* (bom.py add_line: "refuses a component the parent is already reachable     *)
(* through, which is what keeps the explosion finite").                       *)
EveryBillExplodes ==
  \A i \in Items, v \in Versions : boms[i][v].status # "absent" => Finite(i, v)

(* reconcile_requirements: the requirements of an order equal a fresh         *)
(* explosion of the bill it pinned, "even after the item's BOM has moved on   *)
(* to a later version".  Refuted: the components explode through their        *)
(* newest bill, not through the one the order was raised under.               *)
RequirementsReconcile ==
  \A o \in Orders : orders[o] # NoOrder =>
    orders[o].required = Required(orders[o].item, orders[o].bom, orders[o].units)
================================================================================
