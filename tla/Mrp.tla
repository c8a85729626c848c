---------------------------------- MODULE Mrp ----------------------------------
(* Material requirements planning (app/manufacturing/mrp.py, mrp_output.py,   *)
(* advanced_planning.py): a run nets the demand of every item and period      *)
(* against stock and open supply, explodes what is short into its components, *)
(* finds a period with room for what has to be made, and raises suggestions   *)
(* that a planner converts into work orders and requisitions.                 *)
(*                                                                            *)
(* A period is one day.  Items are numbered in the order of their codes.      *)
EXTENDS Integers, FiniteSets, FiniteSetsExt, SequencesExt

CONSTANTS
  Count,      \* the number of items
  LastBucket, \* the horizon: periods 0..LastBucket
  Parts,      \* Parts[i][j]: units of j, scrap included, in a unit of i
  Lead,       \* Lead[i]: the lead time of i in periods
  Minutes,    \* Minutes[i]: minutes a unit of i takes at the work centre
  Capacity,   \* minutes the work centre has in a period
  Demands,    \* the demands to start from: [Items -> [Buckets -> Nat]]
  Stocks,     \* the stocks to start from: [Items -> Nat]
  Arrivals,   \* the open purchases to start from: [Items -> [Buckets -> Nat]]
  Careful,    \* whether planners convert one suggestion at a time, of the newest run only,
              \* and between runs
  Sessions,   \* database sessions
  LastRun     \* runs of the plan (a bound, not code)

Items == 1..Count
Buckets == 0..LastBucket
Keys == Items \X Buckets

ShapeAssumption ==
  /\ Count \in Nat /\ LastBucket \in Nat /\ LastRun \in Nat /\ Capacity \in Nat
  /\ Careful \in BOOLEAN
  /\ Parts \in [Items -> [Items -> Nat]]
  /\ Lead \in [Items -> Nat] /\ Minutes \in [Items -> Nat]
  /\ Stocks \subseteq [Items -> Nat]
  /\ Demands \subseteq [Items -> [Buckets -> Nat]] /\ Arrivals \subseteq [Items -> [Buckets -> Nat]]

VARIABLES
  stock,    \* on hand
  demand,   \* unshipped units of confirmed sales orders
  orders,   \* open work orders: units of an item due in a bucket
  arriving, \* outstanding units of purchase orders
  phase,    \* of the run being computed: idle, net or level
  pending,  \* the sorted list of demands the run still has to net
  seen,     \* the keys it has netted
  shelf,    \* what it thinks is left of the stock of an item it has read
  left,     \* and of its open supply
  rows,     \* the requirement rows it has made
  todo,     \* the keys it still has to place
  placed,   \* minutes placed in a bucket
  late,     \* the keys no bucket had room for, with the bucket they overload
  runs,     \* committed runs
  plan,     \* the rows of the newest one
  suggestions,
  converting \* converting[s]: the suggestion s has checked and not converted yet

vars == <<stock, demand, orders, arriving, phase, pending, seen, shelf, left, rows, todo,
          placed, late, runs, plan, suggestions, converting>>
world == <<stock, demand, orders, arriving>>

RequirementRows == [gross : Nat, available : Nat, supply : Nat, net : Nat]
SuggestionRows == [run : 1..LastRun, item : Items, bucket : Buckets, quantity : Nat \ {0},
                   state : {"open", "converted"}]
Unread == -1
NoSuggestion == [run |-> 0]

Made(i) == \E j \in Items : Parts[i][j] > 0   \* it has a released bill
Total(S, f(_)) == MapThenSumSet(f, S)
None == [i \in Items |-> [b \in Buckets |-> 0]]

Init ==
  /\ stock \in Stocks /\ demand \in Demands /\ arriving \in Arrivals
  /\ orders = None
  /\ phase = "idle" /\ pending = <<>> /\ seen = {}
  /\ shelf = [i \in Items |-> Unread] /\ left = None
  /\ rows = <<>> /\ todo = {} /\ placed = [b \in Buckets |-> 0] /\ late = {}
  /\ runs = 0 /\ plan = <<>> /\ suggestions = {}
  /\ converting = [s \in Sessions |-> NoSuggestion]

(* ---------------------------------- netting ------------------------------- *)

Before(p, q) == p.bucket < q.bucket \/ (p.bucket = q.bucket /\ p.item < q.item)

(* A new demand goes behind those of its period and item.                     *)
Queue(list, p) ==
  LET after == {k \in DOMAIN list : Before(p, list[k])}
      k == IF after = {} THEN Len(list) + 1 ELSE Min(after) IN
  SubSeq(list, 1, k - 1) \o <<p>> \o SubSeq(list, k, Len(list))

(* The gross demand of the sales orders, by period and then code.             *)
FirstDemand ==
  FoldSet(LAMBDA key, list :
            Queue(list, [item |-> key[1], bucket |-> key[2], amount |-> demand[key[1]][key[2]]]),
          <<>>, {key \in Keys : demand[key[1]][key[2]] > 0})

(* run_mrp begins.                                                            *)
StartRun ==
  /\ phase = "idle" /\ runs < LastRun
  /\ Careful => \A s \in Sessions : converting[s] = NoSuggestion
  /\ phase' = "net"
  /\ pending' = FirstDemand
  /\ seen' = {} /\ rows' = <<>>
  /\ shelf' = [i \in Items |-> Unread] /\ left' = None
  /\ todo' = {} /\ placed' = [b \in Buckets |-> 0] /\ late' = {}
  /\ UNCHANGED <<world, runs, plan, suggestions, converting>>

(* The stock of an item and its open supply are read when it comes first.     *)
Shelf(i) == IF shelf[i] = Unread THEN stock[i] ELSE shelf[i]
(* Mutant of Open: a work order is not supply.                                *)
MutPurchasesOnly(i) == IF shelf[i] = Unread THEN arriving[i] ELSE left[i]
Open(i) == IF shelf[i] = Unread THEN [b \in Buckets |-> arriving[i][b] + orders[i][b]] ELSE left[i]

(* Supply that lands by the end of the period, earliest first, up to amount.  *)
Landed(i, b) == Total(0..b, LAMBDA d : Open(i)[d])
Taken(i, b, amount) == Min({amount, Landed(i, b)})
Remaining(i, b, amount) ==
  LET before(d) == Total(0..(d - 1), LAMBDA e : Open(i)[e])
      gone(d) == Max({0, Min({Open(i)[d], Taken(i, b, amount) - before(d)})}) IN
  [d \in Buckets |-> Open(i)[d] - IF d <= b THEN gone(d) ELSE 0]

(* Mutant of ShelfAfter: the stock is there for every period.                 *)
MutKeepShelf(i, amount) == Shelf(i)
ShelfAfter(i, amount) == Shelf(i) - Min({Shelf(i), amount})

Net(i, b, amount) == Max({0, amount - Shelf(i) - Taken(i, b, amount)})

(* What is short of a made item is demand for its components, one lead time   *)
(* earlier and never before the horizon.                                      *)
Exploded(i, b, net) ==
  FoldSet(LAMBDA j, list :
            Queue(list, [item |-> j, bucket |-> Max({0, b - Lead[i]}), amount |-> net * Parts[i][j]]),
          Tail(pending), {j \in Items : net * Parts[i][j] > 0})

(* One turn of the loop; a key that was netted is not netted again.           *)
NetNext ==
  /\ phase = "net" /\ pending # <<>>
  /\ LET p == Head(pending)
         i == p.item
         b == p.bucket
         net == Net(i, b, p.amount) IN
     IF <<i, b>> \in seen
     THEN /\ pending' = Tail(pending)
          /\ UNCHANGED <<seen, rows, shelf, left>>
     ELSE /\ seen' = seen \cup {<<i, b>>}
          /\ rows' = [key \in seen' |->
               IF key = <<i, b>> THEN [gross |-> p.amount, available |-> Shelf(i),
                                       supply |-> Taken(i, b, p.amount), net |-> net]
               ELSE rows[key]]
          /\ shelf' = [shelf EXCEPT ![i] = ShelfAfter(i, p.amount)]
          /\ left' = [left EXCEPT ![i] = Remaining(i, b, p.amount)]
          /\ pending' = Exploded(i, b, net)
  /\ UNCHANGED <<world, phase, todo, placed, late, runs, plan, suggestions, converting>>

(* ----------------------------- finite capacity ---------------------------- *)

(* run_advanced_plan reads the rows of the run in order.                      *)
StartLevel ==
  /\ phase = "net" /\ pending = <<>>
  /\ phase' = "level"
  /\ todo' = {key \in seen : Made(key[1]) /\ rows[key].net > 0}
  /\ UNCHANGED <<world, pending, seen, shelf, left, rows, placed, late, runs, plan,
                 suggestions, converting>>

NextToPlace == CHOOSE key \in todo :
  \A other \in todo : other[2] > key[2] \/ (other[2] = key[2] /\ other[1] >= key[1])

(* Mutant of Room: what is already there fits.                                *)
MutRoom(minutes, b) == placed[b] <= Capacity
Room(minutes, b) == placed[b] + minutes <= Capacity

(* Work goes into the first period from its release on with room for it, and  *)
(* into its own with a note where the horizon has none.                       *)
Place ==
  /\ phase = "level" /\ todo # {}
  /\ LET key == NextToPlace
         minutes == rows[key].net * Minutes[key[1]]
         release == Max({0, key[2] - Lead[key[1]]})
         fits == {b \in release..LastBucket : Room(minutes, b)}
         b == IF fits = {} THEN release ELSE Min(fits) IN
     /\ placed' = [placed EXCEPT ![b] = @ + minutes]
     /\ late' = IF fits = {} THEN late \cup {b} ELSE late
     /\ todo' = todo \ {key}
  /\ UNCHANGED <<world, phase, pending, seen, shelf, left, rows, runs, plan,
                 suggestions, converting>>

(* -------------------------------- suggestions ----------------------------- *)

(* The run commits, and raise_suggestions makes one of every net requirement. *)
Finish ==
  /\ phase = "level" /\ todo = {}
  /\ phase' = "idle"
  /\ runs' = runs + 1
  /\ plan' = rows
  /\ suggestions' = suggestions \cup
       {[run |-> runs + 1, item |-> key[1], bucket |-> key[2], quantity |-> rows[key].net,
         state |-> "open"] : key \in {key \in seen : rows[key].net > 0}}
  /\ UNCHANGED <<world, pending, seen, shelf, left, rows, todo, placed, late, converting>>

(* is_stale: a newer run says something else of the item and period.          *)
Stale(g) ==
  LET key == <<g.item, g.bucket>> IN
  g.run # runs /\ (key \notin DOMAIN plan \/ plan[key].net # g.quantity)

(* convert_suggestion loads the row and checks what it says; no row is locked *)
(* and no index refuses a second document.  A stale one takes an override.    *)
BeginConvert(s, g, override) ==
  /\ g.state = "open" /\ (Stale(g) => override)
  /\ converting[s] = NoSuggestion
  /\ Careful => /\ phase = "idle" /\ g.run = runs
                /\ \A t \in Sessions : converting[t] = NoSuggestion
  /\ converting' = [converting EXCEPT ![s] = g]
  /\ UNCHANGED <<world, phase, pending, seen, shelf, left, rows, todo, placed, late, runs, plan,
                 suggestions>>

(* A work order for a made item, which is open supply, or a requisition, which *)
(* is not.                                                                    *)
CommitConvert(s) ==
  LET g == converting[s] IN
  /\ g # NoSuggestion
  /\ suggestions' = (suggestions \ {g}) \cup {[g EXCEPT !.state = "converted"]}
  /\ orders' = IF Made(g.item) THEN [orders EXCEPT ![g.item][g.bucket] = @ + g.quantity] ELSE orders
  /\ converting' = [converting EXCEPT ![s] = NoSuggestion]
  /\ UNCHANGED <<stock, demand, arriving, phase, pending, seen, shelf, left, rows, todo, placed,
                 late, runs, plan>>

(* The document is refused, or its session dies.                              *)
AbortConvert(s) ==
  /\ converting[s] # NoSuggestion
  /\ converting' = [converting EXCEPT ![s] = NoSuggestion]
  /\ UNCHANGED <<world, phase, pending, seen, shelf, left, rows, todo, placed, late, runs, plan,
                 suggestions>>

(* Goods that were ordered arrive.                                            *)
Arrive(i, b) ==
  /\ arriving[i][b] > 0 /\ phase = "idle"
  /\ arriving' = [arriving EXCEPT ![i][b] = 0]
  /\ stock' = [stock EXCEPT ![i] = @ + arriving[i][b]]
  /\ UNCHANGED <<demand, orders, phase, pending, seen, shelf, left, rows, todo, placed, late,
                 runs, plan, suggestions, converting>>

(* A customer orders one more.                                                *)
Order(i, b) ==
  /\ phase = "idle" /\ runs = 1 /\ demand[i][b] = 0  \* once per key (a bound, not code)
  /\ demand' = [demand EXCEPT ![i][b] = 1]
  /\ UNCHANGED <<stock, orders, arriving, phase, pending, seen, shelf, left, rows, todo, placed,
                 late, runs, plan, suggestions, converting>>

Next ==
  \/ StartRun \/ NetNext \/ StartLevel \/ Place \/ Finish
  \/ \E s \in Sessions, g \in suggestions, override \in BOOLEAN : BeginConvert(s, g, override)
  \/ \E s \in Sessions : CommitConvert(s) \/ AbortConvert(s)
  \/ \E i \in Items, b \in Buckets : Arrive(i, b) \/ Order(i, b)

Spec == Init /\ [][Next]_vars

(* -------------------------------- properties ------------------------------ *)

TypeOK ==
  /\ DOMAIN rows = seen
  /\ \A key \in seen : key \in Keys /\ rows[key] \in RequirementRows
  /\ suggestions \subseteq SuggestionRows
  /\ converting \in [Sessions -> SuggestionRows \cup {NoSuggestion}]
  /\ stock \in [Items -> Nat] /\ orders \in [Items -> [Buckets -> Nat]]
  /\ left \in [Items -> [Buckets -> Nat]] /\ shelf \in [Items -> Nat \cup {Unread}]
  /\ placed \in [Buckets -> Nat] /\ runs \in 0..LastRun

(* "Both are consumed earliest-bucket-first": what covers one period of an    *)
(* item does not cover another as well, so what all rows take is there.       *)
Read(i) == shelf[i] # Unread
NothingCoversTwice ==
  \A i \in Items :
    LET mine == {key \in seen : key[1] = i} IN
    (Read(i) /\ phase # "idle") =>
      Total(mine, LAMBDA key : rows[key].gross - rows[key].net)
        <= Total(mine, LAMBDA key : rows[key].supply) + stock[i]

(* "A requirement the horizon cannot absorb is reported rather than silently  *)
(* overloading".                                                              *)
OverloadIsReported == \A b \in Buckets : placed[b] > Capacity => b \in late

(* "Converting it would buy the wrong quantity": with nothing in stock or on  *)
(* its way but what the plan itself ordered, no more of an item is ordered    *)
(* than customers want of it.                                                 *)
NothingBuiltTwice ==
  \A i \in Items :
    (\A j \in Items : Parts[j][i] = 0) =>
      Total(Buckets, LAMBDA b : orders[i][b]) <= Total(Buckets, LAMBDA b : demand[i][b])

(* "The net requirement of an item that has a released BOM becomes gross      *)
(* demand for its components": all of it, once the run has netted everything. *)
Wanted(i) ==
  Total(Buckets, LAMBDA b : demand[i][b])
  + Total(seen, LAMBDA key : rows[key].net * Parts[key[1]][i])
AllDemandIsNetted ==
  (phase = "level") =>
    \A i \in Items : Total({key \in seen : key[1] = i}, LAMBDA key : rows[key].gross) = Wanted(i)

(* "Supply is on-hand plus what is already ordered": nothing is short while   *)
(* stock and what has landed cover the demand up to the period.               *)
ShortOnlyWhenShort ==
  (phase = "level") =>
    \A key \in seen :
      LET i == key[1]
          earlier == {k \in seen : k[1] = i /\ k[2] <= key[2]} IN
      rows[key].net > 0 =>
        Total(earlier, LAMBDA k : rows[k].gross) >
          stock[i] + Total(0..key[2], LAMBDA d : arriving[i][d] + orders[i][d])
=============================================================================
