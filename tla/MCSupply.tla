------------------------------- MODULE MCSupply -------------------------------
(* The desks of the supply side: purchase orders with their receipts, sourcing, *)
(* the holds of the three-way match, physical counts, bins with serial units,   *)
(* batches with their recall, and the factory: bills of materials, planning,    *)
(* production.  They share no rows, so one of them works in a behaviour while   *)
(* the others stand still: what is reached of a desk is what it reaches alone.  *)
EXTENDS Integers, Sequences, FiniteSets, TLC

CONSTANTS
  Sessions,    \* database sessions
  Clerks,      \* those that post receipts and counts
  Planners,    \* those that add lines to bills
  (* purchase orders and sourcing: see PurchaseReceipts, Sourcing *)
  Receipts, MaxRevisions, MaxDelivered,
  Requisitions, Rfqs, Purchases, Vendors, Contacts, MaxAsked,
  (* holds: see MatchHold *)
  Invoices, Holders, Sweepers, HoldClerks, Practices, MaxRuns, MaxHolds,
  (* counts: see PhysicalCount *)
  Counts, UnitWorth, Threshold, MaxFound,
  (* bins and batches: see StockPlaces, Traceability *)
  Nodes, KindOf, SerialUnits,
  Batches, Jobs, Uses, Makes, MaxBatch,
  (* bills: see BillOfMaterials; the desk "families" has more items than "bills" *)
  BillItems, LastVersion, LineUnits, MaxLine, FamilyItems, LastBill, RouteSteps, BuildOrders,
  (* planning and production: see Mrp, Production *)
  PlanItems, LastBucket, PartsOf, Lead, PlanMinutes, Capacity, Demands, Stocks, Arrivals, LastRun,
  Materials, Direct, Needed, MaterialCost, InStore, Tolerance, Ordered, Operations, Rated,
  Planned, Rate, Standard, Given, Booked, LastEntry

Under == {<<"zone", "warehouse">>, <<"aisle", "zone">>, <<"bin", "aisle">>}

VARIABLES
  desk,  \* the desk that is at work
  recvOrders, recvReceipts, recvMovements, recvTx,
  buyRequisitions, buyRfqs, buyResponses, buyOrders, buySuppliers, buyAwarding, buyAnswering,
  holdRuns, holdHolds, holdTx, holdAnytime,
  countHeld, countCount, countRequest, countPosts, countTx,
  placeState, placeParent, placeTx, placeUnits, placeLedger, placeWork,
  traceBatches, traceHeld, traceSupplied, traceShipped, traceConsumed, traceProduced,
  bomBoms, bomOrders, bomAdding,
  planStock, planDemand, planOrders, planArriving, planPhase, planPending, planSeen,
  planShelf, planLeft, planRows, planTodo, planPlaced, planLate, planRuns, planPlan,
  planSuggestions, planConverting,
  makeStatus, makeIssued, makeSigned, makeReceipts, makeCards, makeEntries, makeCost,
  makeBooks, makePosted, makeAsked, makeCosting

recvVars == <<recvOrders, recvReceipts, recvMovements, recvTx>>
buyVars == <<buyRequisitions, buyRfqs, buyResponses, buyOrders, buySuppliers, buyAwarding,
             buyAnswering>>
holdVars == <<holdRuns, holdHolds, holdTx, holdAnytime>>
countVars == <<countHeld, countCount, countRequest, countPosts, countTx>>
placeVars == <<placeState, placeParent, placeTx, placeUnits, placeLedger, placeWork>>
traceVars == <<traceBatches, traceHeld, traceSupplied, traceShipped, traceConsumed,
               traceProduced>>
bomVars == <<bomBoms, bomOrders, bomAdding>>
planVars == <<planStock, planDemand, planOrders, planArriving, planPhase, planPending,
              planSeen, planShelf, planLeft, planRows, planTodo, planPlaced, planLate,
              planRuns, planPlan, planSuggestions, planConverting>>
makeVars == <<makeStatus, makeIssued, makeSigned, makeReceipts, makeCards, makeEntries,
              makeCost, makeBooks, makePosted, makeAsked, makeCosting>>
vars == <<desk, recvVars, buyVars, holdVars, countVars, placeVars, traceVars, bomVars,
          planVars, makeVars>>

Receiving == INSTANCE PurchaseReceipts WITH
  Sessions <- Clerks, AmendedToo <- FALSE, MaxQuantity <- MaxDelivered,
  orders <- recvOrders, receipts <- recvReceipts, movements <- recvMovements, tx <- recvTx
Buying == INSTANCE Sourcing WITH
  Orders <- Purchases, Suppliers <- Vendors, MaxQuantity <- MaxAsked, Serial <- TRUE,
  Repeated <- FALSE,
  requisitions <- buyRequisitions, rfqs <- buyRfqs, responses <- buyResponses,
  orders <- buyOrders, suppliers <- buySuppliers, awarding <- buyAwarding,
  answering <- buyAnswering
Holding == INSTANCE MatchHold WITH
  Sessions <- Holders, Clerks <- HoldClerks,
  runs <- holdRuns, holds <- holdHolds, tx <- holdTx, anytime <- holdAnytime
Counting == INSTANCE PhysicalCount WITH
  Sessions <- Clerks, Frozen <- TRUE, Cost <- UnitWorth, MaxHeld <- MaxFound,
  held <- countHeld, count <- countCount, request <- countRequest, posts <- countPosts,
  tx <- countTx
Places == INSTANCE StockPlaces WITH
  Tops <- {"warehouse"}, Serial <- TRUE, Units <- SerialUnits, Careful <- TRUE,
  state <- placeState, parent <- placeParent, tx <- placeTx, units <- placeUnits,
  ledger <- placeLedger, work <- placeWork
Tracing == INSTANCE Traceability WITH
  Orders <- Jobs, MaxHeld <- MaxBatch,
  batches <- traceBatches, held <- traceHeld, supplied <- traceSupplied,
  shipped <- traceShipped, consumed <- traceConsumed, produced <- traceProduced
Bills == INSTANCE BillOfMaterials WITH
  Count <- BillItems, Quantities <- LineUnits, Steps <- RouteSteps, Orders <- BuildOrders,
  Sessions <- Planners, Serial <- TRUE,
  boms <- bomBoms, orders <- bomOrders, adding <- bomAdding
Families == INSTANCE BillOfMaterials WITH
  Count <- FamilyItems, LastVersion <- 1, Quantities <- {1}, MaxLine <- 1, Steps <- RouteSteps,
  Orders <- BuildOrders, Sessions <- Planners, Serial <- TRUE,
  boms <- bomBoms, orders <- bomOrders, adding <- bomAdding
Planning == INSTANCE Mrp WITH
  Count <- PlanItems, Parts <- PartsOf, Minutes <- PlanMinutes, Careful <- TRUE,
  stock <- planStock, demand <- planDemand, orders <- planOrders, arriving <- planArriving,
  phase <- planPhase, pending <- planPending, seen <- planSeen, shelf <- planShelf,
  left <- planLeft, rows <- planRows, todo <- planTodo, placed <- planPlaced,
  late <- planLate, runs <- planRuns, plan <- planPlan, suggestions <- planSuggestions,
  converting <- planConverting
Making == INSTANCE Production WITH
  Parts <- Materials, Required <- Needed, Cost <- MaterialCost, Stocked <- InStore,
  Steps <- Operations, Serial <- TRUE,
  status <- makeStatus, issued <- makeIssued, signed <- makeSigned,
  receipts <- makeReceipts, cards <- makeCards, entries <- makeEntries, cost <- makeCost,
  books <- makeBooks, posted <- makePosted, asked <- makeAsked, costing <- makeCosting

ASSUME Parameters ==
  /\ Receiving!SwitchAssumption
  /\ Receiving!BoundsAssumption
  /\ Buying!RowAssumption
  /\ Holding!SessionAssumption
  /\ Holding!PracticeAssumption
  /\ Holding!RunBoundAssumption
  /\ Counting!FrozenAssumption
  /\ Counting!CostAssumption
  /\ Counting!BoundAssumption
  /\ Places!MasterTreeAssumption
  /\ Places!StockPlacesAssumption
  /\ Tracing!TraceabilityAssumption
  /\ Bills!BomAssumption
  /\ Families!BomAssumption
  /\ Planning!ShapeAssumption
  /\ Making!OrderAssumption

Desks == {"receipts", "sourcing", "holds", "counts", "places", "batches", "bills",
          "families", "planning", "production"}

(* Each desk starts from its own initial states; what another one could start *)
(* from is fixed while it is not at work.                                      *)
Init ==
  /\ desk \in Desks
  /\ Receiving!Init
  /\ Buying!Init
  /\ Holding!Init
  /\ Counting!Init
  /\ Places!Init
  /\ Tracing!Init
  /\ IF desk = "families" THEN Families!Init ELSE Bills!Init
  /\ Planning!Init
  /\ Making!Init
  /\ (desk # "receipts" => recvOrders[1].quantity = 1)
  /\ (desk # "holds" => holdAnytime = CHOOSE practice \in Practices : TRUE)
  /\ (desk # "planning" => planStock = CHOOSE stock \in Stocks : TRUE)
  /\ (desk # "planning" => planDemand = CHOOSE demand \in Demands : TRUE)
  /\ (desk # "planning" => planArriving = CHOOSE arriving \in Arrivals : TRUE)

ReceivingWork ==
  /\ desk = "receipts" /\ Receiving!Next
  /\ UNCHANGED <<desk, buyVars, holdVars, countVars, placeVars, traceVars, bomVars,
                planVars, makeVars>>
BuyingWork ==
  /\ desk = "sourcing" /\ Buying!Next
  /\ UNCHANGED <<desk, recvVars, holdVars, countVars, placeVars, traceVars, bomVars,
                planVars, makeVars>>
HoldingWork ==
  /\ desk = "holds" /\ Holding!Next
  /\ UNCHANGED <<desk, recvVars, buyVars, countVars, placeVars, traceVars, bomVars,
                planVars, makeVars>>
CountingWork ==
  /\ desk = "counts" /\ Counting!Next
  /\ UNCHANGED <<desk, recvVars, buyVars, holdVars, placeVars, traceVars, bomVars,
                planVars, makeVars>>
PlacesWork ==
  /\ desk = "places" /\ Places!Next
  /\ UNCHANGED <<desk, recvVars, buyVars, holdVars, countVars, traceVars, bomVars,
                planVars, makeVars>>
TracingWork ==
  /\ desk = "batches" /\ Tracing!Next
  /\ UNCHANGED <<desk, recvVars, buyVars, holdVars, countVars, placeVars, bomVars,
                planVars, makeVars>>
BillsWork ==
  /\ desk = "bills" /\ Bills!Next
  /\ UNCHANGED <<desk, recvVars, buyVars, holdVars, countVars, placeVars, traceVars,
                planVars, makeVars>>
FamiliesWork ==
  /\ desk = "families" /\ Families!Next
  /\ UNCHANGED <<desk, recvVars, buyVars, holdVars, countVars, placeVars, traceVars,
                planVars, makeVars>>
PlanningWork ==
  /\ desk = "planning" /\ Planning!Next
  /\ UNCHANGED <<desk, recvVars, buyVars, holdVars, countVars, placeVars, traceVars,
                bomVars, makeVars>>
MakingWork ==
  /\ desk = "production" /\ Making!Next
  /\ UNCHANGED <<desk, recvVars, buyVars, holdVars, countVars, placeVars, traceVars,
                bomVars, planVars>>

Next ==
  \/ ReceivingWork
  \/ BuyingWork
  \/ HoldingWork
  \/ CountingWork
  \/ PlacesWork
  \/ TracingWork
  \/ BillsWork
  \/ FamiliesWork
  \/ PlanningWork
  \/ MakingWork

Spec == Init /\ [][Next]_vars

(* -------------------------------- properties ------------------------------ *)

(* Every row of every desk keeps its type. *)
TypeOK ==
  /\ desk \in Desks
  /\ desk = "receipts" => Receiving!TypeOK
  /\ desk = "sourcing" => Buying!TypeOK
  /\ desk = "holds" => Holding!TypeOK
  /\ desk = "counts" => Counting!TypeOK
  /\ desk = "places" => Places!TypeOK
  /\ desk = "batches" => Tracing!TypeOK
  /\ desk = "bills" => Bills!TypeOK
  /\ desk = "families" => Families!TypeOK
  /\ desk = "planning" => Planning!TypeOK
  /\ desk = "production" => Making!TypeOK

(* An order knows what arrived against it (receipts.py), through its           *)
(* amendments; an over-receipt states a reason; what is closed is complete.    *)
OrderTellsArrived ==
  desk = "receipts" => /\ Receiving!ReceivedTellsArrived
                       /\ Receiving!OverReceiptIsDecided
                       /\ Receiving!ClosedIsComplete

(* A supplier answers an rfq once (rfq.py), what is awarded stays within what *)
(* was asked for unless that is overridden (orders.py), and a supplier that a *)
(* document names is not retired (suppliers.py).                              *)
SourcingHolds ==
  desk = "sourcing" => Buying!OneAnswer /\ Buying!CeilingHolds /\ Buying!NamedSuppliersStand

(* An invoice has one open hold at most (matching.py).                         *)
HoldsAreSingle == desk = "holds" => Holding!OneOpenHold

(* A posted count leaves in the bin what was counted (counts.py), and a value  *)
(* that reaches the threshold was approved first.                              *)
CountsHold == Counting!CountedIsOnHand /\ Counting!ApprovedFirst

(* A serial unit is in one place (serials.py), no stock is left at a place    *)
(* that was retired, and the tree of places is whole (locations.py).  A       *)
(* recall names every customer a bad batch reached and every batch it came    *)
(* from (trace.py).                                                           *)
StockIsTraceable ==
  /\ desk = "places" => /\ Places!UnitIsInOnePlace
                        /\ Places!StockStaysOnTheMap
                        /\ Places!TreeIsWhole
  /\ desk = "batches" => Tracing!RecallIsComplete

(* Stock and open supply cover a unit of demand once, what no period has room *)
(* for is reported (mrp.py), nothing is built twice for one demand by         *)
(* planners who take turns (mrp_output.py), and every bill that can be        *)
(* released explodes (bom.py).                                                *)
PlansHold ==
  /\ desk = "planning" => /\ Planning!NothingCoversTwice
                          /\ Planning!OverloadIsReported
                          /\ Planning!NothingBuiltTwice
  /\ desk = "bills" => Bills!EveryBillExplodes
  /\ desk = "families" => Families!EveryBillExplodes

(* Where issues, bookings and receipts are made one at a time, the material   *)
(* of what was received was issued and what is beyond the plan is owned by    *)
(* somebody (receipts.py, issues.py, job_cards.py); a work order that was     *)
(* costed left nothing in work in progress, and was costed once, also by two  *)
(* at once (costing.py).                                                      *)
OrdersAreAccounted ==
  desk = "production" => /\ Making!MaterialCoversOutput
                         /\ Making!ExcessIsOwned
                         /\ Making!WipClears
                         /\ Making!CostedOnce

(* ------------------------- the small instance of TLC ----------------------- *)

KindsOfSix == [w1 |-> "warehouse", z1 |-> "zone", x1 |-> "aisle", x2 |-> "aisle",
               b1 |-> "bin", b2 |-> "bin"]
(* The second order is built from what the first one makes.                    *)
TwoUses == [j1 |-> {"m1", "m2"}, j2 |-> {"m3"}]
TwoMakes == [j1 |-> {"m3"}, j2 |-> {"f1"}]
(* Items 1 and 2 take a unit of item 3, of which one is in stock.              *)
OneSharedPart == << <<0, 0, 1>>, <<0, 0, 1>>, <<0, 0, 0>> >>
OneLeadTime == <<1, 0, 0>>
TwoMade == <<1, 1, 0>>
OneInStock == {<<0, 0, 1>>}
NoDemand == [b \in 0..1 |-> 0]
AnyDemand == {<<d, e, NoDemand>> : d \in [0..1 -> 0..1], e \in [0..1 -> 0..1]}
OneArrival == {<<NoDemand, NoDemand, [b \in 0..1 |-> n * b]>> : n \in 0..1}
ThreeAndOne == [a |-> 3, b |-> 1]
FourAndOne == [a |-> 4, b |-> 1]
OneEach == [a |-> 1, b |-> 1]

Symmetry == Permutations(Sessions) \cup Permutations(Vendors) \cup Permutations(Invoices)
==============================================================================
