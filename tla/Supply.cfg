SPECIFICATION Spec
CONSTANTS
  Sessions = {s1, s2}
  Clerks = {"clerk"}
  Planners = {"planner"}
  Receipts = {r1, r2}
  MaxRevisions = 2
  MaxDelivered = 3
  Requisitions = {1}
  Rfqs = {1}
  Purchases = {1, 2}
  Vendors = {p1, p2}
  Contacts = {c1}
  MaxAsked = 2
  Invoices = {i1, i2}
  Holders = {h1, h2}
  Sweepers = {h1}
  HoldClerks = {h2}
  Practices = {TRUE}
  MaxRuns = 2
  MaxHolds = 1
  Counts = {n1, n2}
  UnitWorth = 2
  Threshold = 4
  MaxFound = 3
  Nodes = {"w1", "z1", "x1", "x2", "b1", "b2"}
  KindOf <- KindsOfSix
  SerialUnits = {u1}
  Batches = {"m1", "m2", "m3", "f1"}
  Jobs = {"j1", "j2"}
  Uses <- TwoUses
  Makes <- TwoMakes
  MaxBatch = 1
  BillItems = 2
  LastVersion = 2
  LineUnits = {1, 2}
  MaxLine = 2
  FamilyItems = 3
  LastBill = 3
  RouteSteps = 1
  BuildOrders = {o1}
  PlanItems = 3
  LastBucket = 1
  PartsOf <- OneSharedPart
  Lead <- OneLeadTime
  PlanMinutes <- TwoMade
  Capacity = 1
  Demands <- AnyDemand
  Stocks <- OneInStock
  Arrivals <- OneArrival
  LastRun = 2
  Materials = {"a", "b"}
  Direct = {"a"}
  Needed <- ThreeAndOne
  MaterialCost <- OneEach
  InStore <- FourAndOne
  Tolerance = 33
  Ordered = 2
  Operations = {1, 2}
  Rated = {1}
  Planned = 1
  Rate = 1
  Standard = 4
  Given = {1, 2}
  Booked = {1}
  LastEntry = 2
SYMMETRY Symmetry
INVARIANTS
  TypeOK
  OrderTellsArrived
  SourcingHolds
  HoldsAreSingle
  StockIsTraceable
  PlansHold
  OrdersAreAccounted
PROPERTIES
  CountsHold
CHECK_DEADLOCK FALSE
