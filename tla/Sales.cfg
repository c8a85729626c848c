SPECIFICATION Spec
CONSTANTS
  Sessions = {s1, s2}
  Serial = TRUE
  LastDay = 2
  MaxCrashes = 1
  q1 = q1
  Quotes = {q1, q2}
  Quantity <- TwoAndOne
  UnitPrices = {1}
  Bills = {i1}
  Nets = {2}
  Payments = {2}
  Stated = {0}
  StartModes = {"block", "none"}
  Limit = 2
  Tax = 1
  Stocked = 2
  Agreements = 2
  LastPeriod = 2
  EndPeriods <- LastPeriods
  Overdue = 2
  Due <- DueDays
  Spans <- TwoLevels
  Claims = {"i1"}
  Owing <- OneClaim
  Transfers = {"p1", "p2"}
  Amount <- TwoAmounts
  Bill <- OneBill
  Events = {"e1", "e2", "e3"}
  About <- ThreeReports
  FailedEvents = {"e2"}
  UnknownPayers = {}
  Misdirected = {}
  Hooks = {h1, h2}
  Matchers = {m1, m2}
  Units <- TwoBaskets
  Unknown = {}
  Underpaid = {}
  Online = {1}
  Moves = {1}
  LastShift = 2
  Policies = {TRUE}
  Floats = {0}
  MaxGiven = 1
  Shelved = 1
  Cards = {o1, o2}
  Customers = {c1}
  Stages = {1, 2, 3}
  Meaning <- Marks
  MaxMoves = 3
  Rules <- ThreeRules
  Offers <- ThreeOffers
  Documents = {d1, d2}
  Asked <- TwoLines
  BasePrice = 3
  Clerks = {"clerk"}
  LastOfferDay = 1
SYMMETRY Symmetry
INVARIANTS
  TypeOK
  CreditIsWhole
  JobsRepeatNothing
  MoneyIsTold
  TillAddsUp
  DealsHold
PROPERTIES
  KeepsPromise
  ClosedReportStands
CHECK_DEADLOCK FALSE
