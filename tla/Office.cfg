SPECIFICATION OfficeSpec
CONSTANTS
  Handlers = {s1, s2}
  Clerks = {"clerk"}
  LastDay = 2
  LastLeaveDay = 3
  MonthEnds = {2}
  YearEnd = 2
  Accrual = 2
  Cap = 1
  Expiries = {3}
  Movable = {2}
  Applications = {r1}
  LastPeriod = 2
  LastRevision = 2
  Salary = 4
  Withheld = 25
  Percent = 50
  Loans <- OneLoan
  Facts <- TwoFacts
  OnRecord <- AsUsual
  MaxEvents = 1
  Lockable = {1}
  People = {e1, e2, e3}
  Followed = {e1}
  Salaries = {1}
  ClockUsers = {"u1", "u2"}
  Clocked = {"e1", "e2"}
  Readings <- FourReadings
  ByHand <- InAndOut
  Windows <- ThreeWindows
  LastAt = 3
  Break = 1
  Staffed = {p1}
  Shifts = {h1, h2}
  Scheduled <- TwoMinutes
  WorkedMinutes <- ThreeWorked
  Limits = {0}
  Ruled = {"working"}
  Excepted = {2}
  Keys = {k1, k2}
  SumsBooked = {1}
  Rates = {1, 2}
  MaxEntries = 3
  Charted = {a1, a2, i1}
  KindOf <- FourClasses
  BankKeys = {c1}
  MaxPosted = 2
  a1 = a1
  a2 = a2
  i1 = i1
  x1 = x1
  h1 = h1
  h2 = h2
SYMMETRY Symmetry
INVARIANTS
  RowsTyped
  LeaveHolds
  PayrollHolds
  TreeEachDay
  HoursHold
  BooksHold
PROPERTIES
  RecordsStand
CHECK_DEADLOCK FALSE
