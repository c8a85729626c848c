SPECIFICATION SweepSpec
CONSTANTS
  Invoices = {i1, i2}
  Sessions = {s1, s2}
  Sweepers = {s1}
  Clerks = {s2}
  Practices = {TRUE, FALSE}
  MaxRuns = 2
  MaxHolds = 1
PROPERTIES
  HeldUnlessRematched
