SPECIFICATION FairSpec
CONSTANTS
  i1 = i1
  p1 = p1
  p2 = p2
  p3 = p3
  e1 = e1
  e2 = e2
  e3 = e3
  e4 = e4
  Invoices = {i1}
  Payments = {p1, p2, p3}
  Events = {e1, e2, e3, e4}
  Gross <- MCGross
  Amount <- MCAmount
  Bill <- MCBill
  About <- MCAbout
  FailedEvents = {e2}
  UnknownPayers = {e4}
  Misdirected = {}
  Hooks = {h1, h2}
  Matchers = {m1}
PROPERTIES
  EveryEventAnswered
\* every event may have been answered
CHECK_DEADLOCK FALSE
