SPECIFICATION FairSpec
CONSTANTS
  Messages = {m1, m2, m3}
  Direct = {m2}
  Senders = {s1}
  Sweeps = {w1}
  FirstTries = 2
  MaxAttempts = 3
  MaxCrashes = 1
INVARIANTS
  AttemptsAreTold
PROPERTIES
  SentStaysSent
  NoneLost
\* everything may be sent or have failed for good
CHECK_DEADLOCK FALSE
