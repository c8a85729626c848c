SPECIFICATION Spec
CONSTANTS
  Requests = {r1}
  Sessions = {s1, s2, s3}
  Levels = 3
  Threshold <- ThreeThresholds
  Role <- TwoRoles
  Amounts = {0, 1, 5, 9}
  MaxDecisions = 4
  Nothing = nothing
INVARIANTS
  TypeOK
  ApprovedByEveryLevel
  DecisionsFollowTheChain
\* every request may be decided and every handler may have ended
CHECK_DEADLOCK FALSE
