SPECIFICATION FairSpec
CONSTANTS
  b1 = b1
  b2 = b2
  lot1 = lot1
  lot2 = lot2
  Untagged = untagged
  Free = free
  Bins <- MCBins
  KeyOrder <- MCKeyOrder
  StandardCost = 2
  Sessions = {s1, s2, s3}
  Documents <- MCDocumentsTagged
  Origin <- MCOriginTagged
  Tags <- MCTags
  Carried <- MCTags
  MaxDocuments = 3
INVARIANTS
  TypeOK
  NeverNegative
  PendingIssuesStayCovered
PROPERTIES
  Atomicity
  RequestsEnd
\* the system stops once MaxDocuments requests have ended
CHECK_DEADLOCK FALSE
