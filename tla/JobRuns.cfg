SPECIFICATION FairSpec
CONSTANTS
  Keys = {k1}
  Workers = {w1, w2}
  MaxAttempts = 2
  Lapses = TRUE
  WritesFail = FALSE
  MaxFires = 2
  MaxCrashes = 1
INVARIANTS
  RunsTellTheEffects
PROPERTIES
  EveryFiringAnswered
\* the clock may fire no more
CHECK_DEADLOCK FALSE
