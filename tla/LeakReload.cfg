CONSTANTS
  Rows = {r1}
  Writers = {w1}
  Searchers = {s1}
  MaxOps = 1
  MaxCrashes = 0
  MayFail = FALSE
SPECIFICATION LeakSpec
INVARIANTS ReloadRebuilds
CHECK_DEADLOCK FALSE
