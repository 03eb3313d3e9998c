CONSTANTS
  Procs = {g1, g2, g3, g4}
  Max = 2
  Rows = {r1}
  Writers = {w1, w2}
  Searchers = {s1}
  MaxOps = 3
  MaxCrashes = 1
  MayFail = TRUE
  Capacity = 1
  BatchSize = 2
  MaxEvents = 2
  MaxStarts = 2
  FirstMonth = 12
  LastMonth = 14
  DbMayFail = TRUE
  Channels = {c1, c2}
  Viewers = {v1}
  MaxEdits = 1
SPECIFICATION AllSpec
INVARIANTS RebuildsAreSafe EventsAreCounted ListsStayIndexed
PROPERTIES ImplementsSemaphore LockFree OldAnswersEnd BacklogDrains EventuallyCurrent
CHECK_DEADLOCK FALSE
