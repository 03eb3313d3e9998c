CONSTANTS
  Requests = {r1, r2, r3}
  Urls = {u1}
  Hosts = {h1}
  HostOf <- OneHost
  MaxSlots = 2
  MaxPerHost = 1
  LongVideos = FALSE
  Shutdown = TRUE
  None = None
SPECIFICATION Spec
SYMMETRY RequestSymmetry
INVARIANTS TypeOK SessionsTended
PROPERTIES SlotsAreSemaphore
CHECK_DEADLOCK FALSE
