CONSTANTS
  Requests = {r1, r2}
  Urls = {u1}
  Hosts = {h1}
  HostOf <- OneHost
  MaxSlots = 1
  MaxPerHost = 1
  LongVideos = FALSE
  Shutdown = FALSE
  None = None
SPECIFICATION FairSpec
PROPERTIES SlotReturns
CHECK_DEADLOCK FALSE
