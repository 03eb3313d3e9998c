CONSTANTS
  Requests = {r1, r2, r3}
  Urls = {u1, u2}
  Hosts = {h1}
  HostOf <- OneHost
  MaxSlots = 1
  MaxPerHost = 1
  LongVideos = FALSE
  Shutdown = FALSE
  None = None
SPECIFICATION Spec
INVARIANTS DownloadsBounded
CHECK_DEADLOCK FALSE
