CONSTANTS
  Requests = {r1, r2}
  Urls = {u1, u2}
  Hosts = {h1}
  HostOf <- OneHost
  MaxSlots = 1
  MaxPerHost = 1
  LongVideos = TRUE
  Shutdown = TRUE
  None = None
SPECIFICATION FairSpec
INVARIANTS OneFfmpegPerHost SlotHeldWhileDownloading
PROPERTIES ChunksFreed SlotReturnsUnlessCancelled
CHECK_DEADLOCK FALSE
