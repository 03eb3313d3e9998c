CONSTANTS
  Readers = {r1}
  MaxChunks = 2
  Ahead = 2
  VideoChunks = 2
  FfmpegFails = TRUE
  MayStop = FALSE
SPECIFICATION Spec
INVARIANTS OneContainer
CHECK_DEADLOCK FALSE
