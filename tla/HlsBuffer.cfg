CONSTANTS
  Readers = {r1, r2}
  MaxChunks = 2
  Ahead = 2
  VideoChunks = 3
  FfmpegFails = TRUE
  MayStop = TRUE
SPECIFICATION Spec
SYMMETRY ReaderSymmetry
INVARIANTS TypeOK WholeVideo LoneReaderWoken PanicsOnlyIfEmptied
CHECK_DEADLOCK FALSE
