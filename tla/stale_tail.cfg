\* A meter that may answer with the previous data.
SPECIFICATION Spec
CONSTANTS
  Radix        = 8
  ChunkBytes   = 12
  PayloadBytes = 41
  Transmit     = 12
  Stale        = TRUE
  Lengths      = {0}
  Types        = {0}
  Multibyte   <- MCMultibyte
  Master      <- MCTwoChunks
PROPERTY ConsumesExactly
CHECK_DEADLOCK FALSE
