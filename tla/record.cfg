\* All jobs, over every subset of ten elements.
SPECIFICATION Spec
CONSTANTS
  Radix        = 8
  ChunkBytes   = 12
  PayloadBytes = 41
  Transmit     = 12
  Stale        = FALSE
  Lengths      = {0, 3, 7, 8}
  Types        = {0, 3, 4, 5}
  Multibyte   <- MCMultibyte
  Master      <- MCMaster
INVARIANTS RecordFaithful RefusalExplained PropertiesFaithful
CHECK_DEADLOCK FALSE
