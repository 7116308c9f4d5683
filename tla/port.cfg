\* A queue of one, a connection that takes one message, any timeout, a server
\* that ignores or negotiates once, a purge that leaves any part of what is on its
\* way, a connection lost anywhere.
CONSTANTS
  Cap = 1
  Buf = 1
  MaxChunk = 2
  Window = 1
  MaxData = 2
  MaxCalls = 1
  MaxSilent = 1
SPECIFICATION FairSpec
INVARIANTS TypeOK NothingStale ReleasedBeforeDisconnect BreakReleased
PROPERTIES CallEnds ReaderEnds
CHECK_DEADLOCK FALSE
