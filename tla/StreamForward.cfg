SPECIFICATION FairStreamSpec
CONSTANTS
  Capacity = 2
  MaxChunks = 6
INVARIANTS
  StreamSound
PROPERTIES
  KeepsPromise
  NobodyWaits
\* A stream ends, and the goroutine of one the client left may stay blocked.
CHECK_DEADLOCK FALSE
