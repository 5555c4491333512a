SPECIFICATION Spec
CONSTANTS
  MaxEvents = 3
  Replay = TRUE
  Stamped = TRUE
  MaxBreaks = 1
  Readers = {r1}
INVARIANT NoEarlyMiss
CHECK_DEADLOCK FALSE
