SPECIFICATION Spec
CONSTANTS
  MaxEvents = 2
  Replay = TRUE
  Stamped = TRUE
  WsSeq = TRUE
  MaxRetries = 1
  MaxBreaks = 1
  Consumers = {c1}
INVARIANT ReadyMeansLive
CHECK_DEADLOCK FALSE
