SPECIFICATION SoloFairSpec
CONSTANTS
  MaxEvents = 2
  Replay = TRUE
  Stamped = TRUE
  WsSeq = TRUE
  MaxRetries = 1
  MaxBreaks = 1
  Consumers = {c1}
PROPERTY AwaitersReleased
CHECK_DEADLOCK FALSE
