SPECIFICATION SoloFairSpec
CONSTANTS
  MaxEvents = 3
  Replay = TRUE
  Stamped = TRUE
  WsSeq = TRUE
  MaxRetries = 1
  MaxBreaks = 1
  Consumers = {c1, c2}
INVARIANT TypeOK
INVARIANT NoOpeningGap
INVARIANT NoHoleOnOneTransport
INVARIANT NoLostWakeup
PROPERTY ImplementsRunHandle
PROPERTY Settles
PROPERTY ConsumersEnd
CHECK_DEADLOCK FALSE
