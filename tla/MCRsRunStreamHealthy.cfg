SPECIFICATION HealthySpec
CONSTANTS
  MaxEvents = 3
  Replay = TRUE
  Stamped = TRUE
  MaxRetries = 2
INVARIANT GuaranteedToReceive
CHECK_DEADLOCK FALSE
