SPECIFICATION FairSpec
CONSTANTS
  MaxEvents = 3
  Replay = TRUE
  Stamped = TRUE
  MaxBreaks = 2
  Readers = {r1}
PROPERTY Settles
PROPERTY ReadersEnd
CHECK_DEADLOCK FALSE
