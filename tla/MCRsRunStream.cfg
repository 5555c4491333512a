SPECIFICATION FairSpec
CONSTANTS
  MaxEvents = 3
  Replay = TRUE
  Stamped = TRUE
  MaxRetries = 2
INVARIANT TypeOK
INVARIANT NoOpeningGap
INVARIANT NoHoleAfterFirstFrame
INVARIANT NothingDropped
INVARIANT ClosedForAReason
PROPERTY ImplementsRunHandle
PROPERTY Settles
PROPERTY StartAnswers
PROPERTY OrphanEnds
CHECK_DEADLOCK FALSE
