SPECIFICATION Spec
CONSTANTS
  MaxEvents = 3
  Replay = TRUE
  Stamped = TRUE
  MaxBreaks = 2
  Readers = {r1, r2}
INVARIANT TypeOK
INVARIANT NothingDropped
INVARIANT NoLostWakeup
INVARIANT NoGapWhileAnchored
INVARIANT ConnectionWhileSubscribed
INVARIANT NoHoleAfterFirstFrame
PROPERTY ImplementsRunHandle
CHECK_DEADLOCK FALSE
