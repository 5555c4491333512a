SPECIFICATION FairSpec
CONSTANTS
  Clients = {c1, c2}
  Subs = {s1}
  Inits = {i1, i2}
  First = c1
  None = None
  MaxVersion = 3
INVARIANT TypeOK
INVARIANT OneHeartbeat
INVARIANT StopsAlone
INVARIANT StaleRunRefused
PROPERTY DestroyStops
CHECK_DEADLOCK FALSE
