SPECIFICATION FairSpec
CONSTANTS
  Clients = {c1, c2}
  Subs = {s1}
  Inits = {i1}
  First = c1
  None = None
  MaxVersion = 1
PROPERTY LastDropStops
CHECK_DEADLOCK FALSE
