CONSTANTS
  a = a
  b = b
  ghost = ghost
  bad = bad
  hi = hi
  go = go
  Node = {a, b}
  Addr = {a, b, ghost, bad}
  Bad = bad
  Seeds <- BothKnow
  N_CONN = 1
  Text = {hi}
  GoText = {}
  Says <- OneSays
  FullSetSize = 3
  MaxLines = 1
  MaxQueue <- NoRequests
  None = None
SPECIFICATION FairSpec
CHECK_DEADLOCK FALSE
PROPERTIES TextDelivered FloodEnds RequestAnswered
