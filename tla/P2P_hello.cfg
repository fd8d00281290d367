CONSTANTS
  a = a
  b = b
  ghost = ghost
  bad = bad
  hi = hi
  go = go
  Node = {a, b}
  Addr = {a, b, ghost, bad}
  Bad = bad
  Seeds <- OneKnows
  N_CONN = 1
  Text = {hi}
  GoText = {}
  Says <- OneSays
  FullSetSize = 3
  MaxLines = 1
  MaxQueue <- NoRequests
  None = None
SPECIFICATION Spec
CHECK_DEADLOCK FALSE
INVARIANT HelloFirst
