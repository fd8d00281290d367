CONSTANTS
  a = a
  b = b
  ghost = ghost
  bad = bad
  hi = hi
  go = go
  Node = {a, b}
  Addr = {a, b, ghost, bad}
  Bad = bad
  Seeds <- OneKnowsTwo
  N_CONN = 2
  Text = {go}
  GoText = {go}
  Says <- OneSays
  FullSetSize = 3
  MaxLines = 1
  MaxQueue <- FilterRequests
  None = None
SPECIFICATION Spec
CHECK_DEADLOCK FALSE
INVARIANTS ConnBound SendBound ManagerTasks GreetedPeersKnowMe
PROPERTY ImplementsOverlay
