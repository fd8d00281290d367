CONSTANTS
  a = a
  b = b
  ghost = ghost
  bad = bad
  hi = hi
  go = go
  Node = {a, b}
  Addr = {a, b, ghost, bad}
  Bad = bad
  Seeds <- OneKnows
  N_CONN = 1
  Text = {}
  GoText = {}
  Says <- Silence
  FullSetSize = 3
  MaxLines = 1
  MaxQueue <- IpRequests
  None = None
SPECIFICATION FairSpec
CHECK_DEADLOCK FALSE
PROPERTY AddressesSpread
