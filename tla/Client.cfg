CONSTANTS
  a = a
  b = b
  bad = bad
  Target = b
  Node = {a, b}
  Addr = {a, b, bad}
  Bad = bad
  Seeds <- OneKnows
  N_CONN = 1
  Text = {}
  GoText = {}
  Says <- Silence
  FullSetSize = 3
  MaxLines = 1
  MaxQueue <- IpRequests
  None = None
SPECIFICATION CSpec
CHECK_DEADLOCK FALSE
INVARIANT FirstPeerExists
