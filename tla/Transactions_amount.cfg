CONSTANTS
  Account = {a, b}
  WireAmount <- MCWireAmount
  IntHalf = 4
  MaxCredits = 2
  MaxRewrites = 2
  None = None
SPECIFICATION Spec
CHECK_DEADLOCK FALSE
INVARIANT AmountKept
