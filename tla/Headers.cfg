CONSTANTS
  Data = {x, y}
  None = None
SPECIFICATION Spec
CHECK_DEADLOCK FALSE
INVARIANT HashKept
