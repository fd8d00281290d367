CONSTANTS
  Producer = {p1, p2}
  Types <- MCTypes
  Delay <- MCDelay
  TPS = 2
  Id = {1, 2}
  MaxNow = 8
  MaxAdjust = 1
  None = None
SPECIFICATION FairSpec
INVARIANT TypeOK
PROPERTIES ImplementsDelayQueue DeadlineOrder EveryTaskReturned
