SPECIFICATION MCSpec
CONSTANTS
  Nothing = 0
  Torn = 9
  Values = {1, 2, 3, 4, 5}
  Thieves = {"p1", "p2"}
  Consumers = {"c1", "c2", "c3"}
  Mask = 3
  FifoValues = {1, 2, 3, 4, 5}
  FifoMask = 3
  NoValue = 0
  TornValue = 9
  Concurrency = 2
  CallerIds <- MCCallerIds
  Counts = {1, 3}
  MaxRanges = 2
  MaxAdded = 2
  MaxWaits = 1
  MaxImpls = 3
INVARIANTS
  QueueInv
  FailsOnlyEmpty
  WaitsAreTrue
  ToldIsSet
PROPERTIES
  ImplementsDeque
  ImplementsFifo
  EveryIndexOnce
  ThenIsReached
CHECK_DEADLOCK FALSE
