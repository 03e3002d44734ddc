CONSTANTS
  main = main
  session = session
  m1 = m1
  s1 = s1
  s2 = s2
  w1 = w1
  Lanes <- MCLanes
  Entries <- MCEntries
  LaneOf <- MCLaneOf
  ConfiguredLanes <- MCConfigured
  ConcurrencyInputs <- MCConcurrency
  Waiters <- MCWaiters
  MaxGeneration = 1
SPECIFICATION FairSpec
INVARIANTS TypeOK SlotsMatchRuns NoLostWakeup DrainedIsTrue WaiterHasReason
PROPERTIES LanesAreFifo QueuedWorkRuns
