CONSTANTS
  session = session
  s1 = s1
  s2 = s2
  w1 = w1
  w2 = w2
  Lanes <- MCLanes
  Entries <- MCOneEntry
  LaneOf <- MCLaneOf
  ConfiguredLanes <- MCNone
  ConcurrencyInputs <- MCNone
  Waiters <- MCWaiters
  MaxGeneration = 2
  RestartDuringStart = TRUE
  Delays <- MCDelays
  Cooldown = 1
  MaxRequests = 2
SPECIFICATION RestartSpec
CHECK_DEADLOCK FALSE
INVARIANT DrainingMeansRestarting
