CONSTANTS
  main = main
  session = session
  m1 = m1
  s1 = s1
  s2 = s2
  w1 = w1
  Lanes <- MCLanes
  Entries <- MCEntries
  LaneOf <- MCLaneOf
  ConfiguredLanes <- MCNone
  ConcurrencyInputs <- MCNone
  Waiters <- MCOneRestart
  MaxGeneration = 2
  RestartDuringStart = FALSE
SPECIFICATION RunSpec
CHECK_DEADLOCK FALSE
INVARIANT SessionExclusive
