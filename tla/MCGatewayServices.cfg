SPECIFICATION ServicesSpec
CONSTANTS
  Targets = {ta, tb}
  Requests <- MCRequests
  Slots = {1, 2}
  MaxLifecycles = 2
  MaxThrows = 1
  Ids = {i}
  MaxRequests = 2
  Keys = {k1, k2}
  MaxTasks = 4
  Procs = {p1, p2}
  Calls = {c1, c2, c3}
  ta = ta
  tb = tb
  p1 = p1
  p2 = p2
  c1 = c1
  c2 = c2
  c3 = c3
  processOf <- MCProcessOf
  MaxCrashes = 1
  Stops = {s1}
  MaxBoots = 3
  MaxRestarts = 1
INVARIANTS
  ServicesTypeOK
  NoWakeForgotten
  BatchesDoNotOverlap
  RunsAsDecided
  TimersHitTheirEntry
  
  LiveLockIsHeld
  OneProvider
PROPERTIES
  WakesAreHeard
  QueuesPerKey
  StopsEnd
CHECK_DEADLOCK FALSE
