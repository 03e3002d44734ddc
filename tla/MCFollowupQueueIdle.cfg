\* The default settings, and runs of the session that agent-runner.ts did not start.
SPECIFICATION FollowupSpec
CONSTANTS
  m1 = m1
  m2 = m2
  m3 = m3
  Messages <- MCMessages
  KeyOf <- MCKeyOf
  SettingsOf <- MCCollect
  Objects = {o1, o2}
  None = None
  Cap = 2
  Foreign = TRUE
  Deliveries <- MCOnce
  MaxFailures = 0
INVARIANT
  NoIdleQueue
