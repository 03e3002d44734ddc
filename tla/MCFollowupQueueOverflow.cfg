\* The queue overflows in followup mode, the default drop policy.
SPECIFICATION FollowupSpec
CONSTANTS
  m1 = m1
  m2 = m2
  m3 = m3
  Messages <- MCMessages
  KeyOf <- MCKeyOf
  SettingsOf <- MCFollowup
  Objects = {o1, o2}
  None = None
  Cap = 2
  Foreign = TRUE
  Deliveries <- MCOnce
  MaxFailures = 0
INVARIANT
  NoneSwallowed
