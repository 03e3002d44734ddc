\* Two of three messages fit, one is delivered twice; both modes, clears,
\* foreign runs and one failing run.
SPECIFICATION FollowupFairSpec
CONSTANTS
  m1 = m1
  m2 = m2
  m3 = m3
  Messages <- MCMessages
  KeyOf <- MCKeyOf
  SettingsOf <- MCSettingsOf
  Objects = {o1, o2}
  None = None
  Cap = 2
  Foreign = TRUE
  Deliveries <- MCRedelivered
  MaxFailures = 1
INVARIANTS
  TypeOK
  RunOnce
  NothingLost
  IdleOnlyAfterForeign
PROPERTIES
  InOrder
  
