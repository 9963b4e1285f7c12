SPECIFICATION HMFairSpec
CONSTANTS
  c1 = c1
  c2 = c2
  Callers <- MCCallers
  MaxFailures = 3
  MaxRestarts = 3
INVARIANTS
  HMTypeOK
  OneStart
  SecondHostOnlyAfterHangUp
  NoLostWakeup
PROPERTIES
  LeftStopped
  WaiterAnswered
CHECK_DEADLOCK FALSE
