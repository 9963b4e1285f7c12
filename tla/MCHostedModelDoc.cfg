SPECIFICATION HMSpec
CONSTANTS
  c1 = c1
  c2 = c2
  Callers <- MCCallers
  MaxFailures = 3
  MaxRestarts = 4
INVARIANT
  NeverTwoHosts
CHECK_DEADLOCK FALSE
