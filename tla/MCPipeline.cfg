SPECIFICATION Spec
CONSTANTS
  Last = 2
  MaxInFlight = 2
  Chunks = 2
  Steps = 1
  Runs = 2
  Socket = 1
INVARIANTS
  TypeOK
  SampledWhole
  InFlightOnce
  BlamesTheFailed
PROPERTIES
  CallReturns
CHECK_DEADLOCK FALSE
