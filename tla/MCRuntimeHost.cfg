SPECIFICATION FairSpec
CONSTANTS
  Calls = {1, 2}
  MaxEvents = 2
INVARIANTS
  TypeOK
  InOrder
  EndsAsAnswered
  FailedOnlyByHost
PROPERTIES
  Settled
CHECK_DEADLOCK FALSE
