SPECIFICATION FairSpec
CONSTANTS
  Calls = {1}
  MaxEvents = 1
PROPERTIES
  ExitFailsOutstanding
CHECK_DEADLOCK FALSE
