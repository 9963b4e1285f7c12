SPECIFICATION Spec
CONSTANTS
  r = r
  s = s
  Requests <- MCRequests
  Engines = {"home", "away", "other"}
  Home = {"home", "other"}
  Weights <- MCWeights
  Recurrent = {"w"}
  Context <- MCContext
  Capacity = 1
  Prompt = 1
  Longest = 2
  Tickets = 3
  Asked = 3
  Stops = {"home"}
  Mixed = 2
SYMMETRY MCSymmetry
INVARIANT OnePlace
PROPERTY AcceptsWhole
CHECK_DEADLOCK FALSE
