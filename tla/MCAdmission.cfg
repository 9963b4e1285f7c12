SPECIFICATION Spec
CONSTANTS
  h1 = h1
  h2 = h2
  l1 = l1
  l2 = l2
  n1 = n1
  Clients <- MCClients
  Requests <- MCRequests
  Anonymous <- MCAnonymous
  ClientOf <- MCClientOf
  ClassOf <- MCClassOf
  Prompt <- MCPrompt
  Budget <- MCBudget
  Weight <- MCWeight
  SlotCounts <- MCSlotCounts
  MaxDepth = 2
  MinOutput = 1
  Scale = 1
  InputCost = 1
  OutputCost = 2
SYMMETRY MCSymmetry
INVARIANTS
  TypeOK
  ServicePaid
  NoRunaway
PROPERTIES
  PlaceKept
  FloorForward
CHECK_DEADLOCK FALSE
