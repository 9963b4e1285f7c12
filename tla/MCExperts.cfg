SPECIFICATION Spec
CONSTANTS
  t1 = t1
  t2 = t2
  a = a
  b = b
  big = big
  Threads <- MCThreads
  Keys <- MCKeys
  Size <- MCSize
  Budget = 2
  Versions = 3
  Calls = 3
  Word = 16
SYMMETRY MCSymmetry
INVARIANTS
  TypeOK
  RestWithinBudget
  ServableAtRest
CHECK_DEADLOCK FALSE
