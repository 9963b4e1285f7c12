SPECIFICATION Spec
CONSTANTS
  t1 = t1
  t2 = t2
  h1 = h1
  h2 = h2
  m1 = m1
  m2 = m2
  Threads <- MCThreads
  Hosts <- MCHosts
  Models <- MCModels
  Kinds <- MCKinds
  Linked <- MCLinked
  Sizes <- MCSizes
  Total = 4
SYMMETRY MCSymmetry
INVARIANT
  EveryClaimReserved
