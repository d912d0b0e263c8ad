SPECIFICATION FairSpec
CONSTANTS
  a1 = a1
  a2 = a2
  n1 = n1
  n2 = n2
  Actors <- TwoActors
  Nodes <- TwoNodes
  Hosts <- OneIsMoved
  Backends <- BothBackends
  Loading = TRUE
  MaxActivations <- TwoAndOne
  MaxEffects = 2
  MaxFaults = 2
INVARIANT TypeOK
INVARIANT SavedIsKept
PROPERTY FenceHolds
PROPERTY SavedInTheEnd
