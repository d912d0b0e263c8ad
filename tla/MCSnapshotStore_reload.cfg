SPECIFICATION Spec
CONSTANTS
  a1 = a1
  a2 = a2
  n1 = n1
  n2 = n2
  Actors <- TwoActors
  Nodes <- TwoNodes
  Hosts <- OneIsMoved
  Backends <- BothBackends
  Loading = FALSE
  MaxActivations <- TwoAndOne
  MaxEffects = 3
  MaxFaults = 1
INVARIANT SavedIsKept
