\* Records already fetched when the node seeks.
CONSTANTS
  a1 = a1
  a2 = a2
  Actors <- OneActor
  FirstOffset = 1
  LastOffset = 6
  Log <- OneByOne
  NodeCapacity = 1
  ActorCapacity = 3
  DedupCapacity = 6
  MaxBatch = 2
  WindowLimit = 6
  Faults = {}
  MaxFaults = 0
  MaxTimers = 1
  MayStop = FALSE
SPECIFICATION Spec
INVARIANT AllCovered
