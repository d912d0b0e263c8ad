\* A position below the checkpoint is read after a seek.
CONSTANTS
  a1 = a1
  a2 = a2
  Actors <- OneActor
  FirstOffset = 1
  LastOffset = 3
  Log <- OneByOne
  NodeCapacity = 1
  ActorCapacity = 3
  DedupCapacity = 3
  MaxBatch = 1
  WindowLimit = 3
  Faults = {}
  MaxFaults = 0
  MaxTimers = 2
  MayStop = FALSE
SPECIFICATION Spec
PROPERTY CommitsAdvance
