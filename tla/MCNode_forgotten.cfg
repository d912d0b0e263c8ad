\* A record that came while its actor was stopping, and another actor.
CONSTANTS
  a1 = a1
  a2 = a2
  Actors <- TwoActors
  FirstOffset = 1
  LastOffset = 4
  Log <- Alternating
  NodeCapacity = 1
  ActorCapacity = 3
  DedupCapacity = 3
  MaxBatch = 1
  WindowLimit = 4
  Faults = {}
  MaxFaults = 0
  MaxTimers = 2
  MayStop = FALSE
SPECIFICATION Spec
INVARIANT NothingForgotten
