\* Crashes, also of a node that stops, failing saves and commits, lost fetches.
CONSTANTS
  a1 = a1
  a2 = a2
  Actors <- TwoActors
  FirstOffset = 0
  LastOffset = 2
  Log <- Alternating
  NodeCapacity = 1
  ActorCapacity = 3
  DedupCapacity = 3
  MaxBatch = 1
  WindowLimit = 2
  Faults = {"save", "commit", "crash", "poll"}
  MaxFaults = 2
  MaxTimers = 1
  MayStop = TRUE
SPECIFICATION Spec
INVARIANT TypeOK
INVARIANT OneIncarnation
INVARIANT CheckpointCovered
INVARIANT PausedTogether
PROPERTY CommitBelowOpen
PROPERTY LivesAreKept
