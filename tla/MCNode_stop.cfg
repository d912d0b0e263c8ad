\* Stopping with records and signals under way.
CONSTANTS
  a1 = a1
  a2 = a2
  Actors <- OneActor
  FirstOffset = 1
  LastOffset = 5
  Log <- Mixed
  NodeCapacity = 1
  ActorCapacity = 3
  DedupCapacity = 5
  MaxBatch = 2
  WindowLimit = 4
  Faults = {"timeout"}
  MaxFaults = 1
  MaxTimers = 1
  MayStop = TRUE
SPECIFICATION FairSpec
INVARIANT StoppedClean
PROPERTY FinalSnapshotSaved
PROPERTY StopEnds
INVARIANT StopIsAnswered
PROPERTY LivesAreKept
