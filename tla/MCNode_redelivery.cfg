\* One actor whose mailbox fills up and which is recycled while records arrive.
CONSTANTS
  a1 = a1
  a2 = a2
  Actors <- OneActor
  FirstOffset = 1
  LastOffset = 5
  Log <- OneByOne
  NodeCapacity = 1
  ActorCapacity = 3
  DedupCapacity = 5
  MaxBatch = 1
  WindowLimit = 3
  Faults = {}
  MaxFaults = 0
  MaxTimers = 1
  MayStop = FALSE
SPECIFICATION FairSpec
INVARIANT PausedWillBeReady
PROPERTY PausedResumes
PROPERTY PendingIsHandled
