\* Offsets arrive in log order, with redelivery.
CONSTANTS
  a1 = a1
  a2 = a2
  Actors <- MCActors
  Offsets <- MCOffsets
  Owner <- MCOwner
  WindowLimit = 4
SPECIFICATION OrderedSpec
INVARIANT TypeOK
INVARIANT IndexesAgree
INVARIANT BoundsAgree
INVARIANT CheckpointCovered
PROPERTY CommitBelowTracked
PROPERTY PromiseKept
