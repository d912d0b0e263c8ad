SPECIFICATION FairSpec
CONSTANTS
  k1 = k1
  k2 = k2
  k3 = k3
  Keys <- ThreeKeys
  Arity = 2
  MaxSequence = 4
  Capacity = 2
  MaxTime = 2
  Never = 5
  DurationRange = 4
  MaxRecords = 3
  MayStop = TRUE
INVARIANT TypeOK
INVARIANT HeapKept
INVARIANT WakesInTime
PROPERTY SentWhenDue
PROPERTY Expires
