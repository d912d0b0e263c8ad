\* Handlers that run again, messages that are published again.
CONSTANTS
  a = a
  b = b
  p1 = p1
  p2 = p2
  r1 = r1
  r2 = r2
  r3 = r3
  h1 = h1
  k1 = k1
  v1 = v1
  nothing = nothing
  reserved = reserved
  Actors <- TwoActors
  Partitions <- TwoPartitions
  ShardOf <- Shards
  Scripts <- MCScripts
  Roots <- MCRoots
  Timers <- MCTimers
  Empty <- nothing
  Reserved <- reserved
  DedupCapacity = 2
  MaxFaults = 2
SPECIFICATION Spec
INVARIANT TypeOK
INVARIANT NothingSwallowed
INVARIANT HandledOnce
INVARIANT SentOnUnchanged
