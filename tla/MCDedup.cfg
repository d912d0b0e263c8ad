\* A ring of three, and five identifiers; a snapshot may hold more than the ring.
CONSTANTS
  m1 = m1
  m2 = m2
  m3 = m3
  m4 = m4
  m5 = m5
  none = none
  Ids <- MCIds
  Zero = none
  Capacity = 3
  MaxRestored = 4
SPECIFICATION Spec
INVARIANT TypeOK
INVARIANT SetIsQueue
PROPERTY RemembersRecent
