\* five names, three with the same hash; capacities 3, 5 and 9
CONSTANTS
  k1 = k1
  k2 = k2
  k3 = k3
  k4 = k4
  k5 = k5
  v1 = v1
  NoKey = NoKey
  NoValue = NoValue
  Tombstone = Tombstone
  Key <- MCKey
  Value <- MCValue
  Hash <- MCHash
  MIN_CAPACITY = 3
  MaxCapacity = 9
SPECIFICATION TableSpec
INVARIANTS
  ProbeEnds
  FoundWhereStored
PROPERTY ImplementsMap
CHECK_DEADLOCK FALSE
