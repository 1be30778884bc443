CONSTANTS
  k1 = k1
  k2 = k2
  k3 = k3
  k4 = k4
  v1 = v1
  v2 = v2
  NoKey = NoKey
  NoValue = NoValue
  Keys = {k1, k2, k3, k4}
  Values = {v1, v2}
  Hash <- CollidingHash
  Sizes = {0, 2, 3}
  Room = 14
SPECIFICATION FairSpec
INVARIANTS
  ListExact
  EntriesFound
  ProbesEnd
PROPERTIES
  ImplementsOrderedMap
  GrowthEnds
