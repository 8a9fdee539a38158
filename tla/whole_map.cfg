\* Three keys with two values in nodes of one pair or two children, buckets of one.
SPECIFICATION SpecMap
CONSTANTS
  Layers = {1, 2, 3}
  Depth <- Depth001
  SplitDepth <- Depth001
  Z = 1
  Ids = {1, 2, 3}
  Data <- Contents_
  C = 1
  P2 = 2
  P1 = 6
  Keys = {1, 2, 3}
  Values = {v1, v2}
INVARIANTS CallerKeepsRules ParentsAreCached EntriesAreThoseOfNodes
PROPERTY ImplementsOMap
SYMMETRY ValueSymmetry
