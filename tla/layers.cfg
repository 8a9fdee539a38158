\* Three layers on one connection; two nodes in each, buckets of one.
SPECIFICATION FairSpec
CONSTANTS
  Layers = {1, 2, 3}
  Depth <- Depth001
  SplitDepth <- Depth001
  Z = 1
  Ids = {1, 2}
  Data = {1}
INVARIANTS TypeOK Inv NoNodeLost QuietBetweenOperations RemappedAfterAccess
PROPERTY OperationsEnd
