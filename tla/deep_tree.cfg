\* One layer in a tree of seven buckets of one; two contents.
SPECIFICATION Spec
CONSTANTS
  Layers = {3}
  Depth <- Depth002
  SplitDepth <- Depth002
  Z = 1
  Ids = {1, 2}
  Data = {1, 2}
INVARIANTS OnItsPath WritesOnlyTaken NobodyCrashes BucketsFit
PROPERTY ImplementsBlockStore
