\* The search ends, a tree is built, and then nothing happens.
SPECIFICATION SpecTrees
CONSTANTS
  Sizes <- SomeSizes
  Z = 4
  AllPaths = 4
INVARIANTS Cheapest RootTakesAll TreesExist LoopFindsBucket PathsMeetInPrefix WritesWhatWasSent
CHECK_DEADLOCK FALSE
