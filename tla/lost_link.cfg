\* A tree of three buckets; the server dies at any point, once.
\* The client may be killed and then nothing happens: no deadlock is meant.
SPECIFICATION FairSpecLink
CONSTANTS
  Layers = {3}
  Depth <- DepthOne
  SplitDepth <- DepthOne
  Z = 1
  Ids = {1, 2}
  Data = {1, 2}
PROPERTIES ReadsLastWritten OperationsEndOrFail
CHECK_DEADLOCK FALSE
