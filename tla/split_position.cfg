\* What midNode1::Insert does: the node that splits off gets a position of
\* the tree of the layer below.
SPECIFICATION Spec
CONSTANTS
  Layers = {1, 2, 3}
  Depth <- Depth012
  SplitDepth <- CodeSplitDepth
  Z = 1
  Ids = {1, 2}
  Data = {1}
INVARIANT FetchesInTree
