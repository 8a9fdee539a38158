\* Leaves of three; where they have room, keys come at one of their ends.
SPECIFICATION Spec
CONSTANTS
  C = 3
  P2 = 3
  P1 = 4
  Keys = {1, 2, 3, 4, 5, 6, 7, 8}
  Values = {1}
  Positions1 = {0}
  Positions2 = {0}
  Positions3 = {0}
  AtEnds = TRUE
INVARIANT NodesHalfFull
PROPERTY ImplementsOMap
