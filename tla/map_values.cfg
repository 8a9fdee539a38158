\* Five keys in any order, two values; nodes of two.
SPECIFICATION Spec
CONSTANTS
  C = 2
  P2 = 2
  P1 = 5
  Keys = {1, 2, 3, 4, 5}
  Values = {1, 2}
  Positions1 = {0}
  Positions2 = {0}
  Positions3 = {0}
  AtEnds = FALSE
INVARIANT TypeOK
PROPERTY ImplementsOMap
