\* Leaves of three, four keys in any order.
SPECIFICATION Spec
CONSTANTS
  C = 3
  P2 = 2
  P1 = 4
  Keys = {1, 2, 3, 4}
  Values = {1}
  Positions1 = {0}
  Positions2 = {0}
  Positions3 = {0}
  AtEnds = FALSE
INVARIANT PresentKeysAreFound
