\* Five keys in any order; every node at either of two positions.
SPECIFICATION Spec
CONSTANTS
  C = 2
  P2 = 2
  P1 = 5
  Keys = {1, 2, 3, 4, 5}
  Values = {1}
  Positions1 = {0, 1}
  Positions2 = {0, 1}
  Positions3 = {0, 1}
  AtEnds = FALSE
INVARIANTS EntriesLeadToNodes NothingLost
