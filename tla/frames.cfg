\* Either process may die at any time; a recv returns all that was sent.
SPECIFICATION FairSpec
CONSTANTS
  PlainBlocks = 2
  Layers = {1, 2, 3}
  Leaves = {0, 7, 10, 123}
  Indices = {0, 1, 22}
  MaxPath = 2
  InParts = {}
  MayDie = {"client", "server"}
INVARIANTS TypeOK StreamsDrained
PROPERTIES RequestsUnderstood AnswersUnderstood CallsReturn ExitStopsServer
CHECK_DEADLOCK FALSE
