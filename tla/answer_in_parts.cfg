\* A recv of the client may return a part of an answer.
SPECIFICATION Spec
CONSTANTS
  PlainBlocks = 2
  Layers = {1, 2, 3}
  Leaves = {0, 7, 10, 123}
  Indices = {0, 1, 22}
  MaxPath = 2
  InParts = {"client"}
  MayDie = {}
PROPERTY AnswersUnderstood
CHECK_DEADLOCK FALSE
