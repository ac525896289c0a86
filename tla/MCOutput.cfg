SPECIFICATION MCSpec
CONSTANTS
  Modes = {"stream", "simple"}
  Pieces = 6
  ChunkMax = 2
  Errors = 1
  MidMessage = FALSE
  Callers = {"c1", "c2"}
  Runs = 3
  Kinds = {"lines", "document"}
  Before = 1
  Lines = 3
  Cuts = {"text", "end"}
  Files = 3
  Replacings = {"move", "copy", "truncate"}
CHECK_DEADLOCK FALSE
INVARIANTS
  TypeOK
  ReplyWhole
  ListensInOrder
PROPERTY GoesOn
