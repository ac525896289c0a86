SPECIFICATION Spec
CONSTANTS
  Turns = 3
  Agents <- TwoAgents
  Texts <- TwoTexts
  None = None
  a1 = a1
  a2 = a2
  x = x
  y = y
CHECK_DEADLOCK FALSE
INVARIANTS
  TypeOK
  NothingPendingWhenOff
  NewestIsRegistered
  OneReviewWorks
  ReadyIsFresh
PROPERTIES
  OnlyNewestStores
  AnswerNotDropped
SYMMETRY Symmetric
