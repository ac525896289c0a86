SPECIFICATION Spec
CONSTANTS
  Turns = 2
  Agents <- OneAgent
  Texts <- TwoTexts
  None = None
  a1 = a1
  a2 = a2
  x = x
  y = y
CHECK_DEADLOCK FALSE
PROPERTIES
  NewerFeedbackStays
