\* Safety: two users, every kind of message, queues of two.
SPECIFICATION Spec
CONSTANTS
  u1 = u1
  u2 = u2
  NoMsg = NoMsg
  Users <- TwoUsers
  Kinds = {"text", "btw", "slash"}
  MaxArrivals = 4
  MaxQueuedPerUser = 2
SYMMETRY Symmetry
CHECK_DEADLOCK FALSE
INVARIANTS
  TypeOK
  OneWorkerPerUser
  QueueHasWorker
  NoMessageLostOrDuplicated
  SlashSerialised
  RegisteredRunIsCurrent
PROPERTIES
  ServedInOrder
