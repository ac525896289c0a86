\* Liveness and the refinement of UserQueue; no symmetry.
SPECIFICATION FairSpec
CONSTANTS
  u1 = u1
  u2 = u2
  NoMsg = NoMsg
  Users <- TwoUsers
  Kinds = {"text", "btw", "slash"}
  MaxArrivals = 3
  MaxQueuedPerUser = 1
CHECK_DEADLOCK FALSE
PROPERTIES
  ImplementsUserQueue
  TakenIsSettled
  ShutdownDrains
