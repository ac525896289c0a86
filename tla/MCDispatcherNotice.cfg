\* The promise of the queue notice, which an overflowing queue breaks.
SPECIFICATION Spec
CONSTANTS
  u1 = u1
  u2 = u2
  NoMsg = NoMsg
  Users <- TwoUsers
  Kinds = {"text"}
  MaxArrivals = 4
  MaxQueuedPerUser = 2
SYMMETRY Symmetry
CHECK_DEADLOCK FALSE
INVARIANT QueuedIsProcessed
