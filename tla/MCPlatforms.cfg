SPECIFICATION Spec
CHECK_DEADLOCK FALSE
CONSTANTS
  Messages = {m1, m2}
  Capacity = 1
  MaxAuthFailures = 2
  MaxReads = 9
  Window = 2
  GCAfter = 0
  Sockets = 3
  WeiboLoads <- MCWeiboLoads
  Replies = {r1, r2}
  Agents = {a1}
  HubCapacity = 1
  Conns = 2
  HubLoads <- MCHubLoads
INVARIANTS
  TypeOK
  ArrivesOnce
  StopDisconnects
PROPERTY GoesOn
