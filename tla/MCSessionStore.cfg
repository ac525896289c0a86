\* Two users, three ids, a limit of two sessions, two goroutines, one kill.
SPECIFICATION Spec
CONSTANTS
  u1 = u1
  u2 = u2
  p1 = p1
  p2 = p2
  o1 = o1
  o2 = o2
  o3 = o3
  o4 = o4
  first = first
  second = second
  native = native
  NoId = NoId
  NoObj = NoObj
  Users <- TwoUsers
  Ids <- ThreeIds
  Requests <- ThreeRequests
  NativeIds <- OneNative
  NumberedId <- Numbered
  Objs <- ThreeObjs
  Procs <- TwoProcs
  MaxSize = 2
  Housekeeping = TRUE
  MaxUpdates = 1
  MaxCrashes = 1
SYMMETRY Symmetry
CHECK_DEADLOCK FALSE
INVARIANTS
  TypeOK
  SessionsConsistent
  PersistedStays
  MemoryOnDisk
  MetadataNotStale
PROPERTY RestartKeepsActive
