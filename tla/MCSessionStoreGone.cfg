\* One goroutine updates a session while AdoptSessionID merges it: no Delete,
\* no CleanExpired, no limit, no kill.
SPECIFICATION Spec
CONSTANTS
  u1 = u1
  u2 = u2
  p1 = p1
  p2 = p2
  o1 = o1
  o2 = o2
  o3 = o3
  o4 = o4
  first = first
  second = second
  native = native
  NoId = NoId
  NoObj = NoObj
  Users <- TwoUsers
  Ids <- ThreeIds
  Requests <- ThreeRequests
  NativeIds <- OneNative
  NumberedId <- Numbered
  Objs <- FourObjs
  Procs <- OneProc
  MaxSize = 0
  Housekeeping = FALSE
  MaxUpdates = 1
  MaxCrashes = 0
SYMMETRY Symmetry
CHECK_DEADLOCK FALSE
INVARIANT GoneStaysGone
