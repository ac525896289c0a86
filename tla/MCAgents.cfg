SPECIFICATION Spec
CHECK_DEADLOCK FALSE
CONSTANTS
  Quits = TRUE
  Orphans = TRUE
  Lines = 2
  Sends = 2
  Injections = 1
  Deltas = 1
  Approvals = 1
  AtOnce = FALSE
  Leaving = TRUE
  Quiet = FALSE
  Capacity = 5
  Writers <- MCWriters
  Closers <- MCClosers
  Inputs = 1
  Room = 1
  Long = TRUE
  Sticks = TRUE
  ClaudeCapacity = 1
  Resume = TRUE
  Prompts = 2
  Steers = TRUE
  Chunks = 2
  Replays = 2
  Late = FALSE
  Silent = TRUE
  HermesClosers <- MCHermesClosers
  HermesCapacity = 1
  Clis <- MCClis
  CliCapacity = 1
  TurnDeltas = 2
  MsgCapacity = 2
  TurnCapacity = 1
INVARIANTS
  TypeOK
  OnceOnly
  EndsWhole
PROPERTY CallsReturn
