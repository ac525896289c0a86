SPECIFICATION Spec
CONSTANTS
  Turns = 3
  Procs = 3
  Objs = 2
  News = 1
  Types = {"claude", "codex"}
  RegistryLoads <- MCRegistryLoads
  Msgs = 3
  AgentProcs = 2
  SessionLoads <- MCSessionLoads
CHECK_DEADLOCK FALSE
INVARIANTS
  TypeOK
  ProcessesKept
  OwnAnswer
  RequestReachesUser
PROPERTY AnswersWhatWasShown
