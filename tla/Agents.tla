-------------------------------- MODULE Agents --------------------------------
(***************************************************************************)
(* The agents.  What a router runs is a live session of codex              *)
(* (CodexSession), Claude (ClaudeSession) or hermes (HermesSession), or a  *)
(* turn that starts an agent of its own: through its CLI (CliTurn), or on  *)
(* an app server of codex (CodexTurn).  part says which; the variables of  *)
(* the others stay as they are.                                            *)
(***************************************************************************)
EXTENDS Naturals

CONSTANTS
  Quits,     \* may an agent end by itself?
  Orphans,   \* may it leave a process behind that keeps its output open?
  Lines,     \* bound: lines of a CLI's output
  \* CodexSession (Approvals are its Asks; Quits is what the modules call Exits)
  Sends, Injections, Deltas, Approvals, AtOnce, Leaving, Quiet, Capacity,
  \* ClaudeSession (Sticks is its Stuck)
  Writers, Closers, Inputs, Room, Long, Sticks, ClaudeCapacity,
  \* HermesSession
  Resume, Prompts, Steers, Chunks, Replays, Late, Silent, HermesClosers, HermesCapacity,
  \* CliTurn
  Clis, CliCapacity,
  \* CodexTurn
  TurnDeltas, MsgCapacity, TurnCapacity

VARIABLES part,
  \* CodexSession
  transport, call, sent, pendingResp, response, toServer, fromServer, server, turnID, deltaSeen,
  slot, reader, emitting, events, state, out, shown, decided, decisions, lastRead, told, early,
  \* ClaudeSession
  proc, killed, orphan, input, output, said, claudeReader, line, claudeEvents, claudeSlot,
  alive, cancelled, mu, writer, claudeSent, claudeDecided, closer,
  \* HermesSession
  start, hermesResponse, pending, suppress, promptIDs, hermesSent, sender, toHermes, fromHermes, hermes,
  hermesProc, hermesOrphan, hermesOutput, hermesReader, hermesEmitting, hermesEvents, ended,
  replayed, stderr, hermesAlive, hermesCancelled, hermesCloser,
  \* CliTurn
  agent, cliProc, failed, cliOrphan, cliOutput, cliSaid, cliPc, cliTodo, errors, cliEvents,
  cliPassed, cliCancelled,
  \* CodexTurn
  via, pc, request, app, wire, appReader, held, messages, readErr, closed, aside, todo,
  appDeltaSeen, appEvents, passed, appSaid, inputs, appCancelled

codexVars == <<transport, call, sent, pendingResp, response, toServer, fromServer, server, turnID,
               deltaSeen, slot, reader, emitting, events, state, out, shown, decided, decisions,
               lastRead, told, early>>
claudeVars == <<proc, killed, orphan, input, output, said, claudeReader, line, claudeEvents,
                claudeSlot, alive, cancelled, mu, writer, claudeSent, claudeDecided, closer>>
hermesVars == <<start, hermesResponse, pending, suppress, promptIDs, hermesSent, sender,
                toHermes, fromHermes, hermes, hermesProc, hermesOrphan, hermesOutput, hermesReader,
                hermesEmitting, hermesEvents, ended, replayed, stderr, hermesAlive,
                hermesCancelled, hermesCloser>>
cliVars == <<agent, cliProc, failed, cliOrphan, cliOutput, cliSaid, cliPc, cliTodo, errors,
             cliEvents, cliPassed, cliCancelled>>
turnVars == <<via, pc, request, app, wire, appReader, held, messages, readErr, closed, aside, todo,
              appDeltaSeen, appEvents, passed, appSaid, inputs, appCancelled>>
vars == <<part, codexVars, claudeVars, hermesVars, cliVars, turnVars>>

Codex == INSTANCE CodexSession WITH Asks <- Approvals, Exits <- Quits
Claude == INSTANCE ClaudeSession WITH
  Stuck <- Sticks, Capacity <- ClaudeCapacity, reader <- claudeReader, events <- claudeEvents,
  slot <- claudeSlot, sent <- claudeSent, decided <- claudeDecided
Hermes == INSTANCE HermesSession WITH
  Exits <- Quits, Closers <- HermesClosers, Capacity <- HermesCapacity,
  response <- hermesResponse, sent <- hermesSent, proc <- hermesProc, orphan <- hermesOrphan,
  output <- hermesOutput, reader <- hermesReader, emitting <- hermesEmitting,
  events <- hermesEvents, alive <- hermesAlive, cancelled <- hermesCancelled,
  closer <- hermesCloser
Cli == INSTANCE CliTurn WITH
  Agents <- Clis, Capacity <- CliCapacity,
  proc <- cliProc, orphan <- cliOrphan, output <- cliOutput, said <- cliSaid, pc <- cliPc,
  todo <- cliTodo, events <- cliEvents, passed <- cliPassed, cancelled <- cliCancelled
Turn == INSTANCE CodexTurn WITH
  Exits <- Quits, Deltas <- TurnDeltas, Capacity <- TurnCapacity,
  server <- app, reader <- appReader, pending <- aside, deltaSeen <- appDeltaSeen,
  events <- appEvents, said <- appSaid, cancelled <- appCancelled

ASSUME ConstantsAssumption ==
  /\ Codex!ConstantsAssumption /\ Claude!ConstantsAssumption /\ Hermes!ConstantsAssumption
  /\ Cli!ConstantsAssumption /\ Turn!ConstantsAssumption

Parts == {"codex", "claude", "hermes", "cli", "codex turn"}
AnyOf(S) == CHOOSE x \in S : TRUE

Init ==
  /\ part \in Parts
  /\ Codex!Init /\ Claude!Init /\ Hermes!Init /\ Turn!Init
  /\ Cli!Init /\ (part # "cli" => agent = AnyOf(Clis))

CodexRuns(A) == part = "codex" /\ A /\ UNCHANGED <<part, claudeVars, hermesVars, cliVars, turnVars>>
ClaudeRuns(A) == part = "claude" /\ A /\ UNCHANGED <<part, codexVars, hermesVars, cliVars, turnVars>>
HermesRuns(A) == part = "hermes" /\ A /\ UNCHANGED <<part, codexVars, claudeVars, cliVars, turnVars>>
CliRuns(A) == part = "cli" /\ A /\ UNCHANGED <<part, codexVars, claudeVars, hermesVars, turnVars>>
TurnRuns(A) == part = "codex turn" /\ A /\ UNCHANGED <<part, codexVars, claudeVars, hermesVars, cliVars>>

Next ==
  \/ CodexRuns(Codex!Next) \/ ClaudeRuns(Claude!Next) \/ HermesRuns(Hermes!Next)
  \/ CliRuns(Cli!Next) \/ TurnRuns(Turn!Next)

\* Each of them is scheduled as its module says.
Fairness ==
  /\ WF_codexVars(CodexRuns(Codex!Progress)) /\ WF_claudeVars(ClaudeRuns(Claude!Progress))
  /\ WF_hermesVars(HermesRuns(Hermes!Progress)) /\ WF_cliVars(CliRuns(Cli!Progress))
  /\ WF_turnVars(TurnRuns(Turn!Progress))

Spec == Init /\ [][Next]_vars /\ Fairness

-----------------------------------------------------------------------------
(* Properties: those of the parts *)

\* The types of the variables.
TypeOK ==
  /\ part \in Parts
  /\ Codex!TypeOK /\ Claude!TypeOK /\ Hermes!TypeOK /\ Cli!TypeOK /\ Turn!TypeOK

\* codex's answer is passed on once, in a turn of its own and in a live session whose turns
\* came one after the other and were waited for; what hermes has replayed by the end of its
\* start is not taken for an answer; and Claude gets one decision on a request, whoever
\* decides meanwhile.
OnceOnly ==
  Codex!AnswerOnce /\ Hermes!ReplayHidden /\ Claude!DecidedOnce /\ Turn!AnswerOnce

\* How the parts end, while nobody closes or cancels them.  Of Claude's live session
\* everything was passed on, or the last event is an error, and no process is left; an app
\* server that goes in the middle of a live turn is reported; a turn of a CLI has passed
\* everything on (of hermes' turn nothing is said), reports a CLI that failed, and leaves no
\* process (Claude's and hermes'); a codex turn that says done was passed on whole, and leaves
\* no app server.  And when the call that closes hermes returns, its goroutines have ended.
EndsWhole ==
  /\ Claude!ReadToTheEnd /\ Codex!ActiveEndTold /\ Hermes!FirstCloseJoins
  /\ Cli!PassedWhole /\ Cli!FailureTold /\ Cli!Reaped
  /\ Turn!DoneIsWhole /\ Turn!NoneLeft

\* Whoever waits for an agent is released, whatever the agent does: a request, a start, a
\* turn, and a Close, but for the cases named with the properties of the parts.
CallsReturn ==
  /\ Codex!WaitsEnd /\ Claude!CloseReturns /\ Hermes!CloseReturns
  /\ []<>(part = "hermes" => Hermes!Started)
  /\ []<>(part = "cli" => Cli!Over)
  /\ []<>(part = "codex turn" => Turn!Over)
=============================================================================
