-------------------------------- MODULE CliTurn --------------------------------
(***************************************************************************)
(* A turn that runs a CLI of its own: ExecuteStream of Claude              *)
(* (agent/claude.go), of gemini (agent/gemini.go), of codex when no app    *)
(* server answers (executeViaJSONCLI in agent/codex.go), and of hermes     *)
(* (agent/hermes.go).  A goroutine turns the CLI's lines into events and   *)
(* closes their channel; the router takes events until it is closed.  The  *)
(* CLI is external.  It is killed when the context of the turn is          *)
(* cancelled (exec.CommandContext).                                        *)
(*                                                                         *)
(* A line is a piece of the answer, an error, the result, or a result that *)
(* is an error.  Lines that are no JSON, tool events and the id of the     *)
(* native session, and a read that fails before its end, are left out.     *)
(***************************************************************************)
EXTENDS Naturals, Sequences, SequencesExt

CONSTANTS
  Agents,    \* the agents there are
  Lines,     \* bound: lines of the CLI's output
  Orphans,   \* may it leave a process behind that keeps its output open?
  Capacity   \* of events: 8 for Claude and hermes, 32 for gemini and codex

ConstantsAssumption ==
  /\ Agents \subseteq {"claude", "gemini", "codex", "hermes"} /\ Agents # {}
  /\ Lines \in Nat /\ Orphans \in BOOLEAN /\ Capacity \in Nat \ {0}

VARIABLES
  agent,
  proc,      \* "none", "up", "gone", "reaped"
  failed,    \* its exit status is not 0
  orphan,    \* another process has its output open
  output,    \* the pipe from it
  said,      \* everything it has written (history)
  pc,        \* the goroutine: "start", "read", "emit", "wait", "report", "reap", "ended"
  todo,      \* the events it puts into the channel
  errors,    \* gemini: has an error been read?
  events,    \* the channel, which is closed when the goroutine has ended
  passed,    \* what has been put into it (history)
  cancelled  \* the context of the turn

cli == <<proc, failed, orphan, output, said>>
vars == <<agent, cli, pc, todo, errors, events, passed, cancelled>>

Line == {"text", "error", "result", "fail"}

\* The CLIs of Claude and hermes are started in the goroutine, the others before there is one.
Init ==
  /\ agent \in Agents
  /\ IF agent \in {"claude", "hermes"} THEN proc = "none" /\ pc = "start" ELSE proc = "up" /\ pc = "read"
  /\ failed = FALSE /\ orphan = FALSE /\ output = <<>> /\ said = <<>>
  /\ todo = <<>> /\ errors = FALSE /\ events = <<>> /\ passed = <<>> /\ cancelled = FALSE

-----------------------------------------------------------------------------
(* The goroutine *)

\* parseClaudeStreamEvent, parseGeminiEvent, parseCodexEvent.
EventsOf(line) ==
  CASE line = "text" -> <<"text">>
    [] line = "error" -> IF agent = "claude" THEN <<>> ELSE <<"error">>
    [] line = "result" -> IF agent = "codex" THEN <<>> ELSE <<"done">>
    [] line = "fail" -> IF agent = "codex" THEN <<"error">> ELSE <<"error", "done">>

\* parseHermesOutput: all that was written is one message.
Whole == IF said = <<>> THEN <<"done">> ELSE <<"text", "done">>

PipeEnds == proc \in {"gone", "reaped"} /\ ~orphan

Start ==
  /\ pc = "start"
  /\ \/ proc' = "up" /\ pc' = "read" /\ UNCHANGED todo
     \/ pc' = "report" /\ todo' = <<"error">> /\ UNCHANGED proc
  /\ UNCHANGED <<agent, failed, orphan, output, said, errors, events, passed, cancelled>>

Read ==
  /\ pc = "read" /\ agent # "hermes" /\ output # <<>>
  /\ todo' = EventsOf(Head(output)) /\ output' = Tail(output)
  /\ pc' = IF todo' = <<>> THEN "read" ELSE "emit"
  /\ errors' = (errors \/ (agent = "gemini" /\ Head(output) \in {"error", "fail"}))
  /\ UNCHANGED <<agent, proc, failed, orphan, said, events, passed, cancelled>>

\* hermes is read from and waited for in one call (CombinedOutput).
ReadEnds ==
  /\ pc = "read" /\ PipeEnds /\ (agent = "hermes" \/ output = <<>>)
  /\ pc' = "wait"
  /\ UNCHANGED <<agent, cli, todo, errors, events, passed, cancelled>>

\* emitOrCancel: there may be room although the context is cancelled.
Emit ==
  /\ pc \in {"emit", "report"} /\ Len(events) < Capacity
  /\ events' = Append(events, Head(todo)) /\ passed' = Append(passed, Head(todo))
  /\ todo' = Tail(todo)
  /\ pc' = IF Tail(todo) # <<>> THEN pc ELSE IF pc = "emit" THEN "read" ELSE "ended"
  /\ UNCHANGED <<agent, cli, errors, cancelled>>
\* Only Claude's process is waited for then.
EmitCancelled ==
  /\ pc \in {"emit", "report"} /\ cancelled
  /\ todo' = <<>> /\ pc' = IF agent = "claude" /\ pc = "emit" THEN "reap" ELSE "ended"
  /\ UNCHANGED <<agent, cli, errors, events, passed, cancelled>>

\* What a process that has ended leads to: gemini and codex are silent about one that was
\* killed, and gemini's failure is not told twice.
Report ==
  CASE agent = "hermes" -> IF failed THEN <<"error">> ELSE Whole
    [] agent = "claude" -> IF failed THEN <<"error">> ELSE <<>>
    [] agent = "gemini" -> IF failed /\ ~cancelled /\ ~errors THEN <<"error">> ELSE <<>>
    [] agent = "codex" -> IF ~failed THEN <<"done">> ELSE IF cancelled THEN <<>> ELSE <<"error">>
\* cmd.Wait
Wait ==
  /\ pc = "wait" /\ PipeEnds /\ proc' = "reaped"
  /\ todo' = Report /\ pc' = IF Report = <<>> THEN "ended" ELSE "report"
  /\ UNCHANGED <<agent, failed, orphan, output, said, errors, events, passed, cancelled>>
Reap ==
  /\ pc = "reap" /\ PipeEnds /\ proc' = "reaped" /\ pc' = "ended"
  /\ UNCHANGED <<agent, failed, orphan, output, said, todo, errors, events, passed, cancelled>>

-----------------------------------------------------------------------------
(* The router, and the CLI *)

Take ==
  /\ events # <<>> /\ events' = Tail(events)
  /\ UNCHANGED <<agent, cli, pc, todo, errors, passed, cancelled>>
Cancel ==
  /\ ~cancelled /\ pc # "ended" /\ cancelled' = TRUE
  /\ UNCHANGED <<agent, cli, pc, todo, errors, events, passed>>

Says(line) ==
  /\ proc = "up" /\ Len(said) < Lines
  /\ output' = Append(output, line) /\ said' = Append(said, line)
  /\ UNCHANGED <<agent, proc, failed, orphan, pc, todo, errors, events, passed, cancelled>>
Exits(bad) ==
  /\ proc = "up" /\ proc' = "gone" /\ failed' = bad /\ orphan' \in {FALSE, Orphans}
  /\ UNCHANGED <<agent, output, said, pc, todo, errors, events, passed, cancelled>>
Killed == cancelled /\ Exits(TRUE)

Goroutine == Start \/ Read \/ ReadEnds \/ Emit \/ EmitCancelled \/ Wait \/ Reap
Next ==
  \/ Goroutine \/ Take \/ Cancel \/ Killed
  \/ (\E line \in Line : Says(line)) \/ (\E bad \in BOOLEAN : Exits(bad))

\* The goroutine and the one who takes the events run on, and a CLI that is to be killed
\* ends.  Nothing else makes a CLI end.
Spec == Init /\ [][Next]_vars
Progress == Goroutine \/ Take \/ Killed
Fairness == WF_vars(Progress)

-----------------------------------------------------------------------------
(* Properties *)

TypeOK ==
  /\ agent \in Agents /\ proc \in {"none", "up", "gone", "reaped"}
  /\ {failed, orphan, errors, cancelled} \subseteq BOOLEAN
  /\ said \in Seq(Line) /\ Len(said) <= Lines /\ IsSuffix(output, said)
  /\ pc \in {"start", "read", "emit", "wait", "report", "reap", "ended"}
  /\ Len(todo) <= 2 /\ Len(events) <= Capacity /\ IsSuffix(events, passed)

\* A turn that nobody cancels passes on everything its CLI has written, in order, before
\* the channel is closed, although the CLI is gone by then.
PassedWhole ==
  pc = "ended" /\ ~cancelled /\ agent # "hermes"
    => IsPrefix(FlattenSeq([i \in 1 .. Len(said) |-> EventsOf(said[i])]), passed)

\* A CLI that has failed is told of: the user does not take half an answer for a whole.
FailureTold == pc = "ended" /\ ~cancelled /\ failed => \E i \in 1 .. Len(passed) : passed[i] = "error"

\* Claude and hermes leave no process behind that nobody has waited for.  (The goroutines of
\* gemini, agent/gemini.go:80, and codex, agent/codex.go:80, return without a Wait when an
\* event is given up.)
Reaped == pc = "ended" /\ agent \in {"claude", "hermes"} => proc \in {"none", "reaped"}

\* The channel is closed once the CLI has ended or the turn is cancelled, unless a process
\* that the CLI has left behind keeps its output open.
Over == pc = "ended" \/ orphan \/ (proc = "up" /\ ~cancelled)
Closes == []<>Over
=============================================================================
