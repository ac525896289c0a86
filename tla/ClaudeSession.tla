----------------------------- MODULE ClaudeSession -----------------------------
(***************************************************************************)
(* A live claude session (agent/claude_session.go): the CLI at the other   *)
(* end of two pipes, the goroutine that reads its output, the goroutines   *)
(* that write to it, and those that close it.  The CLI is external: it     *)
(* reads its input when it likes, and may go at any moment.                *)
(*                                                                         *)
(* The lines it writes are answers or approval requests, numbered in the   *)
(* order it writes them.  What an answer says is left out.                 *)
(***************************************************************************)
EXTENDS Naturals, Sequences

CONSTANTS
  Writers,   \* goroutines that send or decide: a turn, an injection
  Closers,   \* goroutines that close the session
  Inputs,    \* bound: inputs sent
  Lines,     \* bound: lines of the CLI's output
  Room,      \* of the pipe to the CLI
  Capacity,  \* of events, 64 in the code
  Long,      \* may a line be longer than the reader's buffer, 10 MiB?
  Stuck,     \* may the CLI stop to read its input?
  Orphans    \* may it leave a process behind that keeps its pipes open?

ConstantsAssumption ==
  /\ Writers \cap Closers = {} /\ {Inputs, Lines} \subseteq Nat
  /\ {Room, Capacity} \subseteq Nat \ {0} /\ {Long, Stuck, Orphans} \subseteq BOOLEAN

VARIABLES
  proc,      \* the CLI: "up", "stuck", "gone", and "reaped" when it was waited for
  killed,    \* a signal it does not survive is on its way
  orphan,    \* another process has its pipes open
  input,     \* [open, unread]: the pipe to the CLI
  output,    \* the lines in the pipe from it
  said,      \* the number of lines it has written
  reader,    \* readLoop: "scan", "emit", "fail", "wait", "report", "ended"
  line,      \* the line whose event the reader puts into the channel
  events,    \* the channel, which is closed when the reader has ended
  slot,      \* pending: the approval request that waits, or 0
  alive, cancelled,
  mu,        \* who holds stdinMu, or "none"
  writer,    \* goroutine -> [pc, for]: for an approval request, or 0 for an input
  sent,      \* the number of inputs
  decided,   \* the approval requests written about (history)
  closer     \* goroutine -> pc

cli == <<proc, killed, orphan, said>>
readerVars == <<reader, line, events>>
vars == <<cli, input, output, readerVars, slot, alive, cancelled, mu, writer, sent, decided, closer>>

Up == proc \in {"up", "stuck"}
Request == 1 .. Lines

Init ==
  /\ proc = "up" /\ killed = FALSE /\ orphan = FALSE
  /\ input = [open |-> TRUE, unread |-> 0] /\ output = <<>> /\ said = 0
  /\ reader = "scan" /\ line = [what |-> "none", n |-> 0] /\ events = <<>>
  /\ slot = 0 /\ alive = TRUE /\ cancelled = FALSE /\ mu = "none"
  /\ writer = [w \in Writers |-> [pc |-> "idle", for |-> 0]]
  /\ sent = 0 /\ decided = <<>> /\ closer = [c \in Closers |-> "idle"]

-----------------------------------------------------------------------------
(* Writers *)

Send(w) ==
  /\ writer[w].pc = "idle" /\ alive /\ sent < Inputs /\ sent' = sent + 1
  /\ writer' = [writer EXCEPT ![w] = [pc |-> "lock", for |-> 0]]
  /\ UNCHANGED <<cli, input, output, readerVars, slot, alive, cancelled, mu, decided, closer>>

\* RespondApproval, RespondQuestionAnswers: the request is taken out of its slot,
\* then written about.
Respond(w) ==
  /\ writer[w].pc = "idle" /\ alive /\ slot # 0 /\ slot' = 0
  /\ writer' = [writer EXCEPT ![w] = [pc |-> "lock", for |-> slot]]
  /\ UNCHANGED <<cli, input, output, readerVars, alive, cancelled, mu, sent, decided, closer>>

\* writeJSON: the lock is held while the pipe has no room.
Lock(w) ==
  /\ writer[w].pc = "lock" /\ mu = "none" /\ mu' = w
  /\ writer' = [writer EXCEPT ![w].pc = "write"]
  /\ UNCHANGED <<cli, input, output, readerVars, slot, alive, cancelled, sent, decided, closer>>
Broken == ~input.open \/ (~Up /\ ~orphan)
Write(w) ==
  /\ writer[w].pc = "write" /\ (Broken \/ input.unread < Room)
  /\ IF Broken THEN UNCHANGED <<input, decided>>
     ELSE /\ input' = [input EXCEPT !.unread = @ + 1]
          /\ decided' = IF writer[w].for = 0 THEN decided ELSE Append(decided, writer[w].for)
  /\ mu' = "none" /\ writer' = [writer EXCEPT ![w] = [pc |-> "idle", for |-> 0]]
  /\ UNCHANGED <<cli, output, readerVars, slot, alive, cancelled, sent, closer>>

-----------------------------------------------------------------------------
(* The goroutine that reads *)

PipeEnds == ~Up /\ ~orphan

\* parseControlRequest puts a request into the slot.
Scan ==
  /\ reader = "scan" /\ output # <<>>
  /\ line' = Head(output) /\ output' = Tail(output) /\ reader' = "emit"
  /\ slot' = IF Head(output).what = "ask" THEN Head(output).n ELSE slot
  /\ UNCHANGED <<cli, input, events, alive, cancelled, mu, writer, sent, decided, closer>>
\* Mutant: a CLI that is gone ends the scan.
ScanEndsEarly ==
  /\ reader = "scan" /\ PipeEnds /\ reader' = "wait"
  /\ UNCHANGED <<cli, input, output, line, events, slot, alive, cancelled, mu, writer, sent,
                 decided, closer>>
ScanEnds ==
  /\ reader = "scan" /\ output = <<>> /\ PipeEnds /\ reader' = "wait"
  /\ UNCHANGED <<cli, input, output, line, events, slot, alive, cancelled, mu, writer, sent,
                 decided, closer>>
\* A line that does not fit ends the scan as well, with the output unread and an error.
Failure == [what |-> "error", n |-> 0]
ScanFails ==
  /\ Long /\ reader = "scan" /\ output # <<>>
  /\ IF cancelled THEN reader' = "wait" /\ UNCHANGED line ELSE reader' = "fail" /\ line' = Failure
  /\ UNCHANGED <<cli, input, output, events, slot, alive, cancelled, mu, writer, sent, decided,
                 closer>>

\* emitOrCancel.  The report of a failed CLI is the last event.
Ended == reader' = "ended" /\ alive' = FALSE
Emit ==
  /\ reader \in {"emit", "fail", "report"} /\ Len(events) < Capacity /\ events' = Append(events, line)
  /\ CASE reader = "emit" -> reader' = "scan" /\ UNCHANGED alive
       [] reader = "fail" -> reader' = "wait" /\ UNCHANGED alive
       [] OTHER -> Ended
  /\ UNCHANGED <<cli, input, output, line, slot, cancelled, mu, writer, sent, decided, closer>>
\* Cancelled, the loop returns at once, but for the error of the scan.
EmitCancelled ==
  /\ reader \in {"emit", "fail", "report"} /\ cancelled
  /\ IF reader = "fail" THEN reader' = "wait" /\ UNCHANGED alive ELSE Ended
  /\ UNCHANGED <<cli, input, output, line, events, slot, cancelled, mu, writer, sent, decided,
                 closer>>

\* cmd.Wait also waits for the end of stderr.  A CLI that failed is reported.
Wait ==
  /\ reader = "wait" /\ PipeEnds /\ proc' = "reaped"
  /\ \E failed \in BOOLEAN :
       IF failed /\ ~cancelled
       THEN reader' = "report" /\ line' = Failure /\ UNCHANGED alive
       ELSE Ended /\ UNCHANGED line
  /\ UNCHANGED <<killed, orphan, input, output, said, events, slot, cancelled, mu, writer, sent,
                 decided, closer>>

\* A turn takes events, when there is one.
Take ==
  /\ events # <<>> /\ events' = Tail(events)
  /\ UNCHANGED <<cli, input, output, reader, line, slot, alive, cancelled, mu, writer, sent,
                 decided, closer>>

-----------------------------------------------------------------------------
(* Close *)

At(c, pc, next) == closer[c] = pc /\ closer' = [closer EXCEPT ![c] = next]
Rest == <<output, readerVars, slot, writer, sent, decided, proc, orphan, said>>
Done == reader = "ended"

\* alive is loaded, then stored: two that close may both go on.
Begin(c) ==
  /\ At(c, "idle", IF alive THEN "begun" ELSE "returned")
  /\ UNCHANGED <<Rest, killed, alive, input, cancelled, mu>>
StoreDead(c) ==
  /\ At(c, "begun", "lock") /\ alive' = FALSE
  /\ UNCHANGED <<Rest, killed, input, cancelled, mu>>
\* The pipe to the CLI is closed under the lock of the writers.
CloseInput(c) ==
  /\ At(c, "lock", "first") /\ mu = "none" /\ input' = [input EXCEPT !.open = FALSE]
  /\ UNCHANGED <<Rest, killed, alive, cancelled, mu>>
\* Three seconds for the CLI to end by itself, then the context is cancelled (which
\* kills it) and it is told to end, two seconds, and it is killed.
Terminate(c) ==
  /\ At(c, "first", "second") /\ ~Done /\ cancelled' = TRUE /\ killed' = TRUE
  /\ UNCHANGED <<Rest, alive, input, mu>>
Kill(c) ==
  /\ At(c, "second", "third") /\ ~Done /\ killed' = TRUE
  /\ UNCHANGED <<Rest, alive, input, cancelled, mu>>
Return(c) ==
  /\ closer[c] \in {"first", "second", "third"} /\ Done
  /\ closer' = [closer EXCEPT ![c] = "returned"]
  /\ UNCHANGED <<Rest, killed, alive, input, cancelled, mu>>

-----------------------------------------------------------------------------
(* The CLI *)

Bridge == <<readerVars, slot, alive, cancelled, mu, writer, sent, decided, closer>>
Reads ==
  /\ proc = "up" /\ input.unread > 0 /\ input' = [input EXCEPT !.unread = @ - 1]
  /\ UNCHANGED <<cli, output, Bridge>>
Says(what) ==
  /\ Up /\ said < Lines /\ said' = said + 1
  /\ output' = Append(output, [what |-> what, n |-> said + 1])
  /\ UNCHANGED <<proc, killed, orphan, input, Bridge>>
StopsReading ==
  /\ Stuck /\ proc = "up" /\ proc' = "stuck"
  /\ UNCHANGED <<killed, orphan, said, input, output, Bridge>>
Exits ==
  /\ Up /\ proc' = "gone" /\ orphan' \in {FALSE, Orphans}
  /\ UNCHANGED <<killed, said, input, output, Bridge>>
\* It ends when it is killed.
Dies == killed /\ Exits

Writer(w) == Send(w) \/ Respond(w) \/ Lock(w) \/ Write(w)
Closer(c) == Begin(c) \/ StoreDead(c) \/ CloseInput(c) \/ Terminate(c) \/ Kill(c) \/ Return(c)
Next ==
  \/ \E w \in Writers : Writer(w)
  \/ \E c \in Closers : Closer(c)
  \/ Scan \/ ScanEnds \/ ScanFails \/ Emit \/ EmitCancelled \/ Wait \/ Take
  \/ Reads \/ (\E what \in {"text", "ask"} : Says(what)) \/ StopsReading \/ Exits

Spec == Init /\ [][Next]_vars
\* Goroutines run on and timers go off.  Nobody need take events, and the CLI, which
\* reads its input unless it is stuck, ends only when it is killed.
Progress ==
  \/ \E w \in Writers : Lock(w) \/ Write(w)
  \/ \E c \in Closers : StoreDead(c) \/ CloseInput(c) \/ Terminate(c) \/ Kill(c) \/ Return(c)
  \/ Scan \/ ScanEnds \/ Emit \/ EmitCancelled \/ Wait \/ Reads \/ Dies
Fairness == WF_vars(Progress)

LiveSpec == Spec /\ Fairness

-----------------------------------------------------------------------------
(* Properties *)

TypeOK ==
  /\ proc \in {"up", "stuck", "gone", "reaped"} /\ {killed, orphan, alive, cancelled} \subseteq BOOLEAN
  /\ input \in [open : BOOLEAN, unread : 0 .. Room] /\ said \in 0 .. Lines
  /\ Len(output) <= Lines /\ Len(events) <= Capacity
  /\ reader \in {"scan", "emit", "fail", "wait", "report", "ended"} /\ slot \in 0 .. Lines
  /\ mu \in Writers \cup {"none"}
  /\ writer \in [Writers -> [pc : {"idle", "lock", "write"}, for : 0 .. Lines]]
  /\ closer \in [Closers -> {"idle", "begun", "lock", "first", "second", "third", "returned"}]

\* The CLI gets one decision on a request, whoever decides (pendingMu).
DecidedOnce == \A i, j \in 1 .. Len(decided) : i # j => decided[i] # decided[j]

\* A session that ends leaves no process behind that nobody has waited for.
Reaped == Done => proc = "reaped"

\* While nobody closes the session everything the CLI has written is passed on before
\* the channel is closed (readLoop reads to the end of the pipe before it waits), or the
\* last event is an error.
ReadToTheEnd ==
  (Done /\ ~cancelled) => (output = <<>> \/ line.what = "error") /\ proc = "reaped"

\* Close returns, although nobody takes events any more, if the CLI reads its input and
\* leaves no process behind.  (With one that does neither Close may wait for ever: for the
\* lock of a writer, agent/claude_session.go:231, or for the reader, :256.)
CloseReturns ==
  []<>(\A c \in Closers : closer[c] \in {"idle", "returned"} \/ orphan \/ proc = "stuck")
=============================================================================
