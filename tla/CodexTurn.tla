------------------------------- MODULE CodexTurn -------------------------------
(***************************************************************************)
(* A codex turn on an app server of its own (agent/codex_appserver.go):    *)
(* three requests, each waited for while what arrives meanwhile is set     *)
(* aside, then the events of the turn, then the shutdown.  Reads are done  *)
(* by a goroutine, which passes messages on through one channel and the    *)
(* error of the last read through another.  A transport that fails is      *)
(* followed by the next; the last is the CLI (CliTurn).                    *)
(*                                                                         *)
(* The app server is external: it answers the requests, runs the turn,     *)
(* whose text comes in deltas and once more as a whole, and may end.       *)
(***************************************************************************)
EXTENDS Naturals, Sequences, SequencesExt

CONSTANTS
  Deltas,      \* bound: deltas of the answer
  MsgCapacity, \* of messages, 256 in the code
  Capacity,    \* of events, 256 in the code
  Exits        \* may the app server end by itself?

ConstantsAssumption ==
  /\ Deltas \in Nat /\ MsgCapacity \in Nat \ {0} /\ Capacity \in Nat \ {0} /\ Exits \in BOOLEAN

VARIABLES
  via,       \* the transport: "stdio", "websocket", or "cli" in the end
  pc,        \* "start", the request waited for ("init", "thread", "turn"), "failed",
             \* "stream", "report", "ended"
  request,   \* what the app server has not read yet, or "none"
  server,    \* [up, replies, turn]: the request it has to answer; its turn is
             \* "no", "runs" or "over"
  wire,      \* what it has sent and the goroutine has not read
  reader,    \* readLoop: "none", "read", "put", "ended"; messages is closed by its end
  held,      \* the message it puts into the channel
  messages,  \* the channel
  readErr,   \* does the other channel hold an error?
  closed,    \* the bridge has closed the connection
  pending,   \* messages set aside
  todo,      \* the events to emit
  deltaSeen, \* of the answer
  events,    \* the channel of events
  passed,    \* what has been put into it (history)
  said,      \* the deltas sent in the turn (history)
  inputs,    \* the turns begun with the user's input (history)
  cancelled  \* the context of the turn

connection == <<request, server, wire, said, inputs>>
loop == <<reader, held, messages, readErr>>
stream == <<pending, todo, deltaSeen, events, passed>>
vars == <<via, pc, connection, loop, closed, stream, cancelled>>

Message(what, n) == [what |-> what, n |-> n]
None == Message("none", 0)
Idle == [up |-> FALSE, replies |-> "none", turn |-> "no"]

Init ==
  /\ via = "stdio" /\ pc = "start"
  /\ request = "none" /\ server = Idle /\ wire = <<>> /\ said = 0 /\ inputs = 0
  /\ reader = "none" /\ held = None /\ messages = <<>> /\ readErr = FALSE /\ closed = FALSE
  /\ pending = <<>> /\ todo = <<>> /\ deltaSeen = FALSE /\ events = <<>> /\ passed = <<>>
  /\ cancelled = FALSE

-----------------------------------------------------------------------------
(* The start: executeViaAppServerTransport *)

\* shutdown: the connection is closed, the process killed and waited for.
Shutdown == closed' = TRUE /\ server' = [server EXCEPT !.up = FALSE]

\* sendJSON fails when the app server is gone.
Asks(kind) ==
  IF server.up
  THEN pc' = kind /\ request' = kind /\ UNCHANGED <<server, closed>>
  ELSE pc' = "failed" /\ Shutdown /\ UNCHANGED request

\* start: there is a process, and over the websocket it has said that it is ready.
Start ==
  /\ pc = "start" /\ via # "cli" /\ ~cancelled
  /\ server' = [Idle EXCEPT !.up = TRUE] /\ request' = "init" /\ wire' = <<>> /\ said' = 0
  /\ reader' = "read" /\ held' = None /\ messages' = <<>> /\ readErr' = FALSE /\ closed' = FALSE
  /\ pending' = <<>> /\ pc' = "init"
  /\ UNCHANGED <<via, inputs, todo, deltaSeen, events, passed, cancelled>>
StartFails ==
  /\ pc = "start" /\ via # "cli" /\ pc' = "failed"
  /\ UNCHANGED <<via, connection, loop, closed, stream, cancelled>>

\* The next transport.  What is left of the one before, the goroutine that reads, is
\* waited for here, unless it never ends.
Stuck == reader = "put" /\ Len(messages) = MsgCapacity
Fallback ==
  /\ pc = "failed" /\ (reader \in {"none", "ended"} \/ Stuck)
  /\ via' = IF via = "stdio" THEN "websocket" ELSE "cli"
  /\ pc' = IF via = "stdio" THEN "start" ELSE "ended"
  /\ reader' = "none" /\ UNCHANGED <<held, messages, readErr>>
  /\ UNCHANGED <<connection, closed, stream, cancelled>>

Waits == pc \in {"init", "thread", "turn"}
NextRequest == IF pc = "init" THEN "thread" ELSE "turn"

\* waitForResponse takes messages and errors as they come: a select.
TakeResponse ==
  /\ Waits /\ messages # <<>> /\ Head(messages).what = "response"
  /\ messages' = Tail(messages)
  /\ IF pc = "turn"
     THEN /\ pc' = "stream" /\ UNCHANGED <<request, server, closed>>
          /\ \/ /\ events' = Append(events, Message("session", 0))
                /\ passed' = Append(passed, Message("session", 0))
             \/ cancelled /\ UNCHANGED <<events, passed>>
     ELSE Asks(NextRequest) /\ UNCHANGED <<events, passed>>
  /\ UNCHANGED <<via, wire, said, inputs, reader, held, readErr, pending, todo, deltaSeen, cancelled>>
SetAside ==
  /\ Waits /\ messages # <<>> /\ Head(messages).what \notin {"response", "refusal"}
  /\ pending' = Append(pending, Head(messages)) /\ messages' = Tail(messages)
  /\ UNCHANGED <<via, pc, connection, reader, held, readErr, closed, todo, deltaSeen, events,
                 passed, cancelled>>
WaitFails ==
  /\ Waits
  /\ \/ /\ messages # <<>> /\ Head(messages).what = "refusal"
        /\ messages' = Tail(messages) /\ UNCHANGED readErr
     \/ messages = <<>> /\ reader = "ended" /\ UNCHANGED <<messages, readErr>>
     \/ readErr /\ readErr' = FALSE /\ UNCHANGED messages
  /\ pc' = "failed" /\ Shutdown
  /\ UNCHANGED <<via, request, wire, said, inputs, reader, held, stream, cancelled>>

-----------------------------------------------------------------------------
(* readLoop *)

Read ==
  /\ reader = "read" /\ wire # <<>> /\ wire' = Tail(wire)
  /\ held' = Head(wire) /\ reader' = "put"
  /\ UNCHANGED <<via, pc, request, server, said, inputs, messages, readErr, closed, stream,
                 cancelled>>
\* Nothing but room in the channel ends this.
Put ==
  /\ reader = "put" /\ Len(messages) < MsgCapacity
  /\ messages' = Append(messages, held) /\ held' = None /\ reader' = "read"
  /\ UNCHANGED <<via, pc, connection, readErr, closed, stream, cancelled>>
\* A closed connection, the end of what the app server has said, or five minutes without
\* a word: the error first, then the channel is closed.
ReadFails ==
  /\ reader = "read" /\ (closed \/ wire = <<>>)
  /\ readErr' = TRUE /\ reader' = "close"
  /\ UNCHANGED <<via, pc, connection, held, messages, closed, stream, cancelled>>
CloseMessages ==
  /\ reader = "close" /\ reader' = "ended"
  /\ UNCHANGED <<via, pc, connection, held, messages, readErr, closed, stream, cancelled>>

-----------------------------------------------------------------------------
(* streamEvents *)

\* parseCodexAppServerMessage
EventsOf(m) ==
  CASE m.what = "delta" -> <<m>>
    [] m.what = "item" -> IF deltaSeen THEN <<>> ELSE <<m>>
    [] m.what = "completed" -> <<Message("done", 0)>>
    [] m.what = "failed" -> <<Message("error", 0), Message("done", 0)>>
    [] OTHER -> <<>>
Parsed(m) == todo' = EventsOf(m) /\ deltaSeen' = (deltaSeen \/ m.what = "delta")

\* First what was set aside.
TakePending ==
  /\ pc = "stream" /\ todo = <<>> /\ pending # <<>>
  /\ Parsed(Head(pending)) /\ pending' = Tail(pending)
  /\ UNCHANGED <<via, pc, connection, loop, closed, events, passed, cancelled>>

\* Then a select: a message, the error, the closed channel, or the cancelled context.
Selects == pc = "stream" /\ todo = <<>> /\ pending = <<>>
Ends == pc' = "ended" /\ Shutdown
TakeMessage ==
  /\ Selects /\ messages # <<>> /\ Parsed(Head(messages)) /\ messages' = Tail(messages)
  /\ UNCHANGED <<via, pc, connection, reader, held, readErr, closed, pending, events, passed,
                 cancelled>>
TakeError ==
  /\ Selects /\ readErr /\ readErr' = FALSE
  /\ IF cancelled THEN Ends /\ UNCHANGED todo
     ELSE pc' = "report" /\ todo' = <<Message("error", 0)>> /\ UNCHANGED <<server, closed>>
  /\ UNCHANGED <<via, request, wire, said, inputs, reader, held, messages, pending, deltaSeen,
                 events, passed, cancelled>>
StreamEnds ==
  /\ Selects /\ (cancelled \/ (messages = <<>> /\ reader = "ended")) /\ Ends
  /\ UNCHANGED <<via, request, wire, said, inputs, loop, stream, cancelled>>

\* emitOrCancel.  Done, an error that is reported, and a cancelled context end the turn.
Emit ==
  /\ pc \in {"stream", "report"} /\ todo # <<>> /\ Len(events) < Capacity
  /\ events' = Append(events, Head(todo)) /\ passed' = Append(passed, Head(todo))
  /\ todo' = Tail(todo)
  /\ IF pc = "report" \/ Head(todo).what = "done" THEN Ends ELSE UNCHANGED <<pc, server, closed>>
  /\ UNCHANGED <<via, request, wire, said, inputs, loop, pending, deltaSeen, cancelled>>
EmitCancelled ==
  /\ pc \in {"stream", "report"} /\ todo # <<>> /\ cancelled /\ todo' = <<>> /\ Ends
  /\ UNCHANGED <<via, request, wire, said, inputs, loop, pending, deltaSeen, events, passed,
                 cancelled>>

Take ==
  /\ events # <<>> /\ events' = Tail(events)
  /\ UNCHANGED <<via, pc, connection, loop, closed, pending, todo, deltaSeen, passed, cancelled>>
Cancel ==
  /\ ~cancelled /\ pc # "ended" /\ cancelled' = TRUE
  /\ UNCHANGED <<via, pc, connection, loop, closed, stream>>

-----------------------------------------------------------------------------
(* The app server *)

Bridge == <<via, pc, loop, closed, stream, cancelled>>
Says(ms) == wire' = wire \o ms

\* It reads a request, and answers it later: its turn may have begun by then.
ServerReads ==
  /\ server.up /\ request # "none" /\ request' = "none"
  /\ server' = [server EXCEPT !.replies = request,
                              !.turn = IF request = "turn" THEN "runs" ELSE @]
  /\ inputs' = IF request = "turn" THEN inputs + 1 ELSE inputs
  /\ UNCHANGED <<wire, said, Bridge>>
ServerReplies(what) ==
  /\ server.up /\ server.replies # "none" /\ (what = "refusal" => said = 0)
  /\ server' = [server EXCEPT !.replies = "none", !.turn = IF what = "refusal" THEN "no" ELSE @]
  /\ Says(<<Message(what, 0)>>) /\ UNCHANGED <<request, said, inputs, Bridge>>
ServerDelta ==
  /\ server.up /\ server.turn = "runs" /\ said < Deltas
  /\ said' = said + 1 /\ Says(<<Message("delta", said + 1)>>)
  /\ UNCHANGED <<request, server, inputs, Bridge>>
ServerCompletes(what) ==
  /\ server.up /\ server.turn = "runs" /\ server' = [server EXCEPT !.turn = "over"]
  /\ Says(IF what = "completed" THEN <<Message("item", 0), Message(what, 0)>> ELSE <<Message(what, 0)>>)
  /\ UNCHANGED <<request, said, inputs, Bridge>>
\* Cancelled, it is killed.
ServerEnds ==
  /\ server.up /\ (Exits \/ cancelled) /\ server' = [server EXCEPT !.up = FALSE]
  /\ UNCHANGED <<request, wire, said, inputs, Bridge>>

Reader == Read \/ Put \/ ReadFails \/ CloseMessages
Turn ==
  \/ Start \/ StartFails \/ Fallback \/ TakeResponse \/ SetAside \/ WaitFails
  \/ TakePending \/ TakeMessage \/ TakeError \/ StreamEnds \/ Emit \/ EmitCancelled
Server ==
  \/ ServerReads \/ (\E what \in {"response", "refusal"} : ServerReplies(what)) \/ ServerDelta
  \/ (\E what \in {"completed", "failed"} : ServerCompletes(what)) \/ ServerEnds
Next == Reader \/ Turn \/ Take \/ Cancel \/ Server

\* Goroutines run on, and the deadline of five minutes goes off.  Nothing makes the app
\* server do anything.
Spec == Init /\ [][Next]_vars
Progress == Reader \/ Turn \/ Take
Fairness == WF_vars(Progress)

-----------------------------------------------------------------------------
(* Properties *)

TypeOK ==
  /\ via \in {"stdio", "websocket", "cli"}
  /\ pc \in {"start", "init", "thread", "turn", "failed", "stream", "report", "ended"}
  /\ request \in {"none", "init", "thread", "turn"} /\ said \in 0 .. Deltas
  /\ server \in [up : BOOLEAN, replies : {"none", "init", "thread", "turn"},
                 turn : {"no", "runs", "over"}]
  /\ reader \in {"none", "read", "put", "close", "ended"} /\ Len(messages) <= MsgCapacity
  /\ {readErr, closed, deltaSeen, cancelled} \subseteq BOOLEAN
  /\ Len(todo) <= 2 /\ Len(events) <= Capacity /\ IsSuffix(events, passed) /\ inputs \in 0 .. 2

Is(what) == \E i \in 1 .. Len(passed) : passed[i].what = what
Delta(i) == passed[i].what = "delta"

\* Deltas are passed on in their order and without a gap, although some were set aside and
\* others are read by then, and the whole text only if there were none.
AnswerOnce ==
  /\ \A i \in 1 .. Len(passed) :
       Delta(i) => \A k \in 1 .. passed[i].n - 1 : \E j \in 1 .. i - 1 : passed[j] = Message("delta", k)
  /\ \A i, j \in 1 .. Len(passed) : Delta(i) /\ Delta(j) /\ i < j => passed[i].n < passed[j].n
  /\ Is("item") => ~Is("delta")

\* A turn that is done has passed on everything that was said of it, and nothing else has
\* the app server been given to do.
DoneIsWhole ==
  Is("done") => \A k \in 1 .. said : \E i \in 1 .. Len(passed) : passed[i] = Message("delta", k)

\* An ended turn leaves no app server behind.
NoneLeft == pc = "ended" => ~server.up

\* The input is given to one app server.  (Violated: a turn whose response is lost, or
\* taken for lost because the error was selected first, is begun again.)
InputOnce == inputs <= 1

\* A turn that is not cancelled says so when it ends before it is done.  (Violated: the
\* error and the closed channel are there at once, and either may be selected.)
EndTold == pc = "ended" /\ via # "cli" /\ ~cancelled => Is("done") \/ Is("error")

\* Every turn ends, whatever the app server does, and the goroutine that reads with it,
\* unless the channel was full when it ended.
Over == pc = "ended" /\ (reader \in {"none", "ended"} \/ Stuck)
Ended == []<>Over
=============================================================================
