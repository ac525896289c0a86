----------------------------- MODULE HermesSession -----------------------------
(***************************************************************************)
(* A live hermes session (agent/hermes.go): the start, with the replay of  *)
(* a resumed session, prompts and their responses, which end a turn, the   *)
(* goroutine that reads, and the close.  hermes is external: it runs one   *)
(* prompt at a time, and takes one that begins with /steer as a word to    *)
(* the prompt it runs.                                                     *)
(*                                                                         *)
(* Left out: the pending approval, which works as that of ClaudeSession,   *)
(* and tool events, which are updates like the chunks of an answer.        *)
(***************************************************************************)
EXTENDS Naturals, Sequences, FiniteSets

CONSTANTS
  Resume,    \* is a session resumed?
  Prompts,   \* bound: inputs sent, those of turns and of /btw
  Steers,    \* may there be a /btw, and an input while a prompt runs?
  Chunks,    \* bound: chunks of an answer
  Replays,   \* bound: updates replayed
  Late,      \* may a replay come when the drain has ended?
  Silent,    \* may hermes leave a request unanswered?
  Exits,     \* may it exit by itself?
  Orphans,   \* may it leave a process behind that keeps its output open?
  Closers,   \* goroutines that close the session
  Capacity   \* of events, 128 in the code

ConstantsAssumption ==
  /\ {Resume, Steers, Late, Silent, Exits, Orphans} \subseteq BOOLEAN
  /\ {Prompts, Chunks, Replays} \subseteq Nat /\ Capacity \in Nat \ {0}

VARIABLES
  start,      \* "init", "session", "drain", "alive", "failed"
  response,   \* has the channel of its request a response?
  pending,    \* is the request registered?
  suppress,   \* suppressReplay
  promptIDs,  \* prompts that wait for their response
  sent,       \* the number of prompts
  sender,     \* goroutine -> what it is about to send: "none", "prompt", "steer"
  toHermes, fromHermes,
  hermes,     \* [running, chunks, replays]: the prompt it runs, what it has said
  proc,       \* "up", "gone", "reaped"
  orphan,     \* another process has its output open
  output,     \* the pipe from it: FALSE once cmd.Wait has closed it
  reader,     \* readLoop: "read", "emit", "wait", "ended"
  emitting, events,
  ended,      \* the prompts a Done event was emitted for (history)
  replayed,   \* replayed updates that were emitted (history)
  stderr,     \* does the goroutine that discards stderr run?
  alive, cancelled,
  closer      \* goroutine -> [pc, first]: the one that found the session alive

starting == <<start, response, pending, suppress>>
prompts == <<promptIDs, sent, sender>>
wire == <<toHermes, fromHermes>>
cli == <<hermes, proc, orphan, output>>
readerVars == <<reader, emitting, events, ended, replayed>>
vars == <<starting, prompts, wire, cli, readerVars, stderr, alive, cancelled, closer>>

Prompt == 1 .. Prompts
Senders == {"turn", "btw"}
Message(what, n) == [what |-> what, n |-> n]
Idle == hermes.running = 0

Init ==
  /\ start = "init" /\ response = FALSE /\ pending = TRUE /\ suppress = Resume
  /\ promptIDs = {} /\ sent = 0 /\ sender = [w \in Senders |-> "none"]
  /\ toHermes = <<Message("init", 0)>> /\ fromHermes = <<>>
  /\ hermes = [running |-> 0, chunks |-> 0, replays |-> 0]
  /\ proc = "up" /\ orphan = FALSE /\ output = TRUE
  /\ reader = "read" /\ emitting = <<>> /\ events = <<>> /\ ended = {} /\ replayed = 0
  /\ stderr = TRUE /\ alive = TRUE /\ cancelled = FALSE
  /\ closer = [c \in Closers |-> [pc |-> "idle", first |-> FALSE]]

-----------------------------------------------------------------------------
(* The start *)

Others == <<prompts, fromHermes, hermes, orphan, output, readerVars, stderr, closer>>
Killed == IF proc = "up" THEN "gone" ELSE proc
Terminating == start' = "failed" /\ alive' = FALSE /\ cancelled' = TRUE /\ proc' = Killed
Going == UNCHANGED <<alive, cancelled, proc>>
\* request: a response, the end of the reader, or thirty seconds.  A start that fails
\* closes the session.
StartFails ==
  /\ start \in {"init", "session"} /\ pending' = FALSE /\ Terminating
  /\ UNCHANGED <<response, suppress, toHermes, Others>>
StartGoesOn ==
  /\ start \in {"init", "session"} /\ response /\ response' = FALSE
  /\ IF start = "init"
     THEN start' = "session" /\ pending' = TRUE /\ toHermes' = Append(toHermes, Message("session", 0))
     ELSE /\ start' = (IF Resume THEN "drain" ELSE "alive") /\ UNCHANGED <<pending, toHermes>>
  /\ Going /\ UNCHANGED <<suppress, Others>>
\* waitForReplayDrain: until nothing was dropped for a while, or for two seconds.
\* Late is what becomes of the replay after that.
DrainEnds ==
  /\ start = "drain"
  /\ \/ reader = "ended" /\ Terminating
     \/ /\ Late \/ (fromHermes = <<>> /\ (hermes.replays = Replays \/ proc # "up"))
        /\ start' = "alive" /\ Going
  /\ suppress' = FALSE /\ UNCHANGED <<response, pending, toHermes, Others>>
\* Mutant of Suppressed: the replay ends with the response.
SuppressedNot == suppress /\ start # "drain"
Suppressed == suppress

-----------------------------------------------------------------------------
(* Prompts *)

\* The bound, which counts what is about to be sent.
More == sent < Prompts /\ (sent + 1 < Prompts \/ \A w \in Senders : sender[w] = "none")
\* Send: while a prompt waits for its response, the input goes to that one.  Whether one
\* does is looked up before the input is tracked itself.
Send(w) ==
  /\ start = "alive" /\ alive /\ sender[w] = "none" /\ More
  /\ Steers \/ (w = "turn" /\ promptIDs = {})
  /\ sender' = [sender EXCEPT ![w] = IF promptIDs = {} THEN "prompt" ELSE "steer"]
  /\ UNCHANGED <<promptIDs, sent, starting, wire, cli, readerVars, stderr, alive, cancelled, closer>>
Track(w) ==
  /\ sender[w] # "none" /\ sent < Prompts /\ sent' = sent + 1
  /\ sender' = [sender EXCEPT ![w] = "none"]
  /\ IF proc = "up"
     THEN /\ promptIDs' = promptIDs \cup {sent + 1}
          /\ toHermes' = Append(toHermes, Message(sender[w], sent + 1))
     ELSE UNCHANGED <<promptIDs, toHermes>>
  /\ UNCHANGED <<starting, fromHermes, cli, readerVars, stderr, alive, cancelled, closer>>

-----------------------------------------------------------------------------
(* The goroutine that reads *)

\* handleACPLine: the events of a line.  A response is that of the request, or that of
\* a prompt, which ends the turn.
EventsOf(m) ==
  CASE m.what = "replay" -> IF Suppressed THEN <<>> ELSE <<m>>
    [] m.what = "chunk" -> <<m>>
    [] m.what = "ended" -> IF m.n \in promptIDs THEN <<m>> ELSE <<>>
    [] OTHER -> <<>>
Read ==
  /\ reader = "read" /\ output /\ fromHermes # <<>> /\ fromHermes' = Tail(fromHermes)
  /\ LET m == Head(fromHermes) IN
       /\ IF m.what = "response"
          THEN pending' = FALSE /\ response' = (response \/ pending)
          ELSE UNCHANGED <<pending, response>>
       /\ promptIDs' = IF m.what = "ended" THEN promptIDs \ {m.n} ELSE promptIDs
       /\ emitting' = EventsOf(m)
       /\ reader' = IF EventsOf(m) = <<>> THEN "read" ELSE "emit"
  /\ UNCHANGED <<start, suppress, sent, sender, toHermes, cli, events, ended, replayed, stderr, alive,
                 cancelled, closer>>
\* The output ends with hermes, or when cmd.Wait closes it.
ReadEnds ==
  /\ reader = "read" /\ (~output \/ (fromHermes = <<>> /\ proc # "up" /\ ~orphan))
  /\ reader' = "wait"
  /\ UNCHANGED <<starting, prompts, wire, cli, emitting, events, ended, replayed, stderr, alive,
                 cancelled, closer>>

Emitted(e) ==
  /\ ended' = IF e.what = "ended" THEN ended \cup {e.n} ELSE ended
  /\ replayed' = IF e.what = "replay" THEN replayed + 1 ELSE replayed
Emit ==
  /\ reader = "emit" /\ Len(events) < Capacity
  /\ events' = Append(events, Head(emitting)) /\ Emitted(Head(emitting))
  /\ emitting' = <<>> /\ reader' = "read"
  /\ UNCHANGED <<starting, prompts, wire, cli, stderr, alive, cancelled, closer>>
EmitCancelled ==
  /\ reader = "emit" /\ cancelled /\ emitting' = <<>> /\ reader' = "read"
  /\ UNCHANGED <<starting, prompts, wire, cli, events, ended, replayed, stderr, alive, cancelled,
                 closer>>
Take ==
  /\ events # <<>> /\ events' = Tail(events)
  /\ UNCHANGED <<starting, prompts, wire, cli, reader, emitting, ended, replayed, stderr, alive,
                 cancelled, closer>>

\* waitProcess, once: it closes the pipes from hermes.
Reap == proc # "up" /\ proc' = "reaped" /\ output' = FALSE
ReaderEnds ==
  /\ reader = "wait" /\ Reap /\ reader' = "ended" /\ alive' = FALSE
  /\ UNCHANGED <<starting, prompts, wire, hermes, orphan, emitting, events, ended, replayed,
                 stderr, cancelled, closer>>
\* The goroutine that discards stderr ends with the pipe.
StderrEnds ==
  /\ stderr /\ (~output \/ (proc # "up" /\ ~orphan)) /\ stderr' = FALSE
  /\ UNCHANGED <<starting, prompts, wire, cli, readerVars, alive, cancelled, closer>>

-----------------------------------------------------------------------------
(* Close *)

Rest == <<starting, prompts, wire, hermes, orphan, readerVars, stderr>>
\* The context is cancelled, and hermes killed.  Of several calls only the first works.
Close(c) ==
  /\ closer[c].pc = "idle" /\ start = "alive"
  /\ closer' = [closer EXCEPT ![c] = [pc |-> IF alive THEN "first" ELSE "returned", first |-> alive]]
  /\ IF alive
     THEN cancelled' = TRUE /\ proc' = Killed
     ELSE UNCHANGED <<cancelled, proc>>
  /\ alive' = FALSE /\ UNCHANGED <<Rest, output>>
Move(c, from, to) == closer[c].pc = from /\ closer' = [closer EXCEPT ![c].pc = to]
\* Three seconds, and it waits for hermes itself, which closes the pipes.
CloseWaits(c) ==
  /\ Move(c, "first", "join") /\ reader # "ended" /\ Reap
  /\ UNCHANGED <<Rest, alive, cancelled>>
CloseSees(c) ==
  /\ Move(c, "first", "join") /\ reader = "ended" /\ UNCHANGED <<Rest, proc, output, alive, cancelled>>
Joined == reader = "ended" /\ ~stderr
Return(c) ==
  /\ Move(c, "join", "returned") /\ Joined /\ UNCHANGED <<Rest, proc, output, alive, cancelled>>

-----------------------------------------------------------------------------
(* hermes *)

Bridge == <<starting, prompts, readerVars, stderr, alive, cancelled, closer>>
Say(m) == fromHermes' = Append(fromHermes, m)
Answers ==
  /\ proc = "up" /\ toHermes # <<>> /\ toHermes' = Tail(toHermes)
  /\ LET m == Head(toHermes) IN
       \/ m.what \in {"init", "session"} /\ Say(Message("response", 0)) /\ UNCHANGED hermes
       \/ m.what = "prompt" /\ Idle /\ hermes' = [hermes EXCEPT !.running = m.n, !.chunks = 0] /\ UNCHANGED fromHermes
       \/ m.what = "steer" /\ Say(Message("ended", m.n)) /\ UNCHANGED hermes
       \/ Silent /\ m.what \in {"init", "session"} /\ UNCHANGED <<hermes, fromHermes>>
  /\ UNCHANGED <<proc, orphan, output, Bridge>>
\* What was said before is replayed after the answer to session/resume.
Replay ==
  /\ proc = "up" /\ Resume /\ hermes.replays < Replays /\ start \in {"session", "drain", "alive"}
  /\ ~(\E i \in 1 .. Len(toHermes) : toHermes[i].what = "session")
  /\ hermes' = [hermes EXCEPT !.replays = @ + 1] /\ Say(Message("replay", 0))
  /\ UNCHANGED <<toHermes, proc, orphan, output, Bridge>>
Chunk ==
  /\ proc = "up" /\ ~Idle /\ hermes.chunks < Chunks
  /\ hermes' = [hermes EXCEPT !.chunks = @ + 1] /\ Say(Message("chunk", hermes.running))
  /\ UNCHANGED <<toHermes, proc, orphan, output, Bridge>>
PromptEnds ==
  /\ proc = "up" /\ ~Idle /\ hermes' = [hermes EXCEPT !.running = 0]
  /\ Say(Message("ended", hermes.running))
  /\ UNCHANGED <<toHermes, proc, orphan, output, Bridge>>
Exit ==
  /\ Exits /\ proc = "up" /\ proc' = "gone" /\ orphan' \in {FALSE, Orphans}
  /\ UNCHANGED <<wire, hermes, output, Bridge>>

Reader == Read \/ ReadEnds \/ Emit \/ EmitCancelled \/ ReaderEnds
Closer(c) == Close(c) \/ CloseWaits(c) \/ CloseSees(c) \/ Return(c)
Next ==
  \/ StartFails \/ StartGoesOn \/ DrainEnds \/ (\E w \in Senders : Send(w) \/ Track(w)) \/ Reader \/ Take \/ StderrEnds
  \/ (\E c \in Closers : Closer(c)) \/ Answers \/ Replay \/ Chunk \/ PromptEnds \/ Exit

Spec == Init /\ [][Next]_vars
\* Goroutines run on and timers go off.  Nothing makes hermes answer, somebody take
\* events or close the session; the replay ends.
Progress ==
  \/ StartFails \/ StartGoesOn \/ DrainEnds \/ Replay
  \/ Read \/ ReadEnds \/ Emit \/ EmitCancelled \/ ReaderEnds \/ StderrEnds
  \/ \E c \in Closers : CloseWaits(c) \/ CloseSees(c) \/ Return(c)
Fairness == WF_vars(Progress)

LiveSpec == Spec /\ Fairness

-----------------------------------------------------------------------------
(* Properties *)

TypeOK ==
  /\ start \in {"init", "session", "drain", "alive", "failed"}
  /\ {response, pending, suppress, orphan, output, stderr, alive, cancelled} \subseteq BOOLEAN
  /\ promptIDs \subseteq Prompt /\ sent \in 0 .. Prompts
  /\ sender \in [Senders -> {"none", "prompt", "steer"}]
  /\ hermes \in [running : 0 .. Prompts, chunks : 0 .. Chunks, replays : 0 .. Replays]
  /\ proc \in {"up", "gone", "reaped"} /\ reader \in {"read", "emit", "wait", "ended"}
  /\ Len(events) <= Capacity /\ ended \subseteq Prompt /\ replayed \in Nat
  /\ closer \in [Closers -> [pc : {"idle", "first", "join", "returned"}, first : BOOLEAN]]

\* A Done event, which ends the turn, does not come while an earlier prompt is still
\* being answered.
DoneIsTheEnd ==
  \A i \in 1 .. Len(emitting) :
    emitting[i].what = "ended" => \A p \in promptIDs : p > emitting[i].n

\* What hermes replays of a resumed session is not taken for an answer, if it has come by the
\* time the drain ends.
ReplayHidden == ~Late => replayed = 0

\* When Close returns the goroutines of the session have ended.
CloseJoins == \A c \in Closers : closer[c].pc = "returned" => Joined
\* At least the call that did the work.
FirstCloseJoins == \A c \in Closers : closer[c].pc = "returned" /\ closer[c].first => Joined

\* The start comes to an end, whatever hermes does.
Started == start \in {"alive", "failed"}
StartEnds == []<>Started

\* So does Close, although nobody takes events any more and a process that hermes has
\* left behind keeps its output open.
CloseReturns == []<>(\A c \in Closers : closer[c].pc \in {"idle", "returned"})
=============================================================================
