----------------------------- MODULE CodexSession -----------------------------
(***************************************************************************)
(* A live codex session (agent/codex_interactive_session.go, and the       *)
(* parsing in agent/codex_appserver.go): requests to the app server, the   *)
(* goroutine that reads what it says, the approval it waits for, and the   *)
(* close.  The app server is external: it answers a request, and runs one  *)
(* turn at a time, an input that arrives meanwhile joining the turn.       *)
(*                                                                         *)
(* Two callers: "turn", the goroutine of the user's turn, which starts the *)
(* session, sends, and takes the events, and "btw", the injection of       *)
(* /btw, which only sends.  Interrupt is left out: nothing calls it.       *)
(***************************************************************************)
EXTENDS Naturals, Sequences

CONSTANTS
  Sends,     \* bound: inputs
  Injections,\* bound: those of them that /btw makes
  Deltas,    \* bound: deltas of an answer
  Asks,      \* bound: approvals the app server asks for in the session
  AtOnce,    \* may it ask for one while it waits for another?
  Leaving,   \* may a turn be left before the app server has ended it?
  Exits,     \* may the app server exit by itself?
  Quiet,     \* may five minutes go by without a message?
  Capacity   \* of events, 128 in the code

ConstantsAssumption ==
  /\ {Sends, Injections, Deltas, Asks} \subseteq Nat /\ Capacity \in Nat \ {0}
  /\ {AtOnce, Leaving, Exits, Quiet} \subseteq BOOLEAN

VARIABLES
  transport,   \* "stdio", then "websocket"
  call,        \* caller -> [pc, kind]: its request
  sent,        \* caller -> the number of inputs it has sent
  pendingResp, \* the callers whose request waits for a response
  response,    \* caller -> what its channel holds: 0, or the turn (of "init" and "thread": 1)
  toServer, fromServer,  \* messages in transit
  server,      \* [up, turn, running, deltas, asked, asks]
  turnID,      \* 0, or a turn
  deltaSeen,   \* the turns of whose answer a delta has been seen
  slot,        \* pendingApproval: 0, or an approval
  reader,      \* readLoop: "none", "read", "emit", "ended"
  emitting,    \* the events it puts into the channel
  events,      \* the channel, which is closed when the reader has ended
  state,       \* "starting", "alive", "closing" and "closed", or "failed"
  out,         \* turn -> what has been emitted of its answer (history)
  shown,       \* the approval the user has been shown and not answered
  decided,     \* what the user decided: approvals they were shown (history)
  decisions,   \* what the app server was told: a sequence of approvals (history)
  lastRead,    \* the last of turn/started and turn/completed read (history)
  told,        \* how the reading ended: "none", "silent", "error" (history)
  early        \* a turn was left before its end (history)

callVars == <<call, sent, pendingResp, response>>
wire == <<toServer, fromServer>>
approvals == <<slot, shown, decided>>
history == <<lastRead, told, early>>
vars == <<transport, callVars, wire, server, turnID, deltaSeen, reader, emitting, events,
          state, out, approvals, decisions, history>>

Callers == {"turn", "btw"}
Turns == Sends
Turn == 1 .. Turns
Ask == 1 .. Asks
More == sent["turn"] + sent["btw"] < Sends  \* inputs
Refusal == Turns + 1  \* a response that is an error
Idle == [pc |-> "idle", kind |-> "none"]
Down == [up |-> FALSE, turn |-> 0, running |-> FALSE, deltas |-> 0, asked |-> {}, asks |-> 0]
Message(what, n) == [what |-> what, n |-> n]
Request(kind, c) == [what |-> kind, c |-> c]  \* of a caller
Cancelled == state \in {"closing", "closed", "failed"}
Open == state \in {"starting", "alive"}

Init ==
  /\ transport = "stdio" /\ state = "starting"
  /\ call = [c \in Callers |-> IF c = "turn" THEN [pc |-> "write", kind |-> "init"] ELSE Idle]
  /\ sent = [c \in Callers |-> 0] /\ pendingResp = {} /\ response = [c \in Callers |-> 0]
  /\ toServer = <<>> /\ fromServer = <<>> /\ server = [Down EXCEPT !.up = TRUE]
  /\ turnID = 0 /\ deltaSeen = {} /\ slot = 0
  /\ reader = "read" /\ emitting = <<>> /\ events = <<>>
  /\ out = [t \in Turn |-> [deltas |-> 0, whole |-> 0]]
  /\ shown = 0 /\ decided = {} /\ decisions = <<>>
  /\ lastRead = "none" /\ told = "none" /\ early = FALSE

-----------------------------------------------------------------------------
(* Requests *)

\* Send begins: what was seen of the answers so far is forgotten.
Begin(c) ==
  /\ call' = [call EXCEPT ![c] = [pc |-> "write", kind |-> "turn"]]
  /\ sent' = [sent EXCEPT ![c] = @ + 1] /\ deltaSeen' = {}
Send ==
  /\ state = "alive" /\ call["turn"].pc = "idle" /\ shown = 0
  /\ More /\ Begin("turn")
  /\ UNCHANGED <<transport, pendingResp, response, wire, server, turnID, reader,
                 emitting, events, state, out, approvals, decisions, history>>
\* injectByTheWay: not while an approval waits for the user.
Inject ==
  /\ state = "alive" /\ call["btw"].pc = "idle" /\ shown = 0
  /\ More /\ sent["btw"] < Injections /\ Begin("btw")
  /\ UNCHANGED <<transport, pendingResp, response, wire, server, turnID, reader, emitting,
                 events, state, out, approvals, decisions, history>>

\* The pipe takes what is written as long as it is open on both sides.
CanWrite == Open /\ server.up

\* requestWithID registers its channel, and writes.
Write(c) ==
  /\ call[c].pc = "write" /\ CanWrite
  /\ pendingResp' = pendingResp \cup {c}
  /\ toServer' = Append(toServer, Request(call[c].kind, c))
  /\ call' = [call EXCEPT ![c].pc = "wait"]
  /\ UNCHANGED <<transport, sent, response, fromServer, server, turnID, deltaSeen, reader,
                 emitting, events, state, out, approvals, decisions, history>>

\* What the failure of a request leads to: a failed start closes this process and
\* tries the next transport, a failed turn or injection removes the session.
Failed(c) ==
  /\ pendingResp' = pendingResp \ {c} /\ response' = [response EXCEPT ![c] = 0]
  /\ call' = [call EXCEPT ![c] = Idle]
  /\ state' = IF state = "starting" THEN "failed" ELSE IF state = "alive" THEN "closing" ELSE state
  /\ server' = [server EXCEPT !.up = FALSE]
WriteFails(c) ==
  /\ call[c].pc = "write" /\ ~CanWrite /\ Failed(c)
  /\ UNCHANGED <<transport, sent, wire, turnID, deltaSeen, reader, emitting, events, out,
                 approvals, decisions, history>>
\* The only other way out of the wait: the session's context, which Close cancels.
WaitCancelled(c) ==
  /\ call[c].pc = "wait" /\ Cancelled /\ Failed(c)
  /\ UNCHANGED <<transport, sent, wire, turnID, deltaSeen, reader, emitting, events, out,
                 approvals, decisions, history>>

\* The response is taken; what Send does with it is a step of its own.
TakeResponse(c) ==
  /\ call[c].pc = "wait" /\ response[c] \notin {0, Refusal}
  /\ call' = [call EXCEPT ![c].pc = "store"]
  /\ UNCHANGED <<transport, sent, pendingResp, response, wire, server, turnID, deltaSeen,
                 reader, emitting, events, state, out, approvals, decisions, history>>
TakeRefusal(c) ==
  /\ call[c].pc = "wait" /\ response[c] = Refusal /\ Failed(c)
  /\ UNCHANGED <<transport, sent, wire, turnID, deltaSeen, reader, emitting, events, out,
                 approvals, decisions, history>>
\* initialize, ensureThread, and the end of Send.
Store(c) ==
  /\ call[c].pc = "store"
  /\ CASE call[c].kind = "init" ->
            call' = [call EXCEPT ![c] = [pc |-> "write", kind |-> "thread"]] /\ UNCHANGED <<state, turnID>>
       [] call[c].kind = "thread" ->
            /\ call' = [call EXCEPT ![c] = Idle] /\ UNCHANGED turnID
            /\ state' = IF state = "starting" THEN "alive" ELSE state
       [] call[c].kind = "turn" ->
            /\ call' = [call EXCEPT ![c].pc = IF c = "turn" THEN "drain" ELSE "idle"]
            /\ turnID' = response[c] /\ UNCHANGED state
  /\ response' = [response EXCEPT ![c] = 0]
  /\ UNCHANGED <<transport, sent, pendingResp, wire, server, deltaSeen, reader, emitting,
                 events, out, approvals, decisions, history>>

\* StartSession: the websocket when stdio failed.  Everything begins anew.
Fallback ==
  /\ state = "failed" /\ transport = "stdio" /\ reader = "ended"
  /\ transport' = "websocket" /\ state' = "starting"
  /\ call' = [call EXCEPT !["turn"] = [pc |-> "write", kind |-> "init"]]
  /\ toServer' = <<>> /\ fromServer' = <<>> /\ server' = [Down EXCEPT !.up = TRUE]
  /\ reader' = "read" /\ emitting' = <<>> /\ events' = <<>> /\ told' = "none"
  /\ UNCHANGED <<sent, pendingResp, response, turnID, deltaSeen, out, approvals, decisions,
                 lastRead, early>>

-----------------------------------------------------------------------------
(* The goroutine that reads *)

\* parseCodexAppServerMessage: the whole text counts only if no delta was seen.
EventsOf(m) ==
  CASE m.what = "delta" -> <<m>>
    [] m.what = "item" -> IF m.n \in deltaSeen THEN <<>> ELSE <<m>>
    [] m.what \in {"ask", "completed"} -> <<m>>
    [] OTHER -> <<>>

\* parseApprovalRequest: one slot.
Slot(m) == IF m.what = "ask" THEN m.n ELSE slot

\* Mutant: the channel of the request is forgotten before it gets the response.
DeliverNot(m) ==
  /\ pendingResp' = pendingResp \ {m.c} /\ UNCHANGED <<response, turnID, deltaSeen, slot, lastRead, emitting, reader>>
\* A response goes to the channel of its request, if it still waits.
Deliver(m) ==
  /\ pendingResp' = pendingResp \ {m.c}
  /\ response' = IF m.c \in pendingResp THEN [response EXCEPT ![m.c] = m.n] ELSE response
  /\ UNCHANGED <<turnID, deltaSeen, slot, lastRead, emitting, reader>>

Notify(m) ==
  /\ slot' = Slot(m)
  /\ turnID' = CASE m.what = "started" -> m.n [] m.what = "completed" -> 0 [] OTHER -> turnID
  /\ lastRead' = IF m.what \in {"started", "completed"} THEN m.what ELSE lastRead
  /\ deltaSeen' = IF m.what = "delta" THEN deltaSeen \cup {m.n} ELSE deltaSeen
  /\ emitting' = EventsOf(m)
  /\ reader' = IF EventsOf(m) = <<>> THEN "read" ELSE "emit"
  /\ UNCHANGED <<pendingResp, response>>

Read ==
  /\ reader = "read" /\ Open /\ fromServer # <<>>
  /\ fromServer' = Tail(fromServer)
  /\ IF Head(fromServer).what = "response" THEN Deliver(Head(fromServer)) ELSE Notify(Head(fromServer))
  /\ UNCHANGED <<transport, call, sent, toServer, server, events, state, out, shown, decided,
                 decisions, told, early>>

\* shouldIgnoreCodexAppServerReadError: an end between turns is not worth a word, but
\* the deadline always is.
Ignored(why) == why = "eof" /\ turnID = 0
\* A read fails once the session is cancelled, at the end of the server's output, and
\* at the deadline of five minutes.
ReadFails(why) ==
  /\ reader = "read" /\ ~Cancelled
  /\ IF why = "eof" THEN ~server.up /\ fromServer = <<>> ELSE Quiet /\ fromServer = <<>>
  /\ IF Ignored(why)
     THEN reader' = "ended" /\ told' = "silent" /\ UNCHANGED emitting
     ELSE reader' = "emit" /\ told' = "error" /\ emitting' = <<Message("error", 0)>>
  /\ UNCHANGED <<transport, callVars, wire, server, turnID, deltaSeen, events, state, out,
                 approvals, decisions, lastRead, early>>
ReadCancelled ==
  /\ reader = "read" /\ Cancelled /\ reader' = "ended"
  /\ UNCHANGED <<transport, callVars, wire, server, turnID, deltaSeen, emitting, events, state,
                 out, approvals, decisions, history>>

\* emitOrCancel.  After an error the loop returns.
Recorded(e) ==
  CASE e.what = "delta" -> [out EXCEPT ![e.n].deltas = @ + 1]
    [] e.what = "item" -> [out EXCEPT ![e.n].whole = @ + 1]
    [] OTHER -> out
\* Mutant: the channel has no bound.
EmitAlways ==
  /\ reader = "emit"
  /\ events' = Append(events, Head(emitting)) /\ out' = Recorded(Head(emitting))
  /\ emitting' = Tail(emitting)
  /\ reader' = IF told = "error" THEN "ended" ELSE IF Tail(emitting) = <<>> THEN "read" ELSE "emit"
  /\ UNCHANGED <<transport, callVars, wire, server, turnID, deltaSeen, state, approvals, decisions,
                 history>>
Emit ==
  /\ reader = "emit" /\ Len(events) < Capacity
  /\ events' = Append(events, Head(emitting)) /\ out' = Recorded(Head(emitting))
  /\ emitting' = Tail(emitting)
  /\ reader' = IF told = "error" THEN "ended" ELSE IF Tail(emitting) = <<>> THEN "read" ELSE "emit"
  /\ UNCHANGED <<transport, callVars, wire, server, turnID, deltaSeen, state, approvals, decisions,
                 history>>
EmitCancelled ==
  /\ reader = "emit" /\ Cancelled
  /\ emitting' = <<>> /\ reader' = IF told = "error" THEN "ended" ELSE "read"
  /\ UNCHANGED <<transport, callVars, wire, server, turnID, deltaSeen, events, state, out,
                 approvals, decisions, history>>

-----------------------------------------------------------------------------
(* The turn that takes the events, the user, and the close *)

\* Events are taken by a turn, and thrown away before the next one sends.
Take ==
  /\ call["turn"].pc \in {"idle", "drain"} /\ state = "alive" /\ shown = 0 /\ events # <<>>
  /\ LET e == Head(events)  draining == call["turn"].pc = "drain" IN
       /\ call' = IF draining /\ e.what \in {"completed", "error"} THEN [call EXCEPT !["turn"] = Idle] ELSE call
       /\ shown' = IF draining /\ e.what = "ask" THEN e.n ELSE shown
  /\ events' = Tail(events)
  /\ UNCHANGED <<transport, sent, pendingResp, response, wire, server, turnID, deltaSeen,
                 reader, emitting, state, out, slot, decided, decisions, history>>

\* The turn is left in the middle: its context is cancelled, or nothing has come for twelve
\* seconds after a done that was not its own.  The app server works on.  (A turn that no input
\* follows need not be left.)
Leave ==
  /\ Leaving /\ call["turn"].pc = "drain" /\ state = "alive" /\ shown = 0 /\ More
  /\ call' = [call EXCEPT !["turn"] = Idle] /\ early' = TRUE
  /\ UNCHANGED <<transport, sent, pendingResp, response, wire, server, turnID, deltaSeen, reader,
                 emitting, events, state, out, approvals, decisions, lastRead, told>>

\* RespondApproval: the slot is emptied, then the decision is written.
Respond ==
  /\ shown # 0 /\ shown' = 0 /\ decided' = decided \cup {shown} /\ slot' = 0
  /\ IF slot # 0 /\ CanWrite
     THEN toServer' = Append(toServer, Message("decision", slot))
     ELSE UNCHANGED toServer
  /\ UNCHANGED <<transport, callVars, fromServer, server, turnID, deltaSeen, reader, emitting,
                 events, state, out, decisions, history>>

\* Close: the context is cancelled, the pipe closed, the process killed.  The router
\* closes a session whose channel is closed, and any session when it stops.
Close ==
  /\ state = "alive"
  /\ state' = "closing" /\ server' = [server EXCEPT !.up = FALSE]
  /\ UNCHANGED <<transport, callVars, wire, turnID, deltaSeen, reader, emitting, events, out,
                 approvals, decisions, history>>
CloseEnds ==
  /\ state = "closing" /\ reader = "ended" /\ state' = "closed"
  /\ UNCHANGED <<transport, callVars, wire, server, turnID, deltaSeen, reader, emitting, events,
                 out, approvals, decisions, history>>
\* The turn finds the channel closed.
DrainEnds ==
  /\ call["turn"].pc = "drain" /\ reader = "ended" /\ events = <<>>
  /\ call' = [call EXCEPT !["turn"] = Idle]
  /\ state' = IF state = "alive" THEN "closing" ELSE state
  /\ server' = [server EXCEPT !.up = FALSE]
  /\ UNCHANGED <<transport, sent, pendingResp, response, wire, turnID, deltaSeen, reader,
                 emitting, events, out, approvals, decisions, history>>

-----------------------------------------------------------------------------
(* The app server *)

Say(ms) == fromServer' = fromServer \o ms
Reply(c, n) == [what |-> "response", c |-> c, n |-> n]
Others == <<transport, callVars, turnID, deltaSeen, reader, emitting, events, state, out,
            approvals, history>>
ServerTakes ==
  /\ server.up /\ toServer # <<>>
  /\ LET m == Head(toServer) IN
       CASE m.what = "decision" ->
              /\ decisions' = Append(decisions, m.n)
              /\ server' = [server EXCEPT !.asked = @ \ {m.n}] /\ UNCHANGED fromServer
         [] m.what \in {"init", "thread"} ->
              Say(<<Reply(m.c, 1)>>) /\ UNCHANGED <<server, decisions>>
         [] m.what = "turn" /\ server.running ->
              Say(<<Reply(m.c, server.turn)>>) /\ UNCHANGED <<server, decisions>>
         [] m.what = "turn" /\ ~server.running ->
              /\ server' = [server EXCEPT !.turn = @ + 1, !.running = TRUE, !.deltas = 0]
              /\ Say(<<Reply(m.c, server.turn + 1), Message("started", server.turn + 1)>>)
              /\ UNCHANGED decisions
  /\ toServer' = Tail(toServer) /\ UNCHANGED Others
ServerRefuses ==
  /\ server.up /\ toServer # <<>> /\ Head(toServer).what # "decision"
  /\ Say(<<Reply(Head(toServer).c, Refusal)>>) /\ toServer' = Tail(toServer)
  /\ UNCHANGED <<server, decisions, Others>>
ServerDelta ==
  /\ server.up /\ server.running /\ server.deltas < Deltas
  /\ server' = [server EXCEPT !.deltas = @ + 1] /\ Say(<<Message("delta", server.turn)>>)
  /\ UNCHANGED <<toServer, decisions, Others>>
ServerAsks ==
  /\ server.up /\ server.running /\ server.asks < Asks /\ (AtOnce \/ server.asked = {})
  /\ server' = [server EXCEPT !.asks = @ + 1, !.asked = @ \cup {server.asks + 1}]
  /\ Say(<<Message("ask", server.asks + 1)>>) /\ UNCHANGED <<toServer, decisions, Others>>
\* The answer is complete, and the turn with it.
ServerCompletes ==
  /\ server.up /\ server.running /\ server.asked = {}
  /\ server' = [server EXCEPT !.running = FALSE]
  /\ Say(<<Message("item", server.turn), Message("completed", server.turn)>>)
  /\ UNCHANGED <<toServer, decisions, Others>>
ServerExits ==
  /\ Exits /\ server.up /\ server' = [server EXCEPT !.up = FALSE]
  /\ UNCHANGED <<wire, decisions, Others>>

Caller(c) == Write(c) \/ WriteFails(c) \/ WaitCancelled(c) \/ TakeResponse(c) \/ TakeRefusal(c) \/ Store(c)
Reader == Read \/ (\E why \in {"eof", "quiet"} : ReadFails(why)) \/ ReadCancelled \/ Emit \/ EmitCancelled
Server == ServerTakes \/ ServerRefuses \/ ServerDelta \/ ServerAsks \/ ServerCompletes
Next ==
  \/ Send \/ Inject \/ (\E c \in Callers : Caller(c)) \/ Fallback
  \/ Reader \/ Take \/ Leave \/ Respond \/ Close \/ CloseEnds \/ DrainEnds \/ Server \/ ServerExits

\* Goroutines run on, the app server serves while it is up, and a read that can only
\* fail does.  Nothing makes a user decide, or the router close a session.
Spec == Init /\ [][Next]_vars
Progress ==
  \/ \E c \in Callers : Caller(c)
  \/ Read \/ ReadFails("eof") \/ ReadCancelled \/ Emit \/ EmitCancelled \/ Take \/ DrainEnds
  \/ Fallback \/ CloseEnds \/ ServerTakes \/ ServerRefuses
Fairness == WF_vars(Progress)

LiveSpec == Spec /\ Fairness

-----------------------------------------------------------------------------
(* Properties *)

TypeOK ==
  /\ transport \in {"stdio", "websocket"}
  /\ call \in [Callers -> [pc : {"idle", "write", "wait", "store", "drain"},
                           kind : {"none", "init", "thread", "turn"}]]
  /\ sent["turn"] \in 0 .. Sends /\ sent["btw"] \in 0 .. Injections /\ pendingResp \subseteq Callers
  /\ response \in [Callers -> 0 .. Turns + 1]
  /\ server \in [up : BOOLEAN, turn : 0 .. Turns, running : BOOLEAN, deltas : 0 .. Deltas,
                 asked : SUBSET Ask, asks : 0 .. Asks]
  /\ turnID \in 0 .. Turns /\ deltaSeen \subseteq Turn /\ {slot, shown} \subseteq 0 .. Asks
  /\ reader \in {"read", "emit", "ended"} /\ Len(events) <= Capacity
  /\ state \in {"starting", "alive", "closing", "closed", "failed"}
  /\ decided \subseteq Ask /\ told \in {"none", "silent", "error"}

\* An answer is passed on once: as its deltas or, if there were none, as a whole
\* (deltaSeen).  What is sent while an answer is under way, by /btw or after a turn that was
\* left, empties deltaSeen (line 117): then its text comes as its deltas and as a whole.
AnswerOnce ==
  sent["btw"] = 0 /\ ~early => \A t \in Turn : out[t].whole + (IF out[t].deltas > 0 THEN 1 ELSE 0) <= 1

\* An app server that goes in the middle of a turn is reported: the last thing read
\* of the turn was its start.
ActiveEndTold == told = "silent" => lastRead # "started"

\* One that goes between turns is not.
IdleEndSilent == told = "error" => lastRead = "started"

\* The app server is told of a decision on an approval only if that is the one the user
\* decided on (the slot of the pending approval).
DecisionsMeant == \A i \in 1 .. Len(decisions) : decisions[i] \in decided

\* Nobody waits for ever: a request ends, with a response or an error, as long as the
\* session is read from, and Close ends it in any case, and the reader.  (When the reader
\* has ended nothing but a Close ends a request, agent/codex_interactive_session.go:319.)
WaitsEnd ==
  []<>(/\ \A c \in Callers : call[c].pc = "wait" => reader = "ended" /\ state # "closing"
       /\ state = "closing" => reader = "ended")
=============================================================================
