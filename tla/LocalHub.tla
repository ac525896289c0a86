------------------------------- MODULE LocalHub -------------------------------
(***************************************************************************)
(* The local platform (platform/local): the connection to the hub, its     *)
(* supervisor and read loop, the requests that wait for an ack, the reply  *)
(* streams, and the messages of a conversation on their way to the         *)
(* dispatcher.                                                             *)
(*                                                                         *)
(* One conversation.  Left out: registration (a request like any other),   *)
(* commands (a message without an agent), the approval table and the       *)
(* cancel hooks, which nothing in the program uses, the delay between      *)
(* attempts, and pings, which only make a broken connection be noticed.    *)
(***************************************************************************)
EXTENDS Naturals, Sequences

CONSTANTS
  Replies,   \* reply streams
  Agents,    \* a user may choose
  Capacity,  \* of messageChan, 100 in the code
  Conns,     \* bound: connections
  Loads      \* what may happen: one of these loads does

\* Messages of users; deltas of a reply; may the dispatcher itself reply, as for a failed
\* /btw; does the ack timer go off?
Load == [messages : Nat, deltas : Nat, replies : BOOLEAN, timer : BOOLEAN]

ConstantsAssumption == Conns \in Nat /\ Capacity \in Nat \ {0} /\ Loads \subseteq Load

VARIABLES
  conn,        \* Platform.conn: a connection, 0 if there is none
  sock,        \* connection -> [state, out, in]
  sup,         \* the supervisor: "connect", "dialled", "read", "put", "lost", "fail", "ended"
  using,       \* the connection it has dialled or reads
  incoming,    \* the message it is putting into the channel
  pending,     \* Platform.pending: the replies whose start waits for an ack
  answer,      \* their channels: "none", "ack", "lost"
  reply,       \* reply -> [pc, sent]
  hub,         \* reply -> [started, got, done]: what the hub has been told
  left,        \* what is left of the load
  channel,     \* messageChan
  bound,       \* the agent of the active session
  dispatcher,  \* "takes", or the reply it waits for
  routed,      \* the last message: the agent that was chosen, the one that is asked (history)
  stop         \* Platform.Stop: "no", "cancelled", "closed", "returned"

supVars == <<sup, using, incoming>>
requests == <<pending, answer, reply>>
session == <<channel, bound, dispatcher, routed>>
vars == <<conn, sock, supVars, requests, hub, left, session, stop>>

Cs == 1 .. Conns
NoSocket == [state |-> "none", out |-> <<>>, in |-> <<>>]
\* Frames to the hub, and from it.
Told == [what : {"start", "delta", "finish"}, reply : Replies, n : Nat]
Heard == [what : {"ack"}, reply : Replies, n : {0}] \cup [what : {"message"}, reply : {"none"}, n : Agents]
Frame(what, s, n) == [what |-> what, reply |-> s, n |-> n]

Init ==
  /\ conn = 0 /\ sock = [c \in Cs |-> NoSocket]
  /\ sup = "connect" /\ using = 0 /\ incoming = "none"
  /\ pending = {} /\ answer = [s \in Replies |-> "none"]
  /\ reply = [s \in Replies |-> [pc |-> "new", sent |-> 0]]
  /\ hub = [s \in Replies |-> [started |-> FALSE, got |-> <<>>, done |-> FALSE]]
  /\ left \in Loads
  /\ channel = <<>> /\ bound = "none" /\ dispatcher = "takes"
  /\ routed = [chosen |-> "none", asked |-> "none"]
  /\ stop = "no"

Done == stop # "no"  \* the context of the platform

---------------------------------------------------------------------------
(* The connection *)

\* closeConn.
Closing ==
  /\ conn' = 0
  /\ sock' = IF conn = 0 THEN sock ELSE [sock EXCEPT ![conn] = [NoSocket EXCEPT !.state = "closed"]]

Dial ==
  /\ sup = "connect" /\ ~Done
  /\ \E c \in Cs :
       /\ sock[c].state = "none" /\ \A d \in 1 .. c - 1 : sock[d].state # "none"
       /\ sock' = [sock EXCEPT ![c].state = "open"] /\ using' = c
  /\ sup' = "dialled"
  /\ UNCHANGED <<conn, incoming, requests, hub, left, session, stop>>

Install ==
  /\ sup = "dialled" /\ sup' = "read" /\ conn' = using
  /\ UNCHANGED <<sock, using, incoming, requests, hub, left, session, stop>>

SupervisorEnds ==
  /\ sup = "connect" /\ Done /\ sup' = "ended"
  /\ UNCHANGED <<conn, sock, using, incoming, requests, hub, left, session, stop>>

\* Mutant of Resolve: whichever request waits.
ResolveAny(s) ==
  \E r \in pending \cup {s} :
    answer' = IF r \in pending /\ answer[r] = "none" THEN [answer EXCEPT ![r] = "ack"] ELSE answer

\* resolvePending: the channel holds one answer, and has it when it is taken.
Resolve(s) == answer' = IF s \in pending /\ answer[s] = "none" THEN [answer EXCEPT ![s] = "ack"] ELSE answer

ReadAck ==
  /\ sup = "read" /\ ~Done /\ sock[using].in # <<>> /\ Head(sock[using].in).what = "ack"
  /\ Resolve(Head(sock[using].in).reply)
  /\ sock' = [sock EXCEPT ![using].in = Tail(@)]
  /\ UNCHANGED <<conn, supVars, pending, reply, hub, left, session, stop>>

\* handleUserMessage: the session is bound before the message is put.
ReadMessage ==
  /\ sup = "read" /\ ~Done /\ sock[using].in # <<>> /\ Head(sock[using].in).what = "message"
  /\ bound' = Head(sock[using].in).n /\ incoming' = bound'
  /\ sock' = [sock EXCEPT ![using].in = Tail(@)]
  /\ sup' = "put"
  /\ UNCHANGED <<conn, using, requests, hub, left, channel, dispatcher, routed, stop>>

\* Mutant of Put: the channel grows.
PutAnyway ==
  /\ sup = "put" /\ sup' = "read"
  /\ channel' = Append(channel, incoming)
  /\ UNCHANGED <<conn, sock, using, incoming, requests, hub, left, bound, dispatcher, routed, stop>>

Put ==
  /\ sup = "put" /\ sup' = "read"
  /\ \/ Len(channel) < Capacity /\ channel' = Append(channel, incoming)
     \/ Done /\ UNCHANGED channel
  /\ UNCHANGED <<conn, sock, using, incoming, requests, hub, left, bound, dispatcher, routed, stop>>

ReadFails ==
  /\ sup = "read" /\ (Done \/ sock[using].state \in {"broken", "closed"})
  /\ sup' = "lost"
  /\ UNCHANGED <<conn, sock, using, incoming, requests, hub, left, session, stop>>

Lost ==
  /\ sup = "lost" /\ sup' = "fail"
  /\ Closing
  /\ UNCHANGED <<using, incoming, requests, hub, left, session, stop>>

\* Mutant of FailAll: the requests are forgotten and not answered.
FailAllForgets ==
  /\ sup = "fail" /\ sup' = "connect"
  /\ pending' = {}
  /\ UNCHANGED <<conn, sock, using, incoming, answer, reply, hub, left, session, stop>>

FailAll ==
  /\ sup = "fail" /\ sup' = "connect"
  /\ answer' = [s \in Replies |-> IF s \in pending /\ answer[s] = "none" THEN "lost" ELSE answer[s]]
  /\ pending' = {}
  /\ UNCHANGED <<conn, sock, using, incoming, reply, hub, left, session, stop>>

---------------------------------------------------------------------------
(* Replies *)

At(s, from, to) == reply[s].pc = from /\ reply' = [reply EXCEPT ![s].pc = to]

\* writeFrame: a broken connection may take the frame and lose it.
Writes(frame) ==
  /\ conn # 0 /\ sock[conn].state \in {"open", "broken"}
  /\ sock' = IF sock[conn].state = "open" THEN [sock EXCEPT ![conn].out = Append(@, frame)] ELSE sock
Cannot == (IF conn = 0 THEN TRUE ELSE sock[conn].state # "open") /\ UNCHANGED sock

\* OpenReplyStream and the first chunk: the request is entered.
Begin(s) ==
  /\ conn # 0 /\ At(s, "new", "entered")
  /\ pending' = pending \cup {s}
  /\ UNCHANGED <<conn, sock, supVars, answer, hub, left, session, stop>>

BeginFails(s) ==
  /\ conn = 0 /\ At(s, "new", "failed")
  /\ UNCHANGED <<conn, sock, supVars, pending, answer, hub, left, session, stop>>

Start(s) ==
  /\ \/ At(s, "entered", "waits") /\ Writes(Frame("start", s, 0)) /\ UNCHANGED pending
     \/ At(s, "entered", "failed") /\ Cannot /\ pending' = pending \ {s}
  /\ UNCHANGED <<conn, supVars, answer, hub, left, session, stop>>

Answered(s) ==
  /\ answer[s] # "none"
  /\ At(s, "waits", IF answer[s] = "ack" THEN "open" ELSE "failed")
  /\ pending' = pending \ {s}
  /\ UNCHANGED <<conn, sock, supVars, answer, hub, left, session, stop>>

\* The ack timer goes off, or the context of the turn is cancelled.
GivesUp(s) ==
  /\ left.timer /\ At(s, "waits", "failed")
  /\ pending' = pending \ {s}
  /\ UNCHANGED <<conn, sock, supVars, answer, hub, left, session, stop>>

Delta(s) ==
  /\ reply[s].pc = "open" /\ reply[s].sent < left.deltas
  /\ \/ Writes(Frame("delta", s, reply[s].sent + 1)) /\ reply' = [reply EXCEPT ![s].sent = @ + 1]
     \/ Cannot /\ reply' = [reply EXCEPT ![s].pc = "failed"]
  /\ UNCHANGED <<conn, supVars, pending, answer, hub, left, session, stop>>

Finish(s) ==
  /\ \/ At(s, "open", "closed") /\ Writes(Frame("finish", s, 0))
     \/ At(s, "open", "failed") /\ Cannot
  /\ UNCHANGED <<conn, supVars, pending, answer, hub, left, session, stop>>

---------------------------------------------------------------------------
(* The hub, and the network *)

HubReads(c) ==
  /\ sock[c].state = "open" /\ sock[c].out # <<>>
  /\ LET frame == Head(sock[c].out)
         ack == IF frame.what = "start" THEN <<Frame("ack", frame.reply, 0)>> ELSE <<>>
         is(what) == frame.what = what
     IN /\ hub' = [hub EXCEPT ![frame.reply] =
             [started |-> @.started \/ is("start"), done |-> @.done \/ is("finish"),
              got |-> IF is("delta") THEN Append(@.got, frame.n) ELSE @.got]]
        /\ sock' = [sock EXCEPT ![c].out = Tail(@), ![c].in = @ \o ack]
  /\ UNCHANGED <<conn, supVars, requests, left, session, stop>>

HubSends ==
  /\ left.messages > 0 /\ left' = [left EXCEPT !.messages = @ - 1]
  /\ \E c \in Cs, a \in Agents :
       sock[c].state = "open" /\ sock' = [sock EXCEPT ![c].in = Append(@, Frame("message", "none", a))]
  /\ UNCHANGED <<conn, supVars, requests, hub, session, stop>>

\* What is on its way is lost.
Breaks ==
  /\ \E c \in Cs : /\ sock[c].state = "open"
                   /\ sock' = [sock EXCEPT ![c] = [NoSocket EXCEPT !.state = "broken"]]
  /\ UNCHANGED <<conn, supVars, requests, hub, left, session, stop>>

---------------------------------------------------------------------------
(* The dispatcher, and Stop *)

Take ==
  /\ dispatcher = "takes" /\ channel # <<>> /\ ~Done
  /\ routed' = [chosen |-> Head(channel), asked |-> bound]
  /\ channel' = Tail(channel)
  /\ dispatcher' \in {"takes"} \cup (IF left.replies THEN {s \in Replies : reply[s].pc = "new"} ELSE {})
  /\ UNCHANGED <<conn, sock, supVars, requests, hub, left, bound, stop>>

Replied(s) ==
  /\ dispatcher = s /\ reply[s].pc \in {"closed", "failed"}
  /\ dispatcher' = "takes"
  /\ UNCHANGED <<conn, sock, supVars, requests, hub, left, channel, bound, routed, stop>>

Stop ==
  /\ stop = "no" /\ stop' = "cancelled"
  /\ UNCHANGED <<conn, sock, supVars, requests, hub, left, session>>

StopCloses ==
  /\ stop = "cancelled" /\ stop' = "closed"
  /\ Closing
  /\ UNCHANGED <<supVars, requests, hub, left, session>>

\* Mutant of StopReturns: it does not wait for the supervisor.
StopReturnsAtOnce ==
  /\ stop = "closed" /\ stop' = "returned"
  /\ UNCHANGED <<conn, sock, supVars, requests, hub, left, session>>

StopReturns ==
  /\ stop = "closed" /\ sup = "ended" /\ stop' = "returned"
  /\ UNCHANGED <<conn, sock, supVars, requests, hub, left, session>>

Supervisor ==
  \/ Dial \/ Install \/ SupervisorEnds \/ ReadAck \/ ReadMessage \/ Put \/ ReadFails \/ Lost \/ FailAll

ReplyStep(s) ==
  \/ Begin(s) \/ BeginFails(s) \/ Start(s) \/ Answered(s) \/ GivesUp(s) \/ Delta(s) \/ Finish(s)

Next ==
  \/ Supervisor
  \/ \E s \in Replies : ReplyStep(s) \/ Replied(s)
  \/ \E c \in Cs : HubReads(c)
  \/ HubSends \/ Breaks \/ Take \/ Stop \/ StopCloses \/ StopReturns

\* Goroutines run, the hub answers, a stopped connection is closed, and the dispatcher
\* takes messages and finishes a reply of its own.  (Every run comes to a halt.)
Progress ==
  \/ Supervisor \/ StopCloses \/ StopReturns \/ Take
  \/ \E s \in Replies :
       \/ Start(s) \/ Answered(s) \/ Replied(s)
       \/ dispatcher = s /\ (Begin(s) \/ BeginFails(s) \/ Finish(s))
  \/ \E c \in Cs : HubReads(c)
Fairness == WF_vars(Progress)

Spec == Init /\ [][Next]_vars /\ Fairness

---------------------------------------------------------------------------
(* Properties *)

\* The types of the variables.
TypeOK ==
  /\ conn \in 0 .. Conns /\ using \in 0 .. Conns
  /\ sock \in [Cs -> [state : {"none", "open", "broken", "closed"}, out : Seq(Told), in : Seq(Heard)]]
  /\ sup \in {"connect", "dialled", "read", "put", "lost", "fail", "ended"}
  /\ incoming \in Agents \cup {"none"} /\ bound \in Agents \cup {"none"}
  /\ pending \subseteq Replies /\ answer \in [Replies -> {"none", "ack", "lost"}]
  /\ reply \in [Replies -> [pc : {"new", "entered", "waits", "open", "closed", "failed"}, sent : Nat]]
  /\ hub \in [Replies -> [started : BOOLEAN, got : Seq(Nat), done : BOOLEAN]]
  /\ left \in Load
  /\ channel \in Seq(Agents) /\ Len(channel) <= Capacity
  /\ dispatcher \in {"takes"} \cup Replies
  /\ routed \in [chosen : Agents \cup {"none"}, asked : Agents \cup {"none"}]
  /\ stop \in {"no", "cancelled", "closed", "returned"}

\* A request that is acked, or whose connection is lost, does not wait for its
\* timer: the read loop is there to deliver the ack (platform/local/client.go:320).
RequestAnswered == []<>(\A s \in Replies : reply[s].pc # "waits")

\* When Stop has returned no connection is open and nothing is put into the
\* channel it has closed, even when it met a connection being made.
StopDisconnects ==
  stop = "returned" => sup # "put" /\ \A c \in Cs : sock[c].state # "open"

\* Stop returns, whoever waits for whom.
StopEnds == []<>(stop \in {"no", "returned"})

\* What the hub is told of a reply comes in order, on however many connections it comes: no
\* text before the start, which is acked to its own request; the deltas ascending; nothing
\* after the end.
ToldInOrder ==
  \A s \in Replies :
    /\ reply[s].pc \in {"open", "closed"} \/ hub[s].got # <<>> \/ hub[s].done => hub[s].started
    /\ \A i, j \in 1 .. Len(hub[s].got) : i < j => hub[s].got[i] < hub[s].got[j]
    /\ hub[s].done => \A c \in Cs : \A i \in 1 .. Len(sock[c].out) : sock[c].out[i].reply # s

\* A reply the hub takes for complete has all its text (platform/local/message.go:60).
DoneIsComplete ==
  \A s \in Replies : hub[s].done => Len(hub[s].got) = reply[s].sent

\* A message is answered by the agent the user has chosen for it (platform/local/message.go:191).
ChosenAgentAsked == routed.asked = routed.chosen
=============================================================================
