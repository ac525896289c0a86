---------------------------- MODULE WeiboConnection ----------------------------
(***************************************************************************)
(* The WebSocket connection to the weibo platform (platform/weibo): the    *)
(* goroutine that reads frames and reconnects, the one that closes the     *)
(* connection when the context is cancelled, Stop, and the duplicate check *)
(* between the frames and the channel of messages.                         *)
(*                                                                         *)
(* The server may break a connection, be silent, refuse a token or fail,   *)
(* and send a message again.  Time only exists for the duplicate check;    *)
(* waits (backoff, deadlines) end at any moment.  The heartbeat changes    *)
(* nothing here and is left out; replies are in StreamSender.              *)
(***************************************************************************)
EXTENDS Naturals, Sequences

CONSTANTS
  Messages,        \* messages of users, each with an id of its own
  Capacity,        \* the channel of messages, 100 in the code
  MaxAuthFailures, \* maxReconnectAuthFailures
  MaxReads,        \* reads of a failed connection before gorilla/websocket panics, 1000
  Window,          \* how long a message is a duplicate: 5 minutes
  GCAfter,         \* how long the old entries stay at least: 1 minute
  Sockets,         \* bound: connections, 1 .. Sockets
  Loads            \* bounds of what happens outside: one of these loads does

\* Messages the server sends, connections it breaks, reads that time out, attempts to
\* reconnect that fail, ticks of the clock.
Load == [{"sends", "breaks", "silences", "failures", "ticks"} -> Nat]

ConstantsAssumption ==
  /\ {Capacity, MaxAuthFailures, MaxReads, Sockets} \subseteq Nat \ {0}
  /\ {Window, GCAfter} \subseteq Nat
  /\ Loads \subseteq Load

Socket == 1 .. Sockets
Frames == Messages \cup {"other"}

VARIABLES
  conn,       \* p.conn: a socket, or 0
  socket,     \* the sockets: their state, what is on the wire, reads that failed
  cancelled,  \* the context of Start
  running,    \* p.running
  loop,       \* messageLoop: where it is, and the socket it reads
  failures,   \* authFailures
  closer,     \* the goroutine that waits for the context
  stop,       \* Stop
  dedup,      \* when a message was first seen, or 0
  lastGC,     \* lastDedupGC
  now,        \* the clock
  channel,    \* messageChan
  put,        \* what was put into the channel, and when (history)
  left        \* what is left of the load

vars == <<conn, socket, cancelled, running, loop, failures, closer, stop,
          dedup, lastGC, now, channel, put, left>>

NoSocket == [st |-> "none", wire |-> <<>>, reads |-> 0]
NewSocket == [NoSocket EXCEPT !.st = "up"]

\* The state Start leaves.  The clock starts late enough for the first clean-up.
Init ==
  /\ conn = 1
  /\ socket = [s \in Socket |-> IF s = 1 THEN NewSocket ELSE NoSocket]
  /\ cancelled = FALSE
  /\ running = TRUE
  /\ loop = [pc |-> "top", s |-> 0]
  /\ failures = 0
  /\ closer = "waits"
  /\ stop = "no"
  /\ dedup = [m \in Messages |-> 0]
  /\ lastGC = 0
  /\ now = GCAfter + 1
  /\ channel = <<>>
  /\ put = <<>>
  /\ left \in Loads

Spend(what) == left[what] > 0 /\ left' = [left EXCEPT ![what] = @ - 1]

---------------------------------------------------------------------------
(* The server, the clock, and the reader of the channel *)

Deduplication == <<dedup, lastGC, now, channel, put>>
Client == <<conn, cancelled, running, loop, failures, closer, stop>>

\* "other" is a frame without a message: connected, ping, pong, or none that is understood.
ServerSends(s, frame) ==
  /\ socket[s].st = "up" /\ Spend("sends")
  /\ socket' = [socket EXCEPT ![s].wire = Append(@, frame)]
  /\ UNCHANGED <<Client, Deduplication>>

ServerBreaks(s) ==
  /\ socket[s].st = "up" /\ Spend("breaks")
  /\ socket' = [socket EXCEPT ![s].st = "broken"]
  /\ UNCHANGED <<Client, Deduplication>>

Tick ==
  /\ Spend("ticks")
  /\ now' = now + 1
  /\ UNCHANGED <<Client, socket, dedup, lastGC, channel, put>>

TakeMessage ==
  /\ channel # <<>>
  /\ channel' = Tail(channel)
  /\ UNCHANGED <<Client, socket, dedup, lastGC, now, put, left>>

---------------------------------------------------------------------------
(* messageLoop *)

At(pc) == loop' = [loop EXCEPT !.pc = pc]
Apart == UNCHANGED <<running, closer, stop>>

Top ==
  /\ loop.pc = "top" /\ (cancelled \/ conn # 0)
  /\ loop' = IF cancelled THEN [loop EXCEPT !.pc = "done"] ELSE [pc |-> "read", s |-> conn]
  /\ UNCHANGED <<conn, socket, cancelled, failures, Deduplication, left>> /\ Apart

\* isDuplicate.
Duplicate(m) == dedup[m] # 0 /\ now - dedup[m] < Window
GCIsDue == now - lastGC > GCAfter
\* Mutant of Seen: the clean-up forgets what is older than its own interval.
SeenShortly(m) ==
  LET seen == [dedup EXCEPT ![m] = now] IN
    /\ dedup' = IF GCIsDue
                THEN [k \in Messages |-> IF seen[k] # 0 /\ now - seen[k] > GCAfter THEN 0 ELSE seen[k]]
                ELSE seen
    /\ lastGC' = IF GCIsDue THEN now ELSE lastGC

Seen(m) ==
  LET seen == [dedup EXCEPT ![m] = now] IN
    /\ dedup' = IF GCIsDue
                THEN [k \in Messages |-> IF seen[k] # 0 /\ now - seen[k] > Window THEN 0 ELSE seen[k]]
                ELSE seen
    /\ lastGC' = IF GCIsDue THEN now ELSE lastGC

Readable == socket[loop.s].reads = 0 /\ socket[loop.s].st # "closed" /\ socket[loop.s].wire # <<>>
\* A message is seen, and put into the channel unless that is full.
Handled(frame) ==
  /\ frame \in Messages /\ ~Duplicate(frame)
  /\ Seen(frame)
  /\ IF Len(channel) < Capacity
     THEN channel' = Append(channel, frame) /\ put' = Append(put, <<frame, now>>)
     ELSE UNCHANGED <<channel, put>>

ReadFrame ==
  LET s == loop.s IN
    /\ loop.pc = "read" /\ Readable
    /\ \/ Handled(Head(socket[s].wire))
       \/ /\ Head(socket[s].wire) \in Messages => Duplicate(Head(socket[s].wire))
          /\ UNCHANGED <<dedup, lastGC, channel, put>>
    /\ socket' = [socket EXCEPT ![s].wire = Tail(@)]
    /\ At("top")
    /\ UNCHANGED <<conn, cancelled, failures, now, left>> /\ Apart

\* A connection that failed once fails at every read, until the library panics.
ReadFails ==
  LET s == loop.s IN
    /\ loop.pc = "read" /\ ~Readable
    /\ IF socket[s].reads > 0 \/ socket[s].st # "up" THEN UNCHANGED left ELSE Spend("silences")
    /\ socket' = [socket EXCEPT ![s].reads = @ + 1]
    /\ At(IF socket[s].reads + 1 < MaxReads THEN "refresh" ELSE "panicked")
    /\ UNCHANGED <<conn, cancelled, failures, Deduplication>> /\ Apart

\* What follows a failed attempt; err is "refused" for one of the
\* authentication errors, which are counted as long as no other comes between.
Failed(err) ==
  LET count == IF err = "refused" THEN failures + 1 ELSE 0
      givesUp == count >= MaxAuthFailures IN
    /\ failures' = count
    /\ cancelled' = (cancelled \/ givesUp)
    /\ At(IF givesUp THEN "done" ELSE "backoff")

\* reconnect: the token first.
Refresh ==
  /\ loop.pc = "refresh" /\ ~cancelled
  /\ At("connect")
  /\ UNCHANGED <<conn, socket, cancelled, failures, Deduplication, left>> /\ Apart

RefreshFails(err) ==
  /\ loop.pc = "refresh"
  /\ IF cancelled THEN err = "other" /\ UNCHANGED left ELSE Spend("failures")
  /\ Failed(err)
  /\ UNCHANGED <<conn, socket, Deduplication>> /\ Apart

\* connect holds connMutex while it dials, which the context does not stop.
Connect ==
  /\ loop.pc = "connect"
  /\ At("dial")
  /\ UNCHANGED <<conn, socket, cancelled, failures, Deduplication, left>> /\ Apart

Locked == loop.pc = "dial"

Fresh(s) == socket[s].st = "none" /\ \A t \in 1 .. s - 1 : socket[t].st # "none"

Dial(s) ==
  /\ loop.pc = "dial" /\ Fresh(s)
  /\ conn' = s
  /\ socket' = [socket EXCEPT ![s] = NewSocket]
  /\ failures' = 0
  /\ At("top")
  /\ UNCHANGED <<cancelled, Deduplication, left>> /\ Apart

DialFails ==
  /\ loop.pc = "dial" /\ Spend("failures")
  /\ Failed("other")
  /\ UNCHANGED <<conn, socket, Deduplication>> /\ Apart

Backoff ==
  /\ loop.pc = "backoff"
  /\ At(IF cancelled THEN "done" ELSE "top")
  /\ UNCHANGED <<conn, socket, cancelled, failures, Deduplication, left>> /\ Apart

Loop ==
  \/ Top \/ ReadFrame \/ ReadFails \/ Refresh \/ Connect \/ DialFails \/ Backoff
  \/ \E err \in {"refused", "other"} : RefreshFails(err)
  \/ \E s \in Socket : Dial(s)

---------------------------------------------------------------------------
(* Closing *)

CloseConnection ==
  /\ ~Locked
  /\ socket' = IF conn = 0 THEN socket ELSE [socket EXCEPT ![conn].st = "closed"]
  /\ conn' = 0
  /\ running' = FALSE

\* The server process shuts down: the context Start was given is cancelled,
\* and Stop called later.
Shutdown ==
  /\ cancelled' = TRUE
  /\ UNCHANGED <<conn, socket, loop, failures, Deduplication, left>> /\ Apart

Closer ==
  /\ cancelled /\ closer = "waits"
  /\ CloseConnection
  /\ closer' = "done"
  /\ UNCHANGED <<cancelled, loop, failures, stop, Deduplication, left>>

Stop ==
  /\ stop = "no"
  /\ cancelled' = TRUE
  /\ stop' = "closing"
  /\ UNCHANGED <<conn, socket, running, loop, failures, closer, Deduplication, left>>

StopCloses ==
  /\ stop = "closing"
  /\ CloseConnection
  /\ stop' = "waiting"
  /\ UNCHANGED <<cancelled, loop, failures, closer, Deduplication, left>>

StopReturns ==
  /\ stop = "waiting" /\ closer = "done" /\ loop.pc = "done"
  /\ stop' = "returned"
  /\ UNCHANGED <<conn, socket, cancelled, running, loop, failures, closer, Deduplication, left>>

Stopping == Closer \/ StopCloses \/ StopReturns

Next ==
  \/ \E s \in Socket : ServerBreaks(s) \/ \E frame \in Frames : ServerSends(s, frame)
  \/ Tick \/ TakeMessage \/ Loop \/ Shutdown \/ Stop \/ Stopping

\* The goroutines run; a dial and an HTTP request come to an end.  The bounds make every
\* run come to a halt, so that one condition is as strong as one for each goroutine.
Progress == Loop \/ Stopping
Fairness == WF_vars(Progress)

Spec == Init /\ [][Next]_vars /\ Fairness

---------------------------------------------------------------------------
(* Properties *)

\* The types of the variables.
TypeOK ==
  /\ conn \in 0 .. Sockets
  /\ socket \in [Socket -> [st : {"none", "up", "broken", "closed"}, wire : Seq(Frames),
                            reads : 0 .. MaxReads]]
  /\ cancelled \in BOOLEAN /\ running \in BOOLEAN
  /\ loop \in [pc : {"top", "read", "refresh", "connect", "dial", "backoff", "done", "panicked"},
               s : 0 .. Sockets]
  /\ failures \in 0 .. MaxAuthFailures
  /\ closer \in {"waits", "done"} /\ stop \in {"no", "closing", "waiting", "returned"}
  /\ now \in Nat /\ dedup \in [Messages -> 0 .. now] /\ lastGC \in 0 .. now
  /\ channel \in Seq(Messages) /\ Len(channel) <= Capacity
  /\ put \in Seq(Messages \X (0 .. now)) /\ left \in Load

\* isDuplicate: the program gets no message twice within the window, whatever
\* connections it comes on and whatever the clean-up has forgotten.
PutOnce ==
  \A i, j \in 1 .. Len(put) :
    i < j /\ put[i][1] = put[j][1] => put[j][2] - put[i][2] >= Window

\* isDuplicate: what is refused as a duplicate has been put into the channel
\* before.
DuplicateWasPut ==
  \A m \in Messages : Duplicate(m) => \E i \in 1 .. Len(put) : put[i][1] = m

\* Stop: when it has returned there is no connection left.
StopDisconnects == stop = "returned" => \A s \in Socket : socket[s].st # "up"

\* The connection is there for the replies until the platform is stopped, or
\* has given up.
OpenUntilStopped == stop = "no" /\ failures < MaxAuthFailures => conn # 0

\* messageLoop: however long the server is away, the program goes on trying.
NeverPanics == loop.pc # "panicked"

\* messageLoop: when the server no longer fails, the program is connected
\* again, unless it was stopped or has given up.
Reconnects ==
  <>[](cancelled \/ (conn # 0 /\ socket[conn].st = "up" /\ socket[conn].reads = 0))

\* Stop: it returns, whatever the goroutines it waits for are doing.
StopEnds == []<>(stop \in {"no", "returned"})
=============================================================================
