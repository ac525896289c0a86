--------------------------- MODULE PlatformsProofs ---------------------------
(***************************************************************************)
(* Proofs about Platforms: what it promises, for any loads.  Each platform *)
(* has an inductive invariant of its own, WeiboInv and HubInv.             *)
(***************************************************************************)
EXTENDS Platforms, Sequences, SequenceTheorems, TLAPS

-----------------------------------------------------------------------------
(* Weibo: the duplicate check *)

\* What was put into the channel is remembered, or was put so long ago that it counts as new
\* again.
Remembered ==
  /\ now > 0
  /\ \A i \in 1 .. Len(put) :
       LET m == put[i][1]
           t == put[i][2]
       IN IF dedup[m] = 0 THEN now - t >= Window ELSE t <= dedup[m]

\* The loop reads a connection that has been made, and stops at its limits.
LoopInv ==
  /\ loop.pc = "read" => loop.s \in Weibo!Socket
  /\ loop.pc # "panicked" => \A s \in Weibo!Socket : socket[s].reads < MaxReads
  /\ loop.pc # "done" => failures < MaxAuthFailures

WeiboInv == Weibo!TypeOK /\ LoopInv /\ Remembered /\ Weibo!PutOnce

-----------------------------------------------------------------------------
(* The local hub: connections *)

Held == {"read", "put", "lost"}

\* A connection that is open is the one the supervisor has dialled or holds.
Connected ==
  /\ sup \in Held \cup {"dialled"} => using \in Hub!Cs
  /\ hubConn # 0 => hubConn = using /\ sup \in Held
  /\ \A c \in Hub!Cs : sock[c].state = "open" =>
       c = using /\ (sup = "dialled" \/ (sup \in Held /\ hubConn = using))
  /\ \A c \in Hub!Cs : sock[c].state # "open" => sock[c].out = <<>> /\ sock[c].in = <<>>
  /\ sup = "put" => incoming \in Agents
  /\ hubStop = "returned" => sup = "ended"

(* ... and what is said of a reply on them *)

\* What the hub has been told (h) of a reply (r), and whether its start is acked (a).
HeardOf(h, r, a) ==
  /\ a = "ack" \/ r.pc \in {"open", "closed"} \/ h.got # <<>> \/ h.done => h.started
  /\ r.pc \in {"new", "entered"} => ~h.started
  /\ h.done => r.pc = "closed"
  /\ \A i \in 1 .. Len(h.got) : h.got[i] <= r.sent
  /\ \A i, j \in 1 .. Len(h.got) : i < j => h.got[i] < h.got[j]

\* What is on its way to the hub (q) goes on from there.
OnItsWay(q, s, h, r) ==
  \A i \in 1 .. Len(q) : q[i].reply = s =>
    /\ r.pc \notin {"new", "entered"} /\ ~h.done
    /\ q[i].what = "start" => ~h.started /\ \A j \in 1 .. Len(q) : q[j].reply = s => j = i
    /\ q[i].what # "start" => h.started
    /\ q[i].what = "delta" =>
         /\ q[i].n <= r.sent
         /\ \A k \in 1 .. Len(h.got) : h.got[k] < q[i].n
         /\ \A j \in 1 .. Len(q) : j > i /\ q[j].reply = s /\ q[j].what = "delta" => q[i].n < q[j].n
    /\ q[i].what = "finish" => r.pc = "closed" /\ \A j \in 1 .. Len(q) : j > i => q[j].reply # s

Telling ==
  /\ \A s \in Replies : HeardOf(hub[s], reply[s], answer[s])
  /\ \A s \in Replies, c \in Hub!Cs : OnItsWay(sock[c].out, s, hub[s], reply[s])
  /\ \A c \in Hub!Cs : \A i \in 1 .. Len(sock[c].in) :
       sock[c].in[i].what = "ack" => hub[sock[c].in[i].reply].started

HubInv == Hub!TypeOK /\ Connected /\ Telling

\* The invariant of both.
Inv == part \in {"weibo", "local"} /\ WeiboInv /\ HubInv

-----------------------------------------------------------------------------
(* The connection to Weibo *)

WeiboKeeps == Weibo!TypeOK /\ LoopInv

SocketFun == [Weibo!Socket -> [st : {"none", "up", "broken", "closed"}, wire : Seq(Weibo!Frames), reads : 0 .. MaxReads]]

\* The constants are numbers.
LEMMA WeiboNumbers ==
  ASSUME Weibo!ConstantsAssumption
  PROVE  /\ Capacity \in Nat /\ Capacity > 0 /\ MaxAuthFailures \in Nat /\ MaxAuthFailures > 0
         /\ MaxReads \in Nat /\ MaxReads > 0 /\ Sockets \in Nat /\ Sockets > 0
         /\ Window \in Nat /\ GCAfter \in Nat /\ WeiboLoads \subseteq Weibo!Load
BY DEF Weibo!ConstantsAssumption

\* A part of the load that is used up.
LEMMA Spent ==
  ASSUME left \in Weibo!Load, NEW what \in {"sends", "breaks", "silences", "failures", "ticks"}, Weibo!Spend(what)
  PROVE  left' \in Weibo!Load
BY DEF Weibo!Spend, Weibo!Load

\* What can become of a socket.
StateSet(y, x, s, st) == y = [x EXCEPT ![s].st = st]
WireSet(y, x, s, w) == y = [x EXCEPT ![s].wire = w]
ReadsSet(y, x, s, n) == y = [x EXCEPT ![s].reads = n]
SameReads(y, x) == \A t \in Weibo!Socket : y[t].reads = x[t].reads

LEMMA StateChanges ==
  ASSUME NEW x \in SocketFun, NEW s \in Weibo!Socket, NEW st \in {"broken", "closed"}, NEW y, StateSet(y, x, s, st)
  PROVE  y \in SocketFun /\ SameReads(y, x)
BY DEF StateSet, SocketFun, SameReads

LEMMA WireChanges ==
  ASSUME NEW x \in SocketFun, NEW s \in Weibo!Socket, NEW w \in Seq(Weibo!Frames), NEW y, WireSet(y, x, s, w)
  PROVE  y \in SocketFun /\ SameReads(y, x)
BY DEF WireSet, SocketFun, SameReads

LEMMA ReadsChange ==
  ASSUME NEW x \in SocketFun, NEW s \in Weibo!Socket, NEW n \in 0 .. MaxReads, NEW y, ReadsSet(y, x, s, n)
  PROVE  y \in SocketFun /\ y[s].reads = n /\ \A t \in Weibo!Socket \ {s} : y[t].reads = x[t].reads
BY DEF ReadsSet, SocketFun

\* The types that a step keeps if it keeps those of the sockets and of the load.
Rest ==
  /\ conn \in 0 .. Sockets /\ cancelled \in BOOLEAN /\ running \in BOOLEAN
  /\ loop \in [pc : {"top", "read", "refresh", "connect", "dial", "backoff", "done", "panicked"},
               s : 0 .. Sockets]
  /\ failures \in 0 .. MaxAuthFailures
  /\ closer \in {"waits", "done"} /\ stop \in {"no", "closing", "waiting", "returned"}
Duplicates ==
  /\ now \in Nat /\ dedup \in [Messages -> 0 .. now] /\ lastGC \in 0 .. now
  /\ channel \in Seq(Messages) /\ Len(channel) <= Capacity
  /\ put \in Seq(Messages \X (0 .. now))

LEMMA WeiboTypeOK ==
  /\ Weibo!TypeOK <=> Rest /\ Duplicates /\ socket \in SocketFun /\ left \in Weibo!Load
  /\ Weibo!TypeOK' <=> Rest' /\ Duplicates' /\ socket' \in SocketFun /\ left' \in Weibo!Load
BY DEF Weibo!TypeOK, Rest, Duplicates, SocketFun

\* The invariant holds at first.
LEMMA WeiboStart == ASSUME Weibo!ConstantsAssumption, Weibo!Init PROVE WeiboInv
<1>1. Rest
  <2>1. conn \in 0 .. Sockets /\ failures \in 0 .. MaxAuthFailures /\ loop.s \in 0 .. Sockets
    BY WeiboNumbers DEF Weibo!Init
  <2> QED
    BY <2>1 DEF Weibo!Init, Rest
<1>5. Duplicates /\ left \in Weibo!Load
  BY WeiboNumbers DEF Weibo!Init, Duplicates
<1>2. socket \in SocketFun
  <2>1. socket = [s \in Weibo!Socket |-> [st |-> IF s = 1 THEN "up" ELSE "none", wire |-> <<>>, reads |-> 0]]
    BY DEF Weibo!Init, Weibo!NoSocket, Weibo!NewSocket
  <2>2. 0 \in 0 .. MaxReads /\ <<>> \in Seq(Weibo!Frames)
    BY WeiboNumbers
  <2> QED
    BY <2>1, <2>2 DEF SocketFun
<1>3. LoopInv
  BY DEF Weibo!ConstantsAssumption, Weibo!Init, LoopInv, Weibo!NoSocket, Weibo!NewSocket, Weibo!Socket
<1>4. Remembered /\ Weibo!PutOnce
  BY WeiboNumbers DEF Weibo!Init, Remembered, Weibo!PutOnce
<1> QED
  BY <1>1, <1>2, <1>3, <1>4, <1>5, WeiboTypeOK DEF WeiboInv

\* The server and the clock.
LEMMA ServerTypes ==
  ASSUME Weibo!ConstantsAssumption, WeiboKeeps,
         \/ \E s \in Weibo!Socket : Weibo!ServerBreaks(s) \/ \E frame \in Weibo!Frames : Weibo!ServerSends(s, frame)
         \/ Weibo!Tick \/ Weibo!TakeMessage
  PROVE  WeiboKeeps'
<1> USE DEF WeiboKeeps
<1>0. Rest /\ Duplicates /\ socket \in SocketFun /\ left \in Weibo!Load
  BY WeiboTypeOK
<1>1. ASSUME NEW s \in Weibo!Socket, NEW frame \in Weibo!Frames, Weibo!ServerSends(s, frame) PROVE WeiboKeeps'
  <2>1. left' \in Weibo!Load
    BY <1>0, <1>1, Spent DEF Weibo!ServerSends
  <2>2. socket' \in SocketFun /\ SameReads(socket', socket)
    <3>1. Append(socket[s].wire, frame) \in Seq(Weibo!Frames)
      BY <1>0 DEF SocketFun
    <3>2. socket' = [socket EXCEPT ![s].wire = Append(socket[s].wire, frame)]
      BY <1>1 DEF Weibo!ServerSends
    <3>3. WireSet(socket', socket, s, Append(socket[s].wire, frame))
      BY <3>2 DEF WireSet
    <3> QED
      BY <1>0, <3>1, <3>3, WireChanges
  <2>3. Rest' /\ Duplicates' /\ LoopInv'
    BY <1>0, <1>1, <2>2 DEF Rest, Duplicates, LoopInv, SameReads, Weibo!ServerSends, Weibo!Client, Weibo!Deduplication
  <2> QED
    BY <2>1, <2>2, <2>3, WeiboTypeOK
<1>2. ASSUME NEW s \in Weibo!Socket, Weibo!ServerBreaks(s) PROVE WeiboKeeps'
  <2>1. left' \in Weibo!Load
    BY <1>0, <1>2, Spent DEF Weibo!ServerBreaks
  <2>2. socket' \in SocketFun /\ SameReads(socket', socket)
    <3>1. StateSet(socket', socket, s, "broken")
      BY <1>2 DEF Weibo!ServerBreaks, StateSet
    <3> QED
      BY <1>0, <3>1, StateChanges
  <2>3. Rest' /\ Duplicates' /\ LoopInv'
    BY <1>0, <1>2, <2>2 DEF Rest, Duplicates, LoopInv, SameReads, Weibo!ServerBreaks, Weibo!Client, Weibo!Deduplication
  <2> QED
    BY <2>1, <2>2, <2>3, WeiboTypeOK
<1>3. ASSUME Weibo!Tick PROVE WeiboKeeps'
  <2>1. left' \in Weibo!Load
    BY <1>0, <1>3, Spent DEF Weibo!Tick
  <2>2. now' \in Nat /\ 0 .. now \subseteq 0 .. now'
    BY <1>0, <1>3 DEF Duplicates, Weibo!Tick
  <2>3. put' \in Seq(Messages \X (0 .. now')) /\ dedup' \in [Messages -> 0 .. now'] /\ lastGC' \in 0 .. now'
    <3>1. put' = put /\ dedup' = dedup /\ lastGC' = lastGC
      BY <1>3 DEF Weibo!Tick
    <3>2. dedup \in [Messages -> 0 .. now']
      BY <1>0, <2>2 DEF Duplicates
    <3>3. Messages \X (0 .. now) \subseteq Messages \X (0 .. now')
      BY <2>2
    <3>4. put \in Seq(Messages \X (0 .. now'))
      <4> DEFINE A == Messages \X (0 .. now)
                 B == Messages \X (0 .. now')
      <4>1. A \subseteq B /\ put \in Seq(A)
        BY <1>0, <3>3 DEF Duplicates
      <4> HIDE DEF A, B
      <4>2. put \in Seq(B)
        BY <4>1
      <4> QED
        BY <4>2 DEF B
    <3> QED
      BY <1>0, <2>2, <3>1, <3>2, <3>4 DEF Duplicates
  <2>4. Rest' /\ Duplicates' /\ LoopInv'
    BY <1>0, <1>3, <2>2, <2>3 DEF Rest, Duplicates, LoopInv, Weibo!Tick, Weibo!Client
  <2>5. socket' = socket
    BY <1>3 DEF Weibo!Tick
  <2> QED
    BY <1>0, <2>1, <2>4, <2>5, WeiboTypeOK
<1>4. ASSUME Weibo!TakeMessage PROVE WeiboKeeps'
  <2>1. channel' \in Seq(Messages) /\ Len(channel') <= Capacity
    BY <1>0, <1>4 DEF Duplicates, Weibo!TakeMessage, Weibo!ConstantsAssumption
  <2>2. Rest' /\ Duplicates' /\ LoopInv' /\ socket' = socket /\ left' = left
    BY <1>0, <1>4, <2>1 DEF Rest, Duplicates, LoopInv, Weibo!TakeMessage, Weibo!Client
  <2> QED
    BY <1>0, <2>2, WeiboTypeOK
<1> QED
  BY <1>1, <1>2, <1>3, <1>4

\* A frame that is read.
LEMMA ReadTypes ==
  ASSUME Weibo!ConstantsAssumption, WeiboKeeps, Weibo!ReadFrame PROVE WeiboKeeps'
<1> DEFINE s == loop.s
           frame == Head(socket[s].wire)
<1>0. Rest /\ Duplicates /\ socket \in SocketFun /\ left \in Weibo!Load /\ LoopInv
  BY WeiboTypeOK DEF WeiboKeeps
<1>1. s \in Weibo!Socket /\ socket[s].wire # <<>> /\ frame \in Weibo!Frames
  BY <1>0 DEF Weibo!ReadFrame, Weibo!Readable, LoopInv, SocketFun
<1>2. socket' \in SocketFun /\ SameReads(socket', socket)
  <2>1. socket' = [socket EXCEPT ![s].wire = Tail(socket[s].wire)]
    BY DEF Weibo!ReadFrame
  <2>2. Tail(socket[s].wire) \in Seq(Weibo!Frames)
    BY <1>0, <1>1 DEF SocketFun
  <2>3. WireSet(socket', socket, s, Tail(socket[s].wire))
    BY <2>1 DEF WireSet
  <2> HIDE DEF s
  <2> QED
    BY <1>0, <1>1, <2>2, <2>3, WireChanges
<1>3. Duplicates'
  <2>1. now' = now
    BY DEF Weibo!ReadFrame
  <2>2. CASE Weibo!Handled(frame)
    <3>1. frame \in Messages /\ Weibo!Seen(frame)
      BY <2>2 DEF Weibo!Handled
    <3>2. dedup' \in [Messages -> 0 .. now] /\ lastGC' \in 0 .. now
      BY <1>0, <3>1 DEF Weibo!Seen, Duplicates
    <3>3. \/ Len(channel) < Capacity /\ channel' = Append(channel, frame) /\ put' = Append(put, <<frame, now>>)
          \/ channel' = channel /\ put' = put
      BY <2>2 DEF Weibo!Handled
    <3>4. <<frame, now>> \in Messages \X (0 .. now)
      BY <1>0, <3>1 DEF Duplicates
    <3> HIDE DEF frame
    <3>5. channel' \in Seq(Messages) /\ Len(channel') <= Capacity
      <4>1. channel \in Seq(Messages) /\ Len(channel) <= Capacity /\ frame \in Messages /\ Capacity \in Nat
        BY <1>0, <3>1, WeiboNumbers DEF Duplicates
      <4>2. CASE Len(channel) < Capacity /\ channel' = Append(channel, frame)
        BY <4>1, <4>2
      <4>3. CASE channel' = channel
        BY <4>1, <4>3
      <4> QED
        BY <3>3, <4>2, <4>3
    <3>6. put' \in Seq(Messages \X (0 .. now))
      <4> DEFINE A == Messages \X (0 .. now)
                 x == <<frame, now>>
      <4>1. put \in Seq(A) /\ x \in A
        BY <1>0, <3>4 DEF Duplicates
      <4>2. put' = Append(put, x) \/ put' = put
        BY <3>3
      <4> HIDE DEF A, x
      <4>3. put' \in Seq(A)
        BY <4>1, <4>2
      <4> QED
        BY <4>3 DEF A
    <3> QED
      BY <1>0, <2>1, <3>2, <3>5, <3>6 DEF Duplicates
  <2>3. CASE UNCHANGED <<dedup, lastGC, channel, put>>
    BY <1>0, <2>1, <2>3 DEF Duplicates
  <2> QED
    BY <2>2, <2>3 DEF Weibo!ReadFrame
<1>4. Rest' /\ LoopInv' /\ left' = left
  BY <1>0, <1>2 DEF Rest, LoopInv, SameReads, Weibo!ReadFrame, Weibo!At, Weibo!Apart
<1> QED
  BY <1>0, <1>2, <1>3, <1>4, WeiboTypeOK DEF WeiboKeeps

\* The other steps of the loop.
LEMMA LoopTypes ==
  ASSUME Weibo!ConstantsAssumption, WeiboKeeps, Weibo!Loop, ~Weibo!ReadFrame PROVE WeiboKeeps'
<1> USE DEF WeiboKeeps
<1>0. Rest /\ Duplicates /\ socket \in SocketFun /\ left \in Weibo!Load /\ LoopInv
  BY WeiboTypeOK
<1>9. SUFFICES Rest' /\ LoopInv' /\ socket' \in SocketFun /\ left' \in Weibo!Load
  <2>1. UNCHANGED <<dedup, lastGC, now, channel, put>>
    BY DEF Weibo!Loop, Weibo!Top, Weibo!ReadFails, Weibo!Refresh, Weibo!Connect, Weibo!Backoff, Weibo!RefreshFails,
           Weibo!DialFails, Weibo!Dial, Weibo!Deduplication
  <2>2. Duplicates'
    BY <1>0, <2>1 DEF Duplicates
  <2> QED
    BY <2>2, WeiboTypeOK
<1>1. CASE Weibo!Top
  <2>1. socket' = socket /\ left' = left
    BY <1>1 DEF Weibo!Top
  <2>2. Rest'
    BY <1>0, <1>1 DEF Weibo!Top, Rest, Weibo!Apart
  <2>3. LoopInv'
    BY <1>0, <1>1, <2>1 DEF Weibo!Top, LoopInv, Rest, Weibo!Socket, Weibo!ConstantsAssumption
  <2> QED
    BY <1>0, <2>1, <2>2, <2>3
<1>2. CASE Weibo!ReadFails
  <2> DEFINE s == loop.s
  <2>1. s \in Weibo!Socket /\ socket[s].reads < MaxReads /\ socket[s].reads \in Nat
    BY <1>0, <1>2 DEF Weibo!ReadFails, LoopInv, SocketFun
  <2>2. socket' = [socket EXCEPT ![s].reads = socket[s].reads + 1] /\ loop.pc = "read"
        /\ loop' = [loop EXCEPT !.pc = IF socket[s].reads + 1 < MaxReads THEN "refresh" ELSE "panicked"]
    BY <1>2 DEF Weibo!ReadFails, Weibo!At
  <2>3. left' \in Weibo!Load
    BY <1>0, <1>2, Spent DEF Weibo!ReadFails
  <2>4. /\ socket' \in SocketFun
        /\ \A t \in Weibo!Socket \ {s} : socket'[t].reads = socket[t].reads
        /\ socket'[s].reads = socket[s].reads + 1
    <3>1. socket[s].reads + 1 \in 0 .. MaxReads
      BY <2>1 DEF Weibo!ConstantsAssumption
    <3>2. ReadsSet(socket', socket, s, socket[s].reads + 1)
      BY <2>2 DEF ReadsSet
    <3> HIDE DEF s
    <3> QED
      BY <1>0, <2>1, <3>1, <3>2, ReadsChange
  <2>5. loop'.pc # "panicked" => socket[s].reads + 1 < MaxReads
    BY <1>0, <2>2 DEF Rest
  <2>6. LoopInv'
    <3>1. \A t \in Weibo!Socket : loop'.pc # "panicked" => socket'[t].reads < MaxReads
      BY <1>0, <2>2, <2>4, <2>5 DEF LoopInv
    <3>2. failures' = failures /\ failures < MaxAuthFailures
      BY <1>0, <1>2, <2>2 DEF LoopInv, Weibo!ReadFails
    <3>3. loop'.pc # "read"
      BY <1>0, <2>2 DEF Rest
    <3> QED
      BY <3>1, <3>2, <3>3 DEF LoopInv
  <2>7. Rest'
    BY <1>0, <1>2, <2>2 DEF Rest, Weibo!ReadFails, Weibo!Apart
  <2> QED
    BY <2>3, <2>4, <2>6, <2>7
<1>3. CASE Weibo!Refresh \/ Weibo!Connect \/ Weibo!Backoff
  BY <1>0, <1>3 DEF Weibo!Refresh, Weibo!Connect, Weibo!Backoff, Rest, LoopInv, Weibo!At, Weibo!Apart
<1>4. ASSUME NEW err \in {"refused", "other"}, Weibo!Failed(err), loop.pc \in {"refresh", "dial"}, socket' = socket,
             UNCHANGED conn, Weibo!Apart
      PROVE  Rest' /\ LoopInv'
  <2>1. failures < MaxAuthFailures /\ failures \in Nat /\ MaxAuthFailures \in Nat \ {0}
    BY <1>0, <1>4 DEF Rest, LoopInv, Weibo!ConstantsAssumption
  <2>2. /\ failures' \in 0 .. MaxAuthFailures /\ cancelled' \in BOOLEAN
        /\ loop' = [loop EXCEPT !.pc = "done"] \/ (loop' = [loop EXCEPT !.pc = "backoff"] /\ failures' < MaxAuthFailures)
    BY <1>0, <1>4, <2>1 DEF Rest, Weibo!Failed, Weibo!At
  <2> QED
    BY <1>0, <1>4, <2>2 DEF Rest, LoopInv, Weibo!Apart
<1>5. ASSUME NEW err \in {"refused", "other"}, Weibo!RefreshFails(err) PROVE Rest' /\ LoopInv' /\ socket' = socket /\ left' \in Weibo!Load
  <2>1. left' \in Weibo!Load
    BY <1>0, <1>5, Spent DEF Weibo!RefreshFails
  <2> QED
    BY <1>4, <1>5, <2>1 DEF Weibo!RefreshFails
<1>6. CASE Weibo!DialFails
  <2>1. left' \in Weibo!Load
    BY <1>0, <1>6, Spent DEF Weibo!DialFails
  <2> QED
    BY <1>0, <1>4, <1>6, <2>1 DEF Weibo!DialFails
<1>7. ASSUME NEW s \in Weibo!Socket, Weibo!Dial(s) PROVE Rest' /\ LoopInv' /\ socket' \in SocketFun /\ left' \in Weibo!Load
  <2>1. socket' = [socket EXCEPT ![s] = Weibo!NewSocket] /\ left' = left
    BY <1>7 DEF Weibo!Dial
  <2>2. Weibo!NewSocket = [st |-> "up", wire |-> <<>>, reads |-> 0]
    BY DEF Weibo!NewSocket, Weibo!NoSocket
  <2>3. socket' \in SocketFun /\ \A t \in Weibo!Socket : t # s => socket'[t] = socket[t]
    BY <1>0, <2>1, <2>2 DEF SocketFun, Weibo!ConstantsAssumption
  <2>4. socket'[s].reads = 0
    BY <1>0, <2>1, <2>2 DEF SocketFun
  <2>5. Rest'
    BY <1>0, <1>7 DEF Rest, Weibo!Dial, Weibo!Apart, Weibo!At, Weibo!Socket, Weibo!ConstantsAssumption
  <2>6. LoopInv'
    BY <1>0, <1>7, <2>3, <2>4 DEF Rest, LoopInv, Weibo!Dial, Weibo!At, Weibo!ConstantsAssumption
  <2> QED
    BY <1>0, <2>1, <2>3, <2>5, <2>6
<1> QED
  BY <1>0, <1>1, <1>2, <1>3, <1>5, <1>6, <1>7 DEF Weibo!Loop, Weibo!Refresh, Weibo!Connect, Weibo!Backoff

\* The end of the connection.
LEMMA CloseTypes ==
  ASSUME Weibo!ConstantsAssumption, WeiboKeeps, Weibo!Shutdown \/ Weibo!Stop \/ Weibo!Stopping PROVE WeiboKeeps'
<1> USE DEF WeiboKeeps
<1>0. Rest /\ Duplicates /\ socket \in SocketFun /\ left \in Weibo!Load /\ LoopInv
  BY WeiboTypeOK
<1>1. Duplicates' /\ left' = left /\ loop' = loop /\ failures' = failures
  BY <1>0 DEF Duplicates, Weibo!Shutdown, Weibo!Stop, Weibo!Stopping, Weibo!Closer, Weibo!StopCloses, Weibo!StopReturns,
              Weibo!Deduplication
<1>2. CASE Weibo!Shutdown \/ Weibo!Stop \/ Weibo!StopReturns
  <2>1. Rest' /\ socket' = socket
    BY <1>0, <1>2 DEF Rest, Weibo!Shutdown, Weibo!Stop, Weibo!StopReturns, Weibo!Apart
  <2> QED
    BY <1>0, <1>1, <2>1, WeiboTypeOK DEF LoopInv
<1>3. CASE Weibo!Closer \/ Weibo!StopCloses
  <2>1. Weibo!CloseConnection
    BY <1>3 DEF Weibo!Closer, Weibo!StopCloses
  <2>2. socket' \in SocketFun /\ SameReads(socket', socket)
    <3>1. CASE conn = 0
      BY <1>0, <2>1, <3>1 DEF Weibo!CloseConnection, SameReads
    <3>2. CASE conn # 0
      <4>1. conn \in Weibo!Socket /\ StateSet(socket', socket, conn, "closed")
        BY <1>0, <2>1, <3>2 DEF Rest, Weibo!CloseConnection, Weibo!Socket, Weibo!ConstantsAssumption, StateSet
      <4> QED
        BY <1>0, <4>1, StateChanges
    <3> QED
      BY <3>1, <3>2
  <2>3. Rest'
    <3>1. conn' = 0 /\ 0 \in 0 .. Sockets /\ running' = FALSE
      BY <2>1, WeiboNumbers DEF Weibo!CloseConnection
    <3>2. UNCHANGED <<cancelled, loop, failures>>
      BY <1>3 DEF Weibo!Closer, Weibo!StopCloses
    <3>3. closer' \in {"waits", "done"} /\ stop' \in {"no", "closing", "waiting", "returned"}
      BY <1>0, <1>3 DEF Rest, Weibo!Closer, Weibo!StopCloses
    <3> QED
      BY <1>0, <3>1, <3>2, <3>3 DEF Rest
  <2>4. LoopInv'
    BY <1>0, <1>1, <2>2 DEF LoopInv, SameReads
  <2> QED
    BY <1>0, <1>1, <2>2, <2>3, <2>4, WeiboTypeOK
<1> QED
  BY <1>2, <1>3 DEF Weibo!Stopping

-----------------------------------------------------------------------------
(* The duplicate check *)

\* A message goes into the channel only if its last time is long enough ago, and is remembered.
LEMMA OncePut ==
  ASSUME Weibo!ConstantsAssumption, WeiboKeeps, Remembered, Weibo!PutOnce, NEW m, Weibo!Handled(m)
  PROVE  now' = now => Remembered' /\ Weibo!PutOnce'
<1> SUFFICES ASSUME now' = now PROVE Remembered' /\ Weibo!PutOnce'
  OBVIOUS
<1>1. /\ m \in Messages /\ now \in Nat /\ now > 0 /\ dedup \in [Messages -> 0 .. now] /\ Window \in Nat
      /\ put \in Seq(Messages \X (0 .. now))
  BY WeiboNumbers, WeiboTypeOK DEF WeiboKeeps, Weibo!Handled, Duplicates, Remembered
<1>2. \A i \in 1 .. Len(put) : put[i] \in Messages \X (0 .. now) /\ put[i][1] \in Messages /\ put[i][2] \in 0 .. now
  BY <1>1
<1>3. \A i \in 1 .. Len(put) : put[i][1] = m => now - put[i][2] >= Window
  BY <1>1, <1>2 DEF Remembered, Weibo!Handled, Weibo!Duplicate
\* What is forgotten was put even longer ago.
<1>4. /\ dedup' \in [Messages -> 0 .. now]
      /\ \A k \in Messages : dedup'[k] = (IF k = m THEN now ELSE dedup[k]) \/
                              (dedup'[k] = 0 /\ now - (IF k = m THEN now ELSE dedup[k]) > Window)
  BY <1>1 DEF Weibo!Handled, Weibo!Seen
<1>5. dedup'[m] = now
  BY <1>1, <1>4
<1>6. \A i \in 1 .. Len(put) : LET k == put[i][1] t == put[i][2] IN
        IF dedup'[k] = 0 THEN now - t >= Window ELSE t <= dedup'[k]
  <2> SUFFICES ASSUME NEW i \in 1 .. Len(put)
               PROVE IF dedup'[put[i][1]] = 0 THEN now - put[i][2] >= Window ELSE put[i][2] <= dedup'[put[i][1]]
    OBVIOUS
  <2> DEFINE k == put[i][1]
             t == put[i][2]
  <2>1. k \in Messages /\ t \in 0 .. now
    BY <1>2
  <2>2. IF dedup[k] = 0 THEN now - t >= Window ELSE t <= dedup[k]
    BY DEF Remembered
  <2>3. k = m => now - t >= Window
    BY <1>3
  <2> HIDE DEF k, t
  <2>4. IF dedup'[k] = 0 THEN now - t >= Window ELSE t <= dedup'[k]
    <3>1. CASE k = m
      BY <1>1, <1>5, <2>1, <2>3, <3>1
    <3>2. CASE k # m
      <4>1. dedup'[k] = dedup[k] \/ (dedup'[k] = 0 /\ now - dedup[k] > Window)
        BY <1>4, <2>1, <3>2
      <4>2. dedup[k] \in 0 .. now /\ dedup'[k] \in 0 .. now
        BY <1>1, <1>4, <2>1
      <4> QED
        BY <1>1, <2>1, <2>2, <4>1, <4>2, SMTT(60)
    <3> QED
      BY <3>1, <3>2
  <2> QED
    BY <2>4 DEF k, t
<1>7. put' = put \/ put' = Append(put, <<m, now>>)
  BY DEF Weibo!Handled
<1>8. CASE put' = put
  BY <1>1, <1>6, <1>8 DEF Remembered, Weibo!PutOnce
<1>9. CASE put' = Append(put, <<m, now>>)
  <2>1. /\ Len(put') = Len(put) + 1 /\ Len(put) \in Nat /\ put'[Len(put) + 1] = <<m, now>>
        /\ \A i \in 1 .. Len(put) : put'[i] = put[i]
    BY <1>1, <1>9
  <2>2. Remembered'
    <3> SUFFICES ASSUME NEW i \in 1 .. Len(put')
                 PROVE IF dedup'[put'[i][1]] = 0 THEN now - put'[i][2] >= Window ELSE put'[i][2] <= dedup'[put'[i][1]]
      BY <1>1 DEF Remembered
    <3>1. CASE i \in 1 .. Len(put)
      BY <1>6, <2>1, <3>1
    <3>2. CASE i = Len(put) + 1
      BY <1>1, <1>2, <1>5, <2>1, <3>2
    <3> QED
      BY <2>1, <3>1, <3>2
  <2>3. Weibo!PutOnce'
    <3> SUFFICES ASSUME NEW i \in 1 .. Len(put'), NEW j \in 1 .. Len(put'), i < j, put'[i][1] = put'[j][1]
                 PROVE put'[j][2] - put'[i][2] >= Window
      BY DEF Weibo!PutOnce
    <3>1. i \in 1 .. Len(put) /\ put'[i] = put[i]
      BY <2>1
    <3>2. CASE j \in 1 .. Len(put)
      BY <2>1, <3>1, <3>2 DEF Weibo!PutOnce
    <3>3. CASE j = Len(put) + 1
      BY <1>3, <2>1, <3>1, <3>3
    <3> QED
      BY <2>1, <3>2, <3>3
  <2> QED
    BY <2>2, <2>3
<1> QED
  BY <1>7, <1>8, <1>9

\* The clock only makes it longer ago.
LEMMA TimeGoesOn ==
  ASSUME Weibo!ConstantsAssumption, WeiboKeeps, Remembered, Weibo!PutOnce, UNCHANGED <<dedup, put>>,
         now' \in {now, now + 1}
  PROVE  Remembered' /\ Weibo!PutOnce'
<1>1. now \in Nat /\ now > 0 /\ dedup \in [Messages -> 0 .. now] /\ Window \in Nat /\ put \in Seq(Messages \X (0 .. now))
  BY WeiboNumbers, WeiboTypeOK DEF WeiboKeeps, Duplicates, Remembered
<1>2. \A i \in 1 .. Len(put) : put[i] \in Messages \X (0 .. now) /\ put[i][2] \in 0 .. now
  BY <1>1
<1>3. Weibo!PutOnce'
  BY DEF Weibo!PutOnce
<1>4. Remembered'
  <2> SUFFICES ASSUME NEW i \in 1 .. Len(put)
               PROVE IF dedup[put[i][1]] = 0 THEN now' - put[i][2] >= Window ELSE put[i][2] <= dedup[put[i][1]]
    BY <1>1 DEF Remembered
  <2>1. IF dedup[put[i][1]] = 0 THEN now - put[i][2] >= Window ELSE put[i][2] <= dedup[put[i][1]]
    BY DEF Remembered
  <2> QED
    BY <1>1, <1>2, <2>1
<1> QED
  BY <1>3, <1>4

\* Every step of the connection to Weibo keeps its invariant.
LEMMA WeiboKept ==
  ASSUME Weibo!ConstantsAssumption, WeiboInv, [Weibo!Next]_weiboVars PROVE WeiboInv'
<1> USE DEF WeiboKeeps, WeiboInv
<1>1. ASSUME \/ \E s \in Weibo!Socket : Weibo!ServerBreaks(s) \/ \E frame \in Weibo!Frames : Weibo!ServerSends(s, frame)
             \/ Weibo!Tick \/ Weibo!TakeMessage
      PROVE  WeiboInv'
  <2>1. UNCHANGED <<dedup, put>> /\ now' \in {now, now + 1}
    BY <1>1 DEF Weibo!ServerBreaks, Weibo!ServerSends, Weibo!Tick, Weibo!TakeMessage, Weibo!Deduplication
  <2> QED
    BY <1>1, <2>1, ServerTypes, TimeGoesOn
<1>2. CASE Weibo!ReadFrame
  <2>1. now' = now
    BY <1>2 DEF Weibo!ReadFrame
  <2>2. CASE UNCHANGED <<dedup, put>>
    BY <1>2, <2>1, <2>2, ReadTypes, TimeGoesOn
  <2>3. CASE Weibo!Handled(Head(socket[loop.s].wire))
    BY <1>2, <2>1, <2>3, ReadTypes, OncePut
  <2> QED
    BY <1>2, <2>2, <2>3 DEF Weibo!ReadFrame
<1>3. ASSUME Weibo!Loop, ~Weibo!ReadFrame PROVE WeiboInv'
  <2>1. UNCHANGED <<dedup, put>> /\ now' = now
    BY <1>3 DEF Weibo!Loop, Weibo!Top, Weibo!ReadFails, Weibo!Refresh, Weibo!Connect, Weibo!Backoff, Weibo!RefreshFails,
           Weibo!DialFails, Weibo!Dial, Weibo!Deduplication
  <2> QED
    BY <1>3, <2>1, LoopTypes, TimeGoesOn
<1>4. ASSUME Weibo!Shutdown \/ Weibo!Stop \/ Weibo!Stopping PROVE WeiboInv'
  <2>1. UNCHANGED <<dedup, put>> /\ now' = now
    BY <1>4 DEF Weibo!Shutdown, Weibo!Stop, Weibo!Stopping, Weibo!Closer, Weibo!StopCloses, Weibo!StopReturns,
                Weibo!Deduplication
  <2> QED
    BY <1>4, <2>1, CloseTypes, TimeGoesOn
<1>5. CASE UNCHANGED weiboVars
  <2>1. WeiboKeeps' /\ UNCHANGED <<dedup, put>> /\ now' = now
    BY <1>5 DEF weiboVars, Weibo!TypeOK, LoopInv
  <2> QED
    BY <2>1, TimeGoesOn
<1> QED
  BY <1>1, <1>2, <1>3, <1>4, <1>5 DEF Weibo!Next, weiboVars, Weibo!vars

-----------------------------------------------------------------------------
(* What the hub is told of a reply *)

Knowledge == [started : BOOLEAN, got : Seq(Nat), done : BOOLEAN]
Stream == [pc : {"new", "entered", "waits", "open", "closed", "failed"}, sent : Nat]

\* A reply goes on without a frame of its own.
Later(r, r2, h) ==
  /\ r2.sent >= r.sent
  /\ r2.pc \in {"new", "entered"} => r.pc \in {"new", "entered"}
  /\ r2.pc \in {"open", "closed"} => h.started
  /\ r.pc = "closed" => r2.pc = "closed"

LEMMA HeardLater ==
  ASSUME NEW h \in Knowledge, NEW r \in Stream, NEW r2 \in Stream, NEW a, NEW a2,
         HeardOf(h, r, a), Later(r, r2, h), a2 = "ack" => h.started
  PROVE  HeardOf(h, r2, a2)
BY DEF HeardOf, Later, Knowledge, Stream

LEMMA OnLater ==
  ASSUME NEW q \in Seq(Hub!Told), NEW s, NEW h \in Knowledge, NEW r \in Stream, NEW r2 \in Stream,
         OnItsWay(q, s, h, r), Later(r, r2, h)
  PROVE  OnItsWay(q, s, h, r2)
<1> SUFFICES ASSUME NEW i \in 1 .. Len(q), q[i].reply = s
             PROVE  /\ r2.pc \notin {"new", "entered"}
                    /\ q[i].what = "delta" => q[i].n <= r2.sent
                    /\ q[i].what = "finish" => r2.pc = "closed"
  BY DEF OnItsWay
<1>1. q[i] \in Hub!Told
  OBVIOUS
<1> QED
  BY <1>1 DEF OnItsWay, Later, Stream, Hub!Told

\* Nothing is on its way in an empty connection.
LEMMA OnEmpty == ASSUME NEW s, NEW h, NEW r PROVE OnItsWay(<<>>, s, h, r)
BY DEF OnItsWay

\* The frame in front is read: what is behind it stays as it was.
LEMMA OnTail ==
  ASSUME NEW q \in Seq(Hub!Told), q # <<>>, NEW s, NEW h, NEW r, OnItsWay(q, s, h, r)
  PROVE  OnItsWay(Tail(q), s, h, r)
<1> DEFINE t == Tail(q)
<1>1. Len(t) = Len(q) - 1 /\ Len(q) \in Nat /\ \A i \in 1 .. Len(t) : t[i] = q[i + 1] /\ i + 1 \in 1 .. Len(q)
  OBVIOUS
<1> HIDE DEF t
<1> SUFFICES ASSUME NEW i \in 1 .. Len(t), t[i].reply = s
             PROVE  /\ r.pc \notin {"new", "entered"} /\ ~h.done
                    /\ t[i].what = "start" => ~h.started /\ \A j \in 1 .. Len(t) : t[j].reply = s => j = i
                    /\ t[i].what # "start" => h.started
                    /\ t[i].what = "delta" =>
                         /\ t[i].n <= r.sent
                         /\ \A k \in 1 .. Len(h.got) : h.got[k] < t[i].n
                         /\ \A j \in 1 .. Len(t) : j > i /\ t[j].reply = s /\ t[j].what = "delta" => t[i].n < t[j].n
                    /\ t[i].what = "finish" => r.pc = "closed" /\ \A j \in 1 .. Len(t) : j > i => t[j].reply # s
  BY DEF OnItsWay, t
<1>2. t[i] = q[i + 1] /\ i + 1 \in 1 .. Len(q) /\ q[i + 1].reply = s
  BY <1>1
<1>3. \A j \in 1 .. Len(t) : t[j] = q[j + 1] /\ j + 1 \in 1 .. Len(q) /\ (j > i => j + 1 > i + 1) /\ (j + 1 = i + 1 => j = i)
  BY <1>1
<1>4. t[i].what = "start" => ~h.started /\ \A j \in 1 .. Len(t) : t[j].reply = s => j = i
  BY <1>2, <1>3 DEF OnItsWay
<1>5. t[i].what = "delta" => \A j \in 1 .. Len(t) : j > i /\ t[j].reply = s /\ t[j].what = "delta" => t[i].n < t[j].n
  BY <1>2, <1>3 DEF OnItsWay
<1>6. t[i].what = "finish" => r.pc = "closed" /\ \A j \in 1 .. Len(t) : j > i => t[j].reply # s
  BY <1>2, <1>3 DEF OnItsWay
<1> QED
  BY <1>2, <1>4, <1>5, <1>6 DEF OnItsWay

\* A frame is written: of another reply, or of this one.
LEMMA AppendFrame ==
  ASSUME NEW q \in Seq(Hub!Told), NEW f \in Hub!Told
  PROVE  LET t == Append(q, f) IN
           /\ t \in Seq(Hub!Told) /\ Len(t) = Len(q) + 1 /\ Len(q) \in Nat /\ t[Len(q) + 1] = f
           /\ \A i \in 1 .. Len(q) : t[i] = q[i] /\ i \in 1 .. Len(t) /\ i # Len(q) + 1
           /\ \A i \in 1 .. Len(t) : i \in 1 .. Len(q) \/ i = Len(q) + 1
OBVIOUS

LEMMA OnAppendOther ==
  ASSUME NEW q \in Seq(Hub!Told), NEW f \in Hub!Told, NEW s, NEW h, NEW r, OnItsWay(q, s, h, r), f.reply # s
  PROVE  OnItsWay(Append(q, f), s, h, r)
<1> DEFINE t == Append(q, f)
<1>1. /\ Len(t) = Len(q) + 1 /\ t[Len(q) + 1] = f
      /\ \A i \in 1 .. Len(q) : t[i] = q[i]
      /\ \A i \in 1 .. Len(t) : i \in 1 .. Len(q) \/ i = Len(q) + 1
  BY AppendFrame
<1>2. \A i \in 1 .. Len(t) : t[i].reply = s => i \in 1 .. Len(q) /\ t[i] = q[i]
  BY <1>1
<1> HIDE DEF t
<1>3. OnItsWay(t, s, h, r)
  BY <1>2 DEF OnItsWay
<1> QED
  BY <1>3 DEF t

\* This reply writes its next frame.
Writing(f, r, r2, h) ==
  \/ f.what = "start" /\ r.pc = "entered" /\ r2 = [r EXCEPT !.pc = "waits"]
  \/ f.what = "delta" /\ r.pc = "open" /\ r2 = [r EXCEPT !.sent = @ + 1] /\ f.n = r2.sent
  \/ f.what = "finish" /\ r.pc = "open" /\ r2 = [r EXCEPT !.pc = "closed"]

LEMMA OnAppendOwn ==
  ASSUME NEW q \in Seq(Hub!Told), NEW f \in Hub!Told, NEW s, NEW h \in Knowledge, NEW r \in Stream, NEW r2, NEW a,
         OnItsWay(q, s, h, r), HeardOf(h, r, a), f.reply = s, Writing(f, r, r2, h)
  PROVE  OnItsWay(Append(q, f), s, h, r2) /\ HeardOf(h, r2, a) /\ r2 \in Stream
<1> DEFINE t == Append(q, f)
           n == Len(q) + 1
<1>1. /\ Len(t) = n /\ t[n] = f /\ n \in 1 .. Len(t)
      /\ \A i \in 1 .. Len(q) : t[i] = q[i] /\ i < n /\ i \in 1 .. Len(t)
      /\ \A i \in 1 .. Len(t) : i \in 1 .. Len(q) \/ i = n
  BY AppendFrame
<1>2. h.started \in BOOLEAN /\ h.got \in Seq(Nat) /\ r.sent \in Nat
  BY DEF Knowledge, Stream
<1>3. HeardOf(h, r2, a) /\ r2 \in Stream
  BY <1>2 DEF Writing, HeardOf, Stream
<1>4. \A i \in 1 .. Len(q) : q[i] \in Hub!Told
  OBVIOUS
<1> HIDE DEF t, n
<1>5. CASE f.what = "start"
  <2>1. \A i \in 1 .. Len(q) : q[i].reply # s
    BY <1>5 DEF Writing, OnItsWay
  <2>2. r2.pc = "waits" /\ ~h.started /\ ~h.done
    BY <1>5 DEF Writing, Stream, HeardOf
  <2>3. \A i \in 1 .. Len(t) : t[i].reply = s => i = n
    BY <1>1, <2>1
  <2> QED
    BY <1>1, <1>3, <1>5, <2>2, <2>3 DEF OnItsWay, t
<1>6. CASE f.what # "start"
  <2>1. r.pc = "open" /\ h.started /\ ~h.done
    BY <1>6 DEF Writing, HeardOf
  <2>2. \A i \in 1 .. Len(q) : q[i].reply = s => q[i].what = "delta" /\ q[i].n \in Nat /\ q[i].n <= r.sent
    BY <1>4, <2>1 DEF OnItsWay, Hub!Told
  <2>3. r2.pc \in {"open", "closed"} /\ r2.sent >= r.sent /\ (f.what = "delta" => f.n = r.sent + 1 /\ r2.sent = f.n)
        /\ (f.what = "finish" => r2.pc = "closed") /\ r2.sent \in Nat
    BY <1>2, <1>6 DEF Writing, Stream
  <2>4. \A k \in 1 .. Len(h.got) : h.got[k] \in Nat /\ h.got[k] <= r.sent
    BY <1>2 DEF HeardOf
  <2>5. ASSUME NEW i \in 1 .. Len(t), t[i].reply = s
        PROVE  /\ t[i].what # "start"
               /\ t[i].what = "delta" =>
                    /\ t[i].n <= r2.sent
                    /\ \A k \in 1 .. Len(h.got) : h.got[k] < t[i].n
                    /\ \A j \in 1 .. Len(t) : j > i /\ t[j].reply = s /\ t[j].what = "delta" => t[i].n < t[j].n
               /\ t[i].what = "finish" => r2.pc = "closed" /\ \A j \in 1 .. Len(t) : j > i => t[j].reply # s
    <3>1. CASE i \in 1 .. Len(q)
      <4>1. t[i] = q[i] /\ q[i].what = "delta" /\ q[i].n \in Nat /\ q[i].n <= r.sent
        BY <1>1, <2>2, <2>5, <3>1
      <4>2. \A k \in 1 .. Len(h.got) : h.got[k] < q[i].n
        BY <2>5, <3>1, <4>1 DEF OnItsWay
      <4>3. ASSUME NEW j \in 1 .. Len(t), j > i, t[j].reply = s, t[j].what = "delta" PROVE t[i].n < t[j].n
        <5>1. CASE j \in 1 .. Len(q)
          BY <1>1, <2>5, <3>1, <4>1, <4>3, <5>1 DEF OnItsWay
        <5>2. CASE j = n
          BY <1>1, <1>2, <2>3, <4>1, <4>3, <5>2
        <5> QED
          BY <1>1, <5>1, <5>2
      <4>4. q[i].n <= r2.sent
        BY <1>2, <2>3, <4>1
      <4> QED
        BY <4>1, <4>2, <4>3, <4>4
    <3>2. CASE i = n
      <4>1. t[i] = f /\ \A j \in 1 .. Len(t) : ~(j > i)
        BY <1>1, <3>2 DEF n
      <4>2. f.what = "delta" => \A k \in 1 .. Len(h.got) : h.got[k] < f.n
        BY <1>2, <2>3, <2>4, SMTT(60)
      <4> QED
        BY <1>6, <2>3, <4>1, <4>2
    <3> QED
      BY <1>1, <3>1, <3>2
  <2>6. OnItsWay(t, s, h, r2)
    BY <2>1, <2>3, <2>5 DEF OnItsWay
  <2> QED
    BY <1>3, <2>6 DEF t
<1> QED
  BY <1>5, <1>6

\* The hub reads a frame of this reply.
Reading(f, h) ==
  [started |-> h.started \/ f.what = "start", done |-> h.done \/ f.what = "finish",
   got |-> IF f.what = "delta" THEN Append(h.got, f.n) ELSE h.got]

\* It knows a reply that has started.
LEMMA ReadingStarts ==
  ASSUME NEW f, NEW h PROVE h.started \/ f.what = "start" => Reading(f, h).started
BY DEF Reading

\* What is on its way goes on from there.
LEMMA OnRead ==
  ASSUME NEW q \in Seq(Hub!Told), q # <<>>, NEW h \in Knowledge, NEW r \in Stream, NEW a, NEW s,
         OnItsWay(q, s, h, r), HeardOf(h, r, a), Head(q).reply = s
  PROVE  LET h2 == Reading(Head(q), h) IN
           h2 \in Knowledge /\ OnItsWay(Tail(q), s, h2, r) /\ HeardOf(h2, r, a)
<1> DEFINE f == q[1]
           t == Tail(q)
           h2 == Reading(f, h)
<1>1. /\ Head(q) = f /\ f \in Hub!Told /\ Len(q) \in Nat /\ 1 \in 1 .. Len(q)
      /\ Len(t) = Len(q) - 1 /\ \A i \in 1 .. Len(t) : t[i] = q[i + 1] /\ i + 1 \in 1 .. Len(q) /\ i + 1 > 1 /\ i + 1 # 1
  OBVIOUS
<1>2. h.started \in BOOLEAN /\ h.done \in BOOLEAN /\ h.got \in Seq(Nat) /\ r.sent \in Nat
  BY DEF Knowledge, Stream
<1>3. f.what \in {"start", "delta", "finish"} /\ f.n \in Nat /\ f.reply = s
  BY <1>1 DEF Hub!Told
<1>4. h2 \in Knowledge
  <2>1. (IF f.what = "delta" THEN Append(h.got, f.n) ELSE h.got) \in Seq(Nat)
    BY <1>2, <1>3
  <2> HIDE DEF f
  <2> QED
    BY <1>2, <2>1 DEF Knowledge, Reading
<1>5. OnItsWay(t, s, h, r)
  BY OnTail
<1>6. h2.started = (h.started \/ f.what = "start") /\ h2.done = (h.done \/ f.what = "finish")
      /\ h2.got = IF f.what = "delta" THEN Append(h.got, f.n) ELSE h.got
  BY DEF Reading
<1> HIDE DEF f, t, h2
<1>7. CASE f.what = "start"
  <2>1. \A i \in 1 .. Len(t) : t[i].reply # s
    BY <1>1, <1>3, <1>7 DEF OnItsWay, f
  <2>2. OnItsWay(t, s, h2, r)
    BY <2>1 DEF OnItsWay
  <2>3. r.pc \notin {"new", "entered"} /\ h2.started /\ h2.done = h.done /\ h2.got = h.got
    BY <1>1, <1>2, <1>3, <1>6, <1>7 DEF OnItsWay, f
  <2>4. HeardOf(h2, r, a)
    BY <2>3 DEF HeardOf
  <2> QED
    BY <1>1, <1>4, <2>2, <2>4 DEF h2, t
<1>8. CASE f.what = "delta"
  <2>1. /\ h.started /\ ~h.done /\ r.pc \notin {"new", "entered"} /\ f.n <= r.sent
        /\ \A k \in 1 .. Len(h.got) : h.got[k] < f.n
    BY <1>1, <1>3, <1>8 DEF OnItsWay, f
  <2>2. h2.started = h.started /\ h2.done = h.done /\ h2.got = Append(h.got, f.n)
    BY <1>2, <1>6, <1>8
  <2>3. /\ Len(h2.got) = Len(h.got) + 1 /\ Len(h.got) \in Nat
        /\ \A k \in 1 .. Len(h.got) : h2.got[k] = h.got[k] /\ h.got[k] \in Nat
        /\ h2.got[Len(h.got) + 1] = f.n
    BY <1>2, <1>3, <2>2
  <2>4. HeardOf(h2, r, a)
    <3>1. \A i \in 1 .. Len(h2.got) : h2.got[i] <= r.sent
      BY <2>1, <2>3 DEF HeardOf
    <3>2. ASSUME NEW i \in 1 .. Len(h2.got), NEW j \in 1 .. Len(h2.got), i < j PROVE h2.got[i] < h2.got[j]
      <4>1. i \in 1 .. Len(h.got)
        BY <2>3, <3>2
      <4>2. CASE j \in 1 .. Len(h.got)
        BY <2>3, <3>2, <4>1, <4>2 DEF HeardOf
      <4>3. CASE j = Len(h.got) + 1
        BY <2>1, <2>3, <4>1, <4>3
      <4> QED
        BY <2>3, <4>2, <4>3
    <3> QED
      BY <2>1, <2>2, <3>1, <3>2 DEF HeardOf
  <2>5. ASSUME NEW i \in 1 .. Len(t), t[i].reply = s
        PROVE  /\ t[i].what # "start"
               /\ t[i].what = "delta" => \A k \in 1 .. Len(h2.got) : h2.got[k] < t[i].n
    <3>1. t[i].what # "start"
      BY <1>5, <2>1, <2>5 DEF OnItsWay
    <3>2. ASSUME t[i].what = "delta", NEW k \in 1 .. Len(h2.got) PROVE h2.got[k] < t[i].n
      <4>1. f.n < t[i].n
        BY <1>1, <1>3, <1>8, <2>5, <3>2 DEF OnItsWay, f
      <4>2. \A l \in 1 .. Len(h.got) : h.got[l] < t[i].n
        BY <1>5, <2>5, <3>2 DEF OnItsWay
      <4> QED
        BY <2>3, <4>1, <4>2
    <3> QED
      BY <3>1, <3>2
  <2>6. OnItsWay(t, s, h2, r)
    BY <1>5, <2>2, <2>5 DEF OnItsWay
  <2> QED
    BY <1>1, <1>4, <2>4, <2>6 DEF h2, t
<1>9. CASE f.what = "finish"
  <2>1. h.started /\ r.pc = "closed" /\ \A i \in 1 .. Len(t) : t[i].reply # s
    BY <1>1, <1>3, <1>9 DEF OnItsWay, f
  <2>2. h2.started = h.started /\ h2.got = h.got
    BY <1>2, <1>6, <1>9
  <2>3. HeardOf(h2, r, a)
    BY <2>1, <2>2 DEF HeardOf
  <2>4. OnItsWay(t, s, h2, r)
    BY <2>1 DEF OnItsWay
  <2> QED
    BY <1>1, <1>4, <2>3, <2>4 DEF h2, t
<1> QED
  BY <1>3, <1>7, <1>8, <1>9

-----------------------------------------------------------------------------
(* The local hub: types *)

Link == [state : {"none", "open", "broken", "closed"}, out : Seq(Hub!Told), in : Seq(Hub!Heard)]
Links == [Hub!Cs -> Link]

HubOthers ==
  /\ hubConn \in 0 .. Conns /\ using \in 0 .. Conns
  /\ sup \in {"connect", "dialled", "read", "put", "lost", "fail", "ended"}
  /\ incoming \in Agents \cup {"none"} /\ bound \in Agents \cup {"none"}
  /\ pending \subseteq Replies /\ answer \in [Replies -> {"none", "ack", "lost"}]
  /\ hubLeft \in Hub!Load
  /\ hubChannel \in Seq(Agents) /\ Len(hubChannel) <= HubCapacity
  /\ dispatcher \in {"takes"} \cup Replies
  /\ routed \in [chosen : Agents \cup {"none"}, asked : Agents \cup {"none"}]
  /\ hubStop \in {"no", "cancelled", "closed", "returned"}
HubReplies == reply \in [Replies -> Stream] /\ hub \in [Replies -> Knowledge]

LEMMA HubTypeOK ==
  /\ Hub!TypeOK <=> HubOthers /\ HubReplies /\ sock \in Links
  /\ Hub!TypeOK' <=> HubOthers' /\ HubReplies' /\ sock' \in Links
BY DEF Hub!TypeOK, HubOthers, HubReplies, Links, Link, Stream, Knowledge

\* What becomes of a connection.
Becomes(y, x, c, state, out, in) ==
  /\ y \in Links /\ y[c].state = state /\ y[c].out = out /\ y[c].in = in
  /\ \A d \in Hub!Cs : d # c => y[d] = x[d]
OutSet(y, x, c, q) == y = [x EXCEPT ![c].out = q]
InSet(y, x, c, q) == y = [x EXCEPT ![c].in = q]
StateTo(y, x, c, st) == y = [x EXCEPT ![c].state = st]
BothSet(y, x, c, q, p) == y = [x EXCEPT ![c].out = q, ![c].in = p]
ResetTo(y, x, c, st) == y = [x EXCEPT ![c] = [Hub!NoSocket EXCEPT !.state = st]]

LEMMA OutChanges ==
  ASSUME NEW x \in Links, NEW c \in Hub!Cs, NEW q \in Seq(Hub!Told), NEW y, OutSet(y, x, c, q)
  PROVE  Becomes(y, x, c, x[c].state, q, x[c].in)
BY DEF OutSet, Becomes, Links, Link

LEMMA InChanges ==
  ASSUME NEW x \in Links, NEW c \in Hub!Cs, NEW q \in Seq(Hub!Heard), NEW y, InSet(y, x, c, q)
  PROVE  Becomes(y, x, c, x[c].state, x[c].out, q)
BY DEF InSet, Becomes, Links, Link

LEMMA BothChange ==
  ASSUME NEW x \in Links, NEW c \in Hub!Cs, NEW q \in Seq(Hub!Told), NEW p \in Seq(Hub!Heard), NEW y,
         BothSet(y, x, c, q, p)
  PROVE  Becomes(y, x, c, x[c].state, q, p)
BY DEF BothSet, Becomes, Links, Link

LEMMA Opens ==
  ASSUME NEW x \in Links, NEW c \in Hub!Cs, NEW y, StateTo(y, x, c, "open")
  PROVE  Becomes(y, x, c, "open", x[c].out, x[c].in)
BY DEF StateTo, Becomes, Links, Link

LEMMA Resets ==
  ASSUME NEW x \in Links, NEW c \in Hub!Cs, NEW st \in {"broken", "closed"}, NEW y, ResetTo(y, x, c, st)
  PROVE  Becomes(y, x, c, st, <<>>, <<>>)
<1>1. [Hub!NoSocket EXCEPT !.state = st] = [state |-> st, out |-> <<>>, in |-> <<>>]
  BY DEF Hub!NoSocket
<1>2. [state |-> st, out |-> <<>>, in |-> <<>>] \in Link
  BY DEF Link
<1> QED
  BY <1>1, <1>2 DEF ResetTo, Becomes, Links

\* The frames on a connection.
LEMMA LinkFrames ==
  ASSUME NEW x \in Links, NEW c \in Hub!Cs
  PROVE  /\ x[c].state \in {"none", "open", "broken", "closed"}
         /\ x[c].out \in Seq(Hub!Told) /\ x[c].in \in Seq(Hub!Heard)
BY DEF Links, Link

-----------------------------------------------------------------------------
(* The local hub: steps that write nothing and of which the hub hears nothing *)

\* Acks on a connection that were there before.
OldAcks(x, y) ==
  \A c \in Hub!Cs : \A i \in 1 .. Len(y[c].in) :
    y[c].in[i].what = "ack" => \E j \in 1 .. Len(x[c].in) : x[c].in[j] = y[c].in[i]
\* Connections keep their frames or lose them.
OldFrames(x, y) == \A c \in Hub!Cs : y[c].out = x[c].out \/ y[c].out = <<>>

LEMMA TellingKept ==
  ASSUME Hub!TypeOK, Telling, hub' = hub, OldFrames(sock, sock'), OldAcks(sock, sock'),
         reply' \in [Replies -> Stream],
         \A s \in Replies : Later(reply[s], reply'[s], hub[s]) /\ (answer'[s] = "ack" => hub[s].started)
  PROVE  Telling'
<1>1. sock \in Links /\ HubReplies
  BY HubTypeOK
<1>2. \A s \in Replies : hub[s] \in Knowledge /\ reply[s] \in Stream /\ reply'[s] \in Stream
  BY <1>1 DEF HubReplies
<1>3. ASSUME NEW s \in Replies PROVE HeardOf(hub[s], reply'[s], answer'[s])
  BY <1>2, HeardLater DEF Telling
<1>4. ASSUME NEW s \in Replies, NEW c \in Hub!Cs PROVE OnItsWay(sock'[c].out, s, hub[s], reply'[s])
  <2>1. OnItsWay(sock[c].out, s, hub[s], reply'[s])
    BY <1>1, <1>2, OnLater, LinkFrames DEF Telling
  <2> QED
    BY <2>1, OnEmpty DEF OldFrames
<1>5. \A c \in Hub!Cs : \A i \in 1 .. Len(sock'[c].in) :
        sock'[c].in[i].what = "ack" => hub[sock'[c].in[i].reply].started
  <2> SUFFICES ASSUME NEW c \in Hub!Cs, NEW i \in 1 .. Len(sock'[c].in), sock'[c].in[i].what = "ack"
               PROVE  hub[sock'[c].in[i].reply].started
    OBVIOUS
  <2>1. PICK j \in 1 .. Len(sock[c].in) : sock[c].in[j] = sock'[c].in[i]
    BY DEF OldAcks
  <2>2. hub[sock[c].in[j].reply].started
    BY <2>1 DEF Telling
  <2> QED
    BY <2>1, <2>2
<1> QED
  BY <1>3, <1>4, <1>5 DEF Telling

\* A reply that does nothing.
LEMMA LaterSame ==
  ASSUME Telling, reply' = reply, NEW s \in Replies, Hub!TypeOK PROVE Later(reply[s], reply'[s], hub[s])
<1>1. reply[s].sent \in Nat
  BY HubTypeOK DEF HubReplies, Stream
<1> QED
  BY <1>1 DEF Later, Telling, HeardOf

\* One that moves on.
LEMMA LaterAt ==
  ASSUME Telling, Hub!TypeOK, NEW s \in Replies, NEW from, NEW to \in {"entered", "waits", "open", "closed", "failed"}, Hub!At(s, from, to),
         from # "closed",
         to = "entered" => from = "new", to \in {"open", "closed"} => hub[s].started
  PROVE  reply' \in [Replies -> Stream] /\ \A t \in Replies : Later(reply[t], reply'[t], hub[t])
<1>1. reply \in [Replies -> Stream] /\ reply[s].pc = from /\ reply' = [reply EXCEPT ![s].pc = to]
  BY HubTypeOK DEF HubReplies, Hub!At
<1>2. reply' \in [Replies -> Stream]
  BY <1>1 DEF Stream
<1>3. reply'[s].pc = to /\ reply'[s].sent = reply[s].sent /\ \A t \in Replies : t # s => reply'[t] = reply[t]
  BY <1>1 DEF Stream
<1>4. Later(reply[s], reply'[s], hub[s])
  BY <1>1, <1>3 DEF Later, Stream
<1>5. ASSUME NEW t \in Replies, t # s PROVE Later(reply[t], reply'[t], hub[t])
  <2>1. reply[t].sent \in Nat /\ reply'[t] = reply[t]
    BY <1>1, <1>3, <1>5 DEF Stream
  <2> QED
    BY <2>1 DEF Later, Telling, HeardOf
<1> QED
  BY <1>2, <1>4, <1>5

\* The acks that were given.
LEMMA AcksKept ==
  ASSUME Telling, answer' = answer, NEW s \in Replies PROVE answer'[s] = "ack" => hub[s].started
BY DEF Telling, HeardOf

\* Nothing new on the connections.
LEMMA NothingNew == sock' = sock => OldFrames(sock, sock') /\ OldAcks(sock, sock')
BY DEF OldFrames, OldAcks

\* The hub and the network leave the replies alone.
LEMMA TellingStays ==
  ASSUME Hub!TypeOK, Telling, UNCHANGED <<hub, reply>>, OldFrames(sock, sock'), OldAcks(sock, sock'),
         \A s \in Replies : answer'[s] = "ack" => hub[s].started
  PROVE  Telling'
<1>1. reply' \in [Replies -> Stream]
  BY HubTypeOK DEF HubReplies
<1> QED
  BY <1>1, TellingKept, LaterSame

-----------------------------------------------------------------------------
(* The local hub: its steps *)

\* The supervisor, the dispatcher and Stop, when they touch no connection.
LEMMA QuietSteps ==
  ASSUME Hub!ConstantsAssumption, HubInv,
         \/ Hub!Install \/ Hub!SupervisorEnds \/ Hub!Put \/ Hub!ReadFails \/ Hub!FailAll
         \/ Hub!Take \/ (\E s \in Replies : Hub!Replied(s)) \/ Hub!Stop \/ Hub!StopReturns
  PROVE  HubInv'
<1>0. HubOthers /\ HubReplies /\ sock \in Links /\ Connected /\ Telling /\ Hub!TypeOK
  BY HubTypeOK DEF HubInv
<1>1. UNCHANGED <<sock, reply, hub>>
  BY DEF Hub!Install, Hub!SupervisorEnds, Hub!Put, Hub!ReadFails, Hub!FailAll, Hub!Take, Hub!Replied, Hub!Stop,
         Hub!StopReturns, Hub!requests, Hub!session, Hub!supVars
<1>2. Telling'
  <2>1. \A s \in Replies : answer'[s] = "ack" => answer[s] = "ack"
    BY <1>0 DEF Hub!Install, Hub!SupervisorEnds, Hub!Put, Hub!ReadFails, Hub!FailAll, Hub!Take, Hub!Replied, Hub!Stop,
           Hub!StopReturns, Hub!requests, Hub!session, Hub!supVars, HubOthers
  <2>2. \A s \in Replies : answer'[s] = "ack" => hub[s].started
    BY <1>0, <2>1 DEF Telling, HeardOf
  <2> QED
    BY <1>0, <1>1, <2>2, NothingNew, TellingStays
<1>3. HubOthers' /\ Connected'
  <2>1. CASE Hub!Install
    BY <1>0, <2>1 DEF HubOthers, Connected, Held, Hub!Install, Hub!requests, Hub!session
  <2>2. CASE Hub!SupervisorEnds
    BY <1>0, <2>2 DEF HubOthers, Connected, Held, Hub!SupervisorEnds, Hub!requests, Hub!session
  <2>3. CASE Hub!Put
    <3>1. sup = "put" /\ sup' = "read" /\ UNCHANGED <<hubConn, sock, using, incoming, hubStop>>
      BY <2>3 DEF Hub!Put
    <3>2. hubChannel' \in Seq(Agents) /\ Len(hubChannel') <= HubCapacity
      <4>1. incoming \in Agents /\ hubChannel \in Seq(Agents) /\ HubCapacity \in Nat /\ Len(hubChannel) <= HubCapacity
        BY <1>0, <3>1 DEF Connected, HubOthers, Hub!ConstantsAssumption
      <4>2. (Len(hubChannel) < HubCapacity /\ hubChannel' = Append(hubChannel, incoming)) \/ hubChannel' = hubChannel
        BY <2>3 DEF Hub!Put
      <4> QED
        BY <4>1, <4>2
    <3>3. HubOthers'
      BY <1>0, <2>3, <3>1, <3>2 DEF HubOthers, Hub!Put, Hub!requests
    <3> QED
      BY <1>0, <3>1, <3>3 DEF Connected, Held
  <2>4. CASE Hub!ReadFails
    BY <1>0, <2>4 DEF HubOthers, Connected, Held, Hub!ReadFails, Hub!requests, Hub!session
  <2>5. CASE Hub!FailAll
    BY <1>0, <2>5 DEF HubOthers, Connected, Held, Hub!FailAll, Hub!session
  <2>6. CASE Hub!Take
    <3>1. hubChannel # <<>> /\ hubChannel \in Seq(Agents) /\ Len(hubChannel) <= HubCapacity /\ HubCapacity \in Nat
      BY <1>0, <2>6 DEF Hub!Take, HubOthers, Hub!ConstantsAssumption
    <3>2. Head(hubChannel) \in Agents /\ Tail(hubChannel) \in Seq(Agents) /\ Len(Tail(hubChannel)) <= HubCapacity
      BY <3>1
    <3>3. dispatcher' \in {"takes"} \cup Replies
      BY <2>6 DEF Hub!Take
    <3> QED
      BY <1>0, <2>6, <3>2, <3>3 DEF HubOthers, Connected, Held, Hub!Take, Hub!requests, Hub!supVars
  <2>7. CASE \E s \in Replies : Hub!Replied(s)
    BY <1>0, <2>7 DEF HubOthers, Connected, Held, Hub!Replied, Hub!requests, Hub!supVars
  <2>8. CASE Hub!Stop
    BY <1>0, <2>8 DEF HubOthers, Connected, Held, Hub!Stop, Hub!requests, Hub!supVars, Hub!session
  <2>9. CASE Hub!StopReturns
    BY <1>0, <2>9 DEF HubOthers, Connected, Held, Hub!StopReturns, Hub!requests, Hub!supVars, Hub!session
  <2> QED
    BY <2>1, <2>2, <2>3, <2>4, <2>5, <2>6, <2>7, <2>8, <2>9
<1>4. HubReplies' /\ sock' \in Links
  BY <1>0, <1>1 DEF HubReplies
<1> QED
  BY <1>2, <1>3, <1>4, HubTypeOK DEF HubInv

\* A connection is dialled.
LEMMA DialStep == ASSUME Hub!ConstantsAssumption, HubInv, Hub!Dial PROVE HubInv'
<1>0. HubOthers /\ HubReplies /\ sock \in Links /\ Connected /\ Telling /\ Hub!TypeOK
  BY HubTypeOK DEF HubInv
<1>1. PICK c \in Hub!Cs : sock[c].state = "none" /\ sock' = [sock EXCEPT ![c].state = "open"] /\ using' = c
  BY DEF Hub!Dial
<1>2. Becomes(sock', sock, c, "open", sock[c].out, sock[c].in)
  BY <1>0, <1>1, Opens DEF StateTo
<1>3. UNCHANGED <<hub, reply, answer, hubConn>> /\ sup = "connect" /\ sup' = "dialled"
  BY DEF Hub!Dial, Hub!requests
<1>4. OldFrames(sock, sock') /\ OldAcks(sock, sock')
  BY <1>2 DEF Becomes, OldFrames, OldAcks
<1>5. Telling'
  BY <1>0, <1>3, <1>4, AcksKept, TellingStays
<1>6. Connected'
  <2>1. \A d \in Hub!Cs : sock[d].state # "open"
    BY <1>0, <1>3 DEF Connected, Held
  <2>2. hubConn' = 0
    BY <1>0, <1>3 DEF Connected, Held
  <2>3. \A d \in Hub!Cs : sock'[d].state = "open" => d = c
    BY <1>2, <2>1 DEF Becomes
  <2>4. \A d \in Hub!Cs : sock'[d].state # "open" => sock'[d].out = <<>> /\ sock'[d].in = <<>>
    BY <1>0, <1>2 DEF Becomes, Connected
  <2>5. hubStop' # "returned"
    BY <1>0, <1>3 DEF Hub!Dial, Connected
  <2> QED
    BY <1>1, <1>3, <2>2, <2>3, <2>4, <2>5 DEF Connected, Held
<1>7. HubOthers'
  <2>1. using' \in 0 .. Conns
    BY <1>1 DEF Hub!Cs, Hub!ConstantsAssumption
  <2> QED
    BY <1>0, <2>1 DEF HubOthers, Hub!Dial, Hub!requests, Hub!session
<1>8. HubReplies' /\ sock' \in Links
  BY <1>0, <1>2, <1>3 DEF HubReplies, Becomes
<1> QED
  BY <1>5, <1>6, <1>7, <1>8, HubTypeOK DEF HubInv

\* A frame of the hub is read: the rest of them stay.
LEMMA InTail ==
  ASSUME NEW q \in Seq(Hub!Heard), q # <<>>
  PROVE  /\ Head(q) \in Hub!Heard /\ Head(q) = q[1] /\ 1 \in 1 .. Len(q) /\ Tail(q) \in Seq(Hub!Heard)
         /\ \A i \in 1 .. Len(Tail(q)) : \E j \in 1 .. Len(q) : q[j] = Tail(q)[i]
<1>1. Head(q) \in Hub!Heard /\ Head(q) = q[1] /\ 1 \in 1 .. Len(q) /\ Tail(q) \in Seq(Hub!Heard)
  OBVIOUS
<1>2. ASSUME NEW i \in 1 .. Len(Tail(q)) PROVE \E j \in 1 .. Len(q) : q[j] = Tail(q)[i]
  <2>1. i + 1 \in 1 .. Len(q) /\ q[i + 1] = Tail(q)[i]
    OBVIOUS
  <2> QED
    BY <2>1
<1> QED
  BY <1>1, <1>2

LEMMA ReadSteps == ASSUME Hub!ConstantsAssumption, HubInv, Hub!ReadAck \/ Hub!ReadMessage PROVE HubInv'
<1>0. HubOthers /\ HubReplies /\ sock \in Links /\ Connected /\ Telling /\ Hub!TypeOK
  BY HubTypeOK DEF HubInv
<1> DEFINE q == sock[using].in
<1>1. /\ sup = "read" /\ using \in Hub!Cs /\ q # <<>> /\ sock' = [sock EXCEPT ![using].in = Tail(q)]
      /\ UNCHANGED <<hubConn, using, hub, reply, hubStop>>
  BY <1>0 DEF Hub!ReadAck, Hub!ReadMessage, Hub!supVars, Hub!requests, Connected, Held
<1>2. q \in Seq(Hub!Heard)
  BY <1>0, <1>1, LinkFrames
<1>3. Becomes(sock', sock, using, sock[using].state, sock[using].out, Tail(q))
  BY <1>0, <1>1, <1>2, InTail, InChanges DEF InSet
<1>4. OldFrames(sock, sock')
  BY <1>3 DEF Becomes, OldFrames
<1>5. OldAcks(sock, sock')
  <2> SUFFICES ASSUME NEW c \in Hub!Cs, NEW i \in 1 .. Len(sock'[c].in)
               PROVE  \E j \in 1 .. Len(sock[c].in) : sock[c].in[j] = sock'[c].in[i]
    BY DEF OldAcks
  <2>1. CASE c = using
    BY <1>1, <1>2, <1>3, <2>1, InTail DEF Becomes
  <2>2. CASE c # using
    BY <1>3, <2>2 DEF Becomes
  <2> QED
    BY <2>1, <2>2
<1>6. \A s \in Replies : answer'[s] = "ack" => hub[s].started
  <2>1. CASE Hub!ReadMessage
    BY <1>0, <2>1, AcksKept DEF Hub!ReadMessage, Hub!requests
  <2>2. CASE Hub!ReadAck
    <3>1. Head(q).what = "ack" /\ Hub!Resolve(Head(q).reply)
      BY <2>2 DEF Hub!ReadAck
    <3>2. hub[Head(q).reply].started
      BY <1>0, <1>1, <1>2, <3>1, InTail DEF Telling
    <3>3. \A s \in Replies : answer'[s] = answer[s] \/ s = Head(q).reply
      BY <1>0, <3>1 DEF Hub!Resolve, HubOthers
    <3> QED
      BY <1>0, <3>2, <3>3 DEF Telling, HeardOf
  <2> QED
    BY <2>1, <2>2
<1>7. Telling'
  BY <1>0, <1>1, <1>4, <1>5, <1>6, TellingStays
<1>8. HubOthers' /\ sup' \in {"read", "put"} /\ (sup' = "put" => incoming' \in Agents)
  <2>1. CASE Hub!ReadMessage
    <3>1. Head(q) \in Hub!Heard /\ Head(q).what = "message"
      BY <1>1, <1>2, <2>1, InTail DEF Hub!ReadMessage
    <3>2. Head(q).n \in Agents
      BY <3>1 DEF Hub!Heard
    <3> QED
      BY <1>0, <2>1, <3>2 DEF Hub!ReadMessage, HubOthers, Hub!requests
  <2>2. CASE Hub!ReadAck
    <3>1. answer' \in [Replies -> {"none", "ack", "lost"}]
      BY <1>0, <2>2 DEF Hub!ReadAck, Hub!Resolve, HubOthers
    <3> QED
      BY <1>0, <1>1, <2>2, <3>1 DEF Hub!ReadAck, HubOthers, Hub!supVars, Hub!session
  <2> QED
    BY <2>1, <2>2
<1>9. Connected'
  <2>1. \A c \in Hub!Cs : sock'[c].state = sock[c].state /\ sock'[c].out = sock[c].out
    BY <1>3 DEF Becomes
  <2>2. \A c \in Hub!Cs : sock'[c].state # "open" => sock'[c].in = <<>>
    BY <1>0, <1>1, <1>3, <2>1 DEF Becomes, Connected
  <2> HIDE DEF q
  <2> QED
    BY <1>0, <1>1, <1>8, <2>1, <2>2 DEF Connected, Held
<1>10. HubReplies' /\ sock' \in Links
  BY <1>0, <1>1, <1>3 DEF HubReplies, Becomes
<1> QED
  BY <1>7, <1>8, <1>9, <1>10, HubTypeOK DEF HubInv

\* The connection in use is closed.
LEMMA CloseSteps == ASSUME Hub!ConstantsAssumption, HubInv, Hub!Lost \/ Hub!StopCloses PROVE HubInv'
<1>0. HubOthers /\ HubReplies /\ sock \in Links /\ Connected /\ Telling /\ Hub!TypeOK
  BY HubTypeOK DEF HubInv
<1>1. Hub!Closing /\ UNCHANGED <<using, incoming, hub, reply, answer>>
  BY DEF Hub!Lost, Hub!StopCloses, Hub!supVars, Hub!requests
<1>2. \/ hubConn = 0 /\ sock' = sock
      \/ hubConn = using /\ hubConn # 0 /\ Becomes(sock', sock, hubConn, "closed", <<>>, <<>>)
  <2>1. CASE hubConn = 0
    BY <1>1, <2>1 DEF Hub!Closing
  <2>2. CASE hubConn # 0
    <3>1. hubConn \in Hub!Cs /\ hubConn = using
      BY <1>0, <2>2 DEF Connected, Held
    <3> QED
      BY <1>0, <1>1, <2>2, <3>1, Resets DEF Hub!Closing, ResetTo
  <2> QED
    BY <2>1, <2>2
<1>3. OldFrames(sock, sock') /\ OldAcks(sock, sock')
  BY <1>2 DEF Becomes, OldFrames, OldAcks
<1>4. Telling'
  BY <1>0, <1>1, <1>3, AcksKept, TellingStays
<1>5. sock' \in Links /\ HubReplies' /\ HubOthers'
  <2>1. 0 \in 0 .. Conns
    BY DEF Hub!ConstantsAssumption
  <2>2. hubConn' = 0
    BY <1>1 DEF Hub!Closing
  <2>3. HubOthers'
    BY <1>0, <2>1, <2>2 DEF HubOthers, Hub!Lost, Hub!StopCloses, Hub!supVars, Hub!requests, Hub!session
  <2> QED
    BY <1>0, <1>1, <1>2, <2>3 DEF HubReplies, Becomes
<1>6. Connected'
  <2>1. \A c \in Hub!Cs : sock'[c].state = "open" => sock[c].state = "open" /\ c # hubConn
    BY <1>0, <1>2 DEF Becomes, Hub!Cs
  <2>2. \A c \in Hub!Cs : sock'[c].state # "open" => sock'[c].out = <<>> /\ sock'[c].in = <<>>
    BY <1>0, <1>2 DEF Becomes, Connected
  <2>3. hubConn' = 0 /\ using' = using /\ incoming' = incoming
    BY <1>1 DEF Hub!Closing
  <2>4. \A c \in Hub!Cs : sock'[c].state = "open" => c = using /\ sup = "dialled"
    BY <1>0, <2>1 DEF Connected
  <2>5. sup' = sup \/ (sup = "lost" /\ sup' = "fail")
    BY DEF Hub!Lost, Hub!StopCloses, Hub!supVars
  <2>6. hubStop' = "returned" => hubStop = "returned" /\ sup # "lost"
    BY <1>0 DEF Hub!Lost, Hub!StopCloses, Connected
  <2> QED
    BY <1>0, <2>2, <2>3, <2>4, <2>5, <2>6 DEF Connected, Held
<1> QED
  BY <1>4, <1>5, <1>6, HubTypeOK DEF HubInv

\* The network breaks, and a message comes.
LEMMA NetworkSteps == ASSUME Hub!ConstantsAssumption, HubInv, Hub!Breaks \/ Hub!HubSends PROVE HubInv'
<1>0. HubOthers /\ HubReplies /\ sock \in Links /\ Connected /\ Telling /\ Hub!TypeOK
  BY HubTypeOK DEF HubInv
<1>1. UNCHANGED <<hubConn, sup, using, incoming, pending, hub, reply, answer, hubStop>>
  BY DEF Hub!Breaks, Hub!HubSends, Hub!supVars, Hub!requests
<1>2. /\ OldFrames(sock, sock') /\ OldAcks(sock, sock') /\ sock' \in Links
      /\ \A c \in Hub!Cs : /\ sock'[c].state = "open" => sock[c].state = "open"
                           /\ sock'[c].state # "open" => sock'[c].out = <<>> /\ sock'[c].in = <<>>
  <2>1. CASE Hub!Breaks
    <3>1. PICK c \in Hub!Cs : sock' = [sock EXCEPT ![c] = [Hub!NoSocket EXCEPT !.state = "broken"]]
      BY <2>1 DEF Hub!Breaks
    <3>2. Becomes(sock', sock, c, "broken", <<>>, <<>>)
      BY <1>0, <3>1, Resets DEF ResetTo
    <3> QED
      BY <1>0, <3>2 DEF Becomes, OldFrames, OldAcks, Connected
  <2>2. CASE Hub!HubSends
    <3>1. PICK c \in Hub!Cs, a \in Agents :
            sock[c].state = "open" /\ sock' = [sock EXCEPT ![c].in = Append(@, Hub!Frame("message", "none", a))]
      BY <2>2 DEF Hub!HubSends
    <3> DEFINE f == Hub!Frame("message", "none", a)
               q == sock[c].in
               t == Append(q, f)
    <3>2. f \in Hub!Heard /\ f.what = "message"
      BY DEF Hub!Frame, Hub!Heard
    <3>3. q \in Seq(Hub!Heard)
      BY <1>0, LinkFrames
    <3>4. sock' = [sock EXCEPT ![c].in = t]
      BY <3>1
    <3> HIDE DEF f, q
    <3>5. t \in Seq(Hub!Heard) /\ Len(q) \in Nat /\ Len(t) = Len(q) + 1 /\ t[Len(q) + 1] = f
          /\ \A i \in 1 .. Len(q) : t[i] = q[i]
      <4> DEFINE H == Hub!Heard
      <4>1. f \in H /\ q \in Seq(H)
        BY <3>2, <3>3
      <4> HIDE DEF H
      <4>2. t \in Seq(H) /\ Len(q) \in Nat /\ Len(t) = Len(q) + 1 /\ t[Len(q) + 1] = f
            /\ \A i \in 1 .. Len(q) : t[i] = q[i]
        BY <4>1
      <4> QED
        BY <4>2 DEF H
    <3> HIDE DEF t
    <3>6. Becomes(sock', sock, c, "open", sock[c].out, t)
      <4>1. InSet(sock', sock, c, t)
        BY <3>4 DEF InSet
      <4> QED
        BY <1>0, <3>1, <3>5, <4>1, InChanges
    <3>7. OldAcks(sock, sock')
      <4> SUFFICES ASSUME NEW d \in Hub!Cs, NEW i \in 1 .. Len(sock'[d].in), sock'[d].in[i].what = "ack"
                   PROVE  \E j \in 1 .. Len(sock[d].in) : sock[d].in[j] = sock'[d].in[i]
        BY DEF OldAcks
      <4>1. CASE d # c
        BY <3>6, <4>1 DEF Becomes
      <4>2. CASE d = c
        <5>1. sock'[d].in = t /\ sock[d].in = q
          BY <3>6, <4>2 DEF Becomes, q
        <5>2. i \in 1 .. Len(q) \/ i = Len(q) + 1
          BY <3>5, <5>1
        <5>3. i # Len(q) + 1
          BY <3>2, <3>5, <5>1
        <5> QED
          BY <3>5, <5>1, <5>2, <5>3
      <4> QED
        BY <4>1, <4>2
    <3> QED
      BY <1>0, <3>1, <3>6, <3>7 DEF Becomes, OldFrames, Connected
  <2> QED
    BY <2>1, <2>2
<1>3. Telling'
  BY <1>0, <1>1, <1>2, AcksKept, TellingStays
<1>4. HubReplies' /\ HubOthers'
  <2>1. hubLeft' \in Hub!Load
    BY <1>0 DEF HubOthers, Hub!Load, Hub!Breaks, Hub!HubSends
  <2> QED
    BY <1>0, <1>1, <2>1 DEF HubReplies, HubOthers, Hub!Breaks, Hub!HubSends, Hub!session
<1>5. Connected'
  BY <1>0, <1>1, <1>2 DEF Connected, Held
<1> QED
  BY <1>2, <1>3, <1>4, <1>5, HubTypeOK DEF HubInv

\* A step of a reply leaves the rest as it is.
LEMMA ReplyFrame ==
  ASSUME Hub!ConstantsAssumption, HubInv, NEW s \in Replies, Hub!ReplyStep(s)
  PROVE  /\ UNCHANGED <<hubConn, sup, using, incoming, hub, answer, hubStop>>
         /\ HubOthers'
         /\ sock' = sock => Connected' /\ sock' \in Links
<1>0. HubOthers /\ sock \in Links /\ Connected
  BY HubTypeOK DEF HubInv
<1>1. UNCHANGED <<hubConn, sup, using, incoming, hub, answer, hubStop>>
  BY DEF Hub!ReplyStep, Hub!Begin, Hub!BeginFails, Hub!Start, Hub!Answered, Hub!GivesUp, Hub!Delta, Hub!Finish, Hub!supVars
<1>2. pending' \subseteq Replies
  BY <1>0 DEF Hub!ReplyStep, Hub!Begin, Hub!BeginFails, Hub!Start, Hub!Answered, Hub!GivesUp, Hub!Delta, Hub!Finish, HubOthers
<1>3. UNCHANGED <<hubLeft, hubChannel, bound, dispatcher, routed>>
  BY DEF Hub!ReplyStep, Hub!Begin, Hub!BeginFails, Hub!Start, Hub!Answered, Hub!GivesUp, Hub!Delta, Hub!Finish, Hub!session
<1>4. HubOthers'
  BY <1>0, <1>1, <1>2, <1>3 DEF HubOthers
<1>5. sock' = sock => Connected'
  BY <1>0, <1>1 DEF Connected
<1> QED
  BY <1>0, <1>1, <1>4, <1>5

\* It writes nothing the hub could read: it only moves on, or a broken connection loses the frame.
LEMMA ReplyQuiet ==
  ASSUME Hub!ConstantsAssumption, HubInv, NEW s \in Replies, Hub!ReplyStep(s), sock' = sock PROVE HubInv'
<1>0. HubOthers /\ HubReplies /\ sock \in Links /\ Connected /\ Telling /\ Hub!TypeOK
  BY HubTypeOK DEF HubInv
<1>1. UNCHANGED <<hub, answer>> /\ HubOthers' /\ Connected' /\ sock' \in Links
  BY ReplyFrame
<1>2. reply' \in [Replies -> Stream] /\ \A t \in Replies : Later(reply[t], reply'[t], hub[t])
  <2>0. reply[s] \in Stream /\ (reply[s].pc = "open" => hub[s].started)
    BY <1>0 DEF HubReplies, Telling, HeardOf
  <2>1. CASE Hub!At(s, "new", "entered")
    BY <1>0, <2>1, LaterAt
  <2>2. CASE Hub!At(s, "new", "failed") \/ Hub!At(s, "entered", "failed") \/ Hub!At(s, "waits", "failed") \/ Hub!At(s, "open", "failed")
    BY <1>0, <2>2, LaterAt
  <2>3. CASE Hub!At(s, "entered", "waits")
    BY <1>0, <2>3, LaterAt
  <2>4. CASE Hub!At(s, "waits", "open") /\ answer[s] = "ack"
    <3>1. hub[s].started
      BY <1>0, <2>4 DEF Telling, HeardOf
    <3> QED
      BY <1>0, <2>4, <3>1, LaterAt
  <2>5. CASE Hub!At(s, "open", "closed")
    <3>1. hub[s].started
      BY <2>0, <2>5 DEF Hub!At
    <3> QED
      BY <1>0, <2>5, <3>1, LaterAt
  <2>6. CASE reply[s].pc = "open" /\ reply' = [reply EXCEPT ![s].sent = @ + 1]
    <3>1. reply \in [Replies -> Stream]
      BY <1>0 DEF HubReplies
    <3>2. reply' \in [Replies -> Stream] /\ reply'[s].pc = "open" /\ reply'[s].sent = reply[s].sent + 1 /\ reply[s].sent \in Nat
          /\ \A t \in Replies : t # s => reply'[t] = reply[t]
      BY <2>6, <3>1 DEF Stream
    <3>3. Later(reply[s], reply'[s], hub[s])
      BY <2>0, <2>6, <3>2 DEF Later
    <3>4. ASSUME NEW t \in Replies, t # s PROVE Later(reply[t], reply'[t], hub[t])
      <4>1. reply[t].sent \in Nat /\ reply'[t] = reply[t]
        BY <3>1, <3>2, <3>4 DEF Stream
      <4> QED
        BY <1>0, <4>1 DEF Later, Telling, HeardOf
    <3> QED
      BY <3>2, <3>3, <3>4
  <2>7. CASE reply[s].pc = "open" /\ reply' = [reply EXCEPT ![s].pc = "failed"]
    BY <1>0, <2>7, LaterAt DEF Hub!At
  <2> QED
    BY <2>1, <2>2, <2>3, <2>4, <2>5, <2>6, <2>7
    DEF Hub!ReplyStep, Hub!Begin, Hub!BeginFails, Hub!Start, Hub!Answered, Hub!GivesUp, Hub!Delta, Hub!Finish
<1>3. Telling'
  BY <1>0, <1>1, <1>2, NothingNew, AcksKept, TellingKept
<1>4. HubReplies'
  BY <1>0, <1>1, <1>2 DEF HubReplies
<1> QED
  BY <1>1, <1>3, <1>4, HubTypeOK DEF HubInv

\* It writes a frame.
LEMMA ReplyWrites ==
  ASSUME Hub!ConstantsAssumption, HubInv, NEW s \in Replies, Hub!ReplyStep(s), sock' # sock PROVE HubInv'
<1>0. HubOthers /\ HubReplies /\ sock \in Links /\ Connected /\ Telling /\ Hub!TypeOK
  BY HubTypeOK DEF HubInv
<1>1. UNCHANGED <<hubConn, sup, using, incoming, hub, answer, hubStop>> /\ HubOthers'
  BY ReplyFrame
<1>2. PICK f \in Hub!Told : /\ f.reply = s /\ Hub!Writes(f) /\ reply' = [reply EXCEPT ![s] = reply'[s]]
                            /\ Writing(f, reply[s], reply'[s], hub[s])
  <2>0. reply \in [Replies -> Stream]
    BY <1>0 DEF HubReplies
  <2>1. \A what \in {"start", "delta", "finish"} : \A n \in Nat :
          LET f == Hub!Frame(what, s, n) IN f \in Hub!Told /\ f.reply = s /\ f.what = what /\ f.n = n
    BY DEF Hub!Frame, Hub!Told
  <2>2. CASE Hub!Start(s)
    <3>1. Hub!At(s, "entered", "waits") /\ Hub!Writes(Hub!Frame("start", s, 0))
      BY <2>2 DEF Hub!Start, Hub!Cannot
    <3>2. reply' = [reply EXCEPT ![s] = reply'[s]] /\ reply'[s] = [reply[s] EXCEPT !.pc = "waits"] /\ reply[s].pc = "entered"
      BY <2>0, <3>1 DEF Hub!At
    <3> QED
      BY <2>1, <3>1, <3>2 DEF Writing
  <2>3. CASE Hub!Delta(s)
    <3>1. reply[s].pc = "open" /\ Hub!Writes(Hub!Frame("delta", s, reply[s].sent + 1))
          /\ reply' = [reply EXCEPT ![s].sent = @ + 1]
      BY <2>3 DEF Hub!Delta, Hub!Cannot
    <3>2. reply' = [reply EXCEPT ![s] = reply'[s]] /\ reply'[s] = [reply[s] EXCEPT !.sent = @ + 1]
      BY <2>0, <3>1
    <3>3. reply[s].sent + 1 \in Nat /\ reply'[s].sent = reply[s].sent + 1
      BY <2>0, <3>2 DEF Stream
    <3> QED
      BY <2>1, <3>1, <3>2, <3>3 DEF Writing
  <2>4. CASE Hub!Finish(s)
    <3>1. Hub!At(s, "open", "closed") /\ Hub!Writes(Hub!Frame("finish", s, 0))
      BY <2>4 DEF Hub!Finish, Hub!Cannot
    <3>2. reply' = [reply EXCEPT ![s] = reply'[s]] /\ reply'[s] = [reply[s] EXCEPT !.pc = "closed"] /\ reply[s].pc = "open"
      BY <2>0, <3>1 DEF Hub!At
    <3> QED
      BY <2>1, <3>1, <3>2 DEF Writing
  <2> QED
    BY <2>2, <2>3, <2>4 DEF Hub!ReplyStep, Hub!Begin, Hub!BeginFails, Hub!Answered, Hub!GivesUp
<1>3. hubConn \in Hub!Cs /\ sock[hubConn].state = "open" /\ sock' = [sock EXCEPT ![hubConn].out = Append(@, f)]
  <2>1. hubConn # 0 /\ hubConn \in Hub!Cs
    BY <1>0, <1>2 DEF Hub!Writes, Connected, Held
  <2> QED
    BY <1>2, <2>1 DEF Hub!Writes
<1> DEFINE c == hubConn
           q == sock[c].out
           t == Append(q, f)
<1>4. q \in Seq(Hub!Told) /\ t \in Seq(Hub!Told)
  <2>1. q \in Seq(Hub!Told)
    BY <1>0, <1>3, LinkFrames
  <2> HIDE DEF q
  <2> QED
    BY <1>2, <2>1, AppendFrame
<1>5. OutSet(sock', sock, c, t)
  BY <1>3 DEF OutSet
<1> HIDE DEF t
<1>6. Becomes(sock', sock, c, sock[c].state, t, sock[c].in)
  BY <1>0, <1>3, <1>4, <1>5, OutChanges
<1>7. \A r \in Replies : hub[r] \in Knowledge /\ reply[r] \in Stream
  BY <1>0 DEF HubReplies
<1>8. \A r \in Replies : r # s => reply'[r] = reply[r]
  BY <1>0, <1>2 DEF HubReplies
<1>9. OnItsWay(t, s, hub[s], reply'[s]) /\ HeardOf(hub[s], reply'[s], answer[s]) /\ reply'[s] \in Stream
  BY <1>0, <1>2, <1>3, <1>4, <1>7, OnAppendOwn DEF Telling, t
<1>10. ASSUME NEW r \in Replies, r # s PROVE OnItsWay(t, r, hub[r], reply'[r])
  <2>1. OnItsWay(q, r, hub[r], reply[r])
    BY <1>0, <1>3 DEF Telling
  <2> HIDE DEF q, c
  <2>2. OnItsWay(Append(q, f), r, hub[r], reply[r])
    BY <1>2, <1>4, <1>10, <2>1, OnAppendOther
  <2> QED
    BY <1>8, <1>10, <2>2 DEF t
<1>11. Telling'
  <2>1. ASSUME NEW r \in Replies PROVE HeardOf(hub[r], reply'[r], answer[r])
    BY <1>0, <1>8, <1>9 DEF Telling
  <2>2. ASSUME NEW r \in Replies, NEW d \in Hub!Cs PROVE OnItsWay(sock'[d].out, r, hub[r], reply'[r])
    <3>1. CASE d = c
      BY <1>6, <1>9, <1>10, <3>1 DEF Becomes
    <3>2. CASE d # c
      <4>1. sock[d].state # "open"
        BY <1>0, <1>3, <3>2 DEF Connected, Held
      <4>2. sock'[d].out = <<>>
        BY <1>0, <1>6, <3>2, <4>1 DEF Becomes, Connected
      <4> QED
        BY <4>2, OnEmpty
    <3> QED
      BY <3>1, <3>2
  <2>3. \A d \in Hub!Cs : sock'[d].in = sock[d].in
    BY <1>6 DEF Becomes
  <2> QED
    BY <1>0, <1>1, <2>1, <2>2, <2>3 DEF Telling
<1>12. Connected'
  <2>1. \A d \in Hub!Cs : sock'[d].state = sock[d].state /\ (sock[d].state # "open" => sock'[d] = sock[d])
    BY <1>3, <1>6 DEF Becomes
  <2> QED
    BY <1>0, <1>1, <2>1 DEF Connected
<1>13. HubReplies' /\ sock' \in Links
  <2>1. reply' \in [Replies -> Stream]
    BY <1>0, <1>2, <1>9 DEF HubReplies
  <2> QED
    BY <1>0, <1>1, <1>6, <2>1 DEF HubReplies, Becomes
<1> QED
  BY <1>1, <1>11, <1>12, <1>13, HubTypeOK DEF HubInv

\* The hub reads a frame, and answers a start.
LEMMA HubReadsStep ==
  ASSUME Hub!ConstantsAssumption, HubInv, NEW c \in Hub!Cs, Hub!HubReads(c) PROVE HubInv'
<1>0. HubOthers /\ HubReplies /\ sock \in Links /\ Connected /\ Telling /\ Hub!TypeOK
  BY HubTypeOK DEF HubInv
<1> DEFINE q == sock[c].out
           p == sock[c].in
           f == Head(q)
           s == f.reply
           ack == IF f.what = "start" THEN <<Hub!Frame("ack", s, 0)>> ELSE <<>>
           p2 == p \o ack
<1>1. /\ UNCHANGED <<hubConn, sup, using, incoming, reply, answer, hubStop>>
      /\ UNCHANGED <<pending, hubLeft, hubChannel, bound, dispatcher, routed>>
  BY ZenonT(60) DEF Hub!HubReads, Hub!supVars, Hub!requests, Hub!session
<1>2. sock[c].state = "open" /\ q # <<>> /\ q \in Seq(Hub!Told) /\ p \in Seq(Hub!Heard)
  BY <1>0, LinkFrames DEF Hub!HubReads
<1>3. f \in Hub!Told /\ Tail(q) \in Seq(Hub!Told) /\ s \in Replies
  <2>1. f \in Hub!Told /\ Tail(q) \in Seq(Hub!Told)
    BY <1>2
  <2> QED
    BY <2>1 DEF Hub!Told
<1>4. hub' = [hub EXCEPT ![s] = Reading(f, hub[s])]
  BY <1>0, <1>3, ZenonT(60) DEF Hub!HubReads, Reading, HubReplies
<1>5. p2 \in Seq(Hub!Heard) /\ \A i \in 1 .. Len(p2) :
        \/ \E j \in 1 .. Len(p) : p[j] = p2[i]
        \/ f.what = "start" /\ p2[i].reply = s
  <2>1. Hub!Frame("ack", s, 0) \in Hub!Heard /\ Hub!Frame("ack", s, 0).reply = s
    BY <1>3 DEF Hub!Frame, Hub!Heard
  <2> DEFINE x == Hub!Frame("ack", s, 0)
             H == Hub!Heard
  <2>2. x \in H /\ x.reply = s /\ p \in Seq(H)
    BY <1>2, <2>1
  <2>3. CASE f.what = "start"
    <3>1. p2 = p \o <<x>>
      BY <2>3
    <3> HIDE DEF p, p2, H, x
    <3>2. p2 \in Seq(H) /\ Len(p2) = Len(p) + 1 /\ Len(p) \in Nat /\ p2[Len(p) + 1] = x
          /\ \A i \in 1 .. Len(p) : p2[i] = p[i]
      BY <2>2, <3>1
    <3>3. ASSUME NEW i \in 1 .. Len(p2)
          PROVE  (\E j \in 1 .. Len(p) : p[j] = p2[i]) \/ p2[i] = x
      BY <3>2
    <3> QED
      BY <2>2, <2>3, <3>2, <3>3 DEF H
  <2>4. CASE f.what # "start"
    <3>1. p2 = p \o <<>>
      BY <2>4
    <3> HIDE DEF p, p2, H
    <3>2. p2 = p
      BY <2>2, <3>1
    <3> QED
      BY <2>2, <3>2 DEF H
  <2> QED
    BY <2>3, <2>4
<1>6. BothSet(sock', sock, c, Tail(q), p2)
  BY DEF Hub!HubReads, BothSet
<1> HIDE DEF p2
<1>7. Becomes(sock', sock, c, "open", Tail(q), p2)
  BY <1>0, <1>2, <1>3, <1>5, <1>6, BothChange
<1>8. \A r \in Replies : hub[r] \in Knowledge /\ reply[r] \in Stream
  BY <1>0 DEF HubReplies
<1> DEFINE h2 == Reading(f, hub[s])
<1>9. h2 \in Knowledge /\ OnItsWay(Tail(q), s, h2, reply[s]) /\ HeardOf(h2, reply[s], answer[s])
  BY <1>0, <1>2, <1>3, <1>8, OnRead DEF Telling
<1>10. hub'[s] = h2 /\ \A r \in Replies : r # s => hub'[r] = hub[r]
  BY <1>0, <1>3, <1>4 DEF HubReplies
<1>11. (hub[s].started => hub'[s].started) /\ (f.what = "start" => hub'[s].started)
  BY <1>10, ReadingStarts
<1>12. \A r \in Replies : hub[r].started => hub'[r].started
  BY <1>10, <1>11
<1> HIDE DEF h2, s, f
<1>13. Telling'
  <2>1. ASSUME NEW r \in Replies PROVE HeardOf(hub'[r], reply[r], answer[r])
    BY <1>0, <1>9, <1>10 DEF Telling
  <2>2. ASSUME NEW r \in Replies, NEW d \in Hub!Cs PROVE OnItsWay(sock'[d].out, r, hub'[r], reply[r])
    <3>1. CASE d = c /\ r = s
      BY <1>7, <1>9, <1>10, <3>1 DEF Becomes
    <3>2. CASE d = c /\ r # s
      <4>1. OnItsWay(q, r, hub[r], reply[r])
        BY <1>0 DEF Telling
      <4>2. OnItsWay(Tail(q), r, hub[r], reply[r])
        BY <1>2, <4>1, OnTail
      <4> QED
        BY <1>7, <1>10, <3>2, <4>2 DEF Becomes
    <3>3. CASE d # c
      <4>1. sock[d].state # "open"
        BY <1>0, <1>2, <3>3 DEF Connected
      <4>2. sock'[d].out = <<>>
        BY <1>0, <1>7, <3>3, <4>1 DEF Becomes, Connected
      <4> QED
        BY <4>2, OnEmpty
    <3> QED
      BY <3>1, <3>2, <3>3
  <2>3. ASSUME NEW d \in Hub!Cs, NEW i \in 1 .. Len(sock'[d].in), sock'[d].in[i].what = "ack"
        PROVE  hub'[sock'[d].in[i].reply].started
    <3>1. CASE d # c
      <4>1. sock'[d] = sock[d]
        BY <1>7, <3>1 DEF Becomes
      <4>2. sock[d].in \in Seq(Hub!Heard)
        BY <1>0, LinkFrames
      <4>3. sock[d].in[i] \in Hub!Heard /\ i \in 1 .. Len(sock[d].in)
        BY <2>3, <4>1, <4>2
      <4>4. sock[d].in[i].reply \in Replies /\ hub[sock[d].in[i].reply].started
        BY <1>0, <2>3, <4>1, <4>3 DEF Telling, Hub!Heard
      <4> QED
        BY <1>12, <4>1, <4>4
    <3>2. CASE d = c
      <4>1. sock'[d].in = p2
        BY <1>7, <3>2 DEF Becomes
      <4>2. CASE f.what = "start" /\ p2[i].reply = s
        BY <1>11, <4>1, <4>2
      <4>3. CASE \E j \in 1 .. Len(p) : p[j] = p2[i]
        <5>1. PICK j \in 1 .. Len(p) : p[j] = p2[i]
          BY <4>3
        <5>2. p[j] \in Hub!Heard /\ p[j].what = "ack"
          BY <1>2, <2>3, <4>1, <5>1
        <5>3. p[j].reply \in Replies /\ hub[p[j].reply].started
          BY <1>0, <5>2 DEF Telling, Hub!Heard
        <5> QED
          BY <1>12, <4>1, <5>1, <5>3
      <4> QED
        BY <1>5, <2>3, <4>1, <4>2, <4>3
    <3> QED
      BY <3>1, <3>2
  <2> QED
    BY <1>1, <2>1, <2>2, <2>3 DEF Telling
<1>14. Connected'
  <2>1. \A d \in Hub!Cs : sock'[d].state = sock[d].state /\ (sock[d].state # "open" => sock'[d] = sock[d])
    BY <1>2, <1>7 DEF Becomes
  <2> QED
    BY <1>0, <1>1, <2>1 DEF Connected
<1>15. HubReplies' /\ sock' \in Links /\ HubOthers'
  <2>1. hub' \in [Replies -> Knowledge]
    BY <1>0, <1>3, <1>4, <1>9 DEF HubReplies, h2, s
  <2> QED
    BY <1>0, <1>1, <1>7, <2>1 DEF HubReplies, HubOthers, Becomes
<1> QED
  BY <1>13, <1>14, <1>15, HubTypeOK DEF HubInv

\* The invariant holds at first.
LEMMA HubStart == ASSUME Hub!ConstantsAssumption, Hub!Init PROVE HubInv
<1>1. HubOthers
  <2>1. 0 \in 0 .. Conns /\ HubCapacity \in Nat /\ HubLoads \subseteq Hub!Load
    BY DEF Hub!ConstantsAssumption
  <2> QED
    BY <2>1 DEF Hub!Init, HubOthers
<1>2. HubReplies
  <2>1. [pc |-> "new", sent |-> 0] \in Stream /\ [started |-> FALSE, got |-> <<>>, done |-> FALSE] \in Knowledge
    BY DEF Stream, Knowledge
  <2> QED
    BY <2>1 DEF Hub!Init, HubReplies
<1>3. \A c \in Hub!Cs : sock[c] = [state |-> "none", out |-> <<>>, in |-> <<>>]
  BY DEF Hub!Init, Hub!NoSocket
<1>4. sock \in Links
  BY DEF Hub!Init, Hub!NoSocket, Links, Link
<1>5. Connected
  BY <1>3 DEF Hub!Init, Connected, Held
<1>6. Telling
  <2>1. ASSUME NEW s \in Replies PROVE HeardOf(hub[s], reply[s], answer[s])
    <3>1. reply[s] = [pc |-> "new", sent |-> 0] /\ hub[s] = [started |-> FALSE, got |-> <<>>, done |-> FALSE]
          /\ answer[s] = "none"
      BY DEF Hub!Init
    <3> QED
      BY <3>1 DEF HeardOf
  <2>2. \A s \in Replies, c \in Hub!Cs : OnItsWay(sock[c].out, s, hub[s], reply[s])
    BY <1>3, OnEmpty
  <2> QED
    BY <1>3, <2>1, <2>2 DEF Telling
<1> QED
  BY <1>1, <1>2, <1>4, <1>5, <1>6, HubTypeOK DEF HubInv

\* Every step keeps it.
LEMMA HubKept ==
  ASSUME Hub!ConstantsAssumption, HubInv, [Hub!Next]_hubVars PROVE HubInv'
<1>1. CASE Hub!Supervisor
  BY <1>1, DialStep, QuietSteps, ReadSteps, CloseSteps DEF Hub!Supervisor
<1>2. ASSUME NEW s \in Replies, Hub!ReplyStep(s) PROVE HubInv'
  BY <1>2, ReplyQuiet, ReplyWrites
<1>3. ASSUME NEW c \in Hub!Cs, Hub!HubReads(c) PROVE HubInv'
  BY <1>3, HubReadsStep
<1>4. CASE (\E s \in Replies : Hub!Replied(s)) \/ Hub!Take \/ Hub!Stop \/ Hub!StopReturns
  BY <1>4, QuietSteps
<1>5. CASE Hub!HubSends \/ Hub!Breaks
  BY <1>5, NetworkSteps
<1>6. CASE Hub!StopCloses
  BY <1>6, CloseSteps
<1>7. CASE UNCHANGED hubVars
  BY <1>7 DEF hubVars, HubInv, Hub!TypeOK, Connected, Telling
<1> QED
  BY <1>1, <1>2, <1>3, <1>4, <1>5, <1>6, <1>7 DEF Hub!Next, hubVars, Hub!vars

-----------------------------------------------------------------------------
(* The platforms *)

\* The invariants of both platforms hold in every state of a bridge.
THEOREM Invariant == Spec => []Inv
<1>1. Init => Inv
  BY ConstantsAssumption, WeiboStart, HubStart DEF Init, Inv
<1>2. Inv /\ [Next]_vars => Inv'
  <2> SUFFICES ASSUME Inv, [Next]_vars PROVE Inv'
    OBVIOUS
  <2>1. part \in {"weibo", "local"} /\ WeiboInv /\ HubInv
    BY DEF Inv
  <2>2. part' = part /\ [Weibo!Next]_weiboVars /\ [Hub!Next]_hubVars
    BY DEF Next, WeiboRuns, HubRuns, vars
  <2> QED
    BY <2>1, <2>2, ConstantsAssumption, WeiboKept, HubKept DEF Inv
<1> QED
  BY <1>1, <1>2, PTL DEF Spec

\* The variables of both platforms keep their types.
THEOREM TypeCorrect == Spec => []TypeOK
<1>1. Inv => TypeOK
  BY DEF Inv, WeiboInv, HubInv, TypeOK
<1> QED
  BY <1>1, Invariant, PTL

\* A message that Weibo sends again, over whatever connection, is not put into the channel a
\* second time within the window of the duplicate check; and the hub is told of a reply in
\* order, whatever connections its frames come over and whichever of them are lost.
THEOREM Arrives == Spec => []ArrivesOnce
<1>1. Inv => Weibo!PutOnce
  BY DEF Inv, WeiboInv
<1>2. HubInv => Hub!ToldInOrder
  <2> SUFFICES ASSUME HubInv PROVE Hub!ToldInOrder
    OBVIOUS
  <2>1. ASSUME NEW s \in Replies
        PROVE  /\ reply[s].pc \in {"open", "closed"} \/ hub[s].got # <<>> \/ hub[s].done => hub[s].started
               /\ \A i, j \in 1 .. Len(hub[s].got) : i < j => hub[s].got[i] < hub[s].got[j]
    BY DEF HubInv, Telling, HeardOf
  <2>2. ASSUME NEW s \in Replies, hub[s].done, NEW c \in Hub!Cs, NEW i \in 1 .. Len(sock[c].out)
        PROVE  sock[c].out[i].reply # s
    BY <2>2 DEF HubInv, Telling, OnItsWay
  <2> QED
    BY <2>1, <2>2 DEF Hub!ToldInOrder
<1>3. Inv => ArrivesOnce
  BY <1>1, <1>2 DEF Inv, ArrivesOnce
<1> QED
  BY <1>3, Invariant, PTL

\* When Stop of the local platform has returned, no connection is open, though one was being
\* made while it closed what there was, and nothing is put into the channel it has closed.
THEOREM Stops == Spec => []StopDisconnects
<1>1. Inv => StopDisconnects
  BY DEF Inv, HubInv, Connected, Held, StopDisconnects, Hub!StopDisconnects
<1> QED
  BY <1>1, Invariant, PTL

=============================================================================
