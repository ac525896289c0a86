------------------------------ MODULE Platforms ------------------------------
(***************************************************************************)
(* The two platforms: the connection to Weibo (WeiboConnection) and the    *)
(* one to a local hub (LocalHub).  A bridge has one of them: part says     *)
(* which; the variables of the other stay as they are.                     *)
(***************************************************************************)
EXTENDS Naturals

CONSTANTS
  \* WeiboConnection
  Messages, Capacity, MaxAuthFailures, MaxReads, Window, GCAfter, Sockets, WeiboLoads,
  \* LocalHub
  Replies, Agents, HubCapacity, Conns, HubLoads

VARIABLES part,
  \* WeiboConnection
  conn, socket, cancelled, running, loop, failures, closer, stop, dedup, lastGC, now, channel,
  put, left,
  \* LocalHub
  hubConn, sock, sup, using, incoming, pending, answer, reply, hub, hubLeft, hubChannel, bound,
  dispatcher, routed, hubStop

weiboVars == <<conn, socket, cancelled, running, loop, failures, closer, stop, dedup, lastGC,
               now, channel, put, left>>
hubVars == <<hubConn, sock, sup, using, incoming, pending, answer, reply, hub, hubLeft,
             hubChannel, bound, dispatcher, routed, hubStop>>
vars == <<part, weiboVars, hubVars>>

Weibo == INSTANCE WeiboConnection WITH Loads <- WeiboLoads
Hub == INSTANCE LocalHub WITH
  Capacity <- HubCapacity, Loads <- HubLoads,
  conn <- hubConn, left <- hubLeft, channel <- hubChannel, stop <- hubStop

ASSUME ConstantsAssumption == Weibo!ConstantsAssumption /\ Hub!ConstantsAssumption

AnyOf(S) == CHOOSE x \in S : TRUE

Init ==
  /\ part \in {"weibo", "local"}
  /\ Weibo!Init /\ (part # "weibo" => left = AnyOf(WeiboLoads))
  /\ Hub!Init /\ (part # "local" => hubLeft = AnyOf(HubLoads))

WeiboRuns(A) == part = "weibo" /\ A /\ UNCHANGED <<part, hubVars>>
HubRuns(A) == part = "local" /\ A /\ UNCHANGED <<part, weiboVars>>

Next == WeiboRuns(Weibo!Next) \/ HubRuns(Hub!Next)

\* Each platform is scheduled as its module says.
Fairness == WF_vars(WeiboRuns(Weibo!Progress)) /\ WF_vars(HubRuns(Hub!Progress))

Spec == Init /\ [][Next]_vars /\ Fairness

-----------------------------------------------------------------------------
(* Properties: those of the parts *)

\* The types of the variables.
TypeOK == part \in {"weibo", "local"} /\ Weibo!TypeOK /\ Hub!TypeOK

\* What a user sends reaches the dispatcher once, though Weibo sends it again; what the hub is
\* told of a reply comes in order, though over several connections.
ArrivesOnce == Weibo!PutOnce /\ Hub!ToldInOrder

\* A local platform that has stopped has no connection, and no goroutine that could make one.
StopDisconnects == Hub!StopDisconnects

\* Stop returns, a lost connection is made again, and a reply that waits for an ack gets
\* one or learns that the connection is lost, without the help of a timer.  (It would fail
\* where the dispatcher itself replies.)
RequestsAnswered == []<>(hubLeft.replies \/ \A s \in Replies : reply[s].pc # "waits")
GoesOn == Weibo!Reconnects /\ Weibo!StopEnds /\ Hub!StopEnds /\ RequestsAnswered
=============================================================================
