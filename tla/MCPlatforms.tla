----------------------------- MODULE MCPlatforms -----------------------------
(* Platforms for TLC. *)
EXTENDS Platforms

\* Messages that come again, over two connections, while time goes by; and a connection that
\* breaks, one that is silent, and attempts that fail.
MCWeiboLoads ==
  {[sends |-> 3, breaks |-> 1, silences |-> 0, failures |-> 0, ticks |-> 2],
   [sends |-> 1, breaks |-> 1, silences |-> 1, failures |-> 3, ticks |-> 0]}

\* Replies whose acks may be late, the dispatcher's own among them; and acks without a timer,
\* with messages that fill the channel.
MCHubLoads ==
  {[messages |-> 1, deltas |-> 1, replies |-> TRUE, timer |-> TRUE],
   [messages |-> 2, deltas |-> 0, replies |-> FALSE, timer |-> FALSE]}
=============================================================================
