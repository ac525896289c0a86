----------------------------- MODULE UserQueue ------------------------------
(***************************************************************************)
(* What the message processor promises its users, without goroutines, runs *)
(* or locks: every user has a server that serves one message at a time in  *)
(* the order of arrival, and a waiting line of bounded length in front of  *)
(* it that gives up its oldest message when one more comes.  Dispatcher is *)
(* shown to implement this.                                                *)
(***************************************************************************)
EXTENDS Naturals, Sequences

CONSTANTS Users, Items, Capacity, Nothing

VARIABLES
  open,    \* the users whose server is at work
  serving, \* the message a server serves, or Nothing between two messages
  line     \* the messages waiting

vars == <<open, serving, line>>

Init ==
  /\ open = {}
  /\ serving = [u \in Users |-> Nothing]
  /\ line = [u \in Users |-> <<>>]

\* A message opens the server of a user who has none at work.
Open(u, m) ==
  /\ u \notin open
  /\ open' = open \cup {u}
  /\ serving' = [serving EXCEPT ![u] = m]
  /\ UNCHANGED line

\* A message waits its turn; the line never outgrows its capacity.
Join(u, m) ==
  /\ u \in open
  /\ line' = [line EXCEPT ![u] = IF Len(line[u]) < Capacity
                                 THEN Append(line[u], m)
                                 ELSE Append(Tail(line[u]), m)]
  /\ UNCHANGED <<open, serving>>

Finish(u) ==
  /\ serving[u] # Nothing
  /\ serving' = [serving EXCEPT ![u] = Nothing]
  /\ UNCHANGED <<open, line>>

\* The server takes the message that has waited longest.
Advance(u) ==
  /\ u \in open /\ serving[u] = Nothing /\ line[u] # <<>>
  /\ serving' = [serving EXCEPT ![u] = Head(line[u])]
  /\ line' = [line EXCEPT ![u] = Tail(line[u])]
  /\ UNCHANGED open

\* Only a server with nothing to serve and nobody waiting closes in peace.
Close(u) ==
  /\ u \in open /\ serving[u] = Nothing /\ line[u] = <<>>
  /\ open' = open \ {u}
  /\ UNCHANGED <<serving, line>>

\* Shutdown or a panic: everything the user has here is given up at once.
Abandon(u) ==
  /\ u \in open
  /\ open' = open \ {u}
  /\ serving' = [serving EXCEPT ![u] = Nothing]
  /\ line' = [line EXCEPT ![u] = <<>>]

Next ==
  \E u \in Users :
    \/ \E m \in Items : Open(u, m) \/ Join(u, m)
    \/ Finish(u) \/ Advance(u) \/ Close(u) \/ Abandon(u)

Spec == Init /\ [][Next]_vars
=============================================================================
