------------------------------- MODULE MCTurns -------------------------------
\* UserTurns for TLC: the loads of a few turns.
EXTENDS UserTurns

\* Two turns at once, of a session, on it or on copies of it, or before and after /new; and
\* turns one after the other, three of one agent, or two of two agents.
MCRegistryLoads ==
  {[turns |-> 2, overlap |-> TRUE, procs |-> 2, news |-> 0, types |-> {"claude"}, copies |-> BOOLEAN],
   [turns |-> 2, overlap |-> TRUE, procs |-> 2, news |-> 1, types |-> {"claude"}, copies |-> {FALSE}],
   [turns |-> 3, overlap |-> FALSE, procs |-> 3, news |-> 1, types |-> {"claude"}, copies |-> {FALSE}],
   [turns |-> 2, overlap |-> FALSE, procs |-> 2, news |-> 1, types |-> {"claude", "codex"},
    copies |-> {FALSE}]}

\* Three messages, on a process that may end by itself, with super mode on and off, or with
\* "allow all"; and a turn that is cancelled, with a /btw beside it.
MCSessionLoads ==
  {[kinds |-> {"text", "allow"}, supers |-> BOOLEAN, msgs |-> 3, questions |-> 2,
    cancels |-> 0, injects |-> 0, exits |-> 1],
   [kinds |-> {"text", "allow", "allowAll"}, supers |-> {FALSE}, msgs |-> 3, questions |-> 2,
    cancels |-> 0, injects |-> 0, exits |-> 1],
   [kinds |-> {"text", "allow"}, supers |-> {FALSE}, msgs |-> 2, questions |-> 1,
    cancels |-> 1, injects |-> 1, exits |-> 0]}
=============================================================================
