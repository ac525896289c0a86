------------------------------- MODULE MCAgents -------------------------------
(* Agents for TLC. *)
EXTENDS Agents

\* A turn and an injection write to Claude; a removal closes the sessions, and the end of
\* the program closes the one of hermes as well.
MCWriters == {"turn", "btw"}
MCClosers == {"remove"}
MCHermesClosers == {"remove", "stop"}

\* The agents that have a CLI.
MCClis == {"claude", "gemini", "codex", "hermes"}
=============================================================================
