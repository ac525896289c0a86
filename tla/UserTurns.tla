------------------------------- MODULE UserTurns -------------------------------
(***************************************************************************)
(* The turns of a user and the processes of their sessions: the registry   *)
(* of the processes, with turns that overlap or come one after the other   *)
(* (LiveSessions), and the turns of one session on its process             *)
(* (InteractiveTurn).  part says which of the two runs; the variables of   *)
(* the other stay as they are.                                             *)
(***************************************************************************)
EXTENDS Naturals

CONSTANTS
  \* LiveSessions
  Turns, Procs, Objs, News, Types, RegistryLoads,
  \* InteractiveTurn
  Msgs, AgentProcs, SessionLoads

VARIABLES part,
  \* LiveSessions
  registryLoad, obj, made, store, active, live, process, turns, closing, closed, news, dropped,
  \* InteractiveTurn
  sessionLoad, reg, proc, turn, super, next, btw, left, grants, told

registryVars == <<registryLoad, obj, made, store, active, live, process, turns, closing, closed,
                  news, dropped>>
sessionVars == <<sessionLoad, reg, proc, turn, super, next, btw, left, grants, told>>
vars == <<part, registryVars, sessionVars>>

Registry == INSTANCE LiveSessions WITH
  Loads <- RegistryLoads, load <- registryLoad, proc <- process, turn <- turns

Session == INSTANCE InteractiveTurn WITH
  Procs <- AgentProcs, Loads <- SessionLoads, load <- sessionLoad

ASSUME ConstantsAssumption == Registry!ConstantsAssumption /\ Session!ConstantsAssumption

AnyOf(S) == CHOOSE x \in S : TRUE

Init ==
  /\ part \in {"registry", "session"}
  /\ Registry!Init /\ (part = "session" => registryLoad = AnyOf(RegistryLoads))
  /\ Session!Init
  /\ part = "registry" => sessionLoad = AnyOf(SessionLoads) /\ super = AnyOf(sessionLoad.supers)

Next ==
  /\ UNCHANGED part
  /\ \/ part = "registry" /\ Registry!Next /\ UNCHANGED sessionVars
     \/ part = "session" /\ Session!Next /\ UNCHANGED registryVars

Spec == Init /\ [][Next]_vars

-----------------------------------------------------------------------------
(* Properties: those of the parts *)

\* The types of the variables.
TypeOK == part \in {"registry", "session"} /\ Registry!TypeOK /\ Session!TypeOK

\* Turns come one after the other, on the sessions themselves.
OneByOne == ~registryLoad.overlap /\ registryLoad.copies \subseteq {FALSE}

\* A process is never out of reach of the registry, in it after it was closed, or in it
\* twice; with turns one after the other it also belongs to a session, no other works on
\* the same native session, and none is let go.
ProcessesKept ==
  /\ Registry!NoProcessLost /\ Registry!RegisteredNotClosed /\ Registry!RegisteredOnce
  /\ OneByOne => /\ Registry!OneProcessPerThread /\ Registry!EntryHasSession
                 /\ Registry!NothingDropped

\* No turn is cancelled, and nothing is written beside one.
LeftAlone == sessionLoad.cancels = 0 /\ sessionLoad.injects = 0 /\ "btw" \notin sessionLoad.kinds

\* One process at a time has an input, two of them at most, one after the other; and a turn
\* that is left alone shows its own answer, to the end.
OwnAnswer ==
  /\ Session!TwiceAtMost
  /\ LeftAlone => Session!OwnAnswer /\ Session!AnswerComplete

\* A request for approval waits for the user (of whom no turn was cancelled, and who has
\* not written beside one), and gets the answer to what the user was shown.
RequestReachesUser == LeftAlone => Session!RequestReachesUser
AnswersWhatWasShown == Session!AnswersWhatWasShown
=============================================================================
