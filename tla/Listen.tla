-------------------------------- MODULE Listen --------------------------------
(***************************************************************************)
(* Which of the session logs a user is listening to: /listen, /unlisten    *)
(* and Router.Close against the table of running listeners (listen.go).    *)
(* What a listener does with the log is LogFollower's.                     *)
(***************************************************************************)
EXTENDS Naturals

CONSTANTS
  Callers,  \* commands of one user that may run at once
  Runs      \* bound: listeners that are started

ConstantsAssumption == Runs \in Nat

VARIABLES
  entry,      \* listenRuns[user]: the id of a run, 0 if there is none
  nextID,     \* nextListenID
  run,        \* run id -> "none", "follows", "ending", "ended"
  cancelled,  \* the runs whose context is cancelled
  rootCtx,    \* "open" or "cancelled"
  closing,    \* Router.Close: "no", "listeners" (they are cancelled) or "done"
  caller,     \* where each command is: "idle", "listen", "stopping", "unlisten"
  taken       \* the run each command has taken out of the table

vars == <<entry, nextID, run, cancelled, rootCtx, closing, caller, taken>>

IDs == 1 .. Runs

Init ==
  /\ entry = 0 /\ nextID = 0
  /\ run = [i \in IDs |-> "none"]
  /\ cancelled = {}
  /\ rootCtx = "open" /\ closing = "no"
  /\ caller = [c \in Callers |-> "idle"]
  /\ taken = [c \in Callers |-> 0]

Cancelled(i) == i \in cancelled \/ rootCtx = "cancelled"

Move(c, from, to) == caller[c] = from /\ caller' = [caller EXCEPT ![c] = to]

\* stopListen: the table first, under its lock.
StopListen(c, then) ==
  /\ Move(c, "idle", then)
  /\ taken' = [taken EXCEPT ![c] = entry]
  /\ entry' = 0
  /\ UNCHANGED <<nextID, run, cancelled, rootCtx, closing>>

\* stopListen: then the run, with the lock released.
CancelsTaken(c) == taken' = [taken EXCEPT ![c] = 0] /\ cancelled' = cancelled \cup ({taken[c]} \ {0})

Listen(c) == nextID < Runs /\ StopListen(c, "stopping")

ListenCancels(c) ==
  /\ Move(c, "stopping", "listen") /\ CancelsTaken(c)
  /\ UNCHANGED <<entry, nextID, run, rootCtx, closing>>

\* handleListenCommand: the new run is entered, whoever is there, and started.
Register(c) ==
  /\ nextID < Runs
  /\ Move(c, "listen", "idle")
  /\ nextID' = nextID + 1
  /\ entry' = nextID'
  /\ run' = [run EXCEPT ![nextID'] = "follows"]
  /\ UNCHANGED <<cancelled, rootCtx, closing, taken>>

\* With nobody listening it does nothing.
Unlisten(c) == entry # 0 /\ StopListen(c, "unlisten")

UnlistenCancels(c) ==
  /\ Move(c, "unlisten", "idle") /\ CancelsTaken(c)
  /\ UNCHANGED <<entry, nextID, run, rootCtx, closing>>

\* The follower returns: it was cancelled, or the log cannot be read.
Ends(i) ==
  /\ run[i] = "follows"
  /\ run' = [run EXCEPT ![i] = "ending"]
  /\ UNCHANGED <<entry, nextID, cancelled, rootCtx, closing, caller, taken>>

\* The deferred function of runNativeListen: only its own entry goes.
Deregister(i) ==
  /\ run[i] = "ending"
  /\ run' = [run EXCEPT ![i] = "ended"]
  /\ entry' = IF entry = i THEN 0 ELSE entry
  /\ UNCHANGED <<nextID, cancelled, rootCtx, closing, caller, taken>>

CloseListeners ==
  /\ closing = "no" /\ closing' = "listeners"
  /\ cancelled' = cancelled \cup ({entry} \ {0})
  /\ entry' = 0
  /\ UNCHANGED <<nextID, run, rootCtx, caller, taken>>

\* Mutant of CloseRoot: the context of the router is left alone.
CloseRootAlone ==
  /\ closing = "listeners" /\ closing' = "done"
  /\ UNCHANGED <<entry, nextID, run, cancelled, rootCtx, caller, taken>>

CloseRoot ==
  /\ closing = "listeners" /\ closing' = "done"
  /\ rootCtx' = "cancelled"
  /\ UNCHANGED <<entry, nextID, run, cancelled, caller, taken>>

Next ==
  \/ \E c \in Callers :
       Listen(c) \/ ListenCancels(c) \/ Register(c) \/ Unlisten(c) \/ UnlistenCancels(c)
  \/ \E i \in IDs : Ends(i) \/ Deregister(i)
  \/ CloseListeners \/ CloseRoot

\* A command and Close run to their ends, and a cancelled follower notices it.  (Every
\* run comes to a halt.)
Progress ==
  \/ CloseRoot
  \/ \E c \in Callers : ListenCancels(c) \/ Register(c) \/ UnlistenCancels(c)
  \/ \E i \in IDs : (Cancelled(i) /\ Ends(i)) \/ Deregister(i)
Fairness == WF_vars(Progress)

Spec == Init /\ [][Next]_vars /\ Fairness

---------------------------------------------------------------------------
(* Properties *)

\* The types of the variables.
TypeOK ==
  /\ entry \in 0 .. Runs /\ nextID \in 0 .. Runs
  /\ run \in [IDs -> {"none", "follows", "ending", "ended"}]
  /\ cancelled \subseteq IDs
  /\ rootCtx \in {"open", "cancelled"} /\ closing \in {"no", "listeners", "done"}
  /\ caller \in [Callers -> {"idle", "stopping", "listen", "unlisten"}]
  /\ taken \in [Callers -> 0 .. Runs]

\* A run that follows a log and was not told to end can be found in the table:
\* else no /unlisten reaches it (router/listen.go:46 and :53 are two steps).
CanBeStopped ==
  \A i \in IDs :
    run[i] = "follows" /\ ~Cancelled(i) => entry = i \/ \E c \in Callers : taken[c] = i

\* After a close every follower ends, one that a command was starting included.
CloseEndsAll == []<>(closing = "no" \/ \A i \in IDs : run[i] \in {"none", "ended"})
=============================================================================
