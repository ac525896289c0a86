----------------------------- MODULE LiveSessions -----------------------------
(***************************************************************************)
(* The agent processes of one user's sessions (router_interactive.go,      *)
(* router_session_binding.go): liveSessions maps the id of a session to    *)
(* the process that serves it.  A session made by /new has the pending id  *)
(* until its agent reports the id of its own session, which the session    *)
(* then takes over, and its process with it.                               *)
(*                                                                         *)
(* A turn keeps the session it resolved: the object itself, whose id       *)
(* changes under it, or a copy, whose id does not (GetActiveSession).      *)
(* What a turn does with its process is left open here, up to the calls    *)
(* that touch the registry.                                                *)
(***************************************************************************)
EXTENDS Naturals

CONSTANTS
  Turns,   \* bound: turns, 1 .. Turns
  Procs,   \* bound: processes started, 1 .. Procs
  Objs,    \* bound: sessions made
  News,    \* bound: /new commands
  Types,   \* agent types
  Loads    \* what may happen: one of these loads does

\* Bounds: turns, processes, /new commands; the agent types used; whether turns overlap,
\* and the kinds of turns there are: {FALSE}, or BOOLEAN with copies.
Load == [turns : 0 .. Turns, overlap : BOOLEAN, procs : 0 .. Procs, news : 0 .. News,
         types : SUBSET Types, copies : SUBSET BOOLEAN]

ConstantsAssumption ==
  /\ Turns \in Nat /\ Procs \in Nat /\ Objs \in Nat /\ News \in Nat
  /\ Types # {} /\ Loads \subseteq Load

Turn == 1 .. Turns
Proc == 1 .. Procs
Obj == 1 .. Objs

\* Session ids.  A process started without a session reports its own number
\* as the id of the new one.  0 is the pending id, and also "no native id"; it
\* stands for all ids that shouldAdoptNativeSessionID gives up for a native one,
\* the user's numbered ids among them (HasPrefix, router_session_binding.go:38).
Id == 0 .. Procs
Pending == 0

VARIABLES
  load,     \* the load, which stays
  obj,      \* the session objects: id, agent type, native id, conversation
  made,     \* the number of session objects
  store,    \* Manager.sessions: id -> object, or 0
  active,   \* activeByUser
  live,     \* liveSessions: id -> process, or 0
  proc,     \* the processes
  turn,     \* the turns
  closing,  \* Router.Close: processes taken out of the registry, to be closed
  closed,   \* Router.Close has emptied the registry
  news,     \* the number of /new commands: every one begins a conversation
  dropped   \* processes rekeyInteractiveSession has let go (history)

vars == <<load, obj, made, store, active, live, proc, turn, closing, closed, news, dropped>>
sessionVars == <<obj, made, store, active, news>>
closeVars == <<closing, closed>>

ProcSt == {"none", "running", "exited", "closed"}
TurnPc == {"idle", "lookup", "start", "register", "update", "adopt", "rekey", "running", "done"}

AnyType == CHOOSE y \in Types : TRUE
NoObj == [id |-> Pending, type |-> AnyType, native |-> 0, conv |-> 0]
NoProc == [st |-> "none", type |-> AnyType, native |-> 0, conv |-> 0]

\* The session a turn refers to: an object, and what a copy of it has kept.
NoRef == [obj |-> 0, copy |-> FALSE, id |-> Pending, type |-> AnyType]
Copy(o) == [obj |-> o, copy |-> TRUE, id |-> obj[o].id, type |-> obj[o].type]
Pointer(o) == [NoRef EXCEPT !.obj = o]
IdOf(r) == IF r.copy THEN r.id ELSE obj[r.obj].id
TypeOf(r) == IF r.copy THEN r.type ELSE obj[r.obj].type

\* "sess" is what the turn resolved, "now" what its drain has got to by
\* binding ids, "resume" the native id its processes are started with.
NoTurn(pc) == [pc |-> pc, sess |-> NoRef, now |-> NoRef, resume |-> 0, own |-> 0,
               keep |-> FALSE, again |-> FALSE, conv |-> 0]

Init ==
  /\ load \in Loads
  /\ obj = [o \in Obj |-> NoObj]
  /\ made = 0
  /\ store = [i \in Id |-> 0]
  /\ active = Pending
  /\ live = [i \in Id |-> 0]
  /\ proc = [p \in Proc |-> NoProc]
  /\ turn = [t \in Turn |-> NoTurn("idle")]
  /\ closing = {}
  /\ closed = FALSE
  /\ news = 0
  /\ dropped = {}

Running(p) == p # 0 /\ proc[p].st = "running"
UnderWay == {t \in Turn : turn[t].pc \notin {"idle", "done"}}

---------------------------------------------------------------------------
(* The user and the process *)

\* /new: GetOrCreateSession of the pending id, whose native ids and type are
\* set in one update.  A process registered under the pending id stays there.
New(y) ==
  LET o == IF store[Pending] = 0 THEN made + 1 ELSE store[Pending] IN
    /\ news < load.news /\ ~closed /\ o \in Obj
    /\ news' = news + 1
    /\ made' = IF store[Pending] = 0 THEN made + 1 ELSE made
    /\ obj' = [obj EXCEPT ![o] = [id |-> Pending, type |-> y, native |-> 0, conv |-> news + 1]]
    /\ store' = [store EXCEPT ![Pending] = o]
    /\ active' = Pending
    /\ UNCHANGED <<live, proc, turn, closeVars, dropped>>

\* /switch to another session of the user.
Switch(i) ==
  /\ store[i] # 0 /\ i # active
  /\ active' = i
  /\ UNCHANGED <<obj, made, store, news, live, proc, turn, closeVars, dropped>>

\* The processes of ps, closed (a second Close does nothing).
CloseAll(ps) ==
  proc' = [p \in Proc |-> IF p \in ps /\ Running(p)
                          THEN [proc[p] EXCEPT !.st = "closed"] ELSE proc[p]]

\* removeInteractiveSession: whatever is registered under the ids.
Remove(ids) ==
  /\ CloseAll({live[i] : i \in ids})
  /\ live' = [i \in Id |-> IF i \in ids THEN 0 ELSE live[i]]

\* /dir <path>: the process of the active session has to be started anew.
DirSet ==
  /\ store[active] # 0 /\ live[active] # 0
  /\ Remove({active})
  /\ UNCHANGED <<sessionVars, turn, closeVars, dropped>>

\* A process ends by itself.
Exit(p) ==
  /\ Running(p)
  /\ proc' = [proc EXCEPT ![p].st = "exited"]
  /\ UNCHANGED <<sessionVars, live, turn, closeVars, dropped>>

\* Router.Close: the registry is replaced under the lock ...
Close ==
  /\ ~closed
  /\ closed' = TRUE
  /\ closing' = {live[i] : i \in Id} \ {0}
  /\ live' = [i \in Id |-> 0]
  /\ UNCHANGED <<sessionVars, proc, turn, dropped>>

\* ... and what was in it is closed after the unlock.
CloseTaken ==
  /\ closing # {}
  /\ CloseAll(closing)
  /\ closing' = {}
  /\ UNCHANGED <<sessionVars, live, turn, closed, dropped>>

---------------------------------------------------------------------------
(* A turn: resolveAgentExecution, streamInteractiveAIMessage *)

\* The turn goes on with its process.
GoOn(t) == turn' = [turn EXCEPT ![t].pc = "running", ![t].keep = FALSE]

Begun(t, ref, o) ==
  turn' = [turn EXCEPT ![t] = [NoTurn("lookup") EXCEPT !.sess = ref, !.now = ref,
                                 !.resume = o.native, !.conv = o.conv]]

Startable(t) ==
  /\ t <= load.turns /\ turn[t].pc = "idle" /\ \A s \in 1 .. t - 1 : turn[s].pc # "idle"
  /\ ~closed
  /\ load.overlap \/ UnderWay = {}

\* The active session, itself or a copy.
Begin(t, c) ==
  LET o == store[active] IN
    /\ Startable(t) /\ o # 0
    /\ Begun(t, IF c THEN Copy(o) ELSE Pointer(o), obj[o])
    /\ UNCHANGED <<sessionVars, live, proc, closeVars, dropped>>

\* There is no active session: one is made under the pending id.
BeginFirst(t, y) ==
  LET o == made + 1 IN
    /\ Startable(t) /\ store[active] = 0 /\ o \in Obj
    /\ obj' = [obj EXCEPT ![o] = [NoObj EXCEPT !.type = y, !.conv = news]]
    /\ made' = o
    /\ store' = [store EXCEPT ![Pending] = o]
    /\ active' = Pending
    /\ Begun(t, Pointer(o), obj'[o])
    /\ UNCHANGED <<news, live, proc, closeVars, dropped>>

\* getOrCreateInteractiveSession, under the lock: a process of the session's
\* type is taken, one of another type is closed.
Lookup(t) ==
  LET i == IdOf(turn[t].sess) IN
    /\ turn[t].pc = "lookup"
    /\ IF live[i] # 0 /\ proc[live[i]].type = TypeOf(turn[t].sess)
       THEN /\ turn' = [turn EXCEPT ![t].pc = "running", ![t].own = live[i]]
            /\ UNCHANGED <<live, proc>>
       ELSE /\ turn' = [turn EXCEPT ![t].pc = "start", ![t].own = 0]
            /\ Remove({i})
    /\ UNCHANGED <<sessionVars, closeVars, dropped>>

\* StartSession runs outside the lock, and is not cancelled with the turn.
Start(t, p) ==
  /\ turn[t].pc = "start" /\ p <= load.procs
  /\ proc[p].st = "none" /\ \A q \in 1 .. p - 1 : proc[q].st # "none"
  /\ proc' = [proc EXCEPT ![p] =
                [st |-> "running", type |-> TypeOf(turn[t].sess), conv |-> turn[t].conv,
                 native |-> IF turn[t].resume = 0 THEN p ELSE turn[t].resume]]
  /\ turn' = [turn EXCEPT ![t].pc = "register", ![t].own = p]
  /\ UNCHANGED <<sessionVars, live, closeVars, dropped>>

StartFails(t) ==
  /\ turn[t].pc = "start"
  /\ turn' = [turn EXCEPT ![t] = NoTurn("done")]
  /\ UNCHANGED <<sessionVars, live, proc, closeVars, dropped>>

\* Under the lock again: the turn that registers second closes its process and
\* takes the one that is there, of whatever type.  The first one may know the
\* native id of its process at once.
Register(t) ==
  LET i == IdOf(turn[t].sess) IN
    /\ turn[t].pc = "register"
    /\ \/ /\ live[i] # 0
          /\ turn' = [turn EXCEPT ![t].pc = "running", ![t].own = live[i]]
          /\ CloseAll({turn[t].own})
          /\ UNCHANGED live
       \/ /\ live[i] = 0
          /\ live' = [live EXCEPT ![i] = turn[t].own]
          /\ \E known \in BOOLEAN :
               turn' = [turn EXCEPT ![t].pc = IF known THEN "update" ELSE "running",
                                    ![t].keep = FALSE]
          /\ UNCHANGED proc
    /\ UNCHANGED <<sessionVars, closeVars, dropped>>

---------------------------------------------------------------------------
(* The native id: bindAgentNativeSessionID, in three critical sections *)

\* The id comes as an event.  The drain goes on with the session it is given
\* back, waitInteractiveEventsQuiesced drops it ("keep" is FALSE).
SessionEvent(t, keep) ==
  /\ turn[t].pc = "running" /\ proc[turn[t].own].st \in {"running", "exited"}
  /\ turn' = [turn EXCEPT ![t].pc = "update", ![t].keep = keep]
  /\ UNCHANGED <<sessionVars, live, proc, closeVars, dropped>>

\* The objects a change of the context reaches: the turn's own, unless it is a
\* copy, and the one the store has under its id.
Reached(r) == {store[IdOf(r)]} \cup (IF r.copy THEN {} ELSE {r.obj})

Update(t) ==
  LET now == turn[t].now IN
    /\ turn[t].pc = "update"
    /\ obj' = [o \in Obj |-> IF o \in Reached(now)
                             THEN [obj[o] EXCEPT !.native = proc[turn[t].own].native]
                             ELSE obj[o]]
    /\ IF IdOf(now) = Pending THEN turn' = [turn EXCEPT ![t].pc = "adopt"] ELSE GoOn(t)
    /\ UNCHANGED <<made, store, active, news, live, proc, closeVars, dropped>>

\* AdoptSessionID: the session takes the native id for its own, or is merged
\* into the session that has it.
Adopt(t) ==
  LET n == proc[turn[t].own].native IN
    /\ turn[t].pc = "adopt"
    /\ IF store[Pending] = 0
       THEN GoOn(t) /\ UNCHANGED <<obj, store, active>>
       ELSE /\ store' = [store EXCEPT ![Pending] = 0, ![n] = IF @ = 0 THEN store[Pending] ELSE @]
            /\ obj' = IF store[n] = 0 THEN [obj EXCEPT ![store[Pending]].id = n] ELSE obj
            /\ active' = IF active = Pending THEN n ELSE active
            /\ turn' = [turn EXCEPT ![t].pc = "rekey",
                         ![t].now = IF turn[t].keep THEN Pointer(store'[n]) ELSE @]
    /\ UNCHANGED <<made, news, live, proc, closeVars, dropped>>

\* Mutant of Rekey: the process stays under the old id as well.
RekeyCopies(t) ==
  LET p == live[Pending]
      n == proc[turn[t].own].native IN
    /\ turn[t].pc = "rekey"
    /\ live' = [live EXCEPT ![n] = IF @ = 0 THEN p ELSE @]
    /\ dropped' = IF p # 0 /\ live[n] \notin {0, p} THEN dropped \cup {p} ELSE dropped
    /\ GoOn(t)
    /\ UNCHANGED <<sessionVars, proc, closeVars>>

\* rekeyInteractiveSession: the entry moves with the session.  When the new
\* id has one already, the old process is let go, and is not closed.
Rekey(t) ==
  LET p == live[Pending]
      n == proc[turn[t].own].native IN
    /\ turn[t].pc = "rekey"
    /\ live' = IF p = 0 THEN live
               ELSE [live EXCEPT ![Pending] = 0, ![n] = IF @ = 0 THEN p ELSE @]
    /\ dropped' = IF p # 0 /\ live[n] # 0 THEN dropped \cup {p} ELSE dropped
    /\ GoOn(t)
    /\ UNCHANGED <<sessionVars, proc, closeVars>>

---------------------------------------------------------------------------
(* What a turn does with its process, as far as the registry is concerned *)

\* It ends on a done, waits for the user, or is cancelled: the process stays.
TurnEnds(t) ==
  /\ turn[t].pc = "running"
  /\ turn' = [turn EXCEPT ![t] = NoTurn("done")]
  /\ UNCHANGED <<sessionVars, live, proc, closeVars, dropped>>

\* An error event, a failed answer to a request, or a closed channel.
TurnFails(t) ==
  /\ turn[t].pc = "running"
  /\ turn' = [turn EXCEPT ![t] = NoTurn("done")]
  /\ Remove({IdOf(turn[t].now)})
  /\ UNCHANGED <<sessionVars, closeVars, dropped>>

\* The process does not run when it is written to, or sends nothing but an
\* old done: it is removed and started anew, once.
Restart(t) ==
  /\ turn[t].pc = "running" /\ ~turn[t].again
  /\ turn' = [turn EXCEPT ![t].pc = "lookup", ![t].again = TRUE, ![t].now = turn[t].sess]
  /\ Remove({IdOf(turn[t].sess)})
  /\ UNCHANGED <<sessionVars, closeVars, dropped>>

\* The agent refuses its own session: the native id is cleared, in the object
\* and in the store, and the turn starts without one.
RetryFresh(t) ==
  LET refs == {turn[t].now, turn[t].sess} IN
    /\ turn[t].pc = "running" /\ ~turn[t].again
    /\ obj' = [o \in Obj |-> IF \E r \in refs : o \in Reached(r)
                             THEN [obj[o] EXCEPT !.native = 0] ELSE obj[o]]
    /\ turn' = [turn EXCEPT ![t].pc = "lookup", ![t].again = TRUE, ![t].resume = 0,
                            ![t].now = turn[t].sess]
    /\ Remove({IdOf(r) : r \in refs})
    /\ UNCHANGED <<made, store, active, news, closeVars, dropped>>

TurnStep(t) ==
  \/ \E c \in load.copies : Begin(t, c)
  \/ \E y \in load.types : BeginFirst(t, y)
  \/ Lookup(t) \/ StartFails(t) \/ Register(t)
  \/ \E p \in Proc : Start(t, p)
  \/ \E keep \in BOOLEAN : SessionEvent(t, keep)
  \/ Update(t) \/ Adopt(t) \/ Rekey(t)
  \/ TurnEnds(t) \/ TurnFails(t) \/ Restart(t) \/ RetryFresh(t)

Next ==
  /\ UNCHANGED load
  /\ \/ \E y \in load.types : New(y)
     \/ \E i \in Id : Switch(i)
     \/ DirSet \/ Close \/ CloseTaken
     \/ \E p \in Proc : Exit(p)
     \/ \E t \in Turn : TurnStep(t)

Spec == Init /\ [][Next]_vars

---------------------------------------------------------------------------
(* Properties *)

RefSet == [obj : 0 .. Objs, copy : BOOLEAN, id : Id, type : Types]

\* The types of the variables.
TypeOK ==
  /\ load \in Loads
  /\ obj \in [Obj -> [id : Id, type : Types, native : Id, conv : 0 .. News]]
  /\ made \in 0 .. Objs
  /\ store \in [Id -> 0 .. Objs]
  /\ active \in Id
  /\ live \in [Id -> 0 .. Procs]
  /\ proc \in [Proc -> [st : ProcSt, type : Types, native : Id, conv : 0 .. News]]
  /\ turn \in [Turn -> [pc : TurnPc, sess : RefSet, now : RefSet, resume : Id,
                        own : 0 .. Procs, keep : BOOLEAN, again : BOOLEAN, conv : 0 .. News]]
  /\ closing \subseteq Proc
  /\ closed \in BOOLEAN
  /\ news \in 0 .. News
  /\ dropped \subseteq Proc

Registered == {live[i] : i \in Id} \ {0}
Starting == {turn[t].own : t \in {s \in Turn : turn[s].pc = "register"}}

\* A process the bridge has started and that runs can still be closed by it:
\* it is registered, about to be, or being closed, unless a rekey onto an id
\* that had a process already has let it go.  (Turns start processes outside
\* the lock, and move, remove and replace each other's.)
NoProcessLost ==
  \A p \in Proc : Running(p) => p \in Registered \cup Starting \cup closing \cup dropped

\* A registered process is not one the bridge has closed: a turn that looks
\* one up is not handed a process another turn has just got rid of.
RegisteredNotClosed == \A p \in Registered : proc[p].st # "closed"

\* A process is registered under one id: removing it leaves no second entry.
RegisteredOnce == \A i, j \in Id : i # j /\ live[i] # 0 => live[i] # live[j]

\* No two processes that can be reached work on one native session: each would
\* write its own continuation of the same transcript.  (For turns one at a
\* time on the sessions themselves.)
OneProcessPerThread ==
  \A p, q \in Registered : p # q /\ Running(p) /\ Running(q) => proc[p].native # proc[q].native

\* A registered process is found by the turns of a session: while no binding is
\* under way, the id it is registered under is the id of a session.
EntryHasSession ==
  \A i \in Id : live[i] # 0 /\ (\A t \in Turn : turn[t].pc # "rekey") => store[i] # 0

\* Once Router.Close has closed what was registered, and the last turn is over,
\* no process runs.
CloseClosesAll ==
  closed /\ closing = {} /\ UnderWay = {} => \A p \in Proc : ~Running(p)

\* A turn works in the conversation its session was in when it began: after
\* /new, not in a process of the conversation before.
NewIsNew ==
  \A t \in Turn : turn[t].pc = "running" => proc[turn[t].own].conv = turn[t].conv

\* A rekey lets no process go: the id a session takes over has no process.
\* (For turns one at a time on the sessions themselves.)
NothingDropped == dropped = {}
=============================================================================
