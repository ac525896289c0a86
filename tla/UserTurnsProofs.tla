---------------------------- MODULE UserTurnsProofs ----------------------------
(***************************************************************************)
(* What UserTurns promises of the registry and of a session, for every     *)
(* number of turns, processes, sessions and messages, and for every load.  *)
(*                                                                         *)
(* First the registry.  EntriesInv: the entries and the processes, however *)
(* turns overlap.  Single: turns one after the other, on the sessions      *)
(* themselves; a native session then belongs to one session, or to what    *)
(* is done for it.  Then the session.  SessionInv: what its processes may  *)
(* be at; AloneInv: what the turn and the channel of its process say of    *)
(* each other, when the turn is left alone.  Last, the theorems.           *)
(***************************************************************************)
EXTENDS UserTurns, Sequences, TLAPS

-----------------------------------------------------------------------------
(* The registry *)

\* The id of the session of a turn.
IdNow(t) == obj[turns[t].sess.obj].id
Busy(t) == turns[t].pc \notin {"idle", "done"}
HasProcess == {"register", "running", "update", "adopt", "rekey"}
Rekeying == \E t \in Registry!Turn : turns[t].pc = "rekey"

AtMostOne == \A s, t \in Registry!Turn : Busy(s) /\ Busy(t) => s = t

\* The store has the sessions made, each under its id.
StoreFits ==
  /\ \A i \in Registry!Id : store[i] # 0 => store[i] \in 1 .. made /\ obj[store[i]].id = i
  /\ \A o \in 1 .. made : store[obj[o].id] = o

\* A turn works on a session itself, and its process is the one registered for that.
TurnFits(t) ==
  LET u == turns[t] IN
    /\ u.sess = Registry!Pointer(u.sess.obj) /\ u.sess.obj \in 1 .. made /\ u.now = u.sess
    /\ u.pc \in {"start", "register"} => live[IdNow(t)] = 0
    /\ u.pc \in HasProcess => u.own # 0 /\ process[u.own].st # "none"
    /\ u.pc \in {"running", "update", "adopt"} => live[IdNow(t)] \in {0, u.own}
    /\ u.pc = "adopt" => IdNow(t) = 0
    /\ u.pc = "rekey" => /\ IdNow(t) = process[u.own].native
                         /\ live[IdNow(t)] = 0 /\ live[0] \in {0, u.own}

\* Every process started has a native session.
NativesKnown == \A p \in Registry!Proc : process[p].st # "none" => process[p].native # 0

\* A registered process was started, and belongs to a session.
EntriesFit ==
  \A i \in Registry!Id : live[i] # 0 =>
    process[live[i]].st # "none" /\ (store[i] = 0 => i = 0 /\ Rekeying)

\* A native id is that of one session, or of what is done for it: the session has the
\* id, or will be taken up under it; a process works on it, or is to be started on it.
TurnUses(t, n) ==
  /\ Busy(t)
  /\ turns[t].resume = n \/ (turns[t].pc \in HasProcess /\ process[turns[t].own].native = n)

Uses(i, n) ==
  \/ i = n /\ store[i] # 0
  \/ store[i] # 0 /\ obj[store[i]].native = n
  \/ live[i] # 0 /\ process[live[i]].native = n /\ ~(i = 0 /\ Rekeying)
  \/ \E t \in Registry!Turn : TurnUses(t, n) /\ IdNow(t) = i

ThreadsApart ==
  \A n \in Registry!Proc :
    /\ \A i, j \in Registry!Id : Uses(i, n) /\ Uses(j, n) => i = j
    /\ \A i \in Registry!Id : Uses(i, n) => process[n].st # "none"

\* The active session is one of the store, but at the beginning.
ActiveFits == store[active] = 0 => active = 0

Single ==
  /\ AtMostOne /\ StoreFits /\ (\A t \in Registry!Turn : Busy(t) => TurnFits(t))
  /\ NativesKnown /\ EntriesFit /\ ThreadsApart /\ dropped = {}

SingleInv == ActiveFits /\ (OneByOne => Single)

\* Turns that have started a process and not registered it.
Registering(t) == turns[t].pc = "register"

\* A turn under way has a session, drains for one, and has a process from its start on.
HasSession(r) == r \in Registry!RefSet /\ r.obj # 0
TurnsHaveSessions ==
  \A t \in Registry!Turn : turns[t].pc \notin {"idle", "done"} =>
    /\ HasSession(turns[t].sess) /\ HasSession(turns[t].now)
    /\ turns[t].pc \notin {"lookup", "start"} => turns[t].own # 0

\* What is registered, or taken out to be closed, was started.
Started == \A p \in Registry!Registered \cup closing : process[p].st # "none"

\* A process about to be registered runs or has ended by itself, and nobody else
\* has it.
StartingApart ==
  /\ \A t \in Registry!Turn : Registering(t) =>
       /\ turns[t].own \in Registry!Proc /\ process[turns[t].own].st \in {"running", "exited"}
       /\ turns[t].own \notin Registry!Registered \cup closing
  /\ \A s, t \in Registry!Turn : Registering(s) /\ Registering(t) /\ s # t => turns[s].own # turns[t].own

ClosingApart == closing \cap Registry!Registered = {}

Kept ==
  /\ Registry!RegisteredOnce /\ Registry!RegisteredNotClosed /\ Registry!NoProcessLost
  /\ Started /\ StartingApart /\ ClosingApart

\* The two halves of the invariant: types, and the rest.
Typed == Registry!TypeOK /\ TurnsHaveSessions
\* Nothing is taken out to be closed before Router.Close.
TakenByClose == closing = {} \/ closed

EntriesInv == Typed /\ Kept /\ TakenByClose

-----------------------------------------------------------------------------
(* Types *)

\* The parts of a reference.
LEMMA RefTypes ==
  ASSUME Registry!TypeOK, NEW r, HasSession(r)
  PROVE  Registry!IdOf(r) \in Registry!Id /\ Registry!TypeOf(r) \in Types /\ Registry!Reached(r) \subseteq 0 .. Objs
BY DEF Registry!TypeOK, HasSession, Registry!RefSet, Registry!IdOf, Registry!TypeOf, Registry!Reached, Registry!Id, Registry!Obj

\* A session's reference is well typed.
LEMMA Refs ==
  ASSUME Registry!TypeOK, Registry!ConstantsAssumption, NEW o \in Registry!Obj
  PROVE  HasSession(Registry!Pointer(o)) /\ HasSession(Registry!Copy(o)) /\ Registry!NoRef \in Registry!RefSet
<1>1. Registry!AnyType \in Types
  BY DEF Registry!AnyType, Registry!ConstantsAssumption
<1>2. Registry!Pending \in Registry!Id /\ o \in 0 .. Objs /\ o # 0 /\ 0 \in 0 .. Objs
  BY DEF Registry!Pending, Registry!Id, Registry!Obj, Registry!ConstantsAssumption
<1>3. Registry!NoRef \in Registry!RefSet
  BY <1>1, <1>2 DEF Registry!NoRef, Registry!RefSet
<1>5. HasSession(Registry!Pointer(o))
  BY <1>2, <1>3 DEF Registry!Pointer, HasSession, Registry!RefSet
<1>6. obj[o].id \in Registry!Id /\ obj[o].type \in Types
  BY DEF Registry!TypeOK
<1>7. HasSession(Registry!Copy(o))
  BY <1>2, <1>6 DEF Registry!Copy, HasSession, Registry!RefSet
<1> QED
  BY <1>3, <1>5, <1>7

ProcRec == [st : Registry!ProcSt, type : Types, native : Registry!Id, conv : 0 .. News]

\* Closing processes keeps them well typed.
LEMMA CloseAllTypes ==
  ASSUME Registry!TypeOK, NEW ps, Registry!CloseAll(ps)
  PROVE  process' \in [Registry!Proc -> ProcRec]
<1>1. ASSUME NEW p \in Registry!Proc
      PROVE  process[p] \in ProcRec /\ [process[p] EXCEPT !.st = "closed"] \in ProcRec
  BY ZenonT(60) DEF Registry!TypeOK, ProcRec, Registry!ProcSt
<1> QED
  BY <1>1 DEF Registry!CloseAll

LEMMA RemoveTypes ==
  ASSUME Registry!TypeOK, Registry!ConstantsAssumption, NEW ids, Registry!Remove(ids)
  PROVE  process' \in [Registry!Proc -> ProcRec] /\ live' \in [Registry!Id -> 0 .. Procs]
<1>1. process' \in [Registry!Proc -> ProcRec]
  BY CloseAllTypes DEF Registry!Remove
<1> QED
  BY <1>1 DEF Registry!TypeOK, Registry!Remove, Registry!ConstantsAssumption
TurnRec == [pc : Registry!TurnPc, sess : Registry!RefSet, now : Registry!RefSet, resume : Registry!Id, own : 0 .. Procs,
            keep : BOOLEAN, again : BOOLEAN, conv : 0 .. News]

\* A turn of the right type, with its sessions and its process if it is under way.
Well(u) ==
  /\ u \in TurnRec
  /\ u.pc \notin {"idle", "done"} =>
       /\ HasSession(u.sess) /\ HasSession(u.now)
       /\ u.pc \notin {"lookup", "start"} => u.own # 0

\* Well is what TurnsHaveSessions says of one turn.
LEMMA TurnsWell == Typed => \A t \in Registry!Turn : Well(turns[t])
BY DEF Typed, Registry!TypeOK, TurnsHaveSessions, Well, TurnRec

\* What is left to show of a step for Typed.
LEMMA WellTyped ==
  ASSUME Typed, UNCHANGED registryLoad,
         obj' \in [Registry!Obj -> [id : Registry!Id, type : Types, native : Registry!Id, conv : 0 .. News]],
         made' \in 0 .. Objs, store' \in [Registry!Id -> 0 .. Objs], active' \in Registry!Id,
         live' \in [Registry!Id -> 0 .. Procs], process' \in [Registry!Proc -> ProcRec],
         turns' \in [Registry!Turn -> TurnRec], \A t \in Registry!Turn : Well(turns[t])',
         closing' \subseteq Registry!Proc, closed' \in BOOLEAN, news' \in 0 .. News,
         dropped' \subseteq Registry!Proc
  PROVE  Typed'
BY DEF Typed, Registry!TypeOK, TurnsHaveSessions, Well, TurnRec, ProcRec

\* One turn changes, and stays well.
LEMMA TurnChanges ==
  ASSUME Typed, NEW t \in Registry!Turn, NEW u, Well(u), turns' = [turns EXCEPT ![t] = u]
  PROVE  turns' \in [Registry!Turn -> TurnRec] /\ \A s \in Registry!Turn : Well(turns[s])'
<1>1. turns \in [Registry!Turn -> TurnRec] /\ u \in TurnRec
  BY DEF Typed, Registry!TypeOK, TurnRec, Well
<1> QED
  BY <1>1, TurnsWell

\* No turn changes.
LEMMA TurnStays ==
  ASSUME Typed, UNCHANGED turns
  PROVE  turns' \in [Registry!Turn -> TurnRec] /\ \A s \in Registry!Turn : Well(turns[s])'
BY TurnsWell DEF Typed, Registry!TypeOK, TurnRec

LEMMA NoTurnWell ==
  ASSUME Registry!ConstantsAssumption, Typed, NEW pc \in Registry!TurnPc
  PROVE  Registry!NoTurn(pc) \in TurnRec
<1>1. Registry!AnyType \in Types
  BY DEF Registry!AnyType, Registry!ConstantsAssumption
<1>2. Registry!NoRef \in Registry!RefSet
  BY <1>1 DEF Registry!NoRef, Registry!RefSet, Registry!Pending, Registry!Id, Registry!ConstantsAssumption
<1> QED
  BY <1>2 DEF Registry!NoTurn, TurnRec, Registry!Id, Registry!ConstantsAssumption

\* What the load allows.
LEMMA LoadTypes ==
  ASSUME Typed, Registry!ConstantsAssumption
  PROVE  /\ registryLoad.types \subseteq Types /\ registryLoad.copies \subseteq BOOLEAN
         /\ registryLoad.news \in 0 .. News
BY DEF Typed, Registry!TypeOK, Registry!ConstantsAssumption, Registry!Load

-----------------------------------------------------------------------------
(* Types, of the steps of the others *)

\* /new, /switch, /dir, Close, and processes that end.
LEMMA OthersTyped ==
  ASSUME UNCHANGED registryLoad, Typed, Registry!ConstantsAssumption,
         \/ \E y \in registryLoad.types : Registry!New(y)
         \/ \E i \in Registry!Id : Registry!Switch(i)
         \/ Registry!DirSet \/ Registry!Close \/ Registry!CloseTaken
         \/ \E p \in Registry!Proc : Registry!Exit(p)
  PROVE  Typed'
<1> USE DEF Registry!sessionVars, Registry!closeVars
<1>0. Registry!TypeOK /\ Registry!Pending \in Registry!Id /\ 0 \in Registry!Id /\ 0 \in 0 .. Procs
  BY DEF Typed, Registry!Pending, Registry!Id, Registry!ConstantsAssumption
<1>1. CASE \E y \in registryLoad.types : Registry!New(y)
  <2> PICK y \in registryLoad.types : Registry!New(y)
    BY <1>1
  <2> DEFINE o == IF store[Registry!Pending] = 0 THEN made + 1 ELSE store[Registry!Pending]
  <2>1. /\ o \in Registry!Obj /\ news < registryLoad.news /\ news' = news + 1
        /\ made' = IF store[Registry!Pending] = 0 THEN made + 1 ELSE made
        /\ obj' = [obj EXCEPT ![o] = [id |-> Registry!Pending, type |-> y, native |-> 0, conv |-> news + 1]]
        /\ store' = [store EXCEPT ![Registry!Pending] = o] /\ active' = Registry!Pending
        /\ UNCHANGED <<live, process, turns, closing, closed, dropped>>
    BY DEF Registry!New
  <2>a. news \in 0 .. News /\ made \in 0 .. Objs /\ News \in Nat /\ Objs \in Nat
    BY <1>0 DEF Registry!TypeOK, Registry!ConstantsAssumption
  <2>b. registryLoad.news \in 0 .. News
    BY LoadTypes
  <2>c. news' \in 0 .. News
    BY <2>a, <2>b, <2>1
  <2>d. o \in 1 .. Objs
    BY <2>1 DEF Registry!Obj
  <2>2. news' \in 0 .. News /\ made' \in 0 .. Objs /\ o \in 0 .. Objs
    BY <2>a, <2>1, <2>c, <2>d
  <2>3. [id |-> Registry!Pending, type |-> y, native |-> 0, conv |-> news + 1]
          \in [id : Registry!Id, type : Types, native : Registry!Id, conv : 0 .. News]
    BY <1>0, <2>1, <2>2, LoadTypes
  <2>4. obj' \in [Registry!Obj -> [id : Registry!Id, type : Types, native : Registry!Id, conv : 0 .. News]]
    BY <1>0, <2>1, <2>3 DEF Registry!TypeOK
  <2>5. store' \in [Registry!Id -> 0 .. Objs] /\ active' \in Registry!Id
    BY <1>0, <2>1, <2>2 DEF Registry!TypeOK
  <2> QED
    BY <1>0, <2>1, <2>2, <2>4, <2>5, WellTyped, TurnStays DEF Registry!TypeOK, ProcRec
<1>2. CASE \E i \in Registry!Id : Registry!Switch(i)
  BY <1>0, <1>2, WellTyped, TurnStays DEF Registry!Switch, Registry!TypeOK, ProcRec
<1>3. CASE Registry!DirSet
  <2>1. Registry!Remove({active})
    BY <1>3 DEF Registry!DirSet
  <2> QED
    BY <1>0, <1>3, <2>1, RemoveTypes, WellTyped, TurnStays DEF Registry!DirSet, Registry!TypeOK, ProcRec
<1>4. CASE Registry!Close
  <2>1. {live[i] : i \in Registry!Id} \ {0} \subseteq Registry!Proc
    BY <1>0 DEF Registry!TypeOK, Registry!Proc, Registry!ConstantsAssumption
  <2>2. live' \in [Registry!Id -> 0 .. Procs]
    BY <1>0, <1>4 DEF Registry!Close
  <2> QED
    BY <1>0, <1>4, <2>1, <2>2, WellTyped, TurnStays DEF Registry!Close, Registry!TypeOK, ProcRec
<1>5. CASE Registry!CloseTaken
  <2>1. Registry!CloseAll(closing)
    BY <1>5 DEF Registry!CloseTaken
  <2> QED
    BY <1>0, <1>5, <2>1, CloseAllTypes, WellTyped, TurnStays DEF Registry!CloseTaken, Registry!TypeOK
<1>6. CASE \E p \in Registry!Proc : Registry!Exit(p)
  <2> PICK p \in Registry!Proc : Registry!Exit(p)
    BY <1>6
  <2>1. process' \in [Registry!Proc -> ProcRec]
    BY <1>0 DEF Registry!Exit, Registry!TypeOK, ProcRec, Registry!ProcSt
  <2> QED
    BY <1>0, <2>1, WellTyped, TurnStays DEF Registry!Exit, Registry!TypeOK
<1> QED
  BY <1>1, <1>2, <1>3, <1>4, <1>5, <1>6
-----------------------------------------------------------------------------
(* Types, of the steps of a turn *)

\* A turn that is begun for a session.
LEMMA BegunWell ==
  ASSUME Registry!ConstantsAssumption, Typed, NEW t \in Registry!Turn, NEW ref, HasSession(ref), NEW o,
         o.native \in Registry!Id, o.conv \in 0 .. News, Registry!Begun(t, ref, o)
  PROVE  turns' \in [Registry!Turn -> TurnRec] /\ \A s \in Registry!Turn : Well(turns[s])'
<1> DEFINE u == [Registry!NoTurn("lookup") EXCEPT !.sess = ref, !.now = ref,
                                          !.resume = o.native, !.conv = o.conv]
<1>1. Registry!NoTurn("lookup") \in TurnRec /\ Registry!NoTurn("lookup").pc = "lookup"
  BY NoTurnWell DEF Registry!TurnPc, Registry!NoTurn
<1>2. ref \in Registry!RefSet
  BY DEF HasSession
<1>3. u \in TurnRec /\ u.sess = ref /\ u.now = ref /\ u.pc = "lookup"
  BY <1>1, <1>2 DEF TurnRec
<1>4. Well(u)
  BY <1>3 DEF Well
<1> QED
  BY <1>4, TurnChanges DEF Registry!Begun

\* A turn that is over.
LEMMA OverWell ==
  ASSUME Registry!ConstantsAssumption, Typed, NEW t \in Registry!Turn, turns' = [turns EXCEPT ![t] = Registry!NoTurn("done")]
  PROVE  turns' \in [Registry!Turn -> TurnRec] /\ \A s \in Registry!Turn : Well(turns[s])'
<1>1. Registry!NoTurn("done") \in TurnRec /\ Registry!NoTurn("done").pc = "done"
  BY NoTurnWell DEF Registry!TurnPc, Registry!NoTurn
<1>2. Well(Registry!NoTurn("done"))
  BY <1>1 DEF Well
<1> QED
  BY <1>2, TurnChanges

\* A turn begins.
LEMMA BeginTyped ==
  ASSUME UNCHANGED registryLoad, Typed, Registry!ConstantsAssumption, NEW t \in Registry!Turn,
         \/ \E c \in registryLoad.copies : Registry!Begin(t, c)
         \/ \E y \in registryLoad.types : Registry!BeginFirst(t, y)
  PROVE  Typed'
<1> USE DEF Registry!sessionVars, Registry!closeVars
<1>0. Registry!TypeOK /\ Registry!Pending \in Registry!Id /\ 0 \in Registry!Id /\ 0 \in 0 .. Procs
  BY DEF Typed, Registry!Pending, Registry!Id, Registry!ConstantsAssumption
<1>1. CASE \E c \in registryLoad.copies : Registry!Begin(t, c)
  <2> PICK c \in registryLoad.copies : Registry!Begin(t, c)
    BY <1>1
  <2> DEFINE o == store[active]
  <2>1. o \in Registry!Obj
    BY <1>0 DEF Registry!Begin, Registry!TypeOK, Registry!Obj
  <2>2. obj[o].native \in Registry!Id /\ obj[o].conv \in 0 .. News
    BY <1>0, <2>1 DEF Registry!TypeOK
  <2>3. HasSession(IF c THEN Registry!Copy(o) ELSE Registry!Pointer(o))
    BY <1>0, <2>1, Refs
  <2>4. Registry!Begun(t, IF c THEN Registry!Copy(o) ELSE Registry!Pointer(o), obj[o])
    BY DEF Registry!Begin
  <2>5. turns' \in [Registry!Turn -> TurnRec] /\ \A s \in Registry!Turn : Well(turns[s])'
    BY <2>2, <2>3, <2>4, BegunWell
  <2> QED
    BY <1>0, <2>5, WellTyped DEF Registry!Begin, Registry!TypeOK, ProcRec
<1>2. CASE \E y \in registryLoad.types : Registry!BeginFirst(t, y)
  <2> PICK y \in registryLoad.types : Registry!BeginFirst(t, y)
    BY <1>2
  <2> DEFINE o == made + 1
             first == [Registry!NoObj EXCEPT !.type = y, !.conv = news]
  <2>1. /\ o \in Registry!Obj /\ made' = o /\ store' = [store EXCEPT ![Registry!Pending] = o] /\ active' = Registry!Pending
        /\ obj' = [obj EXCEPT ![o] = first]
        /\ Registry!Begun(t, Registry!Pointer(o), obj'[o])
        /\ UNCHANGED <<news, live, process, closing, closed, dropped>>
    BY DEF Registry!BeginFirst
  <2>2. Registry!AnyType \in Types
    BY DEF Registry!AnyType, Registry!ConstantsAssumption
  <2>3. Registry!NoObj \in [id : Registry!Id, type : Types, native : Registry!Id, conv : 0 .. News]
    BY <1>0, <2>2 DEF Registry!NoObj, Registry!ConstantsAssumption
  <2>4. first \in [id : Registry!Id, type : Types, native : Registry!Id, conv : 0 .. News]
    BY <1>0, <2>3, LoadTypes DEF Registry!TypeOK
  <2>5. obj' \in [Registry!Obj -> [id : Registry!Id, type : Types, native : Registry!Id, conv : 0 .. News]] /\ obj'[o] = first
    BY <1>0, <2>1, <2>4 DEF Registry!TypeOK
  <2>6. o \in 0 .. Objs
    BY <2>1 DEF Registry!Obj
  <2>7. made' \in 0 .. Objs /\ store' \in [Registry!Id -> 0 .. Objs] /\ active' \in Registry!Id
    BY <1>0, <2>1, <2>6 DEF Registry!TypeOK
  <2>8. HasSession(Registry!Pointer(o))
    BY <1>0, <2>1, Refs
  <2>9. turns' \in [Registry!Turn -> TurnRec] /\ \A s \in Registry!Turn : Well(turns[s])'
    BY <2>1, <2>4, <2>5, <2>8, BegunWell
  <2> QED
    BY <1>0, <2>1, <2>5, <2>7, <2>9, WellTyped DEF Registry!TypeOK, ProcRec
<1> QED
  BY <1>1, <1>2

\* A turn goes on, for the sessions it had or for others.
LEMMA GoesOnWell ==
  ASSUME Typed, NEW t \in Registry!Turn, NEW u, u \in TurnRec, HasSession(u.sess), HasSession(u.now),
         u.pc \in {"lookup", "start"} \/ u.own # 0,
         turns' = [turns EXCEPT ![t] = u]
  PROVE  turns' \in [Registry!Turn -> TurnRec] /\ \A s \in Registry!Turn : Well(turns[s])'
BY TurnChanges DEF Well

LEMMA GoOnWell ==
  ASSUME Typed, NEW t \in Registry!Turn, turns[t].pc \notin {"idle", "done", "lookup", "start"}, Registry!GoOn(t)
  PROVE  turns' \in [Registry!Turn -> TurnRec] /\ \A s \in Registry!Turn : Well(turns[s])'
<1> DEFINE u == [turns[t] EXCEPT !.pc = "running", !.keep = FALSE]
<1>1. Well(turns[t])
  BY TurnsWell
<1>2. u \in TurnRec /\ HasSession(u.sess) /\ HasSession(u.now) /\ u.own # 0
  BY <1>1 DEF Well, TurnRec, Registry!TurnPc
<1>3. turns' = [turns EXCEPT ![t] = u]
  BY DEF Registry!GoOn, Typed, Registry!TypeOK
<1> QED
  BY <1>2, <1>3, GoesOnWell

\* The process of a turn: looked up, started, registered.
LEMMA ProcessTyped ==
  ASSUME UNCHANGED registryLoad, Typed, Registry!ConstantsAssumption, NEW t \in Registry!Turn,
         \/ Registry!Lookup(t) \/ \E p \in Registry!Proc : Registry!Start(t, p)
         \/ Registry!StartFails(t) \/ Registry!Register(t)
  PROVE  Typed'
<1> USE DEF Registry!sessionVars, Registry!closeVars
<1>0. Registry!TypeOK /\ Well(turns[t]) /\ turns \in [Registry!Turn -> TurnRec]
  BY TurnsWell DEF Typed, Registry!TypeOK, TurnRec
<1>1. ASSUME turns[t].pc \notin {"idle", "done"}
      PROVE  /\ HasSession(turns[t].sess) /\ HasSession(turns[t].now)
             /\ Registry!IdOf(turns[t].sess) \in Registry!Id /\ Registry!TypeOf(turns[t].sess) \in Types
  BY <1>0, <1>1, RefTypes DEF Well
<1>2. CASE Registry!Lookup(t)
  <2> DEFINE i == Registry!IdOf(turns[t].sess)
  <2>1. turns[t].pc = "lookup" /\ i \in Registry!Id
    BY <1>1, <1>2 DEF Registry!Lookup
  <2>2. CASE live[i] # 0 /\ process[live[i]].type = Registry!TypeOf(turns[t].sess)
    <3> DEFINE u == [turns[t] EXCEPT !.pc = "running", !.own = live[i]]
    <3>1. turns' = [turns EXCEPT ![t] = u]
      BY <1>0, <1>2, <2>2 DEF Registry!Lookup
    <3>2. live[i] \in 0 .. Procs
      BY <1>0, <2>1 DEF Registry!TypeOK
    <3>3. u \in TurnRec /\ HasSession(u.sess) /\ HasSession(u.now) /\ u.own # 0
      BY <1>0, <1>1, <2>1, <2>2, <3>2 DEF TurnRec, Registry!TurnPc
    <3> QED
      BY <1>0, <1>2, <2>2, <3>1, <3>3, GoesOnWell, WellTyped DEF Registry!Lookup, Registry!TypeOK, ProcRec
  <2>3. CASE ~(live[i] # 0 /\ process[live[i]].type = Registry!TypeOf(turns[t].sess))
    <3> DEFINE u == [turns[t] EXCEPT !.pc = "start", !.own = 0]
    <3>1. turns' = [turns EXCEPT ![t] = u] /\ Registry!Remove({i})
      BY <1>0, <1>2, <2>3 DEF Registry!Lookup
    <3>2. u \in TurnRec /\ HasSession(u.sess) /\ HasSession(u.now) /\ u.pc = "start"
      <4>1. 0 \in 0 .. Procs
        BY DEF Registry!ConstantsAssumption
      <4> QED
        BY <1>0, <1>1, <2>1, <4>1 DEF TurnRec, Registry!TurnPc
    <3> QED
      BY <1>0, <1>2, <2>3, <3>1, <3>2, RemoveTypes, GoesOnWell, WellTyped DEF Registry!Lookup, Registry!TypeOK
  <2> QED
    BY <2>2, <2>3
<1>3. CASE \E p \in Registry!Proc : Registry!Start(t, p)
  <2> PICK p \in Registry!Proc : Registry!Start(t, p)
    BY <1>3
  <2> DEFINE u == [turns[t] EXCEPT !.pc = "register", !.own = p]
  <2>1. turns[t].pc = "start" /\ turns' = [turns EXCEPT ![t] = u]
    BY <1>0 DEF Registry!Start
  <2>2. p \in 0 .. Procs /\ p \in Registry!Id /\ p # 0
    BY DEF Registry!Proc, Registry!Id
  <2>3. u \in TurnRec /\ HasSession(u.sess) /\ HasSession(u.now) /\ u.own # 0
    BY <1>0, <1>1, <2>1, <2>2 DEF TurnRec, Registry!TurnPc
  <2>4. [st |-> "running", type |-> Registry!TypeOf(turns[t].sess), conv |-> turns[t].conv,
         native |-> IF turns[t].resume = 0 THEN p ELSE turns[t].resume] \in ProcRec
    BY <1>0, <1>1, <2>1, <2>2 DEF ProcRec, Registry!ProcSt, TurnRec
  <2>5. process' \in [Registry!Proc -> ProcRec]
    BY <1>0, <2>4 DEF Registry!Start, Registry!TypeOK, ProcRec
  <2> QED
    BY <1>0, <2>1, <2>3, <2>5, GoesOnWell, WellTyped DEF Registry!Start, Registry!TypeOK
<1>4. CASE Registry!StartFails(t)
  BY <1>0, <1>4, OverWell, WellTyped DEF Registry!StartFails, Registry!TypeOK, ProcRec
<1>5. CASE Registry!Register(t)
  <2> DEFINE i == Registry!IdOf(turns[t].sess)
  <2>1. turns[t].pc = "register" /\ i \in Registry!Id /\ live[i] \in 0 .. Procs
    BY <1>0, <1>1, <1>5 DEF Registry!Register, Registry!TypeOK
  <2>2. CASE live[i] # 0
    <3> DEFINE u == [turns[t] EXCEPT !.pc = "running", !.own = live[i]]
    <3>1. turns' = [turns EXCEPT ![t] = u] /\ Registry!CloseAll({turns[t].own}) /\ UNCHANGED live
      BY <1>0, <1>5, <2>2 DEF Registry!Register
    <3>2. u \in TurnRec /\ HasSession(u.sess) /\ HasSession(u.now) /\ u.own # 0
      BY <1>0, <1>1, <2>1, <2>2 DEF TurnRec, Registry!TurnPc
    <3> QED
      BY <1>0, <1>5, <3>1, <3>2, CloseAllTypes, GoesOnWell, WellTyped DEF Registry!Register, Registry!TypeOK
  <2>3. CASE live[i] = 0
    <3>1. PICK known \in BOOLEAN :
            turns' = [turns EXCEPT ![t].pc = IF known THEN "update" ELSE "running", ![t].keep = FALSE]
      BY <1>5, <2>3 DEF Registry!Register
    <3> DEFINE u == [turns[t] EXCEPT !.pc = IF known THEN "update" ELSE "running", !.keep = FALSE]
    <3>2. turns' = [turns EXCEPT ![t] = u]
      BY <1>0, <3>1
    <3>3. u \in TurnRec /\ HasSession(u.sess) /\ HasSession(u.now) /\ u.own # 0
      BY <1>0, <1>1, <2>1 DEF Well, TurnRec, Registry!TurnPc
    <3>4. live' \in [Registry!Id -> 0 .. Procs]
      BY <1>0, <1>5, <2>1, <2>3 DEF Registry!Register, Registry!TypeOK, TurnRec
    <3>5. turns' \in [Registry!Turn -> TurnRec] /\ \A s \in Registry!Turn : Well(turns[s])'
      BY <3>2, <3>3, GoesOnWell
    <3>6. UNCHANGED <<obj, made, store, active, news, process, closing, closed, dropped>>
      BY <1>5, <2>3 DEF Registry!Register
    <3> QED
      BY <1>0, <3>4, <3>5, <3>6, WellTyped DEF Registry!TypeOK, ProcRec
  <2> QED
    BY <2>2, <2>3
<1> QED
  BY <1>2, <1>3, <1>4, <1>5

\* The session id the agent gives, stored, and the registry renamed after it.
LEMMA BindingTyped ==
  ASSUME UNCHANGED registryLoad, Typed, Registry!ConstantsAssumption, NEW t \in Registry!Turn,
         \/ \E keep \in BOOLEAN : Registry!SessionEvent(t, keep)
         \/ Registry!Update(t) \/ Registry!Adopt(t) \/ Registry!Rekey(t)
  PROVE  Typed'
<1> USE DEF Registry!sessionVars, Registry!closeVars
<1>a. Registry!TypeOK /\ Well(turns[t]) /\ turns \in [Registry!Turn -> TurnRec] /\ turns[t] \in TurnRec
  BY TurnsWell DEF Typed, Registry!TypeOK, TurnRec
<1>b. Registry!Pending \in Registry!Id /\ 0 \in 0 .. Objs /\ 0 \in 0 .. Procs
  BY DEF Registry!Pending, Registry!Id, Registry!ConstantsAssumption
<1>0. /\ Registry!TypeOK /\ Well(turns[t]) /\ turns \in [Registry!Turn -> TurnRec] /\ turns[t] \in TurnRec
      /\ Registry!Pending \in Registry!Id /\ 0 \in 0 .. Objs /\ 0 \in 0 .. Procs
  BY <1>a, <1>b, SMTT(60)
<1>1. turns[t].pc \notin {"idle", "done", "lookup", "start"}
  BY DEF Registry!SessionEvent, Registry!Update, Registry!Adopt, Registry!Rekey
<1>2. HasSession(turns[t].sess) /\ HasSession(turns[t].now) /\ turns[t].own # 0
  BY <1>0, <1>1 DEF Well
<1> DEFINE n == process[turns[t].own].native
<1>3. turns[t].own \in Registry!Proc /\ n \in Registry!Id
  BY <1>0, <1>2 DEF Registry!TypeOK, Registry!Proc, TurnRec
<1>4. CASE \E keep \in BOOLEAN : Registry!SessionEvent(t, keep)
  <2> PICK keep \in BOOLEAN : Registry!SessionEvent(t, keep)
    BY <1>4
  <2> DEFINE u == [turns[t] EXCEPT !.pc = "update", !.keep = keep]
  <2>1. turns' = [turns EXCEPT ![t] = u]
    BY <1>0 DEF Registry!SessionEvent
  <2>2. u \in TurnRec /\ HasSession(u.sess) /\ HasSession(u.now) /\ u.own # 0
    BY <1>0, <1>2 DEF TurnRec, Registry!TurnPc
  <2> QED
    BY <1>0, <2>1, <2>2, GoesOnWell, WellTyped DEF Registry!SessionEvent, Registry!TypeOK, ProcRec
<1>5. CASE Registry!Update(t)
  <2>1. ASSUME NEW o \in Registry!Obj
        PROVE  [obj[o] EXCEPT !.native = n] \in [id : Registry!Id, type : Types, native : Registry!Id, conv : 0 .. News]
    BY <1>0, <1>3 DEF Registry!TypeOK
  <2>2. obj' \in [Registry!Obj -> [id : Registry!Id, type : Types, native : Registry!Id, conv : 0 .. News]]
    BY <1>0, <1>5, <2>1 DEF Registry!Update, Registry!TypeOK
  <2>3. turns' \in [Registry!Turn -> TurnRec] /\ \A s \in Registry!Turn : Well(turns[s])'
    <3>1. CASE Registry!IdOf(turns[t].now) = Registry!Pending
      <4> DEFINE u == [turns[t] EXCEPT !.pc = "adopt"]
      <4>1. turns' = [turns EXCEPT ![t] = u]
        BY <1>0, <1>5, <3>1 DEF Registry!Update
      <4>2. u \in TurnRec /\ HasSession(u.sess) /\ HasSession(u.now) /\ u.own # 0
        BY <1>0, <1>2 DEF TurnRec, Registry!TurnPc
      <4> QED
        BY <4>1, <4>2, GoesOnWell
    <3>2. CASE Registry!IdOf(turns[t].now) # Registry!Pending
      BY <1>1, <1>5, <3>2, GoOnWell DEF Registry!Update
    <3> QED
      BY <3>1, <3>2
  <2> QED
    BY <1>0, <1>5, <2>2, <2>3, WellTyped DEF Registry!Update, Registry!TypeOK, ProcRec
<1>6. CASE Registry!Adopt(t)
  <2>1. CASE store[Registry!Pending] = 0
    <3>1. Registry!GoOn(t) /\ UNCHANGED <<obj, store, active, made, news, live, process, closing, closed, dropped>>
      BY <1>6, <2>1, SMTT(60) DEF Registry!Adopt
    <3> QED
      BY <1>0, <1>1, <3>1, GoOnWell, WellTyped DEF Registry!TypeOK, ProcRec
  <2>2. CASE store[Registry!Pending] # 0
    <3> DEFINE adopted == IF turns[t].keep THEN Registry!Pointer(store'[n]) ELSE turns[t].now
               u == [turns[t] EXCEPT !.pc = "rekey", !.now = adopted]
    <3>1. /\ store' = [store EXCEPT ![Registry!Pending] = 0, ![n] = IF @ = 0 THEN store[Registry!Pending] ELSE @]
          /\ obj' = IF store[n] = 0 THEN [obj EXCEPT ![store[Registry!Pending]].id = n] ELSE obj
          /\ active' = IF active = Registry!Pending THEN n ELSE active
          /\ turns' = [turns EXCEPT ![t].pc = "rekey",
                        ![t].now = IF turns[t].keep THEN Registry!Pointer(store'[n]) ELSE @]
          /\ UNCHANGED <<made, news, live, process, closing, closed, dropped>>
      BY <1>6, <2>2 DEF Registry!Adopt
    <3>a. store \in [Registry!Id -> 0 .. Objs] /\ active \in Registry!Id /\ store[Registry!Pending] \in Registry!Obj
      BY <1>0, <2>2 DEF Registry!TypeOK, Registry!Obj, Registry!ConstantsAssumption
    <3>b. store' \in [Registry!Id -> 0 .. Objs] /\ active' \in Registry!Id
      BY <1>0, <1>3, <3>1, <3>a
    <3>c. n # Registry!Pending => store'[n] = IF store[n] = 0 THEN store[Registry!Pending] ELSE store[n]
      BY <1>3, <3>1, <3>a
    <3>d. n = Registry!Pending => store'[n] = store[Registry!Pending]
      BY <1>3, <3>1, <3>a DEF Registry!Pending
    <3>2. store' \in [Registry!Id -> 0 .. Objs] /\ store'[n] \in Registry!Obj /\ active' \in Registry!Id
      BY <1>0, <1>3, <3>a, <3>b, <3>c, <3>d DEF Registry!Obj, Registry!ConstantsAssumption
    <3>3. obj' \in [Registry!Obj -> [id : Registry!Id, type : Types, native : Registry!Id, conv : 0 .. News]]
      BY <1>0, <1>3, <2>2, <3>1, ZenonT(60) DEF Registry!TypeOK, Registry!Obj
    <3>4. HasSession(adopted)
      BY <1>0, <1>2, <3>2, Refs
    <3>5. turns' = [turns EXCEPT ![t] = u]
      <4>1. turns' = [turns EXCEPT ![t].pc = "rekey", ![t].now = adopted]
        <5>1. CASE turns[t].keep
          BY <1>0, <3>1, <5>1
        <5>2. CASE ~turns[t].keep
          BY <1>0, <3>1, <5>2
        <5> QED
          BY <5>1, <5>2
      <4> HIDE DEF adopted
      <4> QED
        BY <1>0, <4>1
    <3>6. adopted \in Registry!RefSet
      BY <3>4 DEF HasSession
    <3>7. u \in TurnRec /\ u.sess = turns[t].sess /\ u.now = adopted /\ u.own # 0
      BY <1>0, <1>2, <3>6 DEF TurnRec, Registry!TurnPc
    <3>8. turns' \in [Registry!Turn -> TurnRec] /\ \A s \in Registry!Turn : Well(turns[s])'
      BY <1>2, <3>4, <3>5, <3>7, GoesOnWell
    <3> QED
      BY <1>0, <3>1, <3>2, <3>3, <3>8, WellTyped, SMTT(60) DEF Registry!TypeOK, ProcRec
  <2> QED
    BY <2>1, <2>2
<1>7. CASE Registry!Rekey(t)
  <2>1. Registry!GoOn(t) /\ UNCHANGED <<obj, made, store, active, news, process, closing, closed>>
    BY <1>7 DEF Registry!Rekey
  <2>2. live' \in [Registry!Id -> 0 .. Procs]
    BY <1>0, <1>3, <1>7 DEF Registry!Rekey, Registry!TypeOK
  <2>3. dropped' \subseteq Registry!Proc
    <3>1. live[Registry!Pending] # 0 => live[Registry!Pending] \in Registry!Proc
      BY <1>0 DEF Registry!TypeOK, Registry!Proc, Registry!ConstantsAssumption
    <3>2. dropped' = dropped \/ (dropped' = dropped \cup {live[Registry!Pending]} /\ live[Registry!Pending] # 0)
      <4>1. CASE live[Registry!Pending] # 0 /\ live[n] # 0
        BY <1>7, <4>1 DEF Registry!Rekey
      <4>2. CASE ~(live[Registry!Pending] # 0 /\ live[n] # 0)
        BY <1>7, <4>2 DEF Registry!Rekey
      <4> QED
        BY <4>1, <4>2
    <3> QED
      BY <1>0, <3>1, <3>2 DEF Registry!TypeOK
  <2> QED
    BY <1>0, <1>1, <2>1, <2>2, <2>3, GoOnWell, WellTyped DEF Registry!TypeOK, ProcRec
<1> QED
  BY <1>4, <1>5, <1>6, <1>7

\* How a turn ends, or is tried again.
LEMMA EndingTyped ==
  ASSUME UNCHANGED registryLoad, Typed, Registry!ConstantsAssumption, NEW t \in Registry!Turn,
         Registry!TurnEnds(t) \/ Registry!TurnFails(t) \/ Registry!Restart(t) \/ Registry!RetryFresh(t)
  PROVE  Typed'
<1> USE DEF Registry!sessionVars, Registry!closeVars
<1>0. Registry!TypeOK /\ Well(turns[t]) /\ turns \in [Registry!Turn -> TurnRec] /\ turns[t] \in TurnRec
  BY TurnsWell DEF Typed, Registry!TypeOK, TurnRec
<1>1. turns[t].pc = "running"
  BY DEF Registry!TurnEnds, Registry!TurnFails, Registry!Restart, Registry!RetryFresh
<1>2. HasSession(turns[t].sess) /\ HasSession(turns[t].now)
  BY <1>0, <1>1 DEF Well
<1>3. CASE Registry!TurnEnds(t)
  BY <1>0, <1>3, OverWell, WellTyped DEF Registry!TurnEnds, Registry!TypeOK, ProcRec
<1>4. CASE Registry!TurnFails(t)
  <2>1. Registry!Remove({Registry!IdOf(turns[t].now)}) /\ turns' = [turns EXCEPT ![t] = Registry!NoTurn("done")]
    BY <1>4 DEF Registry!TurnFails
  <2>2. turns' \in [Registry!Turn -> TurnRec] /\ \A s \in Registry!Turn : Well(turns[s])'
    BY <2>1, OverWell
  <2>3. process' \in [Registry!Proc -> ProcRec] /\ live' \in [Registry!Id -> 0 .. Procs]
    BY <1>0, <2>1, RemoveTypes
  <2> QED
    BY <1>0, <1>4, <2>2, <2>3, WellTyped DEF Registry!TurnFails, Registry!TypeOK
<1>5. CASE Registry!Restart(t)
  <2> DEFINE u == [turns[t] EXCEPT !.pc = "lookup", !.again = TRUE, !.now = turns[t].sess]
  <2>1. Registry!Remove({Registry!IdOf(turns[t].sess)}) /\ turns' = [turns EXCEPT ![t] = u]
    BY <1>0, <1>5 DEF Registry!Restart
  <2>2. u \in TurnRec /\ u.sess = turns[t].sess /\ u.now = turns[t].sess /\ u.pc = "lookup"
    BY <1>0 DEF TurnRec, Registry!TurnPc
  <2>3. turns' \in [Registry!Turn -> TurnRec] /\ \A s \in Registry!Turn : Well(turns[s])'
    BY <1>2, <2>1, <2>2, GoesOnWell
  <2>4. process' \in [Registry!Proc -> ProcRec] /\ live' \in [Registry!Id -> 0 .. Procs]
    BY <1>0, <2>1, RemoveTypes
  <2> QED
    BY <1>0, <1>5, <2>3, <2>4, WellTyped DEF Registry!Restart, Registry!TypeOK
<1>6. CASE Registry!RetryFresh(t)
  <2> DEFINE u == [turns[t] EXCEPT !.pc = "lookup", !.again = TRUE, !.resume = 0, !.now = turns[t].sess]
             ids == {Registry!IdOf(r) : r \in {turns[t].now, turns[t].sess}}
  <2>1. Registry!Remove(ids) /\ turns' = [turns EXCEPT ![t] = u]
    BY <1>0, <1>6 DEF Registry!RetryFresh
  <2>2. 0 \in Registry!Id
    BY DEF Registry!Id, Registry!ConstantsAssumption
  <2>3. u \in TurnRec /\ u.sess = turns[t].sess /\ u.now = turns[t].sess /\ u.pc = "lookup"
    BY <1>0, <2>2 DEF TurnRec, Registry!TurnPc
  <2>4. turns' \in [Registry!Turn -> TurnRec] /\ \A s \in Registry!Turn : Well(turns[s])'
    BY <1>2, <2>1, <2>3, GoesOnWell
  <2>5. process' \in [Registry!Proc -> ProcRec] /\ live' \in [Registry!Id -> 0 .. Procs]
    BY <1>0, <2>1, RemoveTypes
  <2>6. ASSUME NEW o \in Registry!Obj
        PROVE  [obj[o] EXCEPT !.native = 0] \in [id : Registry!Id, type : Types, native : Registry!Id, conv : 0 .. News]
    BY <1>0, <2>2 DEF Registry!TypeOK
  <2>7. obj' \in [Registry!Obj -> [id : Registry!Id, type : Types, native : Registry!Id, conv : 0 .. News]]
    BY <1>0, <1>6, <2>6 DEF Registry!RetryFresh, Registry!TypeOK
  <2> QED
    BY <1>0, <1>6, <2>4, <2>5, <2>7, WellTyped DEF Registry!RetryFresh, Registry!TypeOK
<1> QED
  BY <1>3, <1>4, <1>5, <1>6

LEMMA TypesStart == ASSUME Registry!ConstantsAssumption, Registry!Init PROVE Typed
<1>1. Registry!AnyType \in Types
  BY DEF Registry!AnyType, Registry!ConstantsAssumption
<1>2. Registry!NoRef \in Registry!RefSet
  BY <1>1 DEF Registry!NoRef, Registry!RefSet, Registry!Pending, Registry!Id, Registry!ConstantsAssumption
<1>3. Registry!NoTurn("idle") \in TurnRec /\ Registry!NoTurn("idle").pc = "idle"
  BY <1>2 DEF Registry!NoTurn, TurnRec, Registry!TurnPc, Registry!Id, Registry!ConstantsAssumption
<1>4. Registry!NoObj \in [id : Registry!Id, type : Types, native : Registry!Id, conv : 0 .. News]
  BY <1>1 DEF Registry!NoObj, Registry!Pending, Registry!Id, Registry!ConstantsAssumption
<1>5. Registry!NoProc \in ProcRec
  BY <1>1 DEF Registry!NoProc, ProcRec, Registry!ProcSt, Registry!Id, Registry!ConstantsAssumption
<1>6. /\ made \in 0 .. Objs /\ store \in [Registry!Id -> 0 .. Objs] /\ active \in Registry!Id
      /\ live \in [Registry!Id -> 0 .. Procs] /\ closing \subseteq Registry!Proc /\ closed \in BOOLEAN
      /\ news \in 0 .. News /\ dropped \subseteq Registry!Proc
  <2>1. Registry!Pending \in Registry!Id /\ 0 \in 0 .. Objs /\ 0 \in 0 .. Procs /\ 0 \in 0 .. News
    BY DEF Registry!Pending, Registry!Id, Registry!ConstantsAssumption
  <2> QED
    BY <2>1 DEF Registry!Init
<1>7. Registry!TypeOK
  BY <1>3, <1>4, <1>5, <1>6 DEF Registry!Init, Registry!TypeOK, TurnRec, ProcRec
<1>8. TurnsHaveSessions
  BY <1>3 DEF Registry!Init, TurnsHaveSessions
<1> QED
  BY <1>7, <1>8 DEF Typed

LEMMA TypesKept ==
  ASSUME UNCHANGED registryLoad, Typed, Registry!ConstantsAssumption, [Registry!Next]_(Registry!vars)
  PROVE  Typed'
<1>1. CASE Registry!Next
  <2>1. ASSUME NEW t \in Registry!Turn, Registry!TurnStep(t)
        PROVE  Typed'
    BY <2>1, BeginTyped, ProcessTyped, BindingTyped, EndingTyped DEF Registry!TurnStep
  <2> QED
    BY <1>1, <2>1, OthersTyped DEF Registry!Next
<1>2. CASE UNCHANGED Registry!vars
  BY <1>2, WellTyped, TurnStays DEF Registry!vars, Typed, Registry!TypeOK, ProcRec
<1> QED
  BY <1>1, <1>2
-----------------------------------------------------------------------------
(* Who has which process *)

\* The turns about to register a process are the same, and so are the processes.
SameStarting ==
  \A s \in Registry!Turn :
    /\ Registering(s)' = Registering(s)
    /\ Registering(s) => turns'[s].own = turns[s].own

\* A turn that is about to register stays so when another one moves.
LEMMA OtherTurnStep ==
  ASSUME Typed, NEW t \in Registry!Turn, turns[t].pc # "register", NEW u, u.pc # "register",
         turns' = [turns EXCEPT ![t] = u]
  PROVE  SameStarting
BY DEF SameStarting, Registering, Typed, Registry!TypeOK

\* A step that leaves the registry and the processes alone.
LEMMA KeptStays ==
  ASSUME EntriesInv, SameStarting, UNCHANGED <<live, process, closing, dropped>>
  PROVE  Kept'
<1>1. Registry!Registered' = Registry!Registered /\ Registry!Starting' = Registry!Starting
  BY DEF Registry!Registered, Registry!Starting, SameStarting, Registering, Registry!Turn, Registry!Id
<1>2. Registry!RegisteredOnce' /\ Registry!RegisteredNotClosed' /\ Started' /\ ClosingApart' /\ Registry!NoProcessLost'
  BY <1>1 DEF EntriesInv, Kept, Registry!RegisteredOnce, Registry!RegisteredNotClosed, Started, ClosingApart,
              Registry!NoProcessLost, Registry!Running
<1>3. StartingApart'
  BY <1>1 DEF EntriesInv, Kept, StartingApart, SameStarting, Registering, Registry!Turn, Registry!Proc
<1> QED
  BY <1>2, <1>3 DEF Kept

\* What is registered or taken out are processes.
LEMMA RegisteredAreProcesses ==
  ASSUME Registry!TypeOK
  PROVE  Registry!Registered \subseteq Registry!Proc /\ closing \subseteq Registry!Proc
BY DEF Registry!TypeOK, Registry!Registered, Registry!Proc

\* What closing does to a process.
LEMMA AfterCloseAll ==
  ASSUME Registry!TypeOK, NEW ps, Registry!CloseAll(ps)
  PROVE  \A p \in Registry!Proc :
           /\ p \in ps /\ process[p].st = "running" => process'[p].st = "closed"
           /\ p \notin ps => process'[p] = process[p]
           /\ process[p].st # "running" => process'[p].st = process[p].st
BY DEF Registry!CloseAll, Registry!Running, Registry!TypeOK, Registry!Proc

\* A process that is removed leaves the registry altogether.
LEMMA KeptRemove ==
  ASSUME EntriesInv, SameStarting, NEW ids \in SUBSET Registry!Id, Registry!Remove(ids), UNCHANGED <<closing, dropped>>
  PROVE  Kept'
<1> DEFINE ps == {live[i] : i \in ids}
<1>0. Registry!TypeOK /\ Kept /\ Registry!CloseAll(ps)
  BY DEF EntriesInv, Typed, Registry!Remove
<1>1. \A p \in Registry!Proc :
        /\ p \in ps /\ process[p].st = "running" => process'[p].st = "closed"
        /\ p \notin ps => process'[p] = process[p]
        /\ process[p].st # "running" => process'[p].st = process[p].st
  BY <1>0, AfterCloseAll
<1>2. live' = [i \in Registry!Id |-> IF i \in ids THEN 0 ELSE live[i]] /\ live \in [Registry!Id -> 0 .. Procs]
  BY <1>0 DEF Registry!Remove, Registry!TypeOK
<1>3. Registry!Registered' = Registry!Registered \ ps /\ Registry!Registered \subseteq Registry!Proc /\ Registry!Starting' = Registry!Starting
  <2>1. Registry!Registered \subseteq Registry!Proc
    BY <1>2 DEF Registry!Registered, Registry!Proc
  <2>2. Registry!Starting' = Registry!Starting
    BY DEF Registry!Starting, SameStarting, Registering, Registry!Turn
  <2>3. ASSUME NEW p \in Registry!Registered' PROVE p \in Registry!Registered \ ps
    BY <1>0, <1>2 DEF Registry!Registered, Kept, Registry!RegisteredOnce
  <2>4. ASSUME NEW p \in Registry!Registered \ ps PROVE p \in Registry!Registered'
    BY <1>2 DEF Registry!Registered
  <2> QED
    BY <2>1, <2>2, <2>3, <2>4
<1>4. Registry!RegisteredOnce'
  BY <1>0, <1>2 DEF Kept, Registry!RegisteredOnce
<1>5. Registry!RegisteredNotClosed' /\ Started' /\ ClosingApart'
  BY <1>0, <1>1, <1>3 DEF Kept, Registry!RegisteredNotClosed, Started, ClosingApart, Registry!TypeOK
<1>6. Registry!NoProcessLost'
  <2> SUFFICES ASSUME NEW p \in Registry!Proc, Registry!Running(p)'
               PROVE  p \in Registry!Registered' \cup Registry!Starting' \cup closing' \cup dropped'
    BY DEF Registry!NoProcessLost
  <2>1. Registry!Running(p) /\ p \notin ps
    BY <1>1 DEF Registry!Running, Registry!Proc
  <2> QED
    BY <1>0, <1>3, <2>1 DEF Kept, Registry!NoProcessLost
<1>7. StartingApart'
  <2>1. ASSUME NEW t \in Registry!Turn, Registering(t)'
        PROVE  /\ turns'[t].own \in Registry!Proc /\ process'[turns'[t].own].st \in {"running", "exited"}
               /\ turns'[t].own \notin Registry!Registered' \cup closing'
    <3>1. Registering(t) /\ turns'[t].own = turns[t].own
      BY <2>1 DEF SameStarting, Registering, Registry!Turn
    <3>2. turns[t].own \in Registry!Proc /\ turns[t].own \notin Registry!Registered
      BY <1>0, <3>1 DEF Kept, StartingApart
    <3>3. turns[t].own \notin ps
      BY <1>2, <3>2 DEF Registry!Registered, Registry!Proc
    <3> QED
      BY <1>0, <1>1, <1>3, <3>1, <3>2, <3>3 DEF Kept, StartingApart
  <2>2. ASSUME NEW s \in Registry!Turn, NEW t \in Registry!Turn, Registering(s)', Registering(t)', s # t
        PROVE  turns'[s].own # turns'[t].own
    BY <1>0, <2>2 DEF Kept, StartingApart, SameStarting, Registering, Registry!Turn
  <2> QED
    BY <2>1, <2>2 DEF StartingApart, Registering
<1> QED
  BY <1>4, <1>5, <1>6, <1>7 DEF Kept
\* A process ends by itself.
LEMMA KeptExit ==
  ASSUME EntriesInv, NEW q \in Registry!Proc, Registry!Exit(q)
  PROVE  Kept'
<1>a. Registry!TypeOK /\ Kept /\ UNCHANGED <<live, turns, closing, dropped>> /\ process[q].st = "running"
  BY DEF Registry!Exit, EntriesInv, Typed, Registry!sessionVars, Registry!closeVars, Registry!Running
<1>b. \A p \in Registry!Proc : process'[p].st = IF p = q THEN "exited" ELSE process[p].st
  BY <1>a DEF Registry!Exit, Registry!TypeOK
<1>1. /\ Registry!TypeOK /\ Kept /\ UNCHANGED <<live, turns, closing, dropped>>
      /\ process[q].st = "running"
      /\ \A p \in Registry!Proc : process'[p].st = IF p = q THEN "exited" ELSE process[p].st
  BY <1>a, <1>b
<1>2. Registry!Registered' = Registry!Registered /\ Registry!Starting' = Registry!Starting /\ Registry!Registered \cup closing \subseteq Registry!Proc
  BY <1>1, RegisteredAreProcesses DEF Registry!Registered, Registry!Starting
<1>3. Registry!RegisteredOnce' /\ ClosingApart'
  BY <1>1, <1>2 DEF Kept, Registry!RegisteredOnce, ClosingApart
<1>4. Registry!RegisteredNotClosed' /\ Started'
  BY <1>1, <1>2 DEF Kept, Registry!RegisteredNotClosed, Started
<1>5. Registry!NoProcessLost'
  BY <1>1, <1>2 DEF Kept, Registry!NoProcessLost, Registry!Running
<1>6. StartingApart'
  BY <1>1, <1>2 DEF Kept, StartingApart, Registering
<1> QED
  BY <1>3, <1>4, <1>5, <1>6 DEF Kept

\* Router.Close takes all that is registered, and closes it later.
LEMMA KeptClose ==
  ASSUME EntriesInv, Registry!Close
  PROVE  Kept'
<1>1. /\ Registry!TypeOK /\ Kept /\ UNCHANGED <<process, turns, dropped>> /\ closing = {}
      /\ closing' = Registry!Registered /\ live' = [i \in Registry!Id |-> 0]
  BY DEF Registry!Close, EntriesInv, Typed, TakenByClose, Registry!sessionVars, Registry!Registered
<1>2. Registry!Registered' = {} /\ Registry!Starting' = Registry!Starting
  BY <1>1 DEF Registry!Registered, Registry!Starting
<1>3. Registry!RegisteredOnce' /\ ClosingApart' /\ Registry!RegisteredNotClosed' /\ Started'
  <2>1. Registry!RegisteredOnce'
    BY <1>1 DEF Registry!RegisteredOnce
  <2> QED
    BY <1>1, <1>2, <2>1 DEF Kept, ClosingApart, Registry!RegisteredNotClosed, Started
<1>4. Registry!NoProcessLost'
  BY <1>1, <1>2 DEF Kept, Registry!NoProcessLost, Registry!Running
<1>5. StartingApart'
  BY <1>1, <1>2 DEF Kept, StartingApart, Registering
<1> QED
  BY <1>3, <1>4, <1>5 DEF Kept

LEMMA KeptCloseTaken ==
  ASSUME EntriesInv, Registry!CloseTaken
  PROVE  Kept'
<1>1. /\ Registry!TypeOK /\ Kept /\ UNCHANGED <<live, turns, dropped>>
      /\ closing' = {} /\ Registry!CloseAll(closing)
  BY DEF Registry!CloseTaken, EntriesInv, Typed, Registry!sessionVars
<1>2. \A p \in Registry!Proc :
        /\ p \in closing /\ process[p].st = "running" => process'[p].st = "closed"
        /\ p \notin closing => process'[p] = process[p]
        /\ process[p].st # "running" => process'[p].st = process[p].st
  BY <1>1, AfterCloseAll
<1>3. /\ Registry!Registered' = Registry!Registered /\ Registry!Starting' = Registry!Starting /\ Registry!Registered \subseteq Registry!Proc
      /\ Registry!Registered \cap closing = {}
  BY <1>1 DEF Registry!Registered, Registry!Starting, Registry!TypeOK, Registry!Proc, Kept, ClosingApart
<1>4. Registry!RegisteredOnce' /\ ClosingApart'
  BY <1>1, <1>3 DEF Kept, Registry!RegisteredOnce, ClosingApart
<1>5. Registry!RegisteredNotClosed' /\ Started'
  BY <1>1, <1>2, <1>3 DEF Kept, Registry!RegisteredNotClosed, Started
<1>6. Registry!NoProcessLost'
  <2> SUFFICES ASSUME NEW p \in Registry!Proc, Registry!Running(p)'
               PROVE  p \in Registry!Registered' \cup Registry!Starting' \cup closing' \cup dropped'
    BY DEF Registry!NoProcessLost
  <2>1. Registry!Running(p) /\ p \notin closing
    BY <1>2 DEF Registry!Running, Registry!Proc
  <2> QED
    BY <1>1, <1>3, <2>1 DEF Kept, Registry!NoProcessLost
<1>7. StartingApart'
  BY <1>1, <1>2, <1>3 DEF Kept, StartingApart, Registering
<1> QED
  BY <1>4, <1>5, <1>6, <1>7 DEF Kept

\* A turn starts a process, which nobody has had.
LEMMA KeptStart ==
  ASSUME EntriesInv, NEW t \in Registry!Turn, NEW q \in Registry!Proc, Registry!Start(t, q)
  PROVE  Kept'
<1>1. /\ Registry!TypeOK /\ Kept /\ UNCHANGED <<live, closing, dropped>>
      /\ turns[t].pc = "start" /\ process[q].st = "none"
      /\ \A p \in Registry!Proc : p # q => process'[p] = process[p]
      /\ process'[q].st = "running"
      /\ \A s \in Registry!Turn : s # t => turns'[s] = turns[s]
      /\ turns'[t].pc = "register" /\ turns'[t].own = q
  <2>1. /\ Registry!TypeOK /\ Kept /\ UNCHANGED <<live, closing, dropped>>
        /\ turns[t].pc = "start" /\ process[q].st = "none"
    BY DEF Registry!Start, EntriesInv, Typed, Registry!sessionVars, Registry!closeVars
  <2>2. (\A p \in Registry!Proc : p # q => process'[p] = process[p]) /\ process'[q].st = "running"
    BY <2>1 DEF Registry!Start, Registry!TypeOK
  <2>3. /\ \A s \in Registry!Turn : s # t => turns'[s] = turns[s]
        /\ turns'[t].pc = "register" /\ turns'[t].own = q
    BY <2>1 DEF Registry!Start, Registry!TypeOK
  <2> QED
    BY <2>1, <2>2, <2>3
<1>2. Registry!Registered' = Registry!Registered /\ Registry!Registered \cup closing \subseteq Registry!Proc
  BY <1>1, RegisteredAreProcesses DEF Registry!Registered
<1>3. Registry!Starting' = Registry!Starting \cup {q}
  BY <1>1 DEF Registry!Starting
<1>4. q \notin Registry!Registered \cup closing
  BY <1>1 DEF Kept, Started
<1>5. Registry!RegisteredOnce' /\ ClosingApart'
  BY <1>1, <1>2 DEF Kept, Registry!RegisteredOnce, ClosingApart
<1>6. Registry!RegisteredNotClosed' /\ Started'
  BY <1>1, <1>2, <1>4 DEF Kept, Registry!RegisteredNotClosed, Started
<1>7. Registry!NoProcessLost'
  BY <1>1, <1>2, <1>3 DEF Kept, Registry!NoProcessLost, Registry!Running
<1>8. StartingApart'
  BY <1>1, <1>2, <1>4 DEF Kept, StartingApart, Registering
<1> QED
  BY <1>5, <1>6, <1>7, <1>8 DEF Kept
\* The turn that registers second closes its process, the first one's stays.
LEMMA KeptRegister ==
  ASSUME EntriesInv, Registry!ConstantsAssumption, NEW t \in Registry!Turn, Registry!Register(t)
  PROVE  Kept'
<1> DEFINE i == Registry!IdOf(turns[t].sess)
           q == turns[t].own
<1>0. Registry!TypeOK /\ Kept /\ Well(turns[t])
  BY TurnsWell DEF EntriesInv, Typed
<1>1. /\ UNCHANGED <<closing, dropped>> /\ turns[t].pc = "register" /\ i \in Registry!Id
      /\ q \in Registry!Proc /\ process[q].st \in {"running", "exited"} /\ q \notin Registry!Registered \cup closing
      /\ \A s \in Registry!Turn : Registering(s) /\ s # t => turns[s].own # q
  <2>1. UNCHANGED <<closing, dropped>> /\ turns[t].pc = "register"
    BY DEF Registry!Register, Registry!closeVars
  <2>2. i \in Registry!Id
    BY <1>0, <2>1, RefTypes DEF Well
  <2> QED
    BY <1>0, <2>1, <2>2 DEF Kept, StartingApart, Registering
<1>2. Registry!Registered \cup closing \subseteq Registry!Proc
  BY <1>0, RegisteredAreProcesses
<1>3. /\ \A s \in Registry!Turn : s # t => turns'[s] = turns[s]
      /\ turns'[t].pc # "register"
  <2>1. CASE live[i] # 0
    BY <1>0, <2>1 DEF Registry!Register, Registry!TypeOK
  <2>2. CASE live[i] = 0
    <3>1. PICK known \in BOOLEAN :
            turns' = [turns EXCEPT ![t].pc = IF known THEN "update" ELSE "running", ![t].keep = FALSE]
      BY <2>2 DEF Registry!Register
    <3> QED
      BY <1>0, <3>1 DEF Registry!TypeOK
  <2> QED
    BY <2>1, <2>2
<1>4. Registry!Starting' = Registry!Starting \ {q}
  <2>1. \A s \in Registry!Turn : s # t => turns'[s] = turns[s] /\ (turns[s].pc = "register" => turns[s].own # q)
    BY <1>1, <1>3 DEF Registering
  <2> QED
    BY <1>3, <2>1 DEF Registry!Starting
<1>5. ASSUME Registry!Registered' \subseteq Registry!Registered \cup {q}, q \notin Registry!Registered' \/ process'[q] = process[q],
             \A p \in Registry!Proc : p # q => process'[p] = process[p]
      PROVE  StartingApart'
  BY <1>0, <1>1, <1>2, <1>3, <1>5 DEF Kept, StartingApart, Registering
<1>6. CASE live[i] # 0
  <2>1. live' = live /\ Registry!CloseAll({q})
    BY <1>6 DEF Registry!Register
  <2>2. /\ process[q].st = "running" => process'[q].st = "closed"
        /\ process[q].st # "running" => process'[q].st = process[q].st
        /\ \A p \in Registry!Proc : p # q => process'[p] = process[p]
    BY <1>0, <1>1, <2>1, AfterCloseAll
  <2>3. Registry!Registered' = Registry!Registered
    BY <2>1 DEF Registry!Registered
  <2>4. Registry!RegisteredOnce' /\ ClosingApart'
    BY <1>0, <1>1, <2>1, <2>3 DEF Kept, Registry!RegisteredOnce, ClosingApart
  <2>5. Registry!RegisteredNotClosed' /\ Started'
    BY <1>0, <1>1, <1>2, <2>2, <2>3 DEF Kept, Registry!RegisteredNotClosed, Started
  <2>6. Registry!NoProcessLost'
    <3> SUFFICES ASSUME NEW p \in Registry!Proc, Registry!Running(p)'
                 PROVE  p \in Registry!Registered' \cup Registry!Starting' \cup closing' \cup dropped'
      BY DEF Registry!NoProcessLost
    <3>1. p # q /\ Registry!Running(p)
      BY <1>1, <2>2 DEF Registry!Running
    <3> QED
      BY <1>0, <1>1, <1>4, <2>3, <3>1 DEF Kept, Registry!NoProcessLost
  <2>7. StartingApart'
    BY <1>1, <1>5, <2>2, <2>3
  <2> QED
    BY <2>4, <2>5, <2>6, <2>7 DEF Kept
<1>7. CASE live[i] = 0
  <2>1. live' = [live EXCEPT ![i] = q] /\ process' = process
    BY <1>7 DEF Registry!Register
  <2>2. Registry!Registered' = Registry!Registered \cup {q}
    BY <1>0, <1>1, <1>7, <2>1 DEF Registry!Registered, Registry!TypeOK, Registry!Proc
  <2>3. Registry!RegisteredOnce'
    BY <1>0, <1>1, <1>7, <2>1 DEF Kept, Registry!RegisteredOnce, Registry!Registered, Registry!TypeOK
  <2>4. ClosingApart' /\ Registry!RegisteredNotClosed' /\ Started'
    BY <1>0, <1>1, <2>1, <2>2 DEF Kept, ClosingApart, Registry!RegisteredNotClosed, Started
  <2>5. Registry!NoProcessLost'
    BY <1>0, <1>1, <1>4, <2>1, <2>2 DEF Kept, Registry!NoProcessLost, Registry!Running
  <2>6. StartingApart'
    BY <1>5, <2>1, <2>2
  <2> QED
    BY <2>3, <2>4, <2>5, <2>6 DEF Kept
<1> QED
  BY <1>6, <1>7

\* A process moves to the id its session takes over, or is let go.
LEMMA KeptRekey ==
  ASSUME EntriesInv, Registry!ConstantsAssumption, NEW t \in Registry!Turn, Registry!Rekey(t)
  PROVE  Kept'
<1> DEFINE q == live[Registry!Pending]
           n == process[turns[t].own].native
<1>0. Registry!TypeOK /\ Kept /\ Well(turns[t]) /\ turns[t].pc = "rekey"
  BY TurnsWell DEF EntriesInv, Typed, Registry!Rekey
<1>1. n \in Registry!Id /\ Registry!Pending \in Registry!Id
  <2>1. turns[t].own \in Registry!Proc
    BY <1>0 DEF Well, TurnRec, Registry!Proc
  <2> QED
    BY <1>0, <2>1 DEF Registry!TypeOK, Registry!Pending, Registry!Id, Registry!ConstantsAssumption
<1>2. UNCHANGED <<process, closing>> /\ SameStarting
  <2>1. UNCHANGED <<process, closing>> /\ turns' = [turns EXCEPT ![t].pc = "running", ![t].keep = FALSE]
    BY DEF Registry!Rekey, Registry!closeVars, Registry!GoOn
  <2> QED
    BY <1>0, <2>1 DEF SameStarting, Registering, Registry!TypeOK
<1>3. Registry!Starting' = Registry!Starting
  BY <1>2 DEF Registry!Starting, SameStarting, Registering, Registry!Turn
<1>4. /\ Registry!RegisteredOnce' /\ Registry!Registered' \subseteq Registry!Registered
      /\ Registry!Registered \subseteq Registry!Registered' \cup dropped' /\ dropped \subseteq dropped'
  <2>0. live \in [Registry!Id -> 0 .. Procs] /\ Registry!RegisteredOnce
    BY <1>0 DEF Registry!TypeOK, Kept
  <2>1. CASE q = 0
    <3>1. live' = live /\ dropped' = dropped
      BY <2>1, SMTT(60) DEF Registry!Rekey
    <3> QED
      BY <2>0, <3>1 DEF Registry!Registered, Registry!RegisteredOnce
  <2>2. CASE q # 0 /\ (n = Registry!Pending \/ live[n] # 0)
    <3>1. /\ dropped' = dropped \cup {q}
          /\ live' = [live EXCEPT ![Registry!Pending] = 0, ![n] = IF @ = 0 THEN q ELSE @]
      BY <2>2 DEF Registry!Rekey
    <3>2. \A i \in Registry!Id : live'[i] = live[i] \/ (i = Registry!Pending /\ live'[i] = 0)
      BY <1>1, <2>0, <2>2, <3>1
    <3> QED
      BY <2>0, <3>1, <3>2 DEF Registry!Registered, Registry!RegisteredOnce
  <2>3. CASE q # 0 /\ n # Registry!Pending /\ live[n] = 0
    <3>1. /\ dropped' = dropped
          /\ live' = [live EXCEPT ![Registry!Pending] = 0, ![n] = IF @ = 0 THEN q ELSE @]
      BY <2>3 DEF Registry!Rekey
    <3>2. \A i \in Registry!Id : live'[i] = IF i = Registry!Pending THEN 0 ELSE IF i = n THEN q ELSE live[i]
      BY <1>1, <2>0, <2>3, <3>1
    <3>3. Registry!RegisteredOnce' /\ Registry!Registered' \subseteq Registry!Registered
      BY <1>1, <2>0, <2>3, <3>2 DEF Registry!Registered, Registry!RegisteredOnce
    <3>4. Registry!Registered \subseteq Registry!Registered'
      BY <1>1, <2>0, <2>3, <3>2 DEF Registry!Registered
    <3> QED
      BY <3>1, <3>3, <3>4
  <2> QED
    BY <2>1, <2>2, <2>3
<1>5. Registry!RegisteredNotClosed' /\ Started' /\ ClosingApart'
  BY <1>0, <1>2, <1>4 DEF Kept, Registry!RegisteredNotClosed, Started, ClosingApart
<1>6. Registry!NoProcessLost'
  BY <1>0, <1>2, <1>3, <1>4 DEF Kept, Registry!NoProcessLost, Registry!Running
<1>7. StartingApart'
  BY <1>0, <1>2, <1>4 DEF Kept, StartingApart, SameStarting, Registering, Registry!Turn, Registry!Proc
<1> QED
  BY <1>4, <1>5, <1>6, <1>7 DEF Kept

-----------------------------------------------------------------------------
(* The steps together *)

\* The steps of a turn: most touch neither the registry nor a process, or remove one.
LEMMA KeptByTurn ==
  ASSUME EntriesInv, Registry!ConstantsAssumption, NEW t \in Registry!Turn, Registry!TurnStep(t)
  PROVE  Kept'
<1> USE DEF Registry!sessionVars, Registry!closeVars
<1>0. Typed /\ Registry!TypeOK /\ turns \in [Registry!Turn -> TurnRec] /\ Well(turns[t])
  BY TurnsWell DEF EntriesInv, Typed, Registry!TypeOK, TurnRec
<1>1. ASSUME turns[t].pc \notin {"idle", "done"}
      PROVE  Registry!IdOf(turns[t].sess) \in Registry!Id /\ Registry!IdOf(turns[t].now) \in Registry!Id
  BY <1>0, <1>1, RefTypes DEF Well
<1>2. Registry!NoTurn("done").pc = "done" /\ \A ref, o : [Registry!NoTurn("lookup") EXCEPT !.sess = ref, !.now = ref,
                                          !.resume = o.native, !.conv = o.conv].pc = "lookup"
  BY DEF Registry!NoTurn
<1>3. CASE \E c \in registryLoad.copies : Registry!Begin(t, c)
  <2> PICK c \in registryLoad.copies : Registry!Begin(t, c)
    BY <1>3
  <2>1. SameStarting
    BY <1>0, <1>2, OtherTurnStep DEF Registry!Begin, Registry!Startable, Registry!Begun
  <2> QED
    BY <2>1, KeptStays DEF Registry!Begin
<1>4. CASE \E y \in registryLoad.types : Registry!BeginFirst(t, y)
  <2> PICK y \in registryLoad.types : Registry!BeginFirst(t, y)
    BY <1>4
  <2>1. SameStarting
    BY <1>0, <1>2, OtherTurnStep DEF Registry!BeginFirst, Registry!Startable, Registry!Begun
  <2> QED
    BY <2>1, KeptStays DEF Registry!BeginFirst
<1>5. CASE Registry!Lookup(t)
  <2> DEFINE i == Registry!IdOf(turns[t].sess)
  <2>2. CASE live[i] # 0 /\ process[live[i]].type = Registry!TypeOf(turns[t].sess)
    <3>1. /\ turns[t].pc = "lookup" /\ UNCHANGED <<live, process, closing, dropped>>
          /\ turns' = [turns EXCEPT ![t].pc = "running", ![t].own = live[i]]
      BY <1>5, <2>2 DEF Registry!Lookup
    <3>2. SameStarting
      BY <1>0, <3>1 DEF SameStarting, Registering
    <3> QED
      BY <3>1, <3>2, KeptStays
  <2>3. CASE ~(live[i] # 0 /\ process[live[i]].type = Registry!TypeOf(turns[t].sess))
    <3>1. /\ turns[t].pc = "lookup" /\ UNCHANGED <<closing, dropped>> /\ Registry!Remove({i}) /\ i \in Registry!Id
          /\ turns' = [turns EXCEPT ![t].pc = "start", ![t].own = 0]
      BY <1>1, <1>5, <2>3 DEF Registry!Lookup
    <3>2. SameStarting
      BY <1>0, <3>1 DEF SameStarting, Registering
    <3> QED
      BY <3>1, <3>2, KeptRemove
  <2> QED
    BY <2>2, <2>3
<1>6. CASE Registry!StartFails(t)
  <2>1. SameStarting
    BY <1>0, <1>2, <1>6, OtherTurnStep DEF Registry!StartFails
  <2> QED
    BY <1>6, <2>1, KeptStays DEF Registry!StartFails
<1>7. CASE \E keep \in BOOLEAN : Registry!SessionEvent(t, keep)
  <2> PICK keep \in BOOLEAN : Registry!SessionEvent(t, keep)
    BY <1>7
  <2>1. SameStarting
    BY <1>0 DEF Registry!SessionEvent, SameStarting, Registering
  <2> QED
    BY <2>1, KeptStays DEF Registry!SessionEvent
<1>8. CASE Registry!Update(t)
  <2>1. SameStarting
    <3>1. CASE Registry!IdOf(turns[t].now) = Registry!Pending
      <4>1. turns[t].pc = "update" /\ turns' = [turns EXCEPT ![t].pc = "adopt"]
        BY <1>8, <3>1 DEF Registry!Update
      <4> QED
        BY <1>0, <4>1 DEF SameStarting, Registering
    <3>2. CASE Registry!IdOf(turns[t].now) # Registry!Pending
      <4>1. turns[t].pc = "update" /\ turns' = [turns EXCEPT ![t].pc = "running", ![t].keep = FALSE]
        BY <1>8, <3>2 DEF Registry!Update, Registry!GoOn
      <4> QED
        BY <1>0, <4>1 DEF SameStarting, Registering
    <3> QED
      BY <3>1, <3>2
  <2> QED
    BY <1>8, <2>1, KeptStays DEF Registry!Update
<1>9. CASE Registry!Adopt(t)
  <2>1. SameStarting
    <3>1. CASE store[Registry!Pending] = 0
      <4>1. turns[t].pc = "adopt" /\ turns' = [turns EXCEPT ![t].pc = "running", ![t].keep = FALSE]
        BY <1>9, <3>1 DEF Registry!Adopt, Registry!GoOn
      <4> QED
        BY <1>0, <4>1 DEF SameStarting, Registering
    <3>2. CASE store[Registry!Pending] # 0
      <4>1. PICK now : /\ turns[t].pc = "adopt"
                       /\ turns' = [turns EXCEPT ![t].pc = "rekey", ![t].now = now]
        <5> DEFINE n == process[turns[t].own].native
        <5>1. CASE turns[t].keep
          <6>1. /\ turns[t].pc = "adopt"
                /\ turns' = [turns EXCEPT ![t].pc = "rekey", ![t].now = Registry!Pointer(store'[n])]
            BY <1>0, <1>9, <3>2, <5>1 DEF Registry!Adopt
          <6> QED
            BY <6>1
        <5>2. CASE ~turns[t].keep
          <6>1. /\ turns[t].pc = "adopt"
                /\ turns' = [turns EXCEPT ![t].pc = "rekey", ![t].now = turns[t].now]
            BY <1>0, <1>9, <3>2, <5>2 DEF Registry!Adopt
          <6> QED
            BY <6>1
        <5> QED
          BY <5>1, <5>2
      <4> QED
        BY <1>0, <4>1 DEF SameStarting, Registering
    <3> QED
      BY <3>1, <3>2
  <2> QED
    BY <1>9, <2>1, KeptStays DEF Registry!Adopt
<1>10. CASE Registry!TurnEnds(t)
  <2>1. SameStarting
    BY <1>0, <1>2, <1>10, OtherTurnStep DEF Registry!TurnEnds
  <2> QED
    BY <1>10, <2>1, KeptStays DEF Registry!TurnEnds
<1>11. CASE Registry!TurnFails(t)
  <2>1. SameStarting
    BY <1>0, <1>2, <1>11, OtherTurnStep DEF Registry!TurnFails
  <2>2. Registry!Remove({Registry!IdOf(turns[t].now)}) /\ Registry!IdOf(turns[t].now) \in Registry!Id
    BY <1>1, <1>11 DEF Registry!TurnFails
  <2> QED
    BY <1>11, <2>1, <2>2, KeptRemove DEF Registry!TurnFails
<1>12. CASE Registry!Restart(t)
  <2>1. SameStarting
    BY <1>0, <1>12 DEF Registry!Restart, SameStarting, Registering
  <2>2. Registry!Remove({Registry!IdOf(turns[t].sess)}) /\ Registry!IdOf(turns[t].sess) \in Registry!Id
    BY <1>1, <1>12 DEF Registry!Restart
  <2> QED
    BY <1>12, <2>1, <2>2, KeptRemove DEF Registry!Restart
<1>13. CASE Registry!RetryFresh(t)
  <2> DEFINE ids == {Registry!IdOf(r) : r \in {turns[t].now, turns[t].sess}}
  <2>1. SameStarting
    BY <1>0, <1>13 DEF Registry!RetryFresh, SameStarting, Registering
  <2>2. Registry!Remove(ids) /\ ids \in SUBSET Registry!Id
    BY <1>1, <1>13 DEF Registry!RetryFresh
  <2> HIDE DEF ids
  <2> QED
    BY <1>13, <2>1, <2>2, KeptRemove DEF Registry!RetryFresh
<1> QED
  BY <1>3, <1>4, <1>5, <1>6, <1>7, <1>8, <1>9, <1>10, <1>11, <1>12, <1>13,
     KeptStart, KeptRegister, KeptRekey DEF Registry!TurnStep

\* The whole invariant, for every step.
LEMMA InvKept ==
  ASSUME EntriesInv, Registry!ConstantsAssumption, [Registry!Next]_(Registry!vars)
  PROVE  EntriesInv'
<1> USE DEF Registry!sessionVars, Registry!closeVars
<1>0. UNCHANGED registryLoad
  BY DEF Registry!Next, Registry!vars
<1>1. Typed'
  BY <1>0, TypesKept DEF EntriesInv
<1>2. TakenByClose'
  BY ZenonT(60) DEF EntriesInv, TakenByClose, Registry!Next, Registry!vars, Registry!New, Registry!Switch, Registry!DirSet, Registry!Close, Registry!CloseTaken, Registry!Exit, Registry!TurnStep,
         Registry!Begin, Registry!BeginFirst, Registry!Lookup, Registry!Start, Registry!StartFails, Registry!Register, Registry!SessionEvent, Registry!Update, Registry!Adopt, Registry!Rekey,
         Registry!TurnEnds, Registry!TurnFails, Registry!Restart, Registry!RetryFresh
<1>3. ASSUME UNCHANGED turns PROVE SameStarting
  BY <1>3 DEF SameStarting, Registering
<1>4. ASSUME Registry!Next PROVE Kept'
  <2>1. ASSUME NEW y \in registryLoad.types, Registry!New(y) PROVE Kept'
    BY <1>3, <2>1, KeptStays DEF Registry!New
  <2>2. ASSUME NEW i \in Registry!Id, Registry!Switch(i) PROVE Kept'
    BY <1>3, <2>2, KeptStays DEF Registry!Switch
  <2>3. ASSUME Registry!DirSet PROVE Kept'
    <3>1. active \in Registry!Id
      BY DEF EntriesInv, Typed, Registry!TypeOK
    <3> QED
      BY <1>3, <2>3, <3>1, KeptRemove DEF Registry!DirSet
  <2> QED
    BY <1>4, <2>1, <2>2, <2>3, KeptClose, KeptCloseTaken, KeptExit, KeptByTurn DEF Registry!Next
<1>5. ASSUME UNCHANGED Registry!vars PROVE Kept'
  <2>1. UNCHANGED <<turns, live, process, closing, dropped>>
    BY <1>5 DEF Registry!vars
  <2> QED
    BY <1>3, <2>1, KeptStays
<1> QED
  BY <1>1, <1>2, <1>4, <1>5 DEF EntriesInv

LEMMA InvStarts == ASSUME Registry!ConstantsAssumption, Registry!Init PROVE EntriesInv
<1>1. Registry!Registered = {} /\ closing = {} /\ \A t \in Registry!Turn : ~Registering(t)
  BY DEF Registry!Init, Registry!Registered, Registering, Registry!NoTurn
<1>2. \A p \in Registry!Proc : ~Registry!Running(p)
  BY DEF Registry!Init, Registry!Running, Registry!NoProc
<1>3. Registry!RegisteredOnce
  BY DEF Registry!Init, Registry!RegisteredOnce
<1> QED
  BY <1>1, <1>2, <1>3, TypesStart
     DEF EntriesInv, Kept, TakenByClose, Registry!RegisteredNotClosed, Registry!NoProcessLost, Started, StartingApart,
         ClosingApart

(* One turn at a time *)

ObjRec == [id : Registry!Id, type : Types, native : Registry!Id, conv : 0 .. News]

\* The types, taken apart.
LEMMA Shapes ==
  ASSUME EntriesInv, Registry!ConstantsAssumption
  PROVE  /\ obj \in [1 .. Objs -> ObjRec] /\ made \in 0 .. Objs
         /\ store \in [0 .. Procs -> 0 .. Objs] /\ live \in [0 .. Procs -> 0 .. Procs]
         /\ process \in [1 .. Procs -> ProcRec] /\ turns \in [Registry!Turn -> TurnRec]
         /\ Objs \in Nat /\ Procs \in Nat /\ active \in 0 .. Procs
         /\ Registry!Id = 0 .. Procs /\ Registry!Proc = 1 .. Procs /\ Registry!Obj = 1 .. Objs
         /\ Registry!Turn = 1 .. Turns /\ dropped \subseteq 1 .. Procs
BY DEF EntriesInv, Typed, Registry!TypeOK, Registry!ConstantsAssumption, ObjRec, ProcRec, TurnRec,
       Registry!Id, Registry!Proc, Registry!Obj, Registry!Turn

\* The session of a turn.
LEMMA TurnSession ==
  ASSUME EntriesInv, Registry!ConstantsAssumption, Single, NEW t \in Registry!Turn, Busy(t)
  PROVE  LET o == turns[t].sess.obj IN
         /\ o \in 1 .. made /\ o \in 1 .. Objs /\ IdNow(t) \in 0 .. Procs /\ store[IdNow(t)] = o
         /\ obj[o].id = IdNow(t) /\ o # 0
         /\ turns[t].sess = Registry!Pointer(o) /\ turns[t].now = turns[t].sess
         /\ Registry!IdOf(turns[t].sess) = IdNow(t) /\ Registry!IdOf(turns[t].now) = IdNow(t)
         /\ turns[t].own \in 0 .. Procs /\ turns[t].resume \in 0 .. Procs
<1> DEFINE o == turns[t].sess.obj
<1>1. TurnFits(t) /\ StoreFits
  BY DEF Single
<1>2. o \in 1 .. made /\ turns[t].sess = Registry!Pointer(o) /\ turns[t].now = turns[t].sess
  BY <1>1 DEF TurnFits
<1>3. o \in 1 .. Objs /\ o # 0
  BY <1>2, Shapes
<1>4. obj[o].id \in 0 .. Procs /\ obj[o].id = IdNow(t)
  BY <1>3, Shapes DEF IdNow, ObjRec
<1>5. store[IdNow(t)] = o
  BY <1>1, <1>2, <1>4 DEF StoreFits
<1>6. Registry!IdOf(turns[t].sess) = IdNow(t)
  <2>1. Registry!Pointer(o).copy = FALSE /\ Registry!Pointer(o).obj = o
    BY DEF Registry!Pointer, Registry!NoRef
  <2> QED
    BY <1>2, <1>4, <2>1 DEF Registry!IdOf
<1>7. turns[t].own \in 0 .. Procs /\ turns[t].resume \in 0 .. Procs
  BY Shapes DEF TurnRec
<1> QED
  BY <1>2, <1>3, <1>4, <1>5, <1>6, <1>7

\* What a turn's process works on, and what it is to be started on, is its session's.
LEMMA TurnUsesIts ==
  ASSUME NEW t \in Registry!Turn, NEW n, TurnUses(t, n)
  PROVE  Uses(IdNow(t), n)
BY DEF Uses

\* Processes keep their native session, and stay started.
SameProcesses ==
  \A p \in Registry!Proc : /\ process'[p].native = process[p].native
                           /\ (process'[p].st = "none" <=> process[p].st = "none")

\* A step that gives no native id away.
LEMMA SingleKeeps ==
  ASSUME Single, AtMostOne', StoreFits', \A t \in Registry!Turn : Busy(t)' => TurnFits(t)',
         SameProcesses, EntriesFit', dropped' = dropped,
         \A i \in Registry!Id, n \in Registry!Proc : Uses(i, n)' => Uses(i, n)
  PROVE  Single'
<1>1. NativesKnown'
  BY DEF Single, NativesKnown, SameProcesses
<1>2. ThreadsApart'
  BY DEF Single, ThreadsApart, SameProcesses
<1> QED
  BY <1>1, <1>2 DEF Single

\* A turn's process.
TurnHas(t, p) == Busy(t) /\ turns[t].pc \in HasProcess /\ turns[t].own = p

\* The same, of a step that leaves the sessions where they are.
LEMMA SingleLessens ==
  ASSUME EntriesInv, Registry!ConstantsAssumption, Single, UNCHANGED <<store, made, dropped>>,
         \A o \in 1 .. Objs : obj'[o].id = obj[o].id,
         \A i \in Registry!Id, n \in Registry!Proc :
           store[i] # 0 /\ obj'[store[i]].native = n => Uses(i, n),
         \A i \in Registry!Id : live'[i] # 0 =>
           \/ live'[i] = live[i]
           \/ \E t \in Registry!Turn : IdNow(t) = i /\ TurnHas(t, live'[i]),
         SameProcesses, Rekeying' <=> Rekeying, AtMostOne',
         \A t \in Registry!Turn : Busy(t)' => TurnFits(t)',
         \A t \in Registry!Turn, n \in Registry!Proc : TurnUses(t, n)' => Uses(IdNow(t)', n),
         live' \in [0 .. Procs -> 0 .. Procs]
  PROVE  Single'
<1>0. StoreFits /\ EntriesFit
  BY DEF Single
<1>1. StoreFits'
  <2>1. \A i \in Registry!Id : store[i] # 0 => store[i] \in 1 .. Objs
    BY Shapes
  <2>2. 1 .. made \subseteq 1 .. Objs
    BY Shapes
  <2> QED
    BY <1>0, <2>1, <2>2 DEF StoreFits
<1>2. EntriesFit'
  <2> SUFFICES ASSUME NEW i \in Registry!Id, live'[i] # 0
               PROVE  process'[live'[i]].st # "none" /\ (store'[i] = 0 => i = 0 /\ Rekeying')
    BY DEF EntriesFit
  <2>0. live'[i] \in Registry!Proc
    BY Shapes
  <2>1. CASE live'[i] = live[i]
    BY <1>0, <2>0, <2>1 DEF EntriesFit, SameProcesses
  <2>2. ASSUME NEW t \in Registry!Turn, IdNow(t) = i, TurnHas(t, live'[i])
        PROVE  process[live'[i]].st # "none" /\ store[i] # 0
    BY <2>2, TurnSession DEF TurnHas, Single, TurnFits
  <2> QED
    BY <2>0, <2>1, <2>2 DEF SameProcesses
<1>3. ASSUME NEW i \in Registry!Id, NEW n \in Registry!Proc, Uses(i, n)' PROVE Uses(i, n)
  <2>1. CASE i = n /\ store'[i] # 0
    BY <2>1 DEF Uses
  <2>2. CASE store'[i] # 0 /\ obj'[store'[i]].native = n
    BY <2>2
  <2>3. CASE live'[i] # 0 /\ process'[live'[i]].native = n /\ ~(i = 0 /\ Rekeying')
    <3>0. live'[i] \in Registry!Proc
      BY <2>3, Shapes
    <3>1. process[live'[i]].native = n
      BY <2>3, <3>0 DEF SameProcesses
    <3>2. CASE live'[i] = live[i]
      BY <2>3, <3>1, <3>2 DEF Uses
    <3>3. ASSUME NEW t \in Registry!Turn, IdNow(t) = i, TurnHas(t, live'[i])
          PROVE  Uses(i, n)
      BY <3>1, <3>3 DEF Uses, TurnUses, TurnHas
    <3> QED
      BY <2>3, <3>2, <3>3
  <2>4. CASE \E t \in Registry!Turn : TurnUses(t, n)' /\ IdNow(t)' = i
    BY <2>4
  <2> QED
    BY <1>3, <2>1, <2>2, <2>3, <2>4 DEF Uses
<1> QED
  BY <1>1, <1>2, <1>3, SingleKeeps

\* One turn moves, and is the only one under way.
LEMMA OneTurnMoves ==
  ASSUME EntriesInv, Single, NEW t \in Registry!Turn, Busy(t), NEW u, turns' = [turns EXCEPT ![t] = u]
  PROVE  /\ AtMostOne' /\ turns'[t] = u
         /\ \A s \in Registry!Turn : s # t => turns'[s] = turns[s] /\ ~Busy(s)
         /\ Rekeying' <=> (u.pc = "rekey")
         /\ Rekeying <=> (turns[t].pc = "rekey")
<1>1. turns'[t] = u /\ \A s \in Registry!Turn : s # t => turns'[s] = turns[s]
  BY DEF EntriesInv, Typed, Registry!TypeOK
<1>2. \A s \in Registry!Turn : s # t => ~Busy(s)
  BY DEF Single, AtMostOne
<1>3. AtMostOne'
  BY <1>1, <1>2 DEF AtMostOne, Busy
<1> QED
  BY <1>1, <1>2, <1>3 DEF Rekeying, Busy

\* What a turn may be after a step, by the processes registered then.
MayBecome(t, u) ==
  /\ u.sess = turns[t].sess /\ u.now = u.sess
  /\ u.own \in 0 .. Procs
  /\ u.pc \in {"start", "register"} => live'[IdNow(t)] = 0
  /\ u.pc \in HasProcess => u.own # 0 /\ process[u.own].st # "none"
  /\ u.pc \in {"running", "update", "adopt"} => live'[IdNow(t)] \in {0, u.own}
  /\ u.pc = "adopt" => IdNow(t) = 0

\* The step of a turn that takes no id for its session.
LEMMA SingleTurn ==
  ASSUME EntriesInv, Registry!ConstantsAssumption, Single, UNCHANGED <<store, made, dropped>>,
         NEW t \in Registry!Turn, Busy(t), turns[t].pc # "rekey",
         NEW u, turns' = [turns EXCEPT ![t] = u], u.pc # "rekey",
         \A o \in 1 .. Objs : obj'[o].id = obj[o].id,
         \A i \in Registry!Id, n \in Registry!Proc :
           store[i] # 0 /\ obj'[store[i]].native = n => Uses(i, n),
         \A i \in Registry!Id : live'[i] # 0 =>
           live'[i] = live[i] \/ (IdNow(t) = i /\ TurnHas(t, live'[i])),
         live' \in [0 .. Procs -> 0 .. Procs],
         SameProcesses,
         u.pc \notin {"idle", "done"} => MayBecome(t, u),
         \A n \in Registry!Proc :
           /\ u.pc \notin {"idle", "done"}
           /\ u.resume = n \/ (u.pc \in HasProcess /\ process[u.own].native = n)
           => Uses(IdNow(t), n)
  PROVE  Single'
<1>1. /\ AtMostOne' /\ turns'[t] = u /\ (Rekeying' <=> Rekeying)
      /\ \A s \in Registry!Turn : s # t => ~Busy(s)'
  BY OneTurnMoves DEF Busy
<1>2. /\ turns[t].sess.obj \in 1 .. made /\ turns[t].sess.obj \in 1 .. Objs
      /\ turns[t].sess = Registry!Pointer(turns[t].sess.obj)
  BY TurnSession
<1>3. Busy(t)' => IdNow(t)' = IdNow(t)
  BY <1>1, <1>2 DEF IdNow, Busy, MayBecome
<1>4. ASSUME NEW s \in Registry!Turn, Busy(s)' PROVE TurnFits(s)'
  <2>1. s = t /\ u.pc \notin {"idle", "done"}
    BY <1>1, <1>4 DEF Busy
  <2>2. MayBecome(t, u)
    BY <2>1
  <2>3. u.pc \in HasProcess => process'[u.own].st # "none"
    <3>1. u.own # 0 => u.own \in Registry!Proc
      BY <2>2, Shapes DEF MayBecome
    <3> QED
      BY <2>2, <3>1 DEF MayBecome, SameProcesses
  <2>4. IdNow(t)' = IdNow(t) /\ turns'[t] = u
    BY <1>1, <1>3, <1>4, <2>1
  <2>5. u.sess = Registry!Pointer(u.sess.obj) /\ u.sess.obj \in 1 .. made /\ u.now = u.sess
    BY <1>2, <2>2 DEF MayBecome
  <2> QED
    BY <2>1, <2>2, <2>3, <2>4, <2>5 DEF MayBecome, TurnFits, HasProcess, Registry!Pointer, Registry!NoRef, Registry!AnyType
<1>5. ASSUME NEW s \in Registry!Turn, NEW n \in Registry!Proc, TurnUses(s, n)'
      PROVE  Uses(IdNow(s)', n)
  <2>1. s = t /\ u.pc \notin {"idle", "done"}
    BY <1>1, <1>5 DEF Busy, TurnUses
  <2>2. u.resume = n \/ (u.pc \in HasProcess /\ process'[u.own].native = n)
    BY <1>1, <1>5, <2>1 DEF TurnUses
  <2>3. u.pc \in HasProcess => process'[u.own].native = process[u.own].native
    <3>1. u.own # 0 => u.own \in Registry!Proc
      BY <2>1, Shapes DEF MayBecome
    <3> QED
      BY <2>1, <3>1 DEF MayBecome, SameProcesses
  <2>4. IdNow(t)' = IdNow(t)
    BY <1>1, <1>3, <2>1 DEF Busy
  <2> QED
    BY <2>1, <2>2, <2>3, <2>4
<1> QED
  BY <1>1, <1>4, <1>5, SingleLessens

\* What the store has for an id is the session's native one, or its own.
LEMMA UsesSame ==
  ASSUME NEW i, NEW n, store[i] # 0, obj[store[i]].native = n
  PROVE  Uses(i, n)
BY DEF Uses

\* Closing processes leaves their native sessions.
LEMMA ClosedKeep ==
  ASSUME EntriesInv, Registry!ConstantsAssumption, NEW ps, Registry!CloseAll(ps)
  PROVE  SameProcesses
<1> SUFFICES ASSUME NEW p \in Registry!Proc
             PROVE  process'[p].native = process[p].native /\ (process'[p].st = "none" <=> process[p].st = "none")
  BY DEF SameProcesses
<1>1. process[p] \in ProcRec
  BY Shapes
<1> QED
  BY <1>1 DEF Registry!CloseAll, ProcRec, Registry!Running

LEMMA RemovedKeep ==
  ASSUME EntriesInv, Registry!ConstantsAssumption, NEW ids, Registry!Remove(ids)
  PROVE  /\ SameProcesses /\ live' \in [0 .. Procs -> 0 .. Procs]
         /\ \A i \in Registry!Id : live'[i] = IF i \in ids THEN 0 ELSE live[i]
<1>1. SameProcesses
  BY ClosedKeep DEF Registry!Remove
<1> QED
  BY <1>1, Shapes DEF Registry!Remove

LEMMA UnchangedKeep ==
  ASSUME UNCHANGED process
  PROVE  SameProcesses
BY DEF SameProcesses

-----------------------------------------------------------------------------
(* The steps of the others *)

\* The turns stay, and so does what belongs to them.
LEMMA SingleOthers ==
  ASSUME EntriesInv, Registry!ConstantsAssumption, Single, UNCHANGED <<obj, store, made, dropped, turns>>,
         \A i \in Registry!Id : live'[i] \in {0, live[i]},
         live' \in [0 .. Procs -> 0 .. Procs], SameProcesses
  PROVE  Single'
<1>1. AtMostOne' /\ (Rekeying' <=> Rekeying)
  BY DEF Single, AtMostOne, Busy, Rekeying
<1>2. ASSUME NEW t \in Registry!Turn, Busy(t)' PROVE TurnFits(t)'
  <2>1. Busy(t) /\ TurnFits(t) /\ IdNow(t)' = IdNow(t)
    BY <1>2 DEF Busy, Single, IdNow
  <2>2. /\ IdNow(t) \in 0 .. Procs /\ turns[t].own \in 0 .. Procs
        /\ turns[t].own # 0 => turns[t].own \in Registry!Proc
    BY <2>1, Shapes, TurnSession
  <2>3. live'[IdNow(t)] \in {0, live[IdNow(t)]} /\ live'[0] \in {0, live[0]}
    <3>1. 0 \in Registry!Id /\ IdNow(t) \in Registry!Id
      BY <2>2, Shapes
    <3> QED
      BY <3>1
  <2> QED
    BY <2>1, <2>2, <2>3 DEF TurnFits, HasProcess, Registry!Pointer, Registry!NoRef, Registry!AnyType, SameProcesses
<1>3. ASSUME NEW t \in Registry!Turn, NEW n \in Registry!Proc, TurnUses(t, n)'
      PROVE  Uses(IdNow(t)', n)
  <2>1. Busy(t) /\ TurnFits(t) /\ IdNow(t)' = IdNow(t)
    BY <1>3 DEF Busy, Single, IdNow, TurnUses
  <2>2. turns[t].own # 0 => turns[t].own \in Registry!Proc
    BY <2>1, Shapes, TurnSession
  <2>3. TurnUses(t, n)
    BY <1>3, <2>1, <2>2 DEF TurnUses, Busy, TurnFits, SameProcesses
  <2> QED
    BY <2>1, <2>3, TurnUsesIts
<1> QED
  BY <1>1, <1>2, <1>3, UsesSame, SingleLessens

\* /new: the session made has the pending id, and no native one.
LEMMA SingleNew ==
  ASSUME EntriesInv, Registry!ConstantsAssumption, Single, NEW y, Registry!New(y)
  PROVE  Single'
<1> DEFINE o == IF store[Registry!Pending] = 0 THEN made + 1 ELSE store[Registry!Pending]
           fresh == [id |-> Registry!Pending, type |-> y, native |-> 0, conv |-> news + 1]
<1>1. /\ o \in Registry!Obj /\ made' = IF store[0] = 0 THEN made + 1 ELSE made
      /\ obj' = [obj EXCEPT ![o] = fresh] /\ store' = [store EXCEPT ![0] = o]
      /\ UNCHANGED <<live, process, turns, dropped>>
  BY DEF Registry!New, Registry!Pending
<1>2. /\ StoreFits /\ NativesKnown /\ EntriesFit /\ ThreadsApart /\ AtMostOne
      /\ \A t \in Registry!Turn : Busy(t) => TurnFits(t)
  BY DEF Single
<1>3. /\ 0 \in Registry!Id /\ fresh.id = 0 /\ fresh.native = 0 /\ made \in Nat /\ Objs \in Nat /\ made <= Objs
      /\ o = IF store[0] = 0 THEN made + 1 ELSE store[0]
  BY Shapes DEF Registry!Pending
<1>4. /\ o \in 1 .. made' /\ 1 .. made \subseteq 1 .. made'
      /\ \A e \in 1 .. made' : e = o \/ e \in 1 .. made
      /\ o \in 1 .. made => obj[o].id = 0
      /\ made' <= Objs
  BY <1>1, <1>2, <1>3, Shapes, SMTT(60) DEF StoreFits
<1>5. /\ \A e \in 1 .. Objs : obj'[e] = IF e = o THEN fresh ELSE obj[e]
      /\ \A i \in Registry!Id : store'[i] = IF i = 0 THEN o ELSE store[i]
  BY <1>1, Shapes
<1> HIDE DEF o, fresh
<1>6. \A e \in 1 .. made : obj'[e].id = obj[e].id /\ e \in 1 .. Objs
  BY <1>3, <1>4, <1>5
<1>7. StoreFits'
  <2>1. ASSUME NEW i \in Registry!Id, store'[i] # 0 PROVE store'[i] \in 1 .. made' /\ obj'[store'[i]].id = i
    <3>1. CASE i = 0
      BY <1>1, <1>3, <1>4, <1>5, <3>1, Shapes
    <3>2. CASE i # 0
      BY <1>2, <1>4, <1>5, <1>6, <2>1, <3>2 DEF StoreFits
    <3> QED
      BY <3>1, <3>2
  <2>2. ASSUME NEW e \in 1 .. made' PROVE store'[obj'[e].id] = e
    <3>1. CASE e = o
      BY <1>1, <1>3, <1>5, <3>1, Shapes
    <3>2. CASE e # o
      <4>1. e \in 1 .. made /\ store[obj[e].id] = e /\ obj'[e].id = obj[e].id
        BY <1>2, <1>4, <1>6, <3>2 DEF StoreFits
      <4>2. obj[e].id \in Registry!Id
        BY <4>1, <1>6, Shapes DEF ObjRec
      <4>3. obj[e].id # 0
        BY <4>1, <1>3, <1>4, <3>2
      <4> QED
        BY <4>1, <4>2, <4>3, <1>5
    <3> QED
      BY <3>1, <3>2
  <2> QED
    BY <2>1, <2>2 DEF StoreFits
<1>8. AtMostOne' /\ (Rekeying' <=> Rekeying) /\ SameProcesses
  BY <1>1, <1>2 DEF AtMostOne, Busy, Rekeying, SameProcesses
<1>9. ASSUME NEW t \in Registry!Turn, Busy(t) PROVE IdNow(t)' = IdNow(t)
  BY <1>1, <1>6, <1>9, TurnSession DEF IdNow
<1>10. ASSUME NEW t \in Registry!Turn, Busy(t)' PROVE TurnFits(t)'
  <2>1. Busy(t) /\ TurnFits(t) /\ IdNow(t)' = IdNow(t)
    BY <1>1, <1>2, <1>9, <1>10 DEF Busy
  <2> QED
    BY <1>1, <1>4, <2>1 DEF TurnFits, HasProcess, Registry!Pointer, Registry!NoRef, Registry!AnyType
<1>11. EntriesFit'
  <2> SUFFICES ASSUME NEW i \in Registry!Id, live'[i] # 0
               PROVE  process'[live'[i]].st # "none" /\ (store'[i] = 0 => i = 0 /\ Rekeying')
    BY DEF EntriesFit
  <2>1. process'[live'[i]].st # "none" /\ (store[i] = 0 => i = 0 /\ Rekeying)
    BY <1>1, <1>2 DEF EntriesFit
  <2>2. o # 0 /\ (store'[i] = 0 => store[i] = 0)
    BY <1>1, <1>5, Shapes
  <2> QED
    BY <1>8, <2>1, <2>2
<1>12. ASSUME NEW i \in Registry!Id, NEW n \in Registry!Proc, Uses(i, n)' PROVE Uses(i, n)
  <2>0. n # 0
    BY Shapes
  <2>1. CASE i = n /\ store'[i] # 0
    BY <1>5, <2>0, <2>1 DEF Uses
  <2>2. CASE store'[i] # 0 /\ obj'[store'[i]].native = n
    <3>1. i # 0
      BY <1>1, <1>3, <1>5, <2>0, <2>2 DEF Registry!Obj
    <3>2. store'[i] = store[i] /\ store[i] \in 1 .. made /\ obj[store[i]].id = i
      BY <1>2, <1>5, <2>2, <3>1 DEF StoreFits
    <3>3. store[i] # o /\ store[i] \in 1 .. Objs
      BY <1>4, <1>6, <3>1, <3>2
    <3> QED
      BY <1>5, <2>2, <3>2, <3>3, UsesSame
  <2>3. CASE live'[i] # 0 /\ process'[live'[i]].native = n /\ ~(i = 0 /\ Rekeying')
    BY <1>1, <1>8, <2>3 DEF Uses
  <2>4. CASE \E t \in Registry!Turn : TurnUses(t, n)' /\ IdNow(t)' = i
    BY <1>1, <1>9, <2>4 DEF Uses, TurnUses, Busy
  <2> QED
    BY <1>12, <2>1, <2>2, <2>3, <2>4 DEF Uses
<1> QED
  BY <1>1, <1>7, <1>8, <1>10, <1>11, <1>12, SingleKeeps

\* /new, /switch, /dir, Close, and processes that end.
LEMMA SingleByOthers ==
  ASSUME EntriesInv, Registry!ConstantsAssumption, Single,
         \/ \E y \in registryLoad.types : Registry!New(y)
         \/ \E i \in Registry!Id : Registry!Switch(i)
         \/ Registry!DirSet \/ Registry!Close \/ Registry!CloseTaken
         \/ \E p \in Registry!Proc : Registry!Exit(p)
  PROVE  Single'
<1> USE DEF Registry!sessionVars, Registry!closeVars
<1>0. live \in [0 .. Procs -> 0 .. Procs] /\ Registry!Id = 0 .. Procs
  BY Shapes
<1>1. CASE \E y \in registryLoad.types : Registry!New(y)
  BY <1>1, SingleNew
<1>2. CASE \E i \in Registry!Id : Registry!Switch(i)
  BY <1>0, <1>2, SingleOthers, UnchangedKeep DEF Registry!Switch
<1>3. CASE Registry!DirSet
  BY <1>0, <1>3, SingleOthers, RemovedKeep DEF Registry!DirSet
<1>4. CASE Registry!Close
  BY <1>0, <1>4, SingleOthers, UnchangedKeep, Shapes DEF Registry!Close
<1>5. CASE Registry!CloseTaken
  BY <1>0, <1>5, SingleOthers, ClosedKeep DEF Registry!CloseTaken
<1>6. CASE \E p \in Registry!Proc : Registry!Exit(p)
  <2> PICK p \in Registry!Proc : Registry!Exit(p)
    BY <1>6
  <2>1. SameProcesses
    <3> SUFFICES ASSUME NEW q \in Registry!Proc
             PROVE  process'[q].native = process[q].native /\ (process'[q].st = "none" <=> process[q].st = "none")
      BY DEF SameProcesses
    <3>1. process[q] \in ProcRec /\ process \in [Registry!Proc -> ProcRec]
      BY Shapes
    <3> QED
      BY <3>1 DEF Registry!Exit, ProcRec, Registry!Running
  <2> QED
    BY <1>0, <2>1, SingleOthers DEF Registry!Exit
<1> QED
  BY <1>1, <1>2, <1>3, <1>4, <1>5, <1>6

-----------------------------------------------------------------------------
(* The steps of a turn that leave the ids where they are *)

\* What a turn is started on, and what its process works on.
LEMMA TurnNatives ==
  ASSUME NEW t \in Registry!Turn, Busy(t)
  PROVE  /\ \A n : turns[t].resume = n => Uses(IdNow(t), n)
         /\ \A n : turns[t].pc \in HasProcess /\ process[turns[t].own].native = n => Uses(IdNow(t), n)
BY DEF Uses, TurnUses

\* A turn is over.
LEMMA SingleOver ==
  ASSUME EntriesInv, Registry!ConstantsAssumption, Single, UNCHANGED <<obj, store, made, dropped>>,
         NEW t \in Registry!Turn, Busy(t), turns[t].pc # "rekey",
         turns' = [turns EXCEPT ![t] = Registry!NoTurn("done")],
         \A i \in Registry!Id : live'[i] \in {0, live[i]},
         live' \in [0 .. Procs -> 0 .. Procs], SameProcesses
  PROVE  Single'
<1>1. Registry!NoTurn("done").pc = "done"
  BY DEF Registry!NoTurn
<1> QED
  BY <1>1, UsesSame, SingleTurn

LEMMA SingleLookup ==
  ASSUME EntriesInv, Registry!ConstantsAssumption, Single, NEW t \in Registry!Turn, Registry!Lookup(t)
  PROVE  Single'
<1> USE DEF Registry!sessionVars, Registry!closeVars
<1>1. turns[t].pc = "lookup" /\ Busy(t) /\ UNCHANGED <<obj, store, made, dropped>>
  BY DEF Registry!Lookup, Busy
<1>2. /\ Registry!IdOf(turns[t].sess) = IdNow(t) /\ IdNow(t) \in Registry!Id /\ IdNow(t) \in 0 .. Procs
      /\ turns[t].now = turns[t].sess /\ turns[t] \in TurnRec
  BY <1>1, TurnSession, Shapes
<1>3. ~Rekeying
  BY <1>1, OneTurnMoves DEF Rekeying, Single, AtMostOne, Busy
<1>4. CASE live[IdNow(t)] # 0 /\ process[live[IdNow(t)]].type = Registry!TypeOf(turns[t].sess)
  <2> DEFINE u == [turns[t] EXCEPT !.pc = "running", !.own = live[IdNow(t)]]
  <2>1. /\ turns' = [turns EXCEPT ![t].pc = "running", ![t].own = live[IdNow(t)]]
        /\ UNCHANGED <<live, process>>
    BY <1>2, <1>4 DEF Registry!Lookup
  <2>2. turns' = [turns EXCEPT ![t] = u]
    BY <2>1, Shapes
  <2>3. /\ u.pc = "running" /\ u.own = live[IdNow(t)] /\ u.sess = turns[t].sess /\ u.now = turns[t].sess
        /\ u.resume = turns[t].resume
    BY <1>2 DEF TurnRec
  <2> HIDE DEF u
  <2>4. live[IdNow(t)] \in 0 .. Procs /\ process[live[IdNow(t)]].st # "none"
    BY <1>2, <1>4, Shapes DEF Single, EntriesFit
  <2>5. MayBecome(t, u)
    BY <1>2, <1>4, <2>1, <2>3, <2>4 DEF MayBecome
  <2>6. ASSUME NEW n \in Registry!Proc,
               u.resume = n \/ (u.pc \in HasProcess /\ process[u.own].native = n)
        PROVE  Uses(IdNow(t), n)
    <3>1. CASE u.resume = n
      BY <1>1, <2>3, <3>1, TurnNatives
    <3>2. CASE process[u.own].native = n
      BY <1>3, <1>4, <2>3, <3>2 DEF Uses
    <3> QED
      BY <2>6, <3>1, <3>2
  <2>7. SameProcesses /\ live' \in [0 .. Procs -> 0 .. Procs]
    BY <2>1, UnchangedKeep, Shapes
  <2>8. \A i \in Registry!Id, n \in Registry!Proc :
          store[i] # 0 /\ obj'[store[i]].native = n => Uses(i, n)
    BY <1>1, UsesSame
  <2>9. turns[t].pc # "rekey" /\ u.pc # "rekey"
    BY <1>1, <2>3
  <2> QED
    BY <1>1, <2>1, <2>2, <2>5, <2>6, <2>7, <2>8, <2>9, SingleTurn
<1>5. CASE ~(live[IdNow(t)] # 0 /\ process[live[IdNow(t)]].type = Registry!TypeOf(turns[t].sess))
  <2> DEFINE u == [turns[t] EXCEPT !.pc = "start", !.own = 0]
  <2>1. turns' = [turns EXCEPT ![t].pc = "start", ![t].own = 0] /\ Registry!Remove({IdNow(t)})
    BY <1>2, <1>5 DEF Registry!Lookup
  <2>2. turns' = [turns EXCEPT ![t] = u]
    BY <2>1, Shapes
  <2>3. /\ u.pc = "start" /\ u.own = 0 /\ u.sess = turns[t].sess /\ u.now = turns[t].sess
        /\ u.resume = turns[t].resume
    BY <1>2 DEF TurnRec
  <2> HIDE DEF u
  <2>4. /\ SameProcesses /\ live' \in [0 .. Procs -> 0 .. Procs]
        /\ \A i \in Registry!Id : live'[i] = IF i = IdNow(t) THEN 0 ELSE live[i]
    BY <2>1, RemovedKeep
  <2>5. MayBecome(t, u)
    BY <1>2, <2>3, <2>4, Shapes DEF MayBecome, HasProcess
  <2>6. \A n \in Registry!Proc :
          u.resume = n \/ (u.pc \in HasProcess /\ process[u.own].native = n) => Uses(IdNow(t), n)
    BY <1>1, <2>3, TurnNatives DEF HasProcess
  <2> QED
    BY <1>1, <2>2, <2>3, <2>4, <2>5, <2>6, UsesSame, SingleTurn, ZenonT(60)
<1> QED
  BY <1>4, <1>5

LEMMA SingleRegister ==
  ASSUME EntriesInv, Registry!ConstantsAssumption, Single, NEW t \in Registry!Turn, Registry!Register(t)
  PROVE  Single'
<1> USE DEF Registry!sessionVars, Registry!closeVars
<1>1. turns[t].pc = "register" /\ Busy(t) /\ UNCHANGED <<obj, store, made, dropped>>
  BY DEF Registry!Register, Busy
<1>2. /\ Registry!IdOf(turns[t].sess) = IdNow(t) /\ IdNow(t) \in Registry!Id /\ IdNow(t) \in 0 .. Procs
      /\ turns[t].now = turns[t].sess /\ turns[t] \in TurnRec /\ turns[t].own \in 0 .. Procs
  BY <1>1, TurnSession, Shapes
<1>3. live[IdNow(t)] = 0 /\ turns[t].own # 0 /\ process[turns[t].own].st # "none"
  BY <1>1 DEF Single, TurnFits, HasProcess
<1>4. PICK known \in BOOLEAN :
        /\ live' = [live EXCEPT ![IdNow(t)] = turns[t].own] /\ UNCHANGED process
        /\ turns' = [turns EXCEPT ![t].pc = IF known THEN "update" ELSE "running", ![t].keep = FALSE]
  BY <1>2, <1>3 DEF Registry!Register
<1> DEFINE u == [turns[t] EXCEPT !.pc = IF known THEN "update" ELSE "running", !.keep = FALSE]
<1>5. turns' = [turns EXCEPT ![t] = u]
  BY <1>4, Shapes
<1>6. /\ u.pc \in {"running", "update"} /\ u.own = turns[t].own /\ u.sess = turns[t].sess
      /\ u.now = turns[t].sess /\ u.resume = turns[t].resume
  BY <1>2 DEF TurnRec
<1> HIDE DEF u
<1>7. \A i \in Registry!Id : live'[i] = IF i = IdNow(t) THEN turns[t].own ELSE live[i]
  BY <1>4, Shapes
<1>8. MayBecome(t, u)
  BY <1>2, <1>3, <1>6, <1>7 DEF MayBecome
<1>9. \A i \in Registry!Id : live'[i] # 0 =>
        live'[i] = live[i] \/ (IdNow(t) = i /\ TurnHas(t, live'[i]))
  BY <1>1, <1>7 DEF TurnHas, HasProcess
<1>10. \A n \in Registry!Proc :
         u.resume = n \/ (u.pc \in HasProcess /\ process[u.own].native = n) => Uses(IdNow(t), n)
  BY <1>1, <1>6, TurnNatives DEF HasProcess
<1>11. live' \in [0 .. Procs -> 0 .. Procs]
  BY <1>2, <1>4, Shapes
<1>12. \A i \in Registry!Id, n \in Registry!Proc :
         store[i] # 0 /\ obj'[store[i]].native = n => Uses(i, n)
  BY <1>1, UsesSame
<1>13. turns[t].pc # "rekey" /\ u.pc # "rekey" /\ SameProcesses
  BY <1>1, <1>4, <1>6, UnchangedKeep
<1> QED
  BY <1>1, <1>5, <1>8, <1>9, <1>10, <1>11, <1>12, <1>13, SingleTurn

\* A turn that keeps its process, and goes on with it.
LEMMA SingleGoesOn ==
  ASSUME EntriesInv, Registry!ConstantsAssumption, Single, UNCHANGED <<store, made, dropped, live, process>>,
         NEW t \in Registry!Turn, turns[t].pc \in {"running", "update", "adopt"},
         NEW pc \in {"running", "update", "adopt"}, NEW keep \in BOOLEAN,
         turns' = [turns EXCEPT ![t].pc = pc, ![t].keep = keep],
         pc = "adopt" => IdNow(t) = 0,
         \A o \in 1 .. Objs : obj'[o].id = obj[o].id,
         \A i \in Registry!Id, n \in Registry!Proc :
           store[i] # 0 /\ obj'[store[i]].native = n => Uses(i, n)
  PROVE  Single'
<1> DEFINE u == [turns[t] EXCEPT !.pc = pc, !.keep = keep]
<1>1. Busy(t) /\ TurnFits(t)
  BY DEF Busy, Single
<1>2. turns[t].now = turns[t].sess /\ turns[t] \in TurnRec /\ turns[t].own \in 0 .. Procs
  BY <1>1, TurnSession, Shapes
<1>3. turns' = [turns EXCEPT ![t] = u]
  BY Shapes
<1>4. /\ u.pc = pc /\ u.own = turns[t].own /\ u.sess = turns[t].sess
      /\ u.now = turns[t].sess /\ u.resume = turns[t].resume
  BY <1>2 DEF TurnRec
<1> HIDE DEF u
<1>5. MayBecome(t, u)
  BY <1>1, <1>2, <1>4 DEF MayBecome, TurnFits, HasProcess
<1>6. \A n \in Registry!Proc :
        u.resume = n \/ (u.pc \in HasProcess /\ process[u.own].native = n) => Uses(IdNow(t), n)
  BY <1>1, <1>4, TurnNatives DEF HasProcess
<1>7. live' \in [0 .. Procs -> 0 .. Procs] /\ SameProcesses
  BY Shapes, UnchangedKeep
<1>8. turns[t].pc # "rekey" /\ u.pc # "rekey"
  BY <1>4
<1> QED
  BY <1>1, <1>3, <1>5, <1>6, <1>7, <1>8, SingleTurn, ZenonT(60)

LEMMA SingleSessionEvent ==
  ASSUME EntriesInv, Registry!ConstantsAssumption, Single, NEW t \in Registry!Turn, NEW keep \in BOOLEAN,
         Registry!SessionEvent(t, keep)
  PROVE  Single'
BY SingleGoesOn, UsesSame DEF Registry!SessionEvent, Registry!sessionVars, Registry!closeVars

\* What the drain reaches is the turn's session alone.
LEMMA ReachesIts ==
  ASSUME EntriesInv, Registry!ConstantsAssumption, Single, NEW t \in Registry!Turn, Busy(t)
  PROVE  /\ Registry!Reached(turns[t].now) = {turns[t].sess.obj}
         /\ Registry!Reached(turns[t].sess) = {turns[t].sess.obj}
<1>1. Registry!Pointer(turns[t].sess.obj).copy = FALSE
  BY DEF Registry!Pointer, Registry!NoRef
<1> QED
  BY <1>1, TurnSession DEF Registry!Reached

\* The native id of the process becomes that of the session.
LEMMA SingleUpdate ==
  ASSUME EntriesInv, Registry!ConstantsAssumption, Single, NEW t \in Registry!Turn, Registry!Update(t)
  PROVE  Single'
<1> USE DEF Registry!closeVars
<1> DEFINE o == turns[t].sess.obj
<1>1. /\ turns[t].pc = "update" /\ Busy(t) /\ UNCHANGED <<store, made, dropped, live, process>>
      /\ turns[t].pc \in HasProcess
  BY DEF Registry!Update, Busy, HasProcess
<1>2. /\ Registry!IdOf(turns[t].now) = IdNow(t) /\ IdNow(t) \in Registry!Id /\ o \in 1 .. Objs
      /\ store[IdNow(t)] = o /\ o # 0 /\ turns[t] \in TurnRec /\ o \in 1 .. made
  BY <1>1, TurnSession, Shapes
<1>3. obj' = [e \in Registry!Obj |-> IF e = o THEN [obj[e] EXCEPT !.native = process[turns[t].own].native]
                                             ELSE obj[e]]
  BY <1>1, ReachesIts DEF Registry!Update
<1>4. /\ \A e \in 1 .. Objs : obj'[e].id = obj[e].id /\ (e # o => obj'[e] = obj[e])
      /\ obj'[o].native = process[turns[t].own].native
  BY <1>2, <1>3, Shapes DEF ObjRec
<1>5. ASSUME NEW i \in Registry!Id, NEW n \in Registry!Proc, store[i] # 0, obj'[store[i]].native = n
      PROVE  Uses(i, n)
  <2>1. StoreFits /\ store[i] \in 1 .. Objs
    BY <1>5, Shapes DEF Single
  <2>2. CASE store[i] = o
    <3>1. i = IdNow(t)
      BY <1>1, <1>5, <2>1, <2>2, TurnSession DEF StoreFits
    <3> QED
      BY <1>1, <1>4, <1>5, <2>2, <3>1, TurnNatives
  <2>3. CASE store[i] # o
    BY <1>4, <1>5, <2>1, <2>3, UsesSame
  <2> QED
    BY <2>2, <2>3
<1>6. CASE IdNow(t) = Registry!Pending
  <2>1. turns' = [turns EXCEPT ![t].pc = "adopt"]
    BY <1>2, <1>6 DEF Registry!Update
  <2>2. turns' = [turns EXCEPT ![t].pc = "adopt", ![t].keep = turns[t].keep] /\ turns[t].keep \in BOOLEAN
    BY <1>2, <2>1, Shapes DEF TurnRec
  <2> QED
    BY <1>1, <1>4, <1>5, <1>6, <2>2, SingleGoesOn DEF Registry!Pending
<1>7. CASE IdNow(t) # Registry!Pending
  <2>1. turns' = [turns EXCEPT ![t].pc = "running", ![t].keep = FALSE]
    BY <1>2, <1>7 DEF Registry!Update, Registry!GoOn
  <2> QED
    BY <1>1, <1>4, <1>5, <2>1, SingleGoesOn
<1> QED
  BY <1>6, <1>7

\* The turn begins anew, without the process registered for its session.
LEMMA SingleAgain ==
  ASSUME EntriesInv, Registry!ConstantsAssumption, Single, UNCHANGED <<store, made, dropped>>,
         NEW t \in Registry!Turn, turns[t].pc = "running", NEW u,
         turns' = [turns EXCEPT ![t] = u],
         u.pc = "lookup", u.sess = turns[t].sess, u.now = turns[t].sess, u.own = turns[t].own,
         u.resume \in {0, turns[t].resume},
         NEW ids, Registry!Remove(ids),
         \A o \in 1 .. Objs : obj'[o].id = obj[o].id,
         \A i \in Registry!Id, n \in Registry!Proc :
           store[i] # 0 /\ obj'[store[i]].native = n => Uses(i, n)
  PROVE  Single'
<1>1. Busy(t)
  BY DEF Busy
<1>2. /\ SameProcesses /\ live' \in [0 .. Procs -> 0 .. Procs]
      /\ \A i \in Registry!Id : live'[i] = IF i \in ids THEN 0 ELSE live[i]
  BY RemovedKeep
<1>3. MayBecome(t, u)
  BY <1>1, TurnSession DEF MayBecome, HasProcess
<1>4. ASSUME NEW n \in Registry!Proc,
             u.resume = n \/ (u.pc \in HasProcess /\ process[u.own].native = n)
      PROVE  Uses(IdNow(t), n)
  <2>1. turns[t].resume = n
    BY <1>4, Shapes DEF HasProcess
  <2> QED
    BY <1>1, <2>1, TurnNatives
<1> QED
  BY <1>1, <1>2, <1>3, <1>4, SingleTurn, ZenonT(60)

LEMMA SingleRestart ==
  ASSUME EntriesInv, Registry!ConstantsAssumption, Single, NEW t \in Registry!Turn,
         Registry!Restart(t) \/ Registry!RetryFresh(t)
  PROVE  Single'
<1> USE DEF Registry!sessionVars, Registry!closeVars
<1>1. turns[t].pc = "running" /\ Busy(t) /\ turns[t] \in TurnRec
  BY Shapes DEF Registry!Restart, Registry!RetryFresh, Busy
<1>2. CASE Registry!Restart(t)
  <2> DEFINE u == [turns[t] EXCEPT !.pc = "lookup", !.again = TRUE, !.now = turns[t].sess]
  <2>1. /\ turns' = [turns EXCEPT ![t] = u] /\ UNCHANGED <<obj, store, made, dropped>>
        /\ Registry!Remove({Registry!IdOf(turns[t].sess)})
    BY <1>2, Shapes DEF Registry!Restart
  <2>2. /\ u.pc = "lookup" /\ u.sess = turns[t].sess /\ u.now = turns[t].sess /\ u.own = turns[t].own
        /\ u.resume = turns[t].resume
    BY <1>1 DEF TurnRec
  <2> HIDE DEF u
  <2> QED
    BY <1>1, <2>1, <2>2, UsesSame, SingleAgain
<1>3. CASE Registry!RetryFresh(t)
  <2> DEFINE u == [turns[t] EXCEPT !.pc = "lookup", !.again = TRUE, !.resume = 0, !.now = turns[t].sess]
             ids == {Registry!IdOf(r) : r \in {turns[t].now, turns[t].sess}}
  <2>1. turns' = [turns EXCEPT ![t] = u] /\ UNCHANGED <<store, made, dropped>> /\ Registry!Remove(ids)
    BY <1>3, Shapes DEF Registry!RetryFresh
  <2>2. /\ u.pc = "lookup" /\ u.sess = turns[t].sess /\ u.now = turns[t].sess /\ u.own = turns[t].own
        /\ u.resume = 0
    BY <1>1 DEF TurnRec
  <2> HIDE DEF u, ids
  <2>3. \A e \in 1 .. Objs : obj'[e] = obj[e] \/ obj'[e] = [obj[e] EXCEPT !.native = 0]
    BY <1>3, Shapes DEF Registry!RetryFresh
  <2>4. \A e \in 1 .. Objs : obj'[e].id = obj[e].id /\ obj'[e].native \in {0, obj[e].native}
    BY <2>3, Shapes, ZenonT(60) DEF ObjRec
  <2>5. ASSUME NEW i \in Registry!Id, NEW n \in Registry!Proc, store[i] # 0, obj'[store[i]].native = n
        PROVE  Uses(i, n)
    <3>1. store[i] \in 1 .. Objs /\ n # 0
      BY <2>5, Shapes
    <3> QED
      BY <2>4, <2>5, <3>1, UsesSame
  <2> QED
    BY <1>1, <2>1, <2>2, <2>4, <2>5, SingleAgain
<1> QED
  BY <1>2, <1>3

\* The ends of a turn.
LEMMA SingleEnds ==
  ASSUME EntriesInv, Registry!ConstantsAssumption, Single, NEW t \in Registry!Turn,
         Registry!StartFails(t) \/ Registry!TurnEnds(t) \/ Registry!TurnFails(t)
  PROVE  Single'
<1> USE DEF Registry!sessionVars, Registry!closeVars
<1>1. /\ Busy(t) /\ turns[t].pc # "rekey" /\ UNCHANGED <<obj, store, made, dropped>>
      /\ turns' = [turns EXCEPT ![t] = Registry!NoTurn("done")]
  BY DEF Registry!StartFails, Registry!TurnEnds, Registry!TurnFails, Busy
<1>2. CASE UNCHANGED <<live, process>>
  BY <1>1, <1>2, UnchangedKeep, Shapes, SingleOver
<1>3. CASE Registry!TurnFails(t)
  BY <1>1, <1>3, RemovedKeep, SingleOver DEF Registry!TurnFails
<1> QED
  BY <1>2, <1>3 DEF Registry!StartFails, Registry!TurnEnds

-----------------------------------------------------------------------------
(* The steps that begin a turn, or find an id for its session *)

\* Turns one at a time: none begins while another is under way.
LEMMA NoneBusy ==
  ASSUME EntriesInv, Registry!ConstantsAssumption, OneByOne, NEW t \in Registry!Turn, Registry!Startable(t)
  PROVE  \A s \in Registry!Turn : ~Busy(s)
<1>2. Registry!UnderWay = {}
  BY DEF Registry!Startable, OneByOne
<1> QED
  BY <1>2 DEF Registry!UnderWay, Busy

\* A turn begins: the only one, on a session of the store.
LEMMA SingleBegun ==
  ASSUME EntriesInv, Registry!ConstantsAssumption, StoreFits', NativesKnown, EntriesFit, ThreadsApart, dropped = {},
         \A s \in Registry!Turn : ~Busy(s), UNCHANGED <<live, process, dropped>>,
         NEW t \in Registry!Turn, NEW o, o \in 1 .. made',
         Registry!Begun(t, Registry!Pointer(o), obj'[o]),
         store'[obj'[o].id] = o, obj'[o].id \in Registry!Id,
         \A i \in Registry!Id, n \in Registry!Proc :
           store'[i] # 0 /\ (i = n \/ obj'[store'[i]].native = n) => Uses(i, n),
         \A i \in Registry!Id : store'[i] = 0 => store[i] = 0
  PROVE  Single'
<1> DEFINE u == [Registry!NoTurn("lookup") EXCEPT !.sess = Registry!Pointer(o),
                   !.now = Registry!Pointer(o), !.resume = obj'[o].native, !.conv = obj'[o].conv]
<1>1. /\ u.pc = "lookup" /\ u.sess = Registry!Pointer(o) /\ u.now = Registry!Pointer(o)
      /\ u.resume = obj'[o].native
  BY DEF Registry!NoTurn
<1>2. turns'[t] = u /\ \A s \in Registry!Turn : s # t => turns'[s] = turns[s]
  BY Shapes DEF Registry!Begun
<1> HIDE DEF u
<1>3. Registry!Pointer(o).obj = o
  BY DEF Registry!Pointer, Registry!NoRef
<1>4. \A s \in Registry!Turn : s # t => ~Busy(s)'
  BY <1>2 DEF Busy
<1>5. AtMostOne' /\ ~Rekeying' /\ ~Rekeying
  BY <1>1, <1>2, <1>4 DEF AtMostOne, Rekeying, Busy
<1>6. \A s \in Registry!Turn : Busy(s)' => TurnFits(s)'
  BY <1>1, <1>2, <1>3, <1>4, ZenonT(60) DEF TurnFits, HasProcess, Registry!Pointer, Registry!NoRef, Registry!AnyType
<1>7. EntriesFit'
  BY <1>5 DEF EntriesFit
<1>8. SameProcesses /\ IdNow(t)' = obj'[o].id
  BY <1>1, <1>2, <1>3, UnchangedKeep DEF IdNow
<1>9. ASSUME NEW i \in Registry!Id, NEW n \in Registry!Proc, Uses(i, n)' PROVE Uses(i, n)
  <2>1. CASE store'[i] # 0 /\ (i = n \/ obj'[store'[i]].native = n)
    BY <2>1
  <2>2. CASE live'[i] # 0 /\ process'[live'[i]].native = n
    BY <1>5, <2>2 DEF Uses
  <2>3. ASSUME NEW s \in Registry!Turn, TurnUses(s, n)', IdNow(s)' = i PROVE Uses(i, n)
    <3>1. s = t
      BY <1>4, <2>3 DEF TurnUses
    <3>2. u.resume = n
      BY <1>1, <1>2, <2>3, <3>1 DEF TurnUses, HasProcess
    <3>3. store'[i] = o /\ o # 0 /\ obj'[o].native = n
      BY <1>1, <1>8, <2>3, <3>1, <3>2, Shapes
    <3> QED
      BY <3>3
  <2> QED
    BY <1>9, <2>1, <2>2, <2>3 DEF Uses
<1>10. NativesKnown' /\ dropped' = {}
  BY DEF NativesKnown
<1>11. ThreadsApart'
  BY <1>8, <1>9 DEF ThreadsApart, SameProcesses
<1> QED
  BY <1>5, <1>6, <1>7, <1>10, <1>11 DEF Single

LEMMA SingleBegin ==
  ASSUME EntriesInv, Registry!ConstantsAssumption, OneByOne, Single, NEW t \in Registry!Turn,
         NEW c \in registryLoad.copies, Registry!Begin(t, c)
  PROVE  Single'
<1> USE DEF Registry!sessionVars, Registry!closeVars
<1> DEFINE o == store[active]
<1>1. \A s \in Registry!Turn : ~Busy(s)
  BY NoneBusy DEF Registry!Begin
<1>2. ~c
  BY DEF OneByOne
<1>3. /\ o # 0 /\ Registry!Begun(t, Registry!Pointer(o), obj[o])
      /\ UNCHANGED <<obj, store, made, live, process, dropped>>
  BY <1>2 DEF Registry!Begin
<1>4. o \in 1 .. made /\ obj[o].id = active /\ active \in Registry!Id
  BY <1>3, Shapes DEF Single, StoreFits
<1>5. StoreFits'
  BY <1>3 DEF Single, StoreFits
<1> QED
  BY <1>1, <1>3, <1>4, <1>5, SingleBegun DEF Single, Uses

LEMMA SingleBeginFirst ==
  ASSUME EntriesInv, Registry!ConstantsAssumption, OneByOne, Single, ActiveFits, NEW t \in Registry!Turn,
         NEW y, Registry!BeginFirst(t, y)
  PROVE  Single'
<1> DEFINE o == made + 1
           first == [Registry!NoObj EXCEPT !.type = y, !.conv = news]
<1>1. \A s \in Registry!Turn : ~Busy(s)
  BY NoneBusy DEF Registry!BeginFirst
<1>2. /\ o \in Registry!Obj /\ made' = o /\ store' = [store EXCEPT ![0] = o] /\ store[active] = 0
      /\ obj' = [obj EXCEPT ![o] = first]
      /\ Registry!Begun(t, Registry!Pointer(o), obj'[o])
      /\ UNCHANGED <<live, process, dropped>>
  BY DEF Registry!BeginFirst, Registry!closeVars, Registry!Pending
<1>3. first.id = 0 /\ first.native = 0
  BY DEF Registry!NoObj, Registry!Pending
<1>4. store[0] = 0
  BY <1>2 DEF ActiveFits
<1> HIDE DEF first
<1>5. /\ \A e \in 1 .. Objs : obj'[e] = IF e = o THEN first ELSE obj[e]
      /\ \A i \in Registry!Id : store'[i] = IF i = 0 THEN o ELSE store[i]
      /\ o \in 1 .. Objs /\ 0 \in Registry!Id /\ made \in Nat
  BY <1>2, Shapes
<1>6. /\ \A i \in Registry!Id : store[i] # 0 => store[i] \in 1 .. made /\ obj[store[i]].id = i
      /\ \A e \in 1 .. made : store[obj[e].id] = e
  BY DEF Single, StoreFits
<1>7. \A e \in 1 .. made : e \in 1 .. Objs /\ e # o /\ obj'[e] = obj[e] /\ e \in 1 .. made'
  <2> SUFFICES ASSUME NEW e \in 1 .. made
               PROVE  e \in 1 .. Objs /\ e # o /\ obj'[e] = obj[e] /\ e \in 1 .. made'
    OBVIOUS
  <2>1. made' = made + 1 /\ made + 1 \in 1 .. Objs /\ made \in Nat
    BY <1>2, <1>5
  <2>2. e \in 1 .. Objs /\ e # o /\ e \in 1 .. made'
    BY <2>1, Shapes
  <2> QED
    BY <1>5, <2>2
<1>8. o \in 1 .. made' /\ obj'[o] = first /\ store'[0] = o /\ o # 0
  BY <1>2, <1>5
<1>9. StoreFits'
  <2>1. ASSUME NEW i \in Registry!Id, store'[i] # 0 PROVE store'[i] \in 1 .. made' /\ obj'[store'[i]].id = i
    <3>1. CASE i = 0
      BY <1>3, <1>8, <3>1
    <3>2. CASE i # 0
      BY <1>5, <1>6, <1>7, <2>1, <3>2
    <3> QED
      BY <3>1, <3>2
  <2>2. ASSUME NEW e \in 1 .. made' PROVE store'[obj'[e].id] = e
    <3>1. CASE e = o
      BY <1>3, <1>8, <3>1
    <3>2. CASE e # o
      <4>1. e \in 1 .. made
        BY <1>2, <1>5, <3>2
      <4>2. store[obj[e].id] = e /\ obj'[e] = obj[e] /\ e # 0
        BY <1>6, <1>7, <4>1
      <4>3. obj[e].id \in Registry!Id
        BY <1>7, <4>1, Shapes DEF ObjRec
      <4>4. obj[e].id # 0
        BY <1>4, <4>2
      <4> QED
        BY <1>5, <4>2, <4>3, <4>4
    <3> QED
      BY <3>1, <3>2
  <2> QED
    BY <2>1, <2>2 DEF StoreFits
<1>10. ASSUME NEW i \in Registry!Id, NEW n \in Registry!Proc,
              store'[i] # 0, i = n \/ obj'[store'[i]].native = n
       PROVE  Uses(i, n)
  <2>1. n # 0
    BY Shapes
  <2>2. i # 0
    BY <1>3, <1>8, <1>10, <2>1
  <2>3. store'[i] = store[i] /\ store[i] \in 1 .. made
    BY <1>5, <1>6, <1>10, <2>2
  <2> QED
    BY <1>7, <1>10, <2>3 DEF Uses
<1>11. \A i \in Registry!Id : store'[i] = 0 => store[i] = 0
  BY <1>4, <1>5
<1>12. NativesKnown /\ EntriesFit /\ ThreadsApart /\ dropped = {}
  BY DEF Single
<1>13. store'[obj'[o].id] = o /\ obj'[o].id \in Registry!Id
  BY <1>3, <1>5, <1>8
<1> QED
  BY <1>1, <1>2, <1>8, <1>9, <1>10, <1>11, <1>12, <1>13, SingleBegun

\* A process is started: for the native session of its session, or on a new one.
LEMMA SingleStart ==
  ASSUME EntriesInv, Registry!ConstantsAssumption, Single, NEW t \in Registry!Turn, NEW p \in Registry!Proc,
         Registry!Start(t, p)
  PROVE  Single'
<1> USE DEF Registry!sessionVars, Registry!closeVars
<1> DEFINE native == IF turns[t].resume = 0 THEN p ELSE turns[t].resume
           u == [turns[t] EXCEPT !.pc = "register", !.own = p]
           started == [st |-> "running", type |-> Registry!TypeOf(turns[t].sess),
                       conv |-> turns[t].conv, native |-> native]
<1>1. /\ turns[t].pc = "start" /\ Busy(t) /\ UNCHANGED <<obj, store, made, live, dropped>>
      /\ process[p].st = "none" /\ process' = [process EXCEPT ![p] = started]
      /\ turns' = [turns EXCEPT ![t] = u]
  BY Shapes DEF Registry!Start, Busy
<1>2. /\ u.pc = "register" /\ u.own = p /\ u.sess = turns[t].sess /\ u.now = turns[t].now
      /\ u.resume = turns[t].resume
  BY Shapes DEF TurnRec
<1>3. started.st = "running" /\ started.native = native
  OBVIOUS
<1>4. native # 0 /\ p # 0
  BY Shapes
<1> HIDE DEF native, u, started
<1>5. \A q \in Registry!Proc : process'[q] = IF q = p THEN started ELSE process[q]
  BY <1>1, Shapes
<1>6. /\ TurnFits(t) /\ IdNow(t) \in Registry!Id /\ IdNow(t)' = IdNow(t)
  BY <1>1, <1>2, TurnSession, Shapes DEF Single, IdNow
<1>7. /\ AtMostOne' /\ turns'[t] = u /\ ~Rekeying' /\ ~Rekeying
      /\ \A s \in Registry!Turn : s # t => ~Busy(s)'
  BY <1>1, <1>2, OneTurnMoves DEF Busy
<1>8. \A s \in Registry!Turn : Busy(s)' => TurnFits(s)'
  <2>0. /\ turns[t].sess = Registry!Pointer(turns[t].sess.obj) /\ turns[t].sess.obj \in 1 .. made
        /\ turns[t].now = turns[t].sess /\ live[IdNow(t)] = 0
    BY <1>1, <1>6 DEF TurnFits
  <2>a. live'[IdNow(t)'] = 0 /\ process'[p].st # "none"
    BY <1>1, <1>3, <1>5, <1>6, <2>0
  <2>b. u.sess = Registry!Pointer(u.sess.obj) /\ u.sess.obj \in 1 .. made' /\ u.now = u.sess
    BY <1>1, <1>2, <2>0
  <2>1. TurnFits(t)'
    BY <1>2, <1>4, <1>7, <2>a, <2>b
       DEF TurnFits, HasProcess, Registry!Pointer, Registry!NoRef, Registry!AnyType
  <2> QED
    BY <1>7, <2>1
<1>9. StoreFits' /\ dropped' = {}
  BY <1>1 DEF Single, StoreFits
<1>10. NativesKnown'
  BY <1>3, <1>4, <1>5 DEF Single, NativesKnown
<1>11. ASSUME NEW i \in Registry!Id, live[i] # 0
       PROVE  live[i] \in Registry!Proc /\ live[i] # p
  BY <1>1, <1>11, Shapes DEF Single, EntriesFit
<1>12. EntriesFit'
  BY <1>1, <1>5, <1>7, <1>11 DEF Single, EntriesFit
<1>13. ASSUME NEW i \in Registry!Id, NEW n \in Registry!Proc, Uses(i, n)'
       PROVE  Uses(i, n) \/ (i = IdNow(t) /\ n = native /\ (n = p \/ Uses(i, n)))
  <2>1. CASE store'[i] # 0 /\ (i = n \/ obj'[store'[i]].native = n)
    BY <1>1, <2>1 DEF Uses
  <2>2. CASE live'[i] # 0 /\ process'[live'[i]].native = n
    BY <1>1, <1>5, <1>7, <1>11, <2>2 DEF Uses
  <2>3. ASSUME NEW s \in Registry!Turn, TurnUses(s, n)', IdNow(s)' = i
        PROVE  Uses(i, n) \/ (i = IdNow(t) /\ n = native /\ (n = p \/ Uses(i, n)))
    <3>1. s = t /\ i = IdNow(t)
      BY <1>6, <1>7, <2>3 DEF TurnUses
    <3>2. u.resume = n \/ native = n
      BY <1>2, <1>3, <1>5, <1>7, <2>3, <3>1 DEF TurnUses
    <3>3. turns[t].resume = n => Uses(i, n)
      BY <1>1, <3>1, TurnNatives
    <3> QED
      BY <1>2, <3>1, <3>2, <3>3 DEF native
  <2> QED
    BY <1>13, <2>1, <2>2, <2>3 DEF Uses
<1>14. \A i \in Registry!Id : ~Uses(i, p)
  BY <1>1 DEF Single, ThreadsApart
<1>15. ThreadsApart'
  <2>1. ASSUME NEW n \in Registry!Proc, NEW i \in Registry!Id, NEW j \in Registry!Id,
               Uses(i, n)', Uses(j, n)'
        PROVE  i = j
    <3>1. CASE n = p
      BY <1>13, <1>14, <2>1, <3>1
    <3>2. CASE n # p
      BY <1>13, <2>1, <3>2 DEF Single, ThreadsApart
    <3> QED
      BY <3>1, <3>2
  <2>2. ASSUME NEW n \in Registry!Proc, NEW i \in Registry!Id, Uses(i, n)'
        PROVE  process'[n].st # "none"
    BY <1>3, <1>5, <1>13, <2>2 DEF Single, ThreadsApart
  <2> QED
    BY <2>1, <2>2 DEF ThreadsApart
<1> QED
  BY <1>7, <1>8, <1>9, <1>10, <1>12, <1>15 DEF Single

\* The session takes the native id of its process for its own: nobody has that id.
LEMMA SingleAdopt ==
  ASSUME EntriesInv, Registry!ConstantsAssumption, Single, NEW t \in Registry!Turn, Registry!Adopt(t)
  PROVE  Single'
<1> USE DEF Registry!closeVars
<1> DEFINE o == turns[t].sess.obj
           n == process[turns[t].own].native
           u == [turns[t] EXCEPT !.pc = "rekey"]
<1>1. turns[t].pc = "adopt" /\ Busy(t) /\ UNCHANGED <<made, live, process, dropped>>
  BY DEF Registry!Adopt, Busy
<1>2. /\ TurnFits(t) /\ StoreFits /\ EntriesFit /\ ThreadsApart /\ NativesKnown /\ dropped = {}
  BY <1>1 DEF Single
<1>3. /\ IdNow(t) = 0 /\ turns[t].own \in Registry!Proc /\ process[turns[t].own].st # "none"
      /\ turns[t].own # 0 /\ live[0] \in {0, turns[t].own}
  <2>1. IdNow(t) = 0 /\ turns[t].own # 0 /\ process[turns[t].own].st # "none"
    BY <1>1, <1>2 DEF TurnFits, HasProcess
  <2>2. live[IdNow(t)] \in {0, turns[t].own}
    BY <1>1, <1>2 DEF TurnFits
  <2> QED
    BY <1>1, <2>1, <2>2, TurnSession, Shapes
<1>4. /\ o \in 1 .. made /\ o \in 1 .. Objs /\ o # 0 /\ store[0] = o /\ obj[o].id = 0
      /\ turns[t].now = turns[t].sess /\ turns[t].sess = Registry!Pointer(o)
  BY <1>1, <1>3, TurnSession
<1>5. n \in Registry!Proc /\ n \in Registry!Id /\ n # 0 /\ 0 \in Registry!Id
  BY <1>2, <1>3, Shapes DEF NativesKnown, ProcRec
<1>6. Uses(0, n)
  BY <1>1, <1>3, TurnNatives DEF HasProcess
<1>7. store[n] = 0
  <2>1. store[n] # 0 => Uses(n, n)
    BY DEF Uses
  <2> QED
    BY <1>2, <1>5, <1>6, <2>1 DEF ThreadsApart
<1>8. ~Rekeying
  BY <1>1 DEF Single, AtMostOne, Rekeying, Busy
<1>9. live[n] = 0
  BY <1>2, <1>5, <1>7, <1>8 DEF EntriesFit
<1>10. /\ \A i \in Registry!Id : store'[i] = IF i = 0 THEN 0 ELSE IF i = n THEN o ELSE store[i]
       /\ \A e \in 1 .. Objs : obj'[e] = IF e = o THEN [obj[e] EXCEPT !.id = n] ELSE obj[e]
  <2>1. store' = [store EXCEPT ![0] = 0, ![n] = IF @ = 0 THEN store[0] ELSE @]
    BY <1>4 DEF Registry!Adopt, Registry!Pending
  <2>2. obj' = [obj EXCEPT ![store[0]].id = n]
    BY <1>4, <1>7 DEF Registry!Adopt, Registry!Pending
  <2> HIDE DEF o, n
  <2>3. \A i \in Registry!Id : store'[i] = IF i = 0 THEN 0 ELSE IF i = n THEN o ELSE store[i]
    BY <1>4, <1>5, <1>7, <2>1, Shapes
  <2>4. \A e \in 1 .. Objs : obj'[e] = IF e = o THEN [obj[e] EXCEPT !.id = n] ELSE obj[e]
    BY <1>4, <2>2, Shapes
  <2> QED
    BY <2>3, <2>4
<1>11. turns' = [turns EXCEPT ![t] = u]
  <2>1. turns[t] \in TurnRec /\ turns \in [Registry!Turn -> TurnRec]
    BY Shapes
  <2>2. turns' = [turns EXCEPT ![t].pc = "rekey",
                    ![t].now = IF turns[t].keep THEN Registry!Pointer(store'[n]) ELSE turns[t].now]
    BY <1>4, <2>1 DEF Registry!Adopt, Registry!Pending
  <2>3. turns' = [turns EXCEPT ![t].pc = "rekey", ![t].now = turns[t].now]
    BY <1>4, <1>5, <1>10, <2>2
  <2> QED
    BY <2>1, <2>3 DEF TurnRec
<1>12. /\ u.pc = "rekey" /\ u.own = turns[t].own /\ u.sess = turns[t].sess /\ u.now = turns[t].sess
       /\ u.resume = turns[t].resume
  BY <1>4, Shapes DEF TurnRec
<1>13. /\ \A e \in 1 .. Objs : /\ obj'[e].native = obj[e].native
                               /\ obj'[e].id = IF e = o THEN n ELSE obj[e].id
  BY <1>10, Shapes, ZenonT(60) DEF ObjRec
<1>14. process[turns[t].own].native = n
  OBVIOUS
<1> HIDE DEF u, o, n
<1>15. /\ AtMostOne' /\ turns'[t] = u /\ Rekeying'
       /\ \A s \in Registry!Turn : s # t => ~Busy(s)'
  BY <1>1, <1>11, <1>12, OneTurnMoves DEF Busy
<1>16. IdNow(t)' = n
  BY <1>4, <1>12, <1>13, <1>15 DEF IdNow, o
<1>17. \A s \in Registry!Turn : Busy(s)' => TurnFits(s)'
  <2>1. u.sess = Registry!Pointer(u.sess.obj) /\ u.sess.obj \in 1 .. made /\ u.now = u.sess
    BY <1>4, <1>12 DEF o
  <2>2. live'[IdNow(t)'] = 0 /\ live'[0] \in {0, u.own} /\ process'[u.own].native = n
    BY <1>1, <1>3, <1>9, <1>12, <1>14, <1>16
  <2>3. TurnFits(t)'
    BY <1>1, <1>3, <1>12, <1>15, <1>16, <2>1, <2>2
       DEF TurnFits, HasProcess, Registry!Pointer, Registry!NoRef, Registry!AnyType
  <2> QED
    BY <1>15, <2>3
<1>18. StoreFits'
  <2>1. ASSUME NEW i \in Registry!Id, store'[i] # 0 PROVE store'[i] \in 1 .. made' /\ obj'[store'[i]].id = i
    <3>1. i # 0
      BY <1>10, <2>1
    <3>2. CASE i = n
      BY <1>1, <1>4, <1>5, <1>10, <1>13, <3>2
    <3>3. CASE i # n
      <4>1. store'[i] = store[i] /\ store[i] \in 1 .. made /\ obj[store[i]].id = i
        BY <1>2, <1>10, <2>1, <3>1, <3>3 DEF StoreFits
      <4>2. store[i] # o /\ store[i] \in 1 .. Objs
        BY <1>4, <2>1, <3>1, <4>1, Shapes
      <4> QED
        BY <1>1, <1>13, <4>1, <4>2
    <3> QED
      BY <3>2, <3>3
  <2>2. ASSUME NEW e \in 1 .. made' PROVE store'[obj'[e].id] = e
    <3>0. e \in 1 .. Objs /\ e \in 1 .. made
      BY <1>1, Shapes
    <3>1. CASE e = o
      BY <1>5, <1>10, <1>13, <3>0, <3>1
    <3>2. CASE e # o
      <4>a. obj[e].id \in Registry!Id /\ e # 0
        BY <3>0, Shapes DEF ObjRec
      <4>1. store[obj[e].id] = e /\ obj[e].id \in Registry!Id /\ e # 0
        BY <1>2, <3>0, <4>a DEF StoreFits
      <4>2. obj[e].id # 0 /\ obj[e].id # n
        BY <1>4, <1>7, <3>2, <4>1
      <4> QED
        BY <1>10, <1>13, <3>0, <3>2, <4>1, <4>2
    <3> QED
      BY <3>1, <3>2
  <2> QED
    BY <2>1, <2>2 DEF StoreFits
<1>19. EntriesFit'
  <2> SUFFICES ASSUME NEW i \in Registry!Id, live[i] # 0
               PROVE  process[live[i]].st # "none" /\ (store'[i] = 0 => i = 0)
    BY <1>1, <1>15 DEF EntriesFit
  <2>1. process[live[i]].st # "none" /\ (store[i] = 0 => i = 0)
    BY <1>2, <1>8 DEF EntriesFit
  <2> QED
    BY <1>4, <1>10, <2>1
<1>20. ASSUME NEW i \in Registry!Id, NEW m \in Registry!Proc, Uses(i, m)'
       PROVE  (i # 0 /\ i # n /\ Uses(i, m)) \/ (i = n /\ Uses(0, m))
  <2>0. m # 0
    BY Shapes
  <2>1. CASE i = m /\ store'[i] # 0
    BY <1>6, <1>10, <2>0, <2>1 DEF Uses
  <2>2. CASE store'[i] # 0 /\ obj'[store'[i]].native = m
    <3>1. i # 0
      BY <1>10, <2>2
    <3>2. CASE i = n
      BY <1>4, <1>5, <1>10, <1>13, <2>2, <3>2 DEF Uses
    <3>3. CASE i # n
      <4>1. store'[i] = store[i] /\ store[i] \in 1 .. Objs
        BY <1>10, <2>2, <3>1, <3>3, Shapes
      <4> QED
        BY <1>13, <2>2, <3>1, <3>3, <4>1, UsesSame
    <3> QED
      BY <3>2, <3>3
  <2>3. CASE live'[i] # 0 /\ process'[live'[i]].native = m /\ ~(i = 0 /\ Rekeying')
    BY <1>1, <1>9, <1>15, <2>3 DEF Uses
  <2>4. ASSUME NEW s \in Registry!Turn, TurnUses(s, m)', IdNow(s)' = i
        PROVE  i = n /\ Uses(0, m)
    <3>1. s = t /\ i = n
      BY <1>15, <1>16, <2>4 DEF TurnUses
    <3>2. u.resume = m \/ process[u.own].native = m
      BY <1>1, <1>15, <2>4, <3>1 DEF TurnUses
    <3>3. Uses(IdNow(t), m)
      BY <1>1, <1>12, <3>2, TurnNatives DEF HasProcess
    <3> QED
      BY <1>3, <3>1, <3>3
  <2> QED
    BY <1>20, <2>1, <2>2, <2>3, <2>4 DEF Uses
<1>21. ThreadsApart'
  <2>1. ASSUME NEW m \in Registry!Proc, NEW i \in Registry!Id, NEW j \in Registry!Id,
               Uses(i, m)', Uses(j, m)'
        PROVE  i = j
    BY <1>2, <1>5, <1>20, <2>1 DEF ThreadsApart
  <2>2. ASSUME NEW m \in Registry!Proc, NEW i \in Registry!Id, Uses(i, m)'
        PROVE  process'[m].st # "none"
    BY <1>1, <1>2, <1>5, <1>20, <2>2 DEF ThreadsApart
  <2> QED
    BY <2>1, <2>2 DEF ThreadsApart
<1>22. NativesKnown' /\ dropped' = {}
  BY <1>1, <1>2 DEF NativesKnown
<1> QED
  BY <1>15, <1>17, <1>18, <1>19, <1>21, <1>22 DEF Single

\* The entry follows the session to its id, where there is none.
LEMMA SingleRekey ==
  ASSUME EntriesInv, Registry!ConstantsAssumption, Single, NEW t \in Registry!Turn, Registry!Rekey(t)
  PROVE  Single'
<1> USE DEF Registry!closeVars, Registry!sessionVars
<1> DEFINE p == live[0]
           n == process[turns[t].own].native
           u == [turns[t] EXCEPT !.pc = "running", !.keep = FALSE]
<1>1. turns[t].pc = "rekey" /\ Busy(t) /\ UNCHANGED <<obj, store, made, process>>
  BY DEF Registry!Rekey, Busy
<1>2. TurnFits(t) /\ EntriesFit /\ StoreFits /\ dropped = {} /\ NativesKnown
  BY <1>1 DEF Single
<1>3. /\ IdNow(t) = n /\ live[n] = 0 /\ p \in {0, turns[t].own} /\ turns[t].own # 0
      /\ process[turns[t].own].st # "none" /\ turns[t].own \in Registry!Proc
  <2>1. IdNow(t) = n /\ live[IdNow(t)] = 0 /\ p \in {0, turns[t].own} /\ turns[t].own # 0
        /\ process[turns[t].own].st # "none"
    BY <1>1, <1>2 DEF TurnFits, HasProcess
  <2> QED
    BY <1>1, <2>1, TurnSession, Shapes
<1>4. n \in Registry!Id /\ n # 0 /\ 0 \in Registry!Id /\ n \in Registry!Proc
  BY <1>2, <1>3, Shapes DEF NativesKnown, ProcRec
<1>5. dropped' = {} /\ turns' = [turns EXCEPT ![t] = u]
  BY <1>2, <1>3, Shapes DEF Registry!Rekey, Registry!GoOn, Registry!Pending
<1>6. \A i \in Registry!Id : live'[i] = IF i = 0 THEN 0 ELSE IF i = n THEN p ELSE live[i]
  <2>1. CASE p = 0
    <3>1. live' = live
      BY <2>1 DEF Registry!Rekey, Registry!Pending
    <3> QED
      BY <1>3, <2>1, <3>1
  <2>2. CASE p # 0
    <3>1. live' = [live EXCEPT ![0] = 0, ![n] = IF @ = 0 THEN p ELSE @]
      BY <2>2 DEF Registry!Rekey, Registry!Pending
    <3> QED
      BY <1>3, <1>4, <3>1, Shapes
  <2> QED
    BY <2>1, <2>2
<1>7. /\ u.pc = "running" /\ u.own = turns[t].own /\ u.sess = turns[t].sess /\ u.now = turns[t].now
      /\ u.resume = turns[t].resume
  BY Shapes DEF TurnRec
<1>8. process[turns[t].own].native = n
  OBVIOUS
<1> HIDE DEF u, n, p
<1>9. /\ AtMostOne' /\ turns'[t] = u /\ ~Rekeying' /\ IdNow(t)' = n
      /\ \A s \in Registry!Turn : s # t => ~Busy(s)'
  BY <1>1, <1>3, <1>5, <1>7, OneTurnMoves, ZenonT(60) DEF Busy, IdNow
<1>10. \A s \in Registry!Turn : Busy(s)' => TurnFits(s)'
  <2>0. turns[t].sess = Registry!Pointer(turns[t].sess.obj) /\ turns[t].sess.obj \in 1 .. made
        /\ turns[t].now = turns[t].sess
    BY <1>2 DEF TurnFits
  <2>1. u.sess = Registry!Pointer(u.sess.obj) /\ u.sess.obj \in 1 .. made' /\ u.now = u.sess
    BY <1>1, <1>7, <2>0
  <2>2. live'[n] \in {0, u.own} /\ process'[u.own].st # "none" /\ u.own # 0
    BY <1>1, <1>3, <1>4, <1>6, <1>7
  <2>3. TurnFits(t)'
    BY <1>7, <1>9, <2>1, <2>2
       DEF TurnFits, HasProcess, Registry!Pointer, Registry!NoRef, Registry!AnyType
  <2> QED
    BY <1>9, <2>3
<1>11. StoreFits' /\ SameProcesses
  BY <1>1, <1>2 DEF StoreFits, SameProcesses
<1>12. EntriesFit'
  <2> SUFFICES ASSUME NEW i \in Registry!Id, live'[i] # 0
               PROVE  process[live'[i]].st # "none" /\ store[i] # 0
    BY <1>1 DEF EntriesFit
  <2>1. i # 0
    BY <1>6
  <2>2. CASE i = n
    BY <1>1, <1>3, <1>6, <2>1, <2>2, TurnSession
  <2>3. CASE i # n
    BY <1>2, <1>6, <2>1, <2>3 DEF EntriesFit
  <2> QED
    BY <2>2, <2>3
<1>13. ASSUME NEW i \in Registry!Id, NEW m \in Registry!Proc, Uses(i, m)' PROVE Uses(i, m)
  <2>1. CASE store'[i] # 0 /\ (i = m \/ obj'[store'[i]].native = m)
    BY <1>1, <2>1 DEF Uses
  <2>2. CASE live'[i] # 0 /\ process'[live'[i]].native = m
    <3>1. i # 0
      BY <1>6, <2>2
    <3>2. CASE i = n
      BY <1>1, <1>3, <1>6, <1>8, <2>2, <3>1, <3>2, TurnNatives DEF HasProcess
    <3>3. CASE i # n
      BY <1>1, <1>6, <2>2, <3>1, <3>3 DEF Uses
    <3> QED
      BY <3>2, <3>3
  <2>3. ASSUME NEW s \in Registry!Turn, TurnUses(s, m)', IdNow(s)' = i
        PROVE  Uses(i, m)
    <3>1. s = t /\ i = n
      BY <1>9, <2>3 DEF TurnUses
    <3>2. u.resume = m \/ process[u.own].native = m
      BY <1>1, <1>9, <2>3, <3>1 DEF TurnUses
    <3> QED
      BY <1>1, <1>3, <1>7, <3>1, <3>2, TurnNatives DEF HasProcess
  <2> QED
    BY <1>13, <2>1, <2>2, <2>3 DEF Uses
<1> QED
  BY <1>2, <1>5, <1>9, <1>10, <1>11, <1>12, <1>13, SingleKeeps

\* The active session stays one of the store.
LEMMA ActiveStays ==
  ASSUME ActiveFits, UNCHANGED <<store, active>>
  PROVE  ActiveFits'
BY DEF ActiveFits

LEMMA ActiveKept ==
  ASSUME EntriesInv, Registry!ConstantsAssumption, ActiveFits, Registry!Next
  PROVE  ActiveFits'
<1> USE DEF Registry!sessionVars, Registry!closeVars
<1>0. /\ store \in [Registry!Id -> 0 .. Objs] /\ active \in Registry!Id /\ Registry!Id = 0 .. Procs
      /\ Procs \in Nat
  BY Shapes
<1>1. ASSUME NEW y, Registry!New(y) PROVE ActiveFits'
  BY <1>1 DEF Registry!New, ActiveFits, Registry!Pending
<1>2. ASSUME NEW i, Registry!Switch(i) PROVE ActiveFits'
  BY <1>2 DEF Registry!Switch, ActiveFits
<1>3. ASSUME NEW t, NEW y, Registry!BeginFirst(t, y) PROVE ActiveFits'
  BY <1>3 DEF Registry!BeginFirst, ActiveFits, Registry!Pending
<1>4. ASSUME NEW t \in Registry!Turn, Registry!Adopt(t) PROVE ActiveFits'
  <2> DEFINE n == process[turns[t].own].native
  <2>0. n \in Registry!Id
    <3>1. Well(turns[t]) /\ turns[t].pc = "adopt"
      BY <1>4, TurnsWell DEF EntriesInv, Registry!Adopt
    <3>2. turns[t].own \in 1 .. Procs
      BY <3>1, Shapes DEF Well, TurnRec
    <3> QED
      BY <3>2, Shapes DEF ProcRec
  <2>1. CASE store[0] = 0
    BY <1>4, <2>1, ActiveStays DEF Registry!Adopt, Registry!Pending
  <2>2. CASE store[0] # 0
    <3>1. /\ store' = [store EXCEPT ![0] = 0, ![n] = IF @ = 0 THEN store[0] ELSE @]
          /\ active' = IF active = 0 THEN n ELSE active
      BY <1>4, <2>2 DEF Registry!Adopt, Registry!Pending
    <3> HIDE DEF n
    <3>2. n # 0 => store'[n] # 0
      BY <1>0, <2>0, <2>2, <3>1
    <3>3. \A i \in Registry!Id : i # 0 /\ i # n => store'[i] = store[i]
      BY <1>0, <2>0, <3>1
    <3> QED
      BY <1>0, <2>0, <3>1, <3>2, <3>3 DEF ActiveFits
  <2> QED
    BY <2>1, <2>2
<1>5. ASSUME Registry!DirSet \/ Registry!Close \/ Registry!CloseTaken PROVE ActiveFits'
  BY <1>5, ActiveStays DEF Registry!DirSet, Registry!Close, Registry!CloseTaken
<1>6. ASSUME NEW p, Registry!Exit(p) PROVE ActiveFits'
  BY <1>6, ActiveStays DEF Registry!Exit
<1>7. ASSUME NEW t \in Registry!Turn, Registry!TurnStep(t) PROVE ActiveFits'
  <2>1. CASE \E c \in registryLoad.copies : Registry!Begin(t, c)
    BY <2>1, ActiveStays DEF Registry!Begin
  <2>2. CASE Registry!Lookup(t) \/ Registry!StartFails(t) \/ Registry!Register(t) \/ Registry!Update(t)
               \/ Registry!Rekey(t)
    BY <2>2, ActiveStays DEF Registry!Lookup, Registry!StartFails, Registry!Register, Registry!Update,
                             Registry!Rekey
  <2>3. CASE Registry!TurnEnds(t) \/ Registry!TurnFails(t) \/ Registry!Restart(t) \/ Registry!RetryFresh(t)
    BY <2>3, ActiveStays DEF Registry!TurnEnds, Registry!TurnFails, Registry!Restart, Registry!RetryFresh
  <2>4. CASE \E p \in Registry!Proc : Registry!Start(t, p)
    BY <2>4, ActiveStays DEF Registry!Start
  <2>5. CASE \E keep \in BOOLEAN : Registry!SessionEvent(t, keep)
    BY <2>5, ActiveStays DEF Registry!SessionEvent
  <2> QED
    BY <1>3, <1>4, <1>7, <2>1, <2>2, <2>3, <2>4, <2>5 DEF Registry!TurnStep
<1> QED
  BY <1>1, <1>2, <1>5, <1>6, <1>7 DEF Registry!Next

\* Turns one after the other, on the sessions themselves.
LEMMA SingleKept ==
  ASSUME EntriesInv, Registry!ConstantsAssumption, OneByOne, ActiveFits, Single, Registry!Next
  PROVE  Single'
<1>1. ASSUME NEW t \in Registry!Turn, Registry!TurnStep(t) PROVE Single'
  <2>1. ASSUME NEW c \in registryLoad.copies, Registry!Begin(t, c) PROVE Single'
    BY <2>1, SingleBegin
  <2>2. ASSUME NEW y \in registryLoad.types, Registry!BeginFirst(t, y) PROVE Single'
    BY <2>2, SingleBeginFirst
  <2>3. ASSUME NEW p \in Registry!Proc, Registry!Start(t, p) PROVE Single'
    BY <2>3, SingleStart
  <2>4. ASSUME NEW keep \in BOOLEAN, Registry!SessionEvent(t, keep) PROVE Single'
    BY <2>4, SingleSessionEvent
  <2> QED
    BY <1>1, <2>1, <2>2, <2>3, <2>4, SingleLookup, SingleRegister, SingleUpdate, SingleAdopt, SingleRekey,
       SingleRestart, SingleEnds DEF Registry!TurnStep
<1> QED
  BY <1>1, SingleByOthers DEF Registry!Next

\* In the beginning there is nothing.
LEMMA SingleStarts ==
  ASSUME Registry!ConstantsAssumption, Registry!Init
  PROVE  ActiveFits /\ Single
<1>0. /\ made = 0 /\ store = [i \in Registry!Id |-> 0] /\ live = [i \in Registry!Id |-> 0]
      /\ active = 0 /\ dropped = {} /\ 1 .. made = {}
      /\ \A t \in Registry!Turn : ~Busy(t)
      /\ \A p \in Registry!Proc : process[p].st = "none"
  BY DEF Registry!Init, Registry!Pending, Registry!NoTurn, Registry!NoProc, Busy
<1>1. \A i \in Registry!Id : store[i] = 0 /\ live[i] = 0
  BY <1>0
<1>2. AtMostOne /\ StoreFits /\ NativesKnown /\ EntriesFit /\ ActiveFits
  BY <1>0, <1>1 DEF AtMostOne, StoreFits, NativesKnown, EntriesFit, ActiveFits
<1>3. \A i \in Registry!Id, n \in Registry!Proc : ~Uses(i, n)
  BY <1>0, <1>1 DEF Uses, TurnUses
<1>4. ThreadsApart
  BY <1>3 DEF ThreadsApart
<1> QED
  BY <1>0, <1>2, <1>4 DEF Single

\* The inductive invariant of the registry.
RegistryInv == EntriesInv /\ ActiveFits /\ (OneByOne => Single)

LEMMA RegistryStarts ==
  ASSUME Registry!ConstantsAssumption, Registry!Init
  PROVE  RegistryInv
BY InvStarts, SingleStarts DEF RegistryInv

LEMMA RegistryStep ==
  ASSUME RegistryInv, Registry!ConstantsAssumption, Registry!Next
  PROVE  RegistryInv'
<1>1. OneByOne' <=> OneByOne
  BY DEF Registry!Next, OneByOne
<1> QED
  BY <1>1, InvKept, ActiveKept, SingleKept DEF RegistryInv

\* With turns one after the other, a session has one process, and it is one's own.
LEMMA SingleKeepsProcesses ==
  ASSUME EntriesInv, Registry!ConstantsAssumption, Single
  PROVE  Registry!OneProcessPerThread /\ Registry!EntryHasSession /\ Registry!NothingDropped
<1>1. Registry!NothingDropped
  BY DEF Single, Registry!NothingDropped
<1>2. Registry!EntryHasSession
  BY DEF Single, EntriesFit, Rekeying, Registry!EntryHasSession
<1>3. Registry!OneProcessPerThread
  <2> SUFFICES ASSUME NEW i \in Registry!Id, NEW j \in Registry!Id, live[i] # 0, live[j] # 0,
                      live[i] # live[j], process[live[i]].native = process[live[j]].native
               PROVE  FALSE
    BY DEF Registry!OneProcessPerThread, Registry!Registered
  <2> DEFINE n == process[live[i]].native
  <2>1. n \in Registry!Proc
    BY Shapes, SMTT(60) DEF Single, EntriesFit, NativesKnown, ProcRec
  <2>2. \A a, b \in Registry!Id : Uses(a, n) /\ Uses(b, n) => a = b
    BY <2>1 DEF Single, ThreadsApart
  <2>3. CASE ~Rekeying
    <3>1. Uses(i, n) /\ Uses(j, n)
      BY <2>3 DEF Uses
    <3> QED
      BY <2>2, <3>1
  <2>4. CASE Rekeying
    <3>1. PICK t \in Registry!Turn : turns[t].pc = "rekey"
      BY <2>4 DEF Rekeying
    <3>2. /\ Busy(t) /\ live[IdNow(t)] = 0 /\ live[0] \in {0, turns[t].own}
          /\ IdNow(t) = process[turns[t].own].native
      BY <3>1 DEF Single, TurnFits, Busy
    <3>3. Uses(IdNow(t), process[turns[t].own].native) /\ IdNow(t) \in Registry!Id
      BY <3>1, <3>2, TurnNatives, TurnSession, Shapes DEF HasProcess
    <3>4. ASSUME NEW a \in Registry!Id, live[a] # 0, process[live[a]].native = n, a = 0 PROVE FALSE
      <4>1. live[0] = turns[t].own /\ Uses(IdNow(t), n)
        BY <3>2, <3>3, <3>4
      <4>2. i # IdNow(t) /\ j # IdNow(t)
        BY <3>2
      <4>3. ASSUME i # 0 PROVE Uses(i, n)
        BY <4>3 DEF Uses
      <4>4. ASSUME j # 0 PROVE Uses(j, n)
        BY <4>4 DEF Uses
      <4> QED
        BY <2>2, <3>3, <4>1, <4>2, <4>3, <4>4
    <3>5. i # 0 /\ j # 0
      BY <3>4
    <3>6. Uses(i, n) /\ Uses(j, n)
      BY <3>5 DEF Uses
    <3> QED
      BY <2>2, <3>6
  <2> QED
    BY <2>3, <2>4
<1> QED
  BY <1>1, <1>2, <1>3

LEMMA RegistryShows ==
  ASSUME RegistryInv, Registry!ConstantsAssumption
  PROVE  Registry!TypeOK /\ ProcessesKept
BY SingleKeepsProcesses DEF RegistryInv, EntriesInv, Typed, Kept, ProcessesKept

-----------------------------------------------------------------------------
(* The session *)

Request == {"approval", "question"}

\* A process of a session that asks at most n questions at once.
Record(n) ==
  [st : {"none", "running", "exited", "closed"}, chan : Seq(Session!Event), todo : Seq(Session!Msg),
   cur : 0 .. Msgs, req : 0 .. Msgs, tail : 0 .. Msgs, prompted : 0 .. Msgs,
   said : BOOLEAN, asked : BOOLEAN, awaiting : BOOLEAN, allowAll : BOOLEAN, questions : 0 .. n]

\* A process that does not run does nothing.
Stopped(r) == r.cur = 0 /\ r.req = 0 /\ r.tail = 0 /\ r.todo = <<>>

\* A running process waits for an answer to what it works on.  Its request is either the last
\* event in its channel, or has been taken from it; then the router knows of it.
Asking(n, r) ==
  /\ r.req # 0 => r.cur = r.req
  /\ r.cur # 0 => r.tail = 0
  /\ r.awaiting => r.req # 0 /\ r.chan = <<>> /\ (r.questions = 0 => r.prompted = r.req)
  /\ ~r.awaiting => r.questions = 0
  /\ \A i \in 1 .. Len(r.chan) : r.chan[i].t \in Request =>
       /\ i = Len(r.chan) /\ r.req = r.chan[i].k /\ ~r.awaiting
       /\ r.chan[i].t = "question" => n > 0

Sound(n, r) == IF r.st = "running" THEN Asking(n, r) ELSE Stopped(r)

\* The processes of a session, of which g is registered.
ProcsSound(n, g, f) ==
  /\ f \in [Session!Proc -> Record(n)]
  /\ \A p \in Session!Proc : Sound(n, f[p]) /\ (f[p].st = "running" => g = p)

\* The turn, and what it has found out about its process.
InTurn == turn.pc \notin {"idle", "lookup"}
InAnswer == turn.pc \in {"question", "approval"}

\* A turn has a message, and a process once it has looked it up.
Placed(u) ==
  (u.pc # "idle" => u.k # 0) /\ (u.pc \notin {"idle", "lookup"} => u.p # 0)

TurnSound ==
  /\ turn.pc = "restart" => reg = 0
  /\ Placed(turn)
  /\ turn.pc = "question" => proc[turn.p].questions > 0
  /\ InAnswer /\ Session!Running(turn.p) =>
       proc[turn.p].awaiting /\ (turn.pc = "approval" <=> proc[turn.p].questions = 0)

SessionInv ==
  Session!TypeOK /\ ProcsSound(sessionLoad.questions, reg, proc) /\ TurnSound
-----------------------------------------------------------------------------
\* For a session that is left alone.

\* Has nothing to do, and may only send a second done; or waits for the user.
Calm(r) == r.cur = 0 /\ r.todo = <<>> /\ \A i \in 1 .. Len(r.chan) : r.chan[i].t = "done"
Waits(r) == r.awaiting /\ r.todo = <<>>

Draining == {"drain", "leading"}
Beginning == {"lookup", "question", "approval", "quiesce", "discard", "send", "restart"}

\* The inputs given so far, n messages taken; and what a process says is about one of them.
UpTo(u, n) == IF u.pc = "idle" THEN n ELSE IF u.pc \in Beginning THEN u.k - 1 ELSE u.for
Numbers(m, r) ==
  r.cur <= m /\ r.tail <= m /\ \A i \in 1 .. Len(r.chan) : r.chan[i].k <= m

\* The channel while the turn u drains it: dones of inputs before, then what is about its
\* own, which ends with dones.
Aimed(u, c) ==
  \A i \in 1 .. Len(c) :
    /\ c[i].t # "done" \/ u.saw \/ ~u.retry => c[i].k = u.for
    /\ c[i].k = u.for => \A j \in i .. Len(c) : c[j].k = u.for
    /\ c[i].k = u.for /\ c[i].t = "done" => \A j \in i .. Len(c) : c[j].t = "done"

\* The process has the input to do, works on it, or has done it; or it waits for the user.
Works(u, r) ==
  /\ \A i \in 1 .. Len(r.chan) : r.chan[i].k = u.for =>
       r.todo = <<>> /\ (r.chan[i].t = "done" => r.cur = 0)
  /\ r.st = "running" =>
       \/ r.cur = 0 /\ r.todo = <<u.for>> /\ ~u.saw /\ r.tail # u.for /\ (~u.retry => r.tail = 0)
       \/ r.cur = u.for /\ r.todo = <<>> /\ ~r.awaiting
       \/ r.cur = 0 /\ r.todo = <<>> /\ r.tail \in {0, u.for}
       \/ r.awaiting /\ u.retry
  /\ r.st = "running" /\ u.pc = "leading" /\ ~u.retry => r.cur = 0 /\ r.todo = <<>>

\* A running process, n messages taken.
Held(u, n, r) ==
  /\ Numbers(UpTo(u, n), r)
  /\ u.pc \in {"question", "approval"} => Waits(r)
  /\ u.pc \in {"idle", "lookup", "quiesce", "discard", "send"} => Calm(r) \/ Waits(r)

\* The process of the turn u.
Drained(u, r) ==
  /\ u.pc \in Draining => Aimed(u, r.chan) /\ Works(u, r)
  /\ u.pc = "tail" => Calm(r)

AloneTurn(u, n) ==
  /\ ~u.off /\ u.kind # "btw"
  /\ u.pc # "idle" => u.k = n /\ u.k # 0 /\ u.for \in 1 .. u.k
  /\ u.pc \in {"question", "approval", "lookup"} => ~u.retry /\ ~u.saw /\ ~u.then
  /\ u.pc # "idle" /\ u.then => u.for < u.k

AloneInv == LeftAlone =>
  /\ btw = 0 /\ AloneTurn(turn, next)
  /\ \A p \in Session!Proc : proc[p].st = "running" =>
       Held(turn, next, proc[p]) /\ (InTurn => p = turn.p)
  /\ InTurn => Drained(turn, proc[turn.p])

EventIn == Session!Event

\* The first event taken from a channel.
LEMMA TailOf ==
  ASSUME NEW S, NEW s \in Seq(S), s # <<>>
  PROVE  /\ Tail(s) \in Seq(S) /\ Head(s) = s[1] /\ s[1] \in S /\ Len(s) \in Nat \ {0}
         /\ Len(Tail(s)) = Len(s) - 1
         /\ \A i \in 1 .. Len(Tail(s)) : Tail(s)[i] = s[i + 1] /\ i + 1 \in 1 .. Len(s)
OBVIOUS

LEMMA AppendOf ==
  ASSUME NEW S, NEW s \in Seq(S), NEW e \in S
  PROVE  /\ Append(s, e) \in Seq(S) /\ Len(s) \in Nat /\ Len(Append(s, e)) = Len(s) + 1
         /\ \A i \in 1 .. Len(s) : Append(s, e)[i] = s[i] /\ i \in 1 .. Len(s) + 1
         /\ Append(s, e)[Len(s) + 1] = e
OBVIOUS

-----------------------------------------------------------------------------
(* What keeps a process sound *)

LEMMA SoundTail ==
  ASSUME NEW n, NEW r \in Record(n), Sound(n, r), r.chan # <<>>
  PROVE  [r EXCEPT !.chan = Tail(@)] \in Record(n) /\ Sound(n, [r EXCEPT !.chan = Tail(@)])
<1> DEFINE c == Tail(r.chan)
           r2 == [r EXCEPT !.chan = c]
<1>1. r.chan \in Seq(Session!Event)
  BY DEF Record
<1>2. /\ c \in Seq(Session!Event) /\ Len(r.chan) \in Nat \ {0} /\ Len(c) = Len(r.chan) - 1
      /\ \A i \in 1 .. Len(c) : c[i] = r.chan[i + 1] /\ i + 1 \in 1 .. Len(r.chan)
  BY <1>1, TailOf
<1> HIDE DEF c
<1>3. r2 \in Record(n) /\ r2.chan = c
  BY <1>2 DEF Record
<1>4. ASSUME r.st = "running"
      PROVE  Asking(n, r2)
  <2>1. Asking(n, r)
    BY <1>4 DEF Sound
  <2>2. ASSUME NEW i \in 1 .. Len(c), c[i].t \in Request
        PROVE  /\ i = Len(c) /\ r.req = c[i].k /\ ~r.awaiting
               /\ c[i].t = "question" => n > 0
    BY <1>2, <2>1, <2>2 DEF Asking
  <2> QED
    BY <1>3, <2>1, <2>2, <1>2 DEF Asking, Record
<1>5. ASSUME r.st # "running"
      PROVE  Stopped(r2)
  BY <1>5 DEF Sound, Stopped, Record
<1>6. r2.st = r.st
  BY DEF Record
<1> QED
  BY <1>3, <1>4, <1>5, <1>6 DEF Sound, c

\* The channel emptied; what the router knows of a process that has not asked; what it allows.
LEMMA SoundEmpty ==
  ASSUME NEW n, NEW r \in Record(n), Sound(n, r)
  PROVE  [r EXCEPT !.chan = <<>>] \in Record(n) /\ Sound(n, [r EXCEPT !.chan = <<>>])
<1> DEFINE r2 == [r EXCEPT !.chan = <<>>]
<1>1. <<>> \in Seq(Session!Event) /\ Len(<<>>) = 0
  OBVIOUS
<1>2. r2 \in Record(n) /\ r2.chan = <<>> /\ r2.st = r.st
  BY <1>1 DEF Record
<1>3. r.st = "running" => Asking(n, r2)
  BY <1>1, <1>2 DEF Record, Sound, Asking
<1>4. r.st # "running" => Stopped(r2)
  BY DEF Record, Sound, Stopped
<1> QED
  BY <1>2, <1>3, <1>4 DEF Sound

LEMMA SoundAllowAll ==
  ASSUME NEW n, NEW r \in Record(n), Sound(n, r), NEW b \in BOOLEAN
  PROVE  [r EXCEPT !.allowAll = b] \in Record(n) /\ Sound(n, [r EXCEPT !.allowAll = b])
BY DEF Record, Sound, Asking, Stopped

\* A process starts, with an input or without one.
LEMMA SoundNew ==
  ASSUME NEW n \in Nat, ConstantsAssumption, NEW b \in BOOLEAN
  PROVE  /\ [Session!NewProc EXCEPT !.allowAll = b] \in Record(n)
         /\ Sound(n, [Session!NewProc EXCEPT !.allowAll = b])
         /\ Session!NewProc \in Record(n) /\ Sound(n, Session!NewProc)
         /\ Session!NoProc \in Record(n) /\ Sound(n, Session!NoProc)
<1> DEFINE new == [Session!NewProc EXCEPT !.allowAll = b]
<1>1. 0 \in 0 .. Msgs /\ 0 \in 0 .. n
  BY DEF ConstantsAssumption, Session!ConstantsAssumption
<1>2. <<>> \in Seq(Session!Event) /\ <<>> \in Seq(Session!Msg) /\ Len(<<>>) = 0
  OBVIOUS
<1>3. Session!NewProc \in Record(n)
  BY <1>1, <1>2 DEF Session!NewProc, Record
<1>4. Asking(n, Session!NewProc) /\ Session!NewProc.st = "running"
  BY <1>2 DEF Session!NewProc, Asking
<1>5. new \in Record(n) /\ Sound(n, new)
  BY <1>3, <1>4, SoundAllowAll DEF Sound
<1>6. Session!NoProc \in Record(n) /\ Session!NoProc.st = "none" /\ Stopped(Session!NoProc)
  BY <1>3 DEF Session!NoProc, Session!NewProc, Record, Stopped
<1> QED
  BY <1>3, <1>4, <1>5, <1>6 DEF Sound

LEMMA SoundGiven ==
  ASSUME NEW n, NEW r \in Record(n), Sound(n, r), r.st = "running", NEW k \in Session!Msg
  PROVE  Session!Given(r, k) \in Record(n) /\ Sound(n, Session!Given(r, k))
<1>1. Append(r.todo, k) \in Seq(Session!Msg)
  BY AppendOf DEF Record
<1> QED
  BY <1>1 DEF Record, Sound, Asking, Session!Given

\* A process ends.
LEMMA SoundEnding ==
  ASSUME NEW n \in Nat, ConstantsAssumption, NEW r \in Record(n), NEW st \in {"exited", "closed"}
  PROVE  Session!Ending(r, st) \in Record(n) /\ Sound(n, Session!Ending(r, st))
<1> DEFINE r2 == Session!Ending(r, st)
<1>1. r.chan \in Seq(Session!Event) /\ r.awaiting \in BOOLEAN /\ r.allowAll \in BOOLEAN
      /\ r.questions \in 0 .. n /\ r.prompted \in 0 .. Msgs
  BY DEF Record
<1>2. Session!NewProc \in Record(n)
  BY SoundNew
<1>3. r2 \in Record(n) /\ r2.st = st
  BY <1>1, <1>2 DEF Session!Ending, Record
<1>4. Stopped(r2)
  BY DEF Session!Ending, Session!NewProc, Stopped
<1> QED
  BY <1>3, <1>4 DEF Sound

\* A process sends an event that is no request, from before the input it works on or about
\* the one it has done.
LEMMA SoundEmits ==
  ASSUME NEW n, NEW r \in Record(n), Sound(n, r), r.st = "running", r.req = 0,
         NEW e \in Session!Event, e.t \notin Request,
         NEW new \in Record(n), new.st = "running", new.chan = r.chan, new.req = 0,
         new.awaiting = r.awaiting, new.questions = r.questions, new.cur # 0 => new.tail = 0
  PROVE  /\ [new EXCEPT !.chan = Append(@, e)] \in Record(n)
         /\ Sound(n, [new EXCEPT !.chan = Append(@, e)])
<1> DEFINE c == Append(r.chan, e)
           r2 == [new EXCEPT !.chan = c]
<1>1. r.chan \in Seq(Session!Event)
  BY DEF Record
<1>2. /\ c \in Seq(Session!Event) /\ Len(r.chan) \in Nat /\ Len(c) = Len(r.chan) + 1
      /\ \A i \in 1 .. Len(r.chan) : c[i] = r.chan[i]
      /\ c[Len(r.chan) + 1] = e
  BY <1>1, AppendOf
<1> HIDE DEF c
<1>3. r2 \in Record(n) /\ r2.chan = c /\ r2.st = "running"
  BY <1>2 DEF Record
<1>4. Asking(n, r) /\ ~r.awaiting
  BY DEF Sound, Asking
<1>5. ASSUME NEW i \in 1 .. Len(r.chan)
      PROVE  r.chan[i].t \notin Request
  <2>1. r.chan[i] \in Session!Event
    BY <1>1
  <2>2. r.chan[i].k # 0
    BY <2>1 DEF Session!Event, Session!Msg
  <2> QED
    BY <2>2, <1>4 DEF Asking
<1>6. ASSUME NEW i \in 1 .. Len(c)
      PROVE  c[i].t \notin Request
  BY <1>2, <1>5
<1>7. Asking(n, r2)
  BY <1>3, <1>4, <1>6 DEF Asking, Record
<1> QED
  BY <1>3, <1>7 DEF Sound, c

\* A process asks.
LEMMA SoundAsks ==
  ASSUME NEW n, NEW r \in Record(n), Sound(n, r), r.st = "running", r.req = 0, r.cur # 0,
         NEW t \in Request, t = "question" => n > 0,
         NEW r2, r2 = [r EXCEPT !.asked = TRUE, !.req = r.cur,
                                !.chan = Append(@, [t |-> t, k |-> r.cur])]
  PROVE  r2 \in Record(n) /\ Sound(n, r2)
<1> DEFINE e == [t |-> t, k |-> r.cur]
           c == Append(r.chan, e)
<1>1. r.chan \in Seq(Session!Event) /\ e \in Session!Event
  BY DEF Record, Session!Event, Session!Msg, Request
<1>2. /\ c \in Seq(Session!Event) /\ Len(r.chan) \in Nat /\ Len(c) = Len(r.chan) + 1
      /\ \A i \in 1 .. Len(r.chan) : c[i] = r.chan[i]
      /\ c[Len(r.chan) + 1] = e
  BY <1>1, AppendOf
<1> HIDE DEF c
<1>3. r2 \in Record(n) /\ r2.chan = c /\ r2.st = "running" /\ r2.req = r.cur /\ r2.cur = r.cur
      /\ r2.awaiting = r.awaiting /\ r2.questions = r.questions /\ r2.tail = r.tail
  BY <1>2 DEF Record, c
<1>4. Asking(n, r) /\ ~r.awaiting
  BY DEF Sound, Asking
<1>5. ASSUME NEW i \in 1 .. Len(r.chan)
      PROVE  r.chan[i].t \notin Request
  <2>1. r.chan[i] \in Session!Event
    BY <1>1
  <2>2. r.chan[i].k # 0
    BY <2>1 DEF Session!Event, Session!Msg
  <2> QED
    BY <2>2, <1>4 DEF Asking
<1>6. ASSUME NEW i \in 1 .. Len(c), c[i].t \in Request
      PROVE  i = Len(c) /\ c[i] = e
  BY <1>2, <1>5, <1>6
<1>7. Asking(n, r2)
  BY <1>3, <1>4, <1>6 DEF Asking, Record
<1> QED
  BY <1>3, <1>7 DEF Sound

TurnRecord ==
  [pc : Session!TurnPc, k : 0 .. Msgs, kind : Session!MsgKinds, p : 0 .. AgentProcs, off : BOOLEAN,
   saw : BOOLEAN, retry : BOOLEAN, then : BOOLEAN, for : 0 .. Msgs, gives : Nat]

Left == [cancels : 0 .. sessionLoad.cancels, injects : 0 .. sessionLoad.injects,
         exits : 0 .. sessionLoad.exits]
Grants == [k : 0 .. Msgs, by : {"none", "super", "kept"} \cup Session!MsgKinds]

-----------------------------------------------------------------------------
(* What keeps the processes sound *)

\* One of them changes.
LEMMA OneChanges ==
  ASSUME NEW n, NEW g, NEW f, ProcsSound(n, g, f), NEW p \in Session!Proc, NEW r \in Record(n),
         Sound(n, r), r.st = "running" => g = p
  PROVE  ProcsSound(n, g, [f EXCEPT ![p] = r])
BY DEF ProcsSound

\* What is registered is removed: then none runs, and the channels are left.
LEMMA NoneRuns ==
  ASSUME ConstantsAssumption, sessionLoad.questions \in Nat, reg \in 0 .. AgentProcs,
         ProcsSound(sessionLoad.questions, reg, proc)
  PROVE  /\ \A g : ProcsSound(sessionLoad.questions, g, Session!Removed)
         /\ \A p \in Session!Proc :
              Session!Removed[p].st # "running" /\ Session!Removed[p].chan = proc[p].chan
<1> DEFINE n == sessionLoad.questions
           r == Session!Ending(proc[reg], "closed")
<1>1. /\ proc \in [Session!Proc -> Record(n)]
      /\ \A p \in Session!Proc : Sound(n, proc[p])
      /\ \A p \in Session!Proc : proc[p].st = "running" => reg = p
  BY DEF ProcsSound
<1>2. CASE reg = 0
  <2>1. Session!Removed = proc
    BY <1>2 DEF Session!Removed
  <2>2. 0 \notin Session!Proc
    BY DEF Session!Proc
  <2> QED
    BY <1>1, <1>2, <2>1, <2>2 DEF ProcsSound
<1>3. CASE reg # 0
  <2>1. reg \in Session!Proc
    BY <1>3 DEF Session!Proc, ConstantsAssumption, Session!ConstantsAssumption
  <2>2. r \in Record(n) /\ Sound(n, r) /\ r.st # "running" /\ r.chan = proc[reg].chan
    <3>1. r \in Record(n) /\ Sound(n, r)
      BY <1>1, <2>1, SoundEnding
    <3>2. r.st # "running" /\ r.chan = proc[reg].chan
      BY DEF Session!Ending, Session!NewProc
    <3> QED
      BY <3>1, <3>2
  <2>3. Session!Removed = [proc EXCEPT ![reg] =
                             IF proc[reg].st = "running" THEN r ELSE proc[reg]]
    BY <1>3 DEF Session!Removed, Session!ClosedProc, Session!Running
  <2> HIDE DEF r
  <2> QED
    BY <1>1, <2>1, <2>2, <2>3 DEF ProcsSound
<1> QED
  BY <1>2, <1>3

\* What a sound session says of its load, the types of its variables, and its processes.
LEMMA OfLoad ==
  ASSUME SessionInv, ConstantsAssumption
  PROVE  /\ {sessionLoad.questions, sessionLoad.cancels, sessionLoad.injects, sessionLoad.exits}
              \subseteq Nat
         /\ sessionLoad.questions \in Nat
         /\ sessionLoad.kinds \subseteq Session!MsgKinds /\ sessionLoad.supers \subseteq BOOLEAN
         /\ sessionLoad.msgs \in 0 .. Msgs /\ Msgs \in Nat /\ AgentProcs \in Nat
         /\ super \in BOOLEAN /\ told \in BOOLEAN
         /\ next \in 0 .. Msgs /\ btw \in 0 .. AgentProcs
         /\ left \in Left /\ grants \in Grants
<1>1. Msgs \in Nat /\ AgentProcs \in Nat /\ SessionLoads \subseteq Session!Load
  BY DEF ConstantsAssumption, Session!ConstantsAssumption
<1>2. sessionLoad \in Session!Load
  BY <1>1 DEF SessionInv, Session!TypeOK
<1>3. /\ super \in BOOLEAN /\ told \in BOOLEAN
      /\ next \in 0 .. Msgs /\ btw \in 0 .. AgentProcs
      /\ left \in Left /\ grants \in Grants
  BY DEF SessionInv, Session!TypeOK, Left, Grants
<1> QED
  BY <1>1, <1>2, <1>3 DEF Session!Load

LEMMA OfSession ==
  ASSUME SessionInv, ConstantsAssumption
  PROVE  /\ reg \in 0 .. AgentProcs /\ turn \in TurnRecord
         /\ \A p \in Session!Proc : proc[p] \in Record(sessionLoad.questions)
                                    /\ Sound(sessionLoad.questions, proc[p])
                                    /\ (proc[p].st = "running" => reg = p)
         /\ turn.p # 0 => turn.p \in Session!Proc
         /\ reg # 0 => reg \in Session!Proc
<1>1. reg \in 0 .. AgentProcs /\ turn \in TurnRecord
  BY DEF SessionInv, Session!TypeOK, TurnRecord
<1> QED
  BY <1>1, OfLoad, SMTT(60) DEF SessionInv, ProcsSound, TurnRecord, Session!Proc

\* What is left to show of a step.
LEMMA SessionKept ==
  ASSUME SessionInv, UNCHANGED sessionLoad, reg' \in 0 .. AgentProcs, turn' \in TurnRecord,
         super' \in BOOLEAN, told' \in BOOLEAN, next' \in 0 .. Msgs, btw' \in 0 .. AgentProcs,
         left' \in Left,
         grants' \in Grants,
         ProcsSound(sessionLoad.questions, reg', proc'), TurnSound'
  PROVE  SessionInv'
<1>1. proc' \in [Session!Proc -> Record(sessionLoad.questions)]
  BY DEF ProcsSound
<1>2. Session!TypeOK'
  BY <1>1 DEF SessionInv, Session!TypeOK, TurnRecord, Record, Session!Proc, Left, Grants
<1> QED
  BY <1>2 DEF SessionInv, ProcsSound, Session!Proc

\* The types of what most steps of a turn leave alone.
LEMMA RestTyped ==
  ASSUME SessionInv, Session!Rest, UNCHANGED sessionLoad
  PROVE  /\ super' \in BOOLEAN /\ next' \in 0 .. Msgs /\ btw' \in 0 .. AgentProcs
         /\ left' \in Left
         /\ UNCHANGED grants =>
              grants' \in Grants
         /\ UNCHANGED told => told' \in BOOLEAN
BY DEF SessionInv, Session!TypeOK, Session!Rest, Left, Grants

\* A step of a turn on its process: types, and the turn is not about to answer.
LEMMA TurnGoes ==
  ASSUME SessionInv, Session!Rest, UNCHANGED sessionLoad,
         UNCHANGED grants \/ grants' \in Grants, UNCHANGED told \/ told' \in BOOLEAN,
         reg' \in 0 .. AgentProcs, turn' \in TurnRecord,
         turn'.pc \notin {"question", "approval"}, turn'.pc = "restart" => reg' = 0,
         Placed(turn)',
         ProcsSound(sessionLoad.questions, reg', proc')
  PROVE  SessionInv'
<1>1. TurnSound'
  BY DEF TurnSound, InAnswer, Placed
<1> QED
  BY <1>1, RestTyped, SessionKept

-----------------------------------------------------------------------------
(* Steps that leave the processes alone *)

LEMMA ProcsStay ==
  ASSUME SessionInv, ConstantsAssumption, UNCHANGED <<sessionLoad, reg, proc>>,
         \/ \E kind \in sessionLoad.kinds : Session!Receive(kind)
         \/ \E v \in sessionLoad.supers : Session!SetSuper(v)
         \/ Session!Cancel \/ Session!CancelSeen \/ Session!LookupFails \/ Session!Hint
         \/ Session!RestartFails \/ Session!InjectLooksUp
  PROVE  SessionInv'
<1>a. sessionLoad.kinds \subseteq Session!MsgKinds /\ sessionLoad.supers \subseteq BOOLEAN
      /\ sessionLoad.msgs \in 0 .. Msgs /\ Msgs \in Nat /\ AgentProcs \in Nat
      /\ super \in BOOLEAN /\ told \in BOOLEAN
      /\ next \in 0 .. Msgs /\ btw \in 0 .. AgentProcs /\ left \in Left /\ grants \in Grants
      /\ turn \in TurnRecord /\ reg \in 0 .. AgentProcs
      /\ {sessionLoad.cancels, sessionLoad.injects} \subseteq Nat
  BY OfLoad, OfSession
<1>0. Session!NoTurn \in TurnRecord /\ Session!NoTurn.pc = "idle"
  BY <1>a DEF Session!NoTurn, TurnRecord, Session!TurnPc, Session!MsgKinds
<1>1. ProcsSound(sessionLoad.questions, reg', proc')
  BY DEF SessionInv
<1>2. CASE \E kind \in sessionLoad.kinds : Session!Receive(kind)
  <2> PICK kind \in sessionLoad.kinds : Session!Receive(kind)
    BY <1>2
  <2>0. next < sessionLoad.msgs
    BY DEF Session!Receive
  <2>1. kind \in Session!MsgKinds /\ next + 1 \in 0 .. Msgs /\ next + 1 # 0
    BY <1>a, <2>0
  <2>2. turn' \in TurnRecord /\ turn'.pc = "lookup" /\ turn'.k # 0
    BY <1>0, <2>1 DEF Session!Receive, TurnRecord, Session!TurnPc
  <2>3. TurnSound'
    BY <2>2 DEF TurnSound, Placed, InAnswer
  <2> QED
    BY <1>1, <2>1, <2>2, <2>3, <1>a, SessionKept DEF Session!Receive
<1>3. CASE \E v \in sessionLoad.supers : Session!SetSuper(v)
  <2> PICK v \in sessionLoad.supers : Session!SetSuper(v)
    BY <1>3
  <2>1. v \in BOOLEAN
    BY <1>a
  <2>2. TurnSound'
    BY DEF Session!SetSuper, TurnSound, Placed, InAnswer, SessionInv, Session!Running
  <2> QED
    BY <1>1, <2>1, <2>2, <1>a, SessionKept DEF Session!SetSuper
<1>4. CASE Session!Cancel
  <2>1. turn' \in TurnRecord /\ turn'.pc = turn.pc /\ turn'.p = turn.p /\ turn'.k = turn.k
    BY <1>4, <1>a DEF Session!Cancel, TurnRecord
  <2>2. TurnSound'
    BY <2>1 DEF TurnSound, Placed, InAnswer, SessionInv, Session!Running
  <2>3. left' \in Left
    BY <1>4, <1>a DEF Session!Cancel, Left
  <2> QED
    BY <1>1, <1>4, <2>1, <2>2, <2>3, <1>a, SessionKept DEF Session!Cancel
<1>5. CASE Session!CancelSeen \/ Session!LookupFails \/ Session!Hint \/ Session!RestartFails
  <2>1. turn' = Session!NoTurn /\ Session!Rest /\ UNCHANGED <<grants, told>>
    BY <1>5 DEF Session!CancelSeen, Session!LookupFails, Session!Hint, Session!RestartFails,
                Session!Idle
  <2> QED
    BY <1>0, <1>1, <1>a, <2>1, TurnGoes DEF Placed
<1>6. CASE Session!InjectLooksUp
  <2>1. TurnSound'
    BY <1>6 DEF Session!InjectLooksUp, TurnSound, Placed, InAnswer, SessionInv, Session!Running
  <2>2. left' \in Left
    BY <1>6, <1>a DEF Session!InjectLooksUp, Left
  <2> QED
    BY <1>1, <1>6, <2>1, <2>2, <1>a, SessionKept DEF Session!InjectLooksUp
<1> QED
  BY <1>2, <1>3, <1>4, <1>5, <1>6

-----------------------------------------------------------------------------
(* Steps of a process *)

\* A step of a running process that does not wait for an answer.
LEMMA AtWorkKept ==
  ASSUME SessionInv, ConstantsAssumption, UNCHANGED sessionLoad,
         NEW p \in Session!Proc, proc[p].st = "running", ~proc[p].awaiting, Session!ProcSteps(p),
         NEW r \in Record(sessionLoad.questions), Sound(sessionLoad.questions, r),
         r.st = "running", proc' = [proc EXCEPT ![p] = r]
  PROVE  SessionInv'
<1>1. reg = p /\ reg' = reg /\ turn' = turn
  BY OfSession DEF Session!ProcSteps
<1>2. ProcsSound(sessionLoad.questions, reg', proc')
  BY <1>1, OneChanges DEF SessionInv
<1>3. InAnswer => turn.p # p
  <2>1. turn.p = p => Session!Running(turn.p)
    BY DEF Session!Running, Session!Proc
  <2> QED
    BY <2>1 DEF SessionInv, TurnSound
<1>a. InAnswer => proc'[turn.p] = proc[turn.p]
  <2>1. InAnswer => turn.p \in Session!Proc
    BY OfSession DEF SessionInv, TurnSound, InAnswer, Placed
  <2> QED
    BY <1>3, <2>1 DEF SessionInv, ProcsSound
<1>4. TurnSound'
  <2>1. turn.pc = "question" => InAnswer
    BY DEF InAnswer
  <2> QED
    BY <1>1, <1>a, <2>1 DEF TurnSound, Placed, InAnswer, SessionInv, Session!Running
<1> QED
  BY <1>1, <1>2, <1>4, OfSession, OfLoad, SessionKept DEF Session!ProcSteps

LEMMA ProcessKept ==
  ASSUME SessionInv, ConstantsAssumption, UNCHANGED sessionLoad,
         NEW p \in Session!Proc, Session!Process(p)
  PROVE  SessionInv'
<1> DEFINE n == sessionLoad.questions
           r == proc[p]
<1>1. r \in Record(n) /\ Sound(n, r) /\ n \in Nat /\ Msgs \in Nat
  BY OfSession, OfLoad
<1>2. r.st = "running" /\ p # 0
  BY DEF Session!Process, Session!TakeInput, Session!Says, Session!Finishes, Session!SecondDone,
         Session!Exit, Session!Asks, Session!Fails, Session!AtWork, Session!Running
<1>3. Asking(n, r)
  BY <1>1, <1>2 DEF Sound
<1>4. proc = [proc EXCEPT ![p] = r] /\ proc \in [Session!Proc -> Record(n)]
  BY DEF SessionInv, ProcsSound
<1>5. CASE Session!TakeInput(p)
  <2> DEFINE r2 == [r EXCEPT !.cur = Head(r.todo), !.todo = Tail(@), !.said = FALSE,
                             !.asked = FALSE, !.tail = 0]
  <2>1. r.cur = 0 /\ r.todo # <<>> /\ Session!ProcSteps(p) /\ proc' = [proc EXCEPT ![p] = r2]
    BY <1>4, <1>5 DEF Session!TakeInput
  <2>2. Head(r.todo) \in Session!Msg /\ Tail(r.todo) \in Seq(Session!Msg)
    <3>1. r.todo \in Seq(Session!Msg)
      BY <1>1 DEF Record
    <3> QED
      BY <2>1, <3>1, TailOf
  <2>3. r2 \in Record(n)
    <3>1. Head(r.todo) \in 0 .. Msgs /\ 0 \in 0 .. Msgs
      BY <1>1, <2>2 DEF Session!Msg
    <3> QED
      BY <1>1, <2>2, <3>1 DEF Record
  <2>4. /\ r2.st = "running" /\ r2.req = r.req /\ r2.tail = 0 /\ r2.awaiting = r.awaiting
        /\ r2.chan = r.chan /\ r2.questions = r.questions /\ r2.prompted = r.prompted
    BY <1>1, <1>2 DEF Record
  <2>5. r.req = 0
    BY <1>1, <1>3, <2>1 DEF Asking, Record
  <2> HIDE DEF r2
  <2>6. Asking(n, r2) /\ ~r.awaiting
    BY <1>3, <2>1, <2>4, <2>5 DEF Asking
  <2> QED
    BY <1>2, <2>1, <2>3, <2>4, <2>6, AtWorkKept DEF Sound
<1>6. ASSUME NEW t \in {"text", "done", "error", "refused"}, NEW k \in Session!Msg, NEW new,
             new \in Record(n), new.st = "running", new.chan = r.chan, new.req = 0, r.req = 0,
             new.awaiting = r.awaiting, new.questions = r.questions, new.cur # 0 => new.tail = 0,
             Session!Emits(p, t, k, new), Session!ProcSteps(p)
      PROVE  SessionInv'
  <2> DEFINE e == [t |-> t, k |-> k]
             r2 == [new EXCEPT !.chan = Append(@, e)]
  <2>1. e \in Session!Event /\ e.t \notin Request
    BY <1>6 DEF Session!Event, Request
  <2>2. r2 \in Record(n) /\ Sound(n, r2)
    BY <1>1, <1>2, <1>6, <2>1, SoundEmits
  <2>3. r2.st = "running"
    BY <1>6 DEF Record
  <2>4. ~r.awaiting
    BY <1>3, <1>6 DEF Asking
  <2>5. proc' = [proc EXCEPT ![p] = r2]
    BY <1>6 DEF Session!Emits
  <2> HIDE DEF r2
  <2> QED
    BY <1>2, <1>6, <2>2, <2>3, <2>4, <2>5, AtWorkKept
<1>7. CASE Session!Says(p)
  <2> DEFINE new == [r EXCEPT !.said = TRUE]
  <2>1. r.cur # 0 /\ r.req = 0 /\ Session!Emits(p, "text", r.cur, new) /\ Session!ProcSteps(p)
    BY <1>7 DEF Session!Says, Session!AtWork
  <2>2. /\ new \in Record(n) /\ new.st = "running" /\ new.chan = r.chan /\ new.req = 0
        /\ new.awaiting = r.awaiting /\ new.questions = r.questions
        /\ new.cur = r.cur /\ new.tail = r.tail
    BY <1>1, <1>2, <2>1 DEF Record
  <2>3. r.cur \in Session!Msg
    BY <1>1, <2>1 DEF Record, Session!Msg
  <2> HIDE DEF new
  <2> QED
    BY <1>3, <1>6, <2>1, <2>2, <2>3 DEF Asking
<1>8. CASE Session!Finishes(p)
  <2> DEFINE new == [r EXCEPT !.cur = 0, !.tail = r.cur]
  <2>1. r.cur # 0 /\ r.req = 0 /\ Session!Emits(p, "done", r.cur, new) /\ Session!ProcSteps(p)
    BY <1>8 DEF Session!Finishes, Session!AtWork
  <2>2. /\ new \in Record(n) /\ new.st = "running" /\ new.chan = r.chan /\ new.req = 0
        /\ new.awaiting = r.awaiting /\ new.questions = r.questions /\ new.cur = 0
    BY <1>1, <1>2, <2>1 DEF Record
  <2>3. r.cur \in Session!Msg
    BY <1>1, <2>1 DEF Record, Session!Msg
  <2> HIDE DEF new
  <2> QED
    BY <1>6, <2>1, <2>2, <2>3
<1>9. CASE Session!SecondDone(p)
  <2> DEFINE new == [r EXCEPT !.tail = 0]
  <2>1. r.tail # 0 /\ Session!ProcSteps(p)
        /\ (Session!Emits(p, "done", r.tail, new) \/ proc' = [proc EXCEPT ![p] = new])
    BY <1>4, <1>9 DEF Session!SecondDone
  <2>2. r.cur = 0 /\ r.req = 0 /\ ~r.awaiting
    <3>1. r.req \in 0 .. Msgs /\ r.cur \in 0 .. Msgs
      BY <1>1 DEF Record
    <3> QED
      BY <1>3, <2>1, <3>1 DEF Asking
  <2>3. /\ new \in Record(n) /\ new.st = "running" /\ new.chan = r.chan /\ new.req = 0
        /\ new.awaiting = r.awaiting /\ new.questions = r.questions /\ new.cur = 0 /\ new.tail = 0
        /\ new.prompted = r.prompted
    BY <1>1, <1>2, <2>1, <2>2 DEF Record
  <2>4. r.tail \in Session!Msg
    BY <1>1, <2>1 DEF Record, Session!Msg
  <2> HIDE DEF new
  <2>5. Asking(n, new)
    BY <1>3, <2>2, <2>3 DEF Asking
  <2>6. ASSUME proc' = [proc EXCEPT ![p] = new]
        PROVE  SessionInv'
    BY <1>2, <2>1, <2>2, <2>3, <2>5, <2>6, AtWorkKept DEF Sound
  <2> QED
    BY <1>6, <2>1, <2>2, <2>3, <2>4, <2>6
<1>10. ASSUME NEW t \in Request, Session!Asks(p, t)
       PROVE  SessionInv'
  <2> DEFINE r2 == [r EXCEPT !.asked = TRUE, !.req = r.cur,
                             !.chan = Append(@, [t |-> t, k |-> r.cur])]
  <2>1. /\ r.cur # 0 /\ r.req = 0 /\ (t = "question" => n > 0) /\ Session!ProcSteps(p)
        /\ proc' = [proc EXCEPT ![p] = r2]
    BY <1>10 DEF Session!Asks, Session!AtWork, Session!Emits
  <2>2. r2 \in Record(n) /\ Sound(n, r2)
    BY <1>1, <1>2, <2>1, SoundAsks
  <2>3. r2.st = "running" /\ ~r.awaiting
    BY <1>1, <1>2, <1>3, <2>1 DEF Record, Asking
  <2> HIDE DEF r2
  <2> QED
    BY <1>2, <2>1, <2>2, <2>3, AtWorkKept
<1>11. ASSUME NEW t \in {"error", "refused"}, Session!Fails(p, t)
       PROVE  SessionInv'
  <2> DEFINE new == [r EXCEPT !.cur = 0]
  <2>1. r.cur # 0 /\ r.req = 0 /\ Session!Emits(p, t, r.cur, new) /\ Session!ProcSteps(p)
    BY <1>11 DEF Session!Fails, Session!AtWork
  <2>2. /\ new \in Record(n) /\ new.st = "running" /\ new.chan = r.chan /\ new.req = 0
        /\ new.awaiting = r.awaiting /\ new.questions = r.questions /\ new.cur = 0
    BY <1>1, <1>2, <2>1 DEF Record
  <2>3. r.cur \in Session!Msg
    BY <1>1, <2>1 DEF Record, Session!Msg
  <2> HIDE DEF new
  <2> QED
    BY <1>6, <2>1, <2>2, <2>3
<1>12. CASE Session!Exit(p)
  <2> DEFINE r2 == Session!Ending(r, "exited")
  <2>1. /\ proc' = [proc EXCEPT ![p] = r2] /\ left' = [left EXCEPT !.exits = @ - 1]
        /\ left.exits > 0 /\ UNCHANGED <<reg, turn, super, next, btw, grants, told>>
    BY <1>12 DEF Session!Exit
  <2>2. r2 \in Record(n) /\ Sound(n, r2)
    BY <1>1, SoundEnding
  <2>3. r2.st = "exited"
    BY DEF Session!Ending, Session!NewProc
  <2> HIDE DEF r2
  <2>4. ProcsSound(n, reg', proc')
    BY <2>1, <2>2, <2>3, OneChanges DEF SessionInv
  <2>5. ASSUME InAnswer
        PROVE  /\ proc'[turn.p].questions = proc[turn.p].questions
               /\ Session!Running(turn.p)' => proc'[turn.p] = proc[turn.p]
    <3>1. turn.p \in Session!Proc
      BY <2>5, OfSession DEF SessionInv, TurnSound, InAnswer, Placed
    <3>2. r2.questions = r.questions
      BY DEF r2, Session!Ending, Session!NewProc
    <3> QED
      BY <1>4, <2>1, <2>3, <3>1, <3>2 DEF Session!Running
  <2>6. TurnSound'
    <3>1. turn.pc = "question" => InAnswer
      BY DEF InAnswer
    <3> QED
      BY <2>1, <2>5, <3>1 DEF TurnSound, Placed, InAnswer, SessionInv, Session!Running
  <2>7. left' \in Left
    BY <2>1, OfLoad DEF Left
  <2> QED
    BY <2>1, <2>4, <2>6, <2>7, OfSession, OfLoad, SessionKept
<1> QED
  BY <1>5, <1>7, <1>8, <1>9, <1>10, <1>11, <1>12 DEF Session!Process, Request

-----------------------------------------------------------------------------
(* Steps of a turn *)

\* What the steps make of the turn.
LEMMA TurnsMade ==
  ASSUME turn \in TurnRecord, Msgs \in Nat, AgentProcs \in Nat
  PROVE  /\ \A pc \in Session!TurnPc :
              /\ Session!At(pc) \in TurnRecord
              /\ Session!At(pc).pc = pc /\ Session!At(pc).p = turn.p /\ Session!At(pc).k = turn.k
         /\ Session!Idle \in TurnRecord /\ Session!Idle.pc = "idle"
         /\ \A p \in 0 .. AgentProcs, retry \in BOOLEAN :
              /\ Session!Draining(p, retry) \in TurnRecord
              /\ Session!Draining(p, retry).pc = "drain" /\ Session!Draining(p, retry).p = p
              /\ Session!Draining(p, retry).k = turn.k
         /\ Session!Finished \in TurnRecord /\ Session!Finished.pc \in {"idle", "quiesce"}
         /\ Session!Finished.pc = "quiesce" => Session!Finished.p = turn.p /\ Session!Finished.k = turn.k
         /\ Session!Signal \in TurnRecord /\ Session!Signal.pc = "drain"
         /\ Session!Signal.p = turn.p /\ Session!Signal.k = turn.k
         /\ Session!Retrying \in TurnRecord /\ Session!Retrying.pc = "restart"
         /\ Session!Retrying.p = turn.p /\ Session!Retrying.k = turn.k
<1>1. \A pc \in Session!TurnPc : Session!At(pc) \in TurnRecord
                                 /\ Session!At(pc).pc = pc /\ Session!At(pc).p = turn.p
                                 /\ Session!At(pc).k = turn.k
  BY DEF Session!At, TurnRecord
<1>2. Session!Idle \in TurnRecord /\ Session!Idle.pc = "idle"
  BY DEF Session!Idle, Session!NoTurn, TurnRecord, Session!TurnPc, Session!MsgKinds
<1>3. "drain" \in Session!TurnPc /\ "quiesce" \in Session!TurnPc /\ "restart" \in Session!TurnPc
  BY DEF Session!TurnPc
<1>4. ASSUME NEW p \in 0 .. AgentProcs, NEW retry \in BOOLEAN
      PROVE  /\ Session!Draining(p, retry) \in TurnRecord
             /\ Session!Draining(p, retry).pc = "drain" /\ Session!Draining(p, retry).p = p
             /\ Session!Draining(p, retry).k = turn.k
  <2>1. turn.gives \in Nat /\ turn.gives + 1 \in Nat /\ turn.k \in 0 .. Msgs
    BY DEF TurnRecord
  <2> QED
    BY <1>3, <2>1 DEF Session!Draining, TurnRecord
<1>5. /\ Session!Signal \in TurnRecord /\ Session!Signal.pc = "drain" /\ Session!Signal.p = turn.p
      /\ Session!Signal.k = turn.k /\ Session!Retrying \in TurnRecord /\ Session!Retrying.pc = "restart"
      /\ Session!Retrying.p = turn.p /\ Session!Retrying.k = turn.k
  BY <1>3 DEF Session!Signal, Session!Retrying, Session!At, TurnRecord
<1>6. LET u == [Session!At("quiesce") EXCEPT !.then = FALSE] IN
        u \in TurnRecord /\ u.pc = "quiesce" /\ u.p = turn.p /\ u.k = turn.k
  BY <1>3 DEF Session!At, TurnRecord
<1>7. /\ Session!Finished \in TurnRecord /\ Session!Finished.pc \in {"idle", "quiesce"}
      /\ Session!Finished.pc = "quiesce" => Session!Finished.p = turn.p /\ Session!Finished.k = turn.k
  BY <1>2, <1>6 DEF Session!Finished
<1> QED
  BY <1>1, <1>2, <1>4, <1>5, <1>7

\* The session loses its process.
LEMMA RemovedGoes ==
  ASSUME SessionInv, ConstantsAssumption, Session!Rest, UNCHANGED sessionLoad,
         UNCHANGED grants \/ grants' \in Grants, UNCHANGED told \/ told' \in BOOLEAN,
         turn' \in TurnRecord, turn'.pc \notin {"question", "approval"},
         Placed(turn)',
         reg' = 0, proc' = Session!Removed
  PROVE  SessionInv'
<1>1. ProcsSound(sessionLoad.questions, reg', proc')
  BY OfSession, OfLoad, NoneRuns DEF SessionInv
<1> QED
  BY <1>1, OfLoad, TurnGoes

\* It keeps it, as it is or changed.
LEMMA KeptGoes ==
  ASSUME SessionInv, ConstantsAssumption, Session!Rest, UNCHANGED sessionLoad,
         UNCHANGED grants \/ grants' \in Grants, UNCHANGED told \/ told' \in BOOLEAN,
         turn' \in TurnRecord, turn'.pc \notin {"question", "approval"},
         turn'.pc = "restart" => reg = 0,
         Placed(turn)',
         UNCHANGED reg, NEW p \in Session!Proc, NEW r \in Record(sessionLoad.questions),
         Sound(sessionLoad.questions, r), r.st = proc[p].st, proc' = [proc EXCEPT ![p] = r]
  PROVE  SessionInv'
<1>1. ProcsSound(sessionLoad.questions, reg', proc')
  BY OfSession, OneChanges DEF SessionInv
<1> QED
  BY <1>1, OfSession, TurnGoes

LEMMA AsItIsGoes ==
  ASSUME SessionInv, ConstantsAssumption, Session!Rest, UNCHANGED sessionLoad,
         UNCHANGED grants \/ grants' \in Grants, UNCHANGED told \/ told' \in BOOLEAN,
         turn' \in TurnRecord, turn'.pc \notin {"question", "approval"},
         turn'.pc = "restart" => reg = 0,
         Placed(turn)',
         UNCHANGED <<reg, proc>>
  PROVE  SessionInv'
<1>1. ProcsSound(sessionLoad.questions, reg', proc')
  BY DEF SessionInv
<1> QED
  BY <1>1, OfSession, TurnGoes

\* A process is started where none runs.
LEMMA StartedGoes ==
  ASSUME SessionInv, ConstantsAssumption, Session!Rest, UNCHANGED <<sessionLoad, grants, told>>,
         turn' \in TurnRecord, turn'.pc \in {"discard", "drain"},
         NEW q \in Session!Proc, turn'.p = q, turn'.k # 0, reg' = q,
         NEW f, \A g : ProcsSound(sessionLoad.questions, g, f),
         NEW r \in Record(sessionLoad.questions), Sound(sessionLoad.questions, r),
         proc' = [f EXCEPT ![q] = r]
  PROVE  SessionInv'
<1>1. ProcsSound(sessionLoad.questions, q, f)
  OBVIOUS
<1>2. ProcsSound(sessionLoad.questions, reg', proc')
  BY <1>1, OneChanges
<1>3. reg' \in 0 .. AgentProcs /\ turn'.p # 0
  BY DEF Session!Proc
<1> QED
  BY <1>2, <1>3, TurnGoes DEF Placed

\* Nothing is registered, and nothing runs.
LEMMA NoneRegistered ==
  ASSUME SessionInv, ConstantsAssumption, reg = 0
  PROVE  \A g : ProcsSound(sessionLoad.questions, g, proc)
BY DEF SessionInv, ProcsSound, Session!Proc

-----------------------------------------------------------------------------
(* A turn begins *)

LEMMA BeginKept ==
  ASSUME SessionInv, ConstantsAssumption, UNCHANGED sessionLoad,
         Session!Lookup \/ \E q \in Session!Proc : Session!LookupStarts(q)
  PROVE  SessionInv'
<1> DEFINE n == sessionLoad.questions
<1>1. turn \in TurnRecord /\ super \in BOOLEAN /\ n \in Nat /\ reg \in 0 .. AgentProcs
  BY OfSession, OfLoad
<1>4. turn.pc = "lookup" /\ turn.k # 0
  BY DEF Session!Lookup, Session!LookupStarts, SessionInv, TurnSound, Placed
<1>2. CASE Session!Lookup
  <2> DEFINE r == proc[reg]
             r2 == [r EXCEPT !.allowAll = r.allowAll \/ super]
             pc == IF ~r.awaiting THEN "quiesce" ELSE IF r.questions > 0 THEN "question" ELSE "approval"
  <2>1. /\ reg # 0 /\ turn' = [turn EXCEPT !.p = reg, !.pc = pc]
        /\ proc' = [proc EXCEPT ![reg] = r2] /\ UNCHANGED <<reg, grants, told>> /\ Session!Rest
    BY <1>2 DEF Session!Lookup
  <2>2. reg \in Session!Proc /\ r \in Record(n) /\ Sound(n, r)
    BY <2>1, OfSession
  <2>3. r2 \in Record(n) /\ Sound(n, r2)
    <3>1. (r.allowAll \/ super) \in BOOLEAN
      BY <1>1
    <3> QED
      BY <2>2, <3>1, SoundAllowAll
  <2>4. r2.st = r.st /\ r2.awaiting = r.awaiting /\ r2.questions = r.questions /\ r.questions \in 0 .. n
    BY <2>2 DEF Record
  <2> HIDE DEF r2
  <2>5. ProcsSound(n, reg', proc')
    <3>1. r2.st = "running" => reg = reg
      OBVIOUS
    <3> QED
      BY <2>1, <2>2, <2>3, OneChanges DEF SessionInv
  <2>6. pc \in Session!TurnPc
    BY DEF Session!TurnPc
  <2>7. turn' \in TurnRecord /\ turn'.p = reg /\ turn'.pc = pc /\ turn'.k = turn.k
    BY <1>1, <2>1, <2>6 DEF TurnRecord
  <2>8. proc'[reg] = r2
    BY <2>1, <2>2 DEF SessionInv, ProcsSound
  <2>9. InAnswer' => r.awaiting /\ (pc = "approval" <=> r.questions = 0)
                     /\ (pc = "question" => r.questions > 0)
    <3>1. pc \in {"question", "approval"} => r.awaiting /\ (pc = "approval" <=> r.questions = 0)
                                             /\ (pc = "question" => r.questions > 0)
      BY <2>4, <1>1
    <3> HIDE DEF pc
    <3> QED
      BY <3>1, <2>7 DEF InAnswer
  <2>10. turn'.pc # "restart"
    BY <2>7
  <2>11. TurnSound'
    <3>1. turn'.pc = "question" => InAnswer'
      BY DEF InAnswer
    <3> QED
      BY <1>4, <2>1, <2>4, <2>7, <2>8, <2>9, <2>10, <3>1 DEF TurnSound, Placed
  <2> QED
    BY <1>1, <2>1, <2>5, <2>7, <2>11, RestTyped, SessionKept
<1>3. CASE \E q \in Session!Proc : Session!LookupStarts(q)
  <2> PICK q \in Session!Proc : Session!LookupStarts(q)
    BY <1>3
  <2>1. turn' \in TurnRecord /\ turn'.pc = "discard" /\ turn'.p = q /\ turn'.k # 0
    <3>1. turn' = [turn EXCEPT !.p = q, !.pc = "discard"]
      BY DEF Session!LookupStarts
    <3>2. q \in 0 .. AgentProcs /\ "discard" \in Session!TurnPc
      BY OfLoad DEF Session!Proc, Session!TurnPc
    <3> QED
      BY <1>1, <1>4, <3>1, <3>2 DEF TurnRecord
  <2>2. \A g : ProcsSound(n, g, proc)
    BY NoneRegistered DEF Session!LookupStarts
  <2>3. [Session!NewProc EXCEPT !.allowAll = super] \in Record(n)
        /\ Sound(n, [Session!NewProc EXCEPT !.allowAll = super])
    BY <1>1, SoundNew
  <2> QED
    BY <2>1, <2>2, <2>3, StartedGoes DEF Session!LookupStarts
<1> QED
  BY <1>2, <1>3

\* The message answers a question or a request.
LEMMA AnswerKept ==
  ASSUME SessionInv, ConstantsAssumption, UNCHANGED sessionLoad,
         \/ Session!AnswerQuestion \/ Session!Approve \/ Session!ApproveStale
         \/ Session!ApproveFails
  PROVE  SessionInv'
<1> DEFINE n == sessionLoad.questions
           p == turn.p
           r == proc[p]
<1>1. /\ turn \in TurnRecord /\ super \in BOOLEAN /\ told \in BOOLEAN /\ n \in Nat
      /\ Msgs \in Nat /\ AgentProcs \in Nat /\ reg \in 0 .. AgentProcs
  BY OfSession, OfLoad
<1>2. InAnswer /\ p # 0 /\ turn.k # 0
  BY DEF Session!AnswerQuestion, Session!Approve, Session!ApproveStale, Session!ApproveFails,
         Session!Answers, InAnswer, SessionInv, TurnSound, Placed
<1>3. p \in Session!Proc /\ r \in Record(n) /\ Sound(n, r)
  BY <1>2, OfSession
<1>4. r.st = "running" => r.awaiting /\ (turn.pc = "approval" <=> r.questions = 0) /\ Asking(n, r)
  BY <1>2, <1>3 DEF SessionInv, TurnSound, Session!Running, Sound
<1>5. proc \in [Session!Proc -> Record(n)]
  BY DEF SessionInv, ProcsSound
<1>6. r.req \in 0 .. Msgs /\ r.questions \in 0 .. n /\ r.awaiting \in BOOLEAN
  BY <1>3 DEF Record
<1>7. Session!Idle \in TurnRecord /\ Session!Idle.pc = "idle"
  BY <1>1, TurnsMade
<1>8. CASE Session!AnswerQuestion
  <2> DEFINE more == r.questions > 1
             q == r.questions - 1
             left2 == IF more THEN r.req ELSE 0
             u == [Session!At("drain") EXCEPT !.for = r.req]
  <2>1. /\ turn.pc = "question" /\ UNCHANGED <<reg, grants, told>> /\ Session!Rest
        /\ turn' = IF more \/ ~Session!Running(p) THEN Session!Idle ELSE u
    BY <1>8 DEF Session!AnswerQuestion
  <2>3. u \in TurnRecord /\ u.pc = "drain" /\ u.p = p /\ u.k = turn.k
    BY <1>1, <1>6 DEF Session!At, TurnRecord, Session!TurnPc
  <2>4. turn' \in TurnRecord /\ turn'.pc \in {"idle", "drain"} /\ Placed(turn)'
    BY <1>2, <1>7, <2>1, <2>3 DEF Placed
  <2>5. r.questions > 0 /\ q \in 0 .. n /\ (more <=> q > 0) /\ left2 \in 0 .. Msgs
    BY <1>1, <1>6, <2>1 DEF SessionInv, TurnSound
  <2> DEFINE b == q > 0
             r2 == [r EXCEPT !.questions = q, !.awaiting = b, !.req = left2]
  <2>c. b \in BOOLEAN /\ (b <=> q > 0)
    OBVIOUS
  <2>2. proc' = [proc EXCEPT ![p] = r2]
    <3>1. proc' = [proc EXCEPT ![p] = [Session!Questioned(r, q) EXCEPT !.req = left2]]
      BY <1>8 DEF Session!AnswerQuestion
    <3>2. Session!Questioned(r, q) = [r EXCEPT !.questions = q, !.awaiting = b]
      BY DEF Session!Questioned
    <3> HIDE DEF b
    <3>3. [Session!Questioned(r, q) EXCEPT !.req = left2] = r2
      BY <1>3, <3>2 DEF Record
    <3> QED
      BY <3>1, <3>3
  <2> HIDE DEF left2, b
  <2>6. r2 \in Record(n) /\ r2.st = r.st
    BY <1>1, <1>3, <1>6, <2>5, <2>c DEF Record
  <2>7. r2.chan = r.chan /\ r2.cur = r.cur /\ r2.tail = r.tail /\ r2.prompted = r.prompted
        /\ r2.questions = q /\ r2.awaiting = b /\ r2.req = left2
        /\ r2.todo = r.todo
    BY <1>3 DEF Record
  <2>a. left2 = 0 \/ (left2 = r.req /\ more)
    BY DEF left2
  <2>b. /\ ~(q > 0) => q = 0 /\ left2 = 0
        /\ q > 0 => left2 = r.req
    BY <2>5, <1>6 DEF left2
  <2> HIDE DEF r2
  <2>8. CASE r.st = "running"
    <3>1. r.chan = <<>> /\ Len(<<>>) = 0
      BY <1>4, <2>8 DEF Asking
    <3>2. (r2.awaiting <=> b) /\ q \in 0 .. n /\ Asking(n, r) /\ r.awaiting
      BY <1>4, <2>5, <2>7, <2>8
    <3> HIDE DEF q
    <3>3. r.req # 0 /\ r.cur = r.req /\ r.tail = 0
      BY <3>2 DEF Asking
    <3>4. Asking(n, r2)
      BY <2>5, <2>7, <2>a, <2>b, <2>c, <3>1, <3>2, <3>3 DEF Asking
    <3> QED
      BY <1>2, <1>3, <2>1, <2>2, <2>4, <2>6, <2>8, <3>4, KeptGoes DEF Sound
  <2>9. CASE r.st # "running"
    <3>1. Stopped(r2)
      BY <1>3, <2>7, <2>9, <2>a DEF Sound, Stopped
    <3> QED
      BY <1>2, <1>3, <2>1, <2>2, <2>4, <2>6, <2>9, <3>1, KeptGoes DEF Sound
  <2> QED
    BY <2>8, <2>9
<1>9. told' = (told \/ Session!Asked("allowAll")) => told' \in BOOLEAN
  BY <1>1
<1>10. CASE Session!Approve
  <2> DEFINE all == r.allowAll \/ Session!Asked("allowAll")
             u == [Session!At("drain") EXCEPT !.for = r.req, !.then = super /\ turn.kind = "text"]
             by == IF super THEN "super" ELSE turn.kind
  <2> DEFINE r2 == [r EXCEPT !.awaiting = FALSE, !.req = 0, !.allowAll = all]
  <2>1. /\ turn.pc = "approval" /\ r.st = "running" /\ UNCHANGED reg /\ Session!Rest
        /\ proc' = [proc EXCEPT ![p] = r2] /\ turn' = u
        /\ told' = (told \/ Session!Asked("allowAll"))
        /\ UNCHANGED grants \/ grants' = [k |-> r.req, by |-> by]
    BY <1>5, <1>10 DEF Session!Approve, Session!Answers, Session!Running, Session!Grant
  <2>2. u \in TurnRecord /\ u.pc = "drain" /\ u.p = p /\ u.k = turn.k
    <3>1. (super /\ turn.kind = "text") \in BOOLEAN
      BY <1>1
    <3> QED
      BY <1>1, <1>6, <3>1 DEF Session!At, TurnRecord, Session!TurnPc
  <2>3. UNCHANGED grants \/ grants' \in Grants
    <3>1. turn.kind \in Session!MsgKinds
      BY <1>1 DEF TurnRecord
    <3> QED
      BY <1>6, <2>1, <3>1 DEF Grants
  <2>4. all \in BOOLEAN
    BY <1>3 DEF Record
  <2> HIDE DEF all
  <2>5. r2 \in Record(n) /\ r2.st = r.st
    <3>1. 0 \in 0 .. Msgs
      BY <1>1
    <3> QED
      BY <1>3, <2>4, <3>1 DEF Record
  <2>6. r2.chan = r.chan /\ r2.cur = r.cur /\ r2.tail = r.tail /\ r2.req = 0
        /\ r2.awaiting = FALSE /\ r2.questions = r.questions
    BY <1>3 DEF Record
  <2> HIDE DEF r2, u
  <2>7. Asking(n, r2)
    <3>1. r.chan = <<>> /\ Len(<<>>) = 0 /\ r.questions = 0
      BY <1>4, <2>1 DEF Asking
    <3> QED
      BY <1>4, <2>1, <2>6, <3>1 DEF Asking
  <2>8. Sound(n, r2)
    BY <2>1, <2>5, <2>7 DEF Sound
  <2> QED
    <3>1. turn' \in TurnRecord /\ turn'.pc = "drain" /\ Placed(turn)'
      BY <1>2, <2>1, <2>2 DEF Placed
    <3> QED
      BY <1>3, <1>9, <2>1, <2>3, <2>5, <2>8, <3>1, KeptGoes
<1>11. CASE Session!ApproveStale
  <2> DEFINE u == [Session!At("restart") EXCEPT !.retry = TRUE]
  <2>1. /\ reg' = 0 /\ told' = (told \/ Session!Asked("allowAll")) /\ Session!Rest
        /\ turn' \in {u, Session!Idle} /\ UNCHANGED grants
    BY <1>11 DEF Session!ApproveStale
  <2>2. u \in TurnRecord /\ u.pc = "restart" /\ u.p = p /\ u.k = turn.k
    BY <1>1 DEF Session!At, TurnRecord, Session!TurnPc
  <2>3. turn' \in TurnRecord /\ turn'.pc \in {"restart", "idle"} /\ Placed(turn)'
    BY <1>2, <1>7, <2>1, <2>2 DEF Placed
  <2>4. /\ ProcsSound(n, 0, Session!Removed)
        /\ \A q \in Session!Proc : Session!Removed[q].st # "running"
    BY <1>1, NoneRuns DEF SessionInv
  <2>5. ASSUME NEW q \in Session!Proc, NEW r2 \in Record(n), Stopped(r2), r2.st # "running",
               proc' = [Session!Removed EXCEPT ![q] = r2]
        PROVE  SessionInv'
    <3>1. ProcsSound(n, 0, proc')
      BY <2>4, <2>5, OneChanges DEF Sound
    <3> QED
      BY <1>1, <1>2, <1>9, <2>1, <2>3, <3>1, TurnGoes
  <2>6. Session!Removed \in [Session!Proc -> Record(n)]
    BY <2>4 DEF ProcsSound
  <2>7. CASE proc' = [Session!Removed EXCEPT ![p].awaiting = FALSE]
    <3> DEFINE o == Session!Removed[p]
               r2 == [o EXCEPT !.awaiting = FALSE]
    <3>1. o \in Record(n) /\ Stopped(o) /\ o.st # "running"
      BY <1>3, <2>4 DEF ProcsSound, Sound
    <3>2. r2 \in Record(n) /\ Stopped(r2) /\ r2.st # "running"
      BY <3>1 DEF Record, Stopped
    <3>3. proc' = [Session!Removed EXCEPT ![p] = r2]
      BY <1>3, <2>6, <2>7
    <3> HIDE DEF r2
    <3> QED
      BY <1>3, <2>5, <3>2, <3>3
  <2>8. CASE \E q \in Session!Proc : proc' = [Session!Removed EXCEPT ![q].st = "closed"]
    <3> PICK q \in Session!Proc : proc' = [Session!Removed EXCEPT ![q].st = "closed"]
      BY <2>8
    <3> DEFINE o == Session!Removed[q]
               r2 == [o EXCEPT !.st = "closed"]
    <3>1. o \in Record(n) /\ Stopped(o) /\ o.st # "running"
      BY <2>4 DEF ProcsSound, Sound
    <3>2. r2 \in Record(n) /\ Stopped(r2) /\ r2.st # "running"
      BY <3>1 DEF Record, Stopped
    <3>3. proc' = [Session!Removed EXCEPT ![q] = r2]
      BY <2>6
    <3> HIDE DEF r2
    <3> QED
      BY <2>5, <3>2, <3>3
  <2> QED
    BY <1>11, <2>7, <2>8 DEF Session!ApproveStale
<1>12. CASE Session!ApproveFails
  <2> DEFINE b == r.allowAll \/ Session!Asked("allowAll")
             r2 == [r EXCEPT !.awaiting = FALSE, !.allowAll = b]
  <2>1. Session!Dies
        \/ /\ proc' = [proc EXCEPT ![p] = r2] /\ turn' = Session!Idle
           /\ UNCHANGED <<reg, grants, told>> /\ Session!Rest
    BY <1>12 DEF Session!ApproveFails
  <2>2. r.allowAll \in BOOLEAN /\ b \in BOOLEAN
    BY <1>3 DEF Record
  <2>3. Stopped(r) /\ r.st # "running"
    BY <1>2, <1>3, <1>12 DEF Session!ApproveFails, Session!Running, Sound
  <2> HIDE DEF b
  <2>4. r2 \in Record(n) /\ Sound(n, r2) /\ r2.st = r.st
    BY <1>3, <2>2, <2>3 DEF Record, Sound, Stopped
  <2> HIDE DEF r2
  <2>5. turn' = Session!Idle => Placed(turn)'
    BY <1>7 DEF Placed
  <2>6. CASE Session!Dies
    BY <1>7, <2>5, <2>6, RemovedGoes DEF Session!Dies
  <2>7. CASE proc' = [proc EXCEPT ![p] = r2] /\ turn' = Session!Idle
             /\ UNCHANGED <<reg, grants, told>> /\ Session!Rest
    BY <1>3, <1>7, <2>4, <2>5, <2>7, KeptGoes
  <2> QED
    BY <2>1, <2>6, <2>7
<1> QED
  BY <1>8, <1>10, <1>11, <1>12

\* The process of the turn, and what the turn becomes.
LEMMA OfTurn ==
  ASSUME SessionInv, ConstantsAssumption, InTurn
  PROVE  /\ turn.p \in Session!Proc /\ turn.p # 0 /\ turn.k # 0 /\ turn.k \in Session!Msg
         /\ proc[turn.p] \in Record(sessionLoad.questions)
         /\ Sound(sessionLoad.questions, proc[turn.p])
<1>1. turn.p # 0 /\ turn.k # 0 /\ turn.k \in 0 .. Msgs
  BY OfSession DEF SessionInv, TurnSound, Placed, InTurn, TurnRecord
<1> QED
  BY <1>1, OfSession, OfLoad DEF Session!Msg

\* The process whose event is taken, and the processes then.
LEMMA TakenSound ==
  ASSUME SessionInv, ConstantsAssumption, InTurn, proc[turn.p].chan # <<>>
  PROVE  LET r == [proc[turn.p] EXCEPT !.chan = Tail(@)] IN
           /\ r \in Record(sessionLoad.questions) /\ Sound(sessionLoad.questions, r)
           /\ Session!Taken = [proc EXCEPT ![turn.p] = r]
<1>1. proc \in [Session!Proc -> Record(sessionLoad.questions)]
  BY DEF SessionInv, ProcsSound
<1>2. Session!Taken = [proc EXCEPT ![turn.p] = [proc[turn.p] EXCEPT !.chan = Tail(@)]]
  BY <1>1, OfTurn DEF Session!Taken
<1> QED
  BY <1>2, OfTurn, SoundTail

\* A step that takes an event and leaves the process registered.
LEMMA TakesEvent ==
  ASSUME SessionInv, ConstantsAssumption, InTurn, proc[turn.p].chan # <<>>,
         Session!Rest, UNCHANGED <<sessionLoad, reg, grants, told>>,
         turn' \in TurnRecord, turn'.pc \notin {"question", "approval", "restart"}, Placed(turn)',
         proc' = Session!Taken
  PROVE  SessionInv'
<1> DEFINE r == [proc[turn.p] EXCEPT !.chan = Tail(@)]
<1>1. /\ r \in Record(sessionLoad.questions) /\ Sound(sessionLoad.questions, r)
      /\ proc' = [proc EXCEPT ![turn.p] = r]
  BY TakenSound
<1>2. r.st = proc[turn.p].st /\ turn.p \in Session!Proc
  BY OfTurn DEF Record
<1> HIDE DEF r
<1> QED
  BY <1>1, <1>2, KeptGoes

\* A turn that ends its work on a process: nothing is registered, or all stays.
LEMMA EndsOrStays ==
  ASSUME SessionInv, ConstantsAssumption, Session!Rest, UNCHANGED <<sessionLoad, grants, told>>,
         turn' \in TurnRecord, turn'.pc \notin {"question", "approval"}, Placed(turn)',
         \/ reg' = 0 /\ proc' = Session!Removed
         \/ turn'.pc # "restart" /\ UNCHANGED <<reg, proc>>
  PROVE  SessionInv'
BY RemovedGoes, AsItIsGoes

-----------------------------------------------------------------------------
(* The message is an input *)

LEMMA InputKept ==
  ASSUME SessionInv, ConstantsAssumption, UNCHANGED sessionLoad,
         \/ Session!Quiesce \/ Session!Quiet \/ Session!Discard \/ Session!Send
         \/ Session!SendFails \/ \E q \in Session!Proc : Session!SendRestarts(q)
  PROVE  SessionInv'
<1> DEFINE n == sessionLoad.questions
           p == turn.p
           r == proc[p]
<1>1. /\ turn \in TurnRecord /\ n \in Nat /\ Msgs \in Nat /\ AgentProcs \in Nat
      /\ reg \in 0 .. AgentProcs
  BY OfSession, OfLoad
<1>2. InTurn
  BY DEF Session!Quiesce, Session!Quiet, Session!Discard, Session!Send, Session!SendFails,
         Session!SendRestarts, InTurn
<1>3. p \in Session!Proc /\ p # 0 /\ turn.k # 0 /\ turn.k \in Session!Msg
      /\ r \in Record(n) /\ Sound(n, r)
  BY <1>2, OfTurn
<1>4. proc \in [Session!Proc -> Record(n)] /\ p \in 0 .. AgentProcs
  BY <1>3 DEF SessionInv, ProcsSound, Session!Proc
<1>5. \A pc \in {"discard", "send"} :
        /\ Session!At(pc) \in TurnRecord /\ Session!At(pc).pc = pc
        /\ Session!At(pc).p = p /\ Session!At(pc).k = turn.k
  BY <1>1, TurnsMade DEF Session!TurnPc
<1>6. /\ \A g : ProcsSound(n, g, Session!Removed)
      /\ \A q \in Session!Proc : Session!Removed[q].st # "running"
  BY <1>1, NoneRuns DEF SessionInv
<1>7. CASE Session!Quiesce
  <2>1. r.chan # <<>> /\ UNCHANGED <<reg, turn, grants, told>> /\ Session!Rest
        /\ proc' = Session!Taken /\ turn.pc = "quiesce"
    BY <1>7 DEF Session!Quiesce, Session!Taken
  <2>2. Placed(turn)'
    BY <1>3, <2>1 DEF Placed
  <2> QED
    BY <1>1, <1>2, <2>1, <2>2, TakesEvent
<1>8. CASE Session!Quiet
  BY <1>3, <1>5, <1>8, EndsOrStays DEF Session!Quiet, Placed
<1>9. CASE Session!Discard
  <2>1. turn' = Session!At("send") /\ Session!Rest /\ UNCHANGED <<grants, told>>
    BY <1>9 DEF Session!Discard
  <2>2. turn' \in TurnRecord /\ turn'.pc = "send" /\ Placed(turn)'
    BY <1>3, <1>5, <2>1 DEF Placed
  <2>3. CASE r.st = "running"
    <3> DEFINE r2 == [r EXCEPT !.chan = <<>>]
    <3>1. UNCHANGED reg /\ proc' = [proc EXCEPT ![p] = r2]
      BY <1>4, <1>9, <2>3 DEF Session!Discard
    <3>2. r2 \in Record(n) /\ Sound(n, r2)
      BY <1>3, SoundEmpty
    <3>3. r2.st = r.st
      BY <1>3 DEF Record
    <3> HIDE DEF r2
    <3> QED
      BY <1>3, <2>1, <2>2, <3>1, <3>2, <3>3, KeptGoes
  <2>4. CASE r.st # "running"
    <3> DEFINE o == Session!Removed[p]
               r2 == [o EXCEPT !.chan = <<>>]
    <3>1. o \in Record(n) /\ Sound(n, o) /\ Session!Removed \in [Session!Proc -> Record(n)]
      BY <1>3, <1>6 DEF ProcsSound
    <3>2. reg' = 0 /\ proc' = [Session!Removed EXCEPT ![p] = r2]
      BY <1>9, <2>4, <3>1 DEF Session!Discard
    <3>3. r2 \in Record(n) /\ Sound(n, r2) /\ r2.st = o.st
      BY <3>1, SoundEmpty DEF Record
    <3> HIDE DEF r2
    <3>4. r2.st # "running"
      BY <1>3, <1>6, <3>3
    <3>5. ProcsSound(n, 0, Session!Removed)
      BY <1>6
    <3>6. ProcsSound(n, reg', proc')
      BY <1>3, <3>2, <3>3, <3>4, <3>5, OneChanges
    <3> QED
      BY <1>1, <2>1, <2>2, <3>2, <3>6, TurnGoes
  <2> QED
    BY <2>3, <2>4
<1>10. \A q \in 0 .. AgentProcs :
         /\ Session!Draining(q, TRUE) \in TurnRecord
         /\ Session!Draining(q, TRUE).pc = "drain" /\ Session!Draining(q, TRUE).p = q
         /\ Session!Draining(q, TRUE).k = turn.k
  BY <1>1, TurnsMade
<1>11. CASE Session!Send
  <2>1. /\ r.st = "running" /\ proc' = [proc EXCEPT ![p] = Session!Given(r, turn.k)]
        /\ turn' = Session!Draining(p, TRUE) /\ UNCHANGED <<reg, grants, told>> /\ Session!Rest
    BY <1>11 DEF Session!Send, Session!Running
  <2>2. Session!Given(r, turn.k) \in Record(n) /\ Sound(n, Session!Given(r, turn.k))
    BY <1>3, <2>1, SoundGiven
  <2>3. Session!Given(r, turn.k).st = r.st
    BY <1>3 DEF Session!Given, Record
  <2>4. turn' \in TurnRecord /\ turn'.pc = "drain" /\ Placed(turn)'
    BY <1>3, <1>4, <1>10, <2>1 DEF Placed
  <2> QED
    BY <1>3, <2>1, <2>2, <2>3, <2>4, KeptGoes
<1>12. CASE \E q \in Session!Proc : Session!SendRestarts(q)
  <2> PICK q \in Session!Proc : Session!SendRestarts(q)
    BY <1>12
  <2> DEFINE r2 == Session!Given(Session!NewProc, turn.k)
  <2>1. /\ proc' = [Session!Removed EXCEPT ![q] = r2] /\ reg' = q
        /\ turn' = Session!Draining(q, TRUE) /\ UNCHANGED <<grants, told>> /\ Session!Rest
    BY DEF Session!SendRestarts
  <2>2. r2 \in Record(n) /\ Sound(n, r2)
    <3>1. Session!NewProc \in Record(n) /\ Sound(n, Session!NewProc)
      BY <1>1, SoundNew
    <3>2. Session!NewProc.st = "running"
      BY DEF Session!NewProc
    <3> QED
      BY <1>3, <3>1, <3>2, SoundGiven
  <2>3. q \in 0 .. AgentProcs
    BY DEF Session!Proc
  <2>4. turn' \in TurnRecord /\ turn'.pc = "drain" /\ turn'.p = q /\ turn'.k # 0
    BY <1>3, <1>10, <2>1, <2>3
  <2> HIDE DEF r2
  <2> QED
    BY <1>6, <2>1, <2>2, <2>4, StartedGoes
<1>13. CASE Session!SendFails
  <2>1. Session!Idle \in TurnRecord /\ Session!Idle.pc = "idle"
    BY <1>1, TurnsMade
  <2> QED
    BY <1>13, <2>1, RemovedGoes DEF Session!SendFails, Session!Dies, Placed
<1> QED
  BY <1>7, <1>8, <1>9, <1>11, <1>12, <1>13

-----------------------------------------------------------------------------
(* /btw *)

LEMMA ByTheWayKept ==
  ASSUME SessionInv, ConstantsAssumption, UNCHANGED sessionLoad,
         Session!ByTheWay \/ Session!InjectSends
  PROVE  SessionInv'
<1> DEFINE n == sessionLoad.questions
<1>1. /\ turn \in TurnRecord /\ n \in Nat /\ Msgs \in Nat /\ AgentProcs \in Nat
      /\ reg \in 0 .. AgentProcs
  BY OfSession, OfLoad
<1>2. \A p \in Session!Proc : proc[p] \in Record(n) /\ Sound(n, proc[p])
                              /\ (proc[p].st = "running" => reg = p)
  BY OfSession
<1>3. \A g : ProcsSound(n, g, Session!Removed)
  BY <1>1, NoneRuns DEF SessionInv
<1>4. Session!Idle \in TurnRecord /\ Session!Idle.pc = "idle"
  BY <1>1, TurnsMade
<1>5. CASE Session!ByTheWay
  <2>1. turn.k # 0 /\ turn.k \in Session!Msg
    BY <1>1, <1>5 DEF Session!ByTheWay, SessionInv, TurnSound, Placed, TurnRecord, Session!Msg
  <2>2. Session!Rest /\ UNCHANGED <<grants, told>>
    BY <1>5 DEF Session!ByTheWay
  <2>3. CASE /\ Session!AcceptsByTheWay /\ Session!Running(reg) /\ UNCHANGED reg
             /\ proc' = [proc EXCEPT ![reg] = Session!Given(@, turn.k)]
             /\ turn' = Session!Draining(reg, FALSE)
    <3>1. reg \in Session!Proc /\ reg # 0 /\ proc[reg].st = "running"
      BY <1>1, <2>3, OfSession DEF Session!Running
    <3>2. proc' = [proc EXCEPT ![reg] = Session!Given(proc[reg], turn.k)]
      BY <2>3
    <3>3. /\ Session!Given(proc[reg], turn.k) \in Record(n)
          /\ Sound(n, Session!Given(proc[reg], turn.k))
      BY <1>2, <2>1, <3>1, SoundGiven
    <3>4. Session!Given(proc[reg], turn.k).st = proc[reg].st
      BY <1>2, <3>1 DEF Session!Given, Record
    <3>5. turn' \in TurnRecord /\ turn'.pc = "drain" /\ turn'.p = reg /\ turn'.k = turn.k
      BY <1>1, <2>3, TurnsMade
    <3>6. Placed(turn)'
      BY <2>1, <3>1, <3>5 DEF Placed
    <3> QED
      BY <2>2, <2>3, <3>1, <3>2, <3>3, <3>4, <3>5, <3>6, KeptGoes
  <2>4. CASE turn' = Session!Idle
    <3>1. turn' \in TurnRecord /\ turn'.pc = "idle" /\ Placed(turn)'
      BY <1>4, <2>4 DEF Placed
    <3>2. (reg' = 0 /\ proc' = Session!Removed) \/ UNCHANGED <<reg, proc>>
      BY <1>1, <1>5, <2>4, TurnsMade DEF Session!ByTheWay
    <3> QED
      BY <2>2, <3>1, <3>2, EndsOrStays
  <2> QED
    BY <1>5, <2>3, <2>4 DEF Session!ByTheWay
<1>6. CASE Session!InjectSends
  <2>1. /\ btw' = 0 /\ btw # 0 /\ next < sessionLoad.msgs
        /\ UNCHANGED <<turn, super, left, grants, told>>
    BY <1>6 DEF Session!InjectSends
  <2>2. next + 1 \in 0 .. Msgs /\ next + 1 \in Session!Msg
    BY <2>1, OfLoad DEF Session!Msg
  <2>3. ASSUME ProcsSound(n, reg', proc'), reg' \in 0 .. AgentProcs, next' \in 0 .. Msgs,
               reg' \in {0, reg},
               turn.p \in Session!Proc =>
                 /\ proc'[turn.p].questions = proc[turn.p].questions
                 /\ proc'[turn.p].st = "running" =>
                      proc[turn.p].st = "running" /\ proc'[turn.p].awaiting = proc[turn.p].awaiting
        PROVE  SessionInv'
    <3>1. InAnswer \/ turn.pc = "question" => turn.p \in Session!Proc
      BY OfTurn DEF InAnswer, InTurn
    <3>2. TurnSound'
      BY <2>1, <2>3, <3>1 DEF SessionInv, TurnSound, InAnswer, Session!Running
    <3> QED
      BY <1>1, <2>1, <2>3, <3>2, OfLoad, SessionKept
  <2>4. CASE Session!Running(btw)
    <3>1. btw \in Session!Proc
      BY <2>1, OfLoad DEF Session!Proc
    <3>2. /\ next' = next + 1 /\ UNCHANGED reg
          /\ UNCHANGED proc \/ proc' = [proc EXCEPT ![btw] = Session!Given(proc[btw], next + 1)]
      BY <1>6, <2>4 DEF Session!InjectSends
    <3>3. /\ Session!Given(proc[btw], next + 1) \in Record(n)
          /\ Sound(n, Session!Given(proc[btw], next + 1))
      BY <1>2, <2>2, <2>4, <3>1, SoundGiven DEF Session!Running
    <3>4. /\ Session!Given(proc[btw], next + 1).st = proc[btw].st
          /\ Session!Given(proc[btw], next + 1).awaiting = proc[btw].awaiting
          /\ Session!Given(proc[btw], next + 1).questions = proc[btw].questions
      BY <1>2, <3>1 DEF Session!Given, Record
    <3>5. ProcsSound(n, reg', proc')
      BY <1>2, <3>1, <3>2, <3>3, <3>4, OneChanges DEF SessionInv
    <3>6. proc \in [Session!Proc -> Record(n)]
      BY DEF SessionInv, ProcsSound
    <3> QED
      BY <1>1, <2>2, <2>3, <3>1, <3>2, <3>4, <3>5, <3>6
  <2>5. CASE ~Session!Running(btw)
    <3>1. reg' = 0 /\ proc' = Session!Removed /\ UNCHANGED next
      BY <1>6, <2>5 DEF Session!InjectSends
    <3>2. \A p \in Session!Proc : /\ Session!Removed[p].st # "running"
                                  /\ Session!Removed[p].questions = proc[p].questions
      <4>1. proc \in [Session!Proc -> Record(n)]
        BY DEF SessionInv, ProcsSound
      <4> QED
        BY <1>1, <4>1, NoneRuns DEF SessionInv, Session!Removed, Session!ClosedProc, Session!Ending,
           Session!NewProc
    <3> QED
      BY <1>1, <1>3, <2>3, <3>1, <3>2, OfLoad
  <2> QED
    BY <2>4, <2>5
<1> QED
  BY <1>5, <1>6

-----------------------------------------------------------------------------
(* The drain *)

LEMMA DrainKept ==
  ASSUME SessionInv, ConstantsAssumption, UNCHANGED sessionLoad,
         \/ Session!TakeText \/ Session!TakeAllowed \/ Session!TakeRequest
         \/ Session!TakeQuestions \/ Session!TakeDone
  PROVE  SessionInv'
<1> DEFINE n == sessionLoad.questions
           p == turn.p
           r == proc[p]
           e == Head(r.chan)
<1>1. /\ turn \in TurnRecord /\ n \in Nat /\ Msgs \in Nat /\ AgentProcs \in Nat
      /\ reg \in 0 .. AgentProcs
  BY OfSession, OfLoad
<1>2. InTurn /\ r.chan # <<>> /\ e = Session!First
  BY DEF Session!TakeText, Session!TakeAllowed, Session!TakeRequest, Session!TakeQuestions,
         Session!TakeDone, Session!Drains, Session!Pending, Session!First, InTurn
<1>3. p \in Session!Proc /\ p # 0 /\ turn.k # 0 /\ r \in Record(n) /\ Sound(n, r)
  BY <1>2, OfTurn
<1>4. /\ e \in Session!Event /\ e = r.chan[1] /\ Len(r.chan) \in Nat \ {0}
      /\ Tail(r.chan) \in Seq(Session!Event) /\ Len(Tail(r.chan)) = Len(r.chan) - 1
      /\ \A i \in 1 .. Len(Tail(r.chan)) : i + 1 \in 1 .. Len(r.chan)
  <2>1. r.chan \in Seq(Session!Event)
    BY <1>3 DEF Record
  <2> QED
    BY <1>2, <2>1, TailOf
<1> DEFINE c == Tail(r.chan)
           rt == [r EXCEPT !.chan = c]
<1>5. rt \in Record(n) /\ Sound(n, rt) /\ Session!Taken = [proc EXCEPT ![p] = rt]
  BY <1>2, TakenSound
<1>6. proc \in [Session!Proc -> Record(n)]
  BY DEF SessionInv, ProcsSound
<1> HIDE DEF e, c
<1>7. \A pc \in {"tail", "leading"} :
        /\ Session!At(pc) \in TurnRecord /\ Session!At(pc).pc = pc
        /\ Session!At(pc).p = p /\ Session!At(pc).k = turn.k
  BY <1>1, TurnsMade DEF Session!TurnPc
<1>8. /\ Session!Signal \in TurnRecord /\ Session!Signal.pc = "drain" /\ Session!Signal.p = p
      /\ Session!Signal.k = turn.k
      /\ Session!Idle \in TurnRecord /\ Session!Idle.pc = "idle"
      /\ Session!Finished \in TurnRecord /\ Session!Finished.pc \in {"idle", "quiesce"}
      /\ Session!Finished.pc = "quiesce" => Session!Finished.p = p /\ Session!Finished.k = turn.k
  BY <1>1, TurnsMade
<1>9. CASE Session!TakeText
  BY <1>2, <1>3, <1>8, <1>9, TakesEvent DEF Session!TakeText, Placed
<1>10. CASE Session!TakeDone
  <2>1. turn' \in TurnRecord /\ turn'.pc \in {"tail", "leading"} /\ turn'.p = p /\ turn'.k = turn.k
    BY <1>7, <1>10 DEF Session!TakeDone
  <2> QED
    BY <1>2, <1>3, <1>10, <2>1, TakesEvent DEF Session!TakeDone, Placed
<1>11. Placed(Session!Finished) /\ Placed(Session!Signal) /\ Placed(Session!Idle)
  BY <1>3, <1>8 DEF Placed
\* A running process with its request at the head of the channel has sent nothing else.
<1>12. ASSUME e.t \in Request, r.st = "running"
       PROVE  /\ Asking(n, r) /\ r.req = e.k /\ r.req # 0 /\ ~r.awaiting /\ r.questions = 0
              /\ r.chan # <<>> /\ c = <<>> /\ Len(c) = 0 /\ (e.t = "question" => n > 0)
  <2>1. Asking(n, r)
    BY <1>3, <1>12 DEF Sound
  <2>2. 1 \in 1 .. Len(r.chan)
    BY <1>4
  <2>3. Len(r.chan) = 1 /\ r.req = e.k /\ ~r.awaiting /\ (e.t = "question" => n > 0)
    BY <1>4, <1>12, <2>1, <2>2 DEF Asking
  <2>4. e.k # 0
    BY <1>4 DEF Session!Event, Session!Msg
  <2>5. Len(c) = 0 /\ c = <<>>
    BY <1>4, <2>3 DEF c
  <2>6. r.questions = 0
    BY <2>1, <2>3 DEF Asking
  <2> QED
    BY <1>2, <2>1, <2>3, <2>4, <2>5, <2>6
<1>13. ASSUME Session!Rest, UNCHANGED <<reg, told>>, UNCHANGED grants \/ grants' \in Grants,
              turn' \in {Session!Finished, Session!Signal},
              NEW r2 \in Record(n), Sound(n, r2), r2.st = r.st, proc' = [proc EXCEPT ![p] = r2]
       PROVE  SessionInv'
  <2>1. turn' \in TurnRecord /\ turn'.pc \in {"idle", "quiesce", "drain"} /\ Placed(turn)'
    BY <1>8, <1>11, <1>13
  <2> QED
    BY <1>3, <1>13, <2>1, KeptGoes
<1>14. CASE Session!TakeAllowed
  <2>1. CASE Session!Running(p) /\ r.req # 0
    <3> DEFINE r2 == [rt EXCEPT !.req = 0]
    <3>1. /\ proc' = [proc EXCEPT ![p] = r2] /\ turn' = Session!Signal /\ UNCHANGED <<reg, told>>
          /\ Session!Rest /\ grants' = [k |-> e.k, by |-> IF super THEN "super" ELSE "kept"]
      BY <1>2, <1>3, <1>5, <1>6, <1>14, <2>1 DEF Session!TakeAllowed, Session!Grant
    <3>2. e.t \in Request /\ r.st = "running"
      BY <1>2, <1>14, <2>1 DEF Session!TakeAllowed, Session!Drains, Request, Session!Running
    <3>3. r2 \in Record(n) /\ r2.st = r.st
      <4>1. 0 \in 0 .. Msgs /\ rt.st = r.st
        BY <1>1, <1>3 DEF Record
      <4> HIDE DEF rt
      <4> QED
        BY <1>5, <4>1 DEF Record
    <3>4. /\ r2.chan = c /\ r2.req = 0 /\ r2.cur = r.cur /\ r2.tail = r.tail
          /\ r2.awaiting = r.awaiting /\ r2.questions = r.questions
      BY <1>3 DEF Record
    <3> HIDE DEF r2
    <3>5. Asking(n, r2)
      BY <1>12, <3>2, <3>4 DEF Asking
    <3>6. grants' \in Grants
      <4>1. e.k \in 0 .. Msgs
        BY <1>1, <1>4 DEF Session!Event, Session!Msg
      <4> QED
        BY <3>1, <4>1 DEF Grants
    <3> QED
      BY <1>13, <3>1, <3>2, <3>3, <3>5, <3>6 DEF Sound
  <2>2. CASE ~(Session!Running(p) /\ r.req # 0)
    <3>1. /\ turn' = Session!Idle /\ reg' = 0 /\ proc' = Session!Removed
          /\ UNCHANGED <<grants, told>> /\ Session!Rest
      BY <1>14, <2>2 DEF Session!TakeAllowed
    <3> QED
      BY <1>8, <1>11, <3>1, RemovedGoes
  <2> QED
    BY <2>1, <2>2
<1>15. CASE Session!TakeRequest
  <2> DEFINE r2 == [rt EXCEPT !.awaiting = TRUE, !.prompted = e.k]
  <2>1. /\ proc' = [proc EXCEPT ![p] = r2] /\ turn' = Session!Finished /\ e.t = "approval"
        /\ UNCHANGED <<reg, grants, told>> /\ Session!Rest
    BY <1>2, <1>3, <1>5, <1>6, <1>15 DEF Session!TakeRequest, Session!Drains
  <2>2. e.k \in 0 .. Msgs
    BY <1>1, <1>4 DEF Session!Event, Session!Msg
  <2>3. r2 \in Record(n) /\ r2.st = r.st
    BY <1>3, <1>5, <2>2 DEF Record
  <2>4. /\ r2.chan = c /\ r2.req = r.req /\ r2.cur = r.cur /\ r2.tail = r.tail /\ r2.todo = r.todo
        /\ r2.awaiting = TRUE /\ r2.questions = r.questions /\ r2.prompted = e.k
    BY <1>3 DEF Record
  <2> HIDE DEF r2
  <2>5. r.st = "running" => Asking(n, r2)
    BY <1>12, <2>1, <2>4 DEF Asking, Request
  <2>6. r.st # "running" => Stopped(r2)
    BY <1>3, <2>4 DEF Sound, Stopped
  <2> QED
    BY <1>13, <2>1, <2>3, <2>5, <2>6 DEF Sound
<1>16. CASE Session!TakeQuestions
  <2> DEFINE b == n > 0
             r2 == [rt EXCEPT !.questions = n, !.awaiting = b]
  <2>0. b \in BOOLEAN /\ (b <=> n > 0)
    OBVIOUS
  <2>1. /\ proc' = [proc EXCEPT ![p] = r2] /\ turn' = Session!Finished /\ e.t = "question"
        /\ UNCHANGED <<reg, grants, told>> /\ Session!Rest
    BY <1>2, <1>3, <1>5, <1>6, <1>16 DEF Session!TakeQuestions, Session!Drains, Session!Questioned
  <2> HIDE DEF b
  <2>3. r2 \in Record(n) /\ r2.st = r.st
    <3>1. n \in 0 .. n /\ rt.st = r.st
      BY <1>1, <1>3 DEF Record
    <3> HIDE DEF rt, n
    <3> QED
      BY <1>5, <2>0, <3>1 DEF Record
  <2>4. /\ r2.chan = c /\ r2.req = r.req /\ r2.cur = r.cur /\ r2.tail = r.tail /\ r2.todo = r.todo
        /\ r2.awaiting = b /\ r2.questions = n
    BY <1>3 DEF Record
  <2> HIDE DEF r2
  <2>5. r.st = "running" => Asking(n, r2)
    <3> SUFFICES ASSUME r.st = "running"
                 PROVE  Asking(n, r2)
      OBVIOUS
    <3>1. n > 0 /\ b
      BY <1>12, <2>0, <2>1 DEF Request
    <3> QED
      BY <1>1, <1>12, <2>1, <2>4, <3>1 DEF Asking, Request
  <2>6. r.st # "running" => Stopped(r2)
    BY <1>3, <2>4 DEF Sound, Stopped
  <2> QED
    BY <1>13, <2>1, <2>3, <2>5, <2>6 DEF Sound
<1> QED
  BY <1>9, <1>10, <1>14, <1>15, <1>16

LEMMA EndsKept ==
  ASSUME SessionInv, ConstantsAssumption, UNCHANGED sessionLoad,
         \/ Session!TakeError \/ Session!TakeRefused \/ Session!ChannelClosed \/ Session!NoSignal
         \/ Session!TailEvent \/ Session!TailError \/ Session!TailEnds
  PROVE  SessionInv'
<1> DEFINE p == turn.p
<1>1. turn \in TurnRecord /\ Msgs \in Nat /\ AgentProcs \in Nat
  BY OfSession, OfLoad
<1>2. InTurn
  BY DEF Session!TakeError, Session!TakeRefused, Session!ChannelClosed, Session!NoSignal,
         Session!TailEvent, Session!TailError, Session!TailEnds, Session!Drains, InTurn
<1>3. p # 0 /\ turn.k # 0
  BY <1>2, OfTurn
<1>4. /\ Session!Idle \in TurnRecord /\ Session!Idle.pc = "idle"
      /\ Session!Finished \in TurnRecord /\ Session!Finished.pc \in {"idle", "quiesce"}
      /\ Session!Finished.pc = "quiesce" => Session!Finished.p = p /\ Session!Finished.k = turn.k
      /\ Session!Retrying \in TurnRecord /\ Session!Retrying.pc = "restart"
      /\ Session!Retrying.p = p /\ Session!Retrying.k = turn.k
  BY <1>1, TurnsMade
<1>5. Placed(Session!Finished) /\ Placed(Session!Retrying) /\ Placed(Session!Idle)
  BY <1>3, <1>4 DEF Placed
<1>6. CASE \/ Session!TakeError \/ Session!TakeRefused \/ Session!ChannelClosed
           \/ Session!TailError
  <2>1. /\ reg' = 0 /\ proc' = Session!Removed /\ UNCHANGED <<grants, told>> /\ Session!Rest
        /\ turn' \in {Session!Finished, Session!Retrying, Session!Idle}
    BY <1>6 DEF Session!TakeError, Session!TakeRefused, Session!ChannelClosed, Session!Dies,
                Session!TailError
  <2>2. turn' \in TurnRecord /\ turn'.pc \notin {"question", "approval"} /\ Placed(turn)'
    BY <1>4, <1>5, <2>1
  <2> QED
    BY <2>1, <2>2, RemovedGoes
<1>7. CASE Session!NoSignal \/ Session!TailEnds
  <2>1. /\ UNCHANGED <<grants, told>> /\ Session!Rest
        /\ turn' \in {Session!Finished, Session!Retrying}
        /\ \/ reg' = 0 /\ proc' = Session!Removed
           \/ turn' = Session!Finished /\ UNCHANGED <<reg, proc>>
    BY <1>7 DEF Session!NoSignal, Session!TailEnds
  <2>2. turn' \in TurnRecord /\ turn'.pc \notin {"question", "approval"} /\ Placed(turn)'
        /\ (turn' = Session!Finished => turn'.pc # "restart")
    BY <1>4, <1>5, <2>1
  <2> QED
    BY <2>1, <2>2, EndsOrStays
<1>8. CASE Session!TailEvent
  <2>1. /\ proc[p].chan # <<>> /\ proc' = Session!Taken /\ turn' = turn /\ turn.pc = "tail"
        /\ UNCHANGED <<reg, grants, told>> /\ Session!Rest
    BY <1>8 DEF Session!TailEvent, Session!Pending
  <2>2. turn' \in TurnRecord /\ turn'.pc = "tail" /\ Placed(turn)'
    BY <1>1, <1>3, <2>1 DEF Placed
  <2> QED
    BY <1>2, <2>1, <2>2, TakesEvent
<1> QED
  BY <1>6, <1>7, <1>8

LEMMA RestartKept ==
  ASSUME SessionInv, ConstantsAssumption, UNCHANGED sessionLoad,
         NEW q \in Session!Proc, Session!Restart(q)
  PROVE  SessionInv'
<1> DEFINE n == sessionLoad.questions
           b == proc[turn.p].allowAll
           r1 == Session!Given(Session!NewProc, turn.k)
           r2 == [r1 EXCEPT !.allowAll = b]
<1>1. turn \in TurnRecord /\ Msgs \in Nat /\ AgentProcs \in Nat /\ n \in Nat
  BY OfSession, OfLoad
<1>2. InTurn /\ turn.pc = "restart"
  BY DEF Session!Restart, InTurn
<1>3. turn.k # 0 /\ turn.k \in Session!Msg /\ proc[turn.p] \in Record(n)
  BY <1>2, OfTurn
<1>4. /\ proc' = [proc EXCEPT ![q] = r2] /\ reg' = q /\ turn' = Session!Draining(q, turn.retry)
      /\ UNCHANGED <<grants, told>> /\ Session!Rest
  BY DEF Session!Restart
<1>5. r1 \in Record(n) /\ Sound(n, r1)
  <2>1. Session!NewProc \in Record(n) /\ Sound(n, Session!NewProc)
    BY <1>1, SoundNew
  <2>2. Session!NewProc.st = "running"
    BY DEF Session!NewProc
  <2> QED
    BY <1>3, <2>1, <2>2, SoundGiven
<1>6. b \in BOOLEAN
  BY <1>3 DEF Record
<1> HIDE DEF r1, b
<1>7. r2 \in Record(n) /\ Sound(n, r2)
  BY <1>5, <1>6, SoundAllowAll
<1>8. turn' \in TurnRecord /\ turn'.pc = "drain" /\ turn'.p = q /\ turn'.k # 0
  <2>1. turn.retry \in BOOLEAN /\ q \in 0 .. AgentProcs
    BY <1>1 DEF TurnRecord, Session!Proc
  <2> QED
    BY <1>1, <1>3, <1>4, <2>1, TurnsMade
<1>9. \A g : ProcsSound(n, g, proc)
  BY <1>2, NoneRegistered DEF SessionInv, TurnSound
<1> HIDE DEF r2
<1> QED
  BY <1>4, <1>7, <1>8, <1>9, StartedGoes

\* Every step keeps a session sound.
LEMMA SessionStep == ASSUME SessionInv, ConstantsAssumption, Session!Next PROVE SessionInv'
<1>1. UNCHANGED sessionLoad
  BY DEF Session!Next
<1>2. ASSUME NEW kind \in sessionLoad.kinds, Session!Receive(kind)
      PROVE  SessionInv'
  BY <1>1, <1>2, ProcsStay DEF Session!Receive
<1>3. ASSUME NEW v \in sessionLoad.supers, Session!SetSuper(v)
      PROVE  SessionInv'
  BY <1>1, <1>3, ProcsStay DEF Session!SetSuper
<1>4. CASE \/ Session!Cancel \/ Session!CancelSeen \/ Session!LookupFails \/ Session!Hint
           \/ Session!RestartFails \/ Session!InjectLooksUp
  <2>1. UNCHANGED <<reg, proc>>
    BY <1>4 DEF Session!Cancel, Session!CancelSeen, Session!LookupFails, Session!Hint,
                Session!RestartFails, Session!InjectLooksUp
  <2> QED
    BY <1>1, <1>4, <2>1, ProcsStay
<1>5. ASSUME NEW q \in Session!Proc,
             Session!LookupStarts(q) \/ Session!SendRestarts(q) \/ Session!Restart(q)
      PROVE  SessionInv'
  BY <1>1, <1>5, BeginKept, InputKept, RestartKept
<1>6. CASE Session!TurnStep
  <2>1. ASSUME \/ Session!Lookup \/ Session!AnswerQuestion \/ Session!Approve \/ Session!ApproveStale
               \/ Session!ApproveFails \/ Session!Quiesce \/ Session!Quiet \/ Session!Discard
               \/ Session!Send \/ Session!SendFails \/ Session!ByTheWay
        PROVE  SessionInv'
    BY <1>1, <2>1, BeginKept, AnswerKept, InputKept, ByTheWayKept
  <2>2. ASSUME \/ Session!TakeText \/ Session!TakeAllowed \/ Session!TakeRequest
               \/ Session!TakeQuestions \/ Session!TakeDone \/ Session!TakeError
               \/ Session!TakeRefused \/ Session!ChannelClosed \/ Session!NoSignal
               \/ Session!TailEvent \/ Session!TailError \/ Session!TailEnds
        PROVE  SessionInv'
    BY <1>1, <2>2, DrainKept, EndsKept
  <2> QED
    BY <1>4, <1>5, <1>6, <2>1, <2>2 DEF Session!TurnStep
<1>7. ASSUME NEW p \in Session!Proc, Session!Process(p)
      PROVE  SessionInv'
  BY <1>1, <1>7, ProcessKept
<1>8. CASE Session!InjectSends
  BY <1>1, <1>8, ByTheWayKept
<1> QED
  BY <1>2, <1>3, <1>4, <1>6, <1>7, <1>8 DEF Session!Next

LEMMA SessionStart == ASSUME ConstantsAssumption, Session!Init PROVE SessionInv
<1>1. Msgs \in Nat /\ AgentProcs \in Nat /\ sessionLoad \in Session!Load
  BY DEF ConstantsAssumption, Session!ConstantsAssumption, Session!Init
<1>2. sessionLoad.questions \in Nat /\ sessionLoad.supers \subseteq BOOLEAN
      /\ {sessionLoad.cancels, sessionLoad.injects, sessionLoad.exits} \subseteq Nat
  BY <1>1 DEF Session!Load
<1>3. ProcsSound(sessionLoad.questions, reg, proc)
  <2>1. /\ Session!NoProc \in Record(sessionLoad.questions)
        /\ Sound(sessionLoad.questions, Session!NoProc)
    BY <1>2, SoundNew
  <2>2. Session!NoProc.st = "none"
    BY DEF Session!NoProc, Session!NewProc
  <2> QED
    BY <2>1, <2>2 DEF Session!Init, ProcsSound
<1>4. Session!NoTurn \in TurnRecord /\ Session!NoTurn.pc = "idle"
  BY <1>1 DEF Session!NoTurn, TurnRecord, Session!TurnPc, Session!MsgKinds
<1>5. TurnSound
  BY <1>4 DEF Session!Init, TurnSound, Placed, InAnswer
<1>6. /\ reg \in 0 .. AgentProcs /\ super \in BOOLEAN /\ told \in BOOLEAN /\ next \in 0 .. Msgs
      /\ btw \in 0 .. AgentProcs
  <2>1. reg = 0 /\ super \in sessionLoad.supers /\ told = FALSE /\ next = 0 /\ btw = 0
    BY DEF Session!Init
  <2>2. super \in BOOLEAN
    BY <1>2, <2>1, Zenon
  <2>3. told \in BOOLEAN
    BY <2>1
  <2> QED
    BY <1>1, <2>1, <2>2, <2>3
<1>7. left \in Left /\ grants \in Grants
  BY <1>1, <1>2 DEF Session!Init, Left, Grants
<1> QED
  BY <1>3, <1>4, <1>5, <1>6, <1>7 DEF SessionInv, Session!Init, Session!TypeOK, TurnRecord, Left, Grants,
     ProcsSound, Record, Session!Proc

-----------------------------------------------------------------------------
(* What it is for *)

\* A turn gives its message to no process before it sends it, and once more only when
\* it may restart the process.
Before == {"lookup", "question", "approval", "quiesce", "discard", "send"}
GivesSound(u) ==
  /\ u.gives \in 0 .. 2
  /\ u.retry => u.gives <= 1
  /\ u.pc = "restart" => u.gives <= 1 /\ (u.retry => u.gives = 0)
  /\ u.pc \in Before \/ u.then => u.gives = 0

LEMMA GivesStart == ASSUME Session!Init PROVE GivesSound(turn)
BY DEF Session!Init, Session!NoTurn, GivesSound, Before

\* What the steps make of the turn.
LEMMA GivesMade ==
  ASSUME turn \in TurnRecord, GivesSound(turn)
  PROVE  /\ GivesSound(Session!Idle)
         /\ \A pc \in {"drain", "leading", "tail"} :
              turn.pc # "idle" => GivesSound(Session!At(pc))
         /\ \A pc \in Before : turn.pc \in Before => GivesSound(Session!At(pc))
         /\ GivesSound(Session!Finished) /\ GivesSound(Session!Signal)
         /\ turn.retry => GivesSound(Session!Retrying)
         /\ \A p : \A retry \in BOOLEAN :
              turn.pc = "send" \/ (turn.pc = "restart" /\ retry = turn.retry)
                \/ (turn.pc = "lookup" /\ ~retry) => GivesSound(Session!Draining(p, retry))
<1> USE DEF TurnRecord, GivesSound, Before
<1>1. GivesSound(Session!Idle)
  BY DEF Session!Idle, Session!NoTurn
<1>2. ASSUME NEW pc, pc \in {"drain", "leading", "tail"} \/ (pc \in Before /\ turn.pc \in Before)
      PROVE  GivesSound(Session!At(pc))
  BY <1>2 DEF Session!At
<1>3. GivesSound(Session!Finished) /\ GivesSound(Session!Signal)
  BY <1>1 DEF Session!Finished, Session!Signal, Session!At
<1>4. turn.retry => GivesSound(Session!Retrying)
  BY DEF Session!Retrying, Session!At
<1>5. ASSUME NEW p, NEW retry \in BOOLEAN,
             turn.pc = "send" \/ (turn.pc = "restart" /\ retry = turn.retry)
                \/ (turn.pc = "lookup" /\ ~retry)
      PROVE  GivesSound(Session!Draining(p, retry))
  BY <1>5 DEF Session!Draining
<1> QED
  BY <1>1, <1>2, <1>3, <1>4, <1>5

LEMMA GivesStep ==
  ASSUME turn \in TurnRecord, GivesSound(turn), Session!Next
  PROVE  GivesSound(turn')
<1> USE DEF TurnRecord
<1>1. CASE UNCHANGED turn
  BY <1>1
<1>2. ASSUME NEW kind, Session!Receive(kind)
      PROVE  GivesSound(turn')
  BY <1>2 DEF Session!Receive, Session!NoTurn, GivesSound
<1>3. CASE turn' = Session!Idle
  BY <1>3, GivesMade
<1>4. CASE Session!Cancel
  BY <1>4 DEF Session!Cancel, GivesSound
<1>5. CASE Session!Lookup \/ \E q : Session!LookupStarts(q)
  <2> DEFINE pc == IF ~proc[reg].awaiting THEN "quiesce"
                   ELSE IF proc[reg].questions > 0 THEN "question" ELSE "approval"
  <2>1. turn.pc \in Before
        /\ ((\E q : turn' = [turn EXCEPT !.p = q, !.pc = "discard"])
              \/ turn' = [turn EXCEPT !.p = reg, !.pc = pc])
    BY <1>5, Zenon DEF Session!Lookup, Session!LookupStarts, Before
  <2>2. pc \in Before
    BY DEF Before
  <2> HIDE DEF pc
  <2> QED
    BY <2>1, <2>2 DEF GivesSound, Before
<1>6. CASE Session!AnswerQuestion \/ Session!Approve
  <2> DEFINE k == proc[turn.p].req
             then == super /\ turn.kind = "text"
  <2>1. turn.pc \in Before
        /\ \/ turn' = Session!Idle
           \/ turn' = [Session!At("drain") EXCEPT !.for = k, !.then = then]
           \/ turn' = [Session!At("drain") EXCEPT !.for = k]
    BY <1>6 DEF Session!AnswerQuestion, Session!Approve, Session!Answers, Before
  <2> HIDE DEF k, then
  <2> QED
    BY <1>3, <2>1 DEF GivesSound, Before, Session!At
<1>7. CASE Session!ApproveStale
  <2>1. turn.pc \in Before
        /\ (turn' = Session!Idle \/ turn' = [Session!At("restart") EXCEPT !.retry = TRUE])
    BY <1>7 DEF Session!ApproveStale, Session!Answers, Before
  <2>2. turn.gives = 0
    BY <2>1 DEF GivesSound
  <2>3. CASE turn' = [Session!At("restart") EXCEPT !.retry = TRUE]
    <3>1. turn'.gives = 0 /\ turn'.pc = "restart"
      BY <2>2, <2>3 DEF Session!At
    <3> QED
      BY <3>1 DEF GivesSound, Before
  <2> QED
    BY <1>3, <2>1, <2>3
<1>8. CASE Session!Quiet \/ Session!Discard
  <2>1. turn.pc \in Before /\ \E pc \in Before : turn' = Session!At(pc)
    BY <1>8 DEF Session!Quiet, Session!Discard, Before
  <2> QED
    BY <2>1, GivesMade
<1>9. CASE Session!Send \/ Session!ByTheWay \/ \E q : Session!SendRestarts(q) \/ Session!Restart(q)
  <2>1. CASE Session!Send \/ \E q : Session!SendRestarts(q)
    <3>1. turn.pc = "send" /\ \E p : turn' = Session!Draining(p, TRUE)
      BY <2>1 DEF Session!Send, Session!SendRestarts
    <3> QED
      BY <3>1, GivesMade
  <2>2. CASE Session!ByTheWay
    <3>1. turn.pc = "lookup" /\ (turn' = Session!Idle \/ \E p : turn' = Session!Draining(p, FALSE))
      BY <2>2 DEF Session!ByTheWay
    <3> QED
      BY <1>3, <3>1, GivesMade
  <2>3. CASE \E q : Session!Restart(q)
    <3>1. turn.pc = "restart" /\ \E p : turn' = Session!Draining(p, turn.retry)
      BY <2>3 DEF Session!Restart
    <3> QED
      BY <3>1, GivesMade
  <2> QED
    BY <1>9, <2>1, <2>2, <2>3
<1>10. CASE \/ turn' \in {Session!Finished, Session!Signal} \/ (turn.retry /\ turn' = Session!Retrying)
            \/ turn.pc # "idle" /\ turn' \in {Session!At("tail"), Session!At("leading")}
  BY <1>10, GivesMade
<1>11. ASSUME NEW p, Session!Process(p)
       PROVE  UNCHANGED turn
  BY <1>11 DEF Session!Process, Session!TakeInput, Session!Says, Session!Finishes, Session!SecondDone,
           Session!Exit, Session!Asks, Session!Fails, Session!ProcSteps
<1>12. ASSUME Session!TurnStep
       PROVE  GivesSound(turn')
  <2>1. CASE \/ Session!LookupFails \/ Session!Hint \/ Session!ApproveFails \/ Session!SendFails
             \/ Session!CancelSeen \/ Session!ChannelClosed \/ Session!RestartFails
    BY <1>3, <2>1 DEF Session!LookupFails, Session!Hint, Session!ApproveFails, Session!SendFails,
       Session!CancelSeen, Session!ChannelClosed, Session!RestartFails, Session!Dies
  <2>2. CASE Session!Quiesce \/ Session!TailEvent
    BY <1>1, <2>2 DEF Session!Quiesce, Session!TailEvent
  <2>3. CASE \/ Session!TakeText \/ Session!TakeAllowed \/ Session!TakeRequest
             \/ Session!TakeQuestions \/ Session!TakeDone \/ Session!TakeError
             \/ Session!TakeRefused \/ Session!NoSignal \/ Session!TailError \/ Session!TailEnds
    BY <1>3, <1>10, <2>3 DEF Session!TakeText, Session!TakeAllowed, Session!TakeRequest,
       Session!TakeQuestions, Session!TakeDone, Session!TakeError, Session!TakeRefused,
       Session!NoSignal, Session!TailError, Session!TailEnds, Session!Drains
  <2> QED
    BY <1>5, <1>6, <1>7, <1>8, <1>9, <1>12, <2>1, <2>2, <2>3 DEF Session!TurnStep
<1> QED
  BY <1>1, <1>2, <1>4, <1>11, <1>12 DEF Session!Next, Session!SetSuper, Session!InjectLooksUp,
     Session!InjectSends

\* A process that does not run has nothing to do, and one runs at most.
LEMMA SessionTwiceAtMost ==
  ASSUME SessionInv, GivesSound(turn) PROVE Session!TwiceAtMost
<1>1. ASSUME NEW k \in Session!Msg, NEW p \in Session!Proc, Session!Has(p, k)
      PROVE  reg = p
  <2>1. k # 0
    BY DEF Session!Msg
  <2>2. ~Stopped(proc[p])
    BY <1>1, <2>1 DEF Session!Has, Stopped
  <2> QED
    BY <2>2 DEF SessionInv, ProcsSound, Sound
<1> QED
  BY <1>1 DEF Session!TwiceAtMost, GivesSound

\* An answer that is given is to the request that was shown.
LEMMA SessionAnswers ==
  ASSUME SessionInv, ConstantsAssumption, Session!Next,
         turn.pc = "approval", ~super, grants' # grants
  PROVE  grants'.k = proc[turn.p].prompted
<1> DEFINE r == proc[turn.p]
<1>1. Session!Approve
  <2>1. \A p \in Session!Proc : ~Session!Process(p)
    BY DEF Session!Process, Session!TakeInput, Session!Says, Session!Finishes, Session!SecondDone,
           Session!Exit, Session!Asks, Session!Fails, Session!ProcSteps
  <2>2. ~Session!TakeAllowed
    BY DEF Session!TakeAllowed, Session!Drains
  <2> QED
    BY <2>1, <2>2 DEF Session!Next, Session!TurnStep, Session!Receive, Session!SetSuper, Session!Cancel,
      Session!InjectLooksUp, Session!InjectSends, Session!Lookup, Session!LookupFails,
      Session!AnswerQuestion, Session!Hint, Session!ApproveStale, Session!ApproveFails,
      Session!Quiesce, Session!Quiet, Session!Discard, Session!Send, Session!SendFails,
      Session!ByTheWay, Session!CancelSeen, Session!TakeText, Session!TakeRequest,
      Session!TakeQuestions, Session!TakeDone, Session!TakeError, Session!TakeRefused,
      Session!ChannelClosed, Session!NoSignal, Session!RestartFails, Session!TailEvent,
      Session!TailError, Session!TailEnds, Session!LookupStarts, Session!SendRestarts,
      Session!Restart, Session!Dies
<1>2. grants'.k = r.req /\ Session!Running(turn.p)
  BY <1>1 DEF Session!Approve, Session!Grant
<1>3. r.awaiting /\ r.questions = 0 /\ Sound(sessionLoad.questions, r) /\ r.st = "running"
  BY <1>2, OfTurn DEF SessionInv, TurnSound, InAnswer, InTurn, Session!Running
<1> QED
  BY <1>2, <1>3 DEF Sound, Asking

-----------------------------------------------------------------------------
(* A session that is left alone *)

\* What is left to show of a step: p is the process that may run after it.
LEMMA AloneKept ==
  ASSUME UNCHANGED sessionLoad, btw' = 0, AloneTurn(turn', next'), NEW p,
         \A q \in Session!Proc : q # p => proc'[q].st # "running",
         p \in Session!Proc /\ proc'[p].st = "running" => Held(turn', next', proc'[p]),
         InTurn' => turn'.p = p /\ Drained(turn', proc'[p])
  PROVE  AloneInv'
BY DEF AloneInv, LeftAlone

\* What is known before it.
LEMMA AloneGives ==
  ASSUME SessionInv, ConstantsAssumption, AloneInv, LeftAlone
  PROVE  /\ btw = 0 /\ AloneTurn(turn, next) /\ turn \in TurnRecord
         /\ turn.k \in Nat /\ turn.for \in Nat /\ next \in Nat
         /\ left.cancels = 0 /\ left.injects = 0
         /\ \A p \in Session!Proc : proc[p].st = "running" =>
              /\ p = reg /\ Held(turn, next, proc[p])
              /\ Asking(sessionLoad.questions, proc[p])
              /\ Drained(turn, proc[p])
              /\ InTurn => p = turn.p
         /\ InTurn => turn.p \in Session!Proc /\ Drained(turn, proc[turn.p])
<1>1. btw = 0 /\ AloneTurn(turn, next)
  BY DEF AloneInv
<1>2. turn \in TurnRecord /\ turn.k \in Nat /\ turn.for \in Nat /\ next \in Nat
  BY OfSession, OfLoad DEF TurnRecord
<1>3. left.cancels = 0 /\ left.injects = 0
  BY OfLoad DEF Left, LeftAlone
<1>4. InTurn => turn.p \in Session!Proc /\ Drained(turn, proc[turn.p])
  BY OfTurn DEF AloneInv
<1>5. ASSUME NEW p \in Session!Proc, proc[p].st = "running"
      PROVE  /\ p = reg /\ Held(turn, next, proc[p])
             /\ Asking(sessionLoad.questions, proc[p])
             /\ Drained(turn, proc[p])
             /\ InTurn => p = turn.p
  <2>1. p = reg /\ Asking(sessionLoad.questions, proc[p])
    BY <1>5, OfSession DEF Sound
  <2>2. Held(turn, next, proc[p]) /\ (InTurn => p = turn.p)
    BY <1>5 DEF AloneInv
  <2>3. ~InTurn => Drained(turn, proc[p])
    BY DEF InTurn, Drained, Draining
  <2> QED
    BY <1>4, <2>1, <2>2, <2>3
<1> QED
  BY <1>1, <1>2, <1>3, <1>4, <1>5

-----------------------------------------------------------------------------
(* Channels *)

LEMMA AimedTail ==
  ASSUME NEW u, NEW c \in Seq(EventIn), c # <<>>, Aimed(u, c)
  PROVE  Aimed(u, Tail(c))
<1> DEFINE d == Tail(c)
<1>1. /\ Len(c) \in Nat \ {0} /\ Len(d) = Len(c) - 1
      /\ \A i \in 1 .. Len(d) : d[i] = c[i + 1] /\ i + 1 \in 1 .. Len(c)
  BY TailOf
<1> HIDE DEF d
<1>2. ASSUME NEW i \in 1 .. Len(d)
      PROVE  /\ d[i].t # "done" \/ u.saw \/ ~u.retry => d[i].k = u.for
             /\ d[i].k = u.for => \A j \in i .. Len(d) : d[j].k = u.for
             /\ d[i].k = u.for /\ d[i].t = "done" => \A j \in i .. Len(d) : d[j].t = "done"
  <2>1. \A j \in i .. Len(d) : d[j] = c[j + 1] /\ j + 1 \in i + 1 .. Len(c)
    BY <1>1
  <2>2. d[i] = c[i + 1] /\ i + 1 \in 1 .. Len(c)
    BY <1>1
  <2>3. /\ c[i + 1].t # "done" \/ u.saw \/ ~u.retry => c[i + 1].k = u.for
        /\ c[i + 1].k = u.for => \A j \in i + 1 .. Len(c) : c[j].k = u.for
        /\ c[i + 1].k = u.for /\ c[i + 1].t = "done" => \A j \in i + 1 .. Len(c) : c[j].t = "done"
    BY <2>2 DEF Aimed
  <2> QED
    BY <2>1, <2>2, <2>3
<1> QED
  BY <1>2 DEF Aimed, d

\* An event about the input of the turn is added, after whose done only dones come.
LEMMA AimedAppend ==
  ASSUME NEW u, NEW c \in Seq(EventIn), Aimed(u, c), NEW e \in EventIn, e.k = u.for,
         \A i \in 1 .. Len(c) : c[i].k = u.for /\ c[i].t = "done" => e.t = "done"
  PROVE  Aimed(u, Append(c, e))
<1> DEFINE d == Append(c, e)
<1>1. /\ Len(c) \in Nat /\ Len(d) = Len(c) + 1 /\ d[Len(c) + 1] = e
      /\ \A i \in 1 .. Len(c) : d[i] = c[i]
  BY AppendOf
<1> HIDE DEF d
<1>2. ASSUME NEW i \in 1 .. Len(d)
      PROVE  /\ d[i].t # "done" \/ u.saw \/ ~u.retry => d[i].k = u.for
             /\ d[i].k = u.for => \A j \in i .. Len(d) : d[j].k = u.for
             /\ d[i].k = u.for /\ d[i].t = "done" => \A j \in i .. Len(d) : d[j].t = "done"
  <2>1. CASE i \in 1 .. Len(c)
    <3>1. d[i] = c[i] /\ \A j \in i .. Len(d) : j = Len(c) + 1 \/ j \in i .. Len(c)
      BY <1>1, <2>1
    <3>2. \A j \in i .. Len(c) : d[j] = c[j]
      BY <1>1, <2>1
    <3> QED
      BY <1>1, <2>1, <3>1, <3>2 DEF Aimed
  <2>2. CASE i = Len(c) + 1
    <3>1. \A j \in i .. Len(d) : j = i
      BY <1>1, <2>2
    <3> QED
      BY <1>1, <2>2, <3>1
  <2> QED
    BY <1>1, <2>1, <2>2
<1> QED
  BY <1>2 DEF Aimed, d

\* The second done of an input before is added, before anything about the turn's own.
LEMMA AimedLate ==
  ASSUME NEW u, NEW c \in Seq(EventIn), Aimed(u, c), NEW e \in EventIn, e.t = "done",
         ~u.saw, u.retry, \A i \in 1 .. Len(c) : c[i].k # u.for, e.k # u.for
  PROVE  Aimed(u, Append(c, e))
<1> DEFINE d == Append(c, e)
<1>1. /\ Len(c) \in Nat /\ Len(d) = Len(c) + 1 /\ d[Len(c) + 1] = e
      /\ \A i \in 1 .. Len(c) : d[i] = c[i]
  BY AppendOf
<1> HIDE DEF d
<1>2. ASSUME NEW i \in 1 .. Len(d)
      PROVE  d[i].k # u.for /\ d[i].t = "done"
  <2>1. CASE i \in 1 .. Len(c)
    BY <1>1, <2>1 DEF Aimed
  <2>2. CASE i = Len(c) + 1
    BY <1>1, <2>2
  <2> QED
    BY <1>1, <2>1, <2>2
<1> QED
  BY <1>2 DEF Aimed, d

\* What holds of all events of a channel, when one is added or taken.
LEMMA NumbersAppend ==
  ASSUME NEW m, NEW c \in Seq(EventIn), NEW e \in EventIn, e.k <= m,
         \A i \in 1 .. Len(c) : c[i].k <= m
  PROVE  \A i \in 1 .. Len(Append(c, e)) : Append(c, e)[i].k <= m
<1> DEFINE d == Append(c, e)
<1>1. /\ Len(c) \in Nat /\ Len(d) = Len(c) + 1 /\ d[Len(c) + 1] = e
      /\ \A i \in 1 .. Len(c) : d[i] = c[i]
  BY AppendOf
<1> HIDE DEF d
<1>2. \A i \in 1 .. Len(d) : i = Len(c) + 1 \/ i \in 1 .. Len(c)
  BY <1>1
<1>3. \A i \in 1 .. Len(d) : d[i].k <= m
  BY <1>1, <1>2
<1> QED
  BY <1>3 DEF d

LEMMA CalmTail ==
  ASSUME NEW n, NEW r \in Record(n), r.chan # <<>>, NEW m
  PROVE  LET r2 == [r EXCEPT !.chan = Tail(@)] IN
           /\ Numbers(m, r) => Numbers(m, r2)
           /\ Calm(r) => Calm(r2)
           /\ Waits(r) => Waits(r2)
<1> DEFINE d == Tail(r.chan)
<1>1. \A i \in 1 .. Len(d) : d[i] = r.chan[i + 1] /\ i + 1 \in 1 .. Len(r.chan)
  BY TailOf DEF Record
<1> HIDE DEF d
<1>2. LET r2 == [r EXCEPT !.chan = d] IN
        r2.chan = d /\ r2.cur = r.cur /\ r2.tail = r.tail /\ r2.todo = r.todo
        /\ r2.awaiting = r.awaiting
  BY DEF Record
<1> DEFINE r3 == [r EXCEPT !.chan = d]
<1> HIDE DEF r3
<1>3. r3.chan = d /\ r3.cur = r.cur /\ r3.tail = r.tail /\ r3.todo = r.todo
        /\ r3.awaiting = r.awaiting
  BY <1>2 DEF r3
<1>4. /\ Numbers(m, r) => Numbers(m, r3)
      /\ Calm(r) => Calm(r3)
      /\ Waits(r) => Waits(r3)
  BY <1>1, <1>3 DEF Numbers, Calm, Waits
<1> QED
  BY <1>4 DEF r3, d

-----------------------------------------------------------------------------
(* A process does something in a session that is left alone *)

LEMMA AloneProc ==
  ASSUME SessionInv, ConstantsAssumption, AloneInv, LeftAlone,
         UNCHANGED <<sessionLoad, turn, next, btw>>,
         NEW p \in Session!Proc, proc[p].st = "running", NEW r2,
         proc' = [proc EXCEPT ![p] = r2],
         r2.st = "running" => Held(turn, next, r2), Drained(turn, r2)
  PROVE  AloneInv'
<1>1. /\ btw = 0 /\ AloneTurn(turn, next) /\ (InTurn => p = turn.p)
      /\ \A q \in Session!Proc : proc[q].st = "running" => q = p
  BY AloneGives
<1>2. proc'[p] = r2 /\ \A q \in Session!Proc : q # p => proc'[q] = proc[q]
  BY DEF SessionInv, ProcsSound
<1>3. InTurn' <=> InTurn
  BY DEF InTurn
<1> QED
  BY <1>1, <1>2, <1>3, AloneKept

\* A process that works is drained for its input.
LEMMA AtWorkIs ==
  ASSUME SessionInv, ConstantsAssumption, AloneInv, LeftAlone,
         NEW p \in Session!Proc, Session!AtWork(p)
  PROVE  LET r == proc[p] IN
           /\ turn.pc \in Draining /\ UpTo(turn, next) = turn.for /\ turn.for # 0
           /\ r.cur = turn.for /\ r.todo = <<>> /\ ~r.awaiting /\ r.tail = 0
           /\ r.st = "running" /\ Numbers(turn.for, r) /\ Aimed(turn, r.chan)
           /\ \A i \in 1 .. Len(r.chan) : ~(r.chan[i].k = turn.for /\ r.chan[i].t = "done")
           /\ ~(turn.pc = "leading" /\ ~turn.retry)
<1> DEFINE r == proc[p]
<1>1. r.st = "running" /\ r.cur # 0 /\ r.req = 0
  BY DEF Session!AtWork, Session!Running
<1>2. /\ p = reg /\ Held(turn, next, r) /\ Asking(sessionLoad.questions, r) /\ Drained(turn, r)
      /\ turn \in TurnRecord /\ AloneTurn(turn, next) /\ turn.for \in Nat
  BY <1>1, AloneGives
<1>3. ~r.awaiting /\ r.tail = 0
  BY <1>1, <1>2 DEF Asking
<1> HIDE DEF r
<1>4. turn.pc \notin {"idle", "lookup", "question", "approval", "quiesce", "discard", "send", "tail"}
  BY <1>1, <1>2, <1>3 DEF Held, Drained, Calm, Waits
<1>5. turn.pc # "restart"
  BY <1>2 DEF SessionInv, TurnSound, Session!Proc
<1>6. turn.pc \in Draining
  BY <1>2, <1>4, <1>5 DEF TurnRecord, Session!TurnPc, Draining
<1>7. UpTo(turn, next) = turn.for /\ turn.for # 0
  BY <1>2, <1>4, <1>6 DEF UpTo, Draining, Beginning, AloneTurn
<1>8. Aimed(turn, r.chan) /\ Works(turn, r)
  BY <1>2, <1>6 DEF Drained
<1>9. /\ r.cur = turn.for /\ r.todo = <<>>
      /\ \A i \in 1 .. Len(r.chan) : ~(r.chan[i].k = turn.for /\ r.chan[i].t = "done")
      /\ ~(turn.pc = "leading" /\ ~turn.retry)
  BY <1>1, <1>3, <1>8 DEF Works
<1>10. Numbers(turn.for, r)
  BY <1>2, <1>7 DEF Held
<1> QED
  BY <1>1, <1>3, <1>6, <1>7, <1>8, <1>9, <1>10 DEF r

\* It sends an event about the input, and may have done it then.
LEMMA EmitsAlone ==
  ASSUME SessionInv, ConstantsAssumption, AloneInv, LeftAlone,
         NEW p \in Session!Proc, Session!AtWork(p),
         NEW t \in {"text", "approval", "question", "done", "error", "refused"},
         NEW r2, r2.chan = Append(proc[p].chan, [t |-> t, k |-> proc[p].cur]),
         r2.st = "running", r2.todo = proc[p].todo, r2.awaiting = proc[p].awaiting,
         \/ r2.cur = proc[p].cur /\ t # "done" /\ r2.tail = proc[p].tail
         \/ r2.cur = 0 /\ r2.tail \in {0, proc[p].cur}
  PROVE  Held(turn, next, r2) /\ Drained(turn, r2)
<1> DEFINE r == proc[p]
           c == r.chan
           e == [t |-> t, k |-> r.cur]
<1>1. /\ turn.pc \in Draining /\ UpTo(turn, next) = turn.for /\ turn.for # 0
      /\ r.cur = turn.for /\ r.todo = <<>> /\ ~r.awaiting /\ r.tail = 0
      /\ r.st = "running" /\ Numbers(turn.for, r) /\ Aimed(turn, r.chan)
      /\ \A i \in 1 .. Len(r.chan) : ~(r.chan[i].k = turn.for /\ r.chan[i].t = "done")
      /\ ~(turn.pc = "leading" /\ ~turn.retry)
  BY AtWorkIs
<1>2. c \in Seq(EventIn) /\ r.cur \in 0 .. Msgs /\ turn.for \in Nat
  BY OfSession, AloneGives DEF Record, EventIn
<1>3. e \in EventIn /\ e.k = turn.for /\ e.t = t
  BY <1>1, <1>2 DEF EventIn, Session!Event, Session!Msg
<1>4. Aimed(turn, Append(c, e))
  BY <1>1, <1>2, <1>3, AimedAppend
<1>5. \A i \in 1 .. Len(Append(c, e)) : Append(c, e)[i].k <= turn.for
  BY <1>1, <1>2, <1>3, NumbersAppend DEF Numbers
<1>6. \A i \in 1 .. Len(Append(c, e)) : Append(c, e)[i].k = turn.for /\ Append(c, e)[i].t = "done"
        => t = "done"
  <2> DEFINE d == Append(c, e)
  <2>1. /\ Len(c) \in Nat /\ Len(d) = Len(c) + 1 /\ d[Len(c) + 1] = e
        /\ \A i \in 1 .. Len(c) : d[i] = c[i]
    BY <1>2, <1>3, AppendOf
  <2> HIDE DEF d
  <2>2. \A i \in 1 .. Len(d) : i = Len(c) + 1 \/ i \in 1 .. Len(c)
    BY <2>1
  <2>3. \A i \in 1 .. Len(d) : d[i].k = turn.for /\ d[i].t = "done" => t = "done"
    BY <1>1, <1>3, <2>1, <2>2
  <2> QED
    BY <2>3 DEF d
<1>7. r2.chan = Append(c, e) /\ r2.todo = <<>> /\ ~r2.awaiting
  BY <1>1
<1>8. r2.cur \in {0, turn.for} /\ r2.tail \in {0, turn.for} /\ (t = "done" => r2.cur = 0)
      /\ (r2.cur # 0 => r2.cur = turn.for)
  BY <1>1
<1> HIDE DEF r, e, c
<1>9. Held(turn, next, r2)
  BY <1>1, <1>2, <1>5, <1>7, <1>8 DEF Held, Numbers, Draining
<1>10. Works(turn, r2)
  BY <1>1, <1>6, <1>7, <1>8 DEF Works
<1>11. Drained(turn, r2)
  BY <1>1, <1>4, <1>7, <1>10 DEF Drained, Draining
<1> QED
  BY <1>9, <1>11

\* A second done comes, or comes no more.
LEMMA SecondDoneAlone ==
  ASSUME SessionInv, ConstantsAssumption, AloneInv, LeftAlone,
         NEW p \in Session!Proc, proc[p].st = "running", proc[p].tail # 0, NEW r2,
         r2.chan = proc[p].chan \/ r2.chan = Append(proc[p].chan, [t |-> "done", k |-> proc[p].tail]),
         r2.st = "running", r2.todo = proc[p].todo, r2.awaiting = proc[p].awaiting,
         r2.cur = proc[p].cur, r2.tail = 0
  PROVE  Held(turn, next, r2) /\ Drained(turn, r2)
<1> DEFINE r == proc[p]
           c == r.chan
           e == [t |-> "done", k |-> r.tail]
           for == turn.for
<1>1. /\ p = reg /\ Held(turn, next, r) /\ Asking(sessionLoad.questions, r) /\ Drained(turn, r)
      /\ turn \in TurnRecord /\ AloneTurn(turn, next) /\ for \in Nat
  BY AloneGives
<1>2. c \in Seq(EventIn) /\ r.cur \in 0 .. Msgs /\ r.req \in 0 .. Msgs /\ r.tail \in 0 .. Msgs
  BY OfSession DEF Record, EventIn
<1>3. r.cur = 0 /\ r.req = 0 /\ ~r.awaiting
  BY <1>1, <1>2 DEF Asking
<1>4. e \in EventIn /\ e.k = r.tail /\ e.t = "done"
  BY <1>2 DEF EventIn, Session!Event, Session!Msg
<1>5. /\ Len(c) \in Nat
      /\ \A i \in 1 .. Len(r2.chan) : \/ i \in 1 .. Len(c) /\ r2.chan[i] = c[i]
                                      \/ r2.chan = Append(c, e) /\ r2.chan[i] = e
  <2>1. CASE r2.chan = c
    BY <1>2, <2>1
  <2>2. CASE r2.chan = Append(c, e)
    <3> DEFINE d == Append(c, e)
    <3>1. /\ Len(c) \in Nat /\ Len(d) = Len(c) + 1 /\ d[Len(c) + 1] = e
          /\ \A i \in 1 .. Len(c) : d[i] = c[i]
      BY <1>2, <1>4, AppendOf
    <3> HIDE DEF d
    <3>2. r2.chan = d
      BY <2>2 DEF d
    <3>3. \A i \in 1 .. Len(d) : i = Len(c) + 1 \/ i \in 1 .. Len(c)
      BY <3>1
    <3> QED
      BY <2>2, <3>1, <3>2, <3>3
  <2> QED
    BY <2>1, <2>2
<1>6. r2.cur = 0 /\ r2.todo = r.todo /\ ~r2.awaiting
  BY <1>3
<1>7. Numbers(UpTo(turn, next), r2)
  <2>1. Numbers(UpTo(turn, next), r) /\ r.tail <= UpTo(turn, next)
    BY <1>1 DEF Held, Numbers
  <2>2. UpTo(turn, next) \in Nat
    BY AloneGives DEF UpTo, AloneTurn, Beginning
  <2> QED
    BY <1>4, <1>5, <1>6, <2>1, <2>2 DEF Numbers
<1>8. Calm(r) => Calm(r2)
  BY <1>4, <1>5, <1>6 DEF Calm
<1>9. ~Waits(r)
  BY <1>3 DEF Waits
<1>10. ASSUME turn.pc \in Draining
       PROVE  Aimed(turn, r2.chan) /\ Works(turn, r2)
  <2>1. Aimed(turn, c) /\ Works(turn, r)
    BY <1>1, <1>10 DEF Drained
  <2>2. for # 0 /\ for \in Nat
    BY <1>1, <1>10 DEF AloneTurn, Draining
  <2>3. CASE r.todo = <<for>> /\ ~turn.saw /\ r.tail # for /\ (~turn.retry => r.tail = 0)
    <3>1. \A i \in 1 .. Len(c) : c[i].k # for
      <4>1. r.todo # <<>>
        BY <2>3
      <4> QED
        BY <2>1, <4>1 DEF Works
    <3>2. Aimed(turn, Append(c, e))
      BY <1>2, <1>4, <2>1, <2>3, <3>1, AimedLate
    <3>3. \A i \in 1 .. Len(r2.chan) : r2.chan[i].k # for
      BY <1>4, <1>5, <2>3, <3>1
    <3>4. turn.retry
      BY <2>3
    <3> HIDE DEF r, c, e, for
    <3>5. Works(turn, r2)
      BY <1>3, <1>6, <2>2, <2>3, <3>3, <3>4 DEF Works, for
    <3> QED
      BY <2>1, <3>2, <3>5 DEF c, e, r
  <2>4. CASE r.todo = <<>> /\ r.tail = for
    <3>1. Aimed(turn, Append(c, e))
      BY <1>2, <1>4, <2>1, <2>4, AimedAppend
    <3> HIDE DEF r, c, e, for
    <3>2. Works(turn, r2)
      BY <1>6, <2>4 DEF Works, for
    <3> QED
      BY <2>1, <3>1, <3>2 DEF c, e, r
  <2>5. \/ r.todo = <<for>> /\ ~turn.saw /\ r.tail # for /\ (~turn.retry => r.tail = 0)
        \/ r.todo = <<>> /\ r.tail = for
    BY <1>3, <2>1, <2>2 DEF Works
  <2> QED
    BY <2>3, <2>4, <2>5
<1> HIDE DEF r, c, e, for
<1> QED
  BY <1>1, <1>7, <1>8, <1>9, <1>10 DEF Held, Drained

\* A process ends.
LEMMA ExitAlone ==
  ASSUME SessionInv, ConstantsAssumption, AloneInv, LeftAlone,
         NEW p \in Session!Proc, proc[p].st = "running", NEW r2,
         r2.chan = proc[p].chan, r2.st # "running", r2.todo = <<>>, r2.cur = 0
  PROVE  Drained(turn, r2)
BY AloneGives DEF Drained, Works, Calm

\* A process takes its input.
LEMMA TakeInputAlone ==
  ASSUME SessionInv, ConstantsAssumption, AloneInv, LeftAlone,
         NEW p \in Session!Proc, proc[p].st = "running", proc[p].cur = 0, proc[p].todo # <<>>,
         NEW r2, r2.st = "running", r2.chan = proc[p].chan, r2.awaiting = proc[p].awaiting,
         r2.cur = Head(proc[p].todo), r2.todo = Tail(proc[p].todo), r2.tail = 0
  PROVE  Held(turn, next, r2) /\ Drained(turn, r2)
<1> DEFINE r == proc[p]
<1>1. /\ p = reg /\ Held(turn, next, r) /\ Asking(sessionLoad.questions, r) /\ Drained(turn, r)
      /\ turn \in TurnRecord /\ AloneTurn(turn, next) /\ turn.for \in Nat
  BY AloneGives
<1>2. r.req \in 0 .. Msgs /\ r.tail \in 0 .. Msgs
  BY OfSession DEF Record
<1>3. ~r.awaiting
  BY <1>1, <1>2 DEF Asking
<1> HIDE DEF r
<1>4. turn.pc \notin {"idle", "lookup", "question", "approval", "quiesce", "discard", "send", "tail"}
  BY <1>1, <1>3 DEF Held, Drained, Calm, Waits, r
<1>5. turn.pc # "restart"
  BY <1>1 DEF SessionInv, TurnSound, Session!Proc
<1>6. turn.pc \in Draining
  BY <1>1, <1>4, <1>5 DEF TurnRecord, Session!TurnPc, Draining
<1>7. UpTo(turn, next) = turn.for /\ turn.for # 0
  BY <1>1, <1>4, <1>6 DEF UpTo, Draining, Beginning, AloneTurn
<1>8. Aimed(turn, r.chan) /\ Works(turn, r)
  BY <1>1, <1>6 DEF Drained
<1>9. r.todo = <<turn.for>> /\ r.st = "running"
  BY <1>3, <1>7, <1>8 DEF Works, r
<1>10. \A i \in 1 .. Len(r.chan) : r.chan[i].k # turn.for
  <2>1. r.todo # <<>>
    BY DEF r
  <2> QED
    BY <1>8, <2>1 DEF Works
<1>11. r2.cur = turn.for /\ r2.todo = <<>>
  BY <1>9 DEF r
<1>12. ~(turn.pc = "leading" /\ ~turn.retry)
  BY <1>8, <1>9 DEF Works
<1>13. r2.chan = r.chan /\ ~r2.awaiting
  BY <1>3 DEF r
<1>14. Held(turn, next, r2)
  BY <1>1, <1>6, <1>7, <1>11, <1>13 DEF Held, Numbers, Draining
<1> QED
  BY <1>6, <1>8, <1>10, <1>11, <1>12, <1>13, <1>14 DEF Drained, Works, Draining

LEMMA AloneProcess ==
  ASSUME SessionInv, ConstantsAssumption, AloneInv, LeftAlone, UNCHANGED sessionLoad,
         NEW p \in Session!Proc, Session!Process(p)
  PROVE  AloneInv'
<1> DEFINE n == sessionLoad.questions
           r == proc[p]
<1>1. r \in Record(n) /\ proc \in [Session!Proc -> Record(n)]
  BY OfSession, SMTT(60) DEF SessionInv, ProcsSound
<1>2. r.st = "running" /\ UNCHANGED <<turn, next, btw>>
  BY DEF Session!Process, Session!TakeInput, Session!Says, Session!Finishes, Session!SecondDone,
         Session!Exit, Session!Asks, Session!Fails, Session!AtWork, Session!Running,
         Session!ProcSteps
<1>3. ASSUME NEW r2, proc' = [proc EXCEPT ![p] = r2],
             r2.st = "running" => Held(turn, next, r2), Drained(turn, r2)
      PROVE  AloneInv'
  BY <1>2, <1>3, AloneProc
<1>4. ASSUME Session!AtWork(p),
             NEW t \in {"text", "approval", "question", "done", "error", "refused"}, NEW new,
             new \in Record(n), Session!Emits(p, t, r.cur, new), new.chan = r.chan,
             new.st = r.st, new.todo = r.todo, new.awaiting = r.awaiting,
             \/ new.cur = r.cur /\ t # "done" /\ new.tail = r.tail
             \/ new.cur = 0 /\ new.tail \in {0, r.cur}
      PROVE  AloneInv'
  <2> DEFINE r2 == [new EXCEPT !.chan = Append(@, [t |-> t, k |-> r.cur])]
  <2>1. proc' = [proc EXCEPT ![p] = r2]
    BY <1>4 DEF Session!Emits
  <2>2. /\ r2.chan = Append(r.chan, [t |-> t, k |-> r.cur]) /\ r2.st = new.st
        /\ r2.todo = new.todo /\ r2.awaiting = new.awaiting /\ r2.cur = new.cur
        /\ r2.tail = new.tail
    BY <1>4, SMTT(60) DEF Record
  <2> HIDE DEF r2
  <2>3. Held(turn, next, r2) /\ Drained(turn, r2)
    BY <1>2, <1>4, <2>2, EmitsAlone
  <2> QED
    BY <1>3, <2>1, <2>3
<1>5. CASE Session!TakeInput(p)
  <2> DEFINE r2 == [r EXCEPT !.cur = Head(r.todo), !.todo = Tail(@), !.said = FALSE,
                             !.asked = FALSE, !.tail = 0]
  <2>1. r.cur = 0 /\ r.todo # <<>> /\ proc' = [proc EXCEPT ![p] = r2]
    BY <1>1, <1>5 DEF Session!TakeInput
  <2>2. /\ r2.st = r.st /\ r2.chan = r.chan /\ r2.awaiting = r.awaiting
        /\ r2.cur = Head(r.todo) /\ r2.todo = Tail(r.todo) /\ r2.tail = 0
    BY <1>1 DEF Record
  <2> HIDE DEF r2
  <2>3. Held(turn, next, r2) /\ Drained(turn, r2)
    BY <1>2, <2>1, <2>2, TakeInputAlone
  <2> QED
    BY <1>3, <2>1, <2>3
<1>6. CASE Session!Says(p)
  <2> DEFINE new == [r EXCEPT !.said = TRUE]
  <2>1. Session!AtWork(p) /\ Session!Emits(p, "text", r.cur, new)
    BY <1>6 DEF Session!Says
  <2>2. /\ new \in Record(n) /\ new.chan = r.chan /\ new.st = r.st /\ new.todo = r.todo
        /\ new.awaiting = r.awaiting /\ new.cur = r.cur /\ new.tail = r.tail
    BY <1>1 DEF Record
  <2> HIDE DEF new, r
  <2> QED
    BY <1>4, <2>1, <2>2
<1>7. ASSUME NEW t \in Request, Session!Asks(p, t)
      PROVE  AloneInv'
  <2> DEFINE new == [r EXCEPT !.asked = TRUE, !.req = r.cur]
  <2>1. Session!AtWork(p) /\ Session!Emits(p, t, r.cur, new)
    BY <1>7 DEF Session!Asks
  <2>2. /\ new \in Record(n) /\ new.chan = r.chan /\ new.st = r.st /\ new.todo = r.todo
        /\ new.awaiting = r.awaiting /\ new.cur = r.cur /\ new.tail = r.tail
    BY <1>1 DEF Record
  <2>3. t \in {"text", "approval", "question", "done", "error", "refused"} /\ t # "done"
    BY DEF Request
  <2> HIDE DEF new, r
  <2> QED
    BY <1>4, <2>1, <2>2, <2>3
<1>8. CASE Session!Finishes(p)
  <2> DEFINE new == [r EXCEPT !.cur = 0, !.tail = r.cur]
  <2>1. Session!AtWork(p) /\ Session!Emits(p, "done", r.cur, new)
    BY <1>8 DEF Session!Finishes
  <2>2. 0 \in 0 .. Msgs
    BY OfLoad
  <2>3. /\ new \in Record(n) /\ new.chan = r.chan /\ new.st = r.st /\ new.todo = r.todo
        /\ new.awaiting = r.awaiting /\ new.cur = 0 /\ new.tail = r.cur
    BY <1>1, <2>2 DEF Record
  <2> HIDE DEF new, r
  <2> QED
    BY <1>4, <2>1, <2>3
<1>9. ASSUME NEW t \in {"error", "refused"}, Session!Fails(p, t)
      PROVE  AloneInv'
  <2> DEFINE new == [r EXCEPT !.cur = 0]
  <2>1. Session!AtWork(p) /\ Session!Emits(p, t, r.cur, new)
    BY <1>9 DEF Session!Fails
  <2>2. 0 \in 0 .. Msgs
    BY OfLoad
  <2>3. /\ new \in Record(n) /\ new.chan = r.chan /\ new.st = r.st /\ new.todo = r.todo
        /\ new.awaiting = r.awaiting /\ new.cur = 0 /\ new.tail = r.tail
    BY <1>1, <2>2 DEF Record
  <2>4. r.tail = 0
    BY <2>1, AtWorkIs
  <2> HIDE DEF new, r
  <2> QED
    BY <1>4, <2>1, <2>3, <2>4
<1>10. CASE Session!SecondDone(p)
  <2> DEFINE new == [r EXCEPT !.tail = 0]
             e == [t |-> "done", k |-> r.tail]
             r2 == [new EXCEPT !.chan = Append(@, e)]
  <2>1. r.tail # 0 /\ (proc' = [proc EXCEPT ![p] = r2] \/ proc' = [proc EXCEPT ![p] = new])
    BY <1>1, <1>10 DEF Session!SecondDone, Session!Emits
  <2>2. /\ new.st = r.st /\ new.chan = r.chan /\ new.awaiting = r.awaiting
        /\ new.cur = r.cur /\ new.todo = r.todo /\ new.tail = 0
    BY <1>1, OfLoad DEF Record
  <2>3. /\ r2.st = r.st /\ r2.chan = Append(r.chan, e) /\ r2.awaiting = r.awaiting
        /\ r2.cur = r.cur /\ r2.todo = r.todo /\ r2.tail = 0
    BY <1>1, OfLoad DEF Record
  <2> HIDE DEF new, r2
  <2>4. Held(turn, next, new) /\ Drained(turn, new)
    BY <1>2, <2>1, <2>2, SecondDoneAlone
  <2>5. Held(turn, next, r2) /\ Drained(turn, r2)
    BY <1>2, <2>1, <2>3, SecondDoneAlone
  <2> QED
    BY <1>3, <2>1, <2>4, <2>5
<1>11. CASE Session!Exit(p)
  <2> DEFINE r2 == Session!Ending(r, "exited")
  <2>1. proc' = [proc EXCEPT ![p] = r2]
    BY <1>1, <1>11 DEF Session!Exit
  <2>2. r2.chan = r.chan /\ r2.st # "running" /\ r2.todo = <<>> /\ r2.cur = 0
    BY DEF Session!Ending, Session!NewProc
  <2> HIDE DEF r2
  <2>3. Drained(turn, r2)
    BY <1>2, <2>2, ExitAlone
  <2> QED
    BY <1>3, <2>1, <2>2, <2>3
<1> QED
  BY <1>5, <1>6, <1>7, <1>8, <1>9, <1>10, <1>11 DEF Session!Process, Request

-----------------------------------------------------------------------------
(* A turn of a session that is left alone *)

\* What becomes of the turn.
LEMMA AtAlone ==
  ASSUME turn \in TurnRecord, Session!TurnPc # {}, NEW pc \in Session!TurnPc
  PROVE  LET u == Session!At(pc) IN
           /\ u.pc = pc /\ u.k = turn.k /\ u.kind = turn.kind /\ u.p = turn.p /\ u.off = turn.off
           /\ u.saw = turn.saw /\ u.retry = turn.retry /\ u.then = turn.then /\ u.for = turn.for
BY DEF Session!At, TurnRecord

LEMMA IdleAlone ==
  /\ Session!Idle.pc = "idle" /\ ~Session!Idle.off /\ Session!Idle.kind # "btw"
  /\ AloneTurn(Session!Idle, next) /\ \A r : Drained(Session!Idle, r)
BY DEF Session!Idle, Session!NoTurn, AloneTurn, Drained, Draining

LEMMA TurnsAlone ==
  ASSUME AloneTurn(turn, next), turn \in TurnRecord, turn.pc # "idle", next \in Nat
  PROVE  /\ \A pc \in {"quiesce", "discard", "send", "drain", "leading", "tail", "restart"} :
              AloneTurn(Session!At(pc), next)
         /\ AloneTurn(Session!Signal, next) /\ Session!Signal.pc = "drain" /\ Session!Signal.saw
         /\ Session!Signal.for = turn.for /\ Session!Signal.retry = turn.retry
         /\ AloneTurn(Session!Retrying, next) /\ Session!Retrying.pc = "restart"
         /\ AloneTurn(Session!Finished, next)
         /\ Session!Finished.pc \in {"idle", "quiesce"}
         /\ Session!Finished.pc = "quiesce" =>
              Session!Finished.p = turn.p /\ UpTo(Session!Finished, next) >= turn.for
         /\ UpTo(Session!Idle, next) = next /\ next >= turn.for
<1>1. "quiesce" \in Session!TurnPc /\ "drain" \in Session!TurnPc /\ "restart" \in Session!TurnPc
      /\ {"quiesce", "discard", "send", "drain", "leading", "tail", "restart"} \subseteq Session!TurnPc
  BY DEF Session!TurnPc
<1>2. \A pc \in {"quiesce", "discard", "send", "drain", "leading", "tail", "restart"} :
              AloneTurn(Session!At(pc), next)
  BY <1>1, AtAlone DEF AloneTurn
<1>3. /\ AloneTurn(Session!Signal, next) /\ Session!Signal.pc = "drain" /\ Session!Signal.saw
      /\ Session!Signal.for = turn.for /\ Session!Signal.retry = turn.retry
  <2> DEFINE u == Session!Signal
  <2>1. /\ u.pc = "drain" /\ u.k = turn.k /\ u.kind = turn.kind /\ u.off = turn.off
        /\ u.saw = TRUE /\ u.retry = turn.retry /\ u.then = turn.then /\ u.for = turn.for
    BY <1>1 DEF Session!Signal, Session!At, TurnRecord
  <2> HIDE DEF u
  <2>2. AloneTurn(u, next)
    BY <2>1 DEF AloneTurn
  <2> QED
    BY <2>1, <2>2 DEF u
<1>4. AloneTurn(Session!Retrying, next) /\ Session!Retrying.pc = "restart"
  <2> DEFINE u == Session!Retrying
  <2>1. /\ u.pc = "restart" /\ u.k = turn.k /\ u.kind = turn.kind /\ u.off = turn.off
        /\ u.then = turn.then /\ u.for = turn.for
    BY <1>1 DEF Session!Retrying, Session!At, TurnRecord
  <2> HIDE DEF u
  <2>2. AloneTurn(u, next)
    BY <2>1 DEF AloneTurn
  <2> QED
    BY <2>1, <2>2 DEF u
<1>5. /\ AloneTurn(Session!Finished, next)
      /\ Session!Finished.pc \in {"idle", "quiesce"}
      /\ Session!Finished.pc = "quiesce" =>
              Session!Finished.p = turn.p /\ UpTo(Session!Finished, next) >= turn.for
  <2>1. CASE turn.then
    <3> DEFINE u == [Session!At("quiesce") EXCEPT !.then = FALSE]
    <3>1. /\ u.pc = "quiesce" /\ u.k = turn.k /\ u.kind = turn.kind /\ u.off = turn.off
          /\ u.p = turn.p /\ u.then = FALSE /\ u.for = turn.for
      BY <1>1 DEF Session!At, TurnRecord
    <3>2. Session!Finished = u
      BY <2>1 DEF Session!Finished
    <3> HIDE DEF u
    <3>3. AloneTurn(u, next)
      BY <3>1 DEF AloneTurn
    <3>4. turn.for \in Nat /\ turn.k \in Nat /\ turn.for < turn.k
      BY <2>1 DEF AloneTurn
    <3>5. UpTo(u, next) >= turn.for
      BY <3>1, <3>4 DEF UpTo, Beginning
    <3> QED
      BY <3>1, <3>2, <3>3, <3>5
  <2>2. CASE ~turn.then
    BY <2>2, IdleAlone DEF Session!Finished
  <2> QED
    BY <2>1, <2>2
<1>6. UpTo(Session!Idle, next) = next
  BY IdleAlone DEF UpTo
<1>7. next >= turn.for
  BY DEF AloneTurn
<1> QED
  BY <1>2, <1>3, <1>4, <1>5, <1>6, <1>7

LEMMA NumbersMore ==
  ASSUME NEW n, NEW r \in Record(n), NEW m \in Nat, NEW l \in Nat, m <= l, Numbers(m, r), Msgs \in Nat
  PROVE  Numbers(l, r)
<1>1. r.chan \in Seq(Session!Event) /\ r.cur \in Nat /\ r.tail \in Nat
  BY DEF Record
<1>2. ASSUME NEW i \in 1 .. Len(r.chan)
      PROVE  r.chan[i].k \in Nat
  <2>1. r.chan[i] \in Session!Event
    BY <1>1
  <2> QED
    BY <2>1 DEF Session!Event, Session!Msg
<1> QED
  BY <1>1, <1>2 DEF Numbers

\* No process runs after the step.
LEMMA AloneOver ==
  ASSUME AloneInv, LeftAlone, UNCHANGED <<sessionLoad, next, btw>>,
         \A q \in Session!Proc : proc'[q].st # "running",
         AloneTurn(turn', next), turn'.pc \notin {"drain", "leading", "tail"}
  PROVE  AloneInv'
<1>1. Drained(turn', proc'[turn'.p]) /\ btw' = 0
  BY DEF AloneInv, Drained, Draining
<1> QED
  BY <1>1, AloneKept

\* The turn goes on, or ends; its process changes.
LEMMA AloneOn ==
  ASSUME SessionInv, ConstantsAssumption, AloneInv, LeftAlone, UNCHANGED <<sessionLoad, next, btw>>,
         InTurn, NEW r2, proc' = [proc EXCEPT ![turn.p] = r2],
         r2.st = proc[turn.p].st,
         r2.st = "running" => Held(turn', next, r2),
         AloneTurn(turn', next),
         InTurn' => turn'.p = turn.p /\ Drained(turn', r2)
  PROVE  AloneInv'
<1> DEFINE p == turn.p
<1>1. p \in Session!Proc /\ btw = 0 /\ \A q \in Session!Proc : proc[q].st = "running" => q = p
  BY AloneGives
<1>2. proc'[p] = r2 /\ \A q \in Session!Proc : q # p => proc'[q] = proc[q]
  BY <1>1 DEF SessionInv, ProcsSound
<1> HIDE DEF p
<1> QED
  BY <1>1, <1>2, AloneKept DEF p

\* A process starts, when none runs.
LEMMA AloneNew ==
  ASSUME AloneInv, LeftAlone, UNCHANGED <<sessionLoad, next, btw>>,
         NEW f, \A q \in Session!Proc : f[q].st # "running",
         NEW n, f \in [Session!Proc -> Record(n)],
         NEW q \in Session!Proc, NEW r2, proc' = [f EXCEPT ![q] = r2],
         r2.chan = <<>>, r2.cur = 0, r2.tail = 0,
         AloneTurn(turn', next), turn'.p = q, turn'.k \in Nat \ {0}, next \in Nat,
         \/ turn'.pc = "discard" /\ r2.todo = <<>>
         \/ turn'.pc = "drain" /\ turn'.for \in Nat \ {0} /\ r2.todo = <<turn'.for>> /\ ~turn'.saw
  PROVE  AloneInv'
<1>1. proc'[q] = r2 /\ \A o \in Session!Proc : o # q => proc'[o] = f[o]
  OBVIOUS
<1>2. btw' = 0
  BY DEF AloneInv
<1>3. Len(r2.chan) = 0
  OBVIOUS
<1>4. UpTo(turn', next) \in Nat
  BY DEF UpTo, Beginning
<1>5. Numbers(UpTo(turn', next), r2)
  BY <1>3, <1>4 DEF Numbers
<1>6. CASE turn'.pc = "discard" /\ r2.todo = <<>>
  <2>1. Held(turn', next, r2) /\ Drained(turn', r2)
    BY <1>3, <1>5, <1>6 DEF Held, Calm, Drained, Draining
  <2> QED
    BY <1>1, <1>2, <2>1, AloneKept
<1>7. CASE turn'.pc = "drain" /\ turn'.for \in Nat \ {0} /\ r2.todo = <<turn'.for>> /\ ~turn'.saw
  <2>1. Held(turn', next, r2)
    BY <1>5, <1>7 DEF Held
  <2>2. Drained(turn', r2)
    BY <1>3, <1>7 DEF Drained, Draining, Aimed, Works
  <2> QED
    BY <1>1, <1>2, <2>1, <2>2, AloneKept
<1> QED
  BY <1>6, <1>7

\* Messages, super mode, and what a session that is left alone does not see.
LEMMA AloneMessage ==
  ASSUME SessionInv, ConstantsAssumption, AloneInv, LeftAlone, UNCHANGED sessionLoad,
         \/ \E kind \in sessionLoad.kinds : Session!Receive(kind)
         \/ \E v \in sessionLoad.supers : Session!SetSuper(v)
         \/ Session!Cancel \/ Session!CancelSeen \/ Session!InjectLooksUp \/ Session!InjectSends
         \/ Session!ByTheWay
  PROVE  AloneInv'
<1>1. /\ btw = 0 /\ AloneTurn(turn, next) /\ next \in Nat /\ turn \in TurnRecord
      /\ left.cancels = 0 /\ left.injects = 0
  BY AloneGives
<1>2. ~Session!Cancel /\ ~Session!CancelSeen /\ ~Session!InjectLooksUp /\ ~Session!InjectSends
      /\ ~Session!ByTheWay
  <2>1. ~(left.cancels > 0) /\ ~(left.injects > 0) /\ ~turn.off /\ turn.kind # "btw"
    BY <1>1 DEF AloneTurn
  <2>2. ~Session!Cancel /\ ~Session!InjectLooksUp
    BY <2>1 DEF Session!Cancel, Session!InjectLooksUp
  <2>3. ~Session!CancelSeen /\ ~Session!InjectSends /\ ~Session!ByTheWay
    BY <1>1, <2>1, Zenon DEF Session!CancelSeen, Session!InjectSends, Session!ByTheWay
  <2> QED
    BY <2>2, <2>3
<1>3. ASSUME NEW v, Session!SetSuper(v)
      PROVE  AloneInv'
  BY <1>3 DEF Session!SetSuper, AloneInv, LeftAlone, InTurn
<1>4. ASSUME NEW kind \in sessionLoad.kinds, Session!Receive(kind)
      PROVE  AloneInv'
  <2>1. turn.pc = "idle" /\ next' = next + 1 /\ UNCHANGED <<reg, proc, btw>>
    BY <1>4 DEF Session!Receive
  <2>2. turn' = [Session!NoTurn EXCEPT !.pc = "lookup", !.k = next + 1, !.kind = kind, !.for = next + 1]
    BY <1>4 DEF Session!Receive
  <2>3. /\ turn'.pc = "lookup" /\ turn'.k = next + 1 /\ turn'.kind = kind /\ turn'.for = next + 1
        /\ turn'.off = FALSE /\ turn'.saw = FALSE /\ turn'.retry = FALSE /\ turn'.then = FALSE
    BY <2>2 DEF Session!NoTurn
  <2>4. kind # "btw"
    BY DEF LeftAlone
  <2>5. AloneTurn(turn', next')
    BY <1>1, <2>1, <2>3, <2>4 DEF AloneTurn
  <2>6. UpTo(turn', next') = next /\ UpTo(turn, next) = next
    BY <1>1, <2>1, <2>3 DEF UpTo, Beginning
  <2>7. ASSUME NEW p \in Session!Proc, proc[p].st = "running"
        PROVE  p = reg /\ Held(turn', next', proc[p])
    <3>1. p = reg /\ Held(turn, next, proc[p])
      BY <2>7, AloneGives
    <3> QED
      BY <2>1, <2>3, <2>6, <3>1 DEF Held
  <2>8. ~InTurn'
    BY <2>3 DEF InTurn
  <2> QED
    BY <1>1, <2>1, <2>5, <2>7, <2>8, AloneKept
<1> QED
  BY <1>2, <1>3, <1>4

-----------------------------------------------------------------------------
(* It begins *)

LEMMA AloneBegins ==
  ASSUME SessionInv, ConstantsAssumption, AloneInv, LeftAlone, UNCHANGED sessionLoad,
         Session!Lookup \/ Session!LookupFails \/ \E q \in Session!Proc : Session!LookupStarts(q)
  PROVE  AloneInv'
<1> DEFINE n == sessionLoad.questions
<1>1. /\ btw = 0 /\ AloneTurn(turn, next) /\ next \in Nat /\ turn \in TurnRecord
      /\ turn.k \in Nat
  BY AloneGives
<1>2. turn.pc = "lookup" /\ UNCHANGED <<next, btw>>
  BY DEF Session!Lookup, Session!LookupFails, Session!LookupStarts, Session!Rest
<1>3. proc \in [Session!Proc -> Record(n)]
  BY DEF SessionInv, ProcsSound
<1>4. CASE Session!LookupFails
  <2>1. reg = 0 /\ turn' = Session!Idle /\ proc' = proc
    BY <1>4 DEF Session!LookupFails
  <2>2. \A q \in Session!Proc : proc[q].st # "running"
    BY <2>1, OfSession DEF Session!Proc
  <2> QED
    BY <1>2, <2>1, <2>2, IdleAlone, AloneOver
<1>5. ASSUME NEW q \in Session!Proc, Session!LookupStarts(q)
      PROVE  AloneInv'
  <2> DEFINE r2 == [Session!NewProc EXCEPT !.allowAll = super]
  <2>1. reg = 0 /\ proc' = [proc EXCEPT ![q] = r2]
    BY <1>5 DEF Session!LookupStarts
  <2>2. /\ turn'.pc = "discard" /\ turn'.p = q /\ turn'.k = turn.k /\ turn'.kind = turn.kind
        /\ turn'.off = turn.off /\ turn'.for = turn.for /\ turn'.then = turn.then
    BY <1>1, <1>5 DEF Session!LookupStarts, TurnRecord
  <2>3. AloneTurn(turn', next)
    BY <1>1, <1>2, <2>2 DEF AloneTurn
  <2>4. \A o \in Session!Proc : proc[o].st # "running"
    BY <2>1, OfSession DEF Session!Proc
  <2>5. r2.chan = <<>> /\ r2.cur = 0 /\ r2.tail = 0 /\ r2.todo = <<>>
    BY DEF Session!NewProc
  <2>6. turn'.k \in Nat \ {0}
    BY <1>1, <1>2, <2>2 DEF AloneTurn
  <2> HIDE DEF r2
  <2> QED
    BY <1>1, <1>2, <1>3, <2>1, <2>2, <2>3, <2>4, <2>5, <2>6, AloneNew
<1>6. CASE Session!Lookup
  <2> DEFINE r == proc[reg]
             b == r.allowAll \/ super
             r2 == [r EXCEPT !.allowAll = b]
             pc == IF ~r.awaiting THEN "quiesce" ELSE IF r.questions > 0 THEN "question" ELSE "approval"
  <2>1. reg # 0 /\ turn' = [turn EXCEPT !.p = reg, !.pc = pc]
    BY <1>6 DEF Session!Lookup
  <2>2. reg \in Session!Proc /\ r \in Record(n)
    BY <2>1, OfSession
  <2>3. proc' = [proc EXCEPT ![reg] = r2]
    BY <1>3, <1>6, <2>2 DEF Session!Lookup
  <2>4. pc \in {"quiesce", "question", "approval"} /\ (pc # "quiesce" <=> r.awaiting)
    <3>1. r.awaiting \in BOOLEAN
      BY <2>2 DEF Record
    <3> QED
      BY <3>1
  <2> HIDE DEF pc, b
  <2>5. /\ turn'.pc = pc /\ turn'.p = reg /\ turn'.k = turn.k /\ turn'.kind = turn.kind
        /\ turn'.off = turn.off /\ turn'.for = turn.for /\ turn'.then = turn.then
        /\ turn'.saw = turn.saw /\ turn'.retry = turn.retry
    BY <1>1, <2>1 DEF TurnRecord
  <2>6. AloneTurn(turn', next)
    BY <1>1, <1>2, <2>4, <2>5 DEF AloneTurn
  <2>7. /\ r2.st = r.st /\ r2.chan = r.chan /\ r2.cur = r.cur /\ r2.tail = r.tail
        /\ r2.todo = r.todo /\ r2.awaiting = r.awaiting
    BY <2>2 DEF Record
  <2>8. UpTo(turn', next) = UpTo(turn, next)
    BY <1>2, <2>4, <2>5 DEF UpTo, Beginning
  <2>9. ASSUME r.st = "running"
        PROVE  Held(turn', next, r2)
    <3>1. Held(turn, next, r) /\ Asking(n, r)
      BY <2>2, <2>9, AloneGives
    <3>2. r.awaiting => r.cur # 0
      BY <2>2, <3>1 DEF Asking, Record
    <3> HIDE DEF r, r2
    <3>3. Numbers(UpTo(turn', next), r2) /\ (Calm(r2) \/ Waits(r2)) /\ (r.awaiting => Waits(r2))
      BY <1>2, <2>7, <2>8, <3>1, <3>2 DEF Held, Calm, Waits, Numbers
    <3> QED
      BY <2>4, <2>5, <3>3 DEF Held
  <2>10. Drained(turn', proc'[reg])
    BY <2>4, <2>5 DEF Drained, Draining
  <2>11. proc'[reg] = r2 /\ \A q \in Session!Proc : q # reg => proc'[q] = proc[q]
    BY <1>3, <2>2, <2>3
  <2>12. \A q \in Session!Proc : proc[q].st = "running" => q = reg
    BY OfSession
  <2> HIDE DEF r, r2
  <2> QED
    BY <1>1, <1>2, <2>2, <2>5, <2>6, <2>7, <2>9, <2>10, <2>11, <2>12, AloneKept DEF r
<1> QED
  BY <1>4, <1>5, <1>6

-----------------------------------------------------------------------------
(* It answers *)

LEMMA RemovedIs ==
  ASSUME SessionInv, ConstantsAssumption
  PROVE  /\ Session!Removed \in [Session!Proc -> Record(sessionLoad.questions)]
         /\ \A p \in Session!Proc :
              Session!Removed[p].st # "running" /\ Session!Removed[p].chan = proc[p].chan
              /\ Sound(sessionLoad.questions, Session!Removed[p])
BY OfSession, OfLoad, NoneRuns DEF SessionInv, ProcsSound

\* The process the user is asked by, while it runs.
LEMMA AnswersTo ==
  ASSUME SessionInv, ConstantsAssumption, AloneInv, LeftAlone, InAnswer
  PROVE  LET r == proc[turn.p] IN
           /\ InTurn /\ turn.p \in Session!Proc /\ r \in Record(sessionLoad.questions)
           /\ turn.p # 0
           /\ r.st = "running" =>
                /\ Waits(r) /\ r.req # 0 /\ r.cur = r.req /\ r.chan = <<>> /\ r.tail = 0
                /\ Numbers(turn.k - 1, r) /\ r.req \in 1 .. turn.k - 1
                /\ Asking(sessionLoad.questions, r)
<1> DEFINE r == proc[turn.p]
<1>1. InTurn
  BY DEF InTurn, InAnswer
<1>2. /\ AloneTurn(turn, next) /\ turn \in TurnRecord /\ turn.k \in Nat
      /\ turn.p \in Session!Proc /\ turn.p # 0 /\ r \in Record(sessionLoad.questions)
  BY <1>1, AloneGives, OfTurn
<1>3. ASSUME r.st = "running"
      PROVE  /\ Waits(r) /\ r.req # 0 /\ r.cur = r.req /\ r.chan = <<>> /\ r.tail = 0
             /\ Numbers(turn.k - 1, r) /\ r.req \in 1 .. turn.k - 1
             /\ Asking(sessionLoad.questions, r)
  <2>1. Held(turn, next, r) /\ Asking(sessionLoad.questions, r)
    BY <1>2, <1>3, AloneGives
  <2>2. r.cur \in Nat /\ r.req \in Nat /\ r.tail \in Nat
    BY <1>2 DEF Record
  <2> HIDE DEF r
  <2>3. Waits(r)
    BY <2>1 DEF Held, InAnswer
  <2>4. r.req # 0 /\ r.cur = r.req /\ r.chan = <<>> /\ r.tail = 0
    BY <2>1, <2>2, <2>3 DEF Waits, Asking
  <2>5. UpTo(turn, next) = turn.k - 1
    BY DEF UpTo, Beginning, InAnswer
  <2>6. Numbers(turn.k - 1, r)
    BY <2>1, <2>5 DEF Held
  <2>7. r.req \in 1 .. turn.k - 1
    BY <1>2, <2>2, <2>4, <2>6 DEF Numbers
  <2> QED
    BY <2>1, <2>3, <2>4, <2>6, <2>7
<1> QED
  BY <1>1, <1>2, <1>3

\* The turn drains what the answer sets going.
LEMMA AnswerGoes ==
  ASSUME SessionInv, ConstantsAssumption, AloneInv, LeftAlone, UNCHANGED <<sessionLoad, next, btw>>,
         InAnswer, proc[turn.p].st = "running", NEW r2, proc' = [proc EXCEPT ![turn.p] = r2],
         r2.st = "running", r2.cur = proc[turn.p].cur, r2.todo = proc[turn.p].todo,
         r2.chan = proc[turn.p].chan, r2.tail = proc[turn.p].tail, ~r2.awaiting,
         turn'.pc = "drain", turn'.p = turn.p, turn'.for = proc[turn.p].req,
         turn'.k = turn.k, turn'.kind = turn.kind, turn'.off = turn.off,
         turn'.saw = turn.saw, turn'.retry = turn.retry
  PROVE  AloneInv'
<1> DEFINE r == proc[turn.p]
<1>1. /\ InTurn /\ turn.p \in Session!Proc /\ Waits(r) /\ r.req # 0 /\ r.cur = r.req
      /\ r.chan = <<>> /\ r.tail = 0 /\ r.req \in 1 .. turn.k - 1
  BY AnswersTo
<1>2. AloneTurn(turn, next) /\ turn.k \in Nat
  BY AloneGives
<1> HIDE DEF r
<1>3. /\ r2.cur = r.req /\ r2.todo = <<>> /\ r2.chan = <<>> /\ r2.tail = 0 /\ turn'.for = r.req
      /\ Len(r2.chan) = 0
  BY <1>1 DEF Waits, r
<1>4. AloneTurn(turn', next)
  BY <1>1, <1>2, <1>3 DEF AloneTurn, InAnswer
<1>5. Held(turn', next, r2)
  BY <1>1, <1>3 DEF Held, UpTo, Beginning, Numbers
<1>6. Drained(turn', r2)
  BY <1>3 DEF Drained, Draining, Aimed, Works
<1> QED
  BY <1>1, <1>4, <1>5, <1>6, AloneOn

LEMMA AloneAnswers ==
  ASSUME SessionInv, ConstantsAssumption, AloneInv, LeftAlone, UNCHANGED sessionLoad,
         \/ Session!AnswerQuestion \/ Session!Hint \/ Session!Approve \/ Session!ApproveStale
         \/ Session!ApproveFails
  PROVE  AloneInv'
<1> DEFINE n == sessionLoad.questions
           p == turn.p
           r == proc[p]
<1>1. UNCHANGED <<next, btw>> /\ InAnswer /\ turn.pc # "idle"
  BY DEF Session!AnswerQuestion, Session!Hint, Session!Approve, Session!ApproveStale,
         Session!ApproveFails, Session!Answers, Session!Dies, Session!Rest, InAnswer
<1>2. /\ InTurn /\ p \in Session!Proc /\ p # 0 /\ r \in Record(n)
      /\ r.st = "running" =>
           /\ Waits(r) /\ r.req # 0 /\ r.cur = r.req /\ r.chan = <<>> /\ r.tail = 0
           /\ Numbers(turn.k - 1, r) /\ r.req \in 1 .. turn.k - 1 /\ Asking(n, r)
  BY <1>1, AnswersTo
<1>3. /\ AloneTurn(turn, next) /\ turn \in TurnRecord /\ next \in Nat /\ turn.k \in Nat
      /\ \A q \in Session!Proc : proc[q].st = "running" => q = p
  BY <1>2, AloneGives
<1>4. proc \in [Session!Proc -> Record(n)] /\ Msgs \in Nat
  BY OfLoad DEF SessionInv, ProcsSound
<1>5. /\ AloneTurn(Session!Idle, next) /\ Session!Idle.pc = "idle" /\ UpTo(Session!Idle, next) = next
  BY <1>1, <1>3, IdleAlone, TurnsAlone
<1>6. \A q \in Session!Proc : Session!Removed[q].st # "running"
  BY RemovedIs
<1>7. ASSUME NEW r2, r2.st = r.st, r2.cur = r.cur, r2.tail = r.tail, r2.chan = r.chan,
             r2.todo = r.todo, r2.st = "running" => r2.awaiting,
             proc' = [proc EXCEPT ![p] = r2], turn' = Session!Idle
      PROVE  AloneInv'
  <2>1. turn'.pc = "idle" /\ AloneTurn(turn', next) /\ UpTo(turn', next) = next /\ ~InTurn'
    BY <1>5, <1>7 DEF InTurn
  <2>2. ASSUME r2.st = "running"
        PROVE  Held(turn', next, r2)
    <3>1. Waits(r) /\ Numbers(turn.k - 1, r)
      BY <1>2, <1>7, <2>2
    <3>2. turn.k - 1 \in Nat /\ turn.k - 1 <= next
      BY <1>1, <1>3 DEF AloneTurn
    <3>3. Numbers(next, r)
      BY <1>2, <1>3, <1>4, <3>1, <3>2, NumbersMore
    <3> HIDE DEF r
    <3>4. Numbers(next, r2) /\ Waits(r2)
      BY <1>7, <2>2, <3>1, <3>3 DEF Numbers, Waits
    <3> QED
      BY <2>1, <3>4 DEF Held
  <2> QED
    BY <1>1, <1>2, <1>7, <2>1, <2>2, AloneOn
<1>8. CASE Session!Hint
  <2>1. turn' = Session!Idle /\ proc' = proc
    BY <1>8 DEF Session!Hint
  <2>2. proc' = [proc EXCEPT ![p] = r]
    BY <1>4, <2>1
  <2> QED
    BY <1>2, <1>7, <2>1, <2>2 DEF Waits
<1>9. CASE Session!ApproveFails
  <2> DEFINE b == r.allowAll \/ Session!Asked("allowAll")
             r2 == [r EXCEPT !.awaiting = FALSE, !.allowAll = b]
  <2>1. turn' = Session!Idle /\ (proc' = Session!Removed \/ proc' = [proc EXCEPT ![p] = r2])
    BY <1>9 DEF Session!ApproveFails, Session!Dies
  <2>2. r.st # "running"
    BY <1>2, <1>9 DEF Session!ApproveFails, Session!Running
  <2> HIDE DEF b
  <2>3. /\ r2.st = r.st /\ r2.cur = r.cur /\ r2.tail = r.tail /\ r2.chan = r.chan
        /\ r2.todo = r.todo
    BY <1>2 DEF Record
  <2> HIDE DEF r2
  <2> QED
    BY <1>1, <1>5, <1>6, <1>7, <2>1, <2>2, <2>3, AloneOver
<1>10. CASE Session!AnswerQuestion
  <2> DEFINE more == r.questions > 1
             m == r.questions - 1
             b == m > 0
             w == IF more THEN r.req ELSE 0
             r2 == [r EXCEPT !.questions = m, !.awaiting = b, !.req = w]
  <2>1. proc' = [proc EXCEPT ![p] = [Session!Questioned(r, m) EXCEPT !.req = w]]
    BY <1>10 DEF Session!AnswerQuestion
  <2>2. turn' = IF more \/ ~Session!Running(p) THEN Session!Idle
                ELSE [Session!At("drain") EXCEPT !.for = r.req]
    BY <1>10 DEF Session!AnswerQuestion
  <2>3. b \in BOOLEAN /\ (b <=> more)
    <3>1. r.questions \in Nat
      BY <1>2, OfLoad DEF Record
    <3> QED
      BY <3>1
  <2>4. r2 = [Session!Questioned(r, m) EXCEPT !.req = w]
    BY <1>2 DEF Session!Questioned, Record
  <2> HIDE DEF w, b, m, more
  <2>5. /\ r2.st = r.st /\ r2.cur = r.cur /\ r2.tail = r.tail /\ r2.chan = r.chan
        /\ r2.todo = r.todo /\ r2.awaiting = b
    BY <1>2 DEF Record
  <2>6. proc' = [proc EXCEPT ![p] = r2]
    BY <2>1, <2>4
  <2> HIDE DEF r2
  <2>7. CASE more
    BY <1>7, <2>2, <2>3, <2>5, <2>6, <2>7
  <2>8. CASE ~more /\ r.st # "running"
    BY <1>2, <1>7, <2>2, <2>5, <2>6, <2>8 DEF Session!Running
  <2>9. CASE ~more /\ r.st = "running"
    <3>1. turn' = [Session!At("drain") EXCEPT !.for = r.req]
      BY <1>2, <2>2, <2>9 DEF Session!Running
    <3>2. /\ turn'.pc = "drain" /\ turn'.p = turn.p /\ turn'.for = r.req
          /\ turn'.k = turn.k /\ turn'.kind = turn.kind /\ turn'.off = turn.off
          /\ turn'.saw = turn.saw /\ turn'.retry = turn.retry
      BY <1>3, <3>1 DEF Session!At, TurnRecord
    <3>3. ~r2.awaiting
      BY <2>3, <2>5, <2>9
    <3> QED
      BY <1>1, <2>5, <2>6, <2>9, <3>2, <3>3, AnswerGoes
  <2> QED
    BY <2>7, <2>8, <2>9
<1>11. CASE Session!Approve
  <2> DEFINE a == r.allowAll \/ Session!Asked("allowAll")
             t == super /\ turn.kind = "text"
             r2 == [r EXCEPT !.awaiting = FALSE, !.req = 0, !.allowAll = a]
  <2>1. r.st = "running" /\ proc' = [proc EXCEPT ![p] = r2]
    BY <1>2, <1>4, <1>11 DEF Session!Approve, Session!Running
  <2>2. turn' = [Session!At("drain") EXCEPT !.for = r.req, !.then = t]
    BY <1>11 DEF Session!Approve
  <2> HIDE DEF a, t
  <2>3. /\ turn'.pc = "drain" /\ turn'.p = turn.p /\ turn'.for = r.req
        /\ turn'.k = turn.k /\ turn'.kind = turn.kind /\ turn'.off = turn.off
        /\ turn'.saw = turn.saw /\ turn'.retry = turn.retry
    BY <1>3, <2>2 DEF Session!At, TurnRecord
  <2>4. /\ r2.st = r.st /\ r2.cur = r.cur /\ r2.tail = r.tail /\ r2.chan = r.chan
        /\ r2.todo = r.todo /\ ~r2.awaiting
    BY <1>2 DEF Record
  <2> HIDE DEF r2
  <2> QED
    BY <1>1, <2>1, <2>3, <2>4, AnswerGoes
<1>12. CASE Session!ApproveStale
  <2>1. r.st # "running"
    <3>1. ~(Session!Running(p) /\ r.req # 0)
      BY <1>12 DEF Session!ApproveStale
    <3> QED
      BY <1>2, <3>1 DEF Session!Running
  <2>2. PICK q \in Session!Proc : proc' = [Session!Removed EXCEPT ![q].st = "closed"]
    BY <1>12, <2>1 DEF Session!ApproveStale, Session!Running
  <2>3. Session!Removed \in [Session!Proc -> Record(n)]
    BY RemovedIs
  <2>4. \A o \in Session!Proc : proc'[o].st # "running"
    BY <1>6, <2>2, <2>3 DEF Record
  <2>5. turn' = Session!Idle \/ turn' = [Session!At("restart") EXCEPT !.retry = TRUE]
    BY <1>12 DEF Session!ApproveStale
  <2>6. AloneTurn(turn', next) /\ turn'.pc \in {"idle", "restart"}
    <3> DEFINE u == [Session!At("restart") EXCEPT !.retry = TRUE]
    <3>1. /\ u.pc = "restart" /\ u.k = turn.k /\ u.kind = turn.kind /\ u.off = turn.off
          /\ u.then = turn.then /\ u.for = turn.for
      BY <1>3 DEF Session!At, TurnRecord
    <3> HIDE DEF u
    <3>2. AloneTurn(u, next)
      BY <1>1, <1>3, <3>1 DEF AloneTurn
    <3> QED
      BY <1>5, <2>5, <3>1, <3>2 DEF u
  <2> QED
    BY <1>1, <2>4, <2>6, AloneOver
<1> QED
  BY <1>8, <1>9, <1>10, <1>11, <1>12

-----------------------------------------------------------------------------
(* Its message is an input *)

LEMMA DrainingIs ==
  ASSUME turn \in TurnRecord, NEW q \in 0 .. AgentProcs, NEW retry \in BOOLEAN
  PROVE  LET u == Session!Draining(q, retry) IN
           /\ u.pc = "drain" /\ u.p = q /\ u.k = turn.k /\ u.kind = turn.kind /\ u.off = turn.off
           /\ u.saw = FALSE /\ u.then = FALSE /\ u.for = turn.k /\ u.retry = retry
BY DEF Session!Draining, TurnRecord

\* It is sent to a process that runs already, which may wait for the user.
LEMMA SendAlone ==
  ASSUME SessionInv, ConstantsAssumption, AloneInv, LeftAlone, UNCHANGED sessionLoad, Session!Send
  PROVE  AloneInv'
<1> DEFINE n == sessionLoad.questions
           p == turn.p
           r == proc[p]
           k == turn.k
           r2 == Session!Given(r, k)
<1>1. UNCHANGED <<next, btw>> /\ InTurn /\ turn.pc = "send"
  BY DEF Session!Send, Session!Rest, InTurn
<1>2. p \in Session!Proc /\ p # 0 /\ p \in 0 .. AgentProcs /\ k \in Session!Msg /\ r \in Record(n)
  BY <1>1, OfTurn DEF Session!Proc
<1>3. r.st = "running" /\ proc' = [proc EXCEPT ![p] = r2] /\ turn' = Session!Draining(p, TRUE)
  BY DEF Session!Send, Session!Running
<1>4. /\ AloneTurn(turn, next) /\ turn \in TurnRecord /\ k \in Nat \ {0} /\ k = next
      /\ Held(turn, next, r) /\ Asking(n, r)
  BY <1>1, <1>2, <1>3, AloneGives DEF AloneTurn
<1>5. r.cur \in Nat /\ r.tail \in Nat /\ r.req \in Nat /\ r.todo \in Seq(Session!Msg)
      /\ r.chan \in Seq(Session!Event)
  BY <1>2 DEF Record
<1>6. /\ r2.st = r.st /\ r2.cur = r.cur /\ r2.tail = r.tail /\ r2.chan = r.chan
      /\ r2.todo = Append(r.todo, k) /\ r2.awaiting = r.awaiting
  BY <1>2 DEF Session!Given, Record
<1>7. /\ turn'.pc = "drain" /\ turn'.p = p /\ turn'.k = k /\ turn'.kind = turn.kind
      /\ turn'.off = turn.off /\ turn'.saw = FALSE /\ turn'.then = FALSE /\ turn'.for = k
      /\ turn'.retry = TRUE
  BY <1>2, <1>3, <1>4, DrainingIs
<1>8. AloneTurn(turn', next)
  BY <1>1, <1>4, <1>7 DEF AloneTurn
<1>9. Numbers(k - 1, r) /\ (Calm(r) \/ Waits(r))
  BY <1>1, <1>4 DEF Held, UpTo, Beginning
<1>10. \A i \in 1 .. Len(r.chan) : r.chan[i].k \in Nat
  <2>1. \A i \in 1 .. Len(r.chan) : r.chan[i] \in Session!Event
    BY <1>5
  <2> QED
    BY <2>1 DEF Session!Event, Session!Msg
<1>11. /\ r.cur <= k - 1 /\ r.tail <= k - 1 /\ k - 1 < k
       /\ \A i \in 1 .. Len(r.chan) : r.chan[i].k <= k - 1 /\ r.chan[i].k # k
  BY <1>4, <1>9, <1>10 DEF Numbers
<1>12. r.todo = <<>> /\ r2.todo = <<k>>
  <2>1. r.todo = <<>>
    BY <1>9 DEF Calm, Waits
  <2>2. Append(<<>>, k) = <<k>>
    OBVIOUS
  <2> QED
    BY <1>6, <2>1, <2>2
<1>13. \A i \in 1 .. Len(r.chan) : r.chan[i].t = "done"
  <2>1. r.awaiting => r.chan = <<>>
    BY <1>4 DEF Asking
  <2> QED
    BY <1>9, <2>1 DEF Calm, Waits
<1> HIDE DEF r2
<1>14. Held(turn', next, r2)
  <2>1. UpTo(turn', next) = k
    BY <1>7 DEF UpTo, Beginning
  <2>2. Numbers(k, r2)
    BY <1>4, <1>5, <1>6, <1>10, <1>11, SMTT(60) DEF Numbers
  <2> QED
    BY <1>7, <2>1, <2>2 DEF Held
<1>15. Aimed(turn', r2.chan)
  BY <1>6, <1>7, <1>11, <1>13 DEF Aimed
<1>16. Works(turn', r2)
  <2>1. r.cur = 0 \/ r.awaiting
    BY <1>9 DEF Calm, Waits
  <2> HIDE DEF r, k
  <2>2. r.tail # k
    BY <1>4, <1>5, <1>11
  <2> QED
    BY <1>6, <1>7, <1>11, <1>12, <2>1, <2>2 DEF Works
<1>17. Drained(turn', r2)
  BY <1>7, <1>15, <1>16 DEF Drained
<1> QED
  BY <1>1, <1>3, <1>6, <1>7, <1>8, <1>14, <1>17, AloneOn

\* It is given to a process that starts, when none runs.
LEMMA StartAlone ==
  ASSUME SessionInv, ConstantsAssumption, AloneInv, LeftAlone, UNCHANGED <<sessionLoad, next, btw>>,
         turn.pc # "idle", NEW f, \A q \in Session!Proc : f[q].st # "running",
         f \in [Session!Proc -> Record(sessionLoad.questions)],
         NEW q \in Session!Proc, NEW r2, proc' = [f EXCEPT ![q] = r2],
         r2.chan = <<>>, r2.cur = 0, r2.tail = 0, r2.todo = <<turn.k>>,
         NEW retry \in BOOLEAN, turn' = Session!Draining(q, retry)
  PROVE  AloneInv'
<1>1. AloneTurn(turn, next) /\ turn \in TurnRecord /\ next \in Nat /\ turn.k \in Nat \ {0}
  BY AloneGives DEF AloneTurn
<1>2. /\ turn'.pc = "drain" /\ turn'.p = q /\ turn'.k = turn.k /\ turn'.kind = turn.kind
      /\ turn'.off = turn.off /\ turn'.saw = FALSE /\ turn'.then = FALSE /\ turn'.for = turn.k
  <2>1. q \in 0 .. AgentProcs
    BY DEF Session!Proc
  <2> QED
    BY <1>1, <2>1, DrainingIs, ZenonT(60)
<1>3. AloneTurn(turn', next)
  BY <1>1, <1>2 DEF AloneTurn
<1> QED
  BY <1>1, <1>2, <1>3, AloneNew

LEMMA AloneInput ==
  ASSUME SessionInv, ConstantsAssumption, AloneInv, LeftAlone, UNCHANGED sessionLoad,
         \/ Session!Quiesce \/ Session!Quiet \/ Session!Discard \/ Session!SendFails
         \/ Session!RestartFails
         \/ \E q \in Session!Proc : Session!SendRestarts(q) \/ Session!Restart(q)
  PROVE  AloneInv'
<1> DEFINE n == sessionLoad.questions
           p == turn.p
           r == proc[p]
<1>1. UNCHANGED <<next, btw>> /\ InTurn /\ turn.pc # "idle"
  BY DEF Session!Quiesce, Session!Quiet, Session!Discard, Session!SendFails, Session!RestartFails,
         Session!SendRestarts, Session!Restart, Session!Rest, InTurn, Session!Dies
<1>2. p \in Session!Proc /\ p # 0 /\ r \in Record(n)
  BY <1>1, OfTurn
<1>3. /\ AloneTurn(turn, next) /\ turn \in TurnRecord /\ next \in Nat /\ turn.k \in Nat
      /\ r.st = "running" => Held(turn, next, r)
      /\ \A q \in Session!Proc : proc[q].st = "running" => q = p
  BY <1>1, <1>2, AloneGives
<1>4. proc \in [Session!Proc -> Record(n)]
  BY DEF SessionInv, ProcsSound
<1>5. /\ Session!Removed \in [Session!Proc -> Record(n)]
      /\ \A q \in Session!Proc : Session!Removed[q].st # "running"
  BY RemovedIs
<1>6. /\ AloneTurn(Session!Idle, next) /\ Session!Idle.pc = "idle"
  BY IdleAlone
<1>7. \A pc \in {"discard", "send"} :
        /\ AloneTurn(Session!At(pc), next) /\ Session!At(pc).pc = pc /\ Session!At(pc).p = p
        /\ Session!At(pc).k = turn.k
  <2>1. "discard" \in Session!TurnPc /\ "send" \in Session!TurnPc
    BY DEF Session!TurnPc
  <2> QED
    BY <1>1, <1>3, <2>1, AtAlone, TurnsAlone
\* A step between the waits before the input.
<1>8. ASSUME NEW r2, proc' = [proc EXCEPT ![p] = r2], r2.st = r.st, r2.cur = r.cur,
             r2.tail = r.tail, r2.todo = r.todo, r2.awaiting = r.awaiting,
             \A i \in 1 .. Len(r2.chan) : \E j \in 1 .. Len(r.chan) : r2.chan[i] = r.chan[j],
             turn.pc \in {"quiesce", "discard"}, turn'.pc \in {"quiesce", "discard", "send"},
             AloneTurn(turn', next), turn'.p = p, turn'.k = turn.k
      PROVE  AloneInv'
  <2>1. Drained(turn', r2)
    BY <1>8 DEF Drained, Draining
  <2>2. ASSUME r2.st = "running"
        PROVE  Held(turn', next, r2)
    <3>1. Held(turn, next, r)
      BY <1>3, <1>8, <2>2
    <3>2. UpTo(turn', next) = UpTo(turn, next)
      BY <1>8 DEF UpTo, Beginning
    <3> HIDE DEF r
    <3>3. Numbers(UpTo(turn, next), r2) /\ (Calm(r2) \/ Waits(r2))
      BY <1>8, <3>1 DEF Held, Numbers, Calm, Waits
    <3> QED
      BY <1>8, <3>2, <3>3 DEF Held
  <2> QED
    BY <1>1, <1>8, <2>1, <2>2, AloneOn
<1>9. CASE Session!Quiesce
  <2> DEFINE r2 == [r EXCEPT !.chan = Tail(@)]
  <2>1. r.chan # <<>> /\ turn' = turn /\ turn.pc = "quiesce" /\ proc' = [proc EXCEPT ![p] = r2]
    BY <1>2, <1>4, <1>9 DEF Session!Quiesce
  <2>2. /\ r2.st = r.st /\ r2.cur = r.cur /\ r2.tail = r.tail /\ r2.todo = r.todo
        /\ r2.awaiting = r.awaiting /\ r2.chan = Tail(r.chan)
    BY <1>2 DEF Record
  <2>3. r.chan \in Seq(Session!Event)
    BY <1>2 DEF Record
  <2> HIDE DEF r2
  <2>4. \A i \in 1 .. Len(r2.chan) : \E j \in 1 .. Len(r.chan) : r2.chan[i] = r.chan[j]
    BY <2>1, <2>2, <2>3, TailOf
  <2> QED
    BY <1>3, <1>8, <2>1, <2>2, <2>4
<1>10. CASE Session!Quiet
  <2>1. turn' = Session!At("discard") /\ turn.pc = "quiesce"
        /\ (proc' = proc \/ proc' = Session!Removed)
    BY <1>10 DEF Session!Quiet
  <2>2. AloneTurn(turn', next) /\ turn'.pc = "discard" /\ turn'.p = p /\ turn'.k = turn.k
    BY <1>7, <2>1
  <2>3. ASSUME proc' = Session!Removed
        PROVE  AloneInv'
    BY <1>1, <1>5, <2>2, <2>3, AloneOver
  <2>4. ASSUME proc' = proc
        PROVE  AloneInv'
    <3>1. proc' = [proc EXCEPT ![p] = r]
      BY <1>4, <2>4
    <3> QED
      BY <1>8, <2>1, <2>2, <3>1
  <2> QED
    BY <2>1, <2>3, <2>4
<1>11. CASE Session!Discard
  <2>1. turn' = Session!At("send") /\ turn.pc = "discard"
    BY <1>11 DEF Session!Discard
  <2>2. AloneTurn(turn', next) /\ turn'.pc = "send" /\ turn'.p = p /\ turn'.k = turn.k
    BY <1>7, <2>1
  <2>3. CASE r.st = "running"
    <3> DEFINE r2 == [r EXCEPT !.chan = <<>>]
    <3>1. proc' = [proc EXCEPT ![p] = r2]
      BY <1>2, <1>4, <1>11, <2>3 DEF Session!Discard
    <3>2. /\ r2.st = r.st /\ r2.cur = r.cur /\ r2.tail = r.tail /\ r2.todo = r.todo
          /\ r2.awaiting = r.awaiting /\ Len(r2.chan) = 0
      BY <1>2 DEF Record
    <3> HIDE DEF r2
    <3>3. \A i \in 1 .. Len(r2.chan) : \E j \in 1 .. Len(r.chan) : r2.chan[i] = r.chan[j]
      BY <3>2
    <3> QED
      BY <1>8, <2>1, <2>2, <3>1, <3>2, <3>3
  <2>4. CASE r.st # "running"
    <3>1. proc' = [Session!Removed EXCEPT ![p].chan = <<>>]
      BY <1>11, <2>4 DEF Session!Discard
    <3>2. \A q \in Session!Proc : proc'[q].st # "running"
      BY <1>5, <3>1 DEF Record
    <3> QED
      BY <1>1, <2>2, <3>2, AloneOver
  <2> QED
    BY <2>3, <2>4
<1>12. CASE Session!SendFails
  <2>1. turn' = Session!Idle /\ proc' = Session!Removed
    BY <1>12 DEF Session!SendFails, Session!Dies
  <2> QED
    BY <1>1, <1>5, <1>6, <2>1, AloneOver
<1>13. CASE Session!RestartFails
  <2>1. turn' = Session!Idle /\ proc' = proc /\ reg = 0
    BY <1>13 DEF Session!RestartFails, SessionInv, TurnSound
  <2>2. \A q \in Session!Proc : proc'[q].st # "running"
    BY <2>1, OfSession DEF Session!Proc
  <2> QED
    BY <1>1, <1>6, <2>1, <2>2, AloneOver
<1>14. LET new == Session!Given(Session!NewProc, turn.k) IN
         new.chan = <<>> /\ new.cur = 0 /\ new.tail = 0 /\ new.todo = <<turn.k>>
  BY DEF Session!Given, Session!NewProc
<1>15. ASSUME NEW q \in Session!Proc, Session!SendRestarts(q)
       PROVE  AloneInv'
  <2>1. /\ proc' = [Session!Removed EXCEPT ![q] = Session!Given(Session!NewProc, turn.k)]
        /\ turn' = Session!Draining(q, TRUE)
    BY <1>15 DEF Session!SendRestarts
  <2> QED
    BY <1>1, <1>5, <1>14, <2>1, StartAlone
<1>16. ASSUME NEW q \in Session!Proc, Session!Restart(q)
       PROVE  AloneInv'
  <2> DEFINE new == Session!Given(Session!NewProc, turn.k)
             r2 == [new EXCEPT !.allowAll = r.allowAll]
  <2>1. /\ proc' = [proc EXCEPT ![q] = r2] /\ turn' = Session!Draining(q, turn.retry)
        /\ turn.pc = "restart"
    BY <1>16 DEF Session!Restart
  <2>2. r2.chan = <<>> /\ r2.cur = 0 /\ r2.tail = 0 /\ r2.todo = <<turn.k>>
    BY DEF Session!Given, Session!NewProc
  <2> HIDE DEF r2
  <2>3. \A o \in Session!Proc : proc[o].st # "running"
    BY <2>1, OfSession DEF Session!Proc, SessionInv, TurnSound
  <2>4. turn.retry \in BOOLEAN
    BY <1>3 DEF TurnRecord
  <2> QED
    BY <1>1, <1>4, <2>1, <2>2, <2>3, <2>4, StartAlone
<1> QED
  BY <1>9, <1>10, <1>11, <1>12, <1>13, <1>15, <1>16

-----------------------------------------------------------------------------
(* It drains the channel *)

\* The process and the event a turn takes from its channel.
LEMMA DrainsIs ==
  ASSUME SessionInv, ConstantsAssumption, AloneInv, LeftAlone, NEW ts, Session!Drains(ts)
  PROVE  LET r == proc[turn.p] IN
           /\ InTurn /\ turn.pc \in Draining /\ turn.pc # "idle"
           /\ turn.p \in Session!Proc /\ r \in Record(sessionLoad.questions)
           /\ r.chan \in Seq(EventIn) /\ r.chan # <<>>
           /\ Session!First = r.chan[1] /\ Session!First.t \in ts /\ 1 \in 1 .. Len(r.chan)
           /\ Aimed(turn, r.chan) /\ Works(turn, r)
           /\ r.st = "running" => Numbers(turn.for, r) /\ Asking(sessionLoad.questions, r)
           /\ Sound(sessionLoad.questions, r)
           /\ Session!Taken = [proc EXCEPT ![turn.p] = [r EXCEPT !.chan = Tail(@)]]
           /\ UpTo(turn, next) = turn.for
<1> DEFINE r == proc[turn.p]
<1>1. turn.pc \in Draining /\ InTurn /\ turn.pc # "idle" /\ r.chan # <<>> /\ Session!First.t \in ts
  BY DEF Session!Drains, Session!Pending, Draining, InTurn
<1>2. turn.p \in Session!Proc /\ r \in Record(sessionLoad.questions)
      /\ Sound(sessionLoad.questions, r)
  BY <1>1, OfTurn
<1>3. r.chan \in Seq(EventIn)
  BY <1>2 DEF Record, EventIn
<1>4. Session!First = r.chan[1] /\ 1 \in 1 .. Len(r.chan)
  BY <1>1, <1>3, TailOf DEF Session!First
<1>5. Aimed(turn, r.chan) /\ Works(turn, r)
  BY <1>1, AloneGives DEF Drained
<1>6. UpTo(turn, next) = turn.for
  BY <1>1 DEF UpTo, Draining, Beginning
<1>7. r.st = "running" => Numbers(turn.for, r) /\ Asking(sessionLoad.questions, r)
  BY <1>2, <1>6, AloneGives DEF Held
<1>8. Session!Taken = [proc EXCEPT ![turn.p] = [r EXCEPT !.chan = Tail(@)]]
  BY <1>1, TakenSound
<1> QED
  BY <1>1, <1>2, <1>3, <1>4, <1>5, <1>6, <1>7, <1>8

\* It goes on draining, as pc says and its process with one event less.
LEMMA DrainsOn ==
  ASSUME SessionInv, ConstantsAssumption, AloneInv, LeftAlone, UNCHANGED <<sessionLoad, next, btw>>,
         NEW ts, Session!Drains(ts),
         NEW r2, proc' = [proc EXCEPT ![turn.p] = r2], r2.st = proc[turn.p].st,
         r2.chan = Tail(proc[turn.p].chan), r2.cur = proc[turn.p].cur, r2.tail = proc[turn.p].tail,
         r2.todo = proc[turn.p].todo, r2.awaiting = proc[turn.p].awaiting,
         AloneTurn(turn', next), turn'.p = turn.p, turn'.for = turn.for, turn'.retry = turn.retry,
         \/ turn'.pc = "drain" /\ turn'.saw /\ Session!First.t # "done"
         \/ turn'.pc = "leading" /\ ~turn'.saw /\ ~turn.saw /\ Session!First.t = "done"
  PROVE  AloneInv'
<1> DEFINE r == proc[turn.p]
           c == r.chan
<1>1. /\ InTurn /\ turn.pc \in Draining /\ turn.p \in Session!Proc
      /\ c \in Seq(EventIn) /\ c # <<>>
      /\ Session!First = c[1] /\ 1 \in 1 .. Len(c)
      /\ Aimed(turn, c) /\ Works(turn, r)
      /\ r.st = "running" => Numbers(turn.for, r)
  BY DrainsIs
<1>2. /\ Len(c) \in Nat \ {0} /\ Len(r2.chan) = Len(c) - 1
      /\ \A i \in 1 .. Len(r2.chan) : r2.chan[i] = c[i + 1] /\ i + 1 \in 1 .. Len(c)
  BY <1>1, TailOf
<1>3. Aimed(turn, r2.chan)
  BY <1>1, AimedTail
<1>4. (Session!First.t # "done" \/ ~turn.retry) =>
        /\ \A i \in 1 .. Len(c) : c[i].k = turn.for
        /\ r.todo = <<>> /\ (Session!First.t = "done" => r.cur = 0)
  <2>1. ASSUME Session!First.t # "done" \/ ~turn.retry
        PROVE  /\ \A i \in 1 .. Len(c) : c[i].k = turn.for
               /\ r.todo = <<>> /\ (Session!First.t = "done" => r.cur = 0)
    <3>1. c[1].k = turn.for
      BY <1>1, <2>1, SMTT(60) DEF Aimed
    <3>2. \A i \in 1 .. Len(c) : c[i].k = turn.for
      BY <1>1, <3>1, SMTT(60) DEF Aimed
    <3> QED
      BY <1>1, <3>1, <3>2, SMTT(60) DEF Works
  <2> QED
    BY <2>1, SMTT(60)
<1> HIDE DEF r, c
<1>5. \A i \in 1 .. Len(r2.chan) : r2.chan[i].k = turn.for =>
        r2.todo = <<>> /\ (r2.chan[i].t = "done" => r2.cur = 0)
  BY <1>1, <1>2, SMTT(60) DEF Works, r, c
<1>6. Aimed(turn', r2.chan)
  BY <1>2, <1>3, <1>4 DEF Aimed
<1>7. Works(turn', r2)
  <2>1. ASSUME r2.st = "running"
        PROVE  \/ r2.cur = 0 /\ r2.todo = <<turn.for>> /\ ~turn'.saw /\ r2.tail # turn.for
                  /\ (~turn.retry => r2.tail = 0)
               \/ r2.cur = turn.for /\ r2.todo = <<>> /\ ~r2.awaiting
               \/ r2.cur = 0 /\ r2.todo = <<>> /\ r2.tail \in {0, turn.for}
               \/ r2.awaiting /\ turn.retry
    <3>1. \/ r.cur = 0 /\ r.todo = <<turn.for>> /\ ~turn.saw /\ r.tail # turn.for
             /\ (~turn.retry => r.tail = 0)
          \/ r.cur = turn.for /\ r.todo = <<>> /\ ~r.awaiting
          \/ r.cur = 0 /\ r.todo = <<>> /\ r.tail \in {0, turn.for}
          \/ r.awaiting /\ turn.retry
      BY <1>1, <2>1 DEF Works, r
    <3>2. r.todo = <<turn.for>> => ~turn'.saw
      BY <1>4
    <3> QED
      BY <3>1, <3>2 DEF r
  <2>2. turn'.pc = "leading" /\ ~turn.retry => r2.cur = 0 /\ r2.todo = <<>>
    BY <1>4 DEF r
  <2> QED
    BY <1>5, <2>1, <2>2 DEF Works
<1>8. Drained(turn', r2)
  BY <1>6, <1>7 DEF Drained, Draining
<1>9. r2.st = "running" => Held(turn', next, r2)
  <2>1. UpTo(turn', next) = turn.for
    BY SMTT(60) DEF UpTo, Beginning
  <2>2. r2.st = "running" => Numbers(turn.for, r2)
    BY <1>1, <1>2 DEF Numbers, r, c
  <2> QED
    BY <2>1, <2>2 DEF Held
<1> QED
  BY <1>1, <1>8, <1>9, AloneOn

\* It is over, as far as its process goes, which has nothing to do or waits for the user.
LEMMA DrainsOver ==
  ASSUME SessionInv, ConstantsAssumption, AloneInv, LeftAlone, UNCHANGED <<sessionLoad, next, btw>>,
         turn.pc \in {"drain", "leading", "tail"},
         NEW r2, proc' = [proc EXCEPT ![turn.p] = r2], r2.st = proc[turn.p].st,
         r2.st = "running" => Numbers(turn.for, r2) /\ (Calm(r2) \/ Waits(r2)),
         NEW n, r2 \in Record(n),
         turn' = Session!Finished
  PROVE  AloneInv'
<1>1. /\ AloneTurn(turn, next) /\ turn \in TurnRecord /\ next \in Nat /\ turn.for \in Nat
      /\ InTurn /\ turn.pc # "idle" /\ turn.k \in Nat
  BY AloneGives DEF InTurn
<1>2. /\ AloneTurn(turn', next) /\ turn'.pc \in {"idle", "quiesce"}
      /\ turn'.pc = "quiesce" => turn'.p = turn.p /\ UpTo(turn', next) >= turn.for
  BY <1>1, TurnsAlone
<1>3. UpTo(turn', next) \in Nat /\ turn.for <= UpTo(turn', next)
  BY <1>1, <1>2 DEF UpTo, AloneTurn, Beginning
<1>4. ASSUME r2.st = "running"
      PROVE  Held(turn', next, r2)
  <2>1. Numbers(UpTo(turn', next), r2)
    BY <1>1, <1>3, <1>4, NumbersMore, OfLoad
  <2> QED
    BY <1>2, <1>4, <2>1 DEF Held
<1>5. Drained(turn', r2) /\ (InTurn' => turn'.p = turn.p)
  BY <1>2 DEF Drained, Draining, InTurn
<1> QED
  BY <1>1, <1>2, <1>4, <1>5, AloneOn

\* It is over, and its process gone.
LEMMA DrainsGone ==
  ASSUME SessionInv, ConstantsAssumption, AloneInv, LeftAlone, UNCHANGED <<sessionLoad, next, btw>>,
         turn.pc \in {"drain", "leading", "tail"}, proc' = Session!Removed,
         turn' \in {Session!Idle, Session!Finished, Session!Retrying}
  PROVE  AloneInv'
<1>1. /\ AloneTurn(turn, next) /\ turn \in TurnRecord /\ next \in Nat /\ turn.pc # "idle"
  BY AloneGives
<1>2. AloneTurn(turn', next) /\ turn'.pc \in {"idle", "quiesce", "restart"}
  BY <1>1, IdleAlone, TurnsAlone
<1> QED
  BY <1>2, RemovedIs, AloneOver

LEMMA AloneTakes ==
  ASSUME SessionInv, ConstantsAssumption, AloneInv, LeftAlone, UNCHANGED sessionLoad,
         \/ Session!TakeText \/ Session!TakeAllowed \/ Session!TakeRequest
         \/ Session!TakeQuestions \/ Session!TakeDone \/ Session!TakeError \/ Session!TakeRefused
  PROVE  AloneInv'
<1> DEFINE n == sessionLoad.questions
           p == turn.p
           r == proc[p]
           c == r.chan
           e == Session!First
           r1 == [r EXCEPT !.chan = Tail(@)]
<1>1. PICK ts : Session!Drains(ts)
  BY DEF Session!TakeText, Session!TakeAllowed, Session!TakeRequest, Session!TakeQuestions,
         Session!TakeDone, Session!TakeError, Session!TakeRefused
<1>2. UNCHANGED <<next, btw>>
  BY DEF Session!TakeText, Session!TakeAllowed, Session!TakeRequest, Session!TakeQuestions,
         Session!TakeDone, Session!TakeError, Session!TakeRefused, Session!Rest
<1>3. /\ InTurn /\ turn.pc \in Draining /\ turn.pc # "idle" /\ p \in Session!Proc
      /\ r \in Record(n)
      /\ c \in Seq(EventIn) /\ c # <<>> /\ e = c[1] /\ 1 \in 1 .. Len(c)
      /\ Aimed(turn, c) /\ Works(turn, r)
      /\ r.st = "running" => Numbers(turn.for, r) /\ Asking(n, r)
      /\ Sound(n, r)
      /\ Session!Taken = [proc EXCEPT ![p] = r1]
      /\ UpTo(turn, next) = turn.for
  BY <1>1, DrainsIs
<1>4. /\ AloneTurn(turn, next) /\ turn \in TurnRecord /\ next \in Nat /\ turn.for \in Nat
      /\ turn.for # 0
  BY <1>3, AloneGives DEF AloneTurn
<1>5. /\ r1.st = r.st /\ r1.cur = r.cur /\ r1.tail = r.tail /\ r1.todo = r.todo
      /\ r1.awaiting = r.awaiting /\ r1.chan = Tail(c) /\ r1.questions = r.questions
      /\ Len(c) \in Nat \ {0} /\ Len(r1.chan) = Len(c) - 1
      /\ \A i \in 1 .. Len(r1.chan) : r1.chan[i] = c[i + 1] /\ i + 1 \in 1 .. Len(c)
      /\ r1 \in Record(n)
  <2>1. /\ Len(c) \in Nat \ {0} /\ Len(Tail(c)) = Len(c) - 1 /\ Tail(c) \in Seq(EventIn)
        /\ \A i \in 1 .. Len(Tail(c)) : Tail(c)[i] = c[i + 1] /\ i + 1 \in 1 .. Len(c)
    BY <1>3, TailOf
  <2> DEFINE d == Tail(c)
  <2>2. r1.chan = d
    BY <1>3 DEF Record
  <2> HIDE DEF d
  <2>3. /\ r1.st = r.st /\ r1.cur = r.cur /\ r1.tail = r.tail /\ r1.todo = r.todo
        /\ r1.awaiting = r.awaiting /\ r1.questions = r.questions
    BY <1>3 DEF Record
  <2>4. d \in Seq(Session!Event)
    BY <2>1 DEF d, EventIn
  <2>5. r1 \in Record(n)
    BY <1>3, <2>4 DEF Record, d
  <2> QED
    BY <2>1, <2>2, <2>3, <2>5 DEF d
<1>6. /\ Session!Signal.pc = "drain" /\ Session!Signal.saw /\ Session!Signal.p = p
      /\ Session!Signal.for = turn.for /\ Session!Signal.retry = turn.retry
      /\ AloneTurn(Session!Signal, next)
  BY <1>3, <1>4, TurnsAlone, TurnsMade, OfLoad
\* A request or questions: its process waits for the user.
<1>7. ASSUME e.t \in Request, NEW r2, r2.st = r.st, r2.cur = r.cur, r2.tail = r.tail,
             r2.todo = r.todo, r2.chan = Tail(c), r.st = "running" => r2.awaiting,
             r2 \in Record(n), proc' = [proc EXCEPT ![p] = r2], turn' = Session!Finished
      PROVE  AloneInv'
  <2>1. ASSUME r.st = "running"
        PROVE  Numbers(turn.for, r2) /\ Waits(r2)
    <3>1. c[1].k = turn.for
      <4>1. c[1].t # "done"
        BY <1>3, <1>7 DEF Request
      <4> QED
        BY <1>3, <4>1 DEF Aimed
    <3>2. r.todo = <<>>
      BY <1>3, <3>1 DEF Works
    <3>3. Numbers(turn.for, r)
      BY <1>3, <2>1
    <3> HIDE DEF r, c, r1
    <3>4. Numbers(turn.for, r2)
      BY <1>5, <1>7, <3>3 DEF Numbers, c
    <3> QED
      BY <1>7, <2>1, <3>2, <3>4 DEF Waits
  <2>2. turn.pc \in {"drain", "leading", "tail"}
    BY <1>3 DEF Draining
  <2> QED
    BY <1>2, <1>7, <2>1, <2>2, DrainsOver
<1>8. CASE Session!TakeText
  <2>1. e.t = "text" /\ turn' = Session!Signal /\ proc' = [proc EXCEPT ![p] = r1]
    BY <1>3, <1>8 DEF Session!TakeText, Session!Drains
  <2> HIDE DEF r1
  <2> QED
    BY <1>1, <1>2, <1>5, <1>6, <2>1, DrainsOn
<1>9. CASE Session!TakeAllowed
  <2>1. e.t = "approval"
    BY <1>9 DEF Session!TakeAllowed, Session!Drains
  <2>2. CASE Session!Running(p) /\ r.req # 0
    <3> DEFINE r2 == [r1 EXCEPT !.req = 0]
    <3>1. turn' = Session!Signal /\ proc' = [proc EXCEPT ![p] = r2]
      <4>1. turn' = Session!Signal /\ proc' = [Session!Taken EXCEPT ![p].req = 0]
        BY <1>9, <2>2 DEF Session!TakeAllowed
      <4>2. proc \in [Session!Proc -> Record(n)]
        BY DEF SessionInv, ProcsSound
      <4> HIDE DEF r1
      <4> QED
        BY <1>3, <4>1, <4>2
    <3>2. /\ r2.st = r.st /\ r2.cur = r.cur /\ r2.tail = r.tail /\ r2.todo = r.todo
          /\ r2.awaiting = r.awaiting /\ r2.chan = Tail(c)
      BY <1>5 DEF Record
    <3> HIDE DEF r2
    <3> QED
      BY <1>1, <1>2, <1>6, <2>1, <3>1, <3>2, DrainsOn
  <2>3. CASE ~(Session!Running(p) /\ r.req # 0)
    <3>1. turn' = Session!Idle /\ proc' = Session!Removed
      BY <1>9, <2>3 DEF Session!TakeAllowed
    <3> QED
      BY <1>2, <1>3, <3>1, DrainsGone DEF Draining
  <2> QED
    BY <2>2, <2>3
<1>10. CASE Session!TakeRequest
  <2> DEFINE r2 == [r1 EXCEPT !.awaiting = TRUE, !.prompted = e.k]
  <2>1. e.t = "approval" /\ turn' = Session!Finished
    BY <1>10 DEF Session!TakeRequest, Session!Drains
  <2>2. proc' = [proc EXCEPT ![p] = r2]
    <3>1. proc' = [Session!Taken EXCEPT ![p].awaiting = TRUE, ![p].prompted = e.k]
      BY <1>10 DEF Session!TakeRequest
    <3>2. proc \in [Session!Proc -> Record(n)]
      BY DEF SessionInv, ProcsSound
    <3> HIDE DEF r1
    <3> QED
      BY <1>3, <3>1, <3>2
  <2>3. e.k \in 0 .. Msgs
    <3>1. e \in Session!Event
      BY <1>3 DEF EventIn
    <3> QED
      BY <3>1 DEF Session!Event, Session!Msg
  <2>4. /\ r2.st = r.st /\ r2.cur = r.cur /\ r2.tail = r.tail /\ r2.todo = r.todo
        /\ r2.awaiting /\ r2.chan = Tail(c) /\ r2 \in Record(n)
    BY <1>5, <2>3 DEF Record
  <2> HIDE DEF r2
  <2> QED
    BY <1>7, <2>1, <2>2, <2>4 DEF Request
<1>11. CASE Session!TakeQuestions
  <2> DEFINE b == n > 0
             r2 == [r1 EXCEPT !.questions = n, !.awaiting = b]
  <2>0. b \in BOOLEAN /\ (b <=> n > 0) /\ n \in Nat /\ n \in 0 .. n
    BY OfLoad
  <2>1. e.t = "question" /\ turn' = Session!Finished
    BY <1>11 DEF Session!TakeQuestions, Session!Drains
  <2>2. proc' = [proc EXCEPT ![p] = r2]
    <3>1. proc' = [Session!Taken EXCEPT ![p] = Session!Questioned(Session!Taken[p], n)]
      <4>1. proc' = [Session!Taken EXCEPT ![p] = Session!Questioned(@, n)]
        BY <1>11 DEF Session!TakeQuestions
      <4> QED
        BY <4>1
    <3>2. proc \in [Session!Proc -> Record(n)]
      BY DEF SessionInv, ProcsSound
    <3>3. Session!Questioned(r1, n) = r2
      BY <1>5 DEF Session!Questioned, Record
    <3> HIDE DEF r1, r2
    <3> QED
      BY <1>3, <3>1, <3>2, <3>3
  <2> HIDE DEF b
  <2>3. /\ r2.st = r.st /\ r2.cur = r.cur /\ r2.tail = r.tail /\ r2.todo = r.todo
        /\ r2.awaiting = b /\ r2.chan = Tail(c) /\ r2 \in Record(n)
    BY <1>5, <2>0 DEF Record
  <2>4. r.st = "running" => n > 0
    <3>1. r.st = "running" => (c[1].t = "question" => n > 0)
      BY <1>3, <2>1 DEF Asking, Request
    <3> QED
      BY <1>3, <2>1, <3>1
  <2> HIDE DEF r2
  <2> QED
    BY <1>7, <2>0, <2>1, <2>2, <2>3, <2>4 DEF Request
<1>12. CASE Session!TakeDone
  <2>1. e.t = "done" /\ proc' = [proc EXCEPT ![p] = r1]
        /\ turn' = Session!At(IF turn.saw THEN "tail" ELSE "leading")
    BY <1>3, <1>12 DEF Session!TakeDone, Session!Drains
  <2>2. turn.saw \in BOOLEAN /\ "tail" \in Session!TurnPc /\ "leading" \in Session!TurnPc
    BY <1>4 DEF TurnRecord, Session!TurnPc
  <2>3. CASE turn.saw
    <3>1. /\ turn'.pc = "tail" /\ turn'.p = turn.p /\ turn'.for = turn.for
          /\ AloneTurn(turn', next)
      BY <1>3, <1>4, <2>1, <2>2, <2>3, AtAlone, TurnsAlone
    <3>2. c[1].k = turn.for
      BY <1>3, <2>3 DEF Aimed
    <3>3. r.todo = <<>> /\ r.cur = 0
      BY <1>3, <2>1, <3>2 DEF Works
    <3>4. \A i \in 1 .. Len(c) : c[i].t = "done"
      BY <1>3, <2>1, <3>2 DEF Aimed
    <3> HIDE DEF r1, r, c
    <3>5. Calm(r1)
      BY <1>5, <3>3, <3>4 DEF Calm
    <3>6. ASSUME r1.st = "running"
          PROVE  Numbers(turn.for, r1)
      BY <1>3, <1>5, <3>6 DEF Numbers, c
    <3>7. UpTo(turn', next) = turn.for
      BY <3>1 DEF UpTo, Beginning
    <3>8. r1.st = "running" => Held(turn', next, r1)
      BY <3>1, <3>6, <3>7 DEF Held
    <3>9. Drained(turn', r1)
      BY <3>1, <3>5 DEF Drained, Draining
    <3> QED
      BY <1>2, <1>3, <1>5, <2>1, <3>1, <3>8, <3>9, AloneOn DEF r
  <2>4. CASE ~turn.saw
    <3>1. /\ turn'.pc = "leading" /\ turn'.p = turn.p /\ turn'.for = turn.for
          /\ turn'.saw = turn.saw /\ turn'.retry = turn.retry
          /\ AloneTurn(turn', next)
      BY <1>3, <1>4, <2>1, <2>2, <2>4, AtAlone, TurnsAlone
    <3> HIDE DEF r1
    <3> QED
      BY <1>1, <1>2, <1>5, <2>1, <2>4, <3>1, DrainsOn
  <2> QED
    BY <2>2, <2>3, <2>4
<1>13. CASE Session!TakeError \/ Session!TakeRefused
  <2>1. proc' = Session!Removed /\ turn' \in {Session!Finished, Session!Retrying}
    BY <1>13 DEF Session!TakeError, Session!TakeRefused
  <2> QED
    BY <1>2, <1>3, <2>1, DrainsGone DEF Draining
<1> QED
  BY <1>8, <1>9, <1>10, <1>11, <1>12, <1>13

LEMMA AloneEnds ==
  ASSUME SessionInv, ConstantsAssumption, AloneInv, LeftAlone, UNCHANGED sessionLoad,
         \/ Session!ChannelClosed \/ Session!NoSignal
         \/ Session!TailEvent \/ Session!TailError \/ Session!TailEnds
  PROVE  AloneInv'
<1> DEFINE n == sessionLoad.questions
           p == turn.p
           r == proc[p]
<1>1. UNCHANGED <<next, btw>> /\ InTurn /\ turn.pc \in {"drain", "leading", "tail"}
      /\ turn.pc # "idle"
  BY DEF Session!ChannelClosed, Session!NoSignal, Session!TailEvent, Session!TailError,
         Session!TailEnds, Session!Rest, Session!Dies, InTurn
<1>2. p \in Session!Proc /\ r \in Record(n) /\ proc \in [Session!Proc -> Record(n)]
  BY <1>1, OfTurn DEF SessionInv, ProcsSound
<1>3. /\ AloneTurn(turn, next) /\ turn \in TurnRecord /\ next \in Nat
      /\ r.st = "running" => Held(turn, next, r)
      /\ Drained(turn, r)
  BY <1>1, <1>2, AloneGives
<1>4. UpTo(turn, next) = turn.for
  BY <1>1 DEF UpTo, Beginning
<1>5. r.st = "running" => Numbers(turn.for, r)
  BY <1>3, <1>4 DEF Held
<1>6. turn.pc = "tail" => Calm(r)
  BY <1>3 DEF Drained
<1>7. ASSUME proc' = Session!Removed,
             turn' \in {Session!Idle, Session!Finished, Session!Retrying}
      PROVE  AloneInv'
  BY <1>1, <1>7, DrainsGone
<1>8. ASSUME proc' = proc, turn' = Session!Finished, r.st = "running" => Calm(r)
      PROVE  AloneInv'
  <2>1. proc' = [proc EXCEPT ![p] = r]
    BY <1>2, <1>8
  <2> QED
    BY <1>1, <1>2, <1>5, <1>8, <2>1, DrainsOver
<1>9. CASE Session!ChannelClosed \/ Session!TailError
  BY <1>7, <1>9 DEF Session!ChannelClosed, Session!TailError, Session!Dies
<1>10. CASE Session!NoSignal
  <2>1. turn.pc = "leading" /\ r.chan = <<>>
        /\ turn' = (IF turn.retry THEN Session!Retrying ELSE Session!Finished)
    BY <1>10 DEF Session!NoSignal
  <2>2. CASE Session!Ended(p) \/ turn.retry
    <3>1. proc' = Session!Removed
      BY <1>10, <2>2 DEF Session!NoSignal
    <3> QED
      BY <1>7, <2>1, <3>1
  <2>3. CASE ~(Session!Ended(p) \/ turn.retry)
    <3>1. proc' = proc /\ turn' = Session!Finished
      BY <1>10, <2>1, <2>3 DEF Session!NoSignal
    <3>2. Works(turn, r)
      BY <1>3, <2>1 DEF Drained, Draining
    <3>3. r.st = "running" => r.cur = 0 /\ r.todo = <<>>
      BY <2>1, <2>3, <3>2 DEF Works
    <3>4. r.st = "running" => Calm(r)
      BY <2>1, <3>3 DEF Calm
    <3> QED
      BY <1>8, <3>1, <3>4
  <2> QED
    BY <2>2, <2>3
<1>11. CASE Session!TailEnds
  <2>1. turn' = Session!Finished /\ (proc' = Session!Removed \/ proc' = proc) /\ turn.pc = "tail"
    BY <1>11 DEF Session!TailEnds
  <2> QED
    BY <1>6, <1>7, <1>8, <2>1
<1>12. CASE Session!TailEvent
  <2> DEFINE r2 == [r EXCEPT !.chan = Tail(@)]
  <2>1. turn' = turn /\ turn.pc = "tail" /\ r.chan # <<>>
        /\ proc' = [proc EXCEPT ![p] = r2]
    BY <1>1, <1>12, TakenSound DEF Session!TailEvent, Session!Pending
  <2>2. r2.st = r.st
    BY <1>2 DEF Record
  <2>3. Calm(r2) /\ (Numbers(turn.for, r) => Numbers(turn.for, r2))
    BY <1>2, <1>6, <2>1, CalmTail
  <2> HIDE DEF r2
  <2>4. Drained(turn', r2)
    BY <2>1, <2>3 DEF Drained, Draining
  <2>5. r2.st = "running" => Held(turn', next, r2)
    BY <1>4, <1>5, <2>1, <2>2, <2>3 DEF Held
  <2> QED
    BY <1>1, <1>3, <2>1, <2>2, <2>4, <2>5, AloneOn
<1> QED
  BY <1>9, <1>10, <1>11, <1>12

-----------------------------------------------------------------------------

LEMMA AloneStep ==
  ASSUME SessionInv, ConstantsAssumption, AloneInv, Session!Next
  PROVE  AloneInv'
<1>1. UNCHANGED sessionLoad
  BY DEF Session!Next
<1> SUFFICES ASSUME LeftAlone
             PROVE  AloneInv'
  BY <1>1 DEF AloneInv, LeftAlone
<1>2. ASSUME \/ \E kind \in sessionLoad.kinds : Session!Receive(kind)
             \/ \E v \in sessionLoad.supers : Session!SetSuper(v)
             \/ Session!Cancel \/ Session!InjectLooksUp \/ Session!InjectSends
      PROVE  AloneInv'
  BY <1>1, <1>2, AloneMessage
<1>3. ASSUME NEW q \in Session!Proc,
             Session!LookupStarts(q) \/ Session!SendRestarts(q) \/ Session!Restart(q)
      PROVE  AloneInv'
  BY <1>1, <1>3, AloneBegins, AloneInput
<1>4. CASE Session!TurnStep
  <2>1. ASSUME \/ Session!Lookup \/ Session!LookupFails \/ Session!AnswerQuestion \/ Session!Hint
               \/ Session!Approve \/ Session!ApproveStale \/ Session!ApproveFails
               \/ Session!CancelSeen \/ Session!ByTheWay
        PROVE  AloneInv'
    BY <1>1, <2>1, AloneMessage, AloneBegins, AloneAnswers
  <2>2. ASSUME \/ Session!Quiesce \/ Session!Quiet \/ Session!Discard \/ Session!Send
               \/ Session!SendFails \/ Session!RestartFails
        PROVE  AloneInv'
    BY <1>1, <2>2, SendAlone, AloneInput
  <2>3. ASSUME \/ Session!TakeText \/ Session!TakeAllowed \/ Session!TakeRequest
               \/ Session!TakeQuestions \/ Session!TakeDone \/ Session!TakeError
               \/ Session!TakeRefused \/ Session!ChannelClosed \/ Session!NoSignal
               \/ Session!TailEvent \/ Session!TailError \/ Session!TailEnds
        PROVE  AloneInv'
    BY <1>1, <2>3, AloneTakes, AloneEnds
  <2> QED
    BY <1>3, <1>4, <2>1, <2>2, <2>3 DEF Session!TurnStep
<1>5. ASSUME NEW p \in Session!Proc, Session!Process(p)
      PROVE  AloneInv'
  BY <1>1, <1>5, AloneProcess
<1> QED
  BY <1>2, <1>4, <1>5 DEF Session!Next

LEMMA AloneStart == ASSUME ConstantsAssumption, Session!Init PROVE AloneInv
<1>1. turn = Session!NoTurn /\ btw = 0 /\ proc = [p \in Session!Proc |-> Session!NoProc]
  BY DEF Session!Init
<1>2. Session!NoProc.st = "none"
  BY DEF Session!NoProc, Session!NewProc
<1>3. AloneTurn(turn, next) /\ ~InTurn
  BY <1>1 DEF AloneTurn, Session!NoTurn, InTurn
<1> QED
  BY <1>1, <1>2, <1>3 DEF AloneInv

\* What a turn shows is its own, and all of it.
LEMMA AloneShows ==
  ASSUME SessionInv, ConstantsAssumption, AloneInv, LeftAlone
  PROVE  Session!OwnAnswer /\ Session!AnswerComplete /\ Session!RequestReachesUser
<1>1. AloneTurn(turn, next) /\ turn \in TurnRecord
  BY AloneGives
<1>2. Session!OwnAnswer
  <2> SUFFICES ASSUME turn.pc \in {"drain", "leading", "tail"}, Session!Pending,
                      Session!First.t = "text"
               PROVE  Session!First.k = turn.for
    BY DEF Session!OwnAnswer
  <2> DEFINE r == proc[turn.p]
  <2>1. InTurn /\ r.chan # <<>>
    BY DEF InTurn, Session!Pending
  <2>2. r \in Record(sessionLoad.questions) /\ Drained(turn, r)
    BY <2>1, OfTurn, AloneGives
  <2>3. r.chan \in Seq(EventIn)
    BY <2>2 DEF Record, EventIn
  <2>4. Session!First = r.chan[1] /\ 1 \in 1 .. Len(r.chan)
    BY <2>1, <2>3, TailOf DEF Session!First
  <2>5. turn.pc # "tail"
    BY <2>2, <2>4 DEF Drained, Calm
  <2>6. Aimed(turn, r.chan)
    BY <2>2, <2>5 DEF Drained, Draining
  <2> QED
    BY <2>4, <2>6 DEF Aimed
<1>3. Session!AnswerComplete
  <2> SUFFICES ASSUME turn.pc = "tail"
               PROVE  /\ proc[turn.p].cur # turn.for
                      /\ \A i \in 1 .. Len(proc[turn.p].todo) : proc[turn.p].todo[i] # turn.for
    BY DEF Session!AnswerComplete
  <2>1. InTurn
    BY DEF InTurn
  <2>2. Calm(proc[turn.p])
    BY <2>1, AloneGives DEF Drained
  <2>3. turn.for # 0
    BY <1>1 DEF AloneTurn
  <2> QED
    BY <2>2, <2>3 DEF Calm
<1>4. Session!RequestReachesUser
  <2> SUFFICES ASSUME turn.pc = "idle", reg # 0, proc[reg].req # 0
               PROVE  proc[reg].awaiting
    BY DEF Session!RequestReachesUser
  <2>1. reg \in Session!Proc /\ proc[reg] \in Record(sessionLoad.questions)
        /\ Sound(sessionLoad.questions, proc[reg])
    BY OfSession
  <2>2. proc[reg].st = "running"
    BY <2>1 DEF Sound, Stopped
  <2>3. Held(turn, next, proc[reg]) /\ Asking(sessionLoad.questions, proc[reg])
    BY <2>1, <2>2, AloneGives
  <2>4. proc[reg].cur # 0
    BY <2>3 DEF Asking
  <2> QED
    BY <2>3, <2>4 DEF Held, Calm, Waits
<1> QED
  BY <1>2, <1>3, <1>4

-----------------------------------------------------------------------------
(* Both *)

\* A part that does not run stays as it is.
LEMMA SessionRests ==
  ASSUME SessionInv, AloneInv, UNCHANGED sessionVars
  PROVE  SessionInv' /\ AloneInv' /\ UNCHANGED turn
<1> USE DEF sessionVars
<1>1. Session!TypeOK'
  BY DEF SessionInv, Session!TypeOK
<1>2. ProcsSound(sessionLoad.questions, reg, proc)'
  BY DEF SessionInv, ProcsSound, Sound, Asking, Stopped, Record
<1>3. TurnSound'
  BY DEF SessionInv, TurnSound, Placed, InAnswer, InTurn, Session!Running
<1>4. AloneInv'
  BY DEF AloneInv, LeftAlone, AloneTurn, Held, Drained, InTurn, UpTo
<1> QED
  BY <1>1, <1>2, <1>3, <1>4 DEF SessionInv

LEMMA RegistryRests ==
  ASSUME RegistryInv, UNCHANGED registryVars
  PROVE  RegistryInv'
<1> USE DEF registryVars
<1>1. EntriesInv'
  BY SMTT(60) DEF RegistryInv, EntriesInv, Typed, TurnsHaveSessions, HasSession, Kept, TakenByClose,
         Started, StartingApart, Registering, ClosingApart, Registry!TypeOK, Registry!RegisteredOnce,
         Registry!RegisteredNotClosed, Registry!NoProcessLost, Registry!Registered,
         Registry!Starting, Registry!Running
<1>2. OneByOne => Single'
  BY DEF RegistryInv, Single, AtMostOne, StoreFits, TurnFits, NativesKnown, EntriesFit,
         ThreadsApart, Uses, TurnUses, Busy, IdNow, Rekeying
<1>3. ActiveFits'
  BY DEF RegistryInv, ActiveFits
<1> QED
  BY <1>1, <1>2, <1>3 DEF RegistryInv, OneByOne

\* The inductive invariant of both.
SoundInv ==
  part \in {"registry", "session"} /\ RegistryInv /\ SessionInv /\ AloneInv /\ GivesSound(turn)

LEMMA BothStart == ASSUME ConstantsAssumption, Init PROVE SoundInv
<1>1. Registry!Init /\ Session!Init /\ part \in {"registry", "session"}
  BY DEF Init
<1> QED
  BY <1>1, RegistryStarts, SessionStart, AloneStart, GivesStart DEF ConstantsAssumption, SoundInv

LEMMA BothStep == ASSUME ConstantsAssumption, SoundInv, [Next]_vars PROVE SoundInv'
<1> USE DEF SoundInv
<1>1. CASE part = "registry" /\ Registry!Next /\ UNCHANGED sessionVars /\ UNCHANGED part
  BY <1>1, RegistryStep, SessionRests DEF ConstantsAssumption
<1>2. CASE part = "session" /\ Session!Next /\ UNCHANGED registryVars /\ UNCHANGED part
  BY <1>2, SessionStep, AloneStep, GivesStep, RegistryRests, OfSession
<1>3. CASE UNCHANGED vars
  BY <1>3, SessionRests, RegistryRests DEF vars
<1> QED
  BY <1>1, <1>2, <1>3 DEF Next

-----------------------------------------------------------------------------
(* The theorems *)

\* The inductive invariant holds in every state: of the registry, the session and its
\* processes, for every number of turns, processes, sessions and messages.
THEOREM Invariance == ASSUME ConstantsAssumption PROVE Spec => []SoundInv
<1>1. Init => SoundInv
  BY BothStart
<1>2. SoundInv /\ [Next]_vars => SoundInv'
  BY BothStep
<1> QED
  BY <1>1, <1>2, PTL DEF Spec

\* Every variable keeps its type.
THEOREM TypeCorrect == ASSUME ConstantsAssumption PROVE Spec => []TypeOK
<1>1. SoundInv => TypeOK
  BY RegistryShows DEF SoundInv, TypeOK, SessionInv, ConstantsAssumption
<1> QED
  BY <1>1, Invariance, PTL

\* getOrCreateInteractiveSession, bindAgentNativeSessionID, rekeyInteractiveSession and
\* Close lose no process, keep none that is closed, and register none twice, in whatever
\* order turns get to the lock; with turns one after the other each process belongs to a
\* session, is alone on its native session, and none is let go.
THEOREM KeepsProcesses == ASSUME ConstantsAssumption PROVE Spec => []ProcessesKept
<1>1. SoundInv => ProcessesKept
  BY RegistryShows DEF SoundInv, ConstantsAssumption
<1> QED
  BY <1>1, Invariance, PTL

\* A turn gives its input to two processes at most, through restarts and retries, and to
\* the second when no other has it any more; a turn that is left alone shows its own
\* answer, though dones of answers before may still come, and all of it.
THEOREM Own == ASSUME ConstantsAssumption PROVE Spec => []OwnAnswer
<1>1. SoundInv => OwnAnswer
  BY SessionTwiceAtMost, AloneShows DEF SoundInv, OwnAnswer
<1> QED
  BY <1>1, Invariance, PTL

\* A request the process waits on is known to the router when no turn is at work: the
\* user was shown it, and may answer.
THEOREM Reaches == ASSUME ConstantsAssumption PROVE Spec => []RequestReachesUser
<1>1. SoundInv => RequestReachesUser
  BY AloneShows DEF SoundInv, RequestReachesUser
<1> QED
  BY <1>1, Invariance, PTL

\* The answer of the user goes to the request the user was shown, not to a newer one.
THEOREM Answers == ASSUME ConstantsAssumption PROVE Spec => AnswersWhatWasShown
<1>1. ASSUME SoundInv, [Next]_vars
      PROVE  [turn.pc = "approval" /\ ~super /\ grants' # grants
                => grants'.k = proc[turn.p].prompted]_(Session!vars)
  <2>1. UNCHANGED sessionVars => UNCHANGED Session!vars
    BY DEF sessionVars, Session!vars
  <2>2. UNCHANGED vars => UNCHANGED sessionVars
    BY DEF vars
  <2>3. Session!Next => (turn.pc = "approval" /\ ~super /\ grants' # grants
                           => grants'.k = proc[turn.p].prompted)
    BY <1>1, SessionAnswers DEF SoundInv
  <2> QED
    BY <1>1, <2>1, <2>2, <2>3 DEF Next
<1> QED
  BY <1>1, Invariance, PTL DEF Spec, AnswersWhatWasShown, Session!AnswersWhatWasShown
===============================================================================
