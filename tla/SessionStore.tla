---------------------------- MODULE SessionStore ----------------------------
(***************************************************************************)
(* The session manager of session/session.go: the map of sessions, the     *)
(* active session of every user, and the files that keep both across a     *)
(* restart.  Sessions are objects with an identity: an updater holds a     *)
(* pointer while the map changes under it.  The manager's lock is held     *)
(* exactly while the writes of an operation, todo, are carried out; each   *)
(* write is a step, and the process may be killed between any two.         *)
(***************************************************************************)
EXTENDS Naturals, Sequences, FiniteSets

CONSTANTS
  Users,
  Ids,        \* session ids
  NoId,
  Requests,   \* the <<user, id>> pairs callers ask a session for
  NativeIds,  \* the ids agents give their own sessions
  NumberedId, \* NumberedId[u]: the ids "u-1", "u-2", ... as a sequence
  Objs,       \* bound: session objects that exist at one time
  NoObj,
  Procs,      \* goroutines that update sessions or look for the active one
  MaxSize,    \* config.MaxSize, 0 for no limit
  Housekeeping, \* Delete and CleanExpired are called (so far only tests do)
  MaxUpdates, \* bound: updates of session contents in a behaviour
  MaxCrashes  \* bound: kills of the process in a behaviour

ASSUME ConstantsAssumption ==
  /\ NoId \notin Ids \cup Users /\ NoObj \notin Objs
  /\ IsFiniteSet(Ids) /\ IsFiniteSet(Objs)
  /\ Requests \subseteq Users \X Ids /\ NativeIds \subseteq Ids
  /\ NumberedId \in [Users -> Seq(Ids)]
  /\ Housekeeping \in BOOLEAN
  /\ MaxSize \in Nat /\ MaxUpdates \in Nat /\ MaxCrashes \in Nat

VARIABLES
  obj,       \* the session objects: id, owner, contents
  sessions,  \* Manager.sessions
  active,    \* Manager.activeByUser
  files,     \* the session files, by the id their name encodes
  meta,      \* active_by_user in metadata.json
  todo,      \* the writes left to the operation that holds Manager.mu
  proc,      \* what each goroutine is doing
  updates,   \* updates made so far
  crashes,   \* kills so far
  persisted, \* updates a save has put on disk for a session (history)
  clobbered, \* ids whose file a session that was gone has written (history)
  guessed    \* a restart chose active sessions that no metadata names (history)

vars == <<obj, sessions, active, files, meta, todo, proc, updates, crashes,
          persisted, clobbered, guessed>>

\* The contents of a session are the updates made to it: each stands for a
\* key of Context, the title, the agent type or the state.
Update == 1 .. MaxUpdates
Session == [id : Ids, user : Users, ctx : SUBSET Update]
File == [user : Users, ctx : SUBSET Update]
NoFile == [user |-> NoId, ctx |-> {}]
Write ==
  [op : {"save"}, obj : Objs] \cup [op : {"delete"}, id : Ids]
  \cup [op : {"meta"}, active : [Users -> Ids \cup {NoId}]]

Unlocked == todo = <<>>
Idle == [pc |-> "idle", obj |-> NoObj, user |-> NoId]
Present == {id \in Ids : sessions[id] # NoObj}
OwnerOf(id) == obj[sessions[id]].user
SessionsOf(u) == {id \in Present : OwnerOf(id) = u}

\* Objects still reachable from the map, from an updater or from a write.
Referenced ==
  {sessions[id] : id \in Ids} \cup {proc[p].obj : p \in Procs}
  \cup {todo[i].obj : i \in {j \in DOMAIN todo : todo[j].op = "save"}}
FreeObjs == Objs \ Referenced
NewObj == CHOOSE o \in FreeObjs : TRUE

Save(o) == [op |-> "save", obj |-> o]
Remove(id) == [op |-> "delete", id |-> id]
SaveMeta(a) == [op |-> "meta", active |-> a]

Init ==
  /\ obj = [o \in Objs |-> [id |-> NoId, user |-> NoId, ctx |-> {}]]
  /\ sessions = [id \in Ids |-> NoObj]
  /\ active = [u \in Users |-> NoId]
  /\ files = [id \in Ids |-> NoFile]
  /\ meta = [u \in Users |-> NoId]
  /\ todo = <<>>
  /\ proc = [p \in Procs |-> Idle]
  /\ updates = 0
  /\ crashes = 0
  /\ persisted = {}
  /\ clobbered = {}
  /\ guessed = FALSE

---------------------------------------------------------------------------
(* Storage *)

\* The object is the session filed under its id, not one that is gone.
Live(o) == sessions[obj[o].id] = o

\* The next write of the operation that holds the lock; a file is written to
\* a temporary name and renamed, so a write happens whole or not at all.
Perform ==
  /\ ~Unlocked
  /\ todo' = Tail(todo)
  /\ LET w == Head(todo) IN
       \/ /\ w.op = "save"
          /\ LET s == obj[w.obj] IN
               /\ files' = [files EXCEPT ![s.id] = [user |-> s.user, ctx |-> s.ctx]]
               /\ IF Live(w.obj)
                  THEN /\ persisted' = persisted \cup s.ctx
                       /\ clobbered' = clobbered \ {s.id}
                  ELSE /\ persisted' = persisted \ files[s.id].ctx
                       /\ clobbered' = clobbered \cup {s.id}
          /\ UNCHANGED <<meta, guessed>>
       \/ /\ w.op = "delete"
          /\ files' = [files EXCEPT ![w.id] = NoFile]
          /\ clobbered' = clobbered \ {w.id}
          /\ UNCHANGED <<meta, persisted, guessed>>
       \/ /\ w.op = "meta"
          /\ meta' = w.active
          /\ guessed' = FALSE
          /\ UNCHANGED <<files, persisted, clobbered>>
  /\ UNCHANGED <<obj, sessions, active, proc, updates, crashes>>

\* What loadSessions finds: every file becomes a session, a metadata entry
\* counts if its session exists and belongs to the user, and a user without a
\* valid entry gets one of his sessions.
OnDisk == {id \in Ids : files[id] # NoFile}
OnDiskOf(u) == {id \in OnDisk : files[id].user = u}

RestoredActive(a) ==
  \A u \in Users :
    IF meta[u] \in OnDiskOf(u) THEN a[u] = meta[u]
    ELSE IF OnDiskOf(u) # {} THEN a[u] \in OnDiskOf(u)
    ELSE a[u] = NoId

\* The process is killed, at any point, and started again.
CrashAndRestart ==
  /\ crashes < MaxCrashes
  /\ crashes' = crashes + 1
  /\ Cardinality(OnDisk) <= Cardinality(Objs)
  /\ LET objOf == CHOOSE f \in [OnDisk -> Objs] : \A i, j \in OnDisk : f[i] = f[j] => i = j
     IN
       /\ sessions' = [id \in Ids |-> IF id \in OnDisk THEN objOf[id] ELSE NoObj]
       /\ obj' = [o \in Objs |->
                    IF \E id \in OnDisk : objOf[id] = o
                    THEN LET id == CHOOSE i \in OnDisk : objOf[i] = o
                         IN [id |-> id, user |-> files[id].user, ctx |-> files[id].ctx]
                    ELSE [id |-> NoId, user |-> NoId, ctx |-> {}]]
  /\ active' \in [Users -> Ids \cup {NoId}]
  /\ RestoredActive(active')
  /\ guessed' = (active' # meta)
  /\ todo' = <<>>
  /\ proc' = [p \in Procs |-> Idle]
  /\ UNCHANGED <<files, meta, updates, persisted, clobbered>>

---------------------------------------------------------------------------
(* Operations of the manager, under its lock *)

\* Sets of sessions that may have expired: not one that an updater has just
\* touched.
Touched == {obj[proc[p].obj].id : p \in {q \in Procs : proc[q].pc = "changed"}}

Without(gone, a) == [u \in Users |-> IF a[u] \in gone /\ OwnerOf(a[u]) = u THEN NoId ELSE a[u]]
SeqOfRemoves(gone) ==
  CHOOSE s \in [1 .. Cardinality(gone) -> {Remove(id) : id \in gone}] :
    \A id \in gone : \E i \in DOMAIN s : s[i].id = id
ContentsOf(ids) == UNION {obj[sessions[id]].ctx : id \in ids}

\* cleanExpiredLocked: the files go first, the metadata follows if there was
\* anything to clean.
CleanWrites(gone) ==
  IF gone = {} THEN <<>> ELSE SeqOfRemoves(gone) \o <<SaveMeta(Without(gone, active))>>

CleanExpired ==
  /\ Housekeeping
  /\ Unlocked
  /\ \E gone \in SUBSET (Present \ Touched) :
       /\ gone # {}
       /\ sessions' = [id \in Ids |-> IF id \in gone THEN NoObj ELSE sessions[id]]
       /\ active' = Without(gone, active)
       /\ todo' = CleanWrites(gone)
       /\ persisted' = persisted \ ContentsOf(gone)
  /\ UNCHANGED <<obj, files, meta, proc, updates, crashes, clobbered, guessed>>

\* createLocked: a full manager cleans what has expired and gives up if that
\* does not help; an id that is taken is taken over.
Full(n) == MaxSize > 0 /\ n >= MaxSize

CreateLocked(id, u) ==
  \E gone \in IF Full(Cardinality(Present)) THEN SUBSET (Present \ Touched) ELSE {{}} :
    LET left == Present \ gone
        kept == Without(gone, active)
    IN
    IF Full(Cardinality(left))
    THEN /\ sessions' = [i \in Ids |-> IF i \in gone THEN NoObj ELSE sessions[i]]
         /\ active' = kept
         /\ todo' = CleanWrites(gone)
         /\ persisted' = persisted \ ContentsOf(gone)
         /\ UNCHANGED obj
    ELSE /\ FreeObjs # {}
         /\ obj' = [obj EXCEPT ![NewObj] = [id |-> id, user |-> u, ctx |-> {}]]
         /\ sessions' = [i \in Ids |-> IF i = id THEN NewObj
                                       ELSE IF i \in gone THEN NoObj ELSE sessions[i]]
         /\ active' = [kept EXCEPT ![u] = id]
         /\ todo' = CleanWrites(gone) \o <<Save(NewObj), SaveMeta(active')>>
         /\ persisted' = persisted \ ContentsOf((gone \cup {id}) \cap Present)

GetOrCreateSession(u, id) ==
  /\ Unlocked
  /\ <<u, id>> \in Requests
  /\ \/ /\ id \in Present /\ OwnerOf(id) = u
        /\ active' = [active EXCEPT ![u] = id]
        /\ todo' = <<SaveMeta(active')>>
        /\ UNCHANGED <<obj, sessions, persisted>>
     \/ /\ id \notin Present
        /\ CreateLocked(id, u)
  /\ UNCHANGED <<files, meta, proc, updates, crashes, clobbered, guessed>>

\* Mutant of SetActiveSession: the metadata is not saved.
SetActiveUnsaved(u, id) ==
  /\ Unlocked
  /\ id \in SessionsOf(u)
  /\ active' = [active EXCEPT ![u] = id]
  /\ UNCHANGED <<obj, sessions, files, meta, todo, proc, updates, crashes, persisted, clobbered, guessed>>

SetActiveSession(u, id) ==
  /\ Unlocked
  /\ id \in SessionsOf(u)
  /\ active' = [active EXCEPT ![u] = id]
  /\ todo' = <<SaveMeta(active')>>
  /\ UNCHANGED <<obj, sessions, files, meta, proc, updates, crashes, persisted, clobbered, guessed>>

Delete(id) ==
  /\ Housekeeping
  /\ Unlocked
  /\ active' = IF id \in Present THEN Without({id}, active) ELSE active
  /\ sessions' = [sessions EXCEPT ![id] = NoObj]
  /\ todo' = <<Remove(id), SaveMeta(active')>>
  /\ persisted' = persisted \ ContentsOf({id} \cap Present)
  /\ UNCHANGED <<obj, files, meta, proc, updates, crashes, clobbered, guessed>>

\* SetSessionAgentType, SetSessionTitleIfEmpty and Close: change and save
\* under the lock.  PersistSession saves without a change.
SetAndSave(id) ==
  /\ Unlocked
  /\ id \in Present
  /\ updates < MaxUpdates
  /\ updates' = updates + 1
  /\ obj' = [obj EXCEPT ![sessions[id]].ctx = @ \cup {updates + 1}]
  /\ todo' = <<Save(sessions[id])>>
  /\ UNCHANGED <<sessions, active, files, meta, proc, crashes, persisted, clobbered, guessed>>

\* Mutant of Moved: whatever is active stays active.
NotMoved(old, new) == active

\* AdoptSessionID: the session takes the agent's native id.  A session of the
\* same user under that id absorbs it; one of another user refuses.
Moved(old, new) ==
  LET u == OwnerOf(old) IN IF active[u] = old THEN [active EXCEPT ![u] = new] ELSE active

\* Mutant of AdoptMerge: the session that absorbed the other is not saved.
AdoptMergeUnsaved(old, new) ==
  /\ Unlocked
  /\ old \in Present /\ new \in Present /\ old # new
  /\ OwnerOf(old) = OwnerOf(new)
  /\ obj' = [obj EXCEPT ![sessions[new]].ctx = @ \cup obj[sessions[old]].ctx]
  /\ sessions' = [sessions EXCEPT ![old] = NoObj]
  /\ active' = Moved(old, new)
  /\ todo' = <<Remove(old), SaveMeta(active')>>
  /\ UNCHANGED <<files, meta, proc, updates, crashes, persisted, clobbered, guessed>>

AdoptMerge(old, new) ==
  /\ Unlocked
  /\ old \in Present /\ new \in Present /\ old # new
  /\ OwnerOf(old) = OwnerOf(new)
  /\ obj' = [obj EXCEPT ![sessions[new]].ctx = @ \cup obj[sessions[old]].ctx]
  /\ sessions' = [sessions EXCEPT ![old] = NoObj]
  /\ active' = Moved(old, new)
  /\ todo' = <<Save(sessions[new]), Remove(old), SaveMeta(active')>>
  /\ UNCHANGED <<files, meta, proc, updates, crashes, persisted, clobbered, guessed>>

\* Mutant of AdoptRename: the old file is removed before the new one is there.
AdoptRemovesFirst(old, new) ==
  /\ Unlocked
  /\ old \in Present /\ new \notin Present
  /\ obj' = [obj EXCEPT ![sessions[old]].id = new]
  /\ sessions' = [sessions EXCEPT ![old] = NoObj, ![new] = sessions[old]]
  /\ active' = Moved(old, new)
  /\ todo' = <<Remove(old), Save(sessions[old]), SaveMeta(active')>>
  /\ UNCHANGED <<files, meta, proc, updates, crashes, persisted, clobbered, guessed>>

\* Mutant of AdoptRename: the session keeps the id it had.
AdoptKeepsId(old, new) ==
  /\ Unlocked
  /\ old \in Present /\ new \notin Present
  /\ sessions' = [sessions EXCEPT ![old] = NoObj, ![new] = sessions[old]]
  /\ active' = Moved(old, new)
  /\ todo' = <<Save(sessions[old]), Remove(old), SaveMeta(active')>>
  /\ UNCHANGED <<obj, files, meta, proc, updates, crashes, persisted, clobbered, guessed>>

\* Mutant of AdoptRename: the metadata goes on naming the id that is gone.
AdoptForgetsMetadata(old, new) ==
  /\ Unlocked
  /\ old \in Present /\ new \notin Present
  /\ obj' = [obj EXCEPT ![sessions[old]].id = new]
  /\ sessions' = [sessions EXCEPT ![old] = NoObj, ![new] = sessions[old]]
  /\ active' = Moved(old, new)
  /\ todo' = <<Save(sessions[old]), Remove(old)>>
  /\ UNCHANGED <<files, meta, proc, updates, crashes, persisted, clobbered, guessed>>

AdoptRename(old, new) ==
  /\ Unlocked
  /\ old \in Present /\ new \notin Present
  /\ obj' = [obj EXCEPT ![sessions[old]].id = new]
  /\ sessions' = [sessions EXCEPT ![old] = NoObj, ![new] = sessions[old]]
  /\ active' = Moved(old, new)
  /\ todo' = <<Save(sessions[old]), Remove(old), SaveMeta(active')>>
  /\ UNCHANGED <<files, meta, proc, updates, crashes, persisted, clobbered, guessed>>

---------------------------------------------------------------------------
(* Operations in several critical sections *)

\* UpdateSession, UpdateSessionContextAtomically and
\* UpdateSessionAgentAndContextAtomically: look the session up under the
\* manager's lock, change it under its own, save it under the manager's lock
\* again without another look at the map.
UpdateFind(p, id) ==
  /\ Unlocked
  /\ proc[p].pc = "idle"
  /\ id \in Present
  /\ updates < MaxUpdates
  /\ proc' = [proc EXCEPT ![p] = [pc |-> "found", obj |-> sessions[id], user |-> NoId]]
  /\ UNCHANGED <<obj, sessions, active, files, meta, todo, updates, crashes, persisted, clobbered, guessed>>

UpdateChange(p) ==
  /\ proc[p].pc = "found"
  /\ updates < MaxUpdates
  /\ updates' = updates + 1
  /\ obj' = [obj EXCEPT ![proc[p].obj].ctx = @ \cup {updates + 1}]
  /\ proc' = [proc EXCEPT ![p].pc = "changed"]
  /\ UNCHANGED <<sessions, active, files, meta, todo, crashes, persisted, clobbered, guessed>>

\* The mutator reports that nothing changed: nothing is saved.
UpdateNothing(p) ==
  /\ proc[p].pc = "found"
  /\ proc' = [proc EXCEPT ![p] = Idle]
  /\ UNCHANGED <<obj, sessions, active, files, meta, todo, updates, crashes, persisted, clobbered, guessed>>

\* Mutant of UpdateSave: the session is looked up again, and may be gone.
UpdateSaveById(p) ==
  /\ Unlocked
  /\ proc[p].pc = "changed"
  /\ todo' = <<Save(sessions[obj[proc[p].obj].id])>>
  /\ proc' = [proc EXCEPT ![p] = Idle]
  /\ UNCHANGED <<obj, sessions, active, files, meta, updates, crashes, persisted, clobbered, guessed>>

UpdateSave(p) ==
  /\ Unlocked
  /\ proc[p].pc = "changed"
  /\ todo' = <<Save(proc[p].obj)>>
  /\ proc' = [proc EXCEPT ![p] = Idle]
  /\ UNCHANGED <<obj, sessions, active, files, meta, updates, crashes, persisted, clobbered, guessed>>

\* GetOrCreateActiveSession of a user without an active session: that there
\* is none is read under one lock and the session created under another.
MissActive(p, u) ==
  /\ Unlocked
  /\ proc[p].pc = "idle"
  /\ active[u] \notin Present
  /\ proc' = [proc EXCEPT ![p] = [pc |-> "missed", obj |-> NoObj, user |-> u]]
  /\ UNCHANGED <<obj, sessions, active, files, meta, todo, updates, crashes, persisted, clobbered, guessed>>

\* nextSessionIDLocked: one more than the highest number among the user's own
\* sessions.
NextNumber(u) ==
  1 + (LET used == {n \in DOMAIN NumberedId[u] : NumberedId[u][n] \in SessionsOf(u)}
       IN IF used = {} THEN 0 ELSE CHOOSE n \in used : \A k \in used : k <= n)

CreateNext(p) ==
  LET u == proc[p].user IN
    /\ Unlocked
    /\ proc[p].pc = "missed"
    /\ NextNumber(u) \in DOMAIN NumberedId[u]
    /\ CreateLocked(NumberedId[u][NextNumber(u)], u)
    /\ proc' = [proc EXCEPT ![p] = Idle]
    /\ UNCHANGED <<files, meta, updates, crashes, clobbered, guessed>>

---------------------------------------------------------------------------

Operation ==
  \/ CleanExpired
  \/ \E u \in Users, id \in Ids : GetOrCreateSession(u, id) \/ SetActiveSession(u, id)
  \/ \E id \in Ids : Delete(id) \/ SetAndSave(id)
  \/ \E old \in Ids, new \in NativeIds : AdoptMerge(old, new) \/ AdoptRename(old, new)

Process(p) ==
  \/ \E id \in Ids : UpdateFind(p, id)
  \/ UpdateChange(p) \/ UpdateNothing(p) \/ UpdateSave(p)
  \/ \E u \in Users : MissActive(p, u)
  \/ CreateNext(p)

Next ==
  \/ Perform
  \/ Operation
  \/ \E p \in Procs : Process(p)
  \/ CrashAndRestart

Spec == Init /\ [][Next]_vars

---------------------------------------------------------------------------
(* Properties *)

\* Every variable has its type.
TypeOK ==
  /\ obj \in [Objs -> Session \cup {[id |-> NoId, user |-> NoId, ctx |-> {}]}]
  /\ sessions \in [Ids -> Objs \cup {NoObj}]
  /\ active \in [Users -> Ids \cup {NoId}]
  /\ files \in [Ids -> File \cup {NoFile}]
  /\ meta \in [Users -> Ids \cup {NoId}]
  /\ todo \in Seq(Write)
  /\ proc \in [Procs -> [pc : {"idle", "found", "changed", "missed"},
                          obj : Objs \cup {NoObj}, user : Users \cup {NoId}]]
  /\ updates \in 0 .. MaxUpdates
  /\ crashes \in 0 .. MaxCrashes
  /\ persisted \subseteq Update
  /\ clobbered \subseteq Ids
  /\ guessed \in BOOLEAN

\* One of another user's numbered ids.  Its user's createLocked takes it over
\* from whoever has it: /chat/stream lets a client name any user and session.
AnothersNumber(u, id) ==
  \E v \in Users \ {u} : \E n \in DOMAIN NumberedId[v] : id = NumberedId[v][n]

\* A session is filed under the id it carries, no object under two ids, and
\* the active session of a user exists and is the user's own, whatever is
\* renamed, merged, deleted or expires; but for a user who asked for another
\* user's numbered id, which that user's next new session takes from him.
SessionsConsistent ==
  /\ \A id \in Present : obj[sessions[id]].id = id /\ OwnerOf(id) \in Users
  /\ \A u \in Users : active[u] # NoId => active[u] \in SessionsOf(u) \/ AnothersNumber(u, active[u])

\* Once an update is on disk it stays there, in one file or another, until its
\* session is deleted, expires or is taken over: a kill in the middle of an
\* adoption finds the session under its old name, its new one, or both.
PersistedStays ==
  \A t \in persisted : \E id \in OnDisk : t \in files[id].ctx

\* While no operation is writing, every session is on disk as it is in
\* memory, but for an update whose save is still to come and for a file that a
\* session that was gone has written over (see GoneStaysGone).
MemoryOnDisk ==
  Unlocked =>
    \A id \in Present \ (Touched \cup clobbered) :
      files[id] = [user |-> OwnerOf(id), ctx |-> obj[sessions[id]].ctx]

\* While no operation is writing, the active session a restart would take from
\* the metadata is the one that is active now.
MetadataNotStale ==
  Unlocked =>
    \A u \in Users : meta[u] \in OnDiskOf(u) /\ meta[u] \in Present => active[u] = meta[u]

\* A restart gives every user the active session of before the kill, unless
\* the kill came in the middle of an operation's writes, a session that was
\* gone has written over the file, or an earlier restart chose among his
\* sessions: loadSessions does not save what restoreMissingActiveSessions
\* chose, and the next start may choose another.
RestartKeepsActive ==
  [][crashes' # crashes /\ Unlocked /\ ~guessed =>
       \A u \in Users : active[u] \in SessionsOf(u) \ clobbered => active'[u] = active[u]]_vars

\* Delete, cleanExpired and AdoptSessionID remove the file of a session that
\* goes away; with nobody at work, no file of a session that is gone is left
\* to come back at the next start.
GoneStaysGone ==
  Unlocked /\ (\A p \in Procs : proc[p].pc = "idle") => OnDisk \subseteq Present
=============================================================================
