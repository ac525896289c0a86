------------------------- MODULE SessionStoreProofs -------------------------
(***************************************************************************)
(* Proofs about SessionStore, for any users, ids, objects, updaters and    *)
(* bounds.  Three inductive invariants, one on the other: Inv, types and   *)
(* who is filed under what; DiskInv, how far memory and files agree while  *)
(* writes are left; MetaInv, the same of the active sessions and the       *)
(* metadata.                                                               *)
(***************************************************************************)
EXTENDS SessionStore, FunctionTheorems, FiniteSetTheorems, SequenceTheorems, TLAPS

\* A session that has been made, whether or not it is still in the map.
Made(o) == o \in Objs /\ obj[o] \in Session

\* What is to be saved, and what updaters hold, are sessions, in the map or not.
SavesSessions == \A i \in 1 .. Len(todo) : todo[i].op = "save" => Made(todo[i].obj)
HoldSessions ==
  \A p \in Procs : /\ proc[p].pc \in {"found", "changed"} => Made(proc[p].obj)
                   /\ proc[p].pc = "missed" => proc[p].user \in Users

\* An id that a user may create a session under: one that is free, or the next
\* of his numbers, from whoever has it.
MayTake(id, u) == id \notin Present \/ \E n \in DOMAIN NumberedId[u] : id = NumberedId[u][n]

Inv == TypeOK /\ SessionsConsistent /\ SavesSessions /\ HoldSessions

---------------------------------------------------------------------------
(* Writes and sessions *)

SaveWrite == [op : {"save"}, obj : Objs]
DeleteWrite == [op : {"delete"}, id : Ids]
MetaWrite == [op : {"meta"}, active : [Users -> Ids \cup {NoId}]]

\* The kinds of writes.
LEMMA Writes ==
  /\ Write = SaveWrite \cup DeleteWrite \cup MetaWrite
  /\ \A w \in Write : /\ w.op = "save" <=> w \in SaveWrite
                      /\ w.op = "delete" <=> w \in DeleteWrite
                      /\ w.op = "meta" <=> w \in MetaWrite
  /\ \A o \in Objs : Save(o) \in SaveWrite /\ Save(o).op = "save" /\ Save(o).obj = o
  /\ \A id \in Ids : Remove(id) \in DeleteWrite /\ Remove(id).op = "delete" /\ Remove(id).id = id
  /\ \A a \in [Users -> Ids \cup {NoId}] :
       SaveMeta(a) \in MetaWrite /\ SaveMeta(a).op = "meta" /\ SaveMeta(a).active = a
BY DEF Write, SaveWrite, DeleteWrite, MetaWrite, Save, Remove, SaveMeta

\* The files that a clean-up removes, in some order.
LEMMA Removes ==
  ASSUME NEW gone \in SUBSET Ids
  PROVE  /\ SeqOfRemoves(gone) \in Seq({Remove(id) : id \in gone})
         /\ \A id \in gone : \E i \in 1 .. Len(SeqOfRemoves(gone)) : SeqOfRemoves(gone)[i] = Remove(id)
<1> DEFINE R == {Remove(id) : id \in gone}
           Lists(s) == \A id \in gone : \E i \in DOMAIN s : s[i].id = id
<1>1. IsFiniteSet(gone)
  BY FS_Subset, ConstantsAssumption
<1>2. Cardinality(gone) \in Nat /\ ExistsBijection(1 .. Cardinality(gone), gone)
  BY <1>1, FS_CardinalityType
<1>3. PICK f \in Bijection(1 .. Cardinality(gone), gone) : TRUE
  BY <1>2, Fun_ExistsBij
<1>4. /\ f \in [1 .. Cardinality(gone) -> gone]
      /\ \A id \in gone : \E i \in 1 .. Cardinality(gone) : f[i] = id
  <2>1. f \in Bijection(1 .. Cardinality(gone), gone)
    BY <1>3
  <2>2. f \in Surjection(1 .. Cardinality(gone), gone)
    BY <2>1 DEF Bijection
  <2> QED BY <2>2 DEF Surjection
<1>5. \A id : Remove(id).id = id
  BY DEF Remove
<1> DEFINE s == [i \in 1 .. Cardinality(gone) |-> Remove(f[i])]
<1>6. s \in [1 .. Cardinality(gone) -> R] /\ Lists(s)
  BY <1>4, <1>5
<1>7. SeqOfRemoves(gone) \in [1 .. Cardinality(gone) -> R] /\ Lists(SeqOfRemoves(gone))
  BY <1>6 DEF SeqOfRemoves
<1>8. SeqOfRemoves(gone) \in Seq(R) /\ DOMAIN SeqOfRemoves(gone) = 1 .. Len(SeqOfRemoves(gone))
  BY <1>2, <1>7
<1>9. ASSUME NEW id \in gone
      PROVE  \E i \in 1 .. Len(SeqOfRemoves(gone)) : SeqOfRemoves(gone)[i] = Remove(id)
  <2>1. PICK i \in 1 .. Len(SeqOfRemoves(gone)) : SeqOfRemoves(gone)[i].id = id
    BY <1>7, <1>8
  <2>2. SeqOfRemoves(gone)[i] \in R
    BY <1>8
  <2> QED BY <1>5, <2>1, <2>2
<1> QED BY <1>8, <1>9

LEMMA WithoutType ==
  ASSUME TypeOK, NEW gone \in SUBSET Ids
  PROVE  Without(gone, active) \in [Users -> Ids \cup {NoId}]
BY DEF TypeOK, Without

\* A clean-up saves no session.
LEMMA CleanUp ==
  ASSUME TypeOK, NEW gone \in SUBSET Ids
  PROVE  CleanWrites(gone) \in Seq(DeleteWrite \cup MetaWrite)
<1>1. CASE gone = {}
  BY <1>1, EmptySeq DEF CleanWrites
<1>2. CASE gone # {}
  <2>1. SeqOfRemoves(gone) \in Seq(DeleteWrite \cup MetaWrite)
    <3>1. {Remove(id) : id \in gone} \subseteq DeleteWrite \cup MetaWrite
      BY Writes
    <3> QED BY <3>1, Removes, SeqMonotonic
  <2>2. <<SaveMeta(Without(gone, active))>> \in Seq(DeleteWrite \cup MetaWrite)
    BY WithoutType, Writes
  <2> QED BY <1>2, <2>1, <2>2, ConcatProperties DEF CleanWrites
<1> QED BY <1>1, <1>2

\* Sessions in the map are objects of their own, and not new ones.
LEMMA InMap ==
  ASSUME TypeOK, SessionsConsistent
  PROVE  /\ \A id \in Present : /\ Made(sessions[id]) /\ obj[sessions[id]].id = id
                                /\ OwnerOf(id) \in Users
         /\ \A i, j \in Present : sessions[i] = sessions[j] => i = j
<1>1. \A id \in Present : sessions[id] \in Objs /\ obj[sessions[id]].id = id /\ OwnerOf(id) \in Users
  BY DEF TypeOK, SessionsConsistent, Present
<1>2. \A o \in Objs : obj[o].id \in Ids => obj[o] \in Session
  BY ConstantsAssumption DEF TypeOK
<1>3. Present \subseteq Ids
  BY DEF Present
<1> QED BY <1>1, <1>2, <1>3 DEF Made

\* A new object is none that anybody has.
LEMMA IsNew ==
  ASSUME FreeObjs # {}
  PROVE  /\ NewObj \in Objs
         /\ \A id \in Ids : sessions[id] # NewObj
         /\ \A p \in Procs : proc[p].obj # NewObj
         /\ \A i \in DOMAIN todo : todo[i].op = "save" => todo[i].obj # NewObj
<1>1. NewObj \in FreeObjs
  BY DEF NewObj
<1> QED BY <1>1 DEF FreeObjs, Referenced

---------------------------------------------------------------------------
(* The steps *)

\* A step that changes no session and nothing in the map.
LEMMA NothingMoves ==
  ASSUME Inv, UNCHANGED <<obj, sessions, active>>, TypeOK', HoldSessions',
         \A i \in 1 .. Len(todo') : todo'[i].op = "save" => Made(todo'[i].obj)
  PROVE  Inv'
<1>1. SessionsConsistent'
  BY DEF Inv, SessionsConsistent, Present, SessionsOf, OwnerOf
<1>2. SavesSessions'
  BY DEF SavesSessions, Made
<1> QED BY <1>1, <1>2 DEF Inv

\* What updaters hold stays a session when sessions stay so.
LEMMA HoldStays ==
  ASSUME HoldSessions, UNCHANGED proc, \A o \in Objs : Made(o) => Made(o)'
  PROVE  HoldSessions'
BY DEF HoldSessions, Made

LEMMA PerformKeeps == ASSUME Inv, Perform PROVE Inv'
<1>0. TypeOK /\ todo \in Seq(Write) /\ todo # <<>> /\ todo' = Tail(todo)
  BY DEF Inv, TypeOK, Perform, Unlocked
<1>1. /\ Head(todo) \in Write /\ Head(todo) = todo[1] /\ 1 \in 1 .. Len(todo)
      /\ Tail(todo) \in Seq(Write) /\ Len(Tail(todo)) = Len(todo) - 1 /\ Len(todo) \in Nat
      /\ \A i \in 1 .. Len(Tail(todo)) : Tail(todo)[i] = todo[i + 1]
  BY <1>0, HeadTailProperties, EmptySeq
<1>2. PICK w \in Write : w = Head(todo)
  BY <1>1, SMTT(60)
<1>3. UNCHANGED <<obj, sessions, active, proc, updates, crashes>>
  BY SMTT(60) DEF Perform
<1>4. /\ files' \in [Ids -> File \cup {NoFile}] /\ meta' \in [Users -> Ids \cup {NoId}]
      /\ persisted' \subseteq Update /\ clobbered' \subseteq Ids /\ guessed' \in BOOLEAN
  <2>1. CASE w.op = "save"
    <3>1. Made(w.obj)
      BY <1>1, <1>2, <2>1 DEF Inv, SavesSessions
    <3>2. PICK s \in Session : s = obj[w.obj]
      BY <3>1, SMTT(60) DEF Made
    <3>3. /\ files' = [files EXCEPT ![s.id] = [user |-> s.user, ctx |-> s.ctx]]
          /\ UNCHANGED <<meta, guessed>>
          /\ \/ persisted' = persisted \cup s.ctx /\ clobbered' = clobbered \ {s.id}
             \/ persisted' = persisted \ files[s.id].ctx /\ clobbered' = clobbered \cup {s.id}
      BY <1>2, <2>1, <3>2, ZenonT(60) DEF Perform
    <3>4. s.id \in Ids /\ s.ctx \subseteq Update /\ [user |-> s.user, ctx |-> s.ctx] \in File
      BY DEF Session, File
    <3> QED BY <1>0, <3>3, <3>4 DEF TypeOK
  <2>2. CASE w.op = "delete"
    <3>1. w.id \in Ids
      BY <2>2, Writes, SMTT(60) DEF DeleteWrite
    <3>2. /\ files' = [files EXCEPT ![w.id] = NoFile] /\ clobbered' = clobbered \ {w.id}
          /\ UNCHANGED <<meta, persisted, guessed>>
      BY <1>2, <2>2 DEF Perform
    <3> QED BY <1>0, <3>1, <3>2 DEF TypeOK
  <2>3. CASE w.op = "meta"
    <3>1. w.active \in [Users -> Ids \cup {NoId}]
      BY <2>3, Writes, SMTT(60) DEF MetaWrite
    <3>2. meta' = w.active /\ guessed' = FALSE /\ UNCHANGED <<files, persisted, clobbered>>
      BY <1>2, <2>3 DEF Perform
    <3> QED BY <1>0, <3>1, <3>2 DEF TypeOK
  <2> QED BY <1>2, <2>1, <2>2, <2>3 DEF Perform
<1>5. TypeOK'
  BY <1>0, <1>1, <1>3, <1>4 DEF TypeOK, Update, Session
<1>6. HoldSessions'
  BY <1>3, HoldStays DEF Inv, Made
<1>7. \A i \in 1 .. Len(todo') : todo'[i].op = "save" => Made(todo'[i].obj)
  <2> SUFFICES ASSUME NEW i \in 1 .. Len(todo'), todo'[i].op = "save" PROVE Made(todo'[i].obj)
    OBVIOUS
  <2>1. i + 1 \in 1 .. Len(todo) /\ todo'[i] = todo[i + 1]
    BY <1>0, <1>1
  <2> QED BY <2>1 DEF Inv, SavesSessions
<1> QED BY <1>3, <1>5, <1>6, <1>7, NothingMoves, SMTT(60)

\* The writes of an operation that saves one session, or none, after what it removes.
LEMMA TodoTyped ==
  ASSUME NEW s \in Seq(DeleteWrite \cup MetaWrite), NEW o \in Objs,
         NEW a \in [Users -> Ids \cup {NoId}]
  PROVE  /\ s \in Seq(Write) /\ \A i \in 1 .. Len(s) : s[i].op # "save"
         /\ s \o <<Save(o), SaveMeta(a)>> \in Seq(Write)
         /\ \A i \in 1 .. Len(s \o <<Save(o), SaveMeta(a)>>) :
              (s \o <<Save(o), SaveMeta(a)>>)[i].op = "save" =>
                (s \o <<Save(o), SaveMeta(a)>>)[i].obj = o
<1> DEFINE t == <<Save(o), SaveMeta(a)>>
<1>1. s \in Seq(Write)
  BY SeqMonotonic, Writes
<1>2. /\ t \in Seq(Write) /\ Len(t) = 2 /\ t[1].obj = o /\ t[2].op = "meta"
  BY Writes
<1>3. \A i \in 1 .. Len(s) : s[i].op # "save"
  <2> SUFFICES ASSUME NEW i \in 1 .. Len(s) PROVE s[i].op # "save"
    OBVIOUS
  <2>1. s[i] \in DeleteWrite \cup MetaWrite
    BY ElementOfSeq
  <2> QED BY <2>1 DEF DeleteWrite, MetaWrite
<1> HIDE DEF t
<1>4. /\ s \o t \in Seq(Write) /\ Len(s \o t) = Len(s) + Len(t) /\ Len(s) \in Nat
      /\ \A i \in 1 .. Len(s) + Len(t) : (s \o t)[i] = IF i <= Len(s) THEN s[i] ELSE t[i - Len(s)]
  BY <1>1, <1>2, ConcatProperties, LenProperties
<1>5. ASSUME NEW i \in 1 .. Len(s \o t), (s \o t)[i].op = "save" PROVE (s \o t)[i].obj = o
  <2>1. CASE i <= Len(s)
    BY <1>3, <1>4, <1>5, <2>1
  <2>2. CASE i = Len(s) + 1
    BY <1>2, <1>4, <2>2
  <2>3. CASE i = Len(s) + 2
    BY <1>2, <1>4, <1>5, <2>3
  <2> QED BY <1>2, <1>4, <2>1, <2>2, <2>3
<1> QED BY <1>1, <1>3, <1>4, <1>5 DEF t

\* The other short lists of writes.
LEMMA ShortTodos ==
  ASSUME NEW o \in Objs, NEW id \in Ids, NEW a \in [Users -> Ids \cup {NoId}]
  PROVE  /\ <<>> \in Seq(Write) /\ <<SaveMeta(a)>> \in Seq(Write) /\ <<Save(o)>> \in Seq(Write)
         /\ <<Remove(id), SaveMeta(a)>> \in Seq(Write)
         /\ <<Save(o), Remove(id), SaveMeta(a)>> \in Seq(Write)
         /\ Save(o).obj = o /\ SaveMeta(a).op # "save" /\ Remove(id).op # "save"
BY Writes

\* A session leaves the map, and with it a user's place on it.
LEMMA Leaves ==
  ASSUME Inv, NEW gone \in SUBSET Ids, gone \subseteq Present,
         UNCHANGED obj, sessions' = [id \in Ids |-> IF id \in gone THEN NoObj ELSE sessions[id]],
         active' = Without(gone, active)
  PROVE  SessionsConsistent'
<1>0. SessionsConsistent
  BY DEF Inv
<1>1. Present' = Present \ gone
  BY ConstantsAssumption DEF Present
<1>2. \A id \in Present' : sessions'[id] = sessions[id]
  BY <1>1 DEF Present
<1>3. \A u \in Users : SessionsOf(u)' = SessionsOf(u) \ gone
  BY <1>1, <1>2 DEF SessionsOf, OwnerOf
<1>4. \A u \in Users : active'[u] # NoId =>
        active'[u] \in SessionsOf(u) \ gone \/ AnothersNumber(u, active'[u])
  BY <1>0 DEF Without, SessionsConsistent, SessionsOf
<1> QED BY <1>0, <1>1, <1>2, <1>3, <1>4 DEF SessionsConsistent, OwnerOf

\* Making a session fuller leaves it the session it was.
LEMMA Grows ==
  ASSUME Inv, NEW o \in Objs, Made(o), NEW more \in SUBSET Update,
         obj' = [obj EXCEPT ![o].ctx = @ \cup more]
  PROVE  /\ obj' \in [Objs -> Session \cup {[id |-> NoId, user |-> NoId, ctx |-> {}]}]
         /\ \A q \in Objs : Made(q) => Made(q)'
         /\ \A q \in Objs : obj'[q].id = obj[q].id /\ obj'[q].user = obj[q].user
<1>1. PICK s \in Session : s = obj[o]
  BY DEF Made
<1>2. obj' = [obj EXCEPT ![o] = [s EXCEPT !.ctx = @ \cup more]]
  BY <1>1
<1>3. [s EXCEPT !.ctx = @ \cup more] \in Session
  BY DEF Session
<1>4. [s EXCEPT !.ctx = @ \cup more].id = s.id /\ [s EXCEPT !.ctx = @ \cup more].user = s.user
  BY DEF Session
<1>5. obj \in [Objs -> Session \cup {[id |-> NoId, user |-> NoId, ctx |-> {}]}]
  BY DEF Inv, TypeOK
<1> QED BY <1>1, <1>2, <1>3, <1>4, <1>5 DEF Made

\* The map stays as it is, and so does who is whose.
LEMMA SameMap ==
  ASSUME Inv, UNCHANGED <<sessions, active>>,
         \A q \in Objs : obj'[q].id = obj[q].id /\ obj'[q].user = obj[q].user
  PROVE  SessionsConsistent'
<1>1. Present' = Present /\ \A id \in Present : sessions[id] \in Objs
  BY DEF Present, Inv, TypeOK
<1>2. \A id \in Present : OwnerOf(id)' = OwnerOf(id) /\ obj'[sessions'[id]].id = obj[sessions[id]].id
  BY <1>1 DEF OwnerOf
<1>3. \A u \in Users : SessionsOf(u)' = SessionsOf(u)
  BY <1>1, <1>2 DEF SessionsOf
<1> QED BY <1>1, <1>2, <1>3 DEF Inv, SessionsConsistent

\* An update of what a session holds.
LEMMA UpdateKeeps ==
  ASSUME Inv, NEW o \in Objs, Made(o), updates < MaxUpdates, updates' = updates + 1,
         obj' = [obj EXCEPT ![o].ctx = @ \cup {updates + 1}],
         UNCHANGED <<sessions, active, files, meta, crashes, persisted, clobbered, guessed>>,
         todo' = todo \/ todo' = <<Save(o)>>,
         proc' = proc \/ \E p \in Procs : proc[p].pc = "found" /\ proc' = [proc EXCEPT ![p].pc = "changed"]
  PROVE  Inv'
<1>1. updates' \in 0 .. MaxUpdates /\ {updates + 1} \in SUBSET Update
  BY ConstantsAssumption DEF Inv, TypeOK, Update
<1>2. /\ obj' \in [Objs -> Session \cup {[id |-> NoId, user |-> NoId, ctx |-> {}]}]
      /\ \A q \in Objs : Made(q) => Made(q)'
      /\ \A q \in Objs : obj'[q].id = obj[q].id /\ obj'[q].user = obj[q].user
  BY <1>1, Grows
<1>3. SessionsConsistent'
  BY <1>2, SameMap
<1>4. todo' \in Seq(Write) /\ SavesSessions'
  <2>1. CASE todo' = todo
    <3>1. \A i \in 1 .. Len(todo) : todo[i].op = "save" => todo[i].obj \in Objs /\ Made(todo[i].obj)
      BY DEF Inv, SavesSessions, Made
    <3>2. \A i \in 1 .. Len(todo) : todo[i].op = "save" => Made(todo[i].obj)'
      BY <1>2, <2>1, <3>1 DEF Made
    <3> QED BY <2>1, <3>1, <3>2 DEF Inv, TypeOK, SavesSessions
  <2>2. CASE todo' = <<Save(o)>>
    <3>1. <<Save(o)>> \in Seq(Write) /\ Save(o).obj = o
      BY ShortTodos, Writes
    <3>2. Len(todo') = 1 /\ todo'[1].obj = o /\ Made(o)'
      BY <1>2, <2>2, <3>1
    <3>3. SavesSessions'
      <4> SUFFICES ASSUME NEW i \in 1 .. Len(todo') PROVE (todo[i].op = "save" => Made(todo[i].obj))'
        BY DEF SavesSessions
      <4>1. i = 1
        BY <3>2
      <4> QED BY <3>2, <4>1 DEF Made
    <3> QED BY <2>2, <3>1, <3>3
  <2> QED BY <2>1, <2>2
<1>5. /\ proc' \in [Procs -> [pc : {"idle", "found", "changed", "missed"},
                              obj : Objs \cup {NoObj}, user : Users \cup {NoId}]]
      /\ HoldSessions'
  <2>1. CASE proc' = proc
    BY <1>2, <2>1, HoldStays DEF Inv, TypeOK
  <2>2. ASSUME NEW p \in Procs, proc[p].pc = "found", proc' = [proc EXCEPT ![p].pc = "changed"]
        PROVE  <1>5!1 /\ <1>5!2
    <3> DEFINE P == [pc : {"idle", "found", "changed", "missed"},
                     obj : Objs \cup {NoObj}, user : Users \cup {NoId}]
    <3>1. proc \in [Procs -> P]
      BY DEF Inv, TypeOK
    <3>2. PICK r \in P : r = proc[p]
      BY <3>1
    <3>3. /\ [r EXCEPT !.pc = "changed"] \in P /\ [r EXCEPT !.pc = "changed"].pc = "changed"
          /\ [r EXCEPT !.pc = "changed"].obj = r.obj
      OBVIOUS
    <3>4. proc' = [proc EXCEPT ![p] = [r EXCEPT !.pc = "changed"]]
      BY <2>2, <3>2
    <3>5. proc' \in [Procs -> P]
      BY <3>1, <3>3, <3>4
    <3>6. Made(proc[p].obj)' /\ proc'[p].obj = proc[p].obj /\ proc'[p].pc = "changed"
      <4>1. Made(proc[p].obj)
        BY <2>2 DEF Inv, HoldSessions
      <4>2. r.obj \in Objs /\ Made(r.obj)'
        BY <1>2, <3>2, <4>1 DEF Made
      <4> QED BY <3>1, <3>2, <3>3, <3>4, <4>2 DEF Made
    <3>7. HoldSessions'
      <4> SUFFICES ASSUME NEW q \in Procs
                   PROVE  (/\ proc[q].pc \in {"found", "changed"} => Made(proc[q].obj)
                           /\ proc[q].pc = "missed" => proc[q].user \in Users)'
        BY DEF HoldSessions
      <4>1. CASE q = p
        BY <3>6, <4>1 DEF Made
      <4>2. CASE q # p
        <5>1. proc'[q] = proc[q]
          BY <3>1, <3>4, <4>2
        <5> QED BY <1>2, <5>1 DEF Inv, HoldSessions, Made
      <4> QED BY <4>1, <4>2
    <3> QED BY <3>5, <3>7
  <2> QED BY <2>1, <2>2
<1>6. TypeOK'
  BY <1>1, <1>2, <1>4, <1>5 DEF Inv, TypeOK, Update, Session
<1> QED BY <1>3, <1>4, <1>5, <1>6 DEF Inv

LEMMA SetAndSaveKeeps == ASSUME Inv, NEW id \in Ids, SetAndSave(id) PROVE Inv'
<1>1. Made(sessions[id]) /\ sessions[id] \in Objs
  BY InMap DEF Inv, SetAndSave, Made
<1> QED BY <1>1, UpdateKeeps DEF SetAndSave

LEMMA UpdateChangeKeeps == ASSUME Inv, NEW p \in Procs, UpdateChange(p) PROVE Inv'
<1>1. Made(proc[p].obj) /\ proc[p].obj \in Objs
  BY DEF Inv, HoldSessions, UpdateChange, Made
<1> QED BY <1>1, UpdateKeeps DEF UpdateChange

\* An operation under the manager's lock: what is left to show of it is who is
\* where, and that it saves sessions only.
LEMMA LockedKeeps ==
  ASSUME Inv, SessionsConsistent', SavesSessions', todo' \in Seq(Write),
         UNCHANGED <<files, meta, updates, crashes, clobbered, guessed>>, persisted' \subseteq persisted,
         obj' \in [Objs -> Session \cup {[id |-> NoId, user |-> NoId, ctx |-> {}]}],
         sessions' \in [Ids -> Objs \cup {NoObj}], active' \in [Users -> Ids \cup {NoId}],
         \A q \in Objs : Made(q) => Made(q)',
         proc' = proc \/ \E p \in Procs : proc' = [proc EXCEPT ![p] = Idle]
  PROVE  Inv'
<1>1. /\ proc' \in [Procs -> [pc : {"idle", "found", "changed", "missed"},
                              obj : Objs \cup {NoObj}, user : Users \cup {NoId}]]
      /\ HoldSessions'
  <2>1. CASE proc' = proc
    BY <2>1, HoldStays DEF Inv, TypeOK
  <2>2. ASSUME NEW p \in Procs, proc' = [proc EXCEPT ![p] = Idle]
        PROVE  <1>1!1 /\ <1>1!2
    BY <2>2 DEF Inv, TypeOK, Idle, HoldSessions, Made
  <2> QED BY <2>1, <2>2
<1>2. TypeOK'
  BY <1>1 DEF Inv, TypeOK, Update, Session
<1> QED BY <1>1, <1>2 DEF Inv

\* One session is saved, or none.
LEMMA SavesOne ==
  ASSUME NEW o \in Objs, Made(o)',
         \A i \in 1 .. Len(todo') : todo'[i].op = "save" => todo'[i].obj = o
  PROVE  SavesSessions'
<1> SUFFICES ASSUME NEW i \in 1 .. Len(todo') PROVE (todo[i].op = "save" => Made(todo[i].obj))'
  BY DEF SavesSessions
<1> QED BY DEF Made

LEMMA SavesNone ==
  ASSUME \A i \in 1 .. Len(todo') : todo'[i].op # "save"
  PROVE  SavesSessions'
BY DEF SavesSessions

LEMMA SetActiveSessionKeeps ==
  ASSUME Inv, NEW u \in Users, NEW id \in Ids, id \in SessionsOf(u), active' = [active EXCEPT ![u] = id],
         todo' = <<SaveMeta(active')>>,
         UNCHANGED <<obj, sessions, files, meta, proc, updates, crashes, persisted, clobbered, guessed>>
  PROVE  Inv'
<1>1. active' \in [Users -> Ids \cup {NoId}]
  BY DEF Inv, TypeOK
<1>2. PICK a \in [Users -> Ids \cup {NoId}] : a = active'
  BY <1>1
<1>3. /\ SaveMeta(a) \in MetaWrite /\ SaveMeta(a).op = "meta" /\ MetaWrite \subseteq Write
  BY Writes
<1>4. todo' \in Seq(Write) /\ SavesSessions'
  <2>1. todo' = <<SaveMeta(a)>> /\ Len(todo') = 1
    BY <1>2
  <2>2. \A i \in 1 .. Len(todo') : todo'[i].op # "save"
    BY <1>3, <2>1
  <2>3. <<SaveMeta(a)>> \in Seq(Write)
    BY <1>3
  <2> QED BY <2>1, <2>2, <2>3, SavesNone
<1>5. SessionsConsistent'
  <2>1. SessionsConsistent /\ active \in [Users -> Ids \cup {NoId}]
    BY DEF Inv, TypeOK
  <2>2. Present' = Present /\ \A i : OwnerOf(i)' = OwnerOf(i)
    BY DEF Present, OwnerOf
  <2>3. \A v \in Users : SessionsOf(v)' = SessionsOf(v)
    BY <2>2 DEF SessionsOf
  <2>4. \A v \in Users : active'[v] # NoId => active'[v] \in SessionsOf(v) \/ AnothersNumber(v, active'[v])
    BY <2>1 DEF SessionsConsistent
  <2> QED BY <2>1, <2>2, <2>3, <2>4 DEF SessionsConsistent
<1>6. \A q \in Objs : Made(q) => Made(q)'
  BY DEF Made
<1>7. /\ obj' \in [Objs -> Session \cup {[id |-> NoId, user |-> NoId, ctx |-> {}]}]
      /\ sessions' \in [Ids -> Objs \cup {NoObj}]
  BY DEF Inv, TypeOK
<1> QED BY <1>1, <1>4, <1>5, <1>6, <1>7, LockedKeeps

\* Sessions go, and with them their users' places on them.
LEMMA GoneKeeps ==
  ASSUME Inv, NEW gone \in SUBSET Ids, gone \subseteq Present,
         sessions' = [id \in Ids |-> IF id \in gone THEN NoObj ELSE sessions[id]],
         active' = Without(gone, active), todo' \in Seq(DeleteWrite \cup MetaWrite),
         persisted' \subseteq persisted,
         UNCHANGED <<obj, files, meta, updates, crashes, clobbered, guessed>>,
         proc' = proc \/ \E p \in Procs : proc' = [proc EXCEPT ![p] = Idle]
  PROVE  Inv'
<1>1. SessionsConsistent'
  BY Leaves
<1>2. \A i \in 1 .. Len(todo') : todo'[i].op # "save"
  <2> SUFFICES ASSUME NEW i \in 1 .. Len(todo') PROVE todo'[i].op # "save"
    OBVIOUS
  <2>1. todo'[i] \in DeleteWrite \cup MetaWrite
    BY ElementOfSeq
  <2> QED BY <2>1 DEF DeleteWrite, MetaWrite
<1>3. todo' \in Seq(Write)
  BY SeqMonotonic, Writes
<1>4. \A q \in Objs : Made(q) => Made(q)'
  BY DEF Made
<1>5. /\ sessions' \in [Ids -> Objs \cup {NoObj}]
      /\ obj' \in [Objs -> Session \cup {[id |-> NoId, user |-> NoId, ctx |-> {}]}]
  BY DEF Inv, TypeOK
<1>6. active' \in [Users -> Ids \cup {NoId}]
  BY WithoutType DEF Inv
<1>7. SavesSessions'
  BY <1>2, SavesNone
<1> QED BY <1>1, <1>3, <1>4, <1>5, <1>6, <1>7, LockedKeeps

LEMMA CleanExpiredKeeps == ASSUME Inv, CleanExpired PROVE Inv'
<1>1. PICK gone \in SUBSET (Present \ Touched) :
        /\ sessions' = [id \in Ids |-> IF id \in gone THEN NoObj ELSE sessions[id]]
        /\ active' = Without(gone, active)
        /\ todo' = CleanWrites(gone)
        /\ persisted' = persisted \ ContentsOf(gone)
  BY DEF CleanExpired
<1>2. gone \in SUBSET Ids /\ gone \subseteq Present
  BY DEF Present
<1>3. todo' \in Seq(DeleteWrite \cup MetaWrite)
  BY <1>1, <1>2, CleanUp DEF Inv
<1>4. UNCHANGED <<obj, files, meta, proc, updates, crashes, clobbered, guessed>>
  BY DEF CleanExpired
<1> QED BY <1>1, <1>2, <1>3, <1>4, GoneKeeps

LEMMA DeleteKeeps == ASSUME Inv, NEW id \in Ids, Delete(id) PROVE Inv'
<1> DEFINE gone == {id} \cap Present
<1>0. sessions \in [Ids -> Objs \cup {NoObj}] /\ active \in [Users -> Ids \cup {NoId}]
      /\ SessionsConsistent
  BY DEF Inv, TypeOK
<1>1. sessions' = [i \in Ids |-> IF i \in gone THEN NoObj ELSE sessions[i]]
  BY <1>0 DEF Delete, Present
<1>2. active' = Without(gone, active)
  <2>1. CASE id \in Present
    <3>1. gone = {id}
      BY <2>1
    <3> QED BY <2>1, <3>1 DEF Delete
  <2>2. CASE id \notin Present
    <3>1. gone = {}
      BY <2>2
    <3> QED BY <1>0, <2>2, <3>1 DEF Delete, Without
  <2> QED BY <2>1, <2>2
<1>3. active' \in [Users -> Ids \cup {NoId}]
  BY <1>2, WithoutType DEF Inv
<1>4. todo' \in Seq(DeleteWrite \cup MetaWrite)
  <2>1. PICK a \in [Users -> Ids \cup {NoId}] : a = active'
    BY <1>3
  <2>2. Remove(id) \in DeleteWrite /\ SaveMeta(a) \in MetaWrite
    BY Writes
  <2> QED BY <2>1, <2>2 DEF Delete
<1>5. persisted' \subseteq persisted /\ UNCHANGED <<obj, files, meta, proc, updates, crashes, clobbered, guessed>>
  BY DEF Delete
<1>6. gone \in SUBSET Ids /\ gone \subseteq Present
  OBVIOUS
<1> QED BY <1>1, <1>2, <1>4, <1>5, <1>6, GoneKeeps

\* A session is filed under an id that it takes: nobody has the object, and who
\* has the id loses it.
LEMMA Files ==
  ASSUME Inv, NEW id \in Ids, NEW u \in Users, NEW o \in Objs, NEW gone \in SUBSET Ids,
         NEW s \in Session, s.id = id, s.user = u, MayTake(id, u),
         \A i \in Ids : sessions[i] # o, gone \subseteq Present,
         obj' = [obj EXCEPT ![o] = s],
         sessions' \in [Ids -> Objs \cup {NoObj}], sessions'[id] = o,
         \A i \in Ids \ {id} : sessions'[i] = IF i \in gone THEN NoObj ELSE sessions[i],
         active' = [Without(gone, active) EXCEPT ![u] = id]
  PROVE  /\ SessionsConsistent'
         /\ obj' \in [Objs -> Session \cup {[id |-> NoId, user |-> NoId, ctx |-> {}]}]
         /\ active' \in [Users -> Ids \cup {NoId}]
         /\ \A q \in Objs : Made(q) => Made(q)'
<1>0. /\ obj \in [Objs -> Session \cup {[id |-> NoId, user |-> NoId, ctx |-> {}]}]
      /\ sessions \in [Ids -> Objs \cup {NoObj}]
      /\ Without(gone, active) \in [Users -> Ids \cup {NoId}]
      /\ SessionsConsistent /\ NoObj \notin Objs /\ NoId \notin Ids
  BY WithoutType, ConstantsAssumption DEF Inv, TypeOK
<1>1. Present' = (Present \ gone) \cup {id}
  BY <1>0 DEF Present
<1>2. /\ sessions'[id] = o /\ obj'[o] = s
      /\ \A i \in Present \ (gone \cup {id}) :
           sessions'[i] = sessions[i] /\ sessions[i] \in Objs /\ obj'[sessions[i]] = obj[sessions[i]]
  BY <1>0 DEF Present
<1>3. \A i \in Present' : obj'[sessions'[i]].id = i /\ OwnerOf(i)' \in Users
  BY <1>0, <1>1, <1>2 DEF SessionsConsistent, OwnerOf
<1>4. \A v \in Users : SessionsOf(v) \ (gone \cup {id}) \subseteq SessionsOf(v)'
  BY <1>1, <1>2 DEF SessionsOf, OwnerOf
<1>5. id \in SessionsOf(u)'
  BY <1>1, <1>2 DEF SessionsOf, OwnerOf
<1>6. \A v \in Users : Without(gone, active)[v] # NoId =>
        \/ Without(gone, active)[v] \in SessionsOf(v) \ gone
        \/ AnothersNumber(v, Without(gone, active)[v])
  BY <1>0 DEF Without, SessionsConsistent, SessionsOf
<1>7. ASSUME NEW v \in Users, active'[v] # NoId
      PROVE  active'[v] \in SessionsOf(v)' \/ AnothersNumber(v, active'[v])
  <2>1. CASE v = u
    BY <1>0, <1>5, <2>1
  <2>2. CASE v # u
    <3>1. active'[v] = Without(gone, active)[v]
      BY <1>0, <2>2
    <3>2. active'[v] = id /\ active'[v] \in SessionsOf(v) => AnothersNumber(v, active'[v])
      BY <2>2 DEF MayTake, SessionsOf, AnothersNumber
    <3> QED BY <1>4, <1>6, <1>7, <3>1, <3>2
  <2> QED BY <2>1, <2>2
<1>8. SessionsConsistent'
  BY <1>3, <1>7 DEF SessionsConsistent
<1> QED BY <1>0, <1>8 DEF Made

LEMMA CreateKeeps ==
  ASSUME Inv, Unlocked, NEW id \in Ids, NEW u \in Users, MayTake(id, u), CreateLocked(id, u),
         UNCHANGED <<files, meta, updates, crashes, clobbered, guessed>>,
         proc' = proc \/ \E p \in Procs : proc' = [proc EXCEPT ![p] = Idle]
  PROVE  Inv'
<1>1. PICK gone \in IF Full(Cardinality(Present)) THEN SUBSET (Present \ Touched) ELSE {{}} :
        IF Full(Cardinality(Present \ gone))
        THEN /\ sessions' = [i \in Ids |-> IF i \in gone THEN NoObj ELSE sessions[i]]
             /\ active' = Without(gone, active)
             /\ todo' = CleanWrites(gone)
             /\ persisted' = persisted \ ContentsOf(gone)
             /\ UNCHANGED obj
        ELSE /\ FreeObjs # {}
             /\ obj' = [obj EXCEPT ![NewObj] = [id |-> id, user |-> u, ctx |-> {}]]
             /\ sessions' = [i \in Ids |-> IF i = id THEN NewObj
                                           ELSE IF i \in gone THEN NoObj ELSE sessions[i]]
             /\ active' = [Without(gone, active) EXCEPT ![u] = id]
             /\ todo' = CleanWrites(gone) \o <<Save(NewObj), SaveMeta(active')>>
             /\ persisted' = persisted \ ContentsOf((gone \cup {id}) \cap Present)
  BY DEF CreateLocked
<1>2. gone \subseteq Present /\ gone \in SUBSET Ids
  BY <1>1 DEF Present
<1>3. CleanWrites(gone) \in Seq(DeleteWrite \cup MetaWrite)
  BY <1>2, CleanUp DEF Inv
<1>4. CASE Full(Cardinality(Present \ gone))
  BY <1>1, <1>2, <1>3, <1>4, GoneKeeps
<1>5. CASE ~Full(Cardinality(Present \ gone))
  <2>1. FreeObjs # {}
    BY <1>1, <1>5
  <2>2. PICK o \in Objs : o = NewObj /\ \A i \in Ids : sessions[i] # o
    BY <2>1, IsNew
  <2>3. PICK s \in Session : s = [id |-> id, user |-> u, ctx |-> {}]
    BY DEF Session
  <2>4. /\ obj' = [obj EXCEPT ![o] = s]
        /\ sessions' \in [Ids -> Objs \cup {NoObj}] /\ sessions'[id] = o
        /\ \A i \in Ids \ {id} : sessions'[i] = IF i \in gone THEN NoObj ELSE sessions[i]
        /\ active' = [Without(gone, active) EXCEPT ![u] = id]
        /\ todo' = CleanWrites(gone) \o <<Save(o), SaveMeta(active')>>
        /\ persisted' \subseteq persisted
    BY <1>1, <1>5, <2>2, <2>3, ZenonT(60) DEF Inv, TypeOK
  <2>5. s.id = id /\ s.user = u
    BY <2>3
  <2>6. /\ SessionsConsistent'
        /\ obj' \in [Objs -> Session \cup {[id |-> NoId, user |-> NoId, ctx |-> {}]}]
        /\ active' \in [Users -> Ids \cup {NoId}]
        /\ \A q \in Objs : Made(q) => Made(q)'
    BY <1>2, <2>2, <2>4, <2>5, Files
  <2>7. PICK a \in [Users -> Ids \cup {NoId}] : a = active'
    BY <2>6
  <2>8. /\ todo' \in Seq(Write)
        /\ \A i \in 1 .. Len(todo') : todo'[i].op = "save" => todo'[i].obj = o
    <3>1. PICK c \in Seq(DeleteWrite \cup MetaWrite) : c = CleanWrites(gone)
      BY <1>3
    <3>2. todo' = c \o <<Save(o), SaveMeta(a)>>
      BY <2>4, <2>7, <3>1
    <3> HIDE DEF Unlocked
    <3> QED BY <3>2, TodoTyped
  <2>9. Made(o)'
    BY <2>4, <2>6 DEF Made, Inv, TypeOK
  <2>10. SavesSessions'
    BY <2>8, <2>9, SavesOne
  <2> QED BY <2>4, <2>6, <2>8, <2>10, LockedKeeps
<1> QED BY <1>4, <1>5

LEMMA GetOrCreateKeeps == ASSUME Inv, NEW u \in Users, NEW id \in Ids, GetOrCreateSession(u, id) PROVE Inv'
<1>1. CASE id \in Present
  <2>1. /\ id \in SessionsOf(u) /\ active' = [active EXCEPT ![u] = id] /\ todo' = <<SaveMeta(active')>>
        /\ UNCHANGED <<obj, sessions, files, meta, proc, updates, crashes, persisted, clobbered, guessed>>
    BY <1>1 DEF GetOrCreateSession, SessionsOf
  <2> QED BY <2>1, SetActiveSessionKeeps
<1>2. CASE id \notin Present
  BY <1>2, CreateKeeps DEF GetOrCreateSession, MayTake
<1> QED BY <1>1, <1>2

\* The number of a user's next session is an id.
LEMMA NumberIsId ==
  ASSUME NEW u \in Users, NEW n \in DOMAIN NumberedId[u]
  PROVE  NumberedId[u][n] \in Ids
<1>1. NumberedId[u] \in Seq(Ids)
  BY ConstantsAssumption
<1> QED BY <1>1, ElementOfSeq


---------------------------------------------------------------------------
(* Adoption, updaters and restarts *)

\* A user's active session may take another id.
LEMMA MovedType ==
  ASSUME Inv, NEW old \in Present, NEW new \in Ids
  PROVE  /\ Moved(old, new) \in [Users -> Ids \cup {NoId}]
         /\ \A u \in Users : Moved(old, new)[u] = IF u = OwnerOf(old) /\ active[u] = old THEN new ELSE active[u]
<1>1. OwnerOf(old) \in Users /\ active \in [Users -> Ids \cup {NoId}]
  BY InMap DEF Inv, TypeOK
<1> QED BY <1>1 DEF Moved

LEMMA AdoptMergeKeeps ==
  ASSUME Inv, NEW old \in Ids, NEW new \in Ids, AdoptMerge(old, new) PROVE Inv'
<1>1. /\ old \in Present /\ new \in Present /\ old # new /\ OwnerOf(old) = OwnerOf(new)
      /\ obj' = [obj EXCEPT ![sessions[new]].ctx = @ \cup obj[sessions[old]].ctx]
      /\ sessions' = [sessions EXCEPT ![old] = NoObj]
      /\ active' = Moved(old, new)
      /\ todo' = <<Save(sessions[new]), Remove(old), SaveMeta(active')>>
      /\ UNCHANGED <<files, meta, proc, updates, crashes, persisted, clobbered, guessed>>
  BY DEF AdoptMerge
<1>2. PICK o \in Objs : o = sessions[new] /\ Made(o)
  BY <1>1, InMap DEF Inv, Made
<1>3. obj[sessions[old]].ctx \in SUBSET Update
  <2>1. obj[sessions[old]] \in Session
    BY <1>1, InMap DEF Inv, Made
  <2> QED BY <2>1 DEF Session
<1>4. /\ obj' \in [Objs -> Session \cup {[id |-> NoId, user |-> NoId, ctx |-> {}]}]
      /\ \A q \in Objs : Made(q) => Made(q)'
      /\ \A q \in Objs : obj'[q].id = obj[q].id /\ obj'[q].user = obj[q].user
  BY <1>1, <1>2, <1>3, Grows
<1>5. sessions \in [Ids -> Objs \cup {NoObj}] /\ SessionsConsistent
  BY DEF Inv, TypeOK
<1>6. /\ active' \in [Users -> Ids \cup {NoId}] /\ sessions' \in [Ids -> Objs \cup {NoObj}]
      /\ \A u \in Users : active'[u] = IF u = OwnerOf(old) /\ active[u] = old THEN new ELSE active[u]
  BY <1>1, <1>5, MovedType
<1>7. SessionsConsistent'
  <2>1. Present' = Present \ {old}
    BY <1>1, <1>5 DEF Present
  <2>2. \A id \in Present' : sessions'[id] = sessions[id] /\ sessions[id] \in Objs /\ OwnerOf(id)' = OwnerOf(id)
    BY <1>1, <1>4, <1>5, <2>1 DEF Present, OwnerOf
  <2>3. \A u \in Users : SessionsOf(u)' = SessionsOf(u) \ {old}
    BY <2>1, <2>2 DEF SessionsOf
  <2>0. PICK w : w = OwnerOf(old)
    OBVIOUS
  <2>4. new \in SessionsOf(w)'
    BY <1>1, <2>0, <2>1, <2>2 DEF SessionsOf
  <2>5. ASSUME NEW u \in Users, active'[u] # NoId
        PROVE  active'[u] \in SessionsOf(u)' \/ AnothersNumber(u, active'[u])
    <3>1. CASE u = OwnerOf(old) /\ active[u] = old
      BY <1>6, <2>0, <2>4, <3>1
    <3>2. CASE u = OwnerOf(old) /\ active[u] # old
      BY <1>5, <1>6, <2>3, <2>5, <3>2 DEF SessionsConsistent
    <3>3. CASE u # OwnerOf(old)
      <4>1. active'[u] \in SessionsOf(u) \/ AnothersNumber(u, active'[u])
        BY <1>5, <1>6, <2>5, <3>3 DEF SessionsConsistent
      <4>2. old \notin SessionsOf(u)
        BY <3>3 DEF SessionsOf
      <4> QED BY <2>3, <4>1, <4>2
    <3> QED BY <3>1, <3>2, <3>3
  <2>6. \A id \in Present' : obj'[sessions'[id]].id = id /\ OwnerOf(id)' \in Users
    BY <1>4, <1>5, <2>1, <2>2 DEF SessionsConsistent
  <2> QED BY <2>5, <2>6 DEF SessionsConsistent
<1>8. todo' \in Seq(Write) /\ \A i \in 1 .. Len(todo') : todo'[i].op = "save" => todo'[i].obj = o
  <2>1. PICK a \in [Users -> Ids \cup {NoId}] : a = active'
    BY <1>6
  <2>2. todo' = <<Save(o), Remove(old), SaveMeta(a)>> /\ Len(todo') = 3
    BY <1>1, <1>2, <2>1
  <2>3. /\ <<Save(o), Remove(old), SaveMeta(a)>> \in Seq(Write)
        /\ Save(o).obj = o /\ SaveMeta(a).op # "save" /\ Remove(old).op # "save"
    BY ShortTodos
  <2> QED BY <2>2, <2>3
<1>9. SavesSessions'
  BY <1>2, <1>4, <1>8, SavesOne
<1> QED BY <1>1, <1>4, <1>6, <1>7, <1>8, <1>9, LockedKeeps

LEMMA AdoptRenameKeeps ==
  ASSUME Inv, NEW old \in Ids, NEW new \in Ids, AdoptRename(old, new) PROVE Inv'
<1>1. /\ old \in Present /\ new \notin Present
      /\ obj' = [obj EXCEPT ![sessions[old]].id = new]
      /\ sessions' = [sessions EXCEPT ![old] = NoObj, ![new] = sessions[old]]
      /\ active' = Moved(old, new)
      /\ todo' = <<Save(sessions[old]), Remove(old), SaveMeta(active')>>
      /\ UNCHANGED <<files, meta, proc, updates, crashes, persisted, clobbered, guessed>>
  BY DEF AdoptRename
<1>2. PICK o \in Objs : o = sessions[old] /\ Made(o)
  BY <1>1, InMap DEF Inv, Made
<1>3. PICK s \in Session : s = obj[o]
  BY <1>2 DEF Made
<1>4. PICK t \in Session : t.id = new /\ t.user = s.user /\ t = [s EXCEPT !.id = new]
  BY DEF Session
<1>5. obj' = [obj EXCEPT ![o] = t]
  BY <1>1, <1>2, <1>3, <1>4
<1>6. /\ sessions \in [Ids -> Objs \cup {NoObj}] /\ SessionsConsistent /\ NoObj \notin Objs
      /\ obj \in [Objs -> Session \cup {[id |-> NoId, user |-> NoId, ctx |-> {}]}]
      /\ \A i \in Present : i # old => sessions[i] # o
  BY <1>1, <1>2, InMap, ConstantsAssumption DEF Inv, TypeOK
<1>7. /\ obj' \in [Objs -> Session \cup {[id |-> NoId, user |-> NoId, ctx |-> {}]}]
      /\ \A q \in Objs : Made(q) => Made(q)'
      /\ \A q \in Objs : obj'[q].user = obj[q].user /\ (q # o => obj'[q] = obj[q])
  BY <1>3, <1>4, <1>5, <1>6 DEF Made
<1>8. /\ active' \in [Users -> Ids \cup {NoId}] /\ sessions' \in [Ids -> Objs \cup {NoObj}]
      /\ \A u \in Users : active'[u] = IF u = OwnerOf(old) /\ active[u] = old THEN new ELSE active[u]
  BY <1>1, <1>2, <1>6, MovedType
<1>9. SessionsConsistent'
  <2>1. Present' = (Present \ {old}) \cup {new} /\ old # new /\ sessions'[new] = o
    BY <1>1, <1>2, <1>6 DEF Present
  <2>2. \A id \in Present \ {old} : /\ sessions'[id] = sessions[id] /\ sessions[id] \in Objs
                                    /\ obj'[sessions[id]] = obj[sessions[id]]
                                    /\ OwnerOf(id)' = OwnerOf(id)
    BY <1>1, <1>6, <1>7 DEF Present, OwnerOf
  <2>3. OwnerOf(new)' = OwnerOf(old) /\ obj'[o].id = new /\ OwnerOf(old) \in Users
    BY <1>1, <1>2, <1>4, <1>5, <1>6, <1>7, <2>1 DEF OwnerOf, SessionsConsistent
  <2>4. \A u \in Users : SessionsOf(u) \ {old} \subseteq SessionsOf(u)'
    BY <2>1, <2>2 DEF SessionsOf
  <2>0. PICK w : w = OwnerOf(old)
    OBVIOUS
  <2>5. new \in SessionsOf(w)'
    BY <2>0, <2>1, <2>3 DEF SessionsOf
  <2>6. ASSUME NEW u \in Users, active'[u] # NoId
        PROVE  active'[u] \in SessionsOf(u)' \/ AnothersNumber(u, active'[u])
    <3>1. CASE u = OwnerOf(old) /\ active[u] = old
      BY <1>8, <2>0, <2>5, <3>1
    <3>2. CASE u = OwnerOf(old) /\ active[u] # old
      BY <1>6, <1>8, <2>4, <2>6, <3>2 DEF SessionsConsistent
    <3>3. CASE u # OwnerOf(old)
      <4>1. active'[u] \in SessionsOf(u) \/ AnothersNumber(u, active'[u])
        BY <1>6, <1>8, <2>6, <3>3 DEF SessionsConsistent
      <4>2. old \notin SessionsOf(u)
        BY <3>3 DEF SessionsOf
      <4> QED BY <2>4, <4>1, <4>2
    <3> QED BY <3>1, <3>2, <3>3
  <2>7. \A id \in Present' : obj'[sessions'[id]].id = id /\ OwnerOf(id)' \in Users
    BY <1>6, <2>1, <2>2, <2>3 DEF SessionsConsistent
  <2> QED BY <2>6, <2>7 DEF SessionsConsistent
<1>10. todo' \in Seq(Write) /\ \A i \in 1 .. Len(todo') : todo'[i].op = "save" => todo'[i].obj = o
  <2>1. PICK a \in [Users -> Ids \cup {NoId}] : a = active'
    BY <1>8
  <2>2. todo' = <<Save(o), Remove(old), SaveMeta(a)>> /\ Len(todo') = 3
    BY <1>1, <1>2, <2>1
  <2>3. /\ <<Save(o), Remove(old), SaveMeta(a)>> \in Seq(Write)
        /\ Save(o).obj = o /\ SaveMeta(a).op # "save" /\ Remove(old).op # "save"
    BY ShortTodos
  <2> QED BY <2>2, <2>3
<1>11. SavesSessions'
  BY <1>2, <1>7, <1>10, SavesOne
<1> QED BY <1>1, <1>7, <1>8, <1>9, <1>10, <1>11, LockedKeeps

\* An updater finds a session, or sees that there is none, or is done.
LEMMA ProcKeeps ==
  ASSUME Inv, NEW p \in Procs,
         NEW r \in [pc : {"idle", "found", "changed", "missed"}, obj : Objs \cup {NoObj},
                    user : Users \cup {NoId}],
         r.pc \in {"found", "changed"} => Made(r.obj), r.pc = "missed" => r.user \in Users,
         proc' = [proc EXCEPT ![p] = r],
         UNCHANGED <<obj, sessions, active, files, meta, todo, updates, crashes, persisted, clobbered, guessed>>
  PROVE  Inv'
<1>1. TypeOK'
  BY DEF Inv, TypeOK, Update, Session
<1>2. HoldSessions'
  BY DEF Inv, TypeOK, HoldSessions, Made
<1>3. \A i \in 1 .. Len(todo') : todo'[i].op = "save" => Made(todo'[i].obj)
  BY DEF Inv, SavesSessions
<1> QED BY <1>1, <1>2, <1>3, NothingMoves

LEMMA UpdateFindKeeps == ASSUME Inv, NEW p \in Procs, NEW id \in Ids, UpdateFind(p, id) PROVE Inv'
<1>1. Made(sessions[id]) /\ sessions[id] \in Objs
  BY InMap DEF Inv, UpdateFind, Made
<1>2. PICK r \in [pc : {"idle", "found", "changed", "missed"}, obj : Objs \cup {NoObj},
                  user : Users \cup {NoId}] :
        r = [pc |-> "found", obj |-> sessions[id], user |-> NoId]
  BY <1>1
<1> QED BY <1>1, <1>2, ProcKeeps DEF UpdateFind

LEMMA MissActiveKeeps == ASSUME Inv, NEW p \in Procs, NEW u \in Users, MissActive(p, u) PROVE Inv'
<1>1. PICK r \in [pc : {"idle", "found", "changed", "missed"}, obj : Objs \cup {NoObj},
                  user : Users \cup {NoId}] :
        r = [pc |-> "missed", obj |-> NoObj, user |-> u]
  OBVIOUS
<1> QED BY <1>1, ProcKeeps DEF MissActive

LEMMA UpdateNothingKeeps == ASSUME Inv, NEW p \in Procs, UpdateNothing(p) PROVE Inv'
<1> DEFINE P == [pc : {"idle", "found", "changed", "missed"}, obj : Objs \cup {NoObj}, user : Users \cup {NoId}]
<1>0. Idle \in P /\ Idle.pc = "idle"
  BY DEF Idle
<1>1. PICK r \in P : r = Idle
  BY <1>0
<1>2. /\ proc' = [proc EXCEPT ![p] = r] /\ r.pc \notin {"found", "changed", "missed"}
      /\ UNCHANGED <<obj, sessions, active, files, meta, todo, updates, crashes, persisted, clobbered, guessed>>
  BY <1>0, <1>1 DEF UpdateNothing
<1> QED BY <1>2, ProcKeeps

LEMMA UpdateSaveKeeps == ASSUME Inv, NEW p \in Procs, UpdateSave(p) PROVE Inv'
<1>1. PICK o \in Objs : o = proc[p].obj /\ Made(o)
  BY DEF UpdateSave, Inv, HoldSessions, Made
<1>2. todo' = <<Save(o)>> /\ Len(todo') = 1 /\ Save(o) \in Write /\ Save(o).obj = o
  BY <1>1, Writes DEF UpdateSave
<1>3. todo' \in Seq(Write) /\ \A i \in 1 .. Len(todo') : todo'[i].op = "save" => todo'[i].obj = o
  <2>1. <<Save(o)>> \in Seq(Write)
    BY <1>2
  <2> QED BY <1>2, <2>1
<1>4. /\ UNCHANGED <<obj, sessions, active, files, meta, updates, crashes, persisted, clobbered, guessed>>
      /\ proc' = [proc EXCEPT ![p] = Idle]
  BY DEF UpdateSave
<1>5. SessionsConsistent'
  BY <1>4, SameMap
<1>6. /\ obj' \in [Objs -> Session \cup {[id |-> NoId, user |-> NoId, ctx |-> {}]}]
      /\ sessions' \in [Ids -> Objs \cup {NoObj}] /\ active' \in [Users -> Ids \cup {NoId}]
      /\ \A q \in Objs : Made(q) => Made(q)'
  BY <1>4 DEF Inv, TypeOK, Made
<1>7. SavesSessions'
  BY <1>1, <1>3, <1>6, SavesOne
<1> QED BY <1>3, <1>4, <1>5, <1>6, <1>7, LockedKeeps

---------------------------------------------------------------------------
(* A restart *)

\* There are objects enough for the sessions on disk.
LEMMA Objects ==
  ASSUME TypeOK, Cardinality(OnDisk) <= Cardinality(Objs)
  PROVE  \E f \in [OnDisk -> Objs] : \A i, j \in OnDisk : f[i] = f[j] => i = j
<1> DEFINE n == Cardinality(OnDisk)
           m == Cardinality(Objs)
<1>1. IsFiniteSet(OnDisk) /\ IsFiniteSet(Objs)
  <2>1. OnDisk \subseteq Ids
    BY DEF OnDisk
  <2> QED BY <2>1, FS_Subset, ConstantsAssumption
<1>2. n \in Nat /\ m \in Nat /\ ExistsBijection(1 .. n, OnDisk) /\ ExistsBijection(1 .. m, Objs)
  BY <1>1, FS_CardinalityType
<1>3. PICK b \in Bijection(1 .. n, OnDisk) : TRUE
  BY <1>2, Fun_ExistsBij
<1>4. PICK c \in Bijection(1 .. m, Objs) : TRUE
  BY <1>2, Fun_ExistsBij
<1>5. \A id \in OnDisk : \E i \in 1 .. n : b[i] = id
  <2>1. b \in Bijection(1 .. n, OnDisk)
    BY <1>3
  <2>2. b \in Surjection(1 .. n, OnDisk)
    BY <2>1 DEF Bijection
  <2> QED BY <2>2 DEF Surjection
<1>6. c \in [1 .. m -> Objs] /\ \A i, j \in 1 .. m : c[i] = c[j] => i = j
  <2>1. c \in Bijection(1 .. m, Objs)
    BY <1>4
  <2>2. c \in Injection(1 .. m, Objs)
    BY <2>1 DEF Bijection
  <2> QED BY <2>2 DEF Injection, IsInjective
<1> HIDE DEF n, m
<1> DEFINE at == [id \in OnDisk |-> CHOOSE i \in 1 .. n : b[i] = id]
<1>7. at \in [OnDisk -> 1 .. n] /\ \A id \in OnDisk : b[at[id]] = id
  BY <1>5
<1>8. 1 .. n \subseteq 1 .. m
  BY <1>2 DEF n, m
<1> HIDE DEF at
<1> DEFINE f == [id \in OnDisk |-> c[at[id]]]
<1>9. f \in [OnDisk -> Objs] /\ \A id \in OnDisk : f[id] = c[at[id]] /\ at[id] \in 1 .. m
  BY <1>6, <1>7, <1>8
<1> HIDE DEF f
<1>10. \A i, j \in OnDisk : f[i] = f[j] => i = j
  BY <1>6, <1>7, <1>9
<1> QED BY <1>9, <1>10

\* What a restart makes of the files.
LEMMA Restarts ==
  ASSUME Inv, CrashAndRestart
  PROVE  /\ sessions' \in [Ids -> Objs \cup {NoObj}] /\ Present' = OnDisk
         /\ obj' \in [Objs -> Session \cup {[id |-> NoId, user |-> NoId, ctx |-> {}]}]
         /\ \A id \in OnDisk : /\ obj'[sessions'[id]] = [id |-> id, user |-> files[id].user, ctx |-> files[id].ctx]
                               /\ obj'[sessions'[id]].id = id /\ obj'[sessions'[id]].user = files[id].user
         /\ \A o \in Objs : obj'[o].id # NoId =>
              obj'[o].id \in OnDisk /\ obj'[o].user = files[obj'[o].id].user
         /\ \A u \in Users : SessionsOf(u)' = OnDiskOf(u)
<1>1. PICK f \in [OnDisk -> Objs] :
        /\ \A i, j \in OnDisk : f[i] = f[j] => i = j
        /\ f = CHOOSE g \in [OnDisk -> Objs] : \A i, j \in OnDisk : g[i] = g[j] => i = j
  BY Objects DEF Inv, CrashAndRestart
<1>2. /\ sessions' = [id \in Ids |-> IF id \in OnDisk THEN f[id] ELSE NoObj]
      /\ obj' = [o \in Objs |->
                   IF \E id \in OnDisk : f[id] = o
                   THEN LET id == CHOOSE i \in OnDisk : f[i] = o
                        IN [id |-> id, user |-> files[id].user, ctx |-> files[id].ctx]
                   ELSE [id |-> NoId, user |-> NoId, ctx |-> {}]]
  BY <1>1 DEF CrashAndRestart
<1>3. OnDisk \subseteq Ids /\ NoId \notin Ids /\ NoObj \notin Objs
  BY ConstantsAssumption DEF OnDisk
<1>4. \A id \in OnDisk : files[id] \in File
  BY DEF Inv, TypeOK, OnDisk
<1>5. \A id \in OnDisk : /\ [id |-> id, user |-> files[id].user, ctx |-> files[id].ctx] \in Session
                         /\ files[id].user \in Users
  BY <1>3, <1>4 DEF Session, File
<1>6. \A id \in OnDisk : (CHOOSE i \in OnDisk : f[i] = f[id]) = id
  BY <1>1
<1>7. sessions' \in [Ids -> Objs \cup {NoObj}] /\ Present' = OnDisk
  BY <1>1, <1>2, <1>3 DEF Present
<1>8. \A id \in OnDisk : sessions'[id] = f[id] /\ f[id] \in Objs
  BY <1>1, <1>2, <1>3
<1>9. \A id \in OnDisk : obj'[f[id]] = [id |-> id, user |-> files[id].user, ctx |-> files[id].ctx]
  BY <1>2, <1>6, <1>8
<1>10. \A id \in OnDisk : obj'[f[id]].id = id /\ obj'[f[id]].user = files[id].user
  <2>1. \A r : \A id \in OnDisk : r = [id |-> id, user |-> files[id].user, ctx |-> files[id].ctx] =>
                 r.id = id /\ r.user = files[id].user
    OBVIOUS
  <2> QED BY <1>9, <2>1, ZenonT(60)
<1>11. \A o \in Objs : (\E id \in OnDisk : o = f[id]) \/ obj'[o] = [id |-> NoId, user |-> NoId, ctx |-> {}]
  BY <1>2
<1>12. \A o \in Objs : (\E id \in OnDisk : o = f[id]) \/ obj'[o].id = NoId
  <2>1. \A r : r = [id |-> NoId, user |-> NoId, ctx |-> {}] => r.id = NoId
    OBVIOUS
  <2> QED BY <1>11, <2>1
<1>13. obj' \in [Objs -> Session \cup {[id |-> NoId, user |-> NoId, ctx |-> {}]}]
  BY <1>2, <1>5, <1>9, <1>11
<1>14. \A o \in Objs : obj'[o].id # NoId =>
              obj'[o].id \in OnDisk /\ obj'[o].user = files[obj'[o].id].user
  <2> SUFFICES ASSUME NEW o \in Objs, obj'[o].id # NoId
               PROVE  obj'[o].id \in OnDisk /\ obj'[o].user = files[obj'[o].id].user
    OBVIOUS
  <2>1. PICK id \in OnDisk : o = f[id]
    BY <1>12
  <2> QED BY <1>10, <2>1
<1>15. \A u \in Users : SessionsOf(u)' = OnDiskOf(u)
  <2>1. \A id \in OnDisk : OwnerOf(id)' = files[id].user
    BY <1>8, <1>10 DEF OwnerOf
  <2> QED BY <1>7, <2>1 DEF SessionsOf, OnDiskOf
<1> QED BY <1>7, <1>8, <1>9, <1>10, <1>13, <1>14, <1>15

\* A restarted session is as its file is.
LEMMA RestartsWhole ==
  ASSUME Inv, CrashAndRestart
  PROVE  Present' = OnDisk /\ \A id \in OnDisk : files'[id] = [user |-> OwnerOf(id)', ctx |-> obj'[sessions'[id]].ctx]
<1>1. Present' = OnDisk /\ UNCHANGED files
  BY Restarts, ZenonT(60) DEF CrashAndRestart
<1>2. SUFFICES ASSUME NEW id \in OnDisk
               PROVE  files[id] = [user |-> OwnerOf(id)', ctx |-> obj'[sessions'[id]].ctx]
  BY <1>1
<1>3. obj'[sessions'[id]] = [id |-> id, user |-> files[id].user, ctx |-> files[id].ctx]
  BY Restarts
<1>4. \A r : r = [id |-> id, user |-> files[id].user, ctx |-> files[id].ctx] =>
               r.user = files[id].user /\ r.ctx = files[id].ctx
  OBVIOUS
<1>5. PICK g \in File : g = files[id]
  BY DEF Inv, TypeOK, OnDisk
<1>6. g = [user |-> g.user, ctx |-> g.ctx]
  BY DEF File
<1> QED BY <1>3, <1>4, <1>5, <1>6 DEF OwnerOf

LEMMA CrashKeeps == ASSUME Inv, CrashAndRestart PROVE Inv'
<1>1. /\ sessions' \in [Ids -> Objs \cup {NoObj}] /\ Present' = OnDisk
      /\ obj' \in [Objs -> Session \cup {[id |-> NoId, user |-> NoId, ctx |-> {}]}]
      /\ \A id \in OnDisk : obj'[sessions'[id]].id = id /\ obj'[sessions'[id]].user = files[id].user
      /\ \A u \in Users : SessionsOf(u)' = OnDiskOf(u)
  BY Restarts
<1>2. \A id \in OnDisk : files[id].user \in Users
  BY DEF Inv, TypeOK, OnDisk, File
<1>3. /\ active' \in [Users -> Ids \cup {NoId}] /\ RestoredActive(active') /\ todo' = <<>>
      /\ proc' = [p \in Procs |-> Idle] /\ crashes < MaxCrashes /\ crashes' = crashes + 1
      /\ guessed' \in BOOLEAN /\ UNCHANGED <<files, meta, updates, persisted, clobbered>>
  BY DEF CrashAndRestart
<1>4. \A u \in Users : active'[u] # NoId => active'[u] \in OnDiskOf(u)
  BY <1>3 DEF RestoredActive
<1>5. SessionsConsistent'
  <2>1. \A id \in OnDisk : OwnerOf(id)' \in Users /\ obj'[sessions'[id]].id = id
    BY <1>1, <1>2 DEF OwnerOf
  <2> QED BY <1>1, <1>4, <2>1 DEF SessionsConsistent
<1>6. todo' \in Seq(Write) /\ SavesSessions'
  BY <1>3, ShortTodos DEF SavesSessions
<1>7. /\ proc' \in [Procs -> [pc : {"idle", "found", "changed", "missed"},
                              obj : Objs \cup {NoObj}, user : Users \cup {NoId}]]
      /\ HoldSessions'
  BY <1>3 DEF Idle, HoldSessions
<1>8. crashes' \in 0 .. MaxCrashes
  BY <1>3, ConstantsAssumption DEF Inv, TypeOK
<1>9. TypeOK'
  BY <1>1, <1>3, <1>6, <1>7, <1>8 DEF Inv, TypeOK, Update, Session
<1> QED BY <1>5, <1>6, <1>7, <1>9 DEF Inv

---------------------------------------------------------------------------
(* The theorems *)

LEMMA InitHolds == Init => Inv
<1> SUFFICES ASSUME Init PROVE Inv
  OBVIOUS
<1>1. TypeOK
  <2>1. /\ obj \in [Objs -> Session \cup {[id |-> NoId, user |-> NoId, ctx |-> {}]}]
        /\ files \in [Ids -> File \cup {NoFile}]
    BY DEF Init
  <2>2. proc \in [Procs -> [pc : {"idle", "found", "changed", "missed"},
                            obj : Objs \cup {NoObj}, user : Users \cup {NoId}]]
    BY DEF Init, Idle
  <2>3. todo \in Seq(Write) /\ updates \in 0 .. MaxUpdates /\ crashes \in 0 .. MaxCrashes
    BY ConstantsAssumption, ShortTodos DEF Init
  <2> QED BY <2>1, <2>2, <2>3 DEF Init, TypeOK
<1>2. Present = {}
  BY DEF Init, Present
<1>3. SessionsConsistent
  BY <1>2 DEF SessionsConsistent, Init
<1>4. SavesSessions /\ HoldSessions
  BY DEF Init, SavesSessions, HoldSessions, Idle
<1> QED BY <1>1, <1>3, <1>4 DEF Inv

LEMMA CreateNextKeeps ==
  ASSUME Inv, NEW p \in Procs, CreateNext(p) PROVE Inv'
<1>1. PICK u \in Users : u = proc[p].user
  BY DEF CreateNext, Inv, HoldSessions
<1>2. /\ Unlocked /\ NextNumber(u) \in DOMAIN NumberedId[u]
      /\ CreateLocked(NumberedId[u][NextNumber(u)], u)
      /\ proc' = [proc EXCEPT ![p] = Idle]
      /\ UNCHANGED <<files, meta, updates, crashes, clobbered, guessed>>
  BY <1>1 DEF CreateNext
<1>3. PICK id \in Ids : id = NumberedId[u][NextNumber(u)]
  BY <1>2, NumberIsId
<1>4. CreateLocked(id, u) /\ MayTake(id, u)
  BY <1>2, <1>3 DEF MayTake
<1> QED BY <1>2, <1>4, CreateKeeps

LEMMA StepKeeps == Inv /\ [Next]_vars => Inv'
<1> SUFFICES ASSUME Inv, [Next]_vars PROVE Inv'
  OBVIOUS
<1>1. CASE Perform
  BY <1>1, PerformKeeps
<1>2. CASE CleanExpired
  BY <1>2, CleanExpiredKeeps
<1>3. ASSUME NEW u \in Users, NEW id \in Ids, GetOrCreateSession(u, id) PROVE Inv'
  BY <1>3, GetOrCreateKeeps
<1>4. ASSUME NEW u \in Users, NEW id \in Ids, SetActiveSession(u, id) PROVE Inv'
  BY <1>4, SetActiveSessionKeeps DEF SetActiveSession
<1>5. ASSUME NEW id \in Ids, Delete(id) \/ SetAndSave(id) PROVE Inv'
  BY <1>5, DeleteKeeps, SetAndSaveKeeps
<1>6. ASSUME NEW old \in Ids, NEW new \in NativeIds, AdoptMerge(old, new) \/ AdoptRename(old, new)
      PROVE  Inv'
  <2>1. new \in Ids
    BY ConstantsAssumption
  <2> QED BY <1>6, <2>1, AdoptMergeKeeps, AdoptRenameKeeps
<1>7. ASSUME NEW p \in Procs, NEW id \in Ids, UpdateFind(p, id) PROVE Inv'
  BY <1>7, UpdateFindKeeps
<1>8. ASSUME NEW p \in Procs, UpdateChange(p) \/ UpdateNothing(p) \/ UpdateSave(p) PROVE Inv'
  BY <1>8, UpdateChangeKeeps, UpdateNothingKeeps, UpdateSaveKeeps
<1>9. ASSUME NEW p \in Procs, NEW u \in Users, MissActive(p, u) PROVE Inv'
  BY <1>9, MissActiveKeeps
<1>10. ASSUME NEW p \in Procs, CreateNext(p) PROVE Inv'
  BY <1>10, CreateNextKeeps
<1>11. CASE CrashAndRestart
  BY <1>11, CrashKeeps
<1>12. CASE UNCHANGED vars
  <2>1. TypeOK'
    BY <1>12 DEF vars, Inv, TypeOK, Update, Session
  <2>2. HoldSessions'
    BY <1>12 DEF vars, Inv, HoldSessions, Made
  <2>3. \A i \in 1 .. Len(todo') : todo'[i].op = "save" => Made(todo'[i].obj)
    BY <1>12 DEF vars, Inv, SavesSessions
  <2> QED BY <1>12, <2>1, <2>2, <2>3, NothingMoves DEF vars
<1> QED BY <1>1, <1>2, <1>3, <1>4, <1>5, <1>6, <1>7, <1>8, <1>9, <1>10, <1>11, <1>12
       DEF Next, Operation, Process

---------------------------------------------------------------------------
(* What is on disk *)

Changing(id) == \E p \in Procs : proc[p].pc = "changed" /\ proc[p].obj = sessions[id]
Pending(id) == \E i \in 1 .. Len(todo) : todo[i].op = "save" /\ todo[i].obj = sessions[id]
InFile(id) == files[id] = [user |-> OwnerOf(id), ctx |-> obj[sessions[id]].ctx]

Owned(id) == files[id].user = OwnerOf(id)

\* A session that an operation has just made: it holds nothing, and no updater
\* has it.
Empty(id) == obj[sessions[id]].ctx = {} /\ \A p \in Procs : proc[p].obj # sessions[id]

\* Only files of sessions that are gone are removed, or, by an operation that
\* makes another of that id, before it is saved.
RemovesGone ==
  \A i \in 1 .. Len(todo) : todo[i].op = "delete" =>
    \/ todo[i].id \notin Present
    \/ /\ Empty(todo[i].id)
       /\ \E j \in i + 1 .. Len(todo) : todo[j].op = "save" /\ todo[j].obj = sessions[todo[i].id]

\* A session is on disk as in memory, or its save is to come.
SavedOrPending ==
  \A id \in Present \ clobbered : (Changing(id) /\ Owned(id)) \/ Pending(id) \/ InFile(id)

\* An update that was on disk is in a session and its file, or, while a session
\* moves, in some file and in the session that the next write saves.
KeptIn(t, id) == id \in Present /\ t \in obj[sessions[id]].ctx /\ t \in files[id].ctx
Moves(t) ==
  /\ todo # <<>> /\ Head(todo).op = "save"
  /\ Live(Head(todo).obj) /\ t \in obj[Head(todo).obj].ctx
  /\ \E id \in Ids : t \in files[id].ctx
Kept == \A t \in persisted : (\E id \in Ids : KeptIn(t, id)) \/ Moves(t)

DiskInv == RemovesGone /\ SavedOrPending /\ Kept

\* What is left to write is a clean-up of gone, and then a save.
LEMMA CleanUpRemoves ==
  ASSUME TypeOK, NEW gone \in SUBSET Ids, NEW i \in 1 .. Len(CleanWrites(gone)),
         CleanWrites(gone)[i].op = "delete"
  PROVE  CleanWrites(gone)[i].id \in gone
<1>1. CASE gone = {}
  BY <1>1 DEF CleanWrites
<1>2. CASE gone # {}
  <2> DEFINE R == {Remove(id) : id \in gone}
  <2>1. PICK s \in Seq(R) : s = SeqOfRemoves(gone)
    BY Removes
  <2>2. PICK m \in MetaWrite : m = SaveMeta(Without(gone, active))
    BY WithoutType, Writes
  <2>3. CleanWrites(gone) = s \o <<m>>
    BY <1>2, <2>1, <2>2 DEF CleanWrites
  <2>4. R \subseteq Write /\ m \in Write /\ m.op = "meta"
    BY <2>2, Writes
  <2>5. s \in Seq(Write) /\ <<m>> \in Seq(Write) /\ Len(s) \in Nat /\ Len(<<m>>) = 1 /\ <<m>>[1] = m
    BY <2>1, <2>4, SeqMonotonic
  <2>6. /\ Len(s \o <<m>>) = Len(s) + 1
        /\ \A j \in 1 .. Len(s) + 1 : (s \o <<m>>)[j] = IF j <= Len(s) THEN s[j] ELSE <<m>>[j - Len(s)]
    BY <2>5, ConcatProperties
  <2>7. i \in 1 .. Len(s)
    BY <2>3, <2>4, <2>5, <2>6
  <2>8. CleanWrites(gone)[i] = s[i] /\ s[i] \in R
    BY <2>1, <2>3, <2>5, <2>6, <2>7, ElementOfSeq
  <2> QED BY <2>8 DEF Remove
<1> QED BY <1>1, <1>2

LEMMA TodoMore ==
  ASSUME NEW s \in Seq(DeleteWrite \cup MetaWrite), NEW o \in Objs,
         NEW a \in [Users -> Ids \cup {NoId}]
  PROVE  /\ Len(s) + 1 \in 1 .. Len(s \o <<Save(o), SaveMeta(a)>>)
         /\ (s \o <<Save(o), SaveMeta(a)>>)[Len(s) + 1] = Save(o)
         /\ \A i \in 1 .. Len(s \o <<Save(o), SaveMeta(a)>>) :
              (s \o <<Save(o), SaveMeta(a)>>)[i].op = "delete" =>
                i \in 1 .. Len(s) /\ (s \o <<Save(o), SaveMeta(a)>>)[i] = s[i]
         /\ s \o <<Save(o), SaveMeta(a)>> # <<>>
         /\ (s \o <<Save(o), SaveMeta(a)>>)[Len(s \o <<Save(o), SaveMeta(a)>>)] = SaveMeta(a)
<1> DEFINE t == <<Save(o), SaveMeta(a)>>
<1>1. s \in Seq(Write)
  BY SeqMonotonic, Writes
<1>2. /\ t \in Seq(Write) /\ Len(t) = 2 /\ t[1] = Save(o) /\ t[2] = SaveMeta(a)
      /\ Save(o).op = "save" /\ SaveMeta(a).op = "meta"
  BY Writes
<1> HIDE DEF t
<1>3. /\ s \o t \in Seq(Write) /\ Len(s \o t) = Len(s) + 2 /\ Len(s) \in Nat
      /\ \A i \in 1 .. Len(s) + 2 : (s \o t)[i] = IF i <= Len(s) THEN s[i] ELSE t[i - Len(s)]
  <2>1. /\ s \o t \in Seq(Write) /\ Len(s \o t) = Len(s) + Len(t) /\ Len(s) \in Nat
        /\ \A i \in 1 .. Len(s) + Len(t) : (s \o t)[i] = IF i <= Len(s) THEN s[i] ELSE t[i - Len(s)]
    BY <1>1, <1>2, ConcatProperties, LenProperties
  <2> QED BY <1>2, <2>1
<1>4. (s \o t)[Len(s) + 1] = Save(o) /\ (s \o t)[Len(s) + 2] = SaveMeta(a)
      /\ Len(s) + 1 \in 1 .. Len(s \o t)
  BY <1>2, <1>3
<1>5. ASSUME NEW i \in 1 .. Len(s \o t), (s \o t)[i].op = "delete"
      PROVE  i \in 1 .. Len(s) /\ (s \o t)[i] = s[i]
  <2>1. CASE i = Len(s) + 1
    BY <1>2, <1>4, <1>5, <2>1
  <2>2. CASE i = Len(s) + 2
    BY <1>2, <1>4, <1>5, <2>2
  <2>3. CASE i <= Len(s)
    BY <1>3, <2>3
  <2> QED BY <1>3, <2>1, <2>2, <2>3
<1>6. s \o t # <<>>
  BY <1>3, EmptySeq
<1> QED BY <1>3, <1>4, <1>5, <1>6 DEF t

LEMMA FileOwned ==
  ASSUME NEW id, InFile(id)
  PROVE  Owned(id)
<1>1. \A r, u, c : r = [user |-> u, ctx |-> c] => r.user = u
  OBVIOUS
<1> QED BY <1>1 DEF InFile, Owned

\* An operation of the manager: every session is as it was or will be saved.
LEMMA DiskLocked ==
  ASSUME Inv, DiskInv, Unlocked, UNCHANGED <<files, clobbered, guessed>>, persisted' \subseteq persisted,
         RemovesGone',
         \A id \in Present' : \/ /\ id \in Present /\ sessions'[id] = sessions[id]
                                 /\ obj'[sessions[id]] = obj[sessions[id]]
                                 /\ Changing(id) => Changing(id)'
                              \/ Pending(id)',
         \A t \in persisted' : \A id \in Present : KeptIn(t, id) =>
           (id \in Present' /\ t \in obj'[sessions'[id]].ctx) \/ Moves(t)'
  PROVE  DiskInv'
<1>1. todo = <<>>
  BY DEF Unlocked
<1>2. SavedOrPending'
  <2> SUFFICES ASSUME NEW id \in Present', id \notin clobbered, ~Pending(id)'
               PROVE  (Changing(id)' /\ Owned(id)') \/ InFile(id)'
    BY DEF SavedOrPending
  <2>1. /\ id \in Present /\ sessions'[id] = sessions[id]
        /\ obj'[sessions[id]] = obj[sessions[id]] /\ (Changing(id) => Changing(id)')
    OBVIOUS
  <2>2. (Changing(id) /\ Owned(id)) \/ InFile(id)
    BY <1>1, <2>1 DEF DiskInv, SavedOrPending, Pending
  <2>3. (InFile(id) => InFile(id)') /\ (Owned(id) => Owned(id)')
    BY <2>1 DEF InFile, Owned, OwnerOf
  <2> QED BY <2>1, <2>2, <2>3
<1>3. Kept'
  <2> SUFFICES ASSUME NEW t \in persisted', ~Moves(t)' PROVE \E id \in Ids : KeptIn(t, id)'
    BY DEF Kept
  <2>1. PICK id \in Ids : KeptIn(t, id)
    BY <1>1 DEF DiskInv, Kept, Moves
  <2>2. id \in Present' /\ t \in obj'[sessions'[id]].ctx
    BY <2>1 DEF KeptIn
  <2>3. KeptIn(t, id)'
    BY <2>1, <2>2 DEF KeptIn
  <2> QED BY <2>3
<1> QED BY <1>2, <1>3 DEF DiskInv

LEMMA DiskPerform == ASSUME Inv, DiskInv, Perform PROVE DiskInv'
<1>0. TypeOK /\ todo \in Seq(Write) /\ todo # <<>> /\ todo' = Tail(todo)
  BY DEF Inv, TypeOK, Perform, Unlocked
<1>1. /\ Head(todo) \in Write /\ Head(todo) = todo[1] /\ 1 \in 1 .. Len(todo)
      /\ Tail(todo) \in Seq(Write) /\ Len(Tail(todo)) = Len(todo) - 1 /\ Len(todo) \in Nat
      /\ \A i \in 1 .. Len(Tail(todo)) : Tail(todo)[i] = todo[i + 1]
  BY <1>0, HeadTailProperties, EmptySeq
<1>2. PICK w \in Write : w = Head(todo)
  BY <1>1, SMTT(60)
<1>3. UNCHANGED <<obj, sessions, active, proc>>
  BY DEF Perform
<1>4. Present' = Present /\ \A id : Changing(id)' = Changing(id) /\ OwnerOf(id)' = OwnerOf(id)
  BY <1>3 DEF Present, Changing, OwnerOf
<1>5. \A i \in 1 .. Len(todo') : i + 1 \in 1 .. Len(todo) /\ todo'[i] = todo[i + 1]
  BY <1>0, <1>1
<1>6. RemovesGone'
  <2> SUFFICES ASSUME NEW i \in 1 .. Len(todo'), todo'[i].op = "delete"
               PROVE  \/ todo'[i].id \notin Present
                      \/ /\ Empty(todo'[i].id)
                         /\ \E j \in i + 1 .. Len(todo') :
                              todo'[j].op = "save" /\ todo'[j].obj = sessions[todo'[i].id]
    BY <1>3, <1>4 DEF RemovesGone, Empty
  <2>1. i + 1 \in 1 .. Len(todo) /\ todo'[i] = todo[i + 1]
    BY <1>5
  <2>2. CASE todo[i + 1].id \notin Present
    BY <2>1, <2>2
  <2>3. ASSUME Empty(todo[i + 1].id),
               NEW j \in (i + 1) + 1 .. Len(todo), todo[j].op = "save", todo[j].obj = sessions[todo[i + 1].id]
        PROVE  /\ Empty(todo'[i].id)
               /\ \E k \in i + 1 .. Len(todo') :
                    todo'[k].op = "save" /\ todo'[k].obj = sessions[todo'[i].id]
    <3>1. j - 1 \in i + 1 .. Len(todo') /\ todo'[j - 1] = todo[j]
      BY <1>0, <1>1, <2>3
    <3> QED BY <2>1, <2>3, <3>1
  <2> QED BY <2>1, <2>2, <2>3 DEF DiskInv, RemovesGone
<1>7. ASSUME NEW id \in Ids, Pending(id), ~(w.op = "save" /\ w.obj = sessions[id])
      PROVE  Pending(id)'
  <2>1. PICK i \in 1 .. Len(todo) : todo[i].op = "save" /\ todo[i].obj = sessions[id]
    BY <1>7 DEF Pending
  <2>2. i # 1
    BY <1>1, <1>2, <1>7, <2>1
  <2>3. i - 1 \in 1 .. Len(todo') /\ todo'[i - 1] = todo[i]
    BY <1>0, <1>1, <2>2
  <2> QED BY <1>3, <2>1, <2>3 DEF Pending
<1>8. CASE w.op = "save"
  <2>1. Made(w.obj)
    BY <1>1, <1>2, <1>8 DEF Inv, SavesSessions
  <2>2. PICK s \in Session : s = obj[w.obj]
    BY <2>1, SMTT(60) DEF Made
  <2> DEFINE g == [user |-> s.user, ctx |-> s.ctx]
  <2>3. files' = [files EXCEPT ![s.id] = g]
    BY <1>2, <1>8, <2>2 DEF Perform
  <2>4. g.user = s.user /\ g.ctx = s.ctx /\ s.id \in Ids
    BY DEF Session
  <2>5. files'[s.id] = g /\ \A id \in Ids \ {s.id} : files'[id] = files[id]
    BY <1>0, <2>3, <2>4 DEF TypeOK
  <2>6. \A id \in Present : sessions[id] = w.obj => s.id = id
    BY <2>2, InMap DEF Inv
  <2>7. \A id \in Present \ {s.id} : Pending(id) => Pending(id)'
    BY <1>7, <2>6 DEF Present
  <2>8. \A id \in Present \ {s.id} : (InFile(id) => InFile(id)') /\ (Owned(id) => Owned(id)')
    BY <1>3, <1>4, <2>5 DEF InFile, Owned, Present
  <2>9. CASE Live(w.obj)
    <3>1. persisted' = persisted \cup s.ctx /\ clobbered' = clobbered \ {s.id}
      BY <1>2, <1>8, <2>2, <2>9 DEF Perform
    <3>2. sessions[s.id] = w.obj
      BY <2>2, <2>9 DEF Live
    <3>3. s.id \in Present
      BY <2>1, <2>4, <3>2, ConstantsAssumption DEF Present, Made
    <3>4. InFile(s.id)'
      BY <1>3, <2>2, <2>5, <3>2 DEF InFile, OwnerOf
    <3>5. SavedOrPending'
      BY <1>4, <2>7, <2>8, <3>1, <3>4 DEF DiskInv, SavedOrPending
    <3>6. \A t \in s.ctx : KeptIn(t, s.id)'
      BY <1>3, <1>4, <2>2, <2>4, <2>5, <3>2, <3>3 DEF KeptIn
    <3>7. ASSUME NEW t \in persisted PROVE \E id \in Ids : KeptIn(t, id)'
      <4>1. CASE Moves(t)
        <5>1. t \in s.ctx
          BY <1>2, <2>2, <4>1 DEF Moves
        <5> QED BY <2>4, <3>6, <5>1
      <4>2. ASSUME NEW id \in Ids, KeptIn(t, id) PROVE \E i \in Ids : KeptIn(t, i)'
        <5>1. CASE id = s.id
          <6>1. t \in s.ctx
            BY <2>2, <3>2, <4>2, <5>1 DEF KeptIn
          <6> QED BY <2>4, <3>6, <6>1
        <5>2. CASE id # s.id
          <6>1. KeptIn(t, id)'
            BY <1>3, <1>4, <2>5, <4>2, <5>2 DEF KeptIn
          <6> QED BY <6>1
        <5> QED BY <5>1, <5>2
      <4> QED BY <4>1, <4>2 DEF DiskInv, Kept
    <3>8. Kept'
      BY <2>4, <3>1, <3>6, <3>7, SMTT(60) DEF Kept
    <3> QED BY <1>6, <3>5, <3>8, SMTT(60) DEF DiskInv
  <2>10. CASE ~Live(w.obj)
    <3>1. persisted' = persisted \ files[s.id].ctx /\ clobbered' = clobbered \cup {s.id}
      BY <1>2, <1>8, <2>2, <2>10, ZenonT(60) DEF Perform
    <3>2. SavedOrPending'
      BY <1>4, <2>7, <2>8, <3>1 DEF DiskInv, SavedOrPending
    <3>3. Kept'
      <4> SUFFICES ASSUME NEW t \in persisted' PROVE \E id \in Ids : KeptIn(t, id)'
        BY DEF Kept
      <4>1. t \in persisted /\ t \notin files[s.id].ctx
        BY <3>1
      <4>2. ~Moves(t)
        BY <1>2, <2>10 DEF Moves
      <4>3. PICK id \in Ids : KeptIn(t, id)
        BY <4>1, <4>2 DEF DiskInv, Kept
      <4>4. KeptIn(t, id)'
        BY <1>3, <1>4, <2>5, <4>1, <4>3 DEF KeptIn
      <4> QED BY <4>4
    <3> QED BY <1>6, <3>2, <3>3 DEF DiskInv
  <2> QED BY <2>9, <2>10
<1>9. CASE w.op # "save"
  <2>1. \A id \in Present : \/ (w.op = "delete" /\ w.id = id)
                             \/ (files'[id] = files[id] /\ (id \notin clobbered' => id \notin clobbered))
    <3>1. CASE w.op = "delete"
      <4>1. files' = [files EXCEPT ![w.id] = NoFile] /\ clobbered' = clobbered \ {w.id}
        BY <1>2, <3>1, SMTT(60) DEF Perform
      <4>2. TAKE i \in Present
      <4>3. CASE i = w.id
        BY <3>1, <4>3
      <4>4. CASE i # w.id
        <5>1. files'[i] = files[i]
          BY <1>0, <4>1, <4>4, SMTT(60) DEF TypeOK, Present
        <5> QED BY <4>1, <4>4, <5>1
      <4> QED BY <4>3, <4>4, SMTT(60)
    <3>2. CASE w.op = "meta"
      BY <1>2, <3>2 DEF Perform
    <3> QED BY <1>2, <1>9, <3>1, <3>2 DEF Perform
  <2>0. ASSUME NEW id \in Present, w.op = "delete", w.id = id
        PROVE  Pending(id) /\ obj[sessions[id]].ctx = {}
    <3>1. /\ Empty(id)
          /\ \E j \in 1 + 1 .. Len(todo) : todo[j].op = "save" /\ todo[j].obj = sessions[id]
      BY <1>1, <1>2, <2>0, SMTT(60) DEF DiskInv, RemovesGone
    <3>2. PICK j \in 1 + 1 .. Len(todo) : todo[j].op = "save" /\ todo[j].obj = sessions[id]
      BY <3>1
    <3>3. j \in 1 .. Len(todo)
      BY <1>1, <3>2
    <3> QED BY <3>1, <3>2, <3>3 DEF Pending, Empty
  <2>2. \A id \in Present : Pending(id) => Pending(id)'
    BY <1>7, <1>9 DEF Present
  <2>3. SavedOrPending'
    <3> SUFFICES ASSUME NEW id \in Present, id \notin clobbered', ~Pending(id)'
                 PROVE  (Changing(id) /\ Owned(id)') \/ InFile(id)'
      BY <1>4 DEF SavedOrPending
    <3>1. ~Pending(id)
      BY <2>2
    <3>2. files'[id] = files[id] /\ id \notin clobbered
      BY <2>0, <2>1, <3>1
    <3>3. (Changing(id) /\ Owned(id)) \/ InFile(id)
      BY <3>1, <3>2, SMTT(60) DEF DiskInv, SavedOrPending
    <3> QED BY <1>3, <1>4, <3>2, <3>3 DEF InFile, Owned
  <2>4. persisted' = persisted
    BY <1>2, <1>9 DEF Perform
  <2>5. Kept'
    <3> SUFFICES ASSUME NEW t \in persisted PROVE \E id \in Ids : KeptIn(t, id)'
      BY <2>4 DEF Kept
    <3>1. PICK id \in Ids : KeptIn(t, id)
      BY <1>2, <1>9 DEF DiskInv, Kept, Moves
    <3>2. ~(w.op = "delete" /\ w.id = id)
      BY <2>0, <3>1 DEF KeptIn
    <3>3. KeptIn(t, id)'
      BY <1>3, <1>4, <2>1, <3>1, <3>2 DEF KeptIn
    <3> QED BY <3>3
  <2> QED BY <1>6, <2>3, <2>5, SMTT(60) DEF DiskInv
<1> QED BY <1>8, <1>9, SMTT(60)

\* What is written, or may be, is about no session that changes.
LEMMA ShortTodo ==
  ASSUME Inv, NEW a \in [Users -> Ids \cup {NoId}], todo' = <<SaveMeta(a)>>
  PROVE  RemovesGone' /\ todo'[Len(todo')] = SaveMeta(a) /\ todo' # <<>>
<1>1. SaveMeta(a).op = "meta"
  BY Writes
<1>2. Len(todo') = 1 /\ todo'[1] = SaveMeta(a) /\ todo' # <<>>
  OBVIOUS
<1> QED BY <1>1, <1>2 DEF RemovesGone

LEMMA DiskSetActive ==
  ASSUME Inv, DiskInv, Unlocked, UNCHANGED <<obj, sessions, files, proc, persisted, clobbered, guessed>>,
         active' \in [Users -> Ids \cup {NoId}], todo' = <<SaveMeta(active')>>
  PROVE  DiskInv'
<1>1. PICK a \in [Users -> Ids \cup {NoId}] : a = active'
  OBVIOUS
<1>2. RemovesGone'
  BY <1>1, ShortTodo
<1>3. Present' = Present /\ \A id : Changing(id)' = Changing(id)
  BY DEF Present, Changing
<1> QED BY <1>2, <1>3, DiskLocked DEF KeptIn

\* Sessions go.
LEMMA DiskGone ==
  ASSUME Inv, DiskInv, Unlocked, NEW gone \in SUBSET Ids, gone \subseteq Present,
         sessions' = [id \in Ids |-> IF id \in gone THEN NoObj ELSE sessions[id]],
         \A i \in 1 .. Len(todo') : todo'[i].op = "delete" => todo'[i].id \notin Present \ gone,
         persisted' = persisted \ ContentsOf(gone),
         UNCHANGED <<obj, files, clobbered, guessed>>,
         proc' = proc \/ \E p \in Procs : proc[p].pc = "missed" /\ proc' = [proc EXCEPT ![p] = Idle]
  PROVE  DiskInv'
<1>1. Present' = Present \ gone
  BY ConstantsAssumption DEF Present
<1>2. RemovesGone'
  BY <1>1 DEF RemovesGone
<1>3. \A id \in Present \ gone : sessions'[id] = sessions[id]
  BY DEF Present
<1>4. ASSUME NEW id \in Present \ gone, Changing(id) PROVE Changing(id)'
  <2>1. PICK p \in Procs : proc[p].pc = "changed" /\ proc[p].obj = sessions[id]
    BY <1>4 DEF Changing
  <2>2. proc'[p] = proc[p]
    BY <2>1 DEF Inv, TypeOK
  <2> QED BY <1>3, <2>1, <2>2 DEF Changing
<1>5. ASSUME NEW t \in persisted', NEW id \in Present, KeptIn(t, id)
      PROVE  id \in Present' /\ t \in obj'[sessions'[id]].ctx
  <2>1. id \notin gone
    BY <1>5 DEF ContentsOf, KeptIn
  <2> QED BY <1>1, <1>3, <1>5, <2>1 DEF KeptIn
<1>6. persisted' \subseteq persisted
  OBVIOUS
<1> QED BY <1>1, <1>2, <1>3, <1>4, <1>5, <1>6, DiskLocked

LEMMA DiskCreate ==
  ASSUME Inv, DiskInv, Unlocked, NEW id \in Ids, NEW u \in Users, CreateLocked(id, u),
         UNCHANGED <<files, clobbered, guessed>>,
         proc' = proc \/ \E p \in Procs : proc[p].pc = "missed" /\ proc' = [proc EXCEPT ![p] = Idle]
  PROVE  DiskInv'
<1>1. PICK gone \in IF Full(Cardinality(Present)) THEN SUBSET (Present \ Touched) ELSE {{}} :
        IF Full(Cardinality(Present \ gone))
        THEN /\ sessions' = [i \in Ids |-> IF i \in gone THEN NoObj ELSE sessions[i]]
             /\ active' = Without(gone, active)
             /\ todo' = CleanWrites(gone)
             /\ persisted' = persisted \ ContentsOf(gone)
             /\ UNCHANGED obj
        ELSE /\ FreeObjs # {}
             /\ obj' = [obj EXCEPT ![NewObj] = [id |-> id, user |-> u, ctx |-> {}]]
             /\ sessions' = [i \in Ids |-> IF i = id THEN NewObj
                                           ELSE IF i \in gone THEN NoObj ELSE sessions[i]]
             /\ active' = [Without(gone, active) EXCEPT ![u] = id]
             /\ todo' = CleanWrites(gone) \o <<Save(NewObj), SaveMeta(active')>>
             /\ persisted' = persisted \ ContentsOf((gone \cup {id}) \cap Present)
  BY DEF CreateLocked
<1>2. gone \subseteq Present /\ gone \in SUBSET Ids
  BY <1>1 DEF Present
<1>3. PICK c \in Seq(DeleteWrite \cup MetaWrite) : c = CleanWrites(gone)
  BY <1>2, CleanUp DEF Inv
<1>4. \A i \in 1 .. Len(c) : c[i].op = "delete" => c[i].id \in gone
  BY <1>2, <1>3, CleanUpRemoves DEF Inv
<1>5. CASE Full(Cardinality(Present \ gone))
  <2>1. \A i \in 1 .. Len(todo') : todo'[i].op = "delete" => todo'[i].id \notin Present \ gone
    BY <1>1, <1>3, <1>4, <1>5
  <2> QED BY <1>1, <1>2, <1>5, <2>1, DiskGone
<1>6. CASE ~Full(Cardinality(Present \ gone))
  <2>1. PICK o \in Objs : /\ o = NewObj /\ \A i \in Ids : sessions[i] # o
                          /\ \A p \in Procs : proc[p].obj # o
    BY <1>1, <1>6, IsNew
  <2>2. /\ sessions'[id] = o
        /\ \A i \in Ids \ {id} : sessions'[i] = IF i \in gone THEN NoObj ELSE sessions[i]
        /\ active' = [Without(gone, active) EXCEPT ![u] = id]
        /\ todo' = c \o <<Save(o), SaveMeta(active')>>
        /\ persisted' = persisted \ ContentsOf((gone \cup {id}) \cap Present)
        /\ obj'[o].ctx = {} /\ \A q \in Objs \ {o} : obj'[q] = obj[q]
    <3>2. /\ obj' = [obj EXCEPT ![o] = [id |-> id, user |-> u, ctx |-> {}]]
          /\ sessions' = [i \in Ids |-> IF i = id THEN o ELSE IF i \in gone THEN NoObj ELSE sessions[i]]
          /\ active' = [Without(gone, active) EXCEPT ![u] = id]
          /\ todo' = c \o <<Save(o), SaveMeta(active')>>
          /\ persisted' = persisted \ ContentsOf((gone \cup {id}) \cap Present)
      BY <1>1, <1>3, <1>6, <2>1
    <3>0. [id |-> id, user |-> u, ctx |-> {}] \in Session /\ [id |-> id, user |-> u, ctx |-> {}].ctx = {}
      <4>1. {} \in SUBSET Update
        OBVIOUS
      <4> QED BY <4>1 DEF Session
    <3>1. PICK s \in Session : s = [id |-> id, user |-> u, ctx |-> {}] /\ s.ctx = {}
      BY <3>0
    <3>3. obj'[o] = s /\ \A q \in Objs \ {o} : obj'[q] = obj[q]
      BY <3>1, <3>2 DEF Inv, TypeOK
    <3> QED BY <3>1, <3>2, <3>3
  <2>3. PICK a \in [Users -> Ids \cup {NoId}] : a = active'
    BY <1>2, <2>2, WithoutType DEF Inv
  <2>4. todo' = c \o <<Save(o), SaveMeta(a)>>
    BY <2>2, <2>3
  <2>5. /\ Len(c) + 1 \in 1 .. Len(todo') /\ todo'[Len(c) + 1] = Save(o)
        /\ \A i \in 1 .. Len(todo') : todo'[i].op = "delete" => i \in 1 .. Len(c) /\ todo'[i] = c[i]
    <3>1. /\ Len(c) + 1 \in 1 .. Len(c \o <<Save(o), SaveMeta(a)>>)
          /\ (c \o <<Save(o), SaveMeta(a)>>)[Len(c) + 1] = Save(o)
      BY TodoMore
    <3>2. \A i \in 1 .. Len(c \o <<Save(o), SaveMeta(a)>>) :
            (c \o <<Save(o), SaveMeta(a)>>)[i].op = "delete" =>
              i \in 1 .. Len(c) /\ (c \o <<Save(o), SaveMeta(a)>>)[i] = c[i]
      BY TodoMore
    <3> QED BY <2>4, <3>1, <3>2
  <2>6. Present' = (Present \ gone) \cup {id}
    BY <1>2, <2>2, ConstantsAssumption DEF Present
  <2>13. Save(o).op = "save" /\ Save(o).obj = o
    BY Writes
  <2>7. RemovesGone'
    <3>1. Empty(id)'
      <4>1. \A p \in Procs : proc'[p].obj # o
        BY <2>1, ConstantsAssumption, SMTT(60) DEF Idle, Inv, TypeOK
      <4> QED BY <2>2, <4>1 DEF Empty
    <3> SUFFICES ASSUME NEW i \in 1 .. Len(todo'), todo'[i].op = "delete", todo'[i].id \in Present'
                 PROVE  /\ Empty(todo[i].id)'
                        /\ \E j \in i + 1 .. Len(todo') :
                             todo'[j].op = "save" /\ todo'[j].obj = sessions'[todo'[i].id]
      BY DEF RemovesGone
    <3>2. i \in 1 .. Len(c) /\ todo'[i].id = id
      BY <1>4, <2>5, <2>6
    <3>3. Len(c) + 1 \in i + 1 .. Len(todo')
      BY <2>5, <3>2
    <3>4. Empty(todo[i].id)'
      BY <3>1, <3>2 DEF Empty
    <3> QED BY <2>2, <2>5, <2>13, <3>2, <3>3, <3>4
  <2>8. Pending(id)'
    BY <2>2, <2>5, <2>13 DEF Pending
  <2>9. \A i \in Present \ (gone \cup {id}) : /\ sessions'[i] = sessions[i] /\ sessions[i] \in Objs
                                  /\ obj'[sessions[i]] = obj[sessions[i]]
    BY <2>1, <2>2, ZenonT(60) DEF Present, Inv, TypeOK
  <2>10. ASSUME NEW i \in Present \ (gone \cup {id}), Changing(i) PROVE Changing(i)'
    <3>1. PICK p \in Procs : proc[p].pc = "changed" /\ proc[p].obj = sessions[i]
      BY <2>10 DEF Changing
    <3>2. proc'[p] = proc[p]
      BY <3>1 DEF Inv, TypeOK
    <3> QED BY <2>9, <3>1, <3>2 DEF Changing
  <2>11. ASSUME NEW t \in persisted', NEW i \in Present, KeptIn(t, i)
         PROVE  i \in Present' /\ t \in obj'[sessions'[i]].ctx
    <3>1. i \notin gone \cup {id}
      BY <2>2, <2>11 DEF ContentsOf, KeptIn
    <3> QED BY <2>6, <2>9, <2>11, <3>1 DEF KeptIn
  <2>12. persisted' \subseteq persisted
    BY <2>2
  <2> QED BY <2>6, <2>7, <2>8, <2>9, <2>10, <2>11, <2>12, DiskLocked
<1> QED BY <1>5, <1>6

LEMMA DiskDelete == ASSUME Inv, DiskInv, NEW id \in Ids, Delete(id) PROVE DiskInv'
<1> DEFINE gone == {id} \cap Present
<1>0. sessions \in [Ids -> Objs \cup {NoObj}] /\ active \in [Users -> Ids \cup {NoId}]
  BY DEF Inv, TypeOK
<1>1. sessions' = [i \in Ids |-> IF i \in gone THEN NoObj ELSE sessions[i]]
  BY <1>0 DEF Delete, Present
<1>2. active' \in [Users -> Ids \cup {NoId}]
  <2>1. Without({id}, active) \in [Users -> Ids \cup {NoId}]
    BY WithoutType DEF Inv
  <2> QED BY <1>0, <2>1 DEF Delete
<1>3. PICK a \in [Users -> Ids \cup {NoId}] : a = active'
  BY <1>2
<1>4. \A i \in 1 .. Len(todo') : todo'[i].op = "delete" => todo'[i].id \notin Present \ gone
  <2>1. todo' = <<Remove(id), SaveMeta(a)>> /\ Len(todo') = 2
    BY <1>3 DEF Delete
  <2>2. Remove(id).id = id /\ SaveMeta(a).op = "meta"
    BY Writes
  <2> QED BY <2>1, <2>2
<1>5. /\ Unlocked /\ persisted' = persisted \ ContentsOf(gone)
      /\ UNCHANGED <<obj, files, clobbered, proc, guessed>>
  BY DEF Delete
<1>6. gone \in SUBSET Ids /\ gone \subseteq Present
  OBVIOUS
<1> HIDE DEF gone
<1> QED BY <1>1, <1>4, <1>5, <1>6, DiskGone

LEMMA DiskCleanExpired == ASSUME Inv, DiskInv, CleanExpired PROVE DiskInv'
<1>1. PICK gone \in SUBSET (Present \ Touched) :
        /\ sessions' = [id \in Ids |-> IF id \in gone THEN NoObj ELSE sessions[id]]
        /\ active' = Without(gone, active)
        /\ todo' = CleanWrites(gone)
        /\ persisted' = persisted \ ContentsOf(gone)
  BY DEF CleanExpired
<1>2. gone \in SUBSET Ids /\ gone \subseteq Present
  BY DEF Present
<1>3. \A i \in 1 .. Len(todo') : todo'[i].op = "delete" => todo'[i].id \notin Present \ gone
  BY <1>1, <1>2, CleanUpRemoves DEF Inv
<1>4. Unlocked /\ UNCHANGED <<obj, files, proc, clobbered, guessed>>
  BY DEF CleanExpired
<1> QED BY <1>1, <1>2, <1>3, <1>4, DiskGone

LEMMA DiskSetAndSave == ASSUME Inv, DiskInv, NEW id \in Ids, SetAndSave(id) PROVE DiskInv'
<1>1. /\ Unlocked /\ id \in Present /\ updates < MaxUpdates
      /\ obj' = [obj EXCEPT ![sessions[id]].ctx = @ \cup {updates + 1}]
      /\ todo' = <<Save(sessions[id])>>
      /\ UNCHANGED <<sessions, active, files, meta, proc, crashes, persisted, clobbered, guessed>>
  BY DEF SetAndSave
<1>2. PICK o \in Objs : o = sessions[id] /\ Made(o)
  BY <1>1, InMap DEF Inv, Made
<1>3. PICK s \in Session : s = obj[o]
  BY <1>2 DEF Made
<1>4. [s EXCEPT !.ctx = @ \cup {updates + 1}].ctx = s.ctx \cup {updates + 1}
  BY DEF Session
<1>5. obj'[o].ctx = s.ctx \cup {updates + 1} /\ \A q \in Objs \ {o} : obj'[q] = obj[q]
  BY <1>1, <1>2, <1>3, <1>4 DEF Inv, TypeOK
<1>6. Present' = Present /\ \A i : Changing(i)' = Changing(i)
  BY <1>1 DEF Present, Changing
<1>7. Save(o).op = "save" /\ Save(o).obj = o /\ todo' = <<Save(o)>> /\ Len(todo') = 1
  BY <1>1, <1>2, Writes
<1>8. RemovesGone' /\ Pending(id)'
  BY <1>1, <1>2, <1>7 DEF RemovesGone, Pending
<1>9. \A i \in Present : i # id => sessions[i] # o /\ sessions[i] \in Objs
  BY <1>1, <1>2, InMap DEF Inv, Made
<1>10. \A i \in Present : i # id => obj'[sessions[i]] = obj[sessions[i]]
  BY <1>5, <1>9
<1>11. \A t \in persisted : \A i \in Present : KeptIn(t, i) => t \in obj'[sessions[i]].ctx
  BY <1>2, <1>3, <1>5, <1>10 DEF KeptIn
<1> QED BY <1>1, <1>6, <1>8, <1>10, <1>11, DiskLocked

LEMMA DiskUpdateChange == ASSUME Inv, DiskInv, NEW p \in Procs, UpdateChange(p) PROVE DiskInv'
<1>1. /\ proc[p].pc = "found"
      /\ obj' = [obj EXCEPT ![proc[p].obj].ctx = @ \cup {updates + 1}]
      /\ proc' = [proc EXCEPT ![p].pc = "changed"]
      /\ UNCHANGED <<sessions, active, files, meta, todo, crashes, persisted, clobbered, guessed>>
  BY DEF UpdateChange
<1>2. PICK o \in Objs : o = proc[p].obj /\ Made(o)
  BY <1>1 DEF Inv, HoldSessions, Made
<1>3. PICK s \in Session : s = obj[o]
  BY <1>2 DEF Made
<1>4. /\ [s EXCEPT !.ctx = @ \cup {updates + 1}].ctx = s.ctx \cup {updates + 1}
      /\ [s EXCEPT !.ctx = @ \cup {updates + 1}].id = s.id
      /\ [s EXCEPT !.ctx = @ \cup {updates + 1}].user = s.user
  BY DEF Session
<1>5. /\ obj'[o].ctx = s.ctx \cup {updates + 1} /\ obj'[o].id = s.id /\ obj'[o].user = s.user
      /\ \A q \in Objs \ {o} : obj'[q] = obj[q]
  BY <1>1, <1>2, <1>3, <1>4 DEF Inv, TypeOK
<1>6. \A q \in Objs : obj[q].ctx \subseteq obj'[q].ctx /\ obj'[q].id = obj[q].id /\ obj'[q].user = obj[q].user
  BY <1>3, <1>5
<1>7. Present' = Present /\ \A id \in Present : sessions[id] \in Objs
  BY <1>1 DEF Present, Inv, TypeOK
<1>8. proc'[p].pc = "changed" /\ proc'[p].obj = o /\ \A q \in Procs \ {p} : proc'[q] = proc[q]
  <2>1. PICK r \in [pc : {"idle", "found", "changed", "missed"}, obj : Objs \cup {NoObj},
                    user : Users \cup {NoId}] : r = proc[p]
    BY DEF Inv, TypeOK
  <2>2. [r EXCEPT !.pc = "changed"].pc = "changed" /\ [r EXCEPT !.pc = "changed"].obj = r.obj
    OBVIOUS
  <2> QED BY <1>1, <1>2, <2>1, <2>2 DEF Inv, TypeOK
<1>9. ASSUME NEW id \in Present \ clobbered
      PROVE  (Changing(id)' /\ Owned(id)') \/ Pending(id)' \/ InFile(id)'
  <2>0. Owned(id) => Owned(id)'
    BY <1>1, <1>6, <1>7 DEF Owned, OwnerOf
  <2>1. CASE sessions[id] = o
    <3>1. Changing(id)'
      BY <1>1, <1>8, <2>1 DEF Changing
    <3>2. Pending(id) => Pending(id)'
      BY <1>1 DEF Pending
    <3> QED BY <2>0, <3>1, <3>2, FileOwned DEF DiskInv, SavedOrPending
  <2>2. CASE sessions[id] # o
    <3>1. InFile(id) => InFile(id)'
      BY <1>1, <1>5, <1>7, <2>2 DEF InFile, OwnerOf
    <3>2. Pending(id) => Pending(id)'
      BY <1>1 DEF Pending
    <3>3. ASSUME Changing(id) PROVE Changing(id)'
      <4>1. PICK q \in Procs : proc[q].pc = "changed" /\ proc[q].obj = sessions[id]
        BY <3>3 DEF Changing
      <4>2. proc'[q] = proc[q]
        BY <1>1, <1>8, <4>1
      <4> QED BY <1>1, <4>1, <4>2 DEF Changing
    <3> QED BY <2>0, <3>1, <3>2, <3>3 DEF DiskInv, SavedOrPending
  <2> QED BY <2>1, <2>2
<1>10. SavedOrPending'
  BY <1>1, <1>7, <1>9 DEF SavedOrPending
<1>11. RemovesGone'
  <2>1. ASSUME NEW id \in Present, Empty(id) PROVE Empty(id)'
    <3>1. sessions[id] # o
      BY <1>2, <2>1 DEF Empty
    <3>2. \A q \in Procs : proc'[q].obj = proc[q].obj
      BY <1>2, <1>8
    <3> QED BY <1>1, <1>5, <1>7, <2>1, <3>1, <3>2 DEF Empty
  <2> QED BY <1>1, <1>7, <2>1 DEF DiskInv, RemovesGone
<1>12. ASSUME NEW t \in persisted PROVE (\E id \in Ids : KeptIn(t, id)') \/ Moves(t)'
  <2>1. ASSUME NEW id \in Ids, KeptIn(t, id) PROVE KeptIn(t, id)'
    BY <1>1, <1>6, <1>7, <2>1 DEF KeptIn
  <2>2. ASSUME Moves(t) PROVE Moves(t)'
    <3>1. PICK q : q = Head(todo).obj
      OBVIOUS
    <3>2. Head(todo) = todo[1] /\ 1 \in 1 .. Len(todo)
      <4>1. todo \in Seq(Write) /\ todo # <<>>
        BY <2>2 DEF Inv, TypeOK, Moves
      <4> QED BY <4>1, EmptySeq
    <3>3. q \in Objs
      BY <2>2, <3>1, <3>2 DEF Moves, Inv, SavesSessions, Made
    <3> QED BY <1>1, <1>6, <2>2, <3>1, <3>3 DEF Moves, Live
  <2> QED BY <2>1, <2>2 DEF DiskInv, Kept
<1>13. Kept'
  BY <1>1, <1>12 DEF Kept
<1> QED BY <1>10, <1>11, <1>13 DEF DiskInv

\* Updaters that have changed nothing come and go.
LEMMA DiskProc ==
  ASSUME Inv, DiskInv, NEW p \in Procs, NEW r, Unlocked \/ r = Idle,
         proc[p].pc # "changed", proc' = [proc EXCEPT ![p] = r],
         UNCHANGED <<obj, sessions, files, todo, persisted, clobbered, guessed>>
  PROVE  DiskInv'
<1>1. /\ Present' = Present
      /\ \A id : Pending(id)' = Pending(id) /\ InFile(id)' = InFile(id) /\ Owned(id)' = Owned(id)
  BY DEF Present, Pending, InFile, Owned, OwnerOf
<1>2. ASSUME NEW id, Changing(id) PROVE Changing(id)'
  <2>1. PICK q \in Procs : proc[q].pc = "changed" /\ proc[q].obj = sessions[id]
    BY <1>2 DEF Changing
  <2>2. proc'[q] = proc[q]
    BY <2>1 DEF Inv, TypeOK
  <2> QED BY <2>1, <2>2 DEF Changing
<1>3. SavedOrPending'
  BY <1>1, <1>2 DEF DiskInv, SavedOrPending
<1>4. RemovesGone'
  <2>1. CASE Unlocked
    BY <2>1 DEF RemovesGone, Unlocked
  <2>2. CASE r = Idle
    <3>1. ASSUME NEW id \in Present, Empty(id) PROVE Empty(id)'
      <4>1. sessions[id] # NoObj
        BY DEF Present
      <4> QED BY <2>2, <3>1, <4>1 DEF Empty, Idle, Inv, TypeOK
    <3> QED BY <1>1, <3>1 DEF DiskInv, RemovesGone
  <2> QED BY <2>1, <2>2
<1>5. Kept'
  BY <1>1 DEF DiskInv, Kept, KeptIn, Moves, Live
<1> QED BY <1>3, <1>4, <1>5 DEF DiskInv

LEMMA DiskUpdateSave == ASSUME Inv, DiskInv, NEW p \in Procs, UpdateSave(p) PROVE DiskInv'
<1>1. /\ Unlocked /\ proc[p].pc = "changed" /\ todo' = <<Save(proc[p].obj)>> /\ proc' = [proc EXCEPT ![p] = Idle]
      /\ UNCHANGED <<obj, sessions, active, files, meta, updates, crashes, persisted, clobbered, guessed>>
  BY DEF UpdateSave
<1>2. PICK o \in Objs : o = proc[p].obj
  BY <1>1 DEF Inv, HoldSessions, Made
<1>3. Save(o).op = "save" /\ Save(o).obj = o /\ todo' = <<Save(o)>> /\ Len(todo') = 1
  BY <1>1, <1>2, Writes
<1>4. RemovesGone'
  BY <1>3 DEF RemovesGone
<1>5. Present' = Present
  BY <1>1 DEF Present
<1>6. ASSUME NEW id \in Present, Changing(id), ~Pending(id)' PROVE Changing(id)'
  <2>1. PICK q \in Procs : proc[q].pc = "changed" /\ proc[q].obj = sessions[id]
    BY <1>6 DEF Changing
  <2>2. sessions[id] # o
    BY <1>1, <1>3, <1>6 DEF Pending
  <2>3. proc'[q] = proc[q]
    BY <1>1, <1>2, <2>1, <2>2 DEF Inv, TypeOK
  <2> QED BY <1>1, <2>1, <2>3 DEF Changing
<1> QED BY <1>1, <1>4, <1>5, <1>6, DiskLocked DEF KeptIn

\* An adoption saves the session first, and then removes a file of a session that is gone.
LEMMA AdoptTodo ==
  ASSUME Inv, NEW o \in Objs, NEW old \in Ids, NEW a \in [Users -> Ids \cup {NoId}],
         todo' = <<Save(o), Remove(old), SaveMeta(a)>>, old \notin Present'
  PROVE  /\ RemovesGone' /\ todo' # <<>> /\ Head(todo') = Save(o)
         /\ Head(todo').op = "save" /\ Head(todo').obj = o
         /\ todo'[Len(todo')] = SaveMeta(a)
         /\ \E i \in 1 .. Len(todo') : todo'[i].op = "save" /\ todo'[i].obj = o
<1>1. /\ Save(o).op = "save" /\ Save(o).obj = o /\ Remove(old).id = old /\ SaveMeta(a).op = "meta"
  BY Writes
<1>2. /\ Len(todo') = 3 /\ todo'[1] = Save(o) /\ todo'[2] = Remove(old) /\ todo'[3] = SaveMeta(a)
      /\ Head(todo') = Save(o) /\ todo' # <<>>
  OBVIOUS
<1>3. RemovesGone'
  BY <1>1, <1>2 DEF RemovesGone
<1>4. 1 \in 1 .. Len(todo')
  BY <1>2
<1> QED BY <1>1, <1>2, <1>3, <1>4

LEMMA DiskMerge ==
  ASSUME Inv, DiskInv, NEW old \in Ids, NEW new \in Ids, AdoptMerge(old, new) PROVE DiskInv'
<1>1. /\ Unlocked /\ old \in Present /\ new \in Present /\ old # new
      /\ obj' = [obj EXCEPT ![sessions[new]].ctx = @ \cup obj[sessions[old]].ctx]
      /\ sessions' = [sessions EXCEPT ![old] = NoObj]
      /\ active' = Moved(old, new)
      /\ todo' = <<Save(sessions[new]), Remove(old), SaveMeta(active')>>
      /\ UNCHANGED <<files, meta, proc, updates, crashes, persisted, clobbered, guessed>>
  BY DEF AdoptMerge
<1>2. PICK o \in Objs : o = sessions[new] /\ Made(o)
  BY <1>1, InMap DEF Inv, Made
<1>3. PICK s \in Session : s = obj[o]
  BY <1>2 DEF Made
<1>4. PICK more : more = obj[sessions[old]].ctx
  OBVIOUS
<1>5. /\ [s EXCEPT !.ctx = @ \cup more].ctx = s.ctx \cup more
      /\ [s EXCEPT !.ctx = @ \cup more].id = s.id
  BY DEF Session
<1>6. /\ obj'[o].ctx = s.ctx \cup more /\ obj'[o].id = s.id /\ \A q \in Objs \ {o} : obj'[q] = obj[q]
  BY <1>1, <1>2, <1>3, <1>4, <1>5 DEF Inv, TypeOK
<1>7. Present' = Present \ {old} /\ \A i \in Present \ {old} : sessions'[i] = sessions[i]
  BY <1>1, ConstantsAssumption DEF Present, Inv, TypeOK
<1>8. PICK a \in [Users -> Ids \cup {NoId}] : a = active'
  BY <1>1, MovedType
<1>9. todo' = <<Save(o), Remove(old), SaveMeta(a)>> /\ old \notin Present'
  BY <1>1, <1>2, <1>7, <1>8
<1>10. /\ RemovesGone' /\ todo' # <<>>
       /\ Head(todo').op = "save" /\ Head(todo').obj = o
       /\ \E i \in 1 .. Len(todo') : todo'[i].op = "save" /\ todo'[i].obj = o
  BY <1>9, AdoptTodo
<1>11. Pending(new)'
  BY <1>1, <1>2, <1>7, <1>10 DEF Pending
<1>12. \A i \in Present : i # new => sessions[i] # o /\ sessions[i] \in Objs
  BY <1>1, <1>2, InMap DEF Inv, Made
<1>13. \A i \in Present \ {old} : i # new => obj'[sessions[i]] = obj[sessions[i]]
  BY <1>6, <1>12
<1>14. \A i \in Present \ {old} : Changing(i) => Changing(i)'
  BY <1>1, <1>7 DEF Changing
<1>15. obj[o].id = new
  BY <1>1, <1>2, InMap DEF Inv
<1>16. sessions'[obj'[o].id] = o
  BY <1>1, <1>2, <1>3, <1>6, <1>7, <1>15
<1>17. ASSUME NEW t \in persisted, NEW i \in Present, KeptIn(t, i)
       PROVE  (i \in Present' /\ t \in obj'[sessions'[i]].ctx) \/ Moves(t)'
  <2>1. CASE i = old
    <3>1. t \in more /\ t \in files[old].ctx
      BY <1>4, <1>17, <2>1 DEF KeptIn
    <3>2. t \in obj'[o].ctx
      BY <1>6, <3>1
    <3> QED BY <1>1, <1>10, <1>16, <3>1, <3>2 DEF Moves, Live
  <2>2. CASE i = new
    <3>1. t \in s.ctx
      BY <1>2, <1>3, <1>17, <2>2 DEF KeptIn
    <3> QED BY <1>1, <1>2, <1>6, <1>7, <2>2, <3>1
  <2>3. CASE i # old /\ i # new
    BY <1>7, <1>13, <1>17, <2>3 DEF KeptIn
  <2> QED BY <2>1, <2>2, <2>3
<1> QED BY <1>1, <1>7, <1>10, <1>11, <1>13, <1>14, <1>17, DiskLocked

LEMMA DiskRename ==
  ASSUME Inv, DiskInv, NEW old \in Ids, NEW new \in Ids, AdoptRename(old, new) PROVE DiskInv'
<1>1. /\ Unlocked /\ old \in Present /\ new \notin Present
      /\ obj' = [obj EXCEPT ![sessions[old]].id = new]
      /\ sessions' = [sessions EXCEPT ![old] = NoObj, ![new] = sessions[old]]
      /\ active' = Moved(old, new)
      /\ todo' = <<Save(sessions[old]), Remove(old), SaveMeta(active')>>
      /\ UNCHANGED <<files, meta, proc, updates, crashes, persisted, clobbered, guessed>>
  BY DEF AdoptRename
<1>2. PICK o \in Objs : o = sessions[old] /\ Made(o)
  BY <1>1, InMap DEF Inv, Made
<1>3. PICK s \in Session : s = obj[o]
  BY <1>2 DEF Made
<1>5. [s EXCEPT !.id = new].ctx = s.ctx /\ [s EXCEPT !.id = new].id = new
  BY DEF Session
<1>6. /\ obj'[o].ctx = s.ctx /\ obj'[o].id = new /\ \A q \in Objs \ {o} : obj'[q] = obj[q]
  BY <1>1, <1>2, <1>3, <1>5 DEF Inv, TypeOK
<1>7. /\ Present' = (Present \ {old}) \cup {new} /\ old # new /\ sessions'[new] = o
      /\ \A i \in Present \ {old} : sessions'[i] = sessions[i]
  BY <1>1, <1>2, ConstantsAssumption DEF Present, Inv, TypeOK
<1>8. PICK a \in [Users -> Ids \cup {NoId}] : a = active'
  BY <1>1, MovedType
<1>9. todo' = <<Save(o), Remove(old), SaveMeta(a)>> /\ old \notin Present'
  BY <1>1, <1>2, <1>7, <1>8
<1>10. /\ RemovesGone' /\ todo' # <<>>
       /\ Head(todo').op = "save" /\ Head(todo').obj = o
       /\ \E i \in 1 .. Len(todo') : todo'[i].op = "save" /\ todo'[i].obj = o
  BY <1>9, AdoptTodo
<1>11. Pending(new)'
  BY <1>7, <1>10 DEF Pending
<1>12. \A i \in Present \ {old} : sessions[i] # o /\ sessions[i] \in Objs
  BY <1>1, <1>2, InMap DEF Inv, Made
<1>13. \A i \in Present \ {old} : obj'[sessions[i]] = obj[sessions[i]]
  BY <1>6, <1>12
<1>14. \A i \in Present \ {old} : Changing(i) => Changing(i)'
  BY <1>1, <1>7 DEF Changing
<1>16. sessions'[obj'[o].id] = o
  BY <1>6, <1>7
<1>17. ASSUME NEW t \in persisted, NEW i \in Present, KeptIn(t, i)
       PROVE  (i \in Present' /\ t \in obj'[sessions'[i]].ctx) \/ Moves(t)'
  <2>1. CASE i = old
    <3>1. t \in s.ctx /\ t \in files[old].ctx
      BY <1>2, <1>3, <1>17, <2>1 DEF KeptIn
    <3>2. t \in obj'[o].ctx
      BY <1>6, <3>1
    <3> QED BY <1>1, <1>10, <1>16, <3>1, <3>2 DEF Moves, Live
  <2>2. CASE i # old
    BY <1>7, <1>13, <1>17, <2>2 DEF KeptIn
  <2> QED BY <2>1, <2>2
<1> QED BY <1>1, <1>7, <1>10, <1>11, <1>13, <1>14, <1>17, DiskLocked

LEMMA DiskCrash == ASSUME Inv, DiskInv, CrashAndRestart PROVE DiskInv'
<1>1. /\ Present' = OnDisk
      /\ \A id \in OnDisk : InFile(id)'
  BY RestartsWhole DEF InFile
<1>2. todo' = <<>> /\ UNCHANGED <<files, persisted, clobbered>>
  BY DEF CrashAndRestart
<1>3. RemovesGone'
  BY <1>2 DEF RemovesGone
<1>4. SavedOrPending'
  BY <1>1 DEF SavedOrPending
<1>5. ASSUME NEW t \in persisted PROVE \E id \in Ids : KeptIn(t, id)'
  <2>1. PICK id \in Ids : t \in files[id].ctx
    BY DEF DiskInv, Kept, KeptIn, Moves
  <2>2. id \in OnDisk
    BY <2>1 DEF OnDisk, NoFile
  <2>3. files'[id] = [user |-> OwnerOf(id)', ctx |-> obj'[sessions'[id]].ctx]
    BY <1>1, <2>2 DEF InFile
  <2>4. \A r : r = [user |-> OwnerOf(id)', ctx |-> obj'[sessions'[id]].ctx] => r.ctx = obj'[sessions'[id]].ctx
    OBVIOUS
  <2>5. KeptIn(t, id)'
    BY <1>1, <1>2, <2>1, <2>2, <2>3, <2>4 DEF KeptIn
  <2> QED BY <2>5
<1>6. Kept'
  BY <1>2, <1>5 DEF Kept
<1> QED BY <1>3, <1>4, <1>6 DEF DiskInv

LEMMA DiskInit == ASSUME Init PROVE DiskInv
<1>1. Present = {} /\ persisted = {} /\ Len(todo) = 0
  BY DEF Init, Present
<1> QED BY <1>1 DEF DiskInv, RemovesGone, SavedOrPending, Kept

LEMMA DiskStep == Inv /\ DiskInv /\ [Next]_vars => DiskInv'
<1> SUFFICES ASSUME Inv, DiskInv, [Next]_vars PROVE DiskInv'
  OBVIOUS
<1>0. Inv
  BY DEF Inv
<1>1. CASE Perform
  BY <1>0, <1>1, DiskPerform
<1>2. CASE CleanExpired
  BY <1>0, <1>2, DiskCleanExpired
<1>3. ASSUME NEW u \in Users, NEW id \in Ids, GetOrCreateSession(u, id) PROVE DiskInv'
  <2>1. CASE id \in Present
    <3>1. /\ Unlocked /\ active' = [active EXCEPT ![u] = id] /\ todo' = <<SaveMeta(active')>>
          /\ UNCHANGED <<obj, sessions, files, proc, persisted, clobbered, guessed>>
      BY <1>3, <2>1 DEF GetOrCreateSession
    <3>2. active' \in [Users -> Ids \cup {NoId}]
      BY <1>0, <3>1 DEF Inv, TypeOK
    <3> QED BY <1>0, <3>1, <3>2, DiskSetActive
  <2>2. CASE id \notin Present
    BY <1>0, <1>3, <2>2, DiskCreate DEF GetOrCreateSession
  <2> QED BY <2>1, <2>2
<1>4. ASSUME NEW u \in Users, NEW id \in Ids, SetActiveSession(u, id) PROVE DiskInv'
  <2>1. /\ Unlocked /\ active' = [active EXCEPT ![u] = id] /\ todo' = <<SaveMeta(active')>>
        /\ UNCHANGED <<obj, sessions, files, proc, persisted, clobbered, guessed>>
    BY <1>4 DEF SetActiveSession
  <2>2. active' \in [Users -> Ids \cup {NoId}]
    BY <1>0, <2>1 DEF Inv, TypeOK
  <2> QED BY <1>0, <2>1, <2>2, DiskSetActive
<1>5. ASSUME NEW id \in Ids, Delete(id) \/ SetAndSave(id) PROVE DiskInv'
  BY <1>0, <1>5, DiskDelete, DiskSetAndSave
<1>7. ASSUME NEW old \in Ids, NEW new \in NativeIds, AdoptMerge(old, new) \/ AdoptRename(old, new)
      PROVE  DiskInv'
  <2>1. new \in Ids
    BY ConstantsAssumption
  <2> QED BY <1>0, <1>7, <2>1, DiskMerge, DiskRename
<1>8. ASSUME NEW p \in Procs, NEW id \in Ids, UpdateFind(p, id) PROVE DiskInv'
  <2>1. /\ Unlocked /\ proc[p].pc # "changed"
        /\ proc' = [proc EXCEPT ![p] = [pc |-> "found", obj |-> sessions[id], user |-> NoId]]
        /\ UNCHANGED <<obj, sessions, files, todo, persisted, clobbered, guessed>>
    BY <1>8 DEF UpdateFind
  <2> QED BY <1>0, <2>1, DiskProc
<1>9. ASSUME NEW p \in Procs, UpdateChange(p) \/ UpdateSave(p) PROVE DiskInv'
  BY <1>0, <1>9, DiskUpdateChange, DiskUpdateSave
<1>10. ASSUME NEW p \in Procs, UpdateNothing(p) PROVE DiskInv'
  <2>1. /\ proc[p].pc # "changed" /\ proc' = [proc EXCEPT ![p] = Idle]
        /\ UNCHANGED <<obj, sessions, files, todo, persisted, clobbered, guessed>>
    BY <1>10 DEF UpdateNothing
  <2> QED BY <1>0, <2>1, DiskProc
<1>12. ASSUME NEW p \in Procs, NEW u \in Users, MissActive(p, u) PROVE DiskInv'
  <2>1. /\ Unlocked /\ proc[p].pc # "changed"
        /\ proc' = [proc EXCEPT ![p] = [pc |-> "missed", obj |-> NoObj, user |-> u]]
        /\ UNCHANGED <<obj, sessions, files, todo, persisted, clobbered, guessed>>
    BY <1>12 DEF MissActive
  <2> QED BY <1>0, <2>1, DiskProc
<1>13. ASSUME NEW p \in Procs, CreateNext(p) PROVE DiskInv'
  <2>1. PICK u \in Users : u = proc[p].user
    BY <1>0, <1>13 DEF CreateNext, Inv, HoldSessions
  <2>2. /\ Unlocked /\ NextNumber(u) \in DOMAIN NumberedId[u]
        /\ CreateLocked(NumberedId[u][NextNumber(u)], u)
        /\ proc[p].pc = "missed" /\ proc' = [proc EXCEPT ![p] = Idle]
        /\ UNCHANGED <<files, clobbered, guessed>>
    BY <1>13, <2>1 DEF CreateNext
  <2>3. PICK id \in Ids : id = NumberedId[u][NextNumber(u)]
    BY <2>2, NumberIsId
  <2>4. CreateLocked(id, u)
    BY <2>2, <2>3
  <2> QED BY <1>0, <2>2, <2>3, <2>4, DiskCreate
<1>14. CASE CrashAndRestart
  BY <1>0, <1>14, DiskCrash
<1>15. CASE UNCHANGED vars
  BY <1>15, ZenonT(60) DEF vars, DiskInv, RemovesGone, SavedOrPending, Kept, Changing, Pending, InFile, Owned, Empty, KeptIn,
               Moves, Live, Present, OwnerOf
<1> QED BY <1>1, <1>2, <1>3, <1>4, <1>5, <1>7, <1>8, <1>9, <1>10, <1>12, <1>13, <1>14, <1>15
       DEF Next, Operation, Process

---------------------------------------------------------------------------
(* The metadata *)

\* Nobody has changed who is active since the start: every session has its
\* file, and what updaters hold is still in the map.
Fresh ==
  /\ \A id \in Present : id \in OnDisk /\ files[id].user = OwnerOf(id)
  /\ \A u \in Users : meta[u] \in OnDiskOf(u) => active[u] = meta[u]
  /\ \A p \in Procs : proc[p].pc \in {"found", "changed"} => Live(proc[p].obj)
  /\ \A i \in 1 .. Len(todo) : Live(todo[i].obj)

\* The metadata is the last thing to be written, or written, or not yet due.
MetaInv ==
  \/ todo # <<>> /\ todo[Len(todo)] = SaveMeta(active)
  \/ /\ \A i \in 1 .. Len(todo) : todo[i].op = "save"
     /\ meta = active \/ (guessed /\ Fresh)

LEMMA MetaLast ==
  ASSUME NEW a, a = active', todo' # <<>>, todo'[Len(todo')] = SaveMeta(a)
  PROVE  MetaInv'
<1>1. SaveMeta(active)' = SaveMeta(a)
  BY DEF SaveMeta
<1> QED BY <1>1 DEF MetaInv

LEMMA CleanUpEnds ==
  ASSUME TypeOK, NEW gone \in SUBSET Ids, gone # {}
  PROVE  /\ CleanWrites(gone) # <<>>
         /\ CleanWrites(gone)[Len(CleanWrites(gone))] = SaveMeta(Without(gone, active))
<1> DEFINE R == {Remove(id) : id \in gone}
<1>1. PICK s \in Seq(R) : s = SeqOfRemoves(gone)
  BY Removes
<1>2. PICK m \in MetaWrite : m = SaveMeta(Without(gone, active))
  BY WithoutType, Writes
<1>3. CleanWrites(gone) = s \o <<m>>
  BY <1>1, <1>2 DEF CleanWrites
<1>4. R \subseteq Write /\ m \in Write
  BY <1>2, Writes
<1>5. s \in Seq(Write) /\ <<m>> \in Seq(Write) /\ Len(s) \in Nat /\ Len(<<m>>) = 1 /\ <<m>>[1] = m
  BY <1>1, <1>4, SeqMonotonic
<1>6. /\ s \o <<m>> \in Seq(Write) /\ Len(s \o <<m>>) = Len(s) + 1
      /\ \A j \in 1 .. Len(s) + 1 : (s \o <<m>>)[j] = IF j <= Len(s) THEN s[j] ELSE <<m>>[j - Len(s)]
  BY <1>5, ConcatProperties
<1>7. (s \o <<m>>)[Len(s) + 1] = m /\ s \o <<m>> # <<>>
  BY <1>5, <1>6, EmptySeq
<1> QED BY <1>2, <1>3, <1>6, <1>7

\* Steps that leave the map and the metadata alone.
LEMMA MetaQuiet ==
  ASSUME Inv, MetaInv, UNCHANGED <<sessions, active, files, meta, guessed>>,
         \A o \in Objs : obj'[o].id = obj[o].id /\ obj'[o].user = obj[o].user,
         \A p \in Procs : proc'[p].pc \in {"found", "changed"} =>
            \/ proc[p].pc \in {"found", "changed"} /\ proc'[p].obj = proc[p].obj
            \/ \E id \in Present : proc'[p].obj = sessions[id],
         \/ todo' = todo
         \/ /\ todo = <<>>
            /\ \A i \in 1 .. Len(todo') :
                 /\ todo'[i].op = "save"
                 /\ \/ \E p \in Procs : proc[p].pc \in {"found", "changed"} /\ todo'[i].obj = proc[p].obj
                    \/ \E id \in Present : todo'[i].obj = sessions[id]
  PROVE  MetaInv'
<1>1. Present' = Present /\ OnDisk' = OnDisk /\ \A u : OnDiskOf(u)' = OnDiskOf(u)
  BY DEF Present, OnDisk, OnDiskOf
<1>2. \A id \in Present : sessions[id] \in Objs /\ Live(sessions[id])
  BY InMap DEF Inv, Live, Made
<1>3. \A p \in Procs : proc[p].pc \in {"found", "changed"} => proc[p].obj \in Objs
  BY DEF Inv, HoldSessions, Made
<1>4. \A id \in Present : OwnerOf(id)' = OwnerOf(id)
  BY <1>2 DEF OwnerOf
<1>5. CASE todo # <<>> /\ todo[Len(todo)] = SaveMeta(active)
  BY <1>5 DEF MetaInv
<1>6. CASE (\A i \in 1 .. Len(todo) : todo[i].op = "save") /\ meta = active
  BY <1>6 DEF MetaInv
<1>7. CASE (\A i \in 1 .. Len(todo) : todo[i].op = "save") /\ guessed /\ Fresh
  <2>1. \A i \in 1 .. Len(todo') : todo'[i].op = "save"
    BY <1>7
  <2>2. \A o \in Objs : Live(o) => sessions'[obj'[o].id] = o
    BY DEF Live
  <2>3. ASSUME NEW p \in Procs, proc'[p].pc \in {"found", "changed"}
        PROVE  proc'[p].obj \in Objs /\ Live(proc'[p].obj)
    BY <1>2, <1>3, <1>7, <2>3 DEF Fresh
  <2>4. ASSUME NEW i \in 1 .. Len(todo') PROVE todo'[i].obj \in Objs /\ Live(todo'[i].obj)
    <3>1. CASE todo' = todo
      <4>1. todo[i].obj \in Objs
        BY <1>7, <2>4, <3>1 DEF Inv, SavesSessions, Made
      <4> QED BY <1>7, <2>4, <3>1, <4>1 DEF Fresh
    <3>2. CASE todo' # todo
      BY <1>2, <1>3, <1>7, <2>4, <3>2 DEF Fresh
    <3> QED BY <3>1, <3>2
  <2>5. (\A p \in Procs : proc[p].pc \in {"found", "changed"} => Live(proc[p].obj))'
    BY <2>2, <2>3 DEF Live
  <2>6. (\A i \in 1 .. Len(todo) : Live(todo[i].obj))'
    BY <2>2, <2>4 DEF Live
  <2>7. Fresh'
    BY <1>1, <1>4, <1>7, <2>5, <2>6 DEF Fresh
  <2> QED BY <1>7, <2>1, <2>7 DEF MetaInv
<1> QED BY <1>5, <1>6, <1>7 DEF MetaInv

\* A list of saves does not end in the metadata.
LEMMA SavesAreNoMeta ==
  ASSUME Inv, todo # <<>>, \A i \in 1 .. Len(todo) : todo[i].op = "save"
  PROVE  todo[Len(todo)] # SaveMeta(active)
<1>1. Len(todo) \in 1 .. Len(todo)
  BY EmptySeq DEF Inv, TypeOK
<1>2. PICK a \in [Users -> Ids \cup {NoId}] : a = active
  BY DEF Inv, TypeOK
<1>3. SaveMeta(a).op = "meta"
  BY Writes
<1> QED BY <1>1, <1>2, <1>3

LEMMA MetaPerform == ASSUME Inv, MetaInv, Perform PROVE MetaInv'
<1>0. TypeOK /\ todo \in Seq(Write) /\ todo # <<>> /\ todo' = Tail(todo)
  BY DEF Inv, TypeOK, Perform, Unlocked
<1>1. /\ Head(todo) \in Write /\ Head(todo) = todo[1] /\ 1 \in 1 .. Len(todo)
      /\ Tail(todo) \in Seq(Write) /\ Len(Tail(todo)) = Len(todo) - 1 /\ Len(todo) \in Nat
      /\ \A i \in 1 .. Len(Tail(todo)) : Tail(todo)[i] = todo[i + 1]
  BY <1>0, HeadTailProperties, EmptySeq
<1>2. PICK w \in Write : w = Head(todo)
  BY <1>1
<1>3. UNCHANGED <<obj, sessions, active, proc>>
  BY DEF Perform
<1>4. CASE todo[Len(todo)] = SaveMeta(active)
  <2>0. PICK a \in [Users -> Ids \cup {NoId}] : a = active
    BY <1>0 DEF TypeOK
  <2>1. SaveMeta(a).op = "meta" /\ SaveMeta(a).active = a
    BY Writes
  <2>2. CASE Len(todo) = 1
    <3>1. w = SaveMeta(a)
      BY <1>1, <1>2, <1>4, <2>0, <2>2, SMTT(60)
    <3>2. meta' = active'
      BY <1>2, <1>3, <2>0, <2>1, <3>1 DEF Perform
    <3>3. Len(todo') = 0
      BY <1>0, <1>1, <2>2
    <3> QED BY <3>2, <3>3 DEF MetaInv
  <2>3. CASE Len(todo) # 1
    <3>1. Len(todo') \in 1 .. Len(Tail(todo)) /\ Len(todo') + 1 = Len(todo)
      BY <1>0, <1>1, <2>3
    <3>2. todo' # <<>> /\ todo'[Len(todo')] = SaveMeta(a)
      <4>1. PICK n \in 1 .. Len(Tail(todo)) : n = Len(todo') /\ n + 1 = Len(todo)
        BY <3>1
      <4>2. Tail(todo)[n] = todo[n + 1]
        BY <1>1
      <4>3. todo' # <<>>
        BY <3>1
      <4> QED BY <1>0, <1>4, <2>0, <4>1, <4>2, <4>3
    <3>3. a = active'
      BY <1>3, <2>0
    <3> QED BY <3>2, <3>3, MetaLast
  <2> QED BY <2>2, <2>3
<1>5. CASE \A i \in 1 .. Len(todo) : todo[i].op = "save"
  <2>1. w.op = "save" /\ Made(w.obj)
    BY <1>1, <1>2, <1>5 DEF Inv, SavesSessions
  <2>2. PICK s \in Session : s = obj[w.obj]
    BY <2>1, SMTT(60) DEF Made
  <2> DEFINE g == [user |-> s.user, ctx |-> s.ctx]
  <2>3. files' = [files EXCEPT ![s.id] = g] /\ UNCHANGED <<meta, guessed>>
    BY <1>2, <2>1, <2>2 DEF Perform
  <2>4. g.user = s.user /\ s.user \in Users /\ s.id \in Ids
    BY DEF Session
  <2>5. \A i \in 1 .. Len(todo') : i + 1 \in 1 .. Len(todo) /\ todo'[i] = todo[i + 1]
    BY <1>0, <1>1
  <2>6. \A i \in 1 .. Len(todo') : todo'[i].op = "save"
    BY <1>5, <2>5
  <2>7. CASE meta = active
    BY <1>3, <2>3, <2>6, <2>7 DEF MetaInv
  <2>8. CASE guessed /\ Fresh
    <3>1. sessions[s.id] = w.obj
      BY <1>1, <1>2, <2>2, <2>8 DEF Fresh, Live
    <3>2. s.id \in Present /\ OwnerOf(s.id) = s.user
      BY <2>1, <2>2, <2>4, <3>1, ConstantsAssumption DEF Present, Made, OwnerOf
    <3>3. g # NoFile
      <4>1. NoFile.user = NoId
        BY DEF NoFile
      <4> QED BY <2>4, <4>1, ConstantsAssumption
    <3> HIDE DEF g
    <3>4. files'[s.id] = g /\ \A id \in Ids \ {s.id} : files'[id] = files[id]
      BY <1>0, <2>3, <2>4 DEF TypeOK
    <3>5. s.id \in OnDisk /\ files[s.id].user = s.user
      BY <2>8, <3>2 DEF Fresh
    <3>6. OnDisk' = OnDisk
      BY <3>3, <3>4, <3>5 DEF OnDisk
    <3>7. \A u : OnDiskOf(u)' = OnDiskOf(u)
      BY <2>4, <3>4, <3>5, <3>6 DEF OnDiskOf, OnDisk
    <3>8. Present' = Present /\ \A id : OwnerOf(id)' = OwnerOf(id)
      BY <1>3 DEF Present, OwnerOf
    <3>9. \A id \in Present : id \in OnDisk' /\ files'[id].user = OwnerOf(id)
      BY <2>4, <2>8, <3>2, <3>4, <3>6 DEF Fresh, Present
    <3>10. (\A i \in 1 .. Len(todo) : Live(todo[i].obj))'
      BY <1>3, <2>5, <2>8 DEF Fresh, Live
    <3>11. Fresh'
      BY <1>3, <2>3, <2>8, <3>7, <3>8, <3>9, <3>10 DEF Fresh, Live
    <3> QED BY <2>3, <2>6, <2>8, <3>11 DEF MetaInv
  <2> QED BY <1>0, <1>5, <2>7, <2>8, SavesAreNoMeta DEF MetaInv
<1> QED BY <1>4, <1>5 DEF MetaInv

LEMMA MetaCreate ==
  ASSUME Inv, MetaInv, Unlocked, NEW id \in Ids, NEW u \in Users, CreateLocked(id, u),
         UNCHANGED <<files, meta, guessed>>,
         proc' = proc \/ \E p \in Procs : proc' = [proc EXCEPT ![p] = Idle]
  PROVE  MetaInv'
<1>1. PICK gone \in IF Full(Cardinality(Present)) THEN SUBSET (Present \ Touched) ELSE {{}} :
        IF Full(Cardinality(Present \ gone))
        THEN /\ sessions' = [i \in Ids |-> IF i \in gone THEN NoObj ELSE sessions[i]]
             /\ active' = Without(gone, active)
             /\ todo' = CleanWrites(gone)
             /\ persisted' = persisted \ ContentsOf(gone)
             /\ UNCHANGED obj
        ELSE /\ FreeObjs # {}
             /\ obj' = [obj EXCEPT ![NewObj] = [id |-> id, user |-> u, ctx |-> {}]]
             /\ sessions' = [i \in Ids |-> IF i = id THEN NewObj
                                           ELSE IF i \in gone THEN NoObj ELSE sessions[i]]
             /\ active' = [Without(gone, active) EXCEPT ![u] = id]
             /\ todo' = CleanWrites(gone) \o <<Save(NewObj), SaveMeta(active')>>
             /\ persisted' = persisted \ ContentsOf((gone \cup {id}) \cap Present)
  BY DEF CreateLocked
<1>2. gone \subseteq Present /\ gone \in SUBSET Ids
  BY <1>1 DEF Present
<1>3. PICK c \in Seq(DeleteWrite \cup MetaWrite) : c = CleanWrites(gone)
  BY <1>2, CleanUp DEF Inv
<1>4. PICK kept \in [Users -> Ids \cup {NoId}] : kept = Without(gone, active)
  BY <1>2, WithoutType DEF Inv
<1>5. CASE Full(Cardinality(Present \ gone)) /\ gone # {}
  <2>1. c # <<>> /\ c[Len(c)] = SaveMeta(kept)
    BY <1>2, <1>3, <1>4, <1>5, CleanUpEnds DEF Inv
  <2>2. todo' = c /\ kept = active'
    BY <1>1, <1>3, <1>4, <1>5
  <2> QED BY <2>1, <2>2, MetaLast
<1>6. CASE Full(Cardinality(Present \ gone)) /\ gone = {}
  <2>1. active' = active
    BY <1>1, <1>6 DEF Without, Inv, TypeOK
  <2>2. sessions' = sessions
    BY <1>1, <1>6 DEF Inv, TypeOK
  <2>3. todo' = todo /\ obj' = obj
    BY <1>1, <1>6 DEF Unlocked, CleanWrites
  <2>4. \A p \in Procs : proc'[p].pc \in {"found", "changed"} => proc'[p] = proc[p]
    BY DEF Inv, TypeOK, Idle
  <2> QED BY <2>1, <2>2, <2>3, <2>4, MetaQuiet
<1>7. CASE ~Full(Cardinality(Present \ gone))
  <2>1. PICK o \in Objs : o = NewObj
    BY <1>1, <1>7, IsNew
  <2>2. active' = [kept EXCEPT ![u] = id] /\ todo' = c \o <<Save(o), SaveMeta(active')>>
    BY <1>1, <1>3, <1>4, <1>7, <2>1
  <2>3. PICK a \in [Users -> Ids \cup {NoId}] : a = active'
    BY <2>2
  <2>4. /\ c \o <<Save(o), SaveMeta(a)>> # <<>>
        /\ (c \o <<Save(o), SaveMeta(a)>>)[Len(c \o <<Save(o), SaveMeta(a)>>)] = SaveMeta(a)
    BY TodoMore
  <2>5. todo' = c \o <<Save(o), SaveMeta(a)>>
    BY <2>2, <2>3
  <2> QED BY <2>3, <2>4, <2>5, MetaLast
<1> QED BY <1>5, <1>6, <1>7

LEMMA MetaSetActive ==
  ASSUME Inv, active' \in [Users -> Ids \cup {NoId}], todo' = <<SaveMeta(active')>>
  PROVE  MetaInv'
<1>1. PICK a \in [Users -> Ids \cup {NoId}] : a = active'
  OBVIOUS
<1>2. todo' = <<SaveMeta(a)>>
  BY <1>1
<1> QED BY <1>1, <1>2, ShortTodo, MetaLast

LEMMA MetaCrash == ASSUME Inv, CrashAndRestart PROVE MetaInv'
<1>1. todo' = <<>> /\ Len(todo') = 0 /\ UNCHANGED <<files, meta>> /\ proc' = [p \in Procs |-> Idle]
      /\ RestoredActive(active') /\ guessed' = (active' # meta)
  BY DEF CrashAndRestart
<1>2. Present' = OnDisk /\ OnDisk' = OnDisk /\ \A u : OnDiskOf(u)' = OnDiskOf(u)
  BY <1>1, Restarts DEF OnDisk, OnDiskOf
<1>3. \A id \in OnDisk : OwnerOf(id)' = files[id].user
  BY Restarts DEF OwnerOf
<1>4. \A u \in Users : meta[u] \in OnDiskOf(u) => active'[u] = meta[u]
  BY <1>1 DEF RestoredActive
<1>5. \A p \in Procs : proc'[p].pc = "idle"
  BY <1>1 DEF Idle
<1>6. Fresh'
  BY <1>1, <1>2, <1>3, <1>4, <1>5 DEF Fresh
<1>7. meta' = active' \/ guessed'
  BY <1>1
<1> QED BY <1>1, <1>6, <1>7 DEF MetaInv

LEMMA MetaStep == Inv /\ MetaInv /\ [Next]_vars => MetaInv'
<1> SUFFICES ASSUME Inv, MetaInv, [Next]_vars PROVE MetaInv'
  OBVIOUS
<1>0. Inv /\ active \in [Users -> Ids \cup {NoId}]
  BY DEF Inv, TypeOK
<1>1. CASE Perform
  BY <1>0, <1>1, MetaPerform
<1>2. CASE CleanExpired
  <2>1. PICK gone \in SUBSET (Present \ Touched) :
          gone # {} /\ active' = Without(gone, active) /\ todo' = CleanWrites(gone)
    BY <1>2 DEF CleanExpired
  <2>2. gone \in SUBSET Ids
    BY DEF Present
  <2>3. PICK a : a = Without(gone, active)
    OBVIOUS
  <2>4. todo' # <<>> /\ todo'[Len(todo')] = SaveMeta(a)
    BY <1>0, <2>1, <2>2, <2>3, CleanUpEnds DEF Inv
  <2> QED BY <2>1, <2>3, <2>4, MetaLast
<1>3. ASSUME NEW u \in Users, NEW id \in Ids, GetOrCreateSession(u, id) PROVE MetaInv'
  <2>1. CASE id \in Present
    <3>1. active' = [active EXCEPT ![u] = id] /\ todo' = <<SaveMeta(active')>>
      BY <1>3, <2>1 DEF GetOrCreateSession
    <3>2. active' \in [Users -> Ids \cup {NoId}]
      BY <1>0, <3>1
    <3> QED BY <1>0, <3>1, <3>2, MetaSetActive
  <2>2. CASE id \notin Present
    BY <1>0, <1>3, <2>2, MetaCreate DEF GetOrCreateSession
  <2> QED BY <2>1, <2>2
<1>4. ASSUME NEW u \in Users, NEW id \in Ids, SetActiveSession(u, id) PROVE MetaInv'
  <2>1. active' = [active EXCEPT ![u] = id] /\ todo' = <<SaveMeta(active')>>
    BY <1>4 DEF SetActiveSession
  <2>2. active' \in [Users -> Ids \cup {NoId}]
    BY <1>0, <2>1
  <2> QED BY <1>0, <2>1, <2>2, MetaSetActive
<1>5. ASSUME NEW id \in Ids, Delete(id) PROVE MetaInv'
  <2>1. PICK a : a = active'
    OBVIOUS
  <2>2. todo' = <<Remove(id), SaveMeta(a)>>
    BY <1>5, <2>1 DEF Delete
  <2>3. todo' # <<>> /\ todo'[Len(todo')] = SaveMeta(a)
    BY <2>2
  <2> QED BY <2>1, <2>3, MetaLast
<1>6. ASSUME NEW id \in Ids, SetAndSave(id) PROVE MetaInv'
  <2>1. /\ Unlocked /\ id \in Present /\ updates < MaxUpdates
        /\ obj' = [obj EXCEPT ![sessions[id]].ctx = @ \cup {updates + 1}]
        /\ todo' = <<Save(sessions[id])>>
        /\ UNCHANGED <<sessions, active, files, meta, proc, guessed>>
    BY <1>6 DEF SetAndSave
  <2>2. PICK o \in Objs : o = sessions[id] /\ Made(o)
    BY <1>0, <2>1, InMap DEF Inv, Made
  <2>3. \A q \in Objs : obj'[q].id = obj[q].id /\ obj'[q].user = obj[q].user
    <3>1. {updates + 1} \in SUBSET Update
      BY <1>0, <2>1, ConstantsAssumption DEF Inv, TypeOK, Update
    <3> QED BY <1>0, <2>1, <2>2, <3>1, Grows
  <2>4. \A i \in 1 .. Len(todo') : todo'[i].op = "save" /\ todo'[i].obj = sessions[id]
    <3>1. todo' = <<Save(o)>> /\ Len(todo') = 1 /\ Save(o).op = "save" /\ Save(o).obj = o
      BY <2>1, <2>2, Writes
    <3> QED BY <2>2, <3>1
  <2>5. todo = <<>>
    BY <2>1 DEF Unlocked
  <2> QED BY <1>0, <2>1, <2>3, <2>4, <2>5, MetaQuiet
<1>7. ASSUME NEW old \in Ids, NEW new \in NativeIds, AdoptMerge(old, new) \/ AdoptRename(old, new)
      PROVE  MetaInv'
  <2>1. PICK a : a = active'
    OBVIOUS
  <2>2. PICK o : todo' = <<Save(o), Remove(old), SaveMeta(a)>>
    BY <1>7, <2>1 DEF AdoptMerge, AdoptRename
  <2>3. todo' # <<>> /\ todo'[Len(todo')] = SaveMeta(a)
    BY <2>2
  <2> QED BY <2>1, <2>3, MetaLast
<1>8. ASSUME NEW p \in Procs, NEW id \in Ids, UpdateFind(p, id) PROVE MetaInv'
  <2>1. /\ id \in Present /\ proc' = [proc EXCEPT ![p] = [pc |-> "found", obj |-> sessions[id], user |-> NoId]]
        /\ UNCHANGED <<obj, sessions, active, files, meta, todo, guessed>>
    BY <1>8 DEF UpdateFind
  <2>2. proc'[p].obj = sessions[id] /\ \A q \in Procs \ {p} : proc'[q] = proc[q]
    BY <1>0, <2>1 DEF Inv, TypeOK
  <2> QED BY <1>0, <2>1, <2>2, MetaQuiet
<1>9. ASSUME NEW p \in Procs, UpdateChange(p) PROVE MetaInv'
  <2>1. /\ proc[p].pc = "found" /\ updates < MaxUpdates
        /\ obj' = [obj EXCEPT ![proc[p].obj].ctx = @ \cup {updates + 1}]
        /\ proc' = [proc EXCEPT ![p].pc = "changed"]
        /\ UNCHANGED <<sessions, active, files, meta, todo, guessed>>
    BY <1>9 DEF UpdateChange
  <2>2. PICK o \in Objs : o = proc[p].obj /\ Made(o)
    BY <1>0, <2>1 DEF Inv, HoldSessions, Made
  <2>3. \A q \in Objs : obj'[q].id = obj[q].id /\ obj'[q].user = obj[q].user
    <3>1. {updates + 1} \in SUBSET Update
      BY <1>0, <2>1, ConstantsAssumption DEF Inv, TypeOK, Update
    <3> QED BY <1>0, <2>1, <2>2, <3>1, Grows
  <2>4. proc'[p].obj = proc[p].obj /\ \A q \in Procs \ {p} : proc'[q] = proc[q]
    <3>1. PICK r \in [pc : {"idle", "found", "changed", "missed"}, obj : Objs \cup {NoObj},
                      user : Users \cup {NoId}] : r = proc[p]
      BY <1>0 DEF Inv, TypeOK
    <3>2. [r EXCEPT !.pc = "changed"].obj = r.obj
      OBVIOUS
    <3> QED BY <1>0, <2>1, <3>1, <3>2 DEF Inv, TypeOK
  <2> QED BY <1>0, <2>1, <2>3, <2>4, MetaQuiet
<1>10. ASSUME NEW p \in Procs, UpdateNothing(p) PROVE MetaInv'
  <2>1. proc' = [proc EXCEPT ![p] = Idle] /\ UNCHANGED <<obj, sessions, active, files, meta, todo, guessed>>
    BY <1>10 DEF UpdateNothing
  <2>2. \A q \in Procs : proc'[q].pc \in {"found", "changed"} => proc'[q] = proc[q]
    BY <1>0, <2>1 DEF Inv, TypeOK, Idle
  <2> QED BY <1>0, <2>1, <2>2, MetaQuiet
<1>11. ASSUME NEW p \in Procs, UpdateSave(p) PROVE MetaInv'
  <2>1. /\ Unlocked /\ proc[p].pc = "changed" /\ todo' = <<Save(proc[p].obj)>>
        /\ proc' = [proc EXCEPT ![p] = Idle]
        /\ UNCHANGED <<obj, sessions, active, files, meta, guessed>>
    BY <1>11 DEF UpdateSave
  <2>2. \A q \in Procs : proc'[q].pc \in {"found", "changed"} => proc'[q] = proc[q]
    BY <1>0, <2>1 DEF Inv, TypeOK, Idle
  <2>3. \A i \in 1 .. Len(todo') : todo'[i].op = "save" /\ todo'[i].obj = proc[p].obj
    <3>1. PICK o \in Objs : o = proc[p].obj
      BY <1>0, <2>1 DEF Inv, HoldSessions, Made
    <3>2. todo' = <<Save(o)>> /\ Len(todo') = 1 /\ Save(o).op = "save" /\ Save(o).obj = o
      BY <2>1, <3>1, Writes
    <3> QED BY <3>1, <3>2
  <2>4. todo = <<>>
    BY <2>1 DEF Unlocked
  <2> QED BY <1>0, <2>1, <2>2, <2>3, <2>4, MetaQuiet
<1>12. ASSUME NEW p \in Procs, NEW u \in Users, MissActive(p, u) PROVE MetaInv'
  <2>1. /\ proc' = [proc EXCEPT ![p] = [pc |-> "missed", obj |-> NoObj, user |-> u]]
        /\ UNCHANGED <<obj, sessions, active, files, meta, todo, guessed>>
    BY <1>12 DEF MissActive
  <2>2. \A q \in Procs : proc'[q].pc \in {"found", "changed"} => proc'[q] = proc[q]
    BY <1>0, <2>1 DEF Inv, TypeOK
  <2> QED BY <1>0, <2>1, <2>2, MetaQuiet
<1>13. ASSUME NEW p \in Procs, CreateNext(p) PROVE MetaInv'
  <2>1. PICK u \in Users : u = proc[p].user
    BY <1>0, <1>13 DEF CreateNext, Inv, HoldSessions
  <2>2. /\ Unlocked /\ NextNumber(u) \in DOMAIN NumberedId[u]
        /\ CreateLocked(NumberedId[u][NextNumber(u)], u)
        /\ proc' = [proc EXCEPT ![p] = Idle]
        /\ UNCHANGED <<files, meta, guessed>>
    BY <1>13, <2>1 DEF CreateNext
  <2>3. PICK id \in Ids : id = NumberedId[u][NextNumber(u)]
    BY <2>2, NumberIsId
  <2>4. CreateLocked(id, u)
    BY <2>2, <2>3
  <2> QED BY <1>0, <2>2, <2>3, <2>4, MetaCreate
<1>14. CASE CrashAndRestart
  BY <1>0, <1>14, MetaCrash
<1>15. CASE UNCHANGED vars
  BY <1>0, <1>15, MetaQuiet DEF vars
<1> QED BY <1>1, <1>2, <1>3, <1>4, <1>5, <1>6, <1>7, <1>8, <1>9, <1>10, <1>11, <1>12, <1>13, <1>14, <1>15
       DEF Next, Operation, Process

---------------------------------------------------------------------------
(* Theorems *)

\* The inductive invariant: types, who is filed under what id and belongs to
\* whom, what updaters hold and what is to be saved; it survives adoption,
\* expiry, a full manager, updaters with stale pointers, and kills between any
\* two writes of session.go.
THEOREM Invariance == Spec => []Inv
<1> QED BY InitHolds, StepKeeps, PTL DEF Spec

\* Every variable keeps its type: whatever an operation saves or an updater
\* holds is a session that was made, also when it is no longer in the map.
THEOREM TypeCorrect == Spec => []TypeOK
<1>1. Inv => TypeOK
  BY DEF Inv
<1> QED BY <1>1, Invariance, PTL

\* A session is filed under the id it carries, and a user's active session
\* exists and is the user's own: no adoption, merge, expiry, deletion or restart
\* leaves activeByUser pointing at nothing or at somebody else's session, unless
\* the user had taken another user's numbered id, which createLocked takes back.
THEOREM Consistent == Spec => []SessionsConsistent
<1>1. Inv => SessionsConsistent
  BY DEF Inv
<1> QED BY <1>1, Invariance, PTL

\* Files and memory, on top of the invariant.
LEMMA DiskHolds == Spec => [](Inv /\ DiskInv)
<1>1. Init => Inv /\ DiskInv
  BY InitHolds, DiskInit
<1>2. (Inv /\ DiskInv) /\ [Next]_vars => (Inv /\ DiskInv)'
  BY StepKeeps, DiskStep
<1> QED BY <1>1, <1>2, PTL DEF Spec

\* The metadata, on top of the invariant.
LEMMA MetaHolds == Spec => [](Inv /\ MetaInv)
<1>1. Init => Inv /\ MetaInv
  <2>1. Init => MetaInv
    BY DEF Init, MetaInv
  <2> QED BY <2>1, InitHolds
<1>2. (Inv /\ MetaInv) /\ [Next]_vars => (Inv /\ MetaInv)'
  BY StepKeeps, MetaStep
<1> QED BY <1>1, <1>2, PTL DEF Spec

\* While no operation writes, the file of a session says what the session says,
\* but for an update whose save is to come and a file that a session that was
\* gone has written over.
THEOREM OnDiskAsInMemory == Spec => []MemoryOnDisk
<1>1. Inv /\ DiskInv => MemoryOnDisk
  <2> SUFFICES ASSUME Inv, DiskInv, Unlocked, NEW id \in Present \ (Touched \cup clobbered)
               PROVE  InFile(id)
    BY DEF MemoryOnDisk, InFile
  <2>1. ~Changing(id)
    <3>1. obj[sessions[id]].id = id
      BY InMap DEF Inv
    <3> QED BY <3>1 DEF Changing, Touched
  <2>2. ~Pending(id)
    BY DEF Pending, Unlocked
  <2> QED BY <2>1, <2>2 DEF DiskInv, SavedOrPending
<1> QED BY <1>1, DiskHolds, PTL

\* An update that was saved is in some file ever after, until its session is
\* deleted, expires or is taken over: AdoptSessionID writes the new file before
\* it removes the old one, and a kill may come between any two of its writes.
THEOREM StaysOnDisk == Spec => []PersistedStays
<1>1. Inv /\ DiskInv => PersistedStays
  <2> SUFFICES ASSUME DiskInv, NEW t \in persisted PROVE \E id \in OnDisk : t \in files[id].ctx
    BY DEF PersistedStays
  <2>1. PICK id \in Ids : t \in files[id].ctx
    BY DEF DiskInv, Kept, KeptIn, Moves
  <2> QED BY <2>1 DEF OnDisk, NoFile
<1> QED BY <1>1, DiskHolds, PTL

\* While no operation writes, the metadata names no other session than the
\* active one where it would count at a restart: every change of who is active
\* ends in saveMetadataLocked.
THEOREM ActiveAsSaved == Spec => []MetadataNotStale
<1>1. Inv /\ MetaInv => MetadataNotStale
  BY DEF MetaInv, Fresh, MetadataNotStale, Unlocked
<1> QED BY <1>1, MetaHolds, PTL

\* Every change of who is active is saved, and so is every session, before the
\* lock is given back: a restart finds both, and gives each user the session he
\* had, for any sequence of renames, merges, expiries and take-overs before it.
THEOREM RestartKeeps == Spec => RestartKeepsActive
<1>1. ASSUME Inv, DiskInv, MetaInv, [Next]_vars, crashes' # crashes, Unlocked, ~guessed,
             NEW u \in Users, active[u] \in SessionsOf(u) \ clobbered
      PROVE  active'[u] = active[u]
  <2>1. CrashAndRestart
    <3>1. Inv /\ crashes \in Nat
      BY <1>1, ConstantsAssumption DEF Inv, TypeOK
    <3> QED BY <1>1 DEF Next, Operation, Process, Perform, CleanExpired, GetOrCreateSession,
              SetActiveSession, Delete, SetAndSave, AdoptMerge, AdoptRename, UpdateFind,
              UpdateChange, UpdateNothing, UpdateSave, MissActive, CreateNext, vars
  <2>2. meta = active
    BY <1>1 DEF MetaInv, Unlocked
  <2>3. PICK id \in Present \ clobbered : id = active[u] /\ OwnerOf(id) = u
    BY <1>1 DEF SessionsOf
  <2>4. Owned(id)
    <3>1. ~Pending(id)
      BY <1>1 DEF Pending, Unlocked
    <3> QED BY <1>1, <3>1, FileOwned DEF DiskInv, SavedOrPending
  <2>5. id \in OnDiskOf(u)
    <3>1. files[id].user = u /\ u # NoId
      BY <2>3, <2>4, ConstantsAssumption DEF Owned
    <3>2. NoFile.user = NoId
      BY DEF NoFile
    <3> QED BY <3>1, <3>2 DEF OnDiskOf, OnDisk, Present
  <2>6. RestoredActive(active')
    BY <2>1 DEF CrashAndRestart
  <2> QED BY <2>2, <2>3, <2>5, <2>6, SMTT(60) DEF RestoredActive
<1>2. Inv /\ DiskInv /\ MetaInv /\ [Next]_vars =>
        [crashes' # crashes /\ Unlocked /\ ~guessed =>
           \A u \in Users : active[u] \in SessionsOf(u) \ clobbered => active'[u] = active[u]]_vars
  BY <1>1
<1> QED BY <1>2, DiskHolds, MetaHolds, PTL DEF Spec, RestartKeepsActive
=============================================================================
