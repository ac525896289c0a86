-------------------------- MODULE DispatcherProofs --------------------------
(***************************************************************************)
(* Proofs about Dispatcher, for every set of users, number of messages and *)
(* queue length.  One inductive invariant, Inv, carries type correctness   *)
(* and OneWorkerPerUser: besides them it says that message ids grow on     *)
(* their way from the channel through the dispatcher to the workers, so    *)
(* that a new goroutine never takes the place of one that still runs.      *)
(*                                                                         *)
(* From it follows what happens to messages: queues are bounded and        *)
(* served, the registered run is the one going on, a user's messages are   *)
(* begun in order, slash commands run one at a time, the whole implements  *)
(* UserQueue, and no message is lost or handled twice.                     *)
(***************************************************************************)
EXTENDS Dispatcher, SequenceTheorems, FiniteSetTheorems, TLAPS

\* The dispatcher holds a message exactly while it works on one.
DispHolds ==
  /\ disp.msg = NoMsg <=> disp.pc \in {"select", "stopped"}

\* A worker that is about to serve, or serves, a message holds it, and a live
\* worker has its user.
WorkerHolds ==
  \A w \in MsgId :
    /\ Live(w) => worker[w].user \in Users
    /\ worker[w].pc \in {"check", "begin", "running"} => worker[w].msg \in Message

\* Ids grow along the channel, and everything the channel still holds is newer
\* than the message being dispatched and than every message that started a
\* worker.
ChannelInOrder ==
  /\ \A i \in 1 .. Len(inbox) : inbox[i].id <= arrived
  /\ \A i, j \in 1 .. Len(inbox) : i < j => inbox[i].id < inbox[j].id
  /\ disp.msg # NoMsg =>
       /\ disp.msg.id <= arrived
       /\ \A i \in 1 .. Len(inbox) : disp.msg.id < inbox[i].id

WorkersAreOlder ==
  \A w \in MsgId : worker[w].pc # "unborn" =>
    /\ w <= arrived
    /\ disp.msg # NoMsg => w < disp.msg.id
    /\ \A i \in 1 .. Len(inbox) : w < inbox[i].id

\* OneWorkerPerUser without the sets WorkersOf.
Unique ==
  \A v, w \in MsgId :
    Live(v) /\ Live(w) /\ worker[v].user = worker[w].user => v = w

Matched ==
  /\ \A w \in MsgId : Live(w) => worker[w].user \in inFlight
  /\ \A u \in inFlight : \E w \in MsgId : Live(w) /\ worker[w].user = u

Inv ==
  /\ TypeOK
  /\ DispHolds
  /\ WorkerHolds
  /\ ChannelInOrder
  /\ WorkersAreOlder
  /\ Unique
  /\ Matched

---------------------------------------------------------------------------
(* Helpers *)

\* What clearUser and nextQueued do to a user's worker that goes away leaves
\* every other user's worker in place.
LEMMA LeavingKeepsMatch ==
  ASSUME NEW w \in MsgId, TypeOK, Unique, Matched, WorkerHolds, Live(w),
         WorkerFinished(w), inFlight' = inFlight \ {worker[w].user}
  PROVE  Unique' /\ Matched' /\ WorkerHolds'
<1>1. /\ worker' \in [MsgId -> WorkerRecord]
      /\ worker'[w].pc = "done" /\ worker'[w].user = worker[w].user
      /\ \A v \in MsgId \ {w} : worker'[v] = worker[v]
  BY ZenonT(60) DEF TypeOK, WorkerFinished, WorkerRecord, WorkerPc
<1>2. ~Live(w)' /\ \A v \in MsgId \ {w} : Live(v)' <=> Live(v)
  BY <1>1 DEF Live
<1>3. Unique'
  BY <1>1, <1>2 DEF Unique
<1>4. Matched'
  BY <1>1, <1>2 DEF Matched, Unique
<1>5. WorkerHolds'
  BY <1>1, <1>2 DEF WorkerHolds
<1> QED BY <1>3, <1>4, <1>5

\* A worker that moves on without going away changes nothing in the match.
LEMMA MovingKeepsMatch ==
  ASSUME NEW w \in MsgId, NEW r \in WorkerRecord, TypeOK, Unique, Matched, WorkerHolds,
         Live(w), worker' = [worker EXCEPT ![w] = r],
         r.pc \notin {"unborn", "done"}, r.user = worker[w].user,
         r.pc \in {"check", "begin", "running"} => r.msg \in Message,
         inFlight' = inFlight
  PROVE  Unique' /\ Matched' /\ WorkerHolds'
<1>1. worker'[w] = r /\ \A v \in MsgId \ {w} : worker'[v] = worker[v]
  BY DEF TypeOK
<1>2. \A v \in MsgId : (Live(v)' <=> Live(v)) /\ worker'[v].user = worker[v].user
  BY <1>1 DEF Live
<1>3. Unique'
  BY <1>2 DEF Unique
<1>4. Matched'
  BY <1>2 DEF Matched
<1>5. WorkerHolds'
  BY <1>1, <1>2 DEF WorkerHolds
<1> QED BY <1>3, <1>4, <1>5

\* A step that leaves workers and inFlight alone.
LEMMA IdleKeepsMatch ==
  ASSUME Unique, Matched, WorkerHolds, UNCHANGED <<worker, inFlight>>
  PROVE  Unique' /\ Matched' /\ WorkerHolds'
BY DEF Unique, Matched, WorkerHolds, Live

\* A step that leaves the channel, the dispatcher and the set of started
\* workers alone.
LEMMA WorkerStepKeepsOrder ==
  ASSUME NEW w \in MsgId, TypeOK, ChannelInOrder, WorkersAreOlder, DispHolds,
         UNCHANGED <<arrived, dispVars>>, worker[w].pc # "unborn",
         worker' \in [MsgId -> WorkerRecord],
         \A v \in MsgId \ {w} : worker'[v] = worker[v]
  PROVE  ChannelInOrder' /\ WorkersAreOlder' /\ DispHolds'
BY DEF ChannelInOrder, WorkersAreOlder, DispHolds, dispVars, TypeOK

\* The tail of a queue, an extended queue and a bounded queue are queues.
LEMMA QueueTypes ==
  ASSUME NEW q \in Seq(Message), NEW m \in Message
  PROVE  /\ Append(q, m) \in Seq(Message)
         /\ AppendBounded(q, m) \in Seq(Message)
         /\ q # <<>> => Head(q) \in Message /\ Tail(q) \in Seq(Message)
<1>1. Append(q, m) \in Seq(Message) /\ Append(q, m) # <<>>
  BY AppendProperties
<1>2. \A s \in Seq(Message) : s # <<>> => Head(s) \in Message /\ Tail(s) \in Seq(Message)
  BY HeadTailProperties
<1> QED BY <1>1, <1>2 DEF AppendBounded

\* Every message in a sequence of messages has its fields.
LEMMA MessageFields ==
  ASSUME NEW m \in Message
  PROVE  m.id \in MsgId /\ m.id \in Nat /\ m.user \in Users /\ m # NoMsg
BY ConstantsAssumption DEF Message, MsgId

LEMMA ElementIsMessage ==
  ASSUME NEW s \in Seq(Message), NEW i \in 1 .. Len(s)
  PROVE  s[i] \in Message /\ s[i].id \in Nat
<1>1. s[i] \in Message
  OBVIOUS
<1> QED BY <1>1, MessageFields

---------------------------------------------------------------------------
(* The inductive invariant *)

LEMMA InitInv == Init => Inv
<1> SUFFICES ASSUME Init PROVE Inv
  OBVIOUS
<1> USE ConstantsAssumption DEF Init
<1>1. TypeOK
  <2>1. worker \in [MsgId -> WorkerRecord]
    <3>1. NotStarted \in WorkerRecord
      BY DEF NotStarted, WorkerRecord, WorkerPc
    <3> QED BY <3>1
  <2>2. disp \in [pc : DispPc, msg : Message \cup {NoMsg}]
    BY DEF Waiting, DispPc
  <2>3. inbox \in Seq(Message) /\ queue \in [Users -> Seq(Message)]
    BY EmptySeq
  <2>4. arrived \in 0 .. MaxArrivals
    BY SMT
  <2>5. fate \in [MsgId -> Fate]
    BY DEF Fate
  <2> QED BY <2>1, <2>2, <2>3, <2>4, <2>5 DEF TypeOK
<1>2. DispHolds /\ ChannelInOrder
  BY DEF DispHolds, ChannelInOrder, Waiting
<1>3. \A w \in MsgId : ~Live(w) /\ worker[w].pc = "unborn"
  BY DEF Live, NotStarted
<1>4. WorkerHolds /\ WorkersAreOlder /\ Unique /\ Matched
  BY <1>3 DEF WorkerHolds, WorkersAreOlder, Unique, Matched, Live, NotStarted
<1> QED BY <1>1, <1>2, <1>4 DEF Inv

\* The steps of the environment, of the slash goroutines, and of the
\* dispatcher while it only decides, leave the users' side alone.
LEMMA UserSideIdle ==
  ASSUME Inv, UNCHANGED <<worker, inFlight>>, TypeOK', DispHolds', ChannelInOrder',
         WorkersAreOlder'
  PROVE  Inv'
BY IdleKeepsMatch DEF Inv

LEMMA EnvironmentInv ==
  ASSUME Inv,
         \/ Arrive \/ Cancel \/ \E u \in Users : CooldownEnds(u)
         \/ \E m \in slashRuns : SlashReturns(m) \/ SlashPanics(m)
  PROVE  Inv'
<1> USE DEF Inv
<1>1. CASE Arrive
  <2>1. PICK u \in Users, k \in Kinds :
          inbox' = Append(inbox, [id |-> arrived + 1, user |-> u, kind |-> k])
    BY <1>1 DEF Arrive
  <2> DEFINE new == [id |-> arrived + 1, user |-> u, kind |-> k]
  <2>2. new \in Message /\ arrived + 1 \in 1 .. MaxArrivals
    <3>1. arrived + 1 \in 1 .. MaxArrivals
      BY <1>1, ConstantsAssumption DEF Arrive, TypeOK
    <3> QED BY <3>1 DEF Message, MsgId
  <2>3. /\ inbox' \in Seq(Message) /\ Len(inbox') = Len(inbox) + 1
        /\ \A i \in 1 .. Len(inbox) : inbox'[i] = inbox[i]
        /\ inbox'[Len(inbox) + 1] = new
    <3>1. inbox \in Seq(Message)
      BY DEF TypeOK
    <3> QED BY <3>1, <2>1, <2>2
  <2>4. \A i \in 1 .. Len(inbox) : inbox[i].id \in Nat /\ inbox[i].id <= arrived
    BY ElementIsMessage DEF ChannelInOrder, TypeOK
  <2>5. arrived \in Nat /\ arrived' = arrived + 1 /\ UNCHANGED <<disp, worker, inFlight>>
    BY <1>1 DEF Arrive, userVars, TypeOK
  <2>6. TypeOK'
    BY <1>1, <2>2, <2>3, <2>5, SMTT(60) DEF Arrive, TypeOK, userVars
  <2>7. DispHolds'
    BY <2>5 DEF DispHolds
  <2>8. disp.msg # NoMsg => disp.msg.id \in Nat
    BY MessageFields DEF TypeOK
  <2>9. \A i \in 1 .. Len(inbox') :
          \/ i \in 1 .. Len(inbox) /\ inbox'[i] = inbox[i]
          \/ i = Len(inbox) + 1 /\ inbox'[i].id = arrived + 1
    BY <2>3
  <2>10. Len(inbox) \in Nat
    BY DEF TypeOK
  <2>11. ChannelInOrder'
    <3>1. \A i \in 1 .. Len(inbox') : inbox'[i].id <= arrived'
      BY <2>4, <2>5, <2>9
    <3>2. ASSUME NEW i \in 1 .. Len(inbox'), NEW j \in 1 .. Len(inbox'), i < j
          PROVE  inbox'[i].id < inbox'[j].id
      <4>1. i \in 1 .. Len(inbox) /\ inbox'[i] = inbox[i]
        BY <2>3, <2>9, <2>10, <3>2
      <4>2. CASE j \in 1 .. Len(inbox) /\ inbox'[j] = inbox[j]
        BY <4>1, <4>2, <3>2 DEF ChannelInOrder
      <4>3. CASE j = Len(inbox) + 1 /\ inbox'[j].id = arrived + 1
        BY <4>1, <4>3, <2>4, <2>5
      <4> QED BY <4>2, <4>3, <2>9
    <3>3. ASSUME disp'.msg # NoMsg
          PROVE  disp'.msg.id <= arrived' /\ \A i \in 1 .. Len(inbox') : disp'.msg.id < inbox'[i].id
      <4>1. disp.msg.id \in Nat /\ disp.msg.id <= arrived
        BY <3>3, <2>5, <2>8 DEF ChannelInOrder
      <4>2. \A i \in 1 .. Len(inbox) : disp.msg.id < inbox[i].id
        BY <3>3, <2>5 DEF ChannelInOrder
      <4> QED BY <4>1, <4>2, <2>5, <2>9
    <3> QED BY <3>1, <3>2, <3>3 DEF ChannelInOrder
  <2>12. WorkersAreOlder'
    <3>1. ASSUME NEW w \in MsgId, worker'[w].pc # "unborn"
          PROVE  /\ w <= arrived'
                 /\ disp'.msg # NoMsg => w < disp'.msg.id
                 /\ \A i \in 1 .. Len(inbox') : w < inbox'[i].id
      BY <3>1, <2>5, <2>9 DEF WorkersAreOlder, MsgId
    <3> QED BY <3>1 DEF WorkersAreOlder
  <2> QED BY <2>5, <2>6, <2>7, <2>11, <2>12, UserSideIdle
<1>2. CASE Cancel
  <2>1. UNCHANGED <<arrived, inbox, disp, worker, inFlight>> /\ TypeOK'
    BY <1>2 DEF Cancel, dispVars, userVars, TypeOK
  <2> QED BY <2>1, UserSideIdle DEF DispHolds, ChannelInOrder, WorkersAreOlder
<1>3. CASE \E u \in Users : CooldownEnds(u)
  <2>1. UNCHANGED <<arrived, inbox, disp, worker, inFlight>> /\ TypeOK'
    BY <1>3 DEF CooldownEnds, dispVars, TypeOK
  <2> QED BY <2>1, UserSideIdle DEF DispHolds, ChannelInOrder, WorkersAreOlder
<1>4. CASE \E m \in slashRuns : SlashReturns(m)
  <2>1. UNCHANGED <<arrived, inbox, disp, worker, inFlight>>
    BY <1>4 DEF SlashReturns, userVars
  <2>2. PICK m \in slashRuns : SlashReturns(m)
    BY <1>4
  <2>3. m \in Message /\ m.id \in MsgId
    BY <2>2, MessageFields DEF TypeOK
  <2>4. fate' \in [MsgId -> Fate]
    BY <2>2, <2>3 DEF SlashReturns, TypeOK, Fate
  <2>5. slashRuns' \in SUBSET Message /\ slashBusy' \in SUBSET Users
    BY <2>2 DEF SlashReturns, TypeOK
  <2>6. TypeOK'
    BY <2>2, <2>4, <2>5 DEF SlashReturns, userVars, TypeOK
  <2> QED BY <2>1, <2>6, UserSideIdle DEF DispHolds, ChannelInOrder, WorkersAreOlder
<1>5. CASE \E m \in slashRuns : SlashPanics(m)
  <2>1. UNCHANGED <<arrived, inbox, disp, worker, inFlight>> /\ TypeOK'
    BY <1>5 DEF SlashPanics, dispVars, userVars, TypeOK
  <2> QED BY <2>1, UserSideIdle DEF DispHolds, ChannelInOrder, WorkersAreOlder
<1> QED BY <1>1, <1>2, <1>3, <1>4, <1>5

\* Steps in which the dispatcher goes on with, or is done with, its message.
LEMMA DispatcherMoves ==
  ASSUME Inv, UNCHANGED <<arrived, inbox, worker, inFlight>>, TypeOK',
         disp'.msg \in {disp.msg, NoMsg},
         disp'.msg = NoMsg <=> disp'.pc \in {"select", "stopped"}
  PROVE  Inv'
<1> USE DEF Inv
<1>1. DispHolds'
  BY DEF DispHolds
<1>2. ChannelInOrder'
  BY DEF ChannelInOrder
<1>3. WorkersAreOlder'
  BY DEF WorkersAreOlder
<1> QED BY <1>1, <1>2, <1>3, UserSideIdle

\* The message the dispatcher works on.
LEMMA DispatchedMessage ==
  ASSUME TypeOK, DispHolds, disp.pc \notin {"select", "stopped"}
  PROVE  disp.msg \in Message /\ disp.msg # NoMsg
BY MessageFields DEF TypeOK, DispHolds

LEMMA ReceiveInv == Inv /\ Receive => Inv'
<1> SUFFICES ASSUME Inv, Receive PROVE Inv'
  OBVIOUS
<1> USE DEF Inv
<1>1. /\ inbox \in Seq(Message) /\ inbox # <<>>
      /\ inbox' = Tail(inbox) /\ disp' = [pc |-> "btw", msg |-> Head(inbox)]
      /\ UNCHANGED <<arrived, worker, inFlight>>
  BY DEF Receive, TypeOK, userVars
<1>2. /\ inbox' \in Seq(Message) /\ Len(inbox') = Len(inbox) - 1
      /\ \A i \in 1 .. Len(inbox') : inbox'[i] = inbox[i + 1]
  BY <1>1, HeadTailProperties
<1>3. Len(inbox) \in Nat \ {0} /\ Head(inbox) = inbox[1]
  BY <1>1, EmptySeq
<1>4. inbox[1] \in Message /\ inbox[1] # NoMsg
  BY <1>1, <1>3, ElementIsMessage, MessageFields
<1>5. TypeOK'
  BY <1>1, <1>2, <1>3, <1>4 DEF Receive, TypeOK, userVars, DispPc
<1>6. DispHolds'
  BY <1>1, <1>3, <1>4 DEF DispHolds
<1>7. \A i \in 1 .. Len(inbox') : i + 1 \in 1 .. Len(inbox) /\ 1 < i + 1
  BY <1>2, <1>3
<1>8. ChannelInOrder'
  <2>1. \A i \in 1 .. Len(inbox') : inbox'[i].id <= arrived'
    BY <1>1, <1>2, <1>7 DEF ChannelInOrder
  <2>2. ASSUME NEW i \in 1 .. Len(inbox'), NEW j \in 1 .. Len(inbox'), i < j
        PROVE  inbox'[i].id < inbox'[j].id
    <3>1. i + 1 \in 1 .. Len(inbox) /\ j + 1 \in 1 .. Len(inbox) /\ i + 1 < j + 1
      BY <1>2, <1>7, <2>2
    <3> QED BY <3>1, <1>2 DEF ChannelInOrder
  <2>3. disp'.msg.id <= arrived' /\ \A i \in 1 .. Len(inbox') : disp'.msg.id < inbox'[i].id
    <3>1. 1 \in 1 .. Len(inbox)
      BY <1>3
    <3> QED BY <3>1, <1>1, <1>2, <1>3, <1>7 DEF ChannelInOrder
  <2> QED BY <2>1, <2>2, <2>3 DEF ChannelInOrder
<1>9. WorkersAreOlder'
  <2>1. ASSUME NEW w \in MsgId, worker'[w].pc # "unborn"
        PROVE  /\ w <= arrived'
               /\ w < disp'.msg.id
               /\ \A i \in 1 .. Len(inbox') : w < inbox'[i].id
    <3>1. w <= arrived /\ \A i \in 1 .. Len(inbox) : w < inbox[i].id
      BY <2>1, <1>1 DEF WorkersAreOlder
    <3> QED BY <3>1, <1>1, <1>2, <1>3, <1>7
  <2> QED BY <2>1 DEF WorkersAreOlder
<1> QED BY <1>1, <1>5, <1>6, <1>8, <1>9, UserSideIdle

\* A new worker takes a fresh place: its message is newer than every worker's.
LEMMA StartWorkerInv == Inv /\ StartWorker => Inv'
<1> SUFFICES ASSUME Inv, StartWorker PROVE Inv'
  OBVIOUS
<1> USE DEF Inv
<1>0. PICK m \in Message : m = disp.msg
  BY DispatchedMessage DEF StartWorker
<1>1. m # NoMsg /\ m.id \in MsgId /\ m.id \in Nat /\ m.user \in Users
  BY MessageFields
<1> DEFINE new == [pc |-> "check", user |-> m.user, msg |-> m, run |-> 0]
<1>2. /\ worker' = [worker EXCEPT ![m.id] = new]
      /\ inFlight' = inFlight \cup {m.user} /\ m.user \notin inFlight
      /\ disp' = Waiting
      /\ UNCHANGED <<arrived, inbox>>
  BY <1>0 DEF StartWorker, DispDone
<1>3. new \in WorkerRecord
  BY <1>1 DEF WorkerRecord, WorkerPc
<1>4. worker'[m.id] = new /\ \A w \in MsgId \ {m.id} : worker'[w] = worker[w]
  BY <1>1, <1>2 DEF TypeOK
<1>5. worker[m.id].pc = "unborn"
  <2>1. ~(m.id < m.id)
    BY <1>1
  <2> QED BY <2>1, <1>0, <1>1 DEF WorkersAreOlder
<1>6. TypeOK'
  <2>1. worker' \in [MsgId -> WorkerRecord]
    BY <1>2, <1>3 DEF TypeOK
  <2>2. disp' \in [pc : DispPc, msg : Message \cup {NoMsg}]
    BY <1>2 DEF Waiting, DispPc
  <2> QED BY <2>1, <2>2, <1>1, <1>2 DEF TypeOK, StartWorker
<1>7. DispHolds' /\ disp'.msg = NoMsg
  BY <1>2 DEF DispHolds, Waiting
<1>8. ChannelInOrder'
  BY <1>2, <1>7 DEF ChannelInOrder
<1>9. WorkersAreOlder'
  <2>1. ASSUME NEW w \in MsgId, worker'[w].pc # "unborn"
        PROVE  w <= arrived' /\ \A i \in 1 .. Len(inbox') : w < inbox'[i].id
    <3>1. CASE w = m.id
      BY <3>1, <1>0, <1>1, <1>2 DEF ChannelInOrder
    <3>2. CASE w # m.id
      BY <3>2, <2>1, <1>2, <1>4 DEF WorkersAreOlder
    <3> QED BY <3>1, <3>2
  <2> QED BY <2>1, <1>7 DEF WorkersAreOlder
<1>10. Live(m.id)' /\ ~Live(m.id) /\ \A w \in MsgId \ {m.id} : Live(w)' <=> Live(w)
  BY <1>4, <1>5 DEF Live
<1>11. \A w \in MsgId : Live(w) => worker[w].user # m.user
  BY <1>2 DEF Matched
<1>12. Unique'
  BY <1>4, <1>10, <1>11 DEF Unique
<1>13. Matched'
  <2>1. \A w \in MsgId : Live(w)' => worker'[w].user \in inFlight'
    BY <1>2, <1>4, <1>10 DEF Matched
  <2>2. ASSUME NEW u \in inFlight' PROVE \E w \in MsgId : Live(w)' /\ worker'[w].user = u
    <3>1. CASE u = m.user
      BY <3>1, <1>1, <1>4, <1>10
    <3>2. CASE u \in inFlight
      <4>1. PICK w \in MsgId : Live(w) /\ worker[w].user = u
        BY <3>2 DEF Matched
      <4> QED BY <4>1, <1>4, <1>10
    <3> QED BY <3>1, <3>2, <1>2
  <2> QED BY <2>1, <2>2 DEF Matched
<1>14. WorkerHolds'
  BY <1>1, <1>4, <1>10 DEF WorkerHolds
<1> QED BY <1>6, <1>7, <1>8, <1>9, <1>12, <1>13, <1>14

\* A step that only moves the dispatcher to another place in dispatch.
LEMMA GotoType ==
  ASSUME TypeOK, NEW pc \in DispPc, DispGoto(pc) \/ (pc = "select" /\ DispDone)
  PROVE  /\ disp' \in [pc : DispPc, msg : Message \cup {NoMsg}]
         /\ disp'.pc = pc
         /\ disp'.msg = disp.msg \/ (pc = "select" /\ disp'.msg = NoMsg)
BY DEF DispGoto, DispDone, Waiting, TypeOK

LEMMA DispatchInv ==
  ASSUME Inv, StopDispatching \/ (Dispatch /\ ~StartWorker)
  PROVE  Inv'
<1> USE DEF Inv
<1>1. CASE StopDispatching
  <2>1. disp' \in [pc : DispPc, msg : Message \cup {NoMsg}] /\ disp'.pc = "stopped" /\ disp'.msg = NoMsg
    BY <1>1, GotoType DEF StopDispatching, DispPc, DispHolds, DispGoto, TypeOK
  <2>2. UNCHANGED <<arrived, inbox, worker, inFlight>> /\ TypeOK'
    BY <1>1, <2>1 DEF StopDispatching, userVars, TypeOK
  <2> QED BY <2>1, <2>2, DispatcherMoves
<1>2. CASE CheckByTheWay \/ CheckBusySlash \/ NotInjected
  <2>1. PICK pc \in {"inject", "slash", "claim", "enqueue"} : DispGoto(pc)
    BY <1>2 DEF CheckByTheWay, CheckBusySlash, NotInjected
  <2>2. disp.msg \in Message /\ disp.msg # NoMsg
    BY <1>2, DispatchedMessage DEF CheckByTheWay, CheckBusySlash, NotInjected
  <2>3. disp' \in [pc : DispPc, msg : Message \cup {NoMsg}] /\ disp'.pc = pc /\ disp'.msg = disp.msg
    BY <2>1, GotoType DEF DispPc
  <2>4. UNCHANGED <<arrived, inbox, worker, inFlight>> /\ TypeOK'
    BY <1>2, <2>3 DEF CheckByTheWay, CheckBusySlash, NotInjected, userVars, TypeOK
  <2> QED BY <2>1, <2>2, <2>3, <2>4, DispatcherMoves
<1>3. CASE Injected \/ DropSlash
  <2>1. DispDone /\ UNCHANGED <<arrived, inbox, worker, inFlight>>
    BY <1>3 DEF Injected, DropSlash, userVars
  <2>2. disp' \in [pc : DispPc, msg : Message \cup {NoMsg}] /\ disp'.pc = "select" /\ disp'.msg = NoMsg
    BY <2>1 DEF DispDone, Waiting, DispPc
  <2>3. disp.msg.id \in MsgId
    BY <1>3, DispatchedMessage, MessageFields DEF Injected, DropSlash
  <2>4. fate' \in [MsgId -> Fate]
    BY <1>3, <2>3 DEF Injected, DropSlash, TypeOK, Fate
  <2>5. TypeOK'
    BY <1>3, <2>2, <2>4 DEF Injected, DropSlash, userVars, TypeOK
  <2> QED BY <2>1, <2>2, <2>5, DispatcherMoves
<1>4. CASE StartSlash
  <2>1. DispDone /\ UNCHANGED <<arrived, inbox, worker, inFlight>>
    BY <1>4 DEF StartSlash, userVars
  <2>2. disp' \in [pc : DispPc, msg : Message \cup {NoMsg}] /\ disp'.pc = "select" /\ disp'.msg = NoMsg
    BY <2>1 DEF DispDone, Waiting, DispPc
  <2>3. disp.msg \in Message /\ disp.msg.user \in Users
    BY <1>4, DispatchedMessage, MessageFields DEF StartSlash
  <2>4. slashBusy' \in SUBSET Users /\ slashRuns' \in SUBSET Message
    BY <1>4, <2>3 DEF StartSlash, TypeOK
  <2>5. TypeOK'
    BY <1>4, <2>2, <2>4 DEF StartSlash, userVars, TypeOK
  <2> QED BY <2>1, <2>2, <2>5, DispatcherMoves
<1>5. CASE Enqueue
  <2>1. disp.msg \in Message /\ disp.msg # NoMsg /\ disp.msg.user \in Users
    BY <1>5, DispatchedMessage, MessageFields DEF Enqueue
  <2>2. AppendBounded(queue[disp.msg.user], disp.msg) \in Seq(Message)
    BY <2>1, QueueTypes DEF TypeOK
  <2>3. queue' \in [Users -> Seq(Message)]
    BY <1>5, <2>1, <2>2 DEF Enqueue, TypeOK
  <2>4. fate' \in [MsgId -> Fate]
    BY <1>5 DEF Enqueue, TypeOK, Fate
  <2>5. disp' \in [pc : DispPc, msg : Message \cup {NoMsg}] /\ disp'.pc = "notice" /\ disp'.msg = disp.msg
    BY <1>5, <2>1 DEF Enqueue, DispPc
  <2>6. UNCHANGED <<arrived, inbox, worker, inFlight>>
    BY <1>5 DEF Enqueue
  <2>7. TypeOK'
    BY <1>5, <2>3, <2>4, <2>5 DEF Enqueue, TypeOK
  <2> QED BY <2>1, <2>5, <2>6, <2>7, DispatcherMoves
<1>6. CASE QueueNotice
  <2>1. DispDone /\ UNCHANGED <<arrived, inbox, worker, inFlight>>
    BY <1>6 DEF QueueNotice
  <2>2. disp' \in [pc : DispPc, msg : Message \cup {NoMsg}] /\ disp'.pc = "select" /\ disp'.msg = NoMsg
    BY <2>1 DEF DispDone, Waiting, DispPc
  <2>3. disp.msg.user \in Users /\ disp.msg.id \in MsgId
    BY <1>6, DispatchedMessage, MessageFields DEF QueueNotice
  <2>4. noticed' \in SUBSET Users /\ told' \in SUBSET MsgId
    BY <1>6, <2>3 DEF QueueNotice, TypeOK
  <2>5. TypeOK'
    BY <1>6, <2>2, <2>4 DEF QueueNotice, TypeOK
  <2> QED BY <2>1, <2>2, <2>5, DispatcherMoves
<1> QED BY <1>1, <1>2, <1>3, <1>4, <1>5, <1>6 DEF Dispatch

\* A worker that goes on: it keeps its user and stays alive.
LEMMA WorkerMoves ==
  ASSUME Inv, NEW w \in MsgId, Live(w), NEW r \in WorkerRecord,
         worker' = [worker EXCEPT ![w] = r],
         r.pc \notin {"unborn", "done"}, r.user = worker[w].user,
         r.pc \in {"check", "begin", "running"} => r.msg \in Message,
         UNCHANGED <<arrived, dispVars, inFlight>>, TypeOK'
  PROVE  Inv'
<1> USE DEF Inv
<1>1. Unique' /\ Matched' /\ WorkerHolds'
  BY MovingKeepsMatch
<1>2. ChannelInOrder' /\ WorkersAreOlder' /\ DispHolds'
  <2>1. worker[w].pc # "unborn"
    BY DEF Live
  <2>2. worker' \in [MsgId -> WorkerRecord] /\ \A v \in MsgId \ {w} : worker'[v] = worker[v]
    BY DEF TypeOK
  <2> QED BY <2>1, <2>2, WorkerStepKeepsOrder
<1> QED BY <1>1, <1>2

\* A worker that goes away and takes its user out of inFlight.
LEMMA WorkerLeaves ==
  ASSUME Inv, NEW w \in MsgId, Live(w), WorkerFinished(w),
         inFlight' = inFlight \ {worker[w].user},
         UNCHANGED <<arrived, dispVars>>, TypeOK'
  PROVE  Inv'
<1> USE DEF Inv
<1>1. Unique' /\ Matched' /\ WorkerHolds'
  BY LeavingKeepsMatch
<1>2. ChannelInOrder' /\ WorkersAreOlder' /\ DispHolds'
  <2>1. worker[w].pc # "unborn"
    BY DEF Live
  <2>2. worker' \in [MsgId -> WorkerRecord] /\ \A v \in MsgId \ {w} : worker'[v] = worker[v]
    BY DEF TypeOK, WorkerFinished
  <2> QED BY <2>1, <2>2, WorkerStepKeepsOrder
<1> QED BY <1>1, <1>2

LEMMA ClearUserInv ==
  ASSUME Inv, NEW w \in MsgId, Live(w), ClearUser(w), fate' \in [MsgId -> Fate]
  PROVE  Inv'
<1>1. worker[w].user \in Users /\ TypeOK
  BY DEF Inv, WorkerHolds
<1>2. worker' \in [MsgId -> WorkerRecord]
  <2>1. worker[w] \in WorkerRecord
    BY <1>1 DEF TypeOK
  <2>2. [worker[w] EXCEPT !.pc = "done", !.msg = NoMsg] \in WorkerRecord
    BY <2>1 DEF WorkerRecord, WorkerPc
  <2> QED BY <1>1, <2>2 DEF ClearUser, WorkerFinished, TypeOK
<1>3. queue' \in [Users -> Seq(Message)]
  BY <1>1, EmptySeq DEF ClearUser, TypeOK
<1>4. TypeOK'
  BY <1>1, <1>2, <1>3 DEF ClearUser, TypeOK, dispVars
<1> QED BY <1>4, WorkerLeaves DEF ClearUser

LEMMA WorkerInv ==
  ASSUME Inv, NEW w \in MsgId, Worker(w)
  PROVE  Inv'
<1> DEFINE u == worker[w].user
<1>1. Live(w)
  BY DEF Worker, Live, CheckContext, GiveUp, BeginRun, HandleReturns, HandlePanics, Recover,
         EndRun, NextQueued, QueueEmpty
<1>2. /\ worker[w] \in WorkerRecord /\ worker[w].user \in Users /\ TypeOK
      /\ worker[w].pc \in {"check", "begin", "running"} => worker[w].msg \in Message
  BY <1>1 DEF Inv, WorkerHolds, TypeOK
<1>3. worker[w].pc \in {"check", "begin", "running"} => worker[w].msg.id \in MsgId
  BY <1>2, MessageFields
<1>4. CASE CheckContext(w)
  <2> DEFINE r == [worker[w] EXCEPT !.pc = "begin"]
  <2>1. worker' = [worker EXCEPT ![w] = r]
    BY <1>4 DEF CheckContext, WorkerGoto
  <2>2. /\ r \in WorkerRecord /\ r.pc = "begin" /\ r.user = worker[w].user /\ r.msg \in Message
    BY <1>2, <1>4 DEF CheckContext, WorkerRecord, WorkerPc
  <2>3. TypeOK' /\ UNCHANGED <<arrived, dispVars, inFlight>>
    BY <1>2, <1>4, <2>1, <2>2 DEF CheckContext, TypeOK, dispVars
  <2> HIDE DEF r
  <2> QED BY <1>1, <2>1, <2>2, <2>3, WorkerMoves
<1>5. CASE GiveUp(w)
  <2>1. fate' \in [MsgId -> Fate]
    BY <1>2, <1>5 DEF GiveUp, TypeOK, Fate
  <2> QED BY <1>1, <1>5, <2>1, ClearUserInv DEF GiveUp
<1>6. CASE BeginRun(w)
  <2> DEFINE r == [worker[w] EXCEPT !.pc = "running", !.run = nextRun + 1]
  <2>1. worker' = [worker EXCEPT ![w] = r]
    BY <1>6 DEF BeginRun
  <2>2. nextRun + 1 \in Nat /\ worker[w].msg \in Message /\ worker[w].msg.id \in Nat
    BY <1>2, <1>6, MessageFields DEF TypeOK, BeginRun
  <2>3. /\ r \in WorkerRecord /\ r.pc = "running" /\ r.user = worker[w].user /\ r.msg \in Message
    BY <1>2, <2>2 DEF WorkerRecord, WorkerPc
  <2>4. lastBegun' \in [Users -> Nat] /\ activeRun' \in [Users -> Nat] /\ nextRun' \in Nat
    BY <1>2, <1>6, <2>2 DEF BeginRun, TypeOK
  <2>5. TypeOK' /\ UNCHANGED <<arrived, dispVars, inFlight>>
    BY <1>2, <1>6, <2>1, <2>3, <2>4 DEF BeginRun, TypeOK, dispVars
  <2> HIDE DEF r
  <2> QED BY <1>1, <2>1, <2>3, <2>5, WorkerMoves
<1>7. CASE HandleReturns(w) \/ HandlePanics(w)
  <2>1. PICK pc \in {"ended", "panicked"} :
          worker' = [worker EXCEPT ![w].pc = pc, ![w].msg = NoMsg]
    BY <1>7 DEF HandleReturns, HandlePanics
  <2> DEFINE r == [worker[w] EXCEPT !.pc = pc, !.msg = NoMsg]
  <2>2. worker' = [worker EXCEPT ![w] = r]
    BY <2>1
  <2>3. r \in WorkerRecord /\ r.pc = pc /\ r.user = worker[w].user
    BY <1>2 DEF WorkerRecord, WorkerPc
  <2>4. fate' \in [MsgId -> Fate]
    BY <1>2, <1>3, <1>7 DEF HandleReturns, HandlePanics, TypeOK, Fate
  <2>5. TypeOK' /\ UNCHANGED <<arrived, dispVars, inFlight>>
    BY <1>2, <1>7, <2>2, <2>3, <2>4 DEF HandleReturns, HandlePanics, TypeOK, dispVars
  <2> HIDE DEF r
  <2> QED BY <1>1, <2>1, <2>2, <2>3, <2>5, WorkerMoves
<1>8. CASE Recover(w)
  <2>1. fate' \in [MsgId -> Fate]
    BY <1>2, <1>8 DEF Recover, TypeOK, Fate
  <2> QED BY <1>1, <1>8, <2>1, ClearUserInv DEF Recover
<1>9. CASE EndRun(w)
  <2> DEFINE r == [worker[w] EXCEPT !.pc = "next"]
  <2>1. worker' = [worker EXCEPT ![w] = r]
    BY <1>9 DEF EndRun, WorkerGoto
  <2>2. r \in WorkerRecord /\ r.pc = "next" /\ r.user = worker[w].user
    BY <1>2 DEF WorkerRecord, WorkerPc
  <2>3. activeRun' \in [Users -> Nat]
    BY <1>2, <1>9 DEF EndRun, TypeOK
  <2>4. TypeOK' /\ UNCHANGED <<arrived, dispVars, inFlight>>
    BY <1>2, <1>9, <2>1, <2>2, <2>3 DEF EndRun, TypeOK, dispVars
  <2> HIDE DEF r
  <2> QED BY <1>1, <2>1, <2>2, <2>4, WorkerMoves
<1>10. CASE NextQueued(w)
  <2> DEFINE r == [worker[w] EXCEPT !.pc = "check", !.msg = Head(queue[u])]
  <2>1. worker' = [worker EXCEPT ![w] = r]
    BY <1>10 DEF NextQueued
  <2>2. Head(queue[u]) \in Message /\ Tail(queue[u]) \in Seq(Message)
    BY <1>2, <1>10, HeadTailProperties DEF NextQueued, TypeOK
  <2>3. r \in WorkerRecord /\ r.pc = "check" /\ r.user = worker[w].user /\ r.msg \in Message
    BY <1>2, <2>2 DEF WorkerRecord, WorkerPc
  <2>4. queue' \in [Users -> Seq(Message)]
    BY <1>2, <1>10, <2>2 DEF NextQueued, TypeOK
  <2>5. TypeOK' /\ UNCHANGED <<arrived, dispVars, inFlight>>
    BY <1>2, <1>10, <2>1, <2>3, <2>4 DEF NextQueued, TypeOK, dispVars
  <2> HIDE DEF r
  <2> QED BY <1>1, <2>1, <2>3, <2>5, WorkerMoves
<1>11. CASE QueueEmpty(w)
  <2>1. worker' \in [MsgId -> WorkerRecord]
    BY <1>2, <1>11 DEF QueueEmpty, WorkerFinished, TypeOK, WorkerRecord, WorkerPc
  <2>2. TypeOK'
    BY <1>2, <1>11, <2>1 DEF QueueEmpty, TypeOK, dispVars
  <2> QED BY <1>1, <1>11, <2>2, WorkerLeaves DEF QueueEmpty
<1> QED BY <1>4, <1>5, <1>6, <1>7, <1>8, <1>9, <1>10, <1>11 DEF Worker

LEMMA StutterInv == Inv /\ UNCHANGED vars => Inv'
<1> SUFFICES ASSUME Inv, UNCHANGED vars PROVE Inv'
  OBVIOUS
<1>1. TypeOK'
  BY DEF Inv, TypeOK, vars
<1> QED BY <1>1, UserSideIdle DEF Inv, vars, DispHolds, ChannelInOrder, WorkersAreOlder

LEMMA NextInv == Inv /\ [Next]_vars => Inv'
<1> SUFFICES ASSUME Inv, [Next]_vars PROVE Inv'
  OBVIOUS
<1>1. CASE Arrive \/ Cancel \/ \E u \in Users : CooldownEnds(u)
  BY <1>1, EnvironmentInv
<1>2. CASE \E m \in slashRuns : SlashReturns(m) \/ SlashPanics(m)
  BY <1>2, EnvironmentInv
<1>3. CASE Receive
  BY <1>3, ReceiveInv
<1>4. CASE StopDispatching \/ Dispatch
  BY <1>4, StartWorkerInv, DispatchInv
<1>5. CASE \E w \in MsgId : Worker(w)
  BY <1>5, WorkerInv
<1>6. CASE UNCHANGED vars
  BY <1>6, StutterInv
<1> QED BY <1>1, <1>2, <1>3, <1>4, <1>5, <1>6 DEF Next

---------------------------------------------------------------------------
(* Theorems *)

\* The inductive invariant holds in every reachable state.
THEOREM Invariance == Spec => []Inv
<1>1. Init => Inv
  BY InitInv
<1>2. Inv /\ [Next]_vars => Inv'
  BY NextInv
<1> QED BY <1>1, <1>2, PTL DEF Spec

\* Every variable of the message processor keeps its type.
THEOREM TypeCorrect == Spec => []TypeOK
<1>1. Inv => TypeOK
  BY DEF Inv
<1> QED BY <1>1, Invariance, PTL

\* However arrivals, panics, shutdown and the workers interleave, no user ever
\* has two worker goroutines, and inFlightUsers names exactly the users with
\* one.
THEOREM OneWorker == Spec => []OneWorkerPerUser
<1>1. Inv => OneWorkerPerUser
  BY DEF Inv, Unique, Matched, OneWorkerPerUser, WorkersOf
<1> QED BY <1>1, Invariance, PTL

-----------------------------------------------------------------------------
(* What happens to messages *)


\* A queue is bounded, and only a user in flight has one.
QueueHeld ==
  \A u \in Users :
    /\ Len(queue[u]) <= MaxQueuedPerUser
    /\ u \notin inFlight => queue[u] = <<>>

InTurn(w) == worker[w].pc \in {"running", "ended", "panicked"}

\* The registered run of a user is that of the worker in its turn; a worker
\* between two turns, and a user without a worker, has none.
RunHeld ==
  /\ \A w \in MsgId : Live(w) =>
       activeRun[worker[w].user] = IF InTurn(w) THEN worker[w].run ELSE 0
  /\ \A u \in Users \ inFlight : activeRun[u] = 0

\* Every message the user's side has, or has begun, is older than x.
TakenBelow(x) ==
  /\ \A u \in Users : lastBegun[u] < x /\ \A i \in 1 .. Len(queue[u]) : queue[u][i].id < x
  /\ \A w \in MsgId : worker[w].msg # NoMsg => worker[w].msg.id < x

\* The messages of a user in order: the one begun last, the one the worker
\* will begin, those in the queue.
UserLine ==
  \A u \in Users :
    /\ \A i \in 1 .. Len(queue[u]) : lastBegun[u] < queue[u][i].id
    /\ \A i, j \in 1 .. Len(queue[u]) : i < j => queue[u][i].id < queue[u][j].id

WorkerLine ==
  \A w \in MsgId : worker[w].pc \in {"check", "begin"} =>
    /\ lastBegun[worker[w].user] < worker[w].msg.id
    /\ \A i \in 1 .. Len(queue[worker[w].user]) : worker[w].msg.id < queue[worker[w].user][i].id

\* The ids of what the user's side does not have yet, and of the next arrival;
\* all are newer than what it has.
Ahead ==
  {x \in Nat :
     \/ disp.msg # NoMsg /\ disp.pc # "notice" /\ x = disp.msg.id
     \/ \E i \in 1 .. Len(inbox) : x = inbox[i].id
     \/ x = arrived + 1}

DispatchLine == \A x \in Ahead : TakenBelow(x)

InOrder == UserLine /\ WorkerLine /\ DispatchLine
---------------------------------------------------------------------------
(* Queues *)

\* A queue that gets one more message has at most MaxQueuedPerUser, and what
\* it keeps of the old ones keeps its order.
LEMMA AppendBoundedProperties ==
  ASSUME NEW q \in Seq(Message), NEW m \in Message, Len(q) <= MaxQueuedPerUser
  PROVE  /\ AppendBounded(q, m) \in Seq(Message)
         /\ Len(AppendBounded(q, m)) <= MaxQueuedPerUser
         /\ \E k \in {0, 1} :
              /\ Len(AppendBounded(q, m)) = Len(q) + 1 - k
              /\ \A i \in 1 .. Len(q) - k : AppendBounded(q, m)[i] = q[i + k]
              /\ AppendBounded(q, m)[Len(q) + 1 - k] = m
<1> DEFINE a == Append(q, m)
<1>1. /\ a \in Seq(Message) /\ Len(a) = Len(q) + 1 /\ a # <<>>
      /\ a[Len(q) + 1] = m /\ \A i \in 1 .. Len(q) : a[i] = q[i]
  BY AppendProperties
<1>2. MaxQueuedPerUser \in Nat \ {0} /\ Len(q) \in Nat
  BY ConstantsAssumption
<1>3. CASE Len(q) < MaxQueuedPerUser
  <2>1. AppendBounded(q, m) = a
    BY <1>3 DEF AppendBounded
  <2> HIDE DEF a
  <2> QED BY <1>1, <1>2, <1>3, <2>1
<1>4. CASE ~(Len(q) < MaxQueuedPerUser)
  <2>1. AppendBounded(q, m) = Tail(a)
    BY <1>4 DEF AppendBounded
  <2> HIDE DEF a
  <2>2. /\ Tail(a) \in Seq(Message) /\ Len(Tail(a)) = Len(a) - 1
        /\ \A i \in 1 .. Len(Tail(a)) : Tail(a)[i] = a[i + 1]
    BY <1>1, HeadTailProperties
  <2>3. Len(Tail(a)) = Len(q) /\ Len(q) = MaxQueuedPerUser /\ Len(q) \in Nat \ {0}
    BY <1>1, <1>2, <1>4, <2>2
  <2>4. \A i \in 1 .. Len(q) - 1 : Tail(a)[i] = q[i + 1]
    BY <1>1, <2>2, <2>3
  <2>5. Tail(a)[Len(q)] = m
    BY <1>1, <2>2, <2>3
  <2> QED BY <2>1, <2>2, <2>3, <2>4, <2>5
<1> QED BY <1>3, <1>4

\* What a worker's step is, as far as queues and users in flight go.
LEMMA WorkerSteps ==
  ASSUME NEW w \in MsgId, Worker(w)
  PROVE  \/ UNCHANGED <<queue, inFlight>>
         \/ NextQueued(w)
         \/ QueueEmpty(w)
         \/ ClearUser(w)
BY DEF Worker, CheckContext, GiveUp, BeginRun, HandleReturns, HandlePanics, Recover, EndRun

LEMMA QueueHeldStep == Inv /\ QueueHeld /\ [Next]_vars => QueueHeld'
<1> SUFFICES ASSUME Inv, QueueHeld, [Next]_vars PROVE QueueHeld'
  OBVIOUS
<1>0. TypeOK /\ DispHolds /\ WorkerHolds /\ Matched
  BY DEF Inv
<1>1. CASE UNCHANGED <<queue, inFlight>>
  BY <1>1 DEF QueueHeld
<1>2. CASE StartWorker
  BY <1>0, <1>2 DEF StartWorker, QueueHeld
<1>3. CASE Enqueue
  <2>1. disp.msg \in Message /\ disp.msg.user \in Users
    BY <1>0, <1>3, DispatchedMessage, MessageFields DEF Enqueue
  <2>2. Len(AppendBounded(queue[disp.msg.user], disp.msg)) <= MaxQueuedPerUser
    BY <1>0, <2>1, AppendBoundedProperties DEF QueueHeld, TypeOK
  <2> QED BY <1>0, <1>3, <2>1, <2>2 DEF Enqueue, QueueHeld, TypeOK
<1>4. ASSUME NEW w \in MsgId, Worker(w) PROVE QueueHeld'
  <2> DEFINE u == worker[w].user
  <2>1. Live(w) /\ u \in Users
    BY <1>0, <1>4 DEF WorkerHolds, Worker, Live, CheckContext, GiveUp, BeginRun,
       HandleReturns, HandlePanics, Recover, EndRun, NextQueued, QueueEmpty
  <2>2. CASE NextQueued(w)
    <3>1. /\ queue[u] \in Seq(Message) /\ queue[u] # <<>>
          /\ queue' = [queue EXCEPT ![u] = Tail(queue[u])]
      BY <1>0, <2>1, <2>2 DEF NextQueued, TypeOK
    <3>2. Len(Tail(queue[u])) = Len(queue[u]) - 1 /\ Len(queue[u]) \in Nat
      BY <3>1, HeadTailProperties
    <3>3. MaxQueuedPerUser \in Nat
      BY ConstantsAssumption
    <3>4. Len(Tail(queue[u])) <= MaxQueuedPerUser
      BY <3>2, <3>3, <2>1 DEF QueueHeld
    <3>5. u \in inFlight /\ inFlight' = inFlight
      BY <1>0, <2>1, <2>2 DEF Matched, NextQueued
    <3> QED BY <1>0, <3>1, <3>4, <3>5, <2>1 DEF QueueHeld, TypeOK
  <2>3. CASE QueueEmpty(w)
    BY <1>0, <2>1, <2>3 DEF QueueEmpty, QueueHeld
  <2>4. CASE ClearUser(w)
    <3>1. Len(<<>>) <= MaxQueuedPerUser
      BY ConstantsAssumption, EmptySeq
    <3> QED BY <1>0, <2>1, <2>4, <3>1 DEF ClearUser, QueueHeld, TypeOK
  <2>5. CASE UNCHANGED <<queue, inFlight>>
    BY <1>1, <2>5
  <2> QED BY <1>4, <2>2, <2>3, <2>4, <2>5, WorkerSteps
<1>5. CASE \E m \in slashRuns : SlashReturns(m) \/ SlashPanics(m)
  BY <1>1, <1>5 DEF SlashReturns, SlashPanics, userVars
<1>6. CASE \/ Arrive \/ Cancel \/ (\E u \in Users : CooldownEnds(u))
           \/ Receive \/ StopDispatching \/ UNCHANGED vars
  BY <1>1, <1>6 DEF Arrive, Cancel, CooldownEnds, Receive, StopDispatching, userVars, vars
<1>7. CASE Dispatch /\ ~StartWorker /\ ~Enqueue
  BY <1>1, <1>7 DEF Dispatch, CheckByTheWay, Injected, NotInjected, CheckBusySlash, DropSlash,
     StartSlash, QueueNotice, userVars
<1> QED BY <1>2, <1>3, <1>4, <1>5, <1>6, <1>7 DEF Next

\* Whatever panics or is dropped, messages wait only behind a worker that has
\* not gone away, and never more than maxQueuedPerUser of a user.
THEOREM QueueServed == Spec => []QueueHasWorker
<1>1. Init => QueueHeld
  BY ConstantsAssumption, EmptySeq DEF Init, QueueHeld
<1>2. Inv /\ QueueHeld /\ [Next]_vars => QueueHeld'
  BY QueueHeldStep
<1>3. Inv /\ QueueHeld => QueueHasWorker
  BY DEF Inv, QueueHeld, Matched, QueueHasWorker, WorkersOf
<1> QED BY <1>1, <1>2, <1>3, Invariance, PTL DEF Spec
---------------------------------------------------------------------------
(* Runs *)

\* A worker's step that leaves the entry of its user as RunHeld wants it
\* leaves the entries of all other users alone.
LEMMA OwnRunOnly ==
  ASSUME Inv, RunHeld, NEW w \in MsgId, Live(w), NEW r \in WorkerRecord, NEW n \in Nat,
         worker' = [worker EXCEPT ![w] = r], r.user = worker[w].user,
         activeRun' = [activeRun EXCEPT ![worker[w].user] = n],
         \/ /\ r.pc \notin {"unborn", "done"} /\ inFlight' = inFlight
            /\ n = IF r.pc \in {"running", "ended", "panicked"} THEN r.run ELSE 0
         \/ r.pc = "done" /\ inFlight' = inFlight \ {worker[w].user} /\ n = 0
  PROVE  RunHeld'
<1> DEFINE u == worker[w].user
<1>1. u \in Users /\ u \in inFlight /\ TypeOK /\ Unique
  BY DEF Inv, WorkerHolds, Matched
<1>2. worker'[w] = r /\ \A v \in MsgId \ {w} : worker'[v] = worker[v]
  BY <1>1 DEF TypeOK
<1>3. activeRun'[u] = n /\ \A t \in Users \ {u} : activeRun'[t] = activeRun[t]
  BY <1>1 DEF TypeOK
<1>4. ASSUME NEW v \in MsgId, Live(v)'
      PROVE  activeRun'[worker'[v].user] = IF InTurn(v)' THEN worker'[v].run ELSE 0
  <2>1. CASE v = w
    BY <2>1, <1>2, <1>3, <1>4 DEF Live, InTurn
  <2>2. CASE v # w
    <3>1. worker'[v] = worker[v] /\ Live(v)
      BY <2>2, <1>2, <1>4 DEF Live
    <3>2. worker[v].user # u /\ worker[v].user \in Users
      BY <2>2, <3>1, <1>1 DEF Unique, Inv, WorkerHolds
    <3> QED BY <3>1, <3>2, <1>3 DEF RunHeld, InTurn
  <2> QED BY <2>1, <2>2
<1>5. ASSUME NEW t \in Users \ inFlight' PROVE activeRun'[t] = 0
  BY <1>1, <1>3, <1>5 DEF RunHeld
<1> QED BY <1>4, <1>5 DEF RunHeld

LEMMA WorkerRunHeld ==
  ASSUME Inv, RunHeld, NEW w \in MsgId, Worker(w)
  PROVE  RunHeld'
<1> DEFINE u == worker[w].user
<1>1. Live(w)
  BY DEF Worker, Live, CheckContext, GiveUp, BeginRun, HandleReturns, HandlePanics, Recover,
         EndRun, NextQueued, QueueEmpty
<1>2. /\ worker[w] \in WorkerRecord /\ u \in Users /\ TypeOK
      /\ activeRun \in [Users -> Nat] /\ nextRun \in Nat /\ worker[w].run \in Nat
  BY <1>1 DEF Inv, WorkerHolds, TypeOK, WorkerRecord
<1>3. activeRun[u] = IF InTurn(w) THEN worker[w].run ELSE 0
  BY <1>1 DEF RunHeld
<1>4. activeRun = [activeRun EXCEPT ![u] = activeRun[u]]
  BY <1>2
<1>5. CASE CheckContext(w)
  <2> DEFINE r == [worker[w] EXCEPT !.pc = "begin"]
  <2>1. worker' = [worker EXCEPT ![w] = r] /\ inFlight' = inFlight /\ activeRun' = activeRun
    BY <1>5 DEF CheckContext, WorkerGoto
  <2>2. r \in WorkerRecord /\ r.pc = "begin" /\ r.user = u
    BY <1>2 DEF WorkerRecord, WorkerPc
  <2>3. activeRun' = [activeRun EXCEPT ![u] = 0]
    BY <1>3, <1>4, <1>5, <2>1 DEF CheckContext, InTurn
  <2> HIDE DEF r
  <2> QED BY <1>1, <2>1, <2>2, <2>3, OwnRunOnly
<1>6. CASE BeginRun(w)
  <2> DEFINE r == [worker[w] EXCEPT !.pc = "running", !.run = nextRun + 1]
  <2>1. /\ worker' = [worker EXCEPT ![w] = r] /\ inFlight' = inFlight
        /\ activeRun' = [activeRun EXCEPT ![u] = nextRun + 1]
    BY <1>6 DEF BeginRun
  <2>2. nextRun + 1 \in Nat
    BY <1>2
  <2>3. r \in WorkerRecord /\ r.pc = "running" /\ r.user = u /\ r.run = nextRun + 1
    BY <1>2, <2>2 DEF WorkerRecord, WorkerPc
  <2> HIDE DEF r
  <2> QED BY <1>1, <2>1, <2>2, <2>3, OwnRunOnly
<1>7. CASE HandleReturns(w) \/ HandlePanics(w)
  <2>1. PICK pc \in {"ended", "panicked"} :
          worker' = [worker EXCEPT ![w].pc = pc, ![w].msg = NoMsg]
    BY <1>7 DEF HandleReturns, HandlePanics
  <2> DEFINE r == [worker[w] EXCEPT !.pc = pc, !.msg = NoMsg]
  <2>2. worker' = [worker EXCEPT ![w] = r] /\ inFlight' = inFlight /\ activeRun' = activeRun
    BY <1>7, <2>1 DEF HandleReturns, HandlePanics
  <2>3. r \in WorkerRecord /\ r.pc = pc /\ r.user = u /\ r.run = worker[w].run
    BY <1>2 DEF WorkerRecord, WorkerPc
  <2>4. /\ activeRun[u] = worker[w].run
        /\ activeRun' = [activeRun EXCEPT ![u] = worker[w].run]
    BY <1>3, <1>4, <1>7, <2>2 DEF HandleReturns, HandlePanics, InTurn
  <2> HIDE DEF r
  <2> QED BY <1>1, <1>2, <2>1, <2>2, <2>3, <2>4, OwnRunOnly
<1>8. CASE EndRun(w)
  <2> DEFINE r == [worker[w] EXCEPT !.pc = "next"]
  <2>1. /\ worker' = [worker EXCEPT ![w] = r] /\ inFlight' = inFlight
    BY <1>8 DEF EndRun, WorkerGoto
  <2>2. activeRun' = [activeRun EXCEPT ![u] = 0]
    BY <1>3, <1>8 DEF EndRun, InTurn
  <2>3. r \in WorkerRecord /\ r.pc = "next" /\ r.user = u
    BY <1>2 DEF WorkerRecord, WorkerPc
  <2> HIDE DEF r
  <2> QED BY <1>1, <2>1, <2>2, <2>3, OwnRunOnly
<1>9. CASE NextQueued(w)
  <2> DEFINE r == [worker[w] EXCEPT !.pc = "check", !.msg = Head(queue[u])]
  <2>1. worker' = [worker EXCEPT ![w] = r] /\ inFlight' = inFlight /\ activeRun' = activeRun
    BY <1>9 DEF NextQueued
  <2>2. Head(queue[u]) \in Message
    BY <1>2, <1>9, HeadTailProperties DEF NextQueued, TypeOK
  <2>3. r \in WorkerRecord /\ r.pc = "check" /\ r.user = u
    BY <1>2, <2>2 DEF WorkerRecord, WorkerPc
  <2>4. activeRun' = [activeRun EXCEPT ![u] = 0]
    BY <1>3, <1>4, <1>9, <2>1 DEF NextQueued, InTurn
  <2> HIDE DEF r
  <2> QED BY <1>1, <2>1, <2>3, <2>4, OwnRunOnly
<1>10. CASE ClearUser(w) \/ QueueEmpty(w)
  <2> DEFINE r == [worker[w] EXCEPT !.pc = "done", !.msg = NoMsg]
  <2>1. /\ worker' = [worker EXCEPT ![w] = r] /\ inFlight' = inFlight \ {u}
        /\ activeRun' = [activeRun EXCEPT ![u] = 0]
    BY <1>10, ZenonT(60) DEF ClearUser, QueueEmpty, WorkerFinished
  <2>2. r \in WorkerRecord /\ r.pc = "done" /\ r.user = u
    BY <1>2 DEF WorkerRecord, WorkerPc
  <2> HIDE DEF r
  <2> QED BY <1>1, <2>1, <2>2, OwnRunOnly
<1> QED BY <1>5, <1>6, <1>7, <1>8, <1>9, <1>10 DEF Worker, GiveUp, Recover

LEMMA RunHeldStep == Inv /\ RunHeld /\ [Next]_vars => RunHeld'
<1> SUFFICES ASSUME Inv, RunHeld, [Next]_vars PROVE RunHeld'
  OBVIOUS
<1>1. CASE UNCHANGED <<activeRun, worker, inFlight>>
  BY <1>1 DEF RunHeld, Live, InTurn
<1>2. CASE StartWorker
  <2>1. PICK m \in Message : m = disp.msg
    BY <1>2, DispatchedMessage DEF StartWorker, Inv
  <2>2. m.id \in MsgId /\ m.user \in Users
    BY MessageFields
  <2> DEFINE new == [pc |-> "check", user |-> m.user, msg |-> m, run |-> 0]
  <2>3. /\ worker' = [worker EXCEPT ![m.id] = new] /\ activeRun' = activeRun
        /\ inFlight' = inFlight \cup {m.user} /\ m.user \notin inFlight
    BY <1>2, <2>1 DEF StartWorker
  <2>4. worker'[m.id] = new /\ \A v \in MsgId \ {m.id} : worker'[v] = worker[v]
    BY <2>2, <2>3 DEF Inv, TypeOK
  <2> QED BY <2>2, <2>3, <2>4 DEF RunHeld, Live, InTurn
<1>3. CASE \E w \in MsgId : Worker(w)
  BY <1>3, WorkerRunHeld
<1>4. CASE \E m \in slashRuns : SlashReturns(m) \/ SlashPanics(m)
  BY <1>1, <1>4 DEF SlashReturns, SlashPanics, userVars
<1>5. CASE \/ Arrive \/ Cancel \/ (\E u \in Users : CooldownEnds(u))
           \/ Receive \/ StopDispatching \/ UNCHANGED vars
  BY <1>1, <1>5 DEF Arrive, Cancel, CooldownEnds, Receive, StopDispatching, userVars, vars
<1>6. CASE Dispatch /\ ~StartWorker
  BY <1>1, <1>6 DEF Dispatch, CheckByTheWay, Injected, NotInjected, CheckBusySlash, DropSlash,
     StartSlash, Enqueue, QueueNotice, userVars
<1> QED BY <1>2, <1>3, <1>4, <1>5, <1>6 DEF Next

\* The entry in activeRuns is that of the turn going on, through panics and
\* the hand-over from one turn to the next; without a turn there is none.
THEOREM RunIsCurrent == Spec => []RegisteredRunIsCurrent
<1>1. Init => RunHeld
  BY DEF Init, RunHeld, Live, NotStarted
<1>2. Inv /\ RunHeld /\ [Next]_vars => RunHeld'
  BY RunHeldStep
<1>3. ASSUME Inv, RunHeld PROVE RegisteredRunIsCurrent
  <2> SUFFICES ASSUME NEW u \in Users
               PROVE  IF \E w \in WorkersOf(u) : InTurn(w)
                      THEN \E w \in WorkersOf(u) : activeRun[u] = worker[w].run
                      ELSE activeRun[u] = 0
    BY DEF RegisteredRunIsCurrent, InTurn
  <2>1. CASE \E w \in WorkersOf(u) : InTurn(w)
    BY <1>3, <2>1 DEF RunHeld, WorkersOf
  <2>2. CASE ~\E w \in WorkersOf(u) : InTurn(w)
    BY <1>3, <2>2 DEF RunHeld, WorkersOf, Inv, Matched
  <2> QED BY <2>1, <2>2
<1> QED BY <1>1, <1>2, <1>3, Invariance, PTL DEF Spec
---------------------------------------------------------------------------
(* Order *)

\* Ids are numbers.
LEMMA IdsAreNumbers ==
  ASSUME TypeOK
  PROVE  /\ \A u \in Users : lastBegun[u] \in Nat
         /\ \A u \in Users : queue[u] \in Seq(Message)
         /\ \A u \in Users : \A i \in 1 .. Len(queue[u]) : queue[u][i].id \in Nat
         /\ \A w \in MsgId : worker[w].msg # NoMsg =>
              worker[w].msg \in Message /\ worker[w].msg.id \in Nat
<1>1. \A u \in Users : lastBegun[u] \in Nat /\ queue[u] \in Seq(Message)
  BY DEF TypeOK
<1>2. \A u \in Users : \A i \in 1 .. Len(queue[u]) : queue[u][i].id \in Nat
  BY <1>1, ElementIsMessage
<1>3. ASSUME NEW w \in MsgId, worker[w].msg # NoMsg
      PROVE  worker[w].msg \in Message /\ worker[w].msg.id \in Nat
  BY <1>3, MessageFields DEF TypeOK, WorkerRecord
<1> QED BY <1>1, <1>2, <1>3

\* Taking message m, older than x, leaves everything taken older than x.
LEMMA TakenGrows ==
  ASSUME NEW m, NEW x, TakenBelow(x), m.id < x, lastBegun' = lastBegun,
         \A u \in Users : \A i \in 1 .. Len(queue'[u]) :
           queue'[u][i] = m \/ \E j \in 1 .. Len(queue[u]) : queue'[u][i] = queue[u][j],
         \A w \in MsgId : worker'[w].msg \in {NoMsg, worker[w].msg, m}
  PROVE  TakenBelow(x)'
BY DEF TakenBelow

\* A step that takes nothing new and begins nothing new.
LEMMA TakenShrinks ==
  ASSUME NEW x, TakenBelow(x), lastBegun' = lastBegun,
         \A u \in Users : queue'[u] \in {queue[u], <<>>},
         \A w \in MsgId : worker'[w].msg \in {NoMsg, worker[w].msg}
  PROVE  TakenBelow(x)'
<1>1. Len(<<>>) = 0
  OBVIOUS
<1> QED BY <1>1 DEF TakenBelow

\* The dispatcher's side moves on, the users' side stays.
LEMMA DispatcherKeepsOrder ==
  ASSUME InOrder, UNCHANGED <<queue, worker, lastBegun>>, Ahead' \subseteq Ahead
  PROVE  InOrder'
<1>1. UserLine' /\ WorkerLine'
  BY DEF InOrder, UserLine, WorkerLine
<1>2. ASSUME NEW x \in Ahead' PROVE TakenBelow(x)'
  BY <1>2 DEF InOrder, DispatchLine, TakenBelow
<1> QED BY <1>1, <1>2 DEF InOrder, DispatchLine

\* A worker that takes no message from the queue and begins none.
LEMMA WorkerKeepsOrder ==
  ASSUME TypeOK, WorkerHolds, InOrder, NEW w \in MsgId, NEW r,
         worker' = [worker EXCEPT ![w] = r], r.msg \in {NoMsg, worker[w].msg},
         r.pc \in {"check", "begin"} =>
           worker[w].pc = "check" /\ r.user = worker[w].user /\ r.msg = worker[w].msg,
         \A u \in Users : queue'[u] \in {queue[u], <<>>},
         UNCHANGED <<lastBegun, disp, inbox, arrived>>
  PROVE  InOrder'
<1>1. worker'[w] = r /\ \A v \in MsgId \ {w} : worker'[v] = worker[v]
  BY DEF TypeOK
<1>2. Len(<<>>) = 0
  OBVIOUS
<1>3. UserLine'
  BY <1>2 DEF InOrder, UserLine
<1>4. ASSUME NEW v \in MsgId, worker'[v].pc \in {"check", "begin"}
      PROVE  /\ lastBegun'[worker'[v].user] < worker'[v].msg.id
             /\ \A i \in 1 .. Len(queue'[worker'[v].user]) :
                  worker'[v].msg.id < queue'[worker'[v].user][i].id
  <2>1. /\ worker[v].pc \in {"check", "begin"}
        /\ worker'[v].user = worker[v].user /\ worker'[v].msg = worker[v].msg
    BY <1>1, <1>4
  <2>2. worker[v].user \in Users
    BY <2>1 DEF WorkerHolds, Live
  <2> QED BY <1>2, <2>1, <2>2 DEF InOrder, WorkerLine
<1>5. ASSUME NEW x \in Ahead' PROVE TakenBelow(x)'
  <2>1. TakenBelow(x)
    BY <1>5 DEF Ahead, InOrder, DispatchLine
  <2>2. \A v \in MsgId : worker'[v].msg \in {NoMsg, worker[v].msg}
    BY <1>1
  <2> QED BY <2>1, <2>2, TakenShrinks
<1> QED BY <1>3, <1>4, <1>5 DEF InOrder, WorkerLine, DispatchLine

LEMMA BeginKeepsOrder ==
  ASSUME Inv, InOrder, NEW w \in MsgId, BeginRun(w)
  PROVE  InOrder' /\ lastBegun'[worker[w].user] > lastBegun[worker[w].user]
<1> DEFINE u == worker[w].user
           m == worker[w].msg
<1>1. TypeOK /\ Unique /\ WorkerHolds
  BY DEF Inv
<1>2. Live(w) /\ u \in Users /\ m \in Message /\ m # NoMsg /\ m.id \in Nat
  BY <1>1, MessageFields DEF BeginRun, Live, WorkerHolds
<1>3. /\ worker'[w].pc = "running" /\ worker'[w].msg = m
      /\ \A v \in MsgId \ {w} : worker'[v] = worker[v]
  BY <1>1 DEF BeginRun, TypeOK, WorkerRecord
<1>4. lastBegun'[u] = m.id /\ \A t \in Users \ {u} : lastBegun'[t] = lastBegun[t]
  BY <1>1, <1>2 DEF BeginRun, TypeOK
<1>5. queue' = queue /\ UNCHANGED <<disp, inbox, arrived>>
  BY DEF BeginRun, dispVars
<1>6. lastBegun[u] < m.id /\ \A i \in 1 .. Len(queue[u]) : m.id < queue[u][i].id
  BY DEF BeginRun, InOrder, WorkerLine
<1>7. UserLine'
  BY <1>4, <1>5, <1>6 DEF InOrder, UserLine
<1>8. ASSUME NEW v \in MsgId, worker'[v].pc \in {"check", "begin"}
      PROVE  /\ lastBegun'[worker'[v].user] < worker'[v].msg.id
             /\ \A i \in 1 .. Len(queue'[worker'[v].user]) :
                  worker'[v].msg.id < queue'[worker'[v].user][i].id
  <2>1. v # w /\ worker'[v] = worker[v] /\ worker[v].pc \in {"check", "begin"} /\ Live(v)
    BY <1>3, <1>8 DEF Live
  <2>2. worker[v].user \in Users \ {u}
    BY <2>1, <1>1, <1>2 DEF Unique, WorkerHolds
  <2> QED BY <2>1, <2>2, <1>4, <1>5 DEF InOrder, WorkerLine
<1>9. ASSUME NEW x \in Ahead' PROVE TakenBelow(x)'
  <2>1. TakenBelow(x)
    BY <1>5, <1>9 DEF Ahead, InOrder, DispatchLine
  <2>2. m.id < x
    BY <2>1, <1>2 DEF TakenBelow
  <2> QED BY <2>1, <2>2, <1>3, <1>4, <1>5 DEF TakenBelow
<1>10. lastBegun'[u] > lastBegun[u]
  BY <1>1, <1>2, <1>4, <1>6, IdsAreNumbers
<1> QED BY <1>7, <1>8, <1>9, <1>10 DEF InOrder, WorkerLine, DispatchLine

LEMMA NextQueuedKeepsOrder ==
  ASSUME Inv, InOrder, NEW w \in MsgId, NextQueued(w)
  PROVE  InOrder'
<1> DEFINE u == worker[w].user
           q == queue[u]
<1>1. TypeOK /\ Unique /\ WorkerHolds
  BY DEF Inv
<1>2. Live(w) /\ u \in Users /\ q \in Seq(Message) /\ q # <<>>
  BY <1>1 DEF NextQueued, Live, WorkerHolds, TypeOK
<1>3. /\ worker'[w].msg = Head(q) /\ worker'[w].user = u
      /\ \A v \in MsgId \ {w} : worker'[v] = worker[v]
  BY <1>1 DEF NextQueued, TypeOK, WorkerRecord
<1>4. queue'[u] = Tail(q) /\ \A t \in Users \ {u} : queue'[t] = queue[t]
  BY <1>1, <1>2 DEF NextQueued, TypeOK
<1>5. UNCHANGED <<lastBegun, disp, inbox, arrived>>
  BY DEF NextQueued, dispVars
<1>6. /\ Len(q) \in Nat \ {0} /\ Head(q) = q[1] /\ Len(Tail(q)) = Len(q) - 1
      /\ \A i \in 1 .. Len(Tail(q)) : Tail(q)[i] = q[i + 1]
  BY <1>2, HeadTailProperties, EmptySeq
<1>7. 1 \in 1 .. Len(q) /\ \A i \in 1 .. Len(Tail(q)) : i + 1 \in 1 .. Len(q) /\ 1 < i + 1
  BY <1>6
<1>8. /\ \A i \in 1 .. Len(q) : lastBegun[u] < q[i].id
      /\ \A i, j \in 1 .. Len(q) : i < j => q[i].id < q[j].id
  BY <1>2 DEF InOrder, UserLine
<1>9. UserLine'
  <2>1. \A i \in 1 .. Len(Tail(q)) : lastBegun[u] < Tail(q)[i].id
    BY <1>6, <1>7, <1>8
  <2>2. ASSUME NEW i \in 1 .. Len(Tail(q)), NEW j \in 1 .. Len(Tail(q)), i < j
        PROVE  Tail(q)[i].id < Tail(q)[j].id
    <3>1. i + 1 \in 1 .. Len(q) /\ j + 1 \in 1 .. Len(q) /\ i + 1 < j + 1
      BY <1>7, <2>2
    <3> QED BY <3>1, <1>6, <1>8
  <2> HIDE DEF q
  <2> QED BY <2>1, <2>2, <1>4, <1>5 DEF InOrder, UserLine
<1>10. ASSUME NEW v \in MsgId, worker'[v].pc \in {"check", "begin"}
       PROVE  /\ lastBegun'[worker'[v].user] < worker'[v].msg.id
              /\ \A i \in 1 .. Len(queue'[worker'[v].user]) :
                   worker'[v].msg.id < queue'[worker'[v].user][i].id
  <2>1. CASE v = w
    <3>1. lastBegun[u] < Head(q).id /\ \A i \in 1 .. Len(Tail(q)) : Head(q).id < Tail(q)[i].id
      BY <1>6, <1>7, <1>8
    <3> QED BY <2>1, <3>1, <1>3, <1>4, <1>5
  <2>2. CASE v # w
    <3>1. worker'[v] = worker[v] /\ worker[v].pc \in {"check", "begin"} /\ Live(v)
      BY <2>2, <1>3, <1>10 DEF Live
    <3>2. worker[v].user \in Users \ {u}
      BY <2>2, <3>1, <1>1, <1>2 DEF Unique, WorkerHolds
    <3> QED BY <3>1, <3>2, <1>4, <1>5 DEF InOrder, WorkerLine
  <2> QED BY <2>1, <2>2
<1>11. ASSUME NEW x \in Ahead' PROVE TakenBelow(x)'
  <2>1. TakenBelow(x)
    BY <1>5, <1>11 DEF Ahead, InOrder, DispatchLine
  <2>2. Head(q).id < x
    BY <2>1, <1>2, <1>6, <1>7 DEF TakenBelow
  <2>3. \A t \in Users : \A i \in 1 .. Len(queue'[t]) :
          queue'[t][i] = Head(q) \/ \E j \in 1 .. Len(queue[t]) : queue'[t][i] = queue[t][j]
    <3>1. \A i \in 1 .. Len(Tail(q)) : \E j \in 1 .. Len(q) : Tail(q)[i] = q[j]
      BY <1>6, <1>7
    <3> HIDE DEF q, u
    <3> SUFFICES ASSUME NEW t \in Users, NEW i \in 1 .. Len(queue'[t])
                 PROVE  \E j \in 1 .. Len(queue[t]) : queue'[t][i] = queue[t][j]
      OBVIOUS
    <3>2. CASE t = u
      BY <3>1, <3>2, <1>4 DEF q
    <3>3. CASE t # u
      BY <3>3, <1>4
    <3> QED BY <3>2, <3>3
  <2>4. \A v \in MsgId : worker'[v].msg \in {NoMsg, worker[v].msg, Head(q)}
    BY <1>3
  <2> HIDE DEF q
  <2> QED BY <2>1, <2>2, <2>3, <2>4, <1>5, TakenGrows
<1> QED BY <1>9, <1>10, <1>11 DEF InOrder, WorkerLine, DispatchLine

LEMMA StartWorkerKeepsOrder ==
  ASSUME Inv, QueueHeld, InOrder, StartWorker
  PROVE  InOrder'
<1>1. TypeOK /\ DispHolds /\ ChannelInOrder
  BY DEF Inv
<1>2. PICK m \in Message : m = disp.msg
  BY <1>1, DispatchedMessage DEF StartWorker
<1>3. m.id \in MsgId /\ m.id \in Nat /\ m.user \in Users /\ m # NoMsg
  BY MessageFields
<1> DEFINE new == [pc |-> "check", user |-> m.user, msg |-> m, run |-> 0]
<1>4. worker'[m.id] = new /\ \A v \in MsgId \ {m.id} : worker'[v] = worker[v]
  BY <1>1, <1>2, <1>3 DEF StartWorker, TypeOK
<1>5. queue[m.user] = <<>> /\ UNCHANGED <<queue, lastBegun, inbox, arrived>> /\ disp'.msg = NoMsg
  BY <1>2, <1>3 DEF StartWorker, QueueHeld, DispDone, Waiting
<1>6. m.id \in Ahead /\ TakenBelow(m.id)
  BY <1>2, <1>3 DEF StartWorker, Ahead, InOrder, DispatchLine
<1>7. UserLine'
  BY <1>5 DEF InOrder, UserLine
<1>8. ASSUME NEW v \in MsgId, worker'[v].pc \in {"check", "begin"}
      PROVE  /\ lastBegun'[worker'[v].user] < worker'[v].msg.id
             /\ \A i \in 1 .. Len(queue'[worker'[v].user]) :
                  worker'[v].msg.id < queue'[worker'[v].user][i].id
  <2>1. CASE v = m.id
    <3>1. lastBegun[m.user] < m.id
      BY <1>3, <1>6 DEF TakenBelow
    <3>2. Len(queue[m.user]) = 0
      BY <1>5
    <3> QED BY <2>1, <3>1, <3>2, <1>4, <1>5
  <2>2. CASE v # m.id
    BY <2>2, <1>4, <1>5, <1>8 DEF InOrder, WorkerLine
  <2> QED BY <2>1, <2>2
<1>9. ASSUME NEW x \in Ahead' PROVE TakenBelow(x)'
  <2>1. x \in Ahead /\ m.id < x
    BY <1>9, <1>1, <1>2, <1>3, <1>5 DEF Ahead, ChannelInOrder, TypeOK
  <2>2. TakenBelow(x)
    BY <2>1 DEF InOrder, DispatchLine
  <2> HIDE DEF new
  <2>3. new.msg = m
    BY DEF new
  <2>4. \A v \in MsgId : worker'[v].msg \in {NoMsg, worker[v].msg, m}
    BY <1>4, <2>3
  <2> QED BY <2>1, <2>2, <2>4, <1>5, TakenGrows
<1> QED BY <1>7, <1>8, <1>9 DEF InOrder, WorkerLine, DispatchLine

LEMMA EnqueueKeepsOrder ==
  ASSUME Inv, QueueHeld, InOrder, Enqueue
  PROVE  InOrder'
<1>1. TypeOK /\ DispHolds /\ WorkerHolds /\ ChannelInOrder
  BY DEF Inv
<1>2. PICK m \in Message : m = disp.msg
  BY <1>1, DispatchedMessage DEF Enqueue
<1>3. m.id \in MsgId /\ m.id \in Nat /\ m.user \in Users /\ m # NoMsg
  BY MessageFields
<1> DEFINE u == m.user
           q == queue[u]
           b == AppendBounded(q, m)
<1>4. queue'[u] = b /\ \A t \in Users \ {u} : queue'[t] = queue[t]
  BY <1>1, <1>2, <1>3 DEF Enqueue, TypeOK
<1>5. UNCHANGED <<worker, lastBegun, inbox, arrived>> /\ disp'.pc = "notice" /\ disp'.msg = m
  BY <1>2 DEF Enqueue
<1>6. m.id \in Ahead /\ TakenBelow(m.id)
  BY <1>2, <1>3 DEF Enqueue, Ahead, InOrder, DispatchLine
<1>7. q \in Seq(Message) /\ Len(q) <= MaxQueuedPerUser /\ Len(q) \in Nat
  BY <1>1, <1>3 DEF TypeOK, QueueHeld
<1>8. PICK k \in {0, 1} :
        /\ Len(b) = Len(q) + 1 - k
        /\ \A i \in 1 .. Len(q) - k : b[i] = q[i + k]
        /\ b[Len(q) + 1 - k] = m
  BY <1>7, AppendBoundedProperties
<1> HIDE DEF b
\* Every element of the new queue but the last is one of the old queue.
<1>9. \A i \in 1 .. Len(b) :
        \/ i = Len(b) /\ b[i] = m
        \/ i < Len(b) /\ i + k \in 1 .. Len(q) /\ b[i] = q[i + k]
  BY <1>7, <1>8, SMTT(60)
<1>10. /\ lastBegun[u] < m.id /\ \A i \in 1 .. Len(q) : q[i].id < m.id
       /\ \A i \in 1 .. Len(q) : lastBegun[u] < q[i].id
       /\ \A i, j \in 1 .. Len(q) : i < j => q[i].id < q[j].id
  BY <1>3, <1>6 DEF TakenBelow, InOrder, UserLine
<1>11. UserLine'
  <2>1. \A i \in 1 .. Len(b) : lastBegun[u] < b[i].id
    BY <1>9, <1>10
  <2>2. ASSUME NEW i \in 1 .. Len(b), NEW j \in 1 .. Len(b), i < j
        PROVE  b[i].id < b[j].id
    <3>1. i < Len(b) /\ i + k \in 1 .. Len(q) /\ b[i] = q[i + k]
      BY <2>2, <1>7, <1>8, <1>9
    <3>2. CASE j = Len(b)
      BY <3>1, <3>2, <1>8, <1>9, <1>10
    <3>3. CASE j # Len(b)
      <4>1. j + k \in 1 .. Len(q) /\ b[j] = q[j + k] /\ i + k < j + k
        BY <3>3, <2>2, <1>8, <1>9
      <4> QED BY <3>1, <4>1, <1>10
    <3> QED BY <3>2, <3>3
  <2> QED BY <2>1, <2>2, <1>4, <1>5 DEF InOrder, UserLine
<1>12. ASSUME NEW v \in MsgId, worker'[v].pc \in {"check", "begin"}
       PROVE  /\ lastBegun'[worker'[v].user] < worker'[v].msg.id
              /\ \A i \in 1 .. Len(queue'[worker'[v].user]) :
                   worker'[v].msg.id < queue'[worker'[v].user][i].id
  <2>1. /\ worker[v].pc \in {"check", "begin"} /\ worker[v].user \in Users
        /\ worker[v].msg \in Message /\ worker[v].msg # NoMsg
    BY <1>1, <1>5, <1>12, MessageFields DEF WorkerHolds, Live
  <2>2. worker[v].msg.id < m.id
    BY <1>6, <2>1 DEF TakenBelow
  <2>3. CASE worker[v].user = u
    <3>1. \A i \in 1 .. Len(q) : worker[v].msg.id < q[i].id
      BY <2>1, <2>3 DEF InOrder, WorkerLine
    <3>2. \A i \in 1 .. Len(b) : worker[v].msg.id < b[i].id
      BY <3>1, <2>2, <1>9
    <3> QED BY <3>2, <2>1, <2>3, <1>4, <1>5 DEF InOrder, WorkerLine
  <2>4. CASE worker[v].user # u
    BY <2>1, <2>4, <1>4, <1>5 DEF InOrder, WorkerLine
  <2> QED BY <2>3, <2>4
<1>13. ASSUME NEW x \in Ahead' PROVE TakenBelow(x)'
  <2>1. x \in Ahead /\ m.id < x
    BY <1>13, <1>1, <1>2, <1>3, <1>5 DEF Ahead, ChannelInOrder, TypeOK
  <2>2. TakenBelow(x)
    BY <2>1 DEF InOrder, DispatchLine
  <2>3. \A t \in Users : \A i \in 1 .. Len(queue'[t]) :
          queue'[t][i] = m \/ \E j \in 1 .. Len(queue[t]) : queue'[t][i] = queue[t][j]
    <3>1. \A i \in 1 .. Len(b) : b[i] = m \/ \E j \in 1 .. Len(q) : b[i] = q[j]
      BY <1>9
    <3> QED BY <3>1, <1>4
  <2>4. \A v \in MsgId : worker'[v].msg \in {NoMsg, worker[v].msg, m}
    BY <1>5
  <2> QED BY <2>1, <2>2, <2>3, <2>4, <1>5, TakenGrows
<1> QED BY <1>11, <1>12, <1>13 DEF InOrder, WorkerLine, DispatchLine

\* The next message goes from the channel to the dispatcher.
LEMMA ReceiveKeepsOrder ==
  ASSUME Inv, InOrder, Receive
  PROVE  InOrder'
<1>1. inbox \in Seq(Message) /\ inbox # <<>> /\ inbox' = Tail(inbox) /\ disp'.msg = Head(inbox)
  BY DEF Inv, TypeOK, Receive
<1>2. /\ Len(inbox) \in Nat \ {0} /\ Head(inbox) = inbox[1]
      /\ Len(Tail(inbox)) = Len(inbox) - 1
      /\ \A i \in 1 .. Len(Tail(inbox)) : Tail(inbox)[i] = inbox[i + 1]
  BY <1>1, HeadTailProperties, EmptySeq
<1>3. 1 \in 1 .. Len(inbox) /\ \A i \in 1 .. Len(Tail(inbox)) : i + 1 \in 1 .. Len(inbox)
  BY <1>2
<1>4. UNCHANGED <<queue, worker, lastBegun, arrived>>
  BY DEF Receive, userVars
<1>5. ASSUME NEW x \in Ahead' PROVE x \in Ahead
  <2>1. \/ x = inbox[1].id
        \/ \E i \in 1 .. Len(Tail(inbox)) : x = inbox[i + 1].id
        \/ x = arrived + 1
    BY <1>1, <1>2, <1>4, <1>5 DEF Ahead
  <2> QED BY <2>1, <1>3, <1>5 DEF Ahead
<1> QED BY <1>4, <1>5, DispatcherKeepsOrder

\* A new message is newer than everything.
LEMMA ArriveKeepsOrder ==
  ASSUME Inv, InOrder, Arrive
  PROVE  InOrder'
<1>1. PICK m : m.id = arrived + 1 /\ inbox' = Append(inbox, m)
  <2>1. PICK t \in Users, k \in Kinds :
          inbox' = Append(inbox, [id |-> arrived + 1, user |-> t, kind |-> k])
    BY DEF Arrive
  <2> QED BY <2>1
<1>2. inbox \in Seq(Message) /\ arrived \in Nat /\ TypeOK
  BY DEF Inv, TypeOK
<1>3. /\ arrived' = arrived + 1 /\ UNCHANGED <<queue, worker, lastBegun, disp>>
  BY DEF Arrive, userVars
<1>4. TakenBelow(arrived + 1) /\ TakenBelow(arrived + 2)
  <2>1. TakenBelow(arrived + 1)
    BY <1>2 DEF InOrder, DispatchLine, Ahead
  <2> QED BY <2>1, <1>2, IdsAreNumbers DEF TakenBelow
<1>5. ASSUME NEW x \in Ahead' PROVE TakenBelow(x)
  <2>1. x \in Ahead \/ x = arrived + 1 \/ x = arrived + 2
    <3>1. CASE \E i \in 1 .. Len(inbox') : x = inbox'[i].id
      <4>1. PICK i \in 1 .. Len(inbox') : x = inbox'[i].id
        BY <3>1
      <4>2. CASE i \in 1 .. Len(inbox)
        BY <4>1, <4>2, <1>1, <1>2, <1>5 DEF Ahead
      <4>3. CASE i = Len(inbox) + 1
        BY <4>1, <4>3, <1>1, <1>2
      <4> QED BY <4>1, <4>2, <4>3, <1>1, <1>2
    <3>2. CASE ~\E i \in 1 .. Len(inbox') : x = inbox'[i].id
      BY <3>2, <1>2, <1>3, <1>5 DEF Ahead
    <3> QED BY <3>1, <3>2
  <2> QED BY <2>1, <1>4 DEF InOrder, DispatchLine
<1>6. UserLine' /\ WorkerLine'
  BY <1>3 DEF InOrder, UserLine, WorkerLine
<1>7. ASSUME NEW x \in Ahead' PROVE TakenBelow(x)'
  BY <1>3, <1>5, <1>7 DEF TakenBelow
<1> QED BY <1>6, <1>7 DEF InOrder, DispatchLine

\* The other steps of a worker.
LEMMA WorkerStepsKeepOrder ==
  ASSUME Inv, InOrder, NEW w \in MsgId,
         \/ CheckContext(w) \/ GiveUp(w) \/ HandleReturns(w) \/ HandlePanics(w)
         \/ Recover(w) \/ EndRun(w) \/ QueueEmpty(w)
  PROVE  InOrder'
<1>1. TypeOK /\ WorkerHolds
  BY DEF Inv
<1>2. UNCHANGED <<lastBegun, disp, inbox, arrived>>
  BY DEF CheckContext, GiveUp, HandleReturns, HandlePanics, Recover, EndRun, QueueEmpty,
         ClearUser, dispVars
<1>3. \A u \in Users : queue'[u] \in {queue[u], <<>>}
  BY <1>1 DEF CheckContext, GiveUp, HandleReturns, HandlePanics, Recover, EndRun, QueueEmpty,
         ClearUser, TypeOK
<1>4. PICK r : /\ worker' = [worker EXCEPT ![w] = r] /\ r.msg \in {NoMsg, worker[w].msg}
               /\ r.pc \in {"check", "begin"} =>
                    worker[w].pc = "check" /\ r.user = worker[w].user /\ r.msg = worker[w].msg
  <2> USE <1>1 DEF TypeOK, WorkerRecord
  <2>1. CASE CheckContext(w)
    <3> DEFINE r == [worker[w] EXCEPT !.pc = "begin"]
    <3>1. worker' = [worker EXCEPT ![w] = r] /\ worker[w].pc = "check"
      BY <2>1 DEF CheckContext, WorkerGoto
    <3>2. r.user = worker[w].user /\ r.msg = worker[w].msg
      OBVIOUS
    <3> HIDE DEF r
    <3> QED BY <3>1, <3>2
  <2>2. CASE HandleReturns(w) \/ HandlePanics(w)
    <3>1. PICK pc \in {"ended", "panicked"} :
            worker' = [worker EXCEPT ![w].pc = pc, ![w].msg = NoMsg]
      BY <2>2 DEF HandleReturns, HandlePanics
    <3> DEFINE r == [worker[w] EXCEPT !.pc = pc, !.msg = NoMsg]
    <3>2. worker' = [worker EXCEPT ![w] = r] /\ r.pc = pc /\ r.msg = NoMsg
      BY <3>1
    <3> HIDE DEF r
    <3> QED BY <3>2
  <2>3. CASE EndRun(w)
    <3> DEFINE r == [worker[w] EXCEPT !.pc = "next"]
    <3>1. worker' = [worker EXCEPT ![w] = r]
      BY <2>3 DEF EndRun, WorkerGoto
    <3>2. r.pc = "next" /\ r.msg = worker[w].msg
      OBVIOUS
    <3> HIDE DEF r
    <3> QED BY <3>1, <3>2
  <2>4. CASE ClearUser(w) \/ QueueEmpty(w)
    <3> DEFINE r == [worker[w] EXCEPT !.pc = "done", !.msg = NoMsg]
    <3>1. worker' = [worker EXCEPT ![w] = r]
      BY <2>4 DEF ClearUser, QueueEmpty, WorkerFinished
    <3>2. r.pc = "done" /\ r.msg = NoMsg
      OBVIOUS
    <3> HIDE DEF r
    <3> QED BY <3>1, <3>2
  <2> QED BY <2>1, <2>2, <2>3, <2>4 DEF GiveUp, Recover
<1> QED BY <1>1, <1>2, <1>3, <1>4, WorkerKeepsOrder

LEMMA InOrderStep == Inv /\ QueueHeld /\ InOrder /\ [Next]_vars => InOrder'
<1> SUFFICES ASSUME Inv, QueueHeld, InOrder, [Next]_vars PROVE InOrder'
  OBVIOUS
<1>1. CASE StartWorker \/ Enqueue \/ Receive \/ Arrive
  BY <1>1, StartWorkerKeepsOrder, EnqueueKeepsOrder, ReceiveKeepsOrder, ArriveKeepsOrder
<1>2. CASE \E w \in MsgId : Worker(w)
  BY <1>2, BeginKeepsOrder, NextQueuedKeepsOrder, WorkerStepsKeepOrder DEF Worker
<1>3. CASE /\ UNCHANGED <<queue, worker, lastBegun, inbox, arrived>>
           /\ \/ disp'.msg = NoMsg
              \/ disp.pc # "notice" /\ disp'.msg = disp.msg
              \/ disp' = disp
  <2>1. Ahead' \subseteq Ahead
    BY <1>3 DEF Ahead
  <2> QED BY <1>3, <2>1, DispatcherKeepsOrder
<1>4. CASE \E m \in slashRuns : SlashReturns(m) \/ SlashPanics(m)
  BY <1>3, <1>4 DEF SlashReturns, SlashPanics, userVars, dispVars
<1>5. CASE \/ Cancel \/ (\E u \in Users : CooldownEnds(u)) \/ StopDispatching \/ UNCHANGED vars
  <2>1. UNCHANGED <<queue, worker, lastBegun, inbox, arrived>>
    BY <1>5 DEF Cancel, CooldownEnds, StopDispatching, userVars, dispVars, vars
  <2>2. disp' = disp \/ (disp'.msg = disp.msg /\ disp.pc # "notice")
    <3>1. CASE StopDispatching
      BY <3>1 DEF StopDispatching, DispGoto, Inv, TypeOK
    <3>2. CASE \/ Cancel \/ (\E u \in Users : CooldownEnds(u)) \/ UNCHANGED vars
      <4>1. disp' = disp
        BY <3>2 DEF Cancel, CooldownEnds, dispVars, vars
      <4> QED BY <4>1
    <3> QED BY <1>5, <3>1, <3>2
  <2> QED BY <1>3, <2>1, <2>2
<1>6. CASE Dispatch /\ ~StartWorker /\ ~Enqueue
  <2>1. UNCHANGED <<queue, worker, lastBegun, inbox, arrived>>
    BY <1>6 DEF Dispatch, CheckByTheWay, Injected, NotInjected, CheckBusySlash, DropSlash,
       StartSlash, QueueNotice, userVars
  <2>2. disp'.msg = NoMsg \/ (disp'.msg = disp.msg /\ disp.pc # "notice")
    <3>1. CASE Injected \/ DropSlash \/ StartSlash \/ QueueNotice
      <4>1. disp' = Waiting
        BY <3>1 DEF Injected, DropSlash, StartSlash, QueueNotice, DispDone
      <4> QED BY <4>1 DEF Waiting
    <3>2. CASE NotInjected \/ CheckByTheWay \/ CheckBusySlash
      <4>1. disp.pc # "notice"
        BY <3>2 DEF NotInjected, CheckByTheWay, CheckBusySlash
      <4>2. PICK pc \in DispPc : disp' = [disp EXCEPT !.pc = pc]
        BY <3>2 DEF NotInjected, CheckByTheWay, CheckBusySlash, DispGoto, DispPc
      <4> QED BY <4>1, <4>2 DEF Inv, TypeOK
    <3> QED BY <1>6, <3>1, <3>2 DEF Dispatch
  <2> QED BY <1>3, <2>1, <2>2
<1> QED BY <1>1, <1>2, <1>4, <1>5, <1>6 DEF Next

\* In the beginning nobody has a message.
LEMMA InOrderStarts == Init => InOrder
<1> SUFFICES ASSUME Init PROVE InOrder
  OBVIOUS
<1>1. \A u \in Users : Len(queue[u]) = 0 /\ lastBegun[u] = 0
  BY EmptySeq DEF Init
<1>2. \A w \in MsgId : worker[w].pc = "unborn" /\ worker[w].msg = NoMsg
  BY DEF Init, NotStarted
<1>3. Ahead \subseteq Nat \ {0}
  <2>1. disp.msg = NoMsg /\ Len(inbox) = 0 /\ arrived = 0
    BY EmptySeq DEF Init, Waiting
  <2> QED BY <2>1 DEF Ahead
<1>4. UserLine /\ WorkerLine
  BY <1>1, <1>2 DEF UserLine, WorkerLine
<1>5. ASSUME NEW x \in Ahead PROVE TakenBelow(x)
  <2>1. x \in Nat \ {0}
    BY <1>3
  <2> QED BY <2>1, <1>1, <1>2 DEF TakenBelow
<1> QED BY <1>4, <1>5 DEF InOrder, DispatchLine

\* A user's messages are begun in the order they arrived, across overflow, the
\* panic of a turn and the hand-over from a finished worker to a new one.
THEOREM Ordered == Spec => ServedInOrder
<1>1. Init => QueueHeld
  BY ConstantsAssumption, EmptySeq DEF Init, QueueHeld
<1>2. Init => InOrder
  BY InOrderStarts
<1>3. Inv /\ QueueHeld /\ [Next]_vars => QueueHeld'
  BY QueueHeldStep
<1>4. Inv /\ QueueHeld /\ InOrder /\ [Next]_vars => InOrder'
  BY InOrderStep
<1>5. ASSUME Inv, InOrder, [Next]_vars
      PROVE  [\A u \in Users : lastBegun'[u] # lastBegun[u] => lastBegun'[u] > lastBegun[u]]_vars
  <2>1. CASE lastBegun' = lastBegun
    BY <2>1
  <2>2. ASSUME NEW w \in MsgId, BeginRun(w)
        PROVE  \A u \in Users : lastBegun'[u] # lastBegun[u] => lastBegun'[u] > lastBegun[u]
    <3>1. lastBegun'[worker[w].user] > lastBegun[worker[w].user]
      BY <1>5, <2>2, BeginKeepsOrder
    <3>2. \A u \in Users \ {worker[w].user} : lastBegun'[u] = lastBegun[u]
      BY <1>5, <2>2 DEF BeginRun, Inv, TypeOK
    <3> QED BY <3>1, <3>2
  <2>3. lastBegun' = lastBegun \/ \E w \in MsgId : BeginRun(w)
    <3>1. ASSUME NEW w \in MsgId, Worker(w), ~BeginRun(w) PROVE lastBegun' = lastBegun
      BY <3>1 DEF Worker, CheckContext, GiveUp, HandleReturns, HandlePanics, Recover, EndRun,
         NextQueued, QueueEmpty, ClearUser
    <3>2. CASE Dispatch
      BY <3>2 DEF Dispatch, CheckByTheWay, Injected, NotInjected, CheckBusySlash, DropSlash,
         StartSlash, StartWorker, Enqueue, QueueNotice, userVars
    <3>3. CASE \/ Arrive \/ Cancel \/ (\E u \in Users : CooldownEnds(u))
               \/ Receive \/ StopDispatching \/ UNCHANGED vars
               \/ \E m \in slashRuns : SlashReturns(m) \/ SlashPanics(m)
      BY <3>3 DEF Arrive, Cancel, CooldownEnds, Receive, StopDispatching, SlashReturns,
         SlashPanics, userVars, vars
    <3> QED BY <1>5, <3>1, <3>2, <3>3 DEF Next
  <2> QED BY <2>1, <2>2, <2>3
<1> QED BY <1>1, <1>2, <1>3, <1>4, <1>5, Invariance, PTL DEF Spec, ServedInOrder

---------------------------------------------------------------------------
(* Slash commands beside the worker *)

\* SlashSerialised without cardinalities.
SlashHeld ==
  /\ \A u \in Users : u \in slashBusy <=> \E m \in slashRuns : m.user = u
  /\ \A m, n \in slashRuns : m.user = n.user => m = n

\* Only StartSlash and the deferred function change who runs a slash command.
LEMMA SlashHeldStep == Inv /\ SlashHeld /\ [Next]_vars => SlashHeld'
<1> SUFFICES ASSUME Inv, SlashHeld, [Next]_vars PROVE SlashHeld'
  OBVIOUS
<1>0. /\ slashBusy \subseteq Users /\ slashRuns \subseteq Message /\ DispHolds
      /\ disp \in [pc : DispPc, msg : Message \cup {NoMsg}]
  BY DEF Inv, TypeOK
<1>1. CASE UNCHANGED <<slashBusy, slashRuns>>
  BY <1>1 DEF SlashHeld
<1>2. CASE StartSlash
  <2>1. disp.msg \in Message /\ disp.msg.user \in Users
    BY <1>0, <1>2, DispatchedMessage, MessageFields DEF StartSlash, Inv
  <2> QED BY <1>0, <1>2, <2>1 DEF StartSlash, SlashHeld
<1>3. ASSUME NEW m \in slashRuns, SlashReturns(m) PROVE SlashHeld'
  <2>1. m.user \in Users
    BY <1>0, MessageFields
  <2> QED BY <1>0, <1>3, <2>1 DEF SlashReturns, SlashHeld
<1>4. \/ UNCHANGED <<slashBusy, slashRuns>> \/ StartSlash
      \/ \E m \in slashRuns : SlashReturns(m)
  <2>1. ASSUME NEW w \in MsgId, Worker(w) PROVE UNCHANGED <<slashBusy, slashRuns>>
    BY <2>1 DEF Worker, CheckContext, GiveUp, BeginRun, HandleReturns, HandlePanics, Recover,
       EndRun, NextQueued, QueueEmpty, ClearUser, dispVars
  <2>2. CASE Dispatch
    BY <2>2 DEF Dispatch, CheckByTheWay, Injected, NotInjected, CheckBusySlash, DropSlash,
       StartWorker, Enqueue, QueueNotice, userVars
  <2>3. CASE \/ Arrive \/ Cancel \/ (\E u \in Users : CooldownEnds(u))
             \/ Receive \/ StopDispatching \/ UNCHANGED vars
             \/ \E m \in slashRuns : SlashPanics(m)
    BY <2>3 DEF Arrive, Cancel, CooldownEnds, Receive, StopDispatching, SlashPanics, dispVars,
       userVars, vars
  <2> QED BY <2>1, <2>2, <2>3 DEF Next
<1> QED BY <1>1, <1>2, <1>3, <1>4

\* At most one goroutine handles a slash command beside a user's worker, and the flag says
\* exactly whether one does (tryHandleBusySlashCommand and its deferred function).
THEOREM SlashOne == Spec => []SlashSerialised
<1>1. Init => SlashHeld
  BY DEF Init, SlashHeld
<1>2. Inv /\ SlashHeld /\ [Next]_vars => SlashHeld'
  BY SlashHeldStep
<1>3. SlashHeld => SlashSerialised
  <2> SUFFICES ASSUME SlashHeld, NEW u \in Users
               PROVE  Cardinality({m \in slashRuns : m.user = u}) = IF u \in slashBusy THEN 1 ELSE 0
    BY DEF SlashSerialised
  <2>1. CASE u \notin slashBusy
    <3>1. {m \in slashRuns : m.user = u} = {}
      BY <2>1 DEF SlashHeld
    <3> QED BY <2>1, <3>1, FS_EmptySet
  <2>2. CASE u \in slashBusy
    <3>1. PICK n \in slashRuns : n.user = u
      BY <2>2 DEF SlashHeld
    <3>2. {m \in slashRuns : m.user = u} = {n}
      BY <3>1 DEF SlashHeld
    <3> QED BY <2>2, <3>2, FS_Singleton
  <2> QED BY <2>1, <2>2
<1> QED BY <1>1, <1>2, <1>3, Invariance, PTL DEF Spec

---------------------------------------------------------------------------
(* The abstract queue *)

\* A worker that neither is about to serve a message nor serves one holds none.
HandsFree ==
  \A w \in MsgId : worker[w].pc \notin {"check", "begin", "running"} => worker[w].msg = NoMsg

\* One worker's record changes, but for its user.
OneMoves(w) ==
  /\ \A v \in MsgId \ {w} : worker'[v] = worker[v]
  /\ worker'[w].user = worker[w].user

\* What a worker's step does to its record.
LEMMA WorkerRecords ==
  ASSUME NEW w \in MsgId, Inv, HandsFree, Worker(w)
  PROVE  /\ worker[w].user \in Users /\ Live(w) /\ OneMoves(w)
         /\ worker'[w].pc \notin {"check", "begin", "running"} => worker'[w].msg = NoMsg
<1>1. worker \in [MsgId -> WorkerRecord] /\ WorkerHolds
  BY DEF Inv, TypeOK
<1>2. /\ worker[w].pc \in WorkerPc
      /\ DOMAIN worker[w] = {"pc", "user", "msg", "run"} /\ DOMAIN worker = MsgId
  BY <1>1 DEF WorkerRecord
<1>3. Live(w)
  BY DEF Worker, Live, CheckContext, GiveUp, BeginRun, HandleReturns, HandlePanics, Recover,
     EndRun, NextQueued, QueueEmpty
<1>4. OneMoves(w) /\ (worker'[w].pc \notin {"check", "begin", "running"} => worker'[w].msg = NoMsg)
  BY <1>1, <1>2 DEF OneMoves, HandsFree, Worker, CheckContext, GiveUp, BeginRun, HandleReturns,
     HandlePanics, Recover, EndRun, NextQueued, QueueEmpty, ClearUser, WorkerGoto, WorkerFinished,
     WorkerRecord
<1> QED BY <1>1, <1>3, <1>4 DEF WorkerHolds

\* A worker gives its message up when it leaves the loop's body.
LEMMA HandsFreeStep == Inv /\ HandsFree /\ [Next]_vars => HandsFree'
<1> SUFFICES ASSUME Inv, HandsFree, [Next]_vars PROVE HandsFree'
  OBVIOUS
<1>1. CASE UNCHANGED worker
  BY <1>1 DEF HandsFree
<1>2. ASSUME NEW w \in MsgId, Worker(w) PROVE HandsFree'
  BY <1>2, WorkerRecords DEF HandsFree, OneMoves
<1>3. CASE StartWorker
  BY <1>3 DEF StartWorker, HandsFree, Inv, TypeOK
<1>4. UNCHANGED worker \/ StartWorker \/ \E w \in MsgId : Worker(w)
  <2>1. CASE Dispatch
    BY <2>1 DEF Dispatch, CheckByTheWay, Injected, NotInjected, CheckBusySlash, DropSlash,
       StartSlash, Enqueue, QueueNotice, userVars
  <2>2. CASE \/ Arrive \/ Cancel \/ (\E u \in Users : CooldownEnds(u))
             \/ Receive \/ StopDispatching \/ UNCHANGED vars
             \/ \E m \in slashRuns : SlashReturns(m) \/ SlashPanics(m)
    BY <2>2 DEF Arrive, Cancel, CooldownEnds, Receive, StopDispatching, SlashReturns, SlashPanics,
       userVars, vars
  <2> QED BY <2>1, <2>2 DEF Next
<1> QED BY <1>1, <1>2, <1>3, <1>4

\* What a user's server serves is what the user's one worker holds.
LEMMA ServingIs ==
  Unique => \A w \in MsgId : Live(w) => Serving(worker[w].user) = worker[w].msg
<1> SUFFICES ASSUME Unique, NEW w \in MsgId, Live(w) PROVE Serving(worker[w].user) = worker[w].msg
  OBVIOUS
<1> DEFINE u == worker[w].user
<1>1. \A v \in WorkersOf(u) : v = w
  BY DEF Unique, WorkersOf
<1>2. w \in WorkersOf(u)
  BY DEF WorkersOf
<1>3. CASE worker[w].msg = NoMsg
  BY <1>1, <1>3 DEF Serving
<1>4. CASE worker[w].msg # NoMsg
  <2>1. (CHOOSE v \in WorkersOf(u) : worker[v].msg # NoMsg) = w
    BY <1>1, <1>2, <1>4
  <2> QED BY <1>2, <1>4, <2>1 DEF Serving
<1> QED BY <1>3, <1>4

\* The same after a step.
LEMMA ServingWillBe ==
  (Unique => \A w \in MsgId : Live(w) => Serving(worker[w].user) = worker[w].msg)'
BY ServingIs, PTL

\* A user without a worker is served nothing.
LEMMA ServingNothing ==
  \A u : (\A w \in MsgId : Live(w) => worker[w].user # u) => Serving(u) = NoMsg
BY DEF Serving, WorkersOf

\* A step of one worker leaves alone what other users are served.
LEMMA ServingMoves ==
  ASSUME NEW w \in MsgId, worker[w].user \in Users, OneMoves(w), Unique, Unique',
         \A v \in MsgId \ {w} : Live(v) => worker[v].user # worker[w].user
  PROVE  [v \in Users |-> Serving(v)]' =
           [[v \in Users |-> Serving(v)] EXCEPT
              ![worker[w].user] = IF Live(w)' THEN worker'[w].msg ELSE NoMsg]
<1> DEFINE u == worker[w].user
<1>0. \A v \in MsgId \ {w} : Live(v)' <=> Live(v)
  BY DEF OneMoves, Live
<1>1. ASSUME NEW x \in Users, x # u PROVE Serving(x)' = Serving(x)
  <2>1. CASE \E v \in MsgId : Live(v) /\ worker[v].user = x
    <3>1. PICK v \in MsgId : Live(v) /\ worker[v].user = x
      BY <2>1
    <3>2. v # w /\ Live(v)' /\ worker'[v].user = x /\ worker'[v].msg = worker[v].msg
      BY <1>0, <1>1, <3>1 DEF OneMoves
    <3>3. Serving(x) = worker[v].msg
      BY <3>1, ServingIs
    <3>4. (\A z \in MsgId : Live(z) => Serving(worker[z].user) = worker[z].msg)'
      BY ServingWillBe
    <3>5. Serving(x)' = worker'[v].msg
      BY <3>2, <3>4
    <3> QED BY <3>2, <3>3, <3>5
  <2>2. CASE ~\E v \in MsgId : Live(v) /\ worker[v].user = x
    <3>1. Serving(x) = NoMsg
      BY <2>2, ServingNothing
    <3>2. (\A z \in MsgId : Live(z) => worker[z].user # x)'
      BY <1>0, <1>1, <2>2 DEF OneMoves
    <3>3. Serving(x)' = NoMsg
      BY <3>2 DEF Serving, WorkersOf
    <3> QED BY <3>1, <3>3
  <2> QED BY <2>1, <2>2
<1>2. ASSUME NEW x \in Users, x = u PROVE Serving(x)' = IF Live(w)' THEN worker'[w].msg ELSE NoMsg
  <2>1. CASE Live(w)'
    BY <1>2, <2>1, ServingWillBe DEF OneMoves
  <2>2. CASE ~Live(w)'
    <3>1. (\A z \in MsgId : Live(z) => worker[z].user # x)'
      BY <1>0, <1>2, <2>2 DEF OneMoves
    <3> QED BY <2>2, <3>1 DEF Serving, WorkersOf
  <2> QED BY <2>1, <2>2
<1> DEFINE served == IF Live(w)' THEN worker'[w].msg ELSE NoMsg
<1>3. [v \in Users |-> Serving(v)]' = [v \in Users |-> Serving(v)']
  OBVIOUS
<1>4. \A x \in Users : Serving(x)' = IF x = u THEN served ELSE Serving(x)
  BY <1>1, <1>2
<1> HIDE DEF served
<1>5. [v \in Users |-> Serving(v)'] = [[v \in Users |-> Serving(v)] EXCEPT ![u] = served]
  BY <1>4
<1> QED BY <1>3, <1>5 DEF served

\* The oldest of a full queue goes, whether before or after the new one is appended.
LEMMA DropsOldest ==
  ASSUME NEW q \in Seq(Message), NEW m \in Message
  PROVE  AppendBounded(q, m) =
           IF Len(q) < MaxQueuedPerUser THEN Append(q, m) ELSE Append(Tail(q), m)
<1>1. CASE Len(q) < MaxQueuedPerUser
  BY <1>1 DEF AppendBounded
<1>2. CASE ~(Len(q) < MaxQueuedPerUser)
  <2>1. q # <<>> /\ Len(q) \in Nat /\ Len(q) # 0
    BY <1>2, ConstantsAssumption, EmptySeq
  <2>2. Tail(Append(q, m)) = Append(Tail(q), m)
    BY <2>1
  <2> QED BY <1>2, <2>2 DEF AppendBounded
<1> QED BY <1>1, <1>2

\* The steps of a worker are steps of the user's server.
LEMMA WorkerServes ==
  ASSUME NEW w \in MsgId, Inv, Inv', HandsFree, Worker(w)
  PROVE  [UQ!Next]_(UQ!vars)
<1> DEFINE u == worker[w].user
           serves == [v \in Users |-> Serving(v)]
<1>0. worker \in [MsgId -> WorkerRecord] /\ Unique /\ Unique' /\ WorkerHolds /\ Matched
  BY DEF Inv, TypeOK
<1>1. u \in Users /\ Live(w) /\ OneMoves(w)
  BY WorkerRecords
<1>2. /\ serves' = [serves EXCEPT ![u] = IF Live(w)' THEN worker'[w].msg ELSE NoMsg]
      /\ serves[u] = worker[w].msg
      /\ serves \in [Users -> {serves[v] : v \in Users}]
  <2>1. \A v \in MsgId \ {w} : Live(v) => worker[v].user # worker[w].user
    BY <1>0, <1>1 DEF Unique
  <2> QED BY <1>0, <1>1, <2>1, ServingMoves, ServingIs
<1>3. u \in inFlight /\ queue \in [Users -> Seq(Message)]
  BY <1>0, <1>1 DEF Matched, Inv, TypeOK
<1> HIDE DEF serves
<1>4. CASE CheckContext(w) \/ BeginRun(w) \/ EndRun(w)
  <2>1. Live(w)' /\ worker'[w].msg = worker[w].msg /\ UNCHANGED <<inFlight, queue>>
    BY <1>0, <1>4 DEF CheckContext, BeginRun, EndRun, WorkerGoto, WorkerRecord, Live
  <2>2. serves' = serves
    BY <1>2, <2>1
  <2> QED BY <2>1, <2>2 DEF UQ!vars, serves
<1>5. CASE HandleReturns(w) \/ HandlePanics(w)
  <2>1. /\ worker[w].msg \in Message /\ worker[w].msg # NoMsg
        /\ worker'[w].msg = NoMsg /\ UNCHANGED <<inFlight, queue>>
    BY <1>0, <1>5, ConstantsAssumption DEF HandleReturns, HandlePanics, WorkerRecord, WorkerHolds
  <2>2. serves' = [serves EXCEPT ![u] = NoMsg] /\ serves[u] # NoMsg
    BY <1>2, <2>1
  <2>3. UQ!Finish(u)
    BY <2>1, <2>2 DEF UQ!Finish, serves
  <2> QED BY <1>1, <2>3 DEF UQ!Next
<1>6. CASE NextQueued(w)
  <2>1. /\ worker[w].msg = NoMsg /\ queue[u] # <<>> /\ UNCHANGED inFlight
        /\ queue' = [queue EXCEPT ![u] = Tail(queue[u])]
        /\ Live(w)' /\ worker'[w].msg = Head(queue[u])
    BY <1>0, <1>6 DEF NextQueued, HandsFree, Live
  <2>2. serves' = [serves EXCEPT ![u] = Head(queue[u])] /\ serves[u] = NoMsg
    BY <1>2, <2>1
  <2>3. UQ!Advance(u)
    BY <1>3, <2>1, <2>2 DEF UQ!Advance, serves
  <2> QED BY <1>1, <2>3 DEF UQ!Next
<1>7. CASE QueueEmpty(w)
  <2>1. /\ worker[w].msg = NoMsg /\ queue[u] = <<>> /\ UNCHANGED queue
        /\ inFlight' = inFlight \ {u} /\ ~Live(w)'
    BY <1>0, <1>7 DEF QueueEmpty, WorkerFinished, HandsFree, Live
  <2>2. serves' = serves /\ serves[u] = NoMsg
    BY <1>2, <2>1
  <2>3. UQ!Close(u)
    BY <1>3, <2>1, <2>2 DEF UQ!Close, serves
  <2> QED BY <1>1, <2>3 DEF UQ!Next
<1>8. CASE GiveUp(w) \/ Recover(w)
  <2>1. /\ queue' = [queue EXCEPT ![u] = <<>>]
        /\ inFlight' = inFlight \ {u} /\ ~Live(w)'
    BY <1>0, <1>8 DEF GiveUp, Recover, ClearUser, WorkerFinished, WorkerRecord, Live
  <2>2. serves' = [serves EXCEPT ![u] = NoMsg]
    BY <1>2, <2>1
  <2>3. UQ!Abandon(u)
    BY <1>3, <2>1, <2>2 DEF UQ!Abandon, serves
  <2> QED BY <1>1, <2>3 DEF UQ!Next
<1> QED BY <1>4, <1>5, <1>6, <1>7, <1>8 DEF Worker

\* A message that starts a worker opens the user's server.
LEMMA WorkerOpens ==
  ASSUME Inv, Inv', StartWorker
  PROVE  [UQ!Next]_(UQ!vars)
<1> DEFINE serves == [v \in Users |-> Serving(v)]
<1>0. /\ worker \in [MsgId -> WorkerRecord] /\ Unique /\ Unique' /\ Matched
      /\ DispHolds /\ WorkersAreOlder
  BY DEF Inv, TypeOK
<1>m. disp.msg \in Message
  BY DispatchedMessage DEF StartWorker, Inv
<1>1. PICK m \in Message : m = disp.msg /\ m.user \in Users /\ m.id \in MsgId /\ m # NoMsg
  BY <1>m, MessageFields, ConstantsAssumption
<1>2. /\ m.user \notin inFlight /\ inFlight' = inFlight \cup {m.user} /\ UNCHANGED queue
      /\ worker'[m.id].user = m.user /\ worker'[m.id].msg = m /\ Live(m.id)'
      /\ \A v \in MsgId \ {m.id} : worker'[v] = worker[v]
  <2>1. worker' = [worker EXCEPT ![m.id] = [pc |-> "check", user |-> m.user, msg |-> m, run |-> 0]]
    BY <1>1 DEF StartWorker
  <2>2. worker'[m.id] = [pc |-> "check", user |-> m.user, msg |-> m, run |-> 0]
    BY <1>0, <1>1, <2>1
  <2> QED BY <1>0, <1>1, <2>1, <2>2 DEF StartWorker, Live
<1>3. ~Live(m.id)
  <2>1. m.id \in Nat
    BY <1>1 DEF MsgId
  <2> QED BY <1>0, <1>1, <2>1 DEF WorkersAreOlder, Live
<1>4. ASSUME NEW x \in Users, x # m.user PROVE Serving(x)' = Serving(x)
  <2>1. CASE \E v \in MsgId : Live(v) /\ worker[v].user = x
    <3>1. PICK v \in MsgId : Live(v) /\ worker[v].user = x
      BY <2>1
    <3>2. v # m.id /\ Live(v)' /\ worker'[v].user = x /\ worker'[v].msg = worker[v].msg
      BY <1>2, <1>3, <3>1 DEF Live
    <3> QED BY <1>0, <3>1, <3>2, ServingIs, ServingWillBe
  <2>2. CASE ~\E v \in MsgId : Live(v) /\ worker[v].user = x
    <3>1. (\A z \in MsgId : Live(z) => worker[z].user # x)'
      BY <1>2, <1>4, <2>2 DEF Live
    <3> QED BY <2>2, <3>1, ServingNothing DEF Serving, WorkersOf
  <2> QED BY <2>1, <2>2
<1>5. ASSUME NEW x \in Users, x = m.user PROVE Serving(x)' = m
  <2>1. PICK n \in MsgId : n = m.id
    BY <1>1
  <2>2. Live(n)' /\ worker'[n].user = x /\ worker'[n].msg = m
    BY <1>2, <1>5, <2>1 DEF Live
  <2> QED BY <1>0, <2>2, ServingWillBe
<1>6. serves' = [serves EXCEPT ![m.user] = m]
  <2>1. serves' = [v \in Users |-> Serving(v)']
    OBVIOUS
  <2>2. [v \in Users |-> Serving(v)'] = [serves EXCEPT ![m.user] = m]
    BY <1>4, <1>5
  <2> QED BY <2>1, <2>2
<1> HIDE DEF serves
<1>7. UQ!Open(m.user, m)
  BY <1>2, <1>6 DEF UQ!Open, serves
<1> QED BY <1>1, <1>7 DEF UQ!Next

\* A message that joins the queue waits in the user's line.
LEMMA EnqueueJoins ==
  ASSUME Inv, Enqueue
  PROVE  [UQ!Next]_(UQ!vars)
<1> DEFINE m == disp.msg
           serves == [v \in Users |-> Serving(v)]
<1>0. queue \in [Users -> Seq(Message)] /\ DispHolds
  BY DEF Inv, TypeOK
<1>1. m \in Message /\ m.user \in Users
  BY DispatchedMessage, MessageFields DEF Enqueue, Inv
<1>2. /\ m.user \in inFlight /\ UNCHANGED <<inFlight, worker>>
      /\ queue' = [queue EXCEPT ![m.user] = AppendBounded(queue[m.user], m)]
  BY DEF Enqueue
<1>3. serves' = serves
  BY <1>2 DEF Serving, WorkersOf, Live
<1>4. AppendBounded(queue[m.user], m) = IF Len(queue[m.user]) < MaxQueuedPerUser
                                        THEN Append(queue[m.user], m)
                                        ELSE Append(Tail(queue[m.user]), m)
  BY <1>0, <1>1, DropsOldest
<1> HIDE DEF serves
<1>5. UQ!Join(m.user, m)
  BY <1>2, <1>3, <1>4 DEF UQ!Join, serves
<1> QED BY <1>1, <1>5 DEF UQ!Next

\* A step that changes no worker, queue or place in flight is none of the abstract queue.
LEMMA OthersStutter ==
  ASSUME UNCHANGED <<inFlight, queue, worker>>
  PROVE  [UQ!Next]_(UQ!vars)
<1> DEFINE serves == [v \in Users |-> Serving(v)]
<1>1. serves' = serves
  BY DEF Serving, WorkersOf, Live
<1> QED BY <1>1 DEF UQ!vars

\* The message processor, with its goroutines and locks, implements the queue of UserQueue:
\* per user one message at a time, in the order of arrival, behind an open server
\* (enqueue, handle, nextQueued, clearUser).
THEOREM Implements == Spec => ImplementsUserQueue
<1>1. Init => UQ!Init
  <2> SUFFICES ASSUME Init PROVE UQ!Init
    OBVIOUS
  <2>1. \A w \in MsgId : ~Live(w)
    BY DEF Init, NotStarted, Live
  <2>2. \A u \in Users : Serving(u) = NoMsg
    BY <2>1, ServingNothing
  <2> QED BY <2>2 DEF Init, UQ!Init
<1>2. Init => HandsFree
  BY DEF Init, NotStarted, HandsFree
<1>3. Inv /\ HandsFree /\ [Next]_vars => HandsFree'
  BY HandsFreeStep
<1>4. ASSUME Inv, Inv', HandsFree, [Next]_vars PROVE [UQ!Next]_(UQ!vars)
  <2>1. CASE Dispatch
    <3>1. \/ StartWorker \/ Enqueue \/ UNCHANGED <<inFlight, queue, worker>>
      BY <2>1 DEF Dispatch, CheckByTheWay, Injected, NotInjected, CheckBusySlash, DropSlash,
         StartSlash, QueueNotice, userVars
    <3> QED BY <1>4, <3>1, WorkerOpens, EnqueueJoins, OthersStutter
  <2>2. ASSUME NEW w \in MsgId, Worker(w) PROVE [UQ!Next]_(UQ!vars)
    BY <1>4, <2>2, WorkerServes
  <2>3. CASE \/ Arrive \/ Cancel \/ (\E u \in Users : CooldownEnds(u))
             \/ Receive \/ StopDispatching \/ UNCHANGED vars
             \/ \E m \in slashRuns : SlashReturns(m) \/ SlashPanics(m)
    <3>1. UNCHANGED <<inFlight, queue, worker>>
      BY <2>3 DEF Arrive, Cancel, CooldownEnds, Receive, StopDispatching, SlashReturns, SlashPanics,
         userVars, vars
    <3> QED BY <3>1, OthersStutter
  <2> QED BY <1>4, <2>1, <2>2, <2>3 DEF Next
<1> QED BY <1>1, <1>2, <1>3, <1>4, Invariance, PTL DEF Spec, ImplementsUserQueue, UQ!Spec

---------------------------------------------------------------------------
(* Where a message is *)

IdsIn(q) == {q[i].id : i \in 1 .. Len(q)}

\* Message x is at a place: which of its kind is meant tells y.
At(x, place, y) ==
  \/ place = "inbox" /\ y = 0 /\ x \in IdsIn(inbox)
  \/ place = "disp" /\ y = 0 /\ disp.msg # NoMsg /\ disp.pc # "notice" /\ disp.msg.id = x
  \/ place = "queue" /\ y \in Users /\ x \in IdsIn(queue[y])
  \/ place = "worker" /\ y \in MsgId /\ worker[y].msg # NoMsg /\ worker[y].msg.id = x
  \/ place = "slash" /\ y = 0 /\ \E m \in slashRuns : m.id = x

\* NoMessageLostOrDuplicated for one message, without cardinalities.
OncePlaced(x) ==
  /\ \A j, k, y, z : At(x, j, y) /\ At(x, k, z) => j = k /\ y = z
  /\ (\E k, y : At(x, k, y)) <=> x <= arrived /\ fate[x] = "none"

Placed ==
  /\ \A x \in MsgId : OncePlaced(x)
  /\ \A x \in MsgId : x > arrived => fate[x] = "none"
  /\ \A m, n \in slashRuns : m.id = n.id => m = n

\* A message that stays, goes from one place to another, or is done with.
Stays(x) ==
  /\ \A k, y : At(x, k, y)' <=> At(x, k, y)
  /\ arrived' = arrived /\ fate'[x] = fate[x]

Goes(x, j, y, k, z) ==
  /\ At(x, j, y)
  /\ \A l, v : At(x, l, v)' <=> l = k /\ v = z
  /\ arrived' = arrived /\ fate'[x] = fate[x]

Settles(x) ==
  /\ \A k, y : ~At(x, k, y)'
  /\ fate'[x] # "none"

\* A message that stays is where it was, once.
LEMMA StaysOnce == ASSUME NEW x \in MsgId, OncePlaced(x), Stays(x) PROVE OncePlaced(x)'
BY DEF OncePlaced, Stays

\* One that goes is at its new place only.
LEMMA GoesOnce ==
  ASSUME NEW x \in MsgId, OncePlaced(x), NEW j, NEW k, NEW y, NEW z, Goes(x, j, y, k, z)
  PROVE  OncePlaced(x)'
BY DEF OncePlaced, Goes

\* One that is done with is nowhere.
LEMMA SettlesOnce == ASSUME NEW x \in MsgId, Settles(x) PROVE OncePlaced(x)'
BY DEF OncePlaced, Settles

\* A message that is somewhere is nowhere else.
LEMMA OnlyThere ==
  ASSUME NEW x \in MsgId, OncePlaced(x), NEW j, NEW y, At(x, j, y)
  PROVE  /\ \A k, z : At(x, k, z) <=> k = j /\ z = y
         /\ x <= arrived /\ fate[x] = "none"
BY DEF OncePlaced

\* The ids in a sequence without its first element,
LEMMA TailIds ==
  ASSUME NEW q \in Seq(Message), q # <<>>,
         \A i, j \in 1 .. Len(q) : i < j => q[i].id < q[j].id
  PROVE  IdsIn(Tail(q)) = IdsIn(q) \ {Head(q).id}
<1>1. /\ Tail(q) \in Seq(Message) /\ Len(Tail(q)) = Len(q) - 1 /\ Len(q) \in Nat \ {0}
      /\ \A i \in 1 .. Len(Tail(q)) : Tail(q)[i] = q[i + 1]
      /\ Head(q) = q[1]
  BY HeadTailProperties, EmptySeq
<1>2. \A i \in 1 .. Len(q) : q[i].id \in Nat
  BY ElementIsMessage, MessageFields DEF MsgId
<1>3. \A i \in 2 .. Len(q) : q[i].id # q[1].id
  <2> SUFFICES ASSUME NEW i \in 2 .. Len(q) PROVE q[i].id # q[1].id
    OBVIOUS
  <2>1. i \in 1 .. Len(q) /\ 1 \in 1 .. Len(q) /\ 1 < i
    BY <1>1
  <2>2. q[1].id < q[i].id /\ q[1].id \in Nat /\ q[i].id \in Nat
    BY <1>2, <2>1
  <2> QED BY <2>2
<1>4. ASSUME NEW x \in IdsIn(Tail(q)) PROVE x \in IdsIn(q) /\ x # Head(q).id
  <2>1. PICK i \in 1 .. Len(Tail(q)) : x = Tail(q)[i].id
    BY DEF IdsIn
  <2>2. i + 1 \in 2 .. Len(q) /\ i + 1 \in 1 .. Len(q) /\ x = q[i + 1].id
    BY <1>1, <2>1
  <2> QED BY <1>1, <1>3, <2>2 DEF IdsIn
<1>5. ASSUME NEW x \in IdsIn(q), x # Head(q).id PROVE x \in IdsIn(Tail(q))
  <2>1. PICK i \in 1 .. Len(q) : x = q[i].id
    BY DEF IdsIn
  <2>2. i - 1 \in 1 .. Len(Tail(q)) /\ Tail(q)[i - 1] = q[i]
    BY <1>1, <1>5, <2>1
  <2> QED BY <2>1, <2>2 DEF IdsIn
<1> QED BY <1>4, <1>5

\* with one more,
LEMMA AppendIds ==
  ASSUME NEW q \in Seq(Message), NEW m \in Message
  PROVE  IdsIn(Append(q, m)) = IdsIn(q) \cup {m.id}
<1>1. /\ Append(q, m) \in Seq(Message) /\ Len(Append(q, m)) = Len(q) + 1 /\ Len(q) \in Nat
      /\ Append(q, m)[Len(q) + 1] = m /\ \A i \in 1 .. Len(q) : Append(q, m)[i] = q[i]
  BY AppendProperties
<1>2. ASSUME NEW x \in IdsIn(Append(q, m)) PROVE x \in IdsIn(q) \cup {m.id}
  BY <1>1 DEF IdsIn
<1>3. ASSUME NEW x \in IdsIn(q) PROVE x \in IdsIn(Append(q, m))
  <2>1. PICK i \in 1 .. Len(q) : x = q[i].id
    BY DEF IdsIn
  <2>2. i \in 1 .. Len(Append(q, m)) /\ Append(q, m)[i].id = x
    BY <1>1, <2>1
  <2> QED BY <2>2 DEF IdsIn
<1>4. m.id \in IdsIn(Append(q, m))
  <2>1. Len(q) + 1 \in 1 .. Len(Append(q, m))
    BY <1>1
  <2> QED BY <1>1, <2>1 DEF IdsIn
<1> QED BY <1>2, <1>3, <1>4

\* and without any.
LEMMA EmptyIds == IdsIn(<<>>) = {}
BY EmptySeq DEF IdsIn

\* What all the steps below start from.
PlacedInv == Inv /\ QueueHeld /\ UserLine /\ HandsFree /\ Placed

\* Nothing moves.
LEMMA PlacedStays ==
  ASSUME Placed, UNCHANGED <<inbox, queue, slashRuns, arrived, fate>>,
         \A w \in MsgId : worker'[w].msg = worker[w].msg,
         \A x : At(x, "disp", 0)' <=> At(x, "disp", 0)
  PROVE  Placed'
<1>1. ASSUME NEW x \in MsgId PROVE Stays(x)
  BY DEF Stays, At
<1>2. \A x \in MsgId : OncePlaced(x)'
  BY <1>1, StaysOnce DEF Placed
<1> QED BY <1>2 DEF Placed

\* What is told of each message is told of all.
LEMMA PlacedEach ==
  ASSUME PlacedInv, \A x \in MsgId : OncePlaced(x)', arrived' = arrived,
         \A x \in MsgId : fate'[x] = fate[x] \/ x <= arrived,
         \A m, n \in slashRuns' : m.id = n.id => m = n
  PROVE  Placed'
<1>1. arrived \in Nat /\ \A x \in MsgId : x \in Nat
  BY DEF PlacedInv, Inv, TypeOK, MsgId
<1>2. \A x \in MsgId : x > arrived => ~(x <= arrived)
  BY <1>1
<1>3. \A x \in MsgId : x > arrived' => fate'[x] = "none"
  BY <1>2 DEF PlacedInv, Placed
<1> QED BY <1>3 DEF Placed

\* Who a message that is being dispatched is, and that it is nowhere else.
LEMMA DispatchedAt ==
  ASSUME PlacedInv, disp.pc \notin {"select", "stopped", "notice"}
  PROVE  /\ disp.msg \in Message /\ disp.msg.user \in Users /\ disp.msg.id \in MsgId
         /\ disp.msg # NoMsg
         /\ At(disp.msg.id, "disp", 0)
         /\ \A x : At(x, "disp", 0) <=> x = disp.msg.id
<1>1. disp.msg \in Message
  BY DEF PlacedInv, Inv, TypeOK, DispHolds
<1> QED BY <1>1, MessageFields DEF At

\* A new message is in the channel only.
LEMMA ArrivePlaces == ASSUME PlacedInv, Arrive PROVE Placed'
<1>0. inbox \in Seq(Message) /\ arrived \in Nat /\ arrived < MaxArrivals /\ fate' = fate
  BY DEF PlacedInv, Inv, TypeOK, Arrive
<1>1. PICK m \in Message : m.id = arrived + 1 /\ inbox' = Append(inbox, m)
  <2>1. arrived + 1 \in MsgId
    BY <1>0, ConstantsAssumption DEF MsgId
  <2> QED BY <2>1 DEF Arrive, Message
<1>2. IdsIn(inbox)' = IdsIn(inbox) \cup {arrived + 1}
  BY <1>0, <1>1, AppendIds
<1>3. arrived' = arrived + 1 /\ UNCHANGED <<disp, queue, worker, slashRuns>>
  BY DEF Arrive, userVars
<1>4. \A x, k, y : At(x, k, y)' <=> At(x, k, y) \/ (x = arrived + 1 /\ k = "inbox" /\ y = 0)
  BY <1>2, <1>3 DEF At
<1>5. ASSUME NEW x \in MsgId, x # arrived + 1 PROVE OncePlaced(x)'
  <2>1. x \in Nat /\ OncePlaced(x)
    BY DEF MsgId, PlacedInv, Placed
  <2>2. x <= arrived' <=> x <= arrived
    BY <1>0, <1>3, <1>5, <2>1
  <2> QED BY <1>0, <1>4, <1>5, <2>1, <2>2 DEF OncePlaced
<1>6. ASSUME NEW x \in MsgId, x = arrived + 1 PROVE OncePlaced(x)'
  <2>1. ~(x <= arrived) /\ x > arrived /\ x <= arrived'
    BY <1>0, <1>3, <1>6
  <2>2. fate'[x] = "none" /\ ~\E k, y : At(x, k, y)
    BY <1>0, <2>1 DEF PlacedInv, Placed, OncePlaced
  <2>3. \A k, y : At(x, k, y)' <=> k = "inbox" /\ y = 0
    BY <1>4, <1>6, <2>2
  <2> QED BY <2>1, <2>2, <2>3 DEF OncePlaced
<1>7. \A x \in MsgId : x > arrived' => fate'[x] = "none"
  <2>1. \A x \in MsgId : x \in Nat /\ (x > arrived + 1 => x > arrived)
    BY <1>0 DEF MsgId
  <2> QED BY <1>0, <1>3, <2>1 DEF PlacedInv, Placed
<1> QED BY <1>3, <1>5, <1>6, <1>7 DEF Placed, PlacedInv

\* The channel hands its first message to the dispatcher.
LEMMA ReceivePlaces == ASSUME PlacedInv, Receive PROVE Placed'
<1>0. inbox \in Seq(Message) /\ inbox # <<>> /\ ChannelInOrder /\ DispHolds /\ disp.pc = "select"
  BY DEF PlacedInv, Inv, TypeOK, Receive
<1>1. PICK m \in Message : m = Head(inbox) /\ m.id \in MsgId /\ m # NoMsg
  BY <1>0, HeadTailProperties, MessageFields
<1>2. IdsIn(inbox)' = IdsIn(inbox) \ {m.id}
  BY <1>0, <1>1, TailIds DEF ChannelInOrder, Receive
<1>3. m.id \in IdsIn(inbox)
  <2>1. m = inbox[1] /\ 1 \in 1 .. Len(inbox)
    BY <1>0, <1>1, HeadTailProperties, EmptySeq
  <2> QED BY <2>1 DEF IdsIn
<1>4. /\ disp.msg = NoMsg /\ disp' = [pc |-> "btw", msg |-> m]
      /\ UNCHANGED <<queue, worker, slashRuns, arrived, fate>>
  BY <1>0, <1>1 DEF Receive, DispHolds, userVars
<1>5. At(m.id, "inbox", 0)
  BY <1>3 DEF At
<1>6. ASSUME NEW x \in MsgId PROVE OncePlaced(x)'
  <2>1. OncePlaced(x)
    BY DEF PlacedInv, Placed
  <2>2. CASE x = m.id
    <3>1. \A k, y : At(x, k, y) <=> k = "inbox" /\ y = 0
      BY <1>5, <2>1, <2>2, OnlyThere
    <3>2. \A k, y : At(x, k, y)' <=> k = "disp" /\ y = 0
      BY <1>1, <1>2, <1>4, <2>2, <3>1 DEF At
    <3>3. Goes(x, "inbox", 0, "disp", 0)
      BY <1>4, <1>5, <2>2, <3>2 DEF Goes
    <3> QED BY <2>1, <3>3, GoesOnce
  <2>3. CASE x # m.id
    <3>1. Stays(x)
      BY <1>1, <1>2, <1>4, <2>3 DEF Stays, At
    <3> QED BY <2>1, <3>1, StaysOnce
  <2> QED BY <2>2, <2>3
<1> QED BY <1>4, <1>6, PlacedEach DEF Placed, PlacedInv

\* The dispatcher is done with its message.
LEMMA DispatchedPlaces == ASSUME PlacedInv, Injected \/ DropSlash PROVE Placed'
<1>0. disp.pc \notin {"select", "stopped", "notice"} /\ fate \in [MsgId -> Fate]
  BY DEF Injected, DropSlash, PlacedInv, Inv, TypeOK
<1>1. PICK m \in Message : m = disp.msg /\ m.id \in MsgId /\ At(m.id, "disp", 0)
  BY <1>0, DispatchedAt
<1>2. /\ disp' = Waiting /\ UNCHANGED <<inbox, queue, worker, slashRuns, arrived>>
      /\ fate'[m.id] # "none" /\ \A x \in MsgId \ {m.id} : fate'[x] = fate[x]
  BY <1>0, <1>1 DEF Injected, DropSlash, DispDone, userVars
<1>3. ASSUME NEW x \in MsgId PROVE OncePlaced(x)' /\ (fate'[x] = fate[x] \/ x <= arrived)
  <2>1. OncePlaced(x)
    BY DEF PlacedInv, Placed
  <2>2. CASE x = m.id
    <3>1. (\A k, y : At(x, k, y) <=> k = "disp" /\ y = 0) /\ x <= arrived
      BY <1>1, <2>1, <2>2, OnlyThere
    <3>2. Settles(x)
      BY <1>2, <2>2, <3>1 DEF Settles, At, Waiting
    <3> QED BY <3>1, <3>2, SettlesOnce
  <2>3. CASE x # m.id
    <3>1. Stays(x)
      BY <1>0, <1>1, <1>2, <2>3 DEF Stays, At, Waiting
    <3> QED BY <1>2, <2>1, <2>3, <3>1, StaysOnce
  <2> QED BY <2>2, <2>3
<1> QED BY <1>2, <1>3, PlacedEach DEF Placed, PlacedInv

\* The dispatcher hands its message to a goroutine of its own,
LEMMA StartSlashPlaces == ASSUME PlacedInv, StartSlash PROVE Placed'
<1>0. disp.pc \notin {"select", "stopped", "notice"}
  BY DEF StartSlash
<1>1. PICK m \in Message : m = disp.msg /\ m.id \in MsgId /\ At(m.id, "disp", 0)
  BY <1>0, DispatchedAt
<1>2. /\ disp' = Waiting /\ slashRuns' = slashRuns \cup {m}
      /\ UNCHANGED <<inbox, queue, worker, arrived, fate>>
  BY <1>1 DEF StartSlash, DispDone, userVars
<1>3. \A k, y : At(m.id, k, y) <=> k = "disp" /\ y = 0
  BY <1>1, OnlyThere DEF PlacedInv, Placed
<1>4. ASSUME NEW x \in MsgId PROVE OncePlaced(x)'
  <2>1. OncePlaced(x)
    BY DEF PlacedInv, Placed
  <2>2. CASE x = m.id
    <3>1. \A k, y : At(x, k, y)' <=> k = "slash" /\ y = 0
      BY <1>2, <1>3, <2>2 DEF At, Waiting
    <3>2. Goes(x, "disp", 0, "slash", 0)
      BY <1>1, <1>2, <2>2, <3>1 DEF Goes
    <3> QED BY <2>1, <3>2, GoesOnce
  <2>3. CASE x # m.id
    <3>1. Stays(x)
      BY <1>1, <1>2, <2>3 DEF Stays, At, Waiting
    <3> QED BY <2>1, <3>1, StaysOnce
  <2> QED BY <2>2, <2>3
<1>5. \A n \in slashRuns : n.id # m.id
  BY <1>3 DEF At
<1>6. \A n, o \in slashRuns' : n.id = o.id => n = o
  BY <1>2, <1>5 DEF Placed, PlacedInv
<1> QED BY <1>2, <1>4, <1>6, PlacedEach DEF PlacedInv

\* to a new worker, whose place nobody had,
LEMMA StartWorkerPlaces == ASSUME PlacedInv, StartWorker PROVE Placed'
<1>0. /\ disp.pc \notin {"select", "stopped", "notice"} /\ worker \in [MsgId -> WorkerRecord]
      /\ WorkersAreOlder
  BY DEF StartWorker, PlacedInv, Inv, TypeOK
<1>1. PICK m \in Message : m = disp.msg /\ m.id \in MsgId /\ m # NoMsg /\ At(m.id, "disp", 0)
  BY <1>0, DispatchedAt
<1>2. /\ disp' = Waiting /\ UNCHANGED <<inbox, queue, slashRuns, arrived, fate>>
      /\ worker'[m.id].msg = m /\ \A w \in MsgId \ {m.id} : worker'[w] = worker[w]
  <2>1. worker' = [worker EXCEPT ![m.id] = [pc |-> "check", user |-> m.user, msg |-> m, run |-> 0]]
    BY <1>1 DEF StartWorker
  <2> QED BY <1>0, <1>1, <2>1 DEF StartWorker, DispDone
<1>3. worker[m.id].msg = NoMsg
  <2>1. m.id \in Nat
    BY <1>1 DEF MsgId
  <2>2. worker[m.id].pc = "unborn"
    BY <1>0, <1>1, <2>1 DEF WorkersAreOlder
  <2> QED BY <1>1, <2>2 DEF PlacedInv, HandsFree
<1>4. \A k, y : At(m.id, k, y) <=> k = "disp" /\ y = 0
  BY <1>1, OnlyThere DEF PlacedInv, Placed
<1>5. ASSUME NEW x \in MsgId PROVE OncePlaced(x)'
  <2>1. OncePlaced(x)
    BY DEF PlacedInv, Placed
  <2>2. CASE x = m.id
    <3>1. ASSUME NEW k, NEW y PROVE At(x, k, y)' <=> k = "worker" /\ y = m.id
      BY <1>1, <1>2, <1>4, <2>2 DEF At, Waiting
    <3>2. Goes(x, "disp", 0, "worker", m.id)
      BY <1>1, <1>2, <2>2, <3>1 DEF Goes
    <3> QED BY <2>1, <3>2, GoesOnce
  <2>3. CASE x # m.id
    <3>1. ASSUME NEW k, NEW y PROVE At(x, k, y)' <=> At(x, k, y)
      BY <1>1, <1>2, <1>3, <2>3 DEF At, Waiting
    <3>2. Stays(x)
      BY <1>2, <3>1 DEF Stays
    <3> QED BY <2>1, <3>2, StaysOnce
  <2> QED BY <2>2, <2>3
<1> QED BY <1>2, <1>5, PlacedEach DEF Placed, PlacedInv

\* or to the queue, which may give up its oldest.
LEMMA EnqueuePlaces == ASSUME PlacedInv, Enqueue PROVE Placed'
<1>0. /\ disp.pc \notin {"select", "stopped", "notice"} /\ queue \in [Users -> Seq(Message)]
      /\ fate \in [MsgId -> Fate]
  BY DEF Enqueue, PlacedInv, Inv, TypeOK
<1>1. PICK m \in Message : m = disp.msg /\ m.id \in MsgId /\ m.user \in Users /\ At(m.id, "disp", 0)
  BY <1>0, DispatchedAt
<1> DEFINE q == queue[m.user]
<1>2. /\ disp' = [pc |-> "notice", msg |-> m] /\ UNCHANGED <<inbox, worker, slashRuns, arrived>>
      /\ queue'[m.user] = AppendBounded(q, m) /\ \A u \in Users \ {m.user} : queue'[u] = queue[u]
      /\ \A x \in MsgId : fate'[x] = IF x \in Overflow(q) THEN "overflow" ELSE fate[x]
  BY <1>0, <1>1 DEF Enqueue
<1>3. \A k, y : At(m.id, k, y) <=> k = "disp" /\ y = 0
  BY <1>1, OnlyThere DEF PlacedInv, Placed
<1>4. q \in Seq(Message) /\ \A i, j \in 1 .. Len(q) : i < j => q[i].id < q[j].id
  BY <1>0, <1>1 DEF PlacedInv, UserLine
<1>5. /\ Overflow(q) \subseteq IdsIn(q)
      /\ IdsIn(AppendBounded(q, m)) = (IdsIn(q) \ Overflow(q)) \cup {m.id}
  <2> HIDE DEF q
  <2>1. CASE Len(q) < MaxQueuedPerUser
    BY <1>1, <1>4, <2>1, AppendIds DEF AppendBounded, Overflow
  <2>2. CASE ~(Len(q) < MaxQueuedPerUser)
    <3>1. q # <<>> /\ Len(q) \in Nat /\ Len(q) # 0
      BY <1>4, <2>2, ConstantsAssumption, EmptySeq
    <3>2. Tail(q) \in Seq(Message) /\ Head(q) = q[1] /\ 1 \in 1 .. Len(q)
      BY <1>4, <3>1, HeadTailProperties
    <3>3. IdsIn(Append(Tail(q), m)) = (IdsIn(q) \ {Head(q).id}) \cup {m.id}
      BY <1>1, <1>4, <3>1, <3>2, AppendIds, TailIds
    <3>4. AppendBounded(q, m) = Append(Tail(q), m)
      BY <1>1, <1>4, <2>2, DropsOldest
    <3>5. Head(q).id \in IdsIn(q)
      BY <3>2 DEF IdsIn
    <3> QED BY <2>2, <3>3, <3>4, <3>5 DEF Overflow
  <2> QED BY <2>1, <2>2
<1> HIDE DEF q
<1>6. q = queue[m.user]
  BY DEF q
<1>7. m.id \notin Overflow(q)
  BY <1>1, <1>3, <1>5, <1>6 DEF At
<1>8. ASSUME NEW x \in MsgId PROVE OncePlaced(x)' /\ (fate'[x] = fate[x] \/ x <= arrived)
  <2>1. OncePlaced(x)
    BY DEF PlacedInv, Placed
  <2>2. CASE x = m.id
    <3>1. ASSUME NEW k, NEW y PROVE At(x, k, y)' <=> k = "queue" /\ y = m.user
      BY <1>1, <1>2, <1>3, <1>5, <1>6, <2>2, SMTT(60) DEF At
    <3>2. Goes(x, "disp", 0, "queue", m.user)
      BY <1>1, <1>2, <1>7, <2>2, <3>1 DEF Goes
    <3> QED BY <1>2, <1>7, <2>1, <2>2, <3>2, GoesOnce
  <2>3. CASE x # m.id /\ x \in Overflow(q)
    <3>1. At(x, "queue", m.user)
      BY <1>1, <1>5, <1>6, <2>3 DEF At
    <3>2. (\A k, y : At(x, k, y) <=> k = "queue" /\ y = m.user) /\ x <= arrived
      BY <2>1, <3>1, OnlyThere
    <3>3. ASSUME NEW k, NEW y PROVE ~At(x, k, y)'
      BY <1>1, <1>2, <1>5, <2>3, <3>2 DEF At
    <3>4. Settles(x)
      BY <1>2, <2>3, <3>3 DEF Settles
    <3> QED BY <3>2, <3>4, SettlesOnce
  <2>4. CASE x # m.id /\ x \notin Overflow(q)
    <3>1. ASSUME NEW k, NEW y PROVE At(x, k, y)' <=> At(x, k, y)
      BY <1>1, <1>2, <1>5, <1>6, <2>4 DEF At
    <3>2. Stays(x)
      BY <1>2, <2>4, <3>1 DEF Stays
    <3> QED BY <1>2, <2>1, <2>4, <3>2, StaysOnce
  <2> QED BY <2>2, <2>3, <2>4
<1> QED BY <1>2, <1>8, PlacedEach DEF Placed, PlacedInv

\* A busy slash command is handled.
LEMMA SlashReturnsPlaces ==
  ASSUME PlacedInv, NEW m \in slashRuns, SlashReturns(m)
  PROVE  Placed'
<1>0. slashRuns \subseteq Message /\ fate \in [MsgId -> Fate]
  BY DEF PlacedInv, Inv, TypeOK
<1>1. m.id \in MsgId /\ At(m.id, "slash", 0)
  BY <1>0, MessageFields DEF At
<1>2. /\ slashRuns' = slashRuns \ {m} /\ UNCHANGED <<disp, inbox, queue, worker, arrived>>
      /\ fate'[m.id] = "handled" /\ \A x \in MsgId \ {m.id} : fate'[x] = fate[x]
  BY <1>0, <1>1 DEF SlashReturns, userVars
<1>3. \A n \in slashRuns \ {m} : n.id # m.id
  BY DEF PlacedInv, Placed
<1>4. ASSUME NEW x \in MsgId PROVE OncePlaced(x)' /\ (fate'[x] = fate[x] \/ x <= arrived)
  <2>1. OncePlaced(x)
    BY DEF PlacedInv, Placed
  <2>2. CASE x = m.id
    <3>1. (\A k, y : At(x, k, y) <=> k = "slash" /\ y = 0) /\ x <= arrived
      BY <1>1, <2>1, <2>2, OnlyThere
    <3>2. ASSUME NEW k, NEW y PROVE ~At(x, k, y)'
      BY <1>2, <1>3, <2>2, <3>1 DEF At
    <3>3. Settles(x)
      BY <1>2, <2>2, <3>2 DEF Settles
    <3> QED BY <3>1, <3>3, SettlesOnce
  <2>3. CASE x # m.id
    <3>1. ASSUME NEW k, NEW y PROVE At(x, k, y)' <=> At(x, k, y)
      BY <1>2, <2>3 DEF At
    <3>2. Stays(x)
      BY <1>2, <2>3, <3>1 DEF Stays
    <3> QED BY <1>2, <2>1, <2>3, <3>2, StaysOnce
  <2> QED BY <2>2, <2>3
<1> QED BY <1>2, <1>4, PlacedEach DEF Placed, PlacedInv

\* A worker ends with the message it holds.
LEMMA WorkerDonePlaces ==
  ASSUME PlacedInv, NEW w \in MsgId, HandleReturns(w) \/ HandlePanics(w)
  PROVE  Placed'
<1>0. worker \in [MsgId -> WorkerRecord] /\ fate \in [MsgId -> Fate] /\ WorkerHolds
  BY DEF PlacedInv, Inv, TypeOK
<1>1. PICK m \in Message : m = worker[w].msg /\ m.id \in MsgId /\ m # NoMsg
  BY <1>0, MessageFields DEF HandleReturns, HandlePanics, WorkerHolds
<1>2. /\ worker'[w].msg = NoMsg /\ \A v \in MsgId \ {w} : worker'[v] = worker[v]
      /\ UNCHANGED <<disp, inbox, queue, slashRuns, arrived>>
      /\ fate'[m.id] # "none" /\ \A x \in MsgId \ {m.id} : fate'[x] = fate[x]
  BY <1>0, <1>1 DEF HandleReturns, HandlePanics, WorkerRecord, dispVars
<1>3. At(m.id, "worker", w)
  BY <1>1 DEF At
<1>4. ASSUME NEW x \in MsgId PROVE OncePlaced(x)' /\ (fate'[x] = fate[x] \/ x <= arrived)
  <2>1. OncePlaced(x)
    BY DEF PlacedInv, Placed
  <2>2. CASE x = m.id
    <3>1. (\A k, y : At(x, k, y) <=> k = "worker" /\ y = w) /\ x <= arrived
      BY <1>3, <2>1, <2>2, OnlyThere
    <3>2. ASSUME NEW k, NEW y PROVE ~At(x, k, y)'
      BY <1>2, <2>2, <3>1 DEF At
    <3>3. Settles(x)
      BY <1>2, <2>2, <3>2 DEF Settles
    <3> QED BY <3>1, <3>3, SettlesOnce
  <2>3. CASE x # m.id
    <3>1. ASSUME NEW k, NEW y PROVE At(x, k, y)' <=> At(x, k, y)
      BY <1>1, <1>2, <2>3 DEF At
    <3>2. Stays(x)
      BY <1>2, <2>3, <3>1 DEF Stays
    <3> QED BY <1>2, <2>1, <2>3, <3>2, StaysOnce
  <2> QED BY <2>2, <2>3
<1> QED BY <1>2, <1>4, PlacedEach DEF Placed, PlacedInv

\* clearUser gives up the worker's message and the queue.
LEMMA WorkerClearsPlaces ==
  ASSUME PlacedInv, NEW w \in MsgId, GiveUp(w) \/ Recover(w)
  PROVE  Placed'
<1>0. /\ worker \in [MsgId -> WorkerRecord] /\ fate \in [MsgId -> Fate] /\ WorkerHolds
      /\ queue \in [Users -> Seq(Message)]
  BY DEF PlacedInv, Inv, TypeOK
<1>1. PICK u \in Users : u = worker[w].user
  BY <1>0 DEF GiveUp, Recover, WorkerHolds, Live
<1> DEFINE gone == IdsIn(queue[u]) \cup (IF worker[w].msg = NoMsg THEN {} ELSE {worker[w].msg.id})
<1>2. /\ worker'[w].msg = NoMsg /\ \A v \in MsgId \ {w} : worker'[v] = worker[v]
      /\ queue'[u] = <<>> /\ \A v \in Users \ {u} : queue'[v] = queue[v]
      /\ UNCHANGED <<disp, inbox, slashRuns, arrived>>
  BY <1>0, <1>1 DEF GiveUp, Recover, ClearUser, WorkerFinished, WorkerRecord, dispVars
<1>3. \A x \in MsgId : fate'[x] = IF x \in gone THEN "cleared" ELSE fate[x]
  <2>1. CASE GiveUp(w)
    <3>1. worker[w].msg \in Message /\ worker[w].msg # NoMsg
      BY <1>0, <2>1, MessageFields DEF GiveUp, WorkerHolds
    <3> QED BY <1>1, <2>1, <3>1 DEF GiveUp, QueuedIds, IdsIn
  <2>2. CASE Recover(w)
    <3>1. worker[w].msg = NoMsg
      BY <2>2 DEF Recover, PlacedInv, HandsFree
    <3> QED BY <1>1, <2>2, <3>1 DEF Recover, QueuedIds, IdsIn
  <2> QED BY <2>1, <2>2
<1>4. \A x : x \in gone <=> At(x, "queue", u) \/ At(x, "worker", w)
  BY <1>1 DEF At
<1>5. \A x, k, y : At(x, k, y)' <=> /\ At(x, k, y)
                                    /\ ~(k = "queue" /\ y = u) /\ ~(k = "worker" /\ y = w)
  <2> SUFFICES ASSUME NEW x, NEW k, NEW y
               PROVE  At(x, k, y)' <=> /\ At(x, k, y)
                                       /\ ~(k = "queue" /\ y = u) /\ ~(k = "worker" /\ y = w)
    OBVIOUS
  <2> HIDE DEF gone
  <2> QED BY <1>1, <1>2, EmptyIds DEF At
<1> HIDE DEF gone
<1>6. ASSUME NEW x \in MsgId PROVE OncePlaced(x)' /\ (fate'[x] = fate[x] \/ x <= arrived)
  <2>1. OncePlaced(x)
    BY DEF PlacedInv, Placed
  <2>2. CASE x \in gone
    <3>1. x <= arrived /\ \A k, y : At(x, k, y) => (k = "queue" /\ y = u) \/ (k = "worker" /\ y = w)
      BY <1>4, <2>1, <2>2 DEF OncePlaced
    <3>2. Settles(x)
      BY <1>3, <1>5, <2>2, <3>1 DEF Settles
    <3> QED BY <3>1, <3>2, SettlesOnce
  <2>3. CASE x \notin gone
    <3>1. Stays(x)
      BY <1>2, <1>3, <1>4, <1>5, <2>3 DEF Stays
    <3> QED BY <1>3, <2>1, <2>3, <3>1, StaysOnce
  <2> QED BY <2>2, <2>3
<1> QED BY <1>2, <1>6, PlacedEach DEF Placed, PlacedInv

\* The worker takes the first message of the queue.
LEMMA NextQueuedPlaces ==
  ASSUME PlacedInv, NEW w \in MsgId, NextQueued(w)
  PROVE  Placed'
<1>0. /\ worker \in [MsgId -> WorkerRecord] /\ WorkerHolds /\ queue \in [Users -> Seq(Message)]
      /\ worker[w].msg = NoMsg
  BY DEF PlacedInv, Inv, TypeOK, HandsFree, NextQueued
<1>1. PICK u \in Users : u = worker[w].user
  BY <1>0 DEF NextQueued, WorkerHolds, Live
<1>2. queue[u] \in Seq(Message) /\ queue[u] # <<>>
      /\ \A i, j \in 1 .. Len(queue[u]) : i < j => queue[u][i].id < queue[u][j].id
  BY <1>0, <1>1 DEF NextQueued, PlacedInv, UserLine
<1>3. PICK m \in Message : m = Head(queue[u]) /\ m.id \in MsgId /\ m # NoMsg
  BY <1>2, HeadTailProperties, MessageFields
<1>4. /\ worker'[w].msg = m /\ \A v \in MsgId \ {w} : worker'[v] = worker[v]
      /\ queue'[u] = Tail(queue[u]) /\ \A v \in Users \ {u} : queue'[v] = queue[v]
      /\ UNCHANGED <<disp, inbox, slashRuns, arrived, fate>>
  BY <1>0, <1>1, <1>3 DEF NextQueued, WorkerRecord, dispVars
<1>5. IdsIn(Tail(queue[u])) = IdsIn(queue[u]) \ {m.id}
  BY <1>2, <1>3, TailIds
<1>6. At(m.id, "queue", u)
  <2>1. m = queue[u][1] /\ 1 \in 1 .. Len(queue[u])
    BY <1>2, <1>3, HeadTailProperties, EmptySeq
  <2> QED BY <1>1, <2>1 DEF At, IdsIn
<1>7. \A k, y : At(m.id, k, y) <=> k = "queue" /\ y = u
  BY <1>3, <1>6, OnlyThere DEF PlacedInv, Placed
<1>8. ASSUME NEW x \in MsgId PROVE OncePlaced(x)'
  <2>1. OncePlaced(x)
    BY DEF PlacedInv, Placed
  <2>2. CASE x = m.id
    <3>1. ASSUME NEW k, NEW y PROVE At(x, k, y)' <=> k = "worker" /\ y = w
      BY <1>1, <1>3, <1>4, <1>5, <1>7, <2>2 DEF At
    <3>2. Goes(x, "queue", u, "worker", w)
      BY <1>4, <1>6, <2>2, <3>1 DEF Goes
    <3> QED BY <2>1, <3>2, GoesOnce
  <2>3. CASE x # m.id
    <3>1. ASSUME NEW k, NEW y PROVE At(x, k, y)' <=> At(x, k, y)
      BY <1>0, <1>1, <1>3, <1>4, <1>5, <2>3 DEF At
    <3>2. Stays(x)
      BY <1>4, <3>1 DEF Stays
    <3> QED BY <2>1, <3>2, StaysOnce
  <2> QED BY <2>2, <2>3
<1> QED BY <1>4, <1>8, PlacedEach DEF Placed, PlacedInv

\* No step loses a message or has it twice.
LEMMA PlacedStep == PlacedInv /\ Inv' /\ [Next]_vars => Placed'
<1> SUFFICES ASSUME PlacedInv, [Next]_vars PROVE Placed'
  OBVIOUS
<1>0. Placed /\ worker \in [MsgId -> WorkerRecord]
  BY DEF PlacedInv, Inv, TypeOK
<1>1. CASE UNCHANGED <<inbox, queue, slashRuns, arrived, fate, worker, disp>>
  BY <1>0, <1>1, PlacedStays DEF At
<1>2. CASE \/ Cancel \/ (\E u \in Users : CooldownEnds(u)) \/ UNCHANGED vars
           \/ \E m \in slashRuns : SlashPanics(m)
  BY <1>1, <1>2 DEF Cancel, CooldownEnds, SlashPanics, dispVars, userVars, vars
<1>3. CASE StopDispatching
  BY <1>0, <1>3, PlacedStays DEF StopDispatching, DispGoto, At, userVars, PlacedInv, Inv, TypeOK
<1>4. CASE CheckByTheWay \/ NotInjected \/ CheckBusySlash \/ QueueNotice
  <2>1. UNCHANGED <<inbox, queue, slashRuns, arrived, fate, worker>>
    BY <1>4 DEF CheckByTheWay, NotInjected, CheckBusySlash, QueueNotice, userVars
  <2>2. \A x : At(x, "disp", 0)' <=> At(x, "disp", 0)
    <3>1. disp \in [pc : DispPc, msg : Message \cup {NoMsg}]
      BY DEF PlacedInv, Inv, TypeOK
    <3> QED BY <1>4, <3>1 DEF At, CheckByTheWay, NotInjected, CheckBusySlash, QueueNotice,
           DispGoto, DispDone, Waiting
  <2> QED BY <1>0, <2>1, <2>2, PlacedStays
<1>5. CASE Arrive \/ Receive \/ Injected \/ DropSlash \/ StartSlash \/ StartWorker \/ Enqueue
  BY <1>5, ArrivePlaces, ReceivePlaces, DispatchedPlaces, StartSlashPlaces, StartWorkerPlaces,
     EnqueuePlaces
<1>6. CASE \E m \in slashRuns : SlashReturns(m)
  BY <1>6, SlashReturnsPlaces
<1>7. ASSUME NEW w \in MsgId, CheckContext(w) \/ BeginRun(w) \/ EndRun(w) \/ QueueEmpty(w)
      PROVE  Placed'
  <2>1. UNCHANGED <<inbox, queue, slashRuns, arrived, fate, disp>>
    BY <1>7 DEF CheckContext, BeginRun, EndRun, QueueEmpty, dispVars
  <2>2. \A v \in MsgId : worker'[v].msg = worker[v].msg
    <3>1. CASE QueueEmpty(w)
      <4>1. worker[w].msg = NoMsg
        BY <3>1 DEF QueueEmpty, PlacedInv, HandsFree
      <4>2. worker'[w].msg = NoMsg /\ \A v \in MsgId \ {w} : worker'[v] = worker[v]
        BY <1>0, <3>1 DEF QueueEmpty, WorkerFinished, WorkerRecord
      <4> QED BY <4>1, <4>2
    <3>2. CASE CheckContext(w) \/ BeginRun(w) \/ EndRun(w)
      BY <1>0, <3>2 DEF CheckContext, BeginRun, EndRun, WorkerGoto, WorkerRecord
    <3> QED BY <1>7, <3>1, <3>2
  <2> QED BY <1>0, <2>1, <2>2, PlacedStays DEF At
<1>8. ASSUME NEW w \in MsgId, Worker(w) PROVE Placed'
  BY <1>7, <1>8, WorkerDonePlaces, WorkerClearsPlaces, NextQueuedPlaces DEF Worker
<1> QED BY <1>2, <1>3, <1>4, <1>5, <1>6, <1>8 DEF Next, Dispatch

\* One place is one element of Places.
LEMMA PlacedCounts ==
  ASSUME PlacedInv, NEW x \in MsgId
  PROVE  Cardinality(Places(x)) = IF x <= arrived /\ fate[x] = "none" THEN 1 ELSE 0
<1> DEFINE in == {<<"inbox", i>> : i \in {j \in 1 .. Len(inbox) : inbox[j].id = x}}
           at == IF disp.msg # NoMsg /\ disp.pc # "notice" /\ disp.msg.id = x
                 THEN {<<"disp", 0>>} ELSE {}
           queued == {<<"queue", u>> : u \in {v \in Users : x \in QueuedIds(v)}}
           held == {<<"worker", w>> :
                      w \in {v \in MsgId : worker[v].msg # NoMsg /\ worker[v].msg.id = x}}
           slashed == {<<"slash", m.id>> : m \in {n \in slashRuns : n.id = x}}
<1>0. Places(x) = in \cup at \cup queued \cup held \cup slashed
  BY DEF Places
<1>1. OncePlaced(x)
  BY DEF PlacedInv, Placed
<1>2. /\ in # {} <=> At(x, "inbox", 0)
      /\ at # {} <=> At(x, "disp", 0)
      /\ slashed # {} <=> At(x, "slash", 0)
  BY DEF At, IdsIn
<1>3. /\ \A p \in queued : \E u \in Users : p = <<"queue", u>> /\ At(x, "queue", u)
      /\ \A u \in Users : At(x, "queue", u) => <<"queue", u>> \in queued
  BY DEF At, IdsIn, QueuedIds
<1>4. /\ \A p \in held : \E w \in MsgId : p = <<"worker", w>> /\ At(x, "worker", w)
      /\ \A w \in MsgId : At(x, "worker", w) => <<"worker", w>> \in held
  BY DEF At
<1>5. ASSUME NEW k, NEW y, At(x, k, y)
      PROVE  \/ k \in {"inbox", "disp", "slash"} /\ y = 0
             \/ k = "queue" /\ y \in Users
             \/ k = "worker" /\ y \in MsgId
  BY <1>5 DEF At
<1>6. \A p, q \in in : p = q
  <2>1. \A i, j \in 1 .. Len(inbox) : inbox[i].id = x /\ inbox[j].id = x => i = j
    <3>1. x \in Nat /\ Len(inbox) \in Nat /\ ChannelInOrder
      BY DEF PlacedInv, Inv, TypeOK, MsgId
    <3> QED BY <3>1 DEF ChannelInOrder
  <2> QED BY <2>1
<1>7. (\A p, q \in at : p = q) /\ (\A p, q \in slashed : p = q)
  OBVIOUS
<1> HIDE DEF in, at, queued, held, slashed
<1>8. CASE \E k, y : At(x, k, y)
  <2>1. PICK k, y : At(x, k, y)
    BY <1>8
  <2>2. \A l, z : At(x, l, z) => l = k /\ z = y
    BY <1>1, <2>1 DEF OncePlaced
  <2>3. \E p : Places(x) = {p}
    <3>1. CASE k = "inbox"
      <4>1. in # {} /\ at = {} /\ queued = {} /\ held = {} /\ slashed = {}
        BY <1>2, <1>3, <1>4, <1>5, <2>1, <2>2, <3>1
      <4> QED BY <1>0, <1>6, <4>1
    <3>2. CASE k = "disp"
      <4>1. in = {} /\ at # {} /\ queued = {} /\ held = {} /\ slashed = {}
        BY <1>2, <1>3, <1>4, <1>5, <2>1, <2>2, <3>2
      <4> QED BY <1>0, <1>7, <4>1
    <3>3. CASE k = "slash"
      <4>1. in = {} /\ at = {} /\ queued = {} /\ held = {} /\ slashed # {}
        BY <1>2, <1>3, <1>4, <1>5, <2>1, <2>2, <3>3
      <4> QED BY <1>0, <1>7, <4>1
    <3>4. CASE k = "queue"
      <4>1. in = {} /\ at = {} /\ held = {} /\ slashed = {}
        BY <1>2, <1>4, <2>2, <3>4
      <4>2. queued = {<<"queue", y>>}
        BY <1>3, <1>5, <2>1, <2>2, <3>4
      <4> QED BY <1>0, <4>1, <4>2
    <3>5. CASE k = "worker"
      <4>1. in = {} /\ at = {} /\ queued = {} /\ slashed = {}
        BY <1>2, <1>3, <2>2, <3>5
      <4>2. held = {<<"worker", y>>}
        BY <1>4, <1>5, <2>1, <2>2, <3>5
      <4> QED BY <1>0, <4>1, <4>2
    <3> QED BY <1>5, <2>1, <3>1, <3>2, <3>3, <3>4, <3>5
  <2>4. x <= arrived /\ fate[x] = "none"
    BY <1>1, <1>8 DEF OncePlaced
  <2> QED BY <2>3, <2>4, FS_Singleton
<1>9. CASE ~\E k, y : At(x, k, y)
  <2>1. Places(x) = {}
    BY <1>0, <1>2, <1>3, <1>4, <1>9
  <2>2. ~(x <= arrived /\ fate[x] = "none")
    BY <1>1, <1>9 DEF OncePlaced
  <2> QED BY <2>1, <2>2, FS_EmptySet
<1> QED BY <1>8, <1>9

\* A delivered message is in one place until something becomes of it, and then in none, from
\* the channel through dispatch, enqueue and nextQueued to the end of its turn: none is lost on
\* the way, and none is handled twice.
THEOREM NoneLost == Spec => []NoMessageLostOrDuplicated
<1>1. Init => QueueHeld /\ UserLine /\ HandsFree
  BY ConstantsAssumption, EmptySeq DEF Init, QueueHeld, UserLine, HandsFree, NotStarted
<1>2. Init => Placed
  <2> SUFFICES ASSUME Init PROVE Placed
    OBVIOUS
  <2>1. \A x, k, y : ~At(x, k, y)
    BY EmptyIds DEF Init, At, Waiting, NotStarted
  <2>2. \A x \in MsgId : arrived = 0 /\ ~(x <= 0) /\ fate[x] = "none"
    BY DEF Init, MsgId
  <2> QED BY <2>1, <2>2 DEF Init, Placed, OncePlaced
<1>3. PlacedInv => NoMessageLostOrDuplicated
  BY PlacedCounts DEF NoMessageLostOrDuplicated
<1>4. PlacedInv /\ Inv' /\ [Next]_vars => Placed'
  BY PlacedStep
<1>5. Init => InOrder
  BY InOrderStarts
<1>6. Inv /\ QueueHeld /\ InOrder => UserLine
  BY DEF InOrder
<1> QED
  BY <1>1, <1>2, <1>3, <1>4, <1>5, <1>6, Invariance, QueueHeldStep, HandsFreeStep, InOrderStep, PTL
     DEF Spec, PlacedInv
=============================================================================
