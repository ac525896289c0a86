----------------------------- MODULE Dispatcher -----------------------------
(***************************************************************************)
(* The message processor of cmd/server/main.go.  One goroutine takes the   *)
(* platform's messages one at a time and hands each to                     *)
(*   - the running agent turn (a "/btw" message of a busy user),           *)
(*   - a goroutine of its own (any other slash command of a busy user),    *)
(*   - or the user's worker: a goroutine started when the user is not in   *)
(*     flight, which drains the user's bounded queue and then goes away.   *)
(* Locks are held for one step: what the code reads under a lock and uses  *)
(* after releasing it is read in one action and used in a later one.       *)
(***************************************************************************)
EXTENDS Naturals, Sequences, FiniteSets

CONSTANTS
  Users,            \* the senders
  Kinds,            \* the kinds of content that occur (see Kind)
  MaxArrivals,      \* bound: messages the platform delivers in a behaviour
  MaxQueuedPerUser, \* maxQueuedPerUser, 10 in the code
  NoMsg             \* no message

\* What dispatch tells apart: plain text, "/upgrade", "/btw..." and every
\* other slash command.
Kind == {"text", "upgrade", "btw", "slash"}

MsgId == 1 .. MaxArrivals
Message == [id : MsgId, user : Users, kind : Kinds]

ASSUME ConstantsAssumption ==
  /\ Kinds \subseteq Kind
  /\ MaxArrivals \in Nat
  /\ MaxQueuedPerUser \in Nat \ {0}
  /\ NoMsg \notin Message

VARIABLES
  up,        \* the process runs (an unrecovered panic ends it)
  cancelled, \* the context of runBridge is cancelled
  arrived,   \* messages delivered so far; also the id of the last one
  inbox,     \* the platform's Messages() channel
  disp,      \* the dispatching goroutine: where it is, the message it holds
  inFlight,  \* inFlightUsers
  queue,     \* queuedMessages
  activeRun, \* activeRuns: the id of the user's run, 0 when there is none
  nextRun,   \* nextRunID
  noticed,   \* users whose lastQueueNotice is within the cooldown
  worker,    \* the goroutine started by `go p.handle`, by the message it got
  slashBusy, \* busySlashInFlight
  slashRuns, \* messages a goroutine of tryHandleBusySlashCommand handles
  fate,      \* what became of a message (history)
  lastBegun, \* the last message a worker began for the user (history)
  told       \* the messages a queue notice was sent for (history)

vars == <<up, cancelled, arrived, inbox, disp, inFlight, queue, activeRun,
          nextRun, noticed, worker, slashBusy, slashRuns, fate, lastBegun, told>>

\* What dispatch works on, and what the users' workers work on.
dispVars == <<disp, inbox, slashBusy, slashRuns>>
userVars == <<inFlight, queue, activeRun, nextRun, noticed, worker, lastBegun, told>>

DispPc == {"select", "btw", "inject", "slash", "claim", "enqueue", "notice", "stopped"}
WorkerPc == {"unborn", "check", "begin", "running", "ended", "next", "panicked", "done"}
Fate == {"none", "handled", "injected", "slashDropped", "overflow", "cleared", "panicked"}

\* A worker goroutine that has been started and has not returned.
Live(w) == worker[w].pc \notin {"unborn", "done"}
WorkersOf(u) == {w \in MsgId : Live(w) /\ worker[w].user = u}

Waiting == [pc |-> "select", msg |-> NoMsg]
NotStarted == [pc |-> "unborn", user |-> NoMsg, msg |-> NoMsg, run |-> 0]

Init ==
  /\ up = TRUE
  /\ cancelled = FALSE
  /\ arrived = 0
  /\ inbox = <<>>
  /\ disp = Waiting
  /\ inFlight = {}
  /\ queue = [u \in Users |-> <<>>]
  /\ activeRun = [u \in Users |-> 0]
  /\ nextRun = 0
  /\ noticed = {}
  /\ worker = [w \in MsgId |-> NotStarted]
  /\ slashBusy = {}
  /\ slashRuns = {}
  /\ fate = [m \in MsgId |-> "none"]
  /\ lastBegun = [u \in Users |-> 0]
  /\ told = {}

---------------------------------------------------------------------------
(* The environment *)

\* The platform delivers a message of some user.
Arrive ==
  /\ up
  /\ arrived < MaxArrivals
  /\ arrived' = arrived + 1
  /\ \E u \in Users, k \in Kinds :
       inbox' = Append(inbox, [id |-> arrived + 1, user |-> u, kind |-> k])
  /\ UNCHANGED <<up, cancelled, disp, slashBusy, slashRuns, userVars, fate>>

\* shutdownGracefully, or the signal that leads to it, cancels the context.
Cancel ==
  /\ up
  /\ ~cancelled
  /\ cancelled' = TRUE
  /\ UNCHANGED <<up, arrived, dispVars, userVars, fate>>

\* The queue notice of a user becomes older than queueNoticeCooldown.
CooldownEnds(u) ==
  /\ up
  /\ u \in noticed
  /\ noticed' = noticed \ {u}
  /\ UNCHANGED <<up, cancelled, arrived, dispVars, inFlight, queue, activeRun,
                 nextRun, worker, lastBegun, told, fate>>

---------------------------------------------------------------------------
(* The dispatching goroutine: processMessages and dispatch *)

DispGoto(pc) == disp' = [disp EXCEPT !.pc = pc]
DispDone == disp' = Waiting

\* select takes a message; the other case, ctx.Done(), may be ready as well,
\* and then either is chosen.
Receive ==
  /\ up
  /\ disp.pc = "select"
  /\ inbox # <<>>
  /\ inbox' = Tail(inbox)
  /\ disp' = [pc |-> "btw", msg |-> Head(inbox)]
  /\ UNCHANGED <<up, cancelled, arrived, slashBusy, slashRuns, userVars, fate>>

StopDispatching ==
  /\ up
  /\ disp.pc = "select"
  /\ cancelled
  /\ DispGoto("stopped")
  /\ UNCHANGED <<up, cancelled, arrived, inbox, slashBusy, slashRuns, userVars, fate>>

\* tryInjectByTheWay up to the unlock.
CheckByTheWay ==
  /\ up
  /\ disp.pc = "btw"
  /\ DispGoto(IF disp.msg.kind = "btw" /\ disp.msg.user \in inFlight
              THEN "inject" ELSE "slash")
  /\ UNCHANGED <<up, cancelled, arrived, inbox, slashBusy, slashRuns, userVars, fate>>

\* Mutant of Injected: dispatch goes on although the message was injected.
InjectedNotReported ==
  /\ up
  /\ disp.pc = "inject"
  /\ fate' = [fate EXCEPT ![disp.msg.id] = "injected"]
  /\ DispGoto("slash")
  /\ UNCHANGED <<up, cancelled, arrived, inbox, slashBusy, slashRuns, userVars>>

\* InjectByTheWay has put the message into the user's turn, or answered with
\* the reason it could not.
Injected ==
  /\ up
  /\ disp.pc = "inject"
  /\ fate' = [fate EXCEPT ![disp.msg.id] = "injected"]
  /\ DispDone
  /\ UNCHANGED <<up, cancelled, arrived, inbox, slashBusy, slashRuns, userVars>>

\* InjectByTheWay does not take the message ("/btwx" is not its command).
NotInjected ==
  /\ up
  /\ disp.pc = "inject"
  /\ DispGoto("slash")
  /\ UNCHANGED <<up, cancelled, arrived, inbox, slashBusy, slashRuns, userVars, fate>>

\* tryHandleBusySlashCommand up to the unlock of mu.
CheckBusySlash ==
  /\ up
  /\ disp.pc = "slash"
  /\ DispGoto(IF disp.msg.kind = "slash" /\ disp.msg.user \in inFlight
              THEN "claim" ELSE "enqueue")
  /\ UNCHANGED <<up, cancelled, arrived, inbox, slashBusy, slashRuns, userVars, fate>>

\* The rest of tryHandleBusySlashCommand: one goroutine per user, and a
\* command that finds one running is dropped.
DropSlash ==
  /\ up
  /\ disp.pc = "claim"
  /\ disp.msg.user \in slashBusy
  /\ fate' = [fate EXCEPT ![disp.msg.id] = "slashDropped"]
  /\ DispDone
  /\ UNCHANGED <<up, cancelled, arrived, inbox, slashBusy, slashRuns, userVars>>

\* Mutant of StartSlash: the flag is not looked at.
StartSlashUnchecked ==
  /\ up
  /\ disp.pc = "claim"
  /\ slashBusy' = slashBusy \cup {disp.msg.user}
  /\ slashRuns' = slashRuns \cup {disp.msg}
  /\ DispDone
  /\ UNCHANGED <<up, cancelled, arrived, inbox, userVars, fate>>

StartSlash ==
  /\ up
  /\ disp.pc = "claim"
  /\ disp.msg.user \notin slashBusy
  /\ slashBusy' = slashBusy \cup {disp.msg.user}
  /\ slashRuns' = slashRuns \cup {disp.msg}
  /\ DispDone
  /\ UNCHANGED <<up, cancelled, arrived, inbox, userVars, fate>>

\* enqueue for a user who is not in flight, and `go p.handle`.
StartWorker ==
  /\ up
  /\ disp.pc = "enqueue"
  /\ disp.msg.user \notin inFlight
  /\ inFlight' = inFlight \cup {disp.msg.user}
  /\ worker' = [worker EXCEPT ![disp.msg.id] =
                  [pc |-> "check", user |-> disp.msg.user, msg |-> disp.msg, run |-> 0]]
  /\ DispDone
  /\ UNCHANGED <<up, cancelled, arrived, inbox, slashBusy, slashRuns, queue,
                 activeRun, nextRun, noticed, lastBegun, told, fate>>

\* Mutant of AppendBounded: one message too many.
AppendOneTooMany(q, m) ==
  IF Len(q) <= MaxQueuedPerUser THEN Append(q, m) ELSE Tail(Append(q, m))

\* enqueue for a user in flight.  A full queue loses its oldest message.
AppendBounded(q, m) ==
  IF Len(q) < MaxQueuedPerUser THEN Append(q, m) ELSE Tail(Append(q, m))

Overflow(q) == IF Len(q) < MaxQueuedPerUser THEN {} ELSE {Head(q).id}

Enqueue ==
  /\ up
  /\ disp.pc = "enqueue"
  /\ disp.msg.user \in inFlight
  /\ LET u == disp.msg.user IN
       /\ queue' = [queue EXCEPT ![u] = AppendBounded(queue[u], disp.msg)]
       /\ fate' = [m \in MsgId |->
                     IF m \in Overflow(queue[u]) THEN "overflow" ELSE fate[m]]
       /\ disp' = [pc |-> "notice", msg |-> disp.msg]
  /\ UNCHANGED <<up, cancelled, arrived, inbox, slashBusy, slashRuns, inFlight,
                 activeRun, nextRun, noticed, worker, lastBegun, told>>

\* Mutant of QueueNotice: the notice is booked under the message's id.
QueueNoticeByMessage ==
  /\ up
  /\ disp.pc = "notice"
  /\ noticed' = noticed \cup {disp.msg.id}
  /\ DispDone
  /\ UNCHANGED <<up, cancelled, arrived, inbox, slashBusy, slashRuns, inFlight,
                 queue, activeRun, nextRun, worker, lastBegun, told, fate>>

\* sendQueueNotice: it does not look whether the user is still in flight.
QueueNotice ==
  /\ up
  /\ disp.pc = "notice"
  /\ noticed' = noticed \cup {disp.msg.user}
  /\ told' = IF disp.msg.user \in noticed THEN told ELSE told \cup {disp.msg.id}
  /\ DispDone
  /\ UNCHANGED <<up, cancelled, arrived, inbox, slashBusy, slashRuns, inFlight,
                 queue, activeRun, nextRun, worker, lastBegun, fate>>

---------------------------------------------------------------------------
(* The goroutine of a busy slash command *)

\* HandleMessage returns and the deferred function clears the flag.
SlashReturns(m) ==
  /\ up
  /\ m \in slashRuns
  /\ slashRuns' = slashRuns \ {m}
  /\ slashBusy' = slashBusy \ {m.user}
  /\ fate' = [fate EXCEPT ![m.id] = "handled"]
  /\ UNCHANGED <<up, cancelled, arrived, inbox, disp, userVars>>

\* HandleMessage panics: nothing in this goroutine recovers.
SlashPanics(m) ==
  /\ up
  /\ m \in slashRuns
  /\ up' = FALSE
  /\ UNCHANGED <<cancelled, arrived, dispVars, userVars, fate>>

---------------------------------------------------------------------------
(* A user's worker: handle *)

WorkerGoto(w, pc) == worker' = [worker EXCEPT ![w].pc = pc]
WorkerFinished(w) == worker' = [worker EXCEPT ![w].pc = "done", ![w].msg = NoMsg]

QueuedIds(u) == {queue[u][i].id : i \in 1 .. Len(queue[u])}

\* Mutant of ClearUser: the user stays in flight.
ClearUserKeepsInFlight(w) ==
  LET u == worker[w].user IN
    /\ activeRun' = [activeRun EXCEPT ![u] = 0]
    /\ queue' = [queue EXCEPT ![u] = <<>>]
    /\ noticed' = noticed \ {u}
    /\ WorkerFinished(w)
    /\ UNCHANGED <<up, cancelled, arrived, dispVars, inFlight, nextRun, lastBegun, told>>

\* clearUser, called by worker w as the last thing it does.
ClearUser(w) ==
  LET u == worker[w].user IN
    /\ inFlight' = inFlight \ {u}
    /\ activeRun' = [activeRun EXCEPT ![u] = 0]
    /\ queue' = [queue EXCEPT ![u] = <<>>]
    /\ noticed' = noticed \ {u}
    /\ WorkerFinished(w)
    /\ UNCHANGED <<up, cancelled, arrived, dispVars, nextRun, lastBegun, told>>

\* The top of the loop.
CheckContext(w) ==
  /\ up
  /\ worker[w].pc = "check"
  /\ ~cancelled
  /\ WorkerGoto(w, "begin")
  /\ UNCHANGED <<up, cancelled, arrived, dispVars, inFlight, queue, activeRun,
                 nextRun, noticed, lastBegun, told, fate>>

GiveUp(w) ==
  /\ up
  /\ worker[w].pc = "check"
  /\ cancelled
  /\ ClearUser(w)
  /\ fate' = [m \in MsgId |->
                IF m = worker[w].msg.id \/ m \in QueuedIds(worker[w].user)
                THEN "cleared" ELSE fate[m]]

BeginRun(w) ==
  LET u == worker[w].user IN
    /\ up
    /\ worker[w].pc = "begin"
    /\ nextRun' = nextRun + 1
    /\ activeRun' = [activeRun EXCEPT ![u] = nextRun + 1]
    /\ worker' = [worker EXCEPT ![w].pc = "running", ![w].run = nextRun + 1]
    /\ lastBegun' = [lastBegun EXCEPT ![u] = worker[w].msg.id]
    /\ UNCHANGED <<up, cancelled, arrived, dispVars, inFlight, queue, noticed, fate, told>>

\* The acknowledgement is sent and HandleMessage has returned, with an error
\* or without; both ways lead to cancel() and endRun.
HandleReturns(w) ==
  /\ up
  /\ worker[w].pc = "running"
  /\ fate' = [fate EXCEPT ![worker[w].msg.id] = "handled"]
  /\ worker' = [worker EXCEPT ![w].pc = "ended", ![w].msg = NoMsg]
  /\ UNCHANGED <<up, cancelled, arrived, dispVars, inFlight, queue, activeRun,
                 nextRun, noticed, lastBegun, told>>

\* The acknowledgement or HandleMessage panics; the deferred function has not
\* run yet.
HandlePanics(w) ==
  /\ up
  /\ worker[w].pc = "running"
  /\ fate' = [fate EXCEPT ![worker[w].msg.id] = "panicked"]
  /\ worker' = [worker EXCEPT ![w].pc = "panicked", ![w].msg = NoMsg]
  /\ UNCHANGED <<up, cancelled, arrived, dispVars, inFlight, queue, activeRun,
                 nextRun, noticed, lastBegun, told>>

\* The deferred function: recover and clearUser.
Recover(w) ==
  /\ up
  /\ worker[w].pc = "panicked"
  /\ ClearUser(w)
  /\ fate' = [m \in MsgId |->
                IF m \in QueuedIds(worker[w].user) THEN "cleared" ELSE fate[m]]

\* Mutant of EndRun: the entry of the finished run stays.
EndRunKeepsEntry(w) ==
  /\ up
  /\ worker[w].pc = "ended"
  /\ WorkerGoto(w, "next")
  /\ UNCHANGED <<up, cancelled, arrived, dispVars, inFlight, queue, activeRun, nextRun,
                 noticed, lastBegun, told, fate>>

EndRun(w) ==
  LET u == worker[w].user IN
    /\ up
    /\ worker[w].pc = "ended"
    /\ activeRun' = [activeRun EXCEPT
                       ![u] = IF activeRun[u] = worker[w].run THEN 0 ELSE activeRun[u]]
    /\ WorkerGoto(w, "next")
    /\ UNCHANGED <<up, cancelled, arrived, dispVars, inFlight, queue, nextRun,
                   noticed, lastBegun, told, fate>>

\* Mutant of NextQueued: the newest message first.
NextQueuedLast(w) ==
  LET u == worker[w].user IN
    /\ up
    /\ worker[w].pc = "next"
    /\ queue[u] # <<>>
    /\ queue' = [queue EXCEPT ![u] = SubSeq(queue[u], 1, Len(queue[u]) - 1)]
    /\ worker' = [worker EXCEPT ![w].pc = "check", ![w].msg = queue[u][Len(queue[u])]]
    /\ UNCHANGED <<up, cancelled, arrived, dispVars, inFlight, activeRun, nextRun,
                   noticed, lastBegun, told, fate>>

\* nextQueued: an empty queue and the user's place in inFlightUsers are given
\* up in one critical section.
NextQueued(w) ==
  LET u == worker[w].user IN
    /\ up
    /\ worker[w].pc = "next"
    /\ queue[u] # <<>>
    /\ queue' = [queue EXCEPT ![u] = Tail(queue[u])]
    /\ worker' = [worker EXCEPT ![w].pc = "check", ![w].msg = Head(queue[u])]
    /\ UNCHANGED <<up, cancelled, arrived, dispVars, inFlight, activeRun, nextRun,
                   noticed, lastBegun, told, fate>>

QueueEmpty(w) ==
  LET u == worker[w].user IN
    /\ up
    /\ worker[w].pc = "next"
    /\ queue[u] = <<>>
    /\ inFlight' = inFlight \ {u}
    /\ activeRun' = [activeRun EXCEPT ![u] = 0]
    /\ noticed' = noticed \ {u}
    /\ WorkerFinished(w)
    /\ UNCHANGED <<up, cancelled, arrived, dispVars, queue, nextRun, lastBegun, told, fate>>

---------------------------------------------------------------------------

Dispatch ==
  \/ CheckByTheWay \/ Injected \/ NotInjected
  \/ CheckBusySlash \/ DropSlash \/ StartSlash
  \/ StartWorker \/ Enqueue \/ QueueNotice

Worker(w) ==
  \/ CheckContext(w) \/ GiveUp(w) \/ BeginRun(w) \/ HandleReturns(w) \/ HandlePanics(w)
  \/ Recover(w) \/ EndRun(w) \/ NextQueued(w) \/ QueueEmpty(w)

Next ==
  \/ Arrive \/ Cancel \/ \E u \in Users : CooldownEnds(u)
  \/ Receive \/ StopDispatching \/ Dispatch
  \/ \E m \in slashRuns : SlashReturns(m) \/ SlashPanics(m)
  \/ \E w \in MsgId : Worker(w)

Spec == Init /\ [][Next]_vars

\* The Go scheduler runs every goroutine that can run; select picks at random
\* among the ready cases, so a ready ctx.Done() is taken in the end; the agent
\* calls below InjectByTheWay and HandleMessage are assumed to return.
Fairness ==
  /\ WF_vars(Receive) /\ SF_vars(StopDispatching) /\ WF_vars(Dispatch)
  /\ \A w \in MsgId : WF_vars(Worker(w))
  /\ \A id \in MsgId :
       WF_vars(\E m \in slashRuns : m.id = id /\ SlashReturns(m))

FairSpec == Spec /\ Fairness

---------------------------------------------------------------------------
(* Properties *)

WorkerRecord ==
  [pc : WorkerPc, user : Users \cup {NoMsg}, msg : Message \cup {NoMsg}, run : Nat]

\* Every variable has its type.
TypeOK ==
  /\ up \in BOOLEAN
  /\ cancelled \in BOOLEAN
  /\ arrived \in 0 .. MaxArrivals
  /\ inbox \in Seq(Message)
  /\ disp \in [pc : DispPc, msg : Message \cup {NoMsg}]
  /\ inFlight \in SUBSET Users
  /\ queue \in [Users -> Seq(Message)]
  /\ activeRun \in [Users -> Nat]
  /\ nextRun \in Nat
  /\ noticed \in SUBSET Users
  /\ worker \in [MsgId -> WorkerRecord]
  /\ slashBusy \in SUBSET Users
  /\ slashRuns \in SUBSET Message
  /\ fate \in [MsgId -> Fate]
  /\ lastBegun \in [Users -> Nat]
  /\ told \in SUBSET MsgId

\* Two worker goroutines never serve one user, and a user is in inFlightUsers
\* exactly while one does: otherwise two turns of a user would overlap, or the
\* user's messages would queue behind nobody for ever.
OneWorkerPerUser ==
  \A u \in Users :
    /\ \A v, w \in WorkersOf(u) : v = w
    /\ u \in inFlight <=> WorkersOf(u) # {}

\* A message waits only behind a worker that will look at the queue again, and
\* at most maxQueuedPerUser messages of a user wait.
QueueHasWorker ==
  \A u \in Users :
    /\ queue[u] # <<>> => WorkersOf(u) # {}
    /\ Len(queue[u]) <= MaxQueuedPerUser

\* The places where message id is held.
Places(id) ==
  {<<"inbox", i>> : i \in {j \in 1 .. Len(inbox) : inbox[j].id = id}}
  \cup (IF disp.msg # NoMsg /\ disp.pc # "notice" /\ disp.msg.id = id
        THEN {<<"disp", 0>>} ELSE {})
  \cup {<<"queue", u>> : u \in {v \in Users : id \in QueuedIds(v)}}
  \cup {<<"worker", w>> : w \in {v \in MsgId : worker[v].msg # NoMsg /\ worker[v].msg.id = id}}
  \cup {<<"slash", m.id>> : m \in {n \in slashRuns : n.id = id}}

\* A delivered message is in exactly one place until something becomes of it,
\* and then in none: it is neither forgotten on the way nor handled twice.
NoMessageLostOrDuplicated ==
  \A id \in MsgId :
    Cardinality(Places(id)) = IF id <= arrived /\ fate[id] = "none" THEN 1 ELSE 0

\* At most one goroutine runs a slash command beside a user's worker, and the
\* flag in busySlashInFlight says exactly whether one does.
SlashSerialised ==
  \A u \in Users :
    Cardinality({m \in slashRuns : m.user = u}) = IF u \in slashBusy THEN 1 ELSE 0

\* The run registered for a user is the one its worker is in: endRun and
\* clearUser never leave the entry of a finished run behind, nor remove the
\* entry of a newer one.
RegisteredRunIsCurrent ==
  \A u \in Users :
    IF \E w \in WorkersOf(u) : worker[w].pc \in {"running", "ended", "panicked"}
    THEN \E w \in WorkersOf(u) : activeRun[u] = worker[w].run
    ELSE activeRun[u] = 0

\* The worker of a user begins messages in the order they arrived, across
\* overflow, panics and the hand-over to a new worker.
ServedInOrder ==
  [][\A u \in Users : lastBegun'[u] # lastBegun[u] => lastBegun'[u] > lastBegun[u]]_vars

\* A message the dispatcher has taken comes to an end, as long as the process
\* lives: no queue is left behind by a worker that went away or panicked.
TakenIsSettled ==
  \A id \in MsgId :
    (\E u \in Users : id \in QueuedIds(u)) \/ (disp.msg # NoMsg /\ disp.msg.id = id)
      ~> fate[id] # "none" \/ ~up

\* After the context is cancelled dispatching ends and every worker goes away.
ShutdownDrains ==
  cancelled ~> ~up \/ (disp.pc = "stopped" /\ inFlight = {} /\ \A w \in MsgId : ~Live(w))

\* What the users see of the processor: the abstract queue of UserQueue.
Serving(u) ==
  IF \E w \in WorkersOf(u) : worker[w].msg # NoMsg
  THEN worker[CHOOSE w \in WorkersOf(u) : worker[w].msg # NoMsg].msg
  ELSE NoMsg

UQ == INSTANCE UserQueue WITH
        Items <- Message, Capacity <- MaxQueuedPerUser, Nothing <- NoMsg,
        open <- inFlight, serving <- [u \in Users |-> Serving(u)], line <- queue

\* The processor with all its goroutines implements the abstract queue: one
\* message at a time, in order, no line without an open server.
ImplementsUserQueue == UQ!Spec

\* The notice a user gets says that the message "has joined the queue and will
\* be processed once the current reply is finished" (messageQueuedHint).
QueuedIsProcessed ==
  \A id \in told : fate[id] # "overflow"
=============================================================================
