---------------------------- MODULE InteractiveTurn ----------------------------
(***************************************************************************)
(* The turns of one session on its agent process (router_interactive.go,   *)
(* router_bytheway.go): a turn quiesces the event channel, sends its       *)
(* input, drains the channel up to a done, forwards requests for approval  *)
(* and questions to the user, whose answers are turns of their own, and    *)
(* starts the process anew when it is gone or silent.                      *)
(*                                                                         *)
(* The turns of a user come one after the other (Dispatcher); /btw writes  *)
(* to the process beside them.  Look-up, start and registration of a       *)
(* process are one step here (LiveSessions takes them apart).  Events that *)
(* only report an id are left out: they count for nothing in a turn.       *)
(***************************************************************************)
EXTENDS Naturals, Sequences

CONSTANTS
  Msgs,   \* bound: messages of the user, 1 .. Msgs
  Procs,  \* bound: processes started
  Loads   \* what may happen: one of these loads does

MsgKinds == {"text", "allow", "allowAll", "deny", "btw"}

\* The kinds of messages used, the values super_auto_approve takes, and bounds: messages,
\* questions the agent asks at once, turns whose context is cancelled, /btw written beside
\* a turn, processes that end by themselves.
Load == [kinds : SUBSET MsgKinds, supers : SUBSET BOOLEAN, msgs : 0 .. Msgs, questions : Nat,
         cancels : Nat, injects : Nat, exits : Nat]

ConstantsAssumption ==
  /\ Msgs \in Nat /\ Procs \in Nat
  /\ Loads \subseteq Load

Msg == 1 .. Msgs
Proc == 1 .. Procs

VARIABLES
  load,     \* the load, which stays
  reg,      \* liveSessions of the session: the registered process, or 0
  proc,     \* the processes, each with its interactiveSessionState
  turn,     \* the turn under way
  super,    \* super_auto_approve of the session
  next,     \* messages taken so far: a message is the input of its number
  btw,      \* the process a /btw has looked up, or 0
  left,     \* what is left of Cancels, Injects and Exits
  grants,   \* the last request allowed, and on whose word (history)
  told      \* the user was told that no approval will be asked for (history)

vars == <<load, reg, proc, turn, super, next, btw, left, grants, told>>

\* Events carry the input they are about.
Event == [t : {"text", "approval", "question", "done", "error", "refused"}, k : Msg]

\* The process: what it is given to do, what it does, the request it waits
\* for, and the input whose second done it may still send.  Its state in the
\* router: awaitingApproval, allowAll, the questions still to be answered.
NewProc == [st |-> "running", chan |-> <<>>, todo |-> <<>>, cur |-> 0, said |-> FALSE,
            asked |-> FALSE, req |-> 0, tail |-> 0,
            awaiting |-> FALSE, allowAll |-> FALSE, questions |-> 0, prompted |-> 0]
NoProc == [NewProc EXCEPT !.st = "none"]

TurnPc == {"idle", "lookup", "question", "approval", "quiesce", "discard", "send", "drain",
           "leading", "tail", "restart"}

\* The turn: its message k, the process p it works on, whether its context is
\* cancelled ("off"), whether it has seen an event of an answer, may restart
\* the process, or has its message still to send; the input it waits for, and
\* how often it has given its message to a process (history).
NoTurn == [pc |-> "idle", k |-> 0, kind |-> "text", p |-> 0, off |-> FALSE, saw |-> FALSE,
           retry |-> FALSE, then |-> FALSE, for |-> 0, gives |-> 0]

Init ==
  /\ load \in Loads
  /\ reg = 0
  /\ proc = [p \in Proc |-> NoProc]
  /\ turn = NoTurn
  /\ super \in load.supers
  /\ next = 0
  /\ btw = 0
  /\ left = [cancels |-> load.cancels, injects |-> load.injects, exits |-> load.exits]
  /\ grants = [k |-> 0, by |-> "none"]
  /\ told = FALSE

Running(p) == p # 0 /\ proc[p].st = "running"
Ended(p) == proc[p].st # "running" /\ proc[p].chan = <<>>

---------------------------------------------------------------------------
(* The agent's process *)

ProcSteps(p) == UNCHANGED <<reg, turn, super, next, btw, left, grants, told>>
Emits(p, t, k, new) == proc' = [proc EXCEPT ![p] = [new EXCEPT !.chan = Append(@, [t |-> t, k |-> k])]]
AtWork(p) == Running(p) /\ proc[p].cur # 0 /\ proc[p].req = 0

TakeInput(p) ==
  /\ Running(p) /\ proc[p].cur = 0 /\ proc[p].todo # <<>>
  /\ proc' = [proc EXCEPT ![p].cur = Head(proc[p].todo), ![p].todo = Tail(@),
                          ![p].said = FALSE, ![p].asked = FALSE, ![p].tail = 0]
  /\ ProcSteps(p)

Says(p) ==
  /\ AtWork(p) /\ ~proc[p].said
  /\ Emits(p, "text", proc[p].cur, [proc[p] EXCEPT !.said = TRUE])
  /\ ProcSteps(p)

\* A request for approval, or questions: the process waits for the answer.
Asks(p, t) ==
  /\ AtWork(p) /\ ~proc[p].asked
  /\ t = "question" => load.questions > 0
  /\ Emits(p, t, proc[p].cur, [proc[p] EXCEPT !.asked = TRUE, !.req = proc[p].cur])
  /\ ProcSteps(p)

Finishes(p) ==
  /\ AtWork(p)
  /\ Emits(p, "done", proc[p].cur, [proc[p] EXCEPT !.cur = 0, !.tail = proc[p].cur])
  /\ ProcSteps(p)

\* The second done of an input, which comes late or not at all.
SecondDone(p) ==
  /\ Running(p) /\ proc[p].tail # 0
  /\ \/ Emits(p, "done", proc[p].tail, [proc[p] EXCEPT !.tail = 0])
     \/ proc' = [proc EXCEPT ![p].tail = 0]
  /\ ProcSteps(p)

\* An error, or the one that says that the agent refuses its own session.
Fails(p, t) ==
  /\ AtWork(p)
  /\ t = "refused" => ~proc[p].said /\ ~proc[p].asked
  /\ Emits(p, t, proc[p].cur, [proc[p] EXCEPT !.cur = 0])
  /\ ProcSteps(p)

\* A process that ends leaves the events in its channel, and its state in the router.
Ending(record, st) == [NewProc EXCEPT !.st = st, !.chan = record.chan, !.awaiting = record.awaiting,
                                      !.allowAll = record.allowAll, !.questions = record.questions,
                                      !.prompted = record.prompted]

Exit(p) ==
  /\ Running(p) /\ left.exits > 0
  /\ proc' = [proc EXCEPT ![p] = Ending(@, "exited")]
  /\ left' = [left EXCEPT !.exits = @ - 1]
  /\ UNCHANGED <<reg, turn, super, next, btw, grants, told>>

---------------------------------------------------------------------------
(* The registry, for this one session *)

ClosedProc(p) == IF Running(p) THEN Ending(proc[p], "closed") ELSE proc[p]

\* removeInteractiveSession, and the processes that are left.
Removed == IF reg = 0 THEN proc ELSE [proc EXCEPT ![reg] = ClosedProc(reg)]

\* The first process that has not been started.
Fresh(p) == p \in Proc /\ proc[p].st = "none" /\ \A q \in 1 .. p - 1 : proc[q].st # "none"

---------------------------------------------------------------------------
(* A turn begins: streamInteractiveAIMessage *)

Idle == NoTurn
At(pc) == [turn EXCEPT !.pc = pc]
Rest == UNCHANGED <<super, next, btw, left>>

\* A turn that ends with an error, and whatever process is registered with it.
Dies == turn' = Idle /\ reg' = 0 /\ proc' = Removed /\ UNCHANGED <<grants, told>> /\ Rest

\* A message of the user.
Receive(kind) ==
  /\ turn.pc = "idle" /\ next < load.msgs
  /\ next' = next + 1
  /\ turn' = [NoTurn EXCEPT !.pc = "lookup", !.k = next + 1, !.kind = kind, !.for = next + 1]
  /\ UNCHANGED <<reg, proc, super, btw, left, grants, told>>

\* /super on and /super off.
SetSuper(v) ==
  /\ v # super
  /\ super' = v
  /\ UNCHANGED <<reg, proc, turn, next, btw, left, grants, told>>

\* The context of the turn is cancelled: its waits notice, or take an event
\* that is there as well.
Cancel ==
  /\ turn.pc # "idle" /\ ~turn.off /\ left.cancels > 0
  /\ turn' = [turn EXCEPT !.off = TRUE]
  /\ left' = [left EXCEPT !.cancels = @ - 1]
  /\ UNCHANGED <<reg, proc, super, next, btw, grants, told>>

CancelSeen ==
  /\ turn.off /\ turn.pc \in {"drain", "leading", "tail"}
  /\ turn' = Idle
  /\ UNCHANGED <<reg, proc, grants, told>> /\ Rest

\* Mutant of Lookup: an answer to a question is taken for one to a request.
LookupNoQuestions ==
  /\ turn.pc = "lookup" /\ turn.kind # "btw" /\ reg # 0
  /\ proc' = [proc EXCEPT ![reg].allowAll = @ \/ super]
  /\ turn' = [turn EXCEPT !.p = reg, !.pc = IF proc[reg].awaiting THEN "approval" ELSE "quiesce"]
  /\ UNCHANGED <<reg, grants, told>> /\ Rest

\* The session has a process: what its state says decides what the message is.
Lookup ==
  /\ turn.pc = "lookup" /\ turn.kind # "btw" /\ reg # 0
  /\ proc' = [proc EXCEPT ![reg].allowAll = @ \/ super]
  /\ turn' = [turn EXCEPT !.p = reg,
                          !.pc = IF ~proc[reg].awaiting THEN "quiesce"
                                 ELSE IF proc[reg].questions > 0 THEN "question" ELSE "approval"]
  /\ UNCHANGED <<reg, grants, told>> /\ Rest

LookupStarts(q) ==
  /\ turn.pc = "lookup" /\ turn.kind # "btw" /\ reg = 0 /\ Fresh(q)
  /\ proc' = [proc EXCEPT ![q] = [NewProc EXCEPT !.allowAll = super]]
  /\ reg' = q
  /\ turn' = [turn EXCEPT !.p = q, !.pc = "discard"]
  /\ UNCHANGED <<grants, told>> /\ Rest

LookupFails ==
  /\ turn.pc = "lookup" /\ reg = 0
  /\ turn' = Idle
  /\ UNCHANGED <<reg, proc, grants, told>> /\ Rest

---------------------------------------------------------------------------
(* The message answers a question or a request *)

\* The state while n questions are to be answered.
Questioned(record, n) == [record EXCEPT !.questions = n, !.awaiting = n > 0]

\* handleQuestionReply: the answers are given to the agent with the last one.
\* When that fails, the questions are forgotten and the process stays.
AnswerQuestion ==
  LET p == turn.p
      r == proc[p]
      more == r.questions > 1 IN
    /\ turn.pc = "question"
    /\ proc' = [proc EXCEPT ![p] = [Questioned(r, r.questions - 1)
                                       EXCEPT !.req = IF more THEN r.req ELSE 0]]
    /\ turn' = IF more \/ ~Running(p) THEN Idle ELSE [At("drain") EXCEPT !.for = r.req]
    /\ UNCHANGED <<reg, grants, told>> /\ Rest

\* While a request waits, a message that is no answer only gets the hint.
Hint ==
  /\ turn.pc = "approval" /\ ~super /\ turn.kind = "text"
  /\ turn' = Idle
  /\ UNCHANGED <<reg, proc, grants, told>> /\ Rest

Answers == turn.pc = "approval" /\ (super \/ turn.kind # "text")
Asked(kind) == ~super /\ turn.kind = kind
Grant(k, by) == grants' = [k |-> k, by |-> by]

\* The agent takes the answer, and the turn drains what the request held up;
\* under super mode the message itself is sent after that.
Approve ==
  LET p == turn.p IN
    /\ Answers /\ Running(p) /\ proc[p].req # 0
    /\ proc' = [proc EXCEPT ![p].awaiting = FALSE, ![p].req = 0,
                            ![p].allowAll = @ \/ Asked("allowAll")]
    /\ IF Asked("deny") THEN UNCHANGED grants
       ELSE Grant(proc[p].req, IF super THEN "super" ELSE turn.kind)
    /\ told' = (told \/ Asked("allowAll"))
    /\ turn' = [At("drain") EXCEPT !.for = proc[p].req, !.then = super /\ turn.kind = "text"]
    /\ UNCHANGED reg /\ Rest

\* The request is gone, or the process is: then another is started for the
\* answer, which it has no request for.  The session is removed either way,
\* and the user asked to repeat; "allow all" is said to have been kept.
ApproveStale ==
  LET p == turn.p IN
    /\ Answers /\ ~(Running(p) /\ proc[p].req # 0)
    /\ \/ Running(p) /\ proc' = [Removed EXCEPT ![p].awaiting = FALSE]
       \/ ~Running(p) /\ \E q \in Proc : Fresh(q) /\ proc' = [Removed EXCEPT ![q].st = "closed"]
    /\ reg' = 0
    /\ told' = (told \/ Asked("allowAll"))
    /\ turn' = IF super /\ turn.kind = "text"
               THEN [At("restart") EXCEPT !.retry = TRUE] ELSE Idle
    /\ UNCHANGED grants /\ Rest

\* No other process can be started for the answer, or takes it; or the agent
\* does not say that it is gone, and the request is forgotten without it.
ApproveFails ==
  /\ Answers /\ ~Running(turn.p)
  /\ \/ Dies
     \/ /\ proc' = [proc EXCEPT ![turn.p].awaiting = FALSE,
                                 ![turn.p].allowAll = @ \/ Asked("allowAll")]
        /\ turn' = Idle
        /\ UNCHANGED <<reg, grants, told>> /\ Rest

---------------------------------------------------------------------------
(* The message is an input *)

\* waitInteractiveEventsQuiesced: events are thrown away until the channel has
\* been quiet for the grace period.  A wait may always run out before the next
\* event comes.
Quiesce ==
  LET p == turn.p IN
    /\ turn.pc = "quiesce" /\ proc[p].chan # <<>>
    /\ proc' = [proc EXCEPT ![p].chan = Tail(@)]
    /\ UNCHANGED <<reg, turn, grants, told>> /\ Rest

Quiet ==
  /\ turn.pc = "quiesce"
  /\ turn.off \/ proc[turn.p].chan = <<>>
  /\ turn' = At("discard")
  /\ IF Ended(turn.p) THEN reg' = 0 /\ proc' = Removed ELSE UNCHANGED <<reg, proc>>
  /\ UNCHANGED <<grants, told>> /\ Rest

\* discardBufferedInteractiveEvents.
Discard ==
  LET p == turn.p
      kept == IF proc[p].st = "running" THEN proc ELSE Removed IN
    /\ turn.pc = "discard"
    /\ proc' = [kept EXCEPT ![p].chan = <<>>]
    /\ reg' = IF proc[p].st = "running" THEN reg ELSE 0
    /\ turn' = At("send")
    /\ UNCHANGED <<grants, told>> /\ Rest

Given(record, k) == [record EXCEPT !.todo = Append(@, k)]
Draining(p, retry) == [turn EXCEPT !.pc = "drain", !.p = p, !.for = turn.k, !.saw = FALSE,
                                   !.retry = retry, !.then = FALSE, !.gives = @ + 1]

\* sendInteractiveInput.
Send ==
  /\ turn.pc = "send" /\ Running(turn.p)
  /\ proc' = [proc EXCEPT ![turn.p] = Given(@, turn.k)]
  /\ turn' = Draining(turn.p, TRUE)
  /\ UNCHANGED <<reg, grants, told>> /\ Rest

\* The process is gone: another one is started, which allows nothing.
SendRestarts(q) ==
  /\ turn.pc = "send" /\ ~Running(turn.p) /\ Fresh(q)
  /\ proc' = [Removed EXCEPT ![q] = Given(NewProc, turn.k)]
  /\ reg' = q
  /\ turn' = Draining(q, TRUE)
  /\ UNCHANGED <<grants, told>> /\ Rest

SendFails == turn.pc = "send" /\ ~Running(turn.p) /\ Dies

\* handleByTheWayCommand: the message goes to the process as it is, unless
\* there is none or it waits for the user.
AcceptsByTheWay == reg # 0 /\ ~proc[reg].awaiting

ByTheWay ==
  /\ turn.pc = "lookup" /\ turn.kind = "btw"
  /\ \/ /\ AcceptsByTheWay /\ Running(reg)
        /\ proc' = [proc EXCEPT ![reg] = Given(@, turn.k)]
        /\ turn' = Draining(reg, FALSE)
        /\ UNCHANGED reg
     \/ /\ AcceptsByTheWay /\ ~Running(reg)
        /\ reg' = 0 /\ proc' = Removed /\ turn' = Idle
     \/ /\ ~AcceptsByTheWay
        /\ turn' = Idle
        /\ UNCHANGED <<reg, proc>>
  /\ UNCHANGED <<grants, told>> /\ Rest

---------------------------------------------------------------------------
(* /btw beside a turn: injectByTheWay *)

InjectLooksUp ==
  /\ btw = 0 /\ left.injects > 0 /\ next < load.msgs /\ AcceptsByTheWay
  /\ btw' = reg
  /\ left' = [left EXCEPT !.injects = @ - 1]
  /\ UNCHANGED <<reg, proc, turn, super, next, grants, told>>

\* The agent takes it as an input of its own or as part of the one it works
\* on; when it cannot be written to, whatever is registered now is removed.
InjectSends ==
  /\ btw # 0 /\ next < load.msgs
  /\ btw' = 0
  /\ IF Running(btw)
     THEN /\ proc' = [proc EXCEPT ![btw] = Given(@, next + 1)] \/ UNCHANGED proc
          /\ next' = next + 1
          /\ UNCHANGED reg
     ELSE reg' = 0 /\ proc' = Removed /\ UNCHANGED next
  /\ UNCHANGED <<turn, super, left, grants, told>>

---------------------------------------------------------------------------
(* The drain: drainInteractiveSession, and the wait after a leading done *)

Pending == turn.p # 0 /\ proc[turn.p].chan # <<>>
First == Head(proc[turn.p].chan)
Taken == [proc EXCEPT ![turn.p].chan = Tail(@)]
Drains(ts) == turn.pc \in {"drain", "leading"} /\ Pending /\ First.t \in ts

Signal == [At("drain") EXCEPT !.saw = TRUE]

\* The turn is over, but for a message that waited for an automatic approval.
Finished == IF turn.then THEN [At("quiesce") EXCEPT !.then = FALSE] ELSE Idle

TakeText ==
  /\ Drains({"text"})
  /\ proc' = Taken
  /\ turn' = Signal
  /\ UNCHANGED <<reg, grants, told>> /\ Rest

\* A request the session allows by itself.
TakeAllowed ==
  LET p == turn.p IN
    /\ Drains({"approval"}) /\ (super \/ proc[p].allowAll)
    /\ IF Running(p) /\ proc[p].req # 0
       THEN /\ proc' = [Taken EXCEPT ![p].req = 0]
            /\ Grant(First.k, IF super THEN "super" ELSE "kept")
            /\ turn' = Signal
            /\ UNCHANGED reg
       ELSE turn' = Idle /\ reg' = 0 /\ proc' = Removed /\ UNCHANGED grants
    /\ UNCHANGED told /\ Rest

\* Mutant of TakeRequest: the turn goes on without waiting.
TakeRequestUnmarked ==
  LET p == turn.p IN
    /\ Drains({"approval"}) /\ ~super /\ ~proc[p].allowAll
    /\ proc' = Taken
    /\ turn' = Finished
    /\ UNCHANGED <<reg, grants, told>> /\ Rest

\* A request the user is asked about.
TakeRequest ==
  LET p == turn.p IN
    /\ Drains({"approval"}) /\ ~super /\ ~proc[p].allowAll
    /\ proc' = [Taken EXCEPT ![p].awaiting = TRUE, ![p].prompted = First.k]
    /\ turn' = Finished
    /\ UNCHANGED <<reg, grants, told>> /\ Rest

\* Mutant of TakeQuestions: one question too many is expected.
TakeQuestionsAndOne ==
  LET p == turn.p IN
    /\ Drains({"question"})
    /\ proc' = [Taken EXCEPT ![p] = Questioned(@, load.questions + 1)]
    /\ turn' = Finished
    /\ UNCHANGED <<reg, grants, told>> /\ Rest

\* Questions are put to the user in any mode.
TakeQuestions ==
  LET p == turn.p IN
    /\ Drains({"question"})
    /\ proc' = [Taken EXCEPT ![p] = Questioned(@, load.questions)]
    /\ turn' = Finished
    /\ UNCHANGED <<reg, grants, told>> /\ Rest

\* Mutant of TakeDone: the first done ends the turn.
TakeDoneFirst ==
  /\ Drains({"done"})
  /\ proc' = Taken
  /\ turn' = At("tail")
  /\ UNCHANGED <<reg, grants, told>> /\ Rest

\* A done before anything else is taken for one of the turn before.
TakeDone ==
  /\ Drains({"done"})
  /\ proc' = Taken
  /\ turn' = At(IF turn.saw THEN "tail" ELSE "leading")
  /\ UNCHANGED <<reg, grants, told>> /\ Rest

TakeError ==
  /\ Drains({"error", "refused"}) /\ (First.t = "refused" => ~turn.retry)
  /\ proc' = Removed /\ reg' = 0
  /\ turn' = Finished
  /\ UNCHANGED <<grants, told>> /\ Rest

\* The agent refuses its session: once, the input goes to a fresh one.
Retrying == [At("restart") EXCEPT !.retry = FALSE]

TakeRefused ==
  /\ Drains({"refused"}) /\ turn.retry
  /\ proc' = Removed /\ reg' = 0
  /\ turn' = Retrying
  /\ UNCHANGED <<grants, told>> /\ Rest

ChannelClosed == turn.pc = "drain" /\ Ended(turn.p) /\ Dies

\* No event follows the leading done, or the channel is closed: the input is
\* given to a new process, once.
NoSignal ==
  LET p == turn.p IN
    /\ turn.pc = "leading" /\ proc[p].chan = <<>>
    /\ IF Ended(p) \/ turn.retry THEN reg' = 0 /\ proc' = Removed ELSE UNCHANGED <<reg, proc>>
    /\ turn' = IF turn.retry THEN Retrying ELSE Finished
    /\ UNCHANGED <<grants, told>> /\ Rest

\* The process that takes over allows what the old one allowed.
Restart(q) ==
  /\ turn.pc = "restart" /\ Fresh(q)
  /\ proc' = [proc EXCEPT ![q] = [Given(NewProc, turn.k) EXCEPT !.allowAll = proc[turn.p].allowAll]]
  /\ reg' = q
  /\ turn' = Draining(q, turn.retry)
  /\ UNCHANGED <<grants, told>> /\ Rest

RestartFails ==
  /\ turn.pc = "restart"
  /\ turn' = Idle
  /\ UNCHANGED <<reg, proc, grants, told>> /\ Rest

---------------------------------------------------------------------------
(* After the done: drainInteractiveTailAfterDone *)

\* Whatever comes within the grace period is shown, requests included.
TailEvent ==
  /\ turn.pc = "tail" /\ Pending /\ First.t \notin {"error", "refused"}
  /\ proc' = Taken
  /\ UNCHANGED <<reg, turn, grants, told>> /\ Rest

TailError ==
  /\ turn.pc = "tail" /\ Pending /\ First.t \in {"error", "refused"}
  /\ proc' = Removed /\ reg' = 0
  /\ turn' = Finished
  /\ UNCHANGED <<grants, told>> /\ Rest

TailEnds ==
  LET p == turn.p IN
    /\ turn.pc = "tail"
    /\ proc[p].chan = <<>>
    /\ turn' = Finished
    /\ IF Ended(p) THEN reg' = 0 /\ proc' = Removed ELSE UNCHANGED <<reg, proc>>
    /\ UNCHANGED <<grants, told>> /\ Rest

---------------------------------------------------------------------------

Process(p) ==
  \/ TakeInput(p) \/ Says(p) \/ Finishes(p) \/ SecondDone(p) \/ Exit(p)
  \/ \E t \in {"approval", "question"} : Asks(p, t)
  \/ \E t \in {"error", "refused"} : Fails(p, t)

TurnStep ==
  \/ Lookup \/ LookupFails \/ AnswerQuestion \/ Hint \/ Approve \/ ApproveStale \/ ApproveFails
  \/ Quiesce \/ Quiet \/ Discard \/ Send \/ SendFails \/ ByTheWay \/ CancelSeen
  \/ TakeText \/ TakeAllowed \/ TakeRequest \/ TakeQuestions \/ TakeDone \/ TakeError
  \/ TakeRefused \/ ChannelClosed \/ NoSignal \/ RestartFails
  \/ TailEvent \/ TailError \/ TailEnds
  \/ \E q \in Proc : LookupStarts(q) \/ SendRestarts(q) \/ Restart(q)

Next ==
  /\ UNCHANGED load
  /\ \/ \E kind \in load.kinds : Receive(kind)
     \/ \E v \in load.supers : SetSuper(v)
     \/ Cancel \/ InjectLooksUp \/ InjectSends
     \/ TurnStep
     \/ \E p \in Proc : Process(p)

\* An agent does not stop in the middle of an input, and a turn is not held up.  (A run
\* has only so many of these steps.)
Progress ==
  /\ UNCHANGED load
  /\ TurnStep \/ \E p \in Proc : TakeInput(p) \/ SecondDone(p) \/ Finishes(p)
Fairness == WF_vars(Progress)

Spec == Init /\ [][Next]_vars /\ Fairness

---------------------------------------------------------------------------
(* Properties *)

\* The types of the variables.
TypeOK ==
  /\ load \in Loads
  /\ reg \in 0 .. Procs
  /\ proc \in [Proc -> [st : {"none", "running", "exited", "closed"},
                        chan : Seq(Event), todo : Seq(Msg),
                        cur : 0 .. Msgs, req : 0 .. Msgs, tail : 0 .. Msgs, prompted : 0 .. Msgs,
                        said : BOOLEAN, asked : BOOLEAN, awaiting : BOOLEAN, allowAll : BOOLEAN,
                        questions : 0 .. load.questions]]
  /\ turn \in [pc : TurnPc, k : 0 .. Msgs, kind : MsgKinds, p : 0 .. Procs, off : BOOLEAN,
               saw : BOOLEAN, retry : BOOLEAN, then : BOOLEAN, for : 0 .. Msgs, gives : Nat]
  /\ super \in BOOLEAN /\ told \in BOOLEAN
  /\ next \in 0 .. Msgs /\ btw \in 0 .. Procs
  /\ left \in [cancels : 0 .. load.cancels, injects : 0 .. load.injects, exits : 0 .. load.exits]
  /\ grants \in [k : 0 .. Msgs, by : {"none", "super", "kept"} \cup MsgKinds]

\* While an agent waits for the user, the user's next message is taken for the
\* answer: no request is passed over when the turn that could have shown it
\* ends.
RequestReachesUser ==
  turn.pc = "idle" /\ reg # 0 /\ proc[reg].req # 0 /\ proc[reg].chan = <<>>
    => proc[reg].awaiting

\* What a turn shows is about the input it was begun for, or the one whose
\* request it has answered.
OwnAnswer ==
  turn.pc \in {"drain", "leading", "tail"} /\ Pending /\ First.t = "text"
    => First.k = turn.for

\* A turn that has come to its end leaves no part of its answer behind.
AnswerComplete ==
  turn.pc = "tail" => /\ proc[turn.p].cur # turn.for
                      /\ \A i \in 1 .. Len(proc[turn.p].todo) : proc[turn.p].todo[i] # turn.for

\* The answer of the user goes to the request the user was shown.
AnswersWhatWasShown ==
  [][turn.pc = "approval" /\ ~super /\ grants' # grants
       => grants'.k = proc[turn.p].prompted]_vars

\* A request is allowed without asking only while super mode is on, or after
\* the user has said "allow all".
AllowedOnWord == grants.by = "kept" => told

\* A session the user was told would not ask again does not ask again.
AllowAllKept ==
  [][told => \A p \in Proc : proc'[p].prompted = proc[p].prompted]_vars

\* The process is at work on an input, or has it to do.
Has(p, k) == proc[p].cur = k \/ \E i \in 1 .. Len(proc[p].todo) : proc[p].todo[i] = k

\* A turn gives its input to two processes at most, whatever refuses it, ends,
\* is silent or is stale; and to the second when no other has it any more.  (It
\* may have been worked on by both.)
TwiceAtMost ==
  /\ turn.gives <= 2
  /\ \A k \in Msg : \A p, q \in Proc : Has(p, k) /\ Has(q, k) => p = q

\* The process waits for the answer to a request that was shown to nobody.
RequestLost ==
  turn.p # 0 /\ proc[turn.p].chan = <<>> /\ proc[turn.p].req # 0 /\ ~proc[turn.p].awaiting

\* Every turn ends; but after a /btw or a turn that was cancelled, whose request the next
\* turn has thrown away, a turn may wait for the process that waits for the user.
TurnEnds ==
  LET alone == load.cancels = 0 /\ load.injects = 0 /\ "btw" \notin load.kinds
  IN []<>(turn.pc = "idle" \/ (~alone /\ RequestLost))
=============================================================================
