----------------------------- MODULE SuperReview -----------------------------
(***************************************************************************)
(* Super mode of one session (router_agent.go, super_mode.go).  A turn     *)
(* that ends well starts a review of its answer by the opposite agent, in  *)
(* a goroutine of its own; what the review says is kept in the session     *)
(* and put into the next turn.  A review that begins cancels the one       *)
(* before.  Turns overlap: the message processor serialises those of a     *)
(* user, but /chat and /chat/stream start turns beside it.                 *)
(*                                                                         *)
(* A turn of the active session works on a copy of the session             *)
(* (GetActiveSession), one that names its session on the session itself    *)
(* (GetOrCreateSession) and reads it key by key.                           *)
(***************************************************************************)
EXTENDS Naturals

CONSTANTS
  Turns,   \* bound: turns on the session, 1 .. Turns
  Agents,  \* the agents the session is used with
  Texts,   \* what a review may say
  None     \* an empty text, no agent

ASSUME ConstantsAssumption == Turns \in Nat /\ None \notin Texts

Turn == 1 .. Turns

\* nextReviewID counts up to the number of turns: a turn begins one review.
Review == 1 .. Turns

VARIABLES
  superMode,   \* super_mode of the session (super_auto_approve goes with it)
  feedback,    \* super_feedback_for_<agent>
  ready,       \* super_feedback_ready_for_<agent>
  current,     \* superReviews of the session: the id of its review, or 0
  nextReview,  \* nextReviewID
  closed,      \* Router.Close has cancelled the registered reviews
  rootDone,    \* it has cancelled the root context
  cancelled,   \* the reviews whose context is cancelled
  turn,        \* the turns
  review,      \* the goroutines of launchSuperPeerReview, by review id
  source,      \* the review that stored an agent's feedback last (history)
  spent        \* reviews whose feedback has served a finished turn (history)

vars == <<superMode, feedback, ready, current, nextReview, closed, rootDone, cancelled,
          turn, review, source, spent>>

sessionVars == <<superMode, feedback, ready, source>>
reviewVars == <<current, nextReview, closed, rootDone, cancelled, review>>

TurnPc == {"idle", "text", "ready", "running", "match", "clearText", "clearReady", "launch", "done"}
ReviewPc == {"none", "start", "asking", "recheck", "current", "store", "ending", "done"}

NoTurn(pc) ==
  [pc |-> pc, agent |-> None, on |-> FALSE, injected |-> None, from |-> 0, output |-> FALSE]
NoReview(pc) == [pc |-> pc, agent |-> None, text |-> None, off |-> FALSE]

\* The mode may have been on when the session was last saved.
Init ==
  /\ superMode \in BOOLEAN
  /\ feedback = [a \in Agents |-> None]
  /\ ready = [a \in Agents |-> FALSE]
  /\ current = 0
  /\ nextReview = 0
  /\ closed = FALSE
  /\ rootDone = FALSE
  /\ cancelled = {}
  /\ turn = [t \in Turn |-> NoTurn("idle")]
  /\ review = [r \in Review |-> NoReview("none")]
  /\ source = [a \in Agents |-> 0]
  /\ spent = {}

\* A review whose goroutine has not returned.
Live(r) == review[r].pc \notin {"none", "done"}

---------------------------------------------------------------------------
(* The user and the process *)

\* /super on.
SuperOn ==
  /\ superMode' = TRUE
  /\ UNCHANGED <<feedback, ready, source, reviewVars, turn, spent>>

\* /super off clears the feedback of every agent in the same update.  It lets
\* a review that is under way go on ("off" remembers that it was).
SuperOff ==
  /\ superMode' = FALSE
  /\ feedback' = [a \in Agents |-> None]
  /\ ready' = [a \in Agents |-> FALSE]
  /\ review' = [r \in Review |-> [review[r] EXCEPT !.off = Live(r)]]
  /\ UNCHANGED <<source, current, nextReview, closed, rootDone, cancelled, turn, spent>>

\* Router.Close cancels the registered review and forgets it.
Close ==
  /\ ~closed
  /\ closed' = TRUE
  /\ cancelled' = cancelled \cup ({current} \ {0})
  /\ current' = 0
  /\ UNCHANGED <<nextReview, rootDone, review, sessionVars, turn, spent>>

\* Then, without the lock of the reviews, the root context, and with it every
\* review that was begun.
CancelRoot ==
  /\ closed /\ ~rootDone
  /\ rootDone' = TRUE
  /\ cancelled' = 1 .. nextReview
  /\ UNCHANGED <<current, nextReview, closed, review, sessionVars, turn, spent>>

---------------------------------------------------------------------------
(* A turn: streamAIMessage *)

TurnGoto(t, pc) == turn' = [turn EXCEPT ![t].pc = pc]

\* Turns are numbered as they start.
NextTurn(t) == turn[t].pc = "idle" /\ \A s \in 1 .. t - 1 : turn[s].pc # "idle"

\* The turn takes a copy of the session, and with it the feedback to inject.
StartOnCopy(t, a) ==
  LET taken == superMode /\ ready[a] /\ feedback[a] # None IN
    /\ NextTurn(t)
    /\ turn' = [turn EXCEPT ![t] =
                  [pc |-> "running", agent |-> a, on |-> superMode,
                   injected |-> IF taken THEN feedback[a] ELSE None,
                   from |-> IF taken THEN source[a] ELSE 0, output |-> FALSE]]
    /\ UNCHANGED <<sessionVars, reviewVars, spent>>

\* The turn works on the session: mode, text and flag are read one by one.
StartOnSession(t, a) ==
  /\ NextTurn(t)
  /\ turn' = [turn EXCEPT ![t] =
                [pc |-> IF superMode THEN "text" ELSE "running", agent |-> a,
                 on |-> superMode, injected |-> None, from |-> 0, output |-> FALSE]]
  /\ UNCHANGED <<sessionVars, reviewVars, spent>>

ReadText(t) ==
  LET a == turn[t].agent IN
    /\ turn[t].pc = "text"
    /\ turn' = [turn EXCEPT ![t].pc = "ready", ![t].injected = feedback[a],
                            ![t].from = IF feedback[a] = None THEN 0 ELSE source[a]]
    /\ UNCHANGED <<sessionVars, reviewVars, spent>>

ReadReady(t) ==
  /\ turn[t].pc = "ready"
  /\ turn' = IF ready[turn[t].agent]
             THEN [turn EXCEPT ![t].pc = "running"]
             ELSE [turn EXCEPT ![t].pc = "running", ![t].injected = None, ![t].from = 0]
  /\ UNCHANGED <<sessionVars, reviewVars, spent>>

\* An error, from the agent or in one of its events: feedback stays, and there
\* is no review.
TurnFails(t) ==
  /\ turn[t].pc = "running"
  /\ turn' = [turn EXCEPT ![t] = NoTurn("done")]
  /\ UNCHANGED <<sessionVars, reviewVars, spent>>

TurnSucceeds(t, output) ==
  /\ turn[t].pc = "running"
  /\ turn' = [turn EXCEPT ![t].pc = IF turn[t].injected # None THEN "match" ELSE "launch",
                          ![t].output = output]
  /\ UNCHANGED <<sessionVars, reviewVars, spent>>

\* Mutant of Match: a turn clears nothing.
MatchNever(t) ==
  /\ turn[t].pc = "match"
  /\ TurnGoto(t, "launch")
  /\ UNCHANGED <<sessionVars, reviewVars, spent>>

\* clearSuperFeedbackForAgentIfMatch: the comparison works on a snapshot, and
\* the two updates follow one by one.
Match(t) ==
  LET a == turn[t].agent IN
    /\ turn[t].pc = "match"
    /\ TurnGoto(t, IF ready[a] /\ feedback[a] = turn[t].injected
                   THEN "clearText" ELSE "launch")
    /\ UNCHANGED <<sessionVars, reviewVars, spent>>

ClearText(t) ==
  /\ turn[t].pc = "clearText"
  /\ feedback' = [feedback EXCEPT ![turn[t].agent] = None]
  /\ TurnGoto(t, "clearReady")
  /\ UNCHANGED <<superMode, ready, source, reviewVars, spent>>

\* Mutant of ClearReady: the flag is cleared like a text.
ClearReadyAsText(t) ==
  /\ turn[t].pc = "clearReady"
  /\ ready' = [ready EXCEPT ![turn[t].agent] = None]
  /\ TurnGoto(t, "launch")
  /\ UNCHANGED <<superMode, feedback, source, reviewVars, spent>>

ClearReady(t) ==
  /\ turn[t].pc = "clearReady"
  /\ ready' = [ready EXCEPT ![turn[t].agent] = FALSE]
  /\ TurnGoto(t, "launch")
  /\ UNCHANGED <<superMode, feedback, source, reviewVars, spent>>

TurnEnds(t) ==
  /\ turn' = [turn EXCEPT ![t] = NoTurn("done")]
  /\ spent' = spent \cup ({turn[t].from} \ {0})
  /\ UNCHANGED sessionVars

\* Mutant of BeginReview: the review before goes on.
BeginReviewBeside(a) ==
  /\ nextReview < Turns
  /\ nextReview' = nextReview + 1
  /\ current' = nextReview + 1
  /\ review' = [review EXCEPT ![nextReview + 1] =
                  [pc |-> "start", agent |-> a, text |-> None, off |-> FALSE]]
  /\ cancelled' = cancelled \cup (IF rootDone THEN {nextReview + 1} ELSE {})
  /\ UNCHANGED <<closed, rootDone>>

\* beginSuperPeerReview, and the goroutine.  The new context is a child of the
\* root context.  (The bound is never met: a turn begins one review.)
BeginReview(a) ==
  /\ nextReview < Turns
  /\ nextReview' = nextReview + 1
  /\ current' = nextReview + 1
  /\ review' = [review EXCEPT ![nextReview + 1] =
                  [pc |-> "start", agent |-> a, text |-> None, off |-> FALSE]]
  /\ cancelled' = cancelled \cup ({current} \ {0})
                            \cup (IF rootDone THEN {nextReview + 1} ELSE {})
  /\ UNCHANGED <<closed, rootDone>>

\* launchSuperPeerReview: the mode is the one of the turn's snapshot.
Launch(t) ==
  /\ turn[t].pc = "launch"
  /\ IF turn[t].on /\ turn[t].output
     THEN BeginReview(turn[t].agent)
     ELSE UNCHANGED reviewVars
  /\ TurnEnds(t)

---------------------------------------------------------------------------
(* A review: runSuperPeerReview *)

ReviewGoto(r, pc) == review' = [review EXCEPT ![r].pc = pc]
OnlyReview ==
  UNCHANGED <<sessionVars, current, nextReview, closed, rootDone, cancelled, turn, spent>>

StartReview(r) ==
  /\ review[r].pc = "start"
  /\ ReviewGoto(r, IF superMode THEN "asking" ELSE "ending")
  /\ OnlyReview

\* There is no opposite agent, it fails, the time is over, the context is
\* cancelled, or it asks for an approval it does not get: at most a notice.
ReviewFails(r) ==
  /\ review[r].pc \in {"start", "asking"}
  /\ ReviewGoto(r, "ending")
  /\ OnlyReview

\* The opposite agent answers.  That a review was cancelled does not keep it
\* from answering: a stream that is closed early ends like a complete one.
ReviewAnswers(r, text) ==
  /\ review[r].pc = "asking"
  /\ review' = [review EXCEPT ![r].pc = "recheck", ![r].text = text]
  /\ OnlyReview

CheckMode(r) ==
  /\ review[r].pc = "recheck"
  /\ ReviewGoto(r, IF superMode THEN "current" ELSE "ending")
  /\ OnlyReview

\* Mutant of CheckCurrent: any review stores its feedback.
CheckCurrentNot(r) ==
  /\ review[r].pc = "current"
  /\ ReviewGoto(r, "store")
  /\ OnlyReview

\* isCurrentSuperPeerReview.
CheckCurrent(r) ==
  /\ review[r].pc = "current"
  /\ ReviewGoto(r, IF current = r THEN "store" ELSE "ending")
  /\ OnlyReview

\* Mutant of StoreFeedback: the mode is not looked at again.
StoreFeedbackAlways(r) ==
  LET a == review[r].agent IN
    /\ review[r].pc = "store"
    /\ feedback' = [feedback EXCEPT ![a] = review[r].text]
    /\ ready' = [ready EXCEPT ![a] = review[r].text # None]
    /\ source' = [source EXCEPT ![a] = r]
    /\ ReviewGoto(r, "ending")
    /\ UNCHANGED <<superMode, current, nextReview, closed, rootDone, cancelled, turn, spent>>

\* setSuperFeedbackForAgent: one update under the session's lock, which looks
\* at the mode again but not at the review.
StoreFeedback(r) ==
  LET a == review[r].agent IN
    /\ review[r].pc = "store"
    /\ IF superMode
       THEN /\ feedback' = [feedback EXCEPT ![a] = review[r].text]
            /\ ready' = [ready EXCEPT ![a] = review[r].text # None]
            /\ source' = [source EXCEPT ![a] = r]
       ELSE UNCHANGED <<feedback, ready, source>>
    /\ ReviewGoto(r, "ending")
    /\ UNCHANGED <<superMode, current, nextReview, closed, rootDone, cancelled, turn, spent>>

\* Mutant of EndReview: the entry is removed, whosever it is.
EndReviewAny(r) ==
  /\ review[r].pc = "ending"
  /\ current' = 0
  /\ review' = [review EXCEPT ![r] = NoReview("done")]
  /\ UNCHANGED <<sessionVars, nextReview, closed, rootDone, cancelled, turn, spent>>

\* endSuperPeerReview: only the review's own entry.
EndReview(r) ==
  /\ review[r].pc = "ending"
  /\ current' = IF current = r THEN 0 ELSE current
  /\ review' = [review EXCEPT ![r] = NoReview("done")]
  /\ UNCHANGED <<sessionVars, nextReview, closed, rootDone, cancelled, turn, spent>>

---------------------------------------------------------------------------

TurnStep(t) ==
  \/ \E a \in Agents : StartOnCopy(t, a) \/ StartOnSession(t, a)
  \/ ReadText(t) \/ ReadReady(t)
  \/ TurnFails(t) \/ \E output \in BOOLEAN : TurnSucceeds(t, output)
  \/ Match(t) \/ ClearText(t) \/ ClearReady(t) \/ Launch(t)

ReviewStep(r) ==
  \/ StartReview(r) \/ ReviewFails(r) \/ \E text \in Texts \cup {None} : ReviewAnswers(r, text)
  \/ CheckMode(r) \/ CheckCurrent(r) \/ StoreFeedback(r) \/ EndReview(r)

Next ==
  \/ SuperOn \/ SuperOff \/ Close \/ CancelRoot
  \/ \E t \in Turn : TurnStep(t)
  \/ \E r \in Review : ReviewStep(r)

Spec == Init /\ [][Next]_vars

---------------------------------------------------------------------------
(* Properties *)

TurnRecord ==
  [pc : TurnPc, agent : Agents \cup {None}, on : BOOLEAN, injected : Texts \cup {None},
   from : 0 .. Turns, output : BOOLEAN]
ReviewRecord ==
  [pc : ReviewPc, agent : Agents \cup {None}, text : Texts \cup {None}, off : BOOLEAN]

\* Every variable has its type.
TypeOK ==
  /\ superMode \in BOOLEAN
  /\ feedback \in [Agents -> Texts \cup {None}]
  /\ ready \in [Agents -> BOOLEAN]
  /\ current \in 0 .. Turns
  /\ nextReview \in 0 .. Turns
  /\ closed \in BOOLEAN /\ rootDone \in BOOLEAN
  /\ cancelled \in SUBSET Review
  /\ turn \in [Turn -> TurnRecord]
  /\ review \in [Review -> ReviewRecord]
  /\ source \in [Agents -> 0 .. Turns]
  /\ spent \in SUBSET Review

\* "Super mode disabled. Pending Super feedback cleared": while the mode is off
\* no feedback waits, whatever reviews end and turns clear meanwhile.
NothingPendingWhenOff ==
  ~superMode => \A a \in Agents : feedback[a] = None /\ ~ready[a]

\* The registered review is the newest, and the newest is registered until it
\* ends, unless it is cancelled: an older review that ends late does not
\* unregister it, and its feedback is not thrown away.
NewestIsRegistered ==
  /\ current # 0 => current = nextReview /\ Live(current)
  /\ \A r \in Review : Live(r) /\ r \notin cancelled => current = r

\* Never two reviews of a session work on, at the user's cost: a new one
\* cancels the old, also one whose registration could have got lost.
OneReviewWorks ==
  \A q, r \in Review : Live(q) /\ Live(r) /\ {q, r} \cap cancelled = {} => q = r

\* Feedback that waits to be injected has not served a finished turn already.
ReadyIsFresh ==
  \A a \in Agents : ready[a] /\ feedback[a] # None => source[a] \notin spent

\* A review that was superseded while its agent was still working does not get
\* as far as storing its feedback.
OnlyNewestStores ==
  [][\A r \in Review :
       review[r].pc # "store" /\ review'[r].pc = "store" => r = nextReview]_vars

\* The answer of a review is not thrown away, unless a newer review has begun,
\* super mode is off or the router closed.
AnswerNotDropped ==
  [][\A r \in Review :
       review[r].pc \in {"recheck", "current"} /\ review'[r].pc = "ending"
         => nextReview > r \/ ~superMode \/ closed]_vars

\* A review that ends late does not overwrite the feedback of a newer one.
NewerFeedbackStays ==
  [][\A a \in Agents : feedback'[a] \notin {None, feedback[a]} => source'[a] >= source[a]]_vars

\* After /super off, a background task from before does not write feedback back.
OffSilencesReviews ==
  [][\A a \in Agents : source'[a] # source[a] /\ feedback'[a] # None
       => ~review[source'[a]].off]_vars
=============================================================================
