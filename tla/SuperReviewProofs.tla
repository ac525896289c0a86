-------------------------- MODULE SuperReviewProofs --------------------------
(***************************************************************************)
(* Proofs about SuperReview, for every number of turns and every set of    *)
(* agents and texts.  Registered is about the reviews and who of them may  *)
(* work on, Fresh about the way of a review's feedback through the session *)
(* and the turns.                                                          *)
(***************************************************************************)
EXTENDS SuperReview, TLAPS

\* What superReviews says of the reviews that were begun.
Registered ==
  /\ \A r \in Review : r > nextReview => review[r].pc = "none"
  /\ \A r \in cancelled : r <= nextReview
  /\ current # 0 => current = nextReview /\ Live(current)
  /\ \A r \in Review : Live(r) /\ r \notin cancelled => current = r
  /\ \A r \in cancelled : r = nextReview => closed
  /\ rootDone => closed

\* A review that has not passed its one attempt to store.
Before(r) == review[r].pc \notin {"ending", "done"}

\* What a review has not stored yet waits nowhere and has served nobody, and
\* feedback is stored for one agent only.
StoredOnce ==
  /\ \A r \in Review : Before(r) => r \notin spent /\ \A a \in Agents : source[a] # r
  /\ \A a, b \in Agents : source[a] = source[b] /\ source[a] # 0 => a = b

\* What a turn has taken is its agent's, and is what waits there as long as
\* that comes from the same review.  A turn about to finish has cleared what it
\* took, or something else waits.
Taken(t) ==
  LET a == turn[t].agent
      from == turn[t].from
  IN /\ turn[t].pc \notin {"idle", "done"} => a \in Agents
     /\ turn[t].injected = None => from = 0
     /\ from # 0 =>
          /\ turn[t].pc \notin {"idle", "done"}
          /\ \A r \in Review : Before(r) => from # r
          /\ \A b \in Agents \ {a} : source[b] # from
          /\ source[a] = from => feedback[a] \in {None, turn[t].injected}
          /\ turn[t].pc = "launch" /\ ready[a] /\ feedback[a] # None => source[a] # from

Fresh ==
  /\ StoredOnce
  /\ \A t \in Turn : Taken(t)
  /\ ReadyIsFresh

\* A review from its start to its attempt to store has its agent.
ReviewHasAgent ==
  \A r \in Review : Live(r) => review[r].agent \in Agents

Inv ==
  /\ TypeOK
  /\ ReviewHasAgent
  /\ NothingPendingWhenOff
  /\ Registered
  /\ Fresh

---------------------------------------------------------------------------
(* Types *)

\* The three ways in which a turn changes while it lasts.
LEMMA TurnRecords ==
  ASSUME TypeOK, NEW t \in Turn
  PROVE  /\ \A pc \in TurnPc : [turn[t] EXCEPT !.pc = pc] \in TurnRecord
         /\ \A pc \in TurnPc, b \in BOOLEAN :
              [turn[t] EXCEPT !.pc = pc, !.output = b] \in TurnRecord
         /\ \A pc \in TurnPc, text \in Texts \cup {None}, n \in 0 .. Turns :
              [turn[t] EXCEPT !.pc = pc, !.injected = text, !.from = n] \in TurnRecord
         /\ NoTurn("done") \in TurnRecord
<1> turn[t] \in TurnRecord /\ 0 \in 0 .. Turns
  BY ConstantsAssumption DEF TypeOK
<1> QED BY DEF TurnRecord, NoTurn, TurnPc

LEMMA ReviewRecords ==
  ASSUME TypeOK, NEW r \in Review
  PROVE  /\ \A pc \in ReviewPc : [review[r] EXCEPT !.pc = pc] \in ReviewRecord
         /\ \A pc \in ReviewPc, text \in Texts \cup {None} :
              [review[r] EXCEPT !.pc = pc, !.text = text] \in ReviewRecord
         /\ \A b \in BOOLEAN : [review[r] EXCEPT !.off = b] \in ReviewRecord
         /\ \A pc \in ReviewPc : NoReview(pc) \in ReviewRecord
         /\ review[r].agent \in Agents \cup {None} /\ review[r].text \in Texts \cup {None}
<1> review[r] \in ReviewRecord
  BY DEF TypeOK
<1> QED BY DEF ReviewRecord, NoReview

LEMMA TurnTypes ==
  ASSUME TypeOK, NEW t \in Turn, Taken(t), TurnStep(t)
  PROVE  TypeOK'
<1> DEFINE a == turn[t].agent
<1>0. 0 \in 0 .. Turns /\ turn[t] \in TurnRecord /\ turn[t].from \in 0 .. Turns
  BY ConstantsAssumption DEF TypeOK, TurnRecord
<1>1. ASSUME NEW b \in Agents, StartOnCopy(t, b) PROVE TypeOK'
  <2>1. feedback[b] \in Texts \cup {None} /\ source[b] \in 0 .. Turns /\ superMode \in BOOLEAN
    BY DEF TypeOK
  <2>2. PICK text \in Texts \cup {None}, n \in 0 .. Turns :
          turn' = [turn EXCEPT ![t] = [pc |-> "running", agent |-> b, on |-> superMode,
                                       injected |-> text, from |-> n, output |-> FALSE]]
    BY <1>0, <1>1, <2>1 DEF StartOnCopy
  <2>3. turn' \in [Turn -> TurnRecord]
    BY <2>1, <2>2 DEF TypeOK, TurnRecord, TurnPc
  <2> QED BY <1>1, <2>3 DEF StartOnCopy, TypeOK, sessionVars, reviewVars
<1>2. ASSUME NEW b \in Agents, StartOnSession(t, b) PROVE TypeOK'
  <2>1. PICK pc \in TurnPc :
          turn' = [turn EXCEPT ![t] = [pc |-> pc, agent |-> b, on |-> superMode,
                                       injected |-> None, from |-> 0, output |-> FALSE]]
    BY <1>2 DEF StartOnSession, TurnPc
  <2>2. turn' \in [Turn -> TurnRecord]
    BY <1>0, <2>1 DEF TypeOK, TurnRecord
  <2> QED BY <1>2, <2>2 DEF StartOnSession, TypeOK, sessionVars, reviewVars
<1>3. CASE ReadText(t)
  <2>1. a \in Agents
    BY <1>3 DEF ReadText, Taken
  <2>2. feedback[a] \in Texts \cup {None} /\ source[a] \in 0 .. Turns
    BY <2>1 DEF TypeOK
  <2>3. PICK n \in 0 .. Turns :
          turn' = [turn EXCEPT ![t] =
                     [turn[t] EXCEPT !.pc = "ready", !.injected = feedback[a], !.from = n]]
    BY <1>0, <1>3, <2>2, ZenonT(60) DEF ReadText
  <2>4. turn' \in [Turn -> TurnRecord]
    BY <2>2, <2>3, TurnRecords, ZenonT(60) DEF TypeOK, TurnPc
  <2> QED BY <1>3, <2>4 DEF ReadText, TypeOK, sessionVars, reviewVars
<1>4. CASE ReadReady(t)
  <2>1. \/ turn' = [turn EXCEPT ![t] = [turn[t] EXCEPT !.pc = "running"]]
        \/ turn' = [turn EXCEPT ![t] =
                      [turn[t] EXCEPT !.pc = "running", !.injected = None, !.from = 0]]
    BY <1>4 DEF ReadReady
  <2>2. turn' \in [Turn -> TurnRecord]
    <3>1. /\ [turn[t] EXCEPT !.pc = "running"] \in TurnRecord
          /\ [turn[t] EXCEPT !.pc = "running", !.injected = None, !.from = 0] \in TurnRecord
      BY <1>0, TurnRecords DEF TurnPc
    <3> QED BY <2>1, <3>1 DEF TypeOK
  <2> QED BY <1>4, <2>2 DEF ReadReady, TypeOK, sessionVars, reviewVars
<1>5. CASE TurnFails(t)
  <2>1. turn' \in [Turn -> TurnRecord]
    BY <1>5, TurnRecords DEF TypeOK, TurnFails
  <2> QED BY <1>5, <2>1 DEF TurnFails, TypeOK, sessionVars, reviewVars
<1>6. ASSUME NEW b \in BOOLEAN, TurnSucceeds(t, b) PROVE TypeOK'
  <2>1. PICK pc \in TurnPc :
          turn' = [turn EXCEPT ![t] = [turn[t] EXCEPT !.pc = pc, !.output = b]]
    BY <1>6 DEF TurnSucceeds, TurnPc
  <2>2. turn' \in [Turn -> TurnRecord]
    BY <2>1, TurnRecords DEF TypeOK
  <2> QED BY <1>6, <2>2 DEF TurnSucceeds, TypeOK, sessionVars, reviewVars
<1>7. CASE Match(t) \/ ClearText(t) \/ ClearReady(t)
  <2>1. PICK pc \in TurnPc : turn' = [turn EXCEPT ![t] = [turn[t] EXCEPT !.pc = pc]]
    BY <1>7 DEF Match, ClearText, ClearReady, TurnGoto, TurnPc
  <2>2. turn' \in [Turn -> TurnRecord]
    BY <2>1, TurnRecords DEF TypeOK
  <2> QED BY <1>7, <2>2 DEF Match, ClearText, ClearReady, TypeOK, sessionVars, reviewVars
<1>8. CASE Launch(t)
  <2>1. turn' \in [Turn -> TurnRecord] /\ a \in Agents
    BY <1>8, TurnRecords DEF TypeOK, Launch, TurnEnds, Taken
  <2>2. spent' \in SUBSET Review /\ UNCHANGED sessionVars
    <3>1. {turn[t].from} \ {0} \subseteq 1 .. Turns
      BY <1>0, ConstantsAssumption
    <3> QED BY <3>1, <1>8 DEF TypeOK, Launch, TurnEnds, Review
  <2>3. CASE UNCHANGED reviewVars
    BY <2>1, <2>2, <2>3 DEF TypeOK, sessionVars, reviewVars
  <2>4. CASE BeginReview(a)
    <3>1. nextReview + 1 \in 1 .. Turns /\ current \in 0 .. Turns
      BY <2>4, ConstantsAssumption DEF TypeOK, BeginReview
    <3>2. review' \in [Review -> ReviewRecord]
      BY <2>1, <2>4, <3>1 DEF TypeOK, BeginReview, ReviewRecord, ReviewPc, Review
    <3>3. cancelled' \in SUBSET Review
      BY <2>4, <3>1 DEF TypeOK, BeginReview, Review
    <3> QED BY <2>1, <2>2, <2>4, <3>1, <3>2, <3>3 DEF TypeOK, BeginReview, sessionVars
  <2> QED BY <1>8, <2>3, <2>4 DEF Launch
<1> QED BY <1>1, <1>2, <1>3, <1>4, <1>5, <1>6, <1>7, <1>8 DEF TurnStep

LEMMA ReviewTypes ==
  ASSUME TypeOK, ReviewHasAgent, NEW r \in Review, ReviewStep(r)
  PROVE  TypeOK'
<1>1. review' \in [Review -> ReviewRecord]
  <2>1. ASSUME NEW pc \in ReviewPc, ReviewGoto(r, pc) PROVE review' \in [Review -> ReviewRecord]
    BY <2>1, ReviewRecords DEF TypeOK, ReviewGoto
  <2>2. CASE \/ StartReview(r) \/ ReviewFails(r) \/ CheckMode(r) \/ CheckCurrent(r)
             \/ StoreFeedback(r)
    <3>1. \E pc \in ReviewPc : ReviewGoto(r, pc)
      BY <2>2 DEF StartReview, ReviewFails, CheckMode, CheckCurrent, StoreFeedback, ReviewPc
    <3> QED BY <2>1, <3>1
  <2>3. ASSUME NEW text \in Texts \cup {None}, ReviewAnswers(r, text)
        PROVE  review' \in [Review -> ReviewRecord]
    <3>1. [review[r] EXCEPT !.pc = "recheck", !.text = text] \in ReviewRecord
      BY ReviewRecords, ZenonT(60) DEF ReviewPc
    <3> QED BY <2>3, <3>1, SMTT(60) DEF TypeOK, ReviewAnswers
  <2>4. CASE EndReview(r)
    <3>1. NoReview("done") \in ReviewRecord
      BY ReviewRecords DEF ReviewPc
    <3> QED BY <2>4, <3>1 DEF TypeOK, EndReview
  <2> QED BY <2>2, <2>3, <2>4 DEF ReviewStep
<1>2. CASE StoreFeedback(r)
  <2>1. review[r].agent \in Agents /\ review[r].text \in Texts \cup {None}
    BY <1>2, ReviewRecords DEF StoreFeedback, ReviewHasAgent, Live
  <2>2. r \in 0 .. Turns
    BY ConstantsAssumption DEF Review
  <2> QED BY <2>2, <1>1, <1>2, <2>1 DEF StoreFeedback, TypeOK
<1>3. CASE EndReview(r)
  <2>1. current' \in 0 .. Turns
    BY <1>3, ConstantsAssumption DEF EndReview, TypeOK
  <2> QED BY <1>1, <1>3, <2>1 DEF EndReview, TypeOK, sessionVars
<1>4. CASE OnlyReview
  BY <1>1, <1>4 DEF OnlyReview, TypeOK, sessionVars
<1> QED BY <1>2, <1>3, <1>4 DEF ReviewStep, StartReview, ReviewFails, ReviewAnswers, CheckMode,
       CheckCurrent

LEMMA TypeStep == Inv /\ [Next]_vars => TypeOK'
<1> SUFFICES ASSUME Inv, [Next]_vars PROVE TypeOK'
  OBVIOUS
<1>1. CASE SuperOn
  BY <1>1 DEF Inv, TypeOK, SuperOn, reviewVars
<1>2. CASE SuperOff
  <2>1. \A r \in Review : Live(r) \in BOOLEAN
    BY DEF Live
  <2>2. review' \in [Review -> ReviewRecord]
    BY <1>2, <2>1, ReviewRecords DEF SuperOff, Inv
  <2> QED BY <1>2, <2>2 DEF Inv, TypeOK, SuperOff
<1>3. CASE Close
  <2>1. cancelled' \in SUBSET Review /\ current' \in 0 .. Turns
    BY <1>3, ConstantsAssumption DEF Close, Inv, TypeOK, Review
  <2> QED BY <1>3, <2>1 DEF Inv, TypeOK, Close, sessionVars
<1>7. CASE CancelRoot
  <2>1. cancelled' \in SUBSET Review
    BY <1>7, ConstantsAssumption DEF CancelRoot, Inv, TypeOK, Review
  <2> QED BY <1>7, <2>1 DEF Inv, TypeOK, CancelRoot, sessionVars
<1>4. CASE \E t \in Turn : TurnStep(t)
  BY <1>4, TurnTypes DEF Inv, Fresh
<1>5. CASE \E r \in Review : ReviewStep(r)
  BY <1>5, ReviewTypes DEF Inv
<1>6. CASE UNCHANGED vars
  BY <1>6 DEF Inv, TypeOK, vars
<1> QED BY <1>1, <1>2, <1>3, <1>4, <1>5, <1>6, <1>7 DEF Next
---------------------------------------------------------------------------
(* What a step of a review, and a step of a turn, is *)

LEMMA ReviewSteps ==
  ASSUME TypeOK, NEW r \in Review, ReviewStep(r)
  PROVE  /\ Live(r) /\ \A q \in Review \ {r} : review'[q] = review[q]
         /\ UNCHANGED <<superMode, nextReview, closed, rootDone, cancelled, turn, spent>>
         /\ review'[r].agent \in {review[r].agent, None}
         /\ \/ EndReview(r) /\ review'[r].pc = "done"
            \/ /\ Live(r)' /\ review'[r].agent = review[r].agent /\ current' = current
               /\ Before(r)' => Before(r)
               /\ \/ StoreFeedback(r) /\ Before(r) /\ ~Before(r)'
                  \/ UNCHANGED <<feedback, ready, source>>
<1> DEFINE Moves == \E pc \in ReviewPc \ {"none", "done"} : ReviewGoto(r, pc)
<1>1. ASSUME NEW pc \in ReviewPc \ {"none", "done"}, ReviewGoto(r, pc), Live(r)
      PROVE  /\ \A q \in Review \ {r} : review'[q] = review[q]
             /\ Live(r)' /\ review'[r].agent = review[r].agent /\ review'[r].pc = pc
  BY <1>1 DEF ReviewGoto, TypeOK, ReviewRecord, Live
<1>2. CASE StartReview(r) \/ ReviewFails(r) \/ CheckMode(r) \/ CheckCurrent(r)
  <2>1. PICK pc \in ReviewPc \ {"none", "done"} : ReviewGoto(r, pc)
    BY <1>2 DEF StartReview, ReviewFails, CheckMode, CheckCurrent, ReviewPc
  <2>2. Live(r) /\ Before(r) /\ OnlyReview
    BY <1>2 DEF StartReview, ReviewFails, CheckMode, CheckCurrent, Live, Before
  <2> QED BY <1>1, <2>1, <2>2 DEF OnlyReview, sessionVars
<1>3. ASSUME NEW text \in Texts \cup {None}, ReviewAnswers(r, text)
      PROVE  /\ Live(r) /\ Before(r) /\ OnlyReview
             /\ \A q \in Review \ {r} : review'[q] = review[q]
             /\ Live(r)' /\ review'[r].agent = review[r].agent
  <2>1. review[r] \in ReviewRecord /\ review' = [review EXCEPT ![r] = [review[r] EXCEPT !.pc = "recheck", !.text = text]]
    BY <1>3 DEF ReviewAnswers, TypeOK
  <2>2. \A q \in Review \ {r} : review'[q] = review[q]
    BY <2>1 DEF TypeOK
  <2>3. review'[r] = [review[r] EXCEPT !.pc = "recheck", !.text = text]
    BY <2>1 DEF TypeOK
  <2>4. review'[r].pc = "recheck" /\ review'[r].agent = review[r].agent
    BY <2>1, <2>3, ZenonT(60) DEF ReviewRecord
  <2>5. review[r].pc = "asking" /\ OnlyReview
    BY <1>3 DEF ReviewAnswers
  <2> QED BY <2>2, <2>4, <2>5 DEF Live, Before
<1>4. CASE StoreFeedback(r)
  <2>1. Live(r) /\ Before(r) /\ ReviewGoto(r, "ending")
    BY <1>4 DEF StoreFeedback, Live, Before
  <2>2. "ending" \in ReviewPc \ {"none", "done"}
    BY DEF ReviewPc
  <2>3. ~Before(r)' /\ Live(r)' /\ review'[r].agent = review[r].agent
        /\ \A q \in Review \ {r} : review'[q] = review[q]
    BY <1>1, <2>1, <2>2 DEF Before
  <2>4. UNCHANGED <<superMode, current, nextReview, closed, rootDone, cancelled, turn, spent>>
    BY <1>4 DEF StoreFeedback
  <2> QED BY <1>4, <2>1, <2>3, <2>4
<1>5. CASE EndReview(r)
  <2>1. review'[r] = NoReview("done") /\ \A q \in Review \ {r} : review'[q] = review[q]
    BY <1>5 DEF EndReview, TypeOK
  <2>2. NoReview("done").pc = "done" /\ NoReview("done").agent = None
    BY DEF NoReview
  <2>3. Live(r)
    BY <1>5 DEF EndReview, Live
  <2> QED BY <1>5, <2>1, <2>2, <2>3 DEF EndReview, sessionVars
<1> QED BY <1>2, <1>3, <1>4, <1>5 DEF ReviewStep, OnlyReview, sessionVars

LEMMA TurnSteps ==
  ASSUME TypeOK, NEW t \in Turn, TurnStep(t)
  PROVE  /\ \A s \in Turn \ {t} : turn'[s] = turn[s]
         /\ UNCHANGED <<superMode, source>>
         /\ \/ UNCHANGED <<current, nextReview, closed, rootDone, cancelled, review>>
            \/ Launch(t) /\ BeginReview(turn[t].agent)
<1>1. \A s \in Turn \ {t} : turn'[s] = turn[s]
  <2>1. ASSUME NEW a \in Agents, StartOnCopy(t, a) \/ StartOnSession(t, a)
        PROVE  \E rec : turn' = [turn EXCEPT ![t] = rec]
    BY <2>1 DEF StartOnCopy, StartOnSession
  <2>2. CASE ReadText(t)
    <3>1. turn' = [turn EXCEPT ![t] =
                     [turn[t] EXCEPT !.pc = "ready", !.injected = feedback[turn[t].agent],
                        !.from = IF feedback[turn[t].agent] = None
                                 THEN 0 ELSE source[turn[t].agent]]]
      BY <2>2 DEF ReadText, TypeOK
    <3> QED BY <3>1 DEF TypeOK
  <2>3. CASE ReadReady(t)
    <3>1. \/ turn' = [turn EXCEPT ![t] = [turn[t] EXCEPT !.pc = "running"]]
          \/ turn' = [turn EXCEPT ![t] =
                        [turn[t] EXCEPT !.pc = "running", !.injected = None, !.from = 0]]
      BY <2>3 DEF ReadReady, TypeOK
    <3> QED BY <3>1 DEF TypeOK
  <2>4. CASE TurnFails(t) \/ Match(t) \/ ClearText(t) \/ ClearReady(t) \/ Launch(t)
    BY <2>4 DEF TurnFails, Match, ClearText, ClearReady, Launch, TurnGoto, TurnEnds, TypeOK
  <2>5. ASSUME NEW b \in BOOLEAN, TurnSucceeds(t, b)
        PROVE  \A s \in Turn \ {t} : turn'[s] = turn[s]
    BY <2>5 DEF TurnSucceeds, TypeOK
  <2> QED BY <2>1, <2>2, <2>3, <2>4, <2>5 DEF TurnStep, TypeOK
<1>2. UNCHANGED <<superMode, source>>
  BY DEF TurnStep, StartOnCopy, StartOnSession, ReadText, ReadReady, TurnFails, TurnSucceeds,
         Match, ClearText, ClearReady, Launch, TurnEnds, sessionVars
<1>3. UNCHANGED reviewVars \/ (Launch(t) /\ BeginReview(turn[t].agent))
  <2>1. CASE Launch(t)
    BY <2>1 DEF Launch
  <2>2. CASE ~Launch(t)
    BY <2>2 DEF TurnStep, StartOnCopy, StartOnSession, ReadText, ReadReady, TurnFails,
       TurnSucceeds, Match, ClearText, ClearReady, reviewVars
  <2> QED BY <2>1, <2>2
<1> QED BY <1>1, <1>2, <1>3 DEF reviewVars

\* The review that begins, and the others.
LEMMA Beginning ==
  ASSUME TypeOK, NEW a, BeginReview(a)
  PROVE  /\ nextReview + 1 \in Review
         /\ review'[nextReview + 1].pc = "start" /\ review'[nextReview + 1].agent = a
         /\ \A r \in Review \ {nextReview + 1} : review'[r] = review[r]
<1>1. nextReview + 1 \in Review
  BY ConstantsAssumption DEF TypeOK, BeginReview, Review
<1> QED BY <1>1 DEF TypeOK, BeginReview

---------------------------------------------------------------------------
(* Reviews *)

LEMMA RegisteredStep == Inv /\ [Next]_vars => Registered' /\ ReviewHasAgent'
<1> SUFFICES ASSUME Inv, [Next]_vars PROVE Registered' /\ ReviewHasAgent'
  OBVIOUS
<1>0. /\ TypeOK /\ Registered /\ ReviewHasAgent /\ (\A t \in Turn : Taken(t))
      /\ nextReview \in Nat /\ current \in Nat /\ Review \subseteq Nat \ {0}
      /\ closed \in BOOLEAN /\ rootDone \in BOOLEAN
  BY ConstantsAssumption DEF Inv, Fresh, TypeOK, Review
<1>1. CASE /\ UNCHANGED <<current, nextReview, closed, rootDone, cancelled>>
           /\ \A r \in Review : review'[r].pc = review[r].pc /\ review'[r].agent = review[r].agent
  <2>1. \A r \in Review : Live(r)' = Live(r)
    BY <1>1 DEF Live
  <2>2. /\ \A r \in Review : r > nextReview' => review'[r].pc = "none"
        /\ \A r \in cancelled' : r <= nextReview' /\ (r = nextReview' => closed')
        /\ rootDone' => closed'
    BY <1>0, <1>1 DEF Registered
  <2>3. current' # 0 => current' = nextReview' /\ Live(current)'
    <3> SUFFICES ASSUME current # 0 PROVE current = nextReview /\ Live(current)'
      BY <1>1
    <3>1. current \in Review
      BY <1>0 DEF TypeOK, Review
    <3> QED BY <1>0, <1>1, <3>1 DEF Registered, Live
  <2>4. \A r \in Review : Live(r)' /\ r \notin cancelled' => current' = r
    BY <1>0, <1>1, <2>1 DEF Registered
  <2>5. ReviewHasAgent'
    BY <1>0, <1>1, <2>1 DEF ReviewHasAgent
  <2> QED BY <2>2, <2>3, <2>4, <2>5 DEF Registered
<1>2. CASE UNCHANGED <<current, nextReview, closed, rootDone, cancelled, review>>
  BY <1>1, <1>2
<1>3. CASE SuperOn \/ UNCHANGED vars
  BY <1>2, <1>3 DEF SuperOn, reviewVars, vars
<1>4. CASE SuperOff
  <2>1. \A r \in Review : review'[r].pc = review[r].pc /\ review'[r].agent = review[r].agent
    <3> SUFFICES ASSUME NEW r \in Review
                 PROVE  review'[r].pc = review[r].pc /\ review'[r].agent = review[r].agent
      OBVIOUS
    <3>1. review[r] \in ReviewRecord /\ review'[r] = [review[r] EXCEPT !.off = Live(r)]
      BY <1>0, <1>4 DEF SuperOff, TypeOK
    <3> QED BY <3>1 DEF ReviewRecord
  <2> QED BY <1>1, <1>4, <2>1 DEF SuperOff
<1>5. CASE Close \/ CancelRoot
  <2>1. /\ UNCHANGED <<review, nextReview>> /\ closed' /\ current' \in {0, current}
        /\ \A r \in Review : Live(r)' = Live(r)
    BY <1>0, <1>5 DEF Close, CancelRoot, Live, TypeOK
  <2>2. \A r \in Review : Live(r)' => r \in cancelled' \/ current' = r
    <3>1. \A r \in Review : Live(r) => r \in 1 .. nextReview
      BY <1>0 DEF Registered, Live
    <3> QED BY <1>0, <1>5, <2>1, <3>1 DEF Close, CancelRoot, Registered
  <2>3. \A r \in cancelled' : r <= nextReview'
    BY <1>0, <1>5 DEF Close, CancelRoot, Registered
  <2>4. current' # 0 => current' = nextReview' /\ Live(current)'
    BY <1>0, <2>1 DEF Registered, Live
  <2>5. ReviewHasAgent'
    BY <1>0, <2>1 DEF ReviewHasAgent
  <2>6. \A r \in Review : r > nextReview' => review'[r].pc = "none"
    BY <1>0, <2>1 DEF Registered
  <2> QED BY <2>1, <2>2, <2>3, <2>4, <2>5, <2>6 DEF Registered
<1>6. ASSUME NEW t \in Turn, Launch(t), BeginReview(turn[t].agent)
      PROVE  Registered' /\ ReviewHasAgent'
  <2> DEFINE n == nextReview + 1
             a == turn[t].agent
  <2>1. /\ n \in Review /\ n \in Nat /\ review'[n].pc = "start" /\ review'[n].agent = a
        /\ \A r \in Review \ {n} : review'[r] = review[r]
    BY <1>0, <1>6, Beginning
  <2>2. a \in Agents
    BY <1>0, <1>6 DEF Launch, Taken
  <2>3. /\ nextReview' = n /\ current' = n /\ UNCHANGED <<closed, rootDone>>
        /\ cancelled' = cancelled \cup ({current} \ {0}) \cup (IF rootDone THEN {n} ELSE {})
    BY <1>6 DEF BeginReview
  <2>4. ReviewHasAgent'
    BY <1>0, <2>1, <2>2 DEF ReviewHasAgent, Live
  <2>5. /\ \A r \in Review : r > n => review'[r].pc = "none"
        /\ review'[n].pc \notin {"none", "done"}
    BY <1>0, <2>1 DEF Registered
  <2>6. \A r \in cancelled' : r <= n /\ (r = n => closed)
    BY <1>0, <2>3 DEF Registered, TypeOK
  <2>7. ASSUME NEW r \in Review, Live(r)', r \notin cancelled' PROVE r = n
    <3> SUFFICES ASSUME r # n PROVE FALSE
      OBVIOUS
    <3>1. Live(r) /\ r \notin cancelled
      BY <2>1, <2>3, <2>7 DEF Live
    <3> QED BY <1>0, <2>3, <2>7, <3>1 DEF Registered
  <2>8. /\ \A r \in Review : r > nextReview' => review'[r].pc = "none"
        /\ \A r \in cancelled' : r <= nextReview' /\ (r = nextReview' => closed')
        /\ current' # 0 => current' = nextReview' /\ Live(current)'
        /\ \A r \in Review : Live(r)' /\ r \notin cancelled' => current' = r
        /\ rootDone' => closed'
    BY <1>0, <2>3, <2>5, <2>6, <2>7 DEF Live, Registered
  <2> QED BY <2>4, <2>8 DEF Registered
<1>7. ASSUME NEW r \in Review, ReviewStep(r) PROVE Registered' /\ ReviewHasAgent'
  <2>1. /\ Live(r) /\ \A q \in Review \ {r} : review'[q] = review[q]
        /\ UNCHANGED <<nextReview, closed, rootDone, cancelled>>
        /\ \/ EndReview(r) /\ review'[r].pc = "done"
           \/ Live(r)' /\ review'[r].agent = review[r].agent /\ current' = current
    BY <1>0, <1>7, ReviewSteps
  <2>2. r <= nextReview
    BY <1>0, <2>1 DEF Registered, Live
  <2>5. rootDone' => closed'
    <3>1. rootDone => closed
      BY <1>0 DEF Registered
    <3> QED BY <2>1, <3>1
  <2>3. CASE Live(r)' /\ review'[r].agent = review[r].agent /\ current' = current
    <3>1. \A q \in Review : Live(q)' = Live(q)
      BY <2>1, <2>3 DEF Live
    <3>2. \A q \in Review : q > nextReview' => review'[q].pc = "none"
      BY <1>0, <2>1, <2>2 DEF Registered
    <3>3. \A q \in cancelled' : q <= nextReview' /\ (q = nextReview' => closed')
      BY <1>0, <2>1 DEF Registered
    <3>4. ReviewHasAgent'
      BY <1>0, <2>1, <2>3, <3>1 DEF ReviewHasAgent
    <3>5. current' # 0 => current' = nextReview' /\ Live(current)'
      <4> SUFFICES ASSUME current # 0 PROVE current = nextReview /\ Live(current)'
        BY <2>1, <2>3
      <4>1. current \in Review
        BY <1>0 DEF TypeOK, Review
      <4> QED BY <1>0, <2>1, <2>3, <4>1 DEF Registered, Live
    <3>6. \A q \in Review : Live(q)' /\ q \notin cancelled' => current' = q
      BY <1>0, <2>1, <2>3, <3>1 DEF Registered
    <3> QED BY <3>2, <3>3, <3>4, <3>5, <3>6, <2>5 DEF Registered
  <2>4. CASE EndReview(r) /\ review'[r].pc = "done"
    <3>1. current' = IF current = r THEN 0 ELSE current
      BY <2>4 DEF EndReview
    <3>2. ~Live(r)'
      BY <2>4 DEF Live
    <3>3. \A q \in Review : Live(q)' => q # r /\ Live(q)
      BY <2>1, <3>2 DEF Live
    <3>4. \A q \in Review : q > nextReview' => review'[q].pc = "none"
      BY <1>0, <2>1, <2>2 DEF Registered
    <3>5. \A q \in cancelled' : q <= nextReview' /\ (q = nextReview' => closed')
      BY <1>0, <2>1 DEF Registered
    <3>6. ReviewHasAgent'
      BY <1>0, <2>1, <3>3 DEF ReviewHasAgent
    <3>7. current' # 0 => current' = nextReview' /\ Live(current)'
      <4> SUFFICES ASSUME current # 0, current # r PROVE current = nextReview /\ Live(current)'
        BY <2>1, <3>1
      <4>1. current \in Review
        BY <1>0 DEF TypeOK, Review
      <4>2. current' = current /\ review'[current] = review[current]
        BY <2>1, <3>1, <4>1
      <4> QED BY <1>0, <4>2 DEF Registered, Live
    <3>8. \A q \in Review : Live(q)' /\ q \notin cancelled' => current' = q
      BY <1>0, <2>1, <3>1, <3>3 DEF Registered
    <3> QED BY <3>4, <3>5, <3>6, <3>7, <3>8, <2>5 DEF Registered
  <2> QED BY <2>1, <2>3, <2>4
<1>8. CASE \E t \in Turn : TurnStep(t)
  BY <1>0, <1>2, <1>6, <1>8, TurnSteps
<1> QED BY <1>3, <1>4, <1>5, <1>7, <1>8 DEF Next

---------------------------------------------------------------------------
(* Super mode off *)

LEMMA OffStep == Inv /\ [Next]_vars => NothingPendingWhenOff'
<1> SUFFICES ASSUME Inv, [Next]_vars PROVE NothingPendingWhenOff'
  OBVIOUS
<1>0. TypeOK /\ NothingPendingWhenOff /\ \A t \in Turn : Taken(t)
  BY DEF Inv, Fresh
<1>1. CASE UNCHANGED <<superMode, feedback, ready>>
  BY <1>0, <1>1 DEF NothingPendingWhenOff
<1>2. CASE SuperOn \/ SuperOff
  BY <1>2 DEF SuperOn, SuperOff, NothingPendingWhenOff
<1>3. CASE Close \/ CancelRoot \/ UNCHANGED vars
  BY <1>1, <1>3 DEF Close, CancelRoot, sessionVars, vars
<1>4. ASSUME NEW t \in Turn, TurnStep(t) PROVE NothingPendingWhenOff'
  <2>1. CASE ClearText(t) \/ ClearReady(t)
    BY <1>0, <2>1 DEF ClearText, ClearReady, NothingPendingWhenOff, TypeOK
  <2>2. CASE ~ClearText(t) /\ ~ClearReady(t)
    BY <1>1, <1>4, <2>2 DEF TurnStep, StartOnCopy, StartOnSession, ReadText, ReadReady,
       TurnFails, TurnSucceeds, Match, Launch, TurnEnds, sessionVars
  <2> QED BY <2>1, <2>2
<1>5. ASSUME NEW r \in Review, ReviewStep(r) PROVE NothingPendingWhenOff'
  <2>1. CASE StoreFeedback(r)
    BY <1>0, <2>1 DEF StoreFeedback, NothingPendingWhenOff
  <2>2. CASE ~StoreFeedback(r)
    BY <1>1, <1>5, <2>2 DEF ReviewStep, StartReview, ReviewFails, ReviewAnswers, CheckMode,
       CheckCurrent, EndReview, OnlyReview, sessionVars
  <2> QED BY <2>1, <2>2
<1> QED BY <1>2, <1>3, <1>4, <1>5 DEF Next

---------------------------------------------------------------------------
(* The way of the feedback *)

\* Feedback only disappears.
Wanes ==
  /\ source' = source
  /\ \A a \in Agents : feedback'[a] \in {None, feedback[a]} /\ (ready'[a] => ready[a])

LEMMA FreshKept ==
  ASSUME Fresh, Wanes, UNCHANGED <<turn, spent>>, \A r \in Review : Before(r)' => Before(r)
  PROVE  Fresh'
<1>1. StoredOnce'
  BY DEF Fresh, StoredOnce, Wanes
<1>2. ReadyIsFresh'
  BY DEF Fresh, ReadyIsFresh, Wanes
<1>3. ASSUME NEW t \in Turn PROVE Taken(t)'
  BY DEF Fresh, Taken, Wanes
<1> QED BY <1>1, <1>2, <1>3 DEF Fresh

\* One turn goes on, and no review begins or stores.
LEMMA FreshTurn ==
  ASSUME Fresh, Wanes, UNCHANGED <<review, spent>>,
         NEW t \in Turn, \A s \in Turn \ {t} : turn'[s] = turn[s], Taken(t)'
  PROVE  Fresh'
<1>1. StoredOnce'
  BY DEF Fresh, StoredOnce, Wanes, Before
<1>2. ReadyIsFresh'
  BY DEF Fresh, ReadyIsFresh, Wanes
<1>3. ASSUME NEW s \in Turn PROVE Taken(s)'
  <2>1. CASE s = t
    BY <2>1
  <2>2. CASE s # t
    <3>1. turn'[s] = turn[s] /\ Taken(s)
      BY <2>2 DEF Fresh
    <3> QED BY <3>1 DEF Taken, Wanes, Before
  <2> QED BY <2>1, <2>2
<1> QED BY <1>1, <1>2, <1>3 DEF Fresh

LEMMA FreshStore ==
  ASSUME TypeOK, ReviewHasAgent, Fresh, NEW r \in Review, ReviewStep(r)
  PROVE  Fresh'
<1>1. /\ \A q \in Review : Before(q)' => Before(q)
      /\ UNCHANGED <<turn, spent>>
      /\ \/ StoreFeedback(r) /\ Before(r) /\ ~Before(r)'
         \/ UNCHANGED <<feedback, ready, source>>
  <2>1. /\ \A q \in Review \ {r} : review'[q] = review[q]
        /\ UNCHANGED <<turn, spent>>
        /\ \/ EndReview(r) /\ review'[r].pc = "done"
           \/ /\ Before(r)' => Before(r)
              /\ \/ StoreFeedback(r) /\ Before(r) /\ ~Before(r)'
                 \/ UNCHANGED <<feedback, ready, source>>
    BY ReviewSteps
  <2>2. ASSUME NEW q \in Review \ {r} PROVE Before(q)' = Before(q)
    BY <2>1 DEF Before
  <2>3. CASE EndReview(r) /\ review'[r].pc = "done"
    <3>1. ~Before(r)' /\ UNCHANGED <<feedback, ready, source>>
      BY <2>3 DEF Before, EndReview, sessionVars
    <3> QED BY <2>1, <2>2, <3>1
  <2> QED BY <2>1, <2>2, <2>3
<1>2. CASE UNCHANGED <<feedback, ready, source>>
  <2>1. Wanes
    BY <1>2 DEF Wanes
  <2> QED BY <1>1, <2>1, FreshKept
<1>3. CASE StoreFeedback(r) /\ Before(r) /\ ~Before(r)' /\ superMode
  <2> DEFINE a == review[r].agent
  <2>1. a \in Agents
    BY <1>3 DEF StoreFeedback, ReviewHasAgent, Live
  <2>2. /\ feedback' = [feedback EXCEPT ![a] = review[r].text]
        /\ ready' = [ready EXCEPT ![a] = review[r].text # None]
        /\ source' = [source EXCEPT ![a] = r]
    BY <1>3 DEF StoreFeedback
  <2>3. /\ source'[a] = r /\ r \notin spent
        /\ \A b \in Agents \ {a} : /\ source'[b] = source[b] /\ source'[b] # r
                                   /\ feedback'[b] = feedback[b] /\ ready'[b] = ready[b]
    BY <1>3, <2>1, <2>2 DEF TypeOK, Fresh, StoredOnce
  <2>4. \A q \in Review : Before(q)' => q # r /\ Before(q)
    BY <1>1, <1>3
  <2>5. StoredOnce'
    <3>1. \A q \in Review : Before(q)' => q \notin spent' /\ \A b \in Agents : source'[b] # q
      BY <1>1, <2>3, <2>4 DEF Fresh, StoredOnce
    <3>2. \A b, c \in Agents : source'[b] = source'[c] /\ source'[b] # 0 => b = c
      BY <2>3 DEF Fresh, StoredOnce
    <3> QED BY <3>1, <3>2 DEF StoredOnce
  <2>6. ReadyIsFresh'
    BY <1>1, <2>3 DEF Fresh, ReadyIsFresh
  <2>7. ASSUME NEW t \in Turn PROVE Taken(t)'
    <3>1. Taken(t) /\ turn' = turn
      BY <1>1 DEF Fresh
    <3>2. turn[t].from # r \/ turn[t].from = 0
      BY <1>3, <3>1 DEF Taken
    <3> QED BY <2>3, <2>4, <3>1, <3>2 DEF Taken
  <2> QED BY <2>5, <2>6, <2>7 DEF Fresh
<1> QED BY <1>1, <1>2, <1>3 DEF StoreFeedback

\* A turn that finishes: what it took has served.
LEMMA FreshLaunch ==
  ASSUME TypeOK, Registered, Fresh, NEW t \in Turn, Launch(t)
  PROVE  Fresh'
<1> DEFINE from == turn[t].from
<1>1. /\ Taken(t) /\ turn[t].pc = "launch"
      /\ spent' = spent \cup ({from} \ {0})
      /\ UNCHANGED <<feedback, ready, source>>
      /\ turn'[t] = NoTurn("done") /\ \A s \in Turn \ {t} : turn'[s] = turn[s]
  BY DEF Launch, TurnEnds, Fresh, sessionVars, TypeOK
<1>2. \A r \in Review : Before(r)' => Before(r)
  <2>1. CASE BeginReview(turn[t].agent)
    <3>1. /\ nextReview + 1 \in Review
          /\ \A r \in Review \ {nextReview + 1} : review'[r] = review[r]
      BY <2>1, Beginning
    <3>2. nextReview \in Nat /\ nextReview + 1 > nextReview
      BY ConstantsAssumption DEF TypeOK
    <3>3. Before(nextReview + 1)
      BY <3>1, <3>2 DEF Registered, Before
    <3> QED BY <3>1, <3>3 DEF Before
  <2>2. CASE UNCHANGED reviewVars
    BY <2>2 DEF reviewVars, Before
  <2> QED BY <2>1, <2>2 DEF Launch
<1>3. StoredOnce'
  BY <1>1, <1>2 DEF Fresh, StoredOnce, Taken
<1>4. ReadyIsFresh'
  BY <1>1 DEF Fresh, ReadyIsFresh, Taken
<1>5. ASSUME NEW s \in Turn PROVE Taken(s)'
  <2>1. CASE s = t
    BY <1>1, <2>1 DEF Taken, NoTurn
  <2>2. CASE s # t
    <3>1. turn'[s] = turn[s] /\ Taken(s)
      BY <1>1, <2>2 DEF Fresh
    <3> QED BY <1>1, <1>2, <3>1 DEF Taken
  <2> QED BY <2>1, <2>2
<1> QED BY <1>3, <1>4, <1>5 DEF Fresh

LEMMA FreshTurnStep ==
  ASSUME TypeOK, Registered, Fresh, NEW t \in Turn, TurnStep(t)
  PROVE  Fresh'
<1> DEFINE a == turn[t].agent
<1>0. /\ Taken(t) /\ turn[t] \in TurnRecord
      /\ \A s \in Turn \ {t} : turn'[s] = turn[s]
  BY TurnSteps DEF TypeOK, Fresh
<1>1. CASE Launch(t)
  BY <1>1, FreshLaunch
<1> SUFFICES ASSUME ~Launch(t)
             PROVE  Wanes /\ UNCHANGED <<review, spent>> /\ Taken(t)'
  BY <1>0, <1>1, FreshTurn
<1>2. UNCHANGED <<source, review, spent>>
  BY DEF TurnStep, StartOnCopy, StartOnSession, ReadText, ReadReady, TurnFails, TurnSucceeds,
     Match, ClearText, ClearReady, sessionVars, reviewVars
<1>3. UNCHANGED <<feedback, ready>> \/ ClearText(t) \/ ClearReady(t)
  BY DEF TurnStep, StartOnCopy, StartOnSession, ReadText, ReadReady, TurnFails, TurnSucceeds,
     Match, sessionVars
<1>4. Wanes
  <2>1. CASE UNCHANGED <<feedback, ready>>
    BY <1>2, <2>1 DEF Wanes
  <2>2. CASE ClearText(t) \/ ClearReady(t)
    BY <1>2, <2>2 DEF Wanes, ClearText, ClearReady, TypeOK
  <2> QED BY <1>3, <2>1, <2>2
<1> SUFFICES Taken(t)'
  BY <1>2, <1>4
<1>5. ASSUME NEW b \in Agents, StartOnCopy(t, b) PROVE Taken(t)'
  <2>1. /\ turn'[t].pc = "running" /\ turn'[t].agent = b
        /\ \/ turn'[t].injected = feedback[b] /\ feedback[b] # None /\ turn'[t].from = source[b]
           \/ turn'[t].from = 0
    BY <1>5 DEF StartOnCopy, TypeOK
  <2>2. UNCHANGED <<feedback, ready, source, review>>
    BY <1>5 DEF StartOnCopy, sessionVars, reviewVars
  <2> QED BY <2>1, <2>2 DEF Taken, Fresh, StoredOnce, Before
<1>6. ASSUME NEW b \in Agents, StartOnSession(t, b) PROVE Taken(t)'
  <2>1. /\ turn'[t].pc \in {"text", "running"} /\ turn'[t].agent = b /\ turn'[t].from = 0
    BY <1>6 DEF StartOnSession, TypeOK
  <2> QED BY <2>1 DEF Taken
<1>7. CASE ReadText(t)
  <2>1. /\ turn[t].pc = "text" /\ UNCHANGED <<feedback, ready, source, review>>
    BY <1>7 DEF ReadText, sessionVars, reviewVars
  <2>2. turn'[t] = [turn[t] EXCEPT !.pc = "ready", !.injected = feedback[a],
                                   !.from = IF feedback[a] = None THEN 0 ELSE source[a]]
    BY <1>7 DEF ReadText, TypeOK
  <2>3. /\ turn'[t].pc = "ready" /\ turn'[t].agent = a /\ turn'[t].injected = feedback[a]
        /\ turn'[t].from = IF feedback[a] = None THEN 0 ELSE source[a]
    BY <1>0, <2>2 DEF TurnRecord
  <2>4. a \in Agents
    BY <1>0, <2>1 DEF Taken
  <2> QED BY <2>1, <2>3, <2>4 DEF Taken, Fresh, StoredOnce, Before
<1>8. CASE ReadReady(t)
  <2>1. /\ turn[t].pc = "ready" /\ UNCHANGED <<feedback, ready, source, review>>
    BY <1>8 DEF ReadReady, sessionVars, reviewVars
  <2>2. \/ turn'[t] = [turn[t] EXCEPT !.pc = "running"]
        \/ turn'[t] = [turn[t] EXCEPT !.pc = "running", !.injected = None, !.from = 0]
    BY <1>8 DEF ReadReady, TypeOK
  <2>3. /\ turn'[t].pc = "running" /\ turn'[t].agent = a
        /\ \/ turn'[t].injected = turn[t].injected /\ turn'[t].from = turn[t].from
           \/ turn'[t].injected = None /\ turn'[t].from = 0
    BY <1>0, <2>2 DEF TurnRecord
  <2> QED BY <1>0, <2>1, <2>3 DEF Taken, Before
<1>9. CASE TurnFails(t)
  <2>1. turn'[t] = NoTurn("done")
    BY <1>9 DEF TurnFails, TypeOK
  <2> QED BY <2>1 DEF Taken, NoTurn
<1>10. ASSUME NEW b \in BOOLEAN, TurnSucceeds(t, b) PROVE Taken(t)'
  <2>1. /\ turn[t].pc = "running" /\ UNCHANGED <<feedback, ready, source, review>>
    BY <1>10 DEF TurnSucceeds, sessionVars, reviewVars
  <2>2. turn'[t] = [turn[t] EXCEPT
                      !.pc = IF turn[t].injected # None THEN "match" ELSE "launch", !.output = b]
    BY <1>10 DEF TurnSucceeds, TypeOK
  <2>3. /\ turn'[t].pc = IF turn[t].injected # None THEN "match" ELSE "launch"
        /\ turn'[t].agent = a /\ turn'[t].injected = turn[t].injected
        /\ turn'[t].from = turn[t].from
    BY <1>0, <2>2 DEF TurnRecord
  <2> QED BY <1>0, <2>1, <2>3 DEF Taken, Before
<1>11. ASSUME NEW pc \in {"launch", "clearText", "clearReady"}, TurnGoto(t, pc),
              turn[t].pc \notin {"idle", "done"},
              pc = "launch" /\ ready'[a] /\ feedback'[a] # None => feedback[a] # turn[t].injected
       PROVE  Taken(t)'
  <2>1. turn'[t] = [turn[t] EXCEPT !.pc = pc]
    BY <1>11 DEF TurnGoto, TypeOK
  <2>2. /\ turn'[t].pc = pc /\ turn'[t].agent = a /\ turn'[t].injected = turn[t].injected
        /\ turn'[t].from = turn[t].from
    BY <1>0, <2>1 DEF TurnRecord
  <2>3. a \in Agents /\ source' = source /\ (\A r \in Review : Before(r)' = Before(r))
    BY <1>0, <1>2, <1>11 DEF Taken, Before
  <2>4. feedback'[a] \in {None, feedback[a]} /\ (ready'[a] => ready[a])
    BY <1>4, <2>3 DEF Wanes
  <2> QED BY <1>0, <1>11, <2>2, <2>3, <2>4 DEF Taken
<1>12. CASE Match(t)
  BY <1>11, <1>12 DEF Match, sessionVars
<1>13. CASE ClearText(t)
  BY <1>11, <1>13 DEF ClearText
<1>14. CASE ClearReady(t)
  <2>1. a \in Agents
    BY <1>0, <1>14 DEF Taken, ClearReady
  <2>2. ~ready'[a]
    BY <1>14, <2>1 DEF ClearReady, TypeOK
  <2> QED BY <1>11, <1>14, <2>2 DEF ClearReady
<1> QED BY <1>5, <1>6, <1>7, <1>8, <1>9, <1>10, <1>12, <1>13, <1>14 DEF TurnStep

LEMMA FreshStep == Inv /\ [Next]_vars => Fresh'
<1> SUFFICES ASSUME Inv, [Next]_vars PROVE Fresh'
  OBVIOUS
<1>0. TypeOK /\ ReviewHasAgent /\ Registered /\ Fresh
  BY DEF Inv
<1>1. CASE SuperOn \/ Close \/ CancelRoot \/ UNCHANGED vars
  <2>1. UNCHANGED <<feedback, ready, source, turn, spent, review>>
    BY <1>1 DEF SuperOn, Close, CancelRoot, sessionVars, reviewVars, vars
  <2>2. Wanes /\ \A r \in Review : Before(r)' => Before(r)
    BY <2>1 DEF Wanes, Before
  <2> QED BY <1>0, <2>1, <2>2, FreshKept
<1>2. CASE SuperOff
  <2>1. Wanes /\ UNCHANGED <<turn, spent>>
    BY <1>2 DEF SuperOff, Wanes
  <2>2. ASSUME NEW r \in Review PROVE Before(r)' => Before(r)
    <3>1. review[r] \in ReviewRecord /\ review'[r] = [review[r] EXCEPT !.off = Live(r)]
      BY <1>0, <1>2 DEF SuperOff, TypeOK
    <3>2. review'[r].pc = review[r].pc
      BY <3>1 DEF ReviewRecord
    <3> QED BY <3>2 DEF Before
  <2> QED BY <1>0, <2>1, <2>2, FreshKept
<1>3. CASE \E t \in Turn : TurnStep(t)
  BY <1>0, <1>3, FreshTurnStep
<1>4. CASE \E r \in Review : ReviewStep(r)
  BY <1>0, <1>4, FreshStore
<1> QED BY <1>1, <1>2, <1>3, <1>4 DEF Next

---------------------------------------------------------------------------
(* The theorems *)

LEMMA InitInv == Init => Inv
<1> SUFFICES ASSUME Init PROVE Inv
  OBVIOUS
<1>1. 0 \in 0 .. Turns /\ Review \subseteq Nat \ {0}
  BY ConstantsAssumption DEF Review
<1>2. /\ \A t \in Turn : /\ turn[t] = NoTurn("idle")
                         /\ turn[t].pc = "idle" /\ turn[t].from = 0 /\ turn[t].injected = None
      /\ \A r \in Review : review[r] = NoReview("none") /\ review[r].pc = "none"
  BY DEF Init, NoTurn, NoReview
<1>3. TypeOK
  <2>1. turn \in [Turn -> TurnRecord]
    BY <1>1 DEF Init, NoTurn, TurnRecord, TurnPc
  <2>2. review \in [Review -> ReviewRecord]
    BY DEF Init, NoReview, ReviewRecord, ReviewPc
  <2> QED BY <1>1, <2>1, <2>2 DEF Init, TypeOK
<1>4. ReviewHasAgent /\ NothingPendingWhenOff
  BY <1>2 DEF Init, ReviewHasAgent, NothingPendingWhenOff, Live
<1>5. Registered
  BY <1>2 DEF Init, Registered, Live
<1>6. Fresh
  BY <1>1, <1>2 DEF Init, Fresh, StoredOnce, Taken, ReadyIsFresh
<1> QED BY <1>3, <1>4, <1>5, <1>6 DEF Inv

\* The invariant holds throughout.
THEOREM Invariance == Spec => []Inv
<1>1. Inv /\ [Next]_vars => Inv'
  BY TypeStep, RegisteredStep, OffStep, FreshStep DEF Inv
<1> QED BY <1>1, InitInv, PTL DEF Spec

\* Every variable of SuperReview keeps its type.
THEOREM TypeCorrect == Spec => []TypeOK
<1> QED BY Invariance, PTL DEF Inv

\* While super mode is off no feedback waits in the session, whatever reviews
\* end and turns clear after setSuperMode(false).
THEOREM OffIsClean == Spec => []NothingPendingWhenOff
<1> QED BY Invariance, PTL DEF Inv

\* begin- and endSuperPeerReview keep the newest review registered until it
\* ends, unless it is cancelled, and never an older one.
THEOREM NewestRegistered == Spec => []NewestIsRegistered
<1>1. Inv => NewestIsRegistered
  BY DEF Inv, Registered, NewestIsRegistered
<1> QED BY <1>1, Invariance, PTL

\* Of the reviews that are not cancelled at most one is not done.
THEOREM OneReview == Spec => []OneReviewWorks
<1>1. Inv => OneReviewWorks
  BY DEF Inv, Registered, OneReviewWorks
<1> QED BY <1>1, Invariance, PTL

\* Feedback that waits in the session has not served a finished turn: turns
\* that end together with reviews and each other clear what they have used.
THEOREM WaitingIsFresh == Spec => []ReadyIsFresh
<1> QED BY Invariance, PTL DEF Inv, Fresh

\* The goroutine of a review goes on by its own steps only.
LEMMA OwnSteps ==
  ASSUME Inv, [Next]_vars, NEW r \in Review, review'[r].pc # review[r].pc
  PROVE  ReviewStep(r) \/ review'[r].pc = "start"
<1>0. TypeOK
  BY DEF Inv
<1>1. CASE SuperOn \/ Close \/ CancelRoot \/ UNCHANGED vars
  BY <1>1 DEF SuperOn, Close, CancelRoot, reviewVars, vars
<1>2. CASE SuperOff
  <2>1. review[r] \in ReviewRecord /\ review'[r] = [review[r] EXCEPT !.off = Live(r)]
    BY <1>0, <1>2 DEF SuperOff, TypeOK
  <2> QED BY <2>1 DEF ReviewRecord
<1>3. ASSUME NEW t \in Turn, TurnStep(t) PROVE review'[r].pc = "start"
  <2>1. BeginReview(turn[t].agent)
    BY <1>0, <1>3, TurnSteps
  <2> QED BY <1>0, <2>1, Beginning
<1>4. ASSUME NEW q \in Review, ReviewStep(q) PROVE q = r
  BY <1>0, <1>4, ReviewSteps
<1> QED BY <1>1, <1>2, <1>3, <1>4 DEF Next

\* Only the newest review gets as far as storing its feedback.
THEOREM NewestStores == Spec => OnlyNewestStores
<1>1. ASSUME Inv, [Next]_vars, NEW r \in Review, review[r].pc # "store", review'[r].pc = "store"
      PROVE  r = nextReview
  <2>1. TypeOK /\ Registered /\ r # 0
    BY <1>1, ConstantsAssumption DEF Inv, Review
  <2>2. ReviewStep(r)
    BY <1>1, OwnSteps
  <2>3. \A pc : ReviewGoto(r, pc) => review'[r].pc = pc
    BY <2>1 DEF ReviewGoto, TypeOK, ReviewRecord
  <2>4. CheckCurrent(r) /\ current = r
    <3>1. ASSUME NEW text, ReviewAnswers(r, text) PROVE FALSE
      <4>1. review[r] \in ReviewRecord
            /\ review'[r] = [review[r] EXCEPT !.pc = "recheck", !.text = text]
        BY <2>1, <3>1 DEF ReviewAnswers, TypeOK
      <4> QED BY <1>1, <4>1 DEF ReviewRecord
    <3>2. ~EndReview(r)
      BY <1>1, <2>1 DEF EndReview, NoReview, TypeOK
    <3> QED BY <1>1, <2>2, <2>3, <3>1, <3>2 DEF ReviewStep, StartReview, ReviewFails, CheckMode,
               CheckCurrent, StoreFeedback
  <2> QED BY <2>1, <2>4 DEF Registered
<1>2. Inv /\ [Next]_vars =>
        [\A r \in Review : review[r].pc # "store" /\ review'[r].pc = "store" => r = nextReview]_vars
  BY <1>1
<1> QED BY <1>2, Invariance, PTL DEF Spec, OnlyNewestStores

\* The answer of the newest review is dropped only when super mode is off or
\* the router closed.
THEOREM AnswerKept == Spec => AnswerNotDropped
<1>1. ASSUME Inv, [Next]_vars, NEW r \in Review, review[r].pc \in {"recheck", "current"},
             review'[r].pc = "ending"
      PROVE  nextReview > r \/ ~superMode \/ closed
  <2>1. TypeOK /\ Registered /\ r \in Nat /\ nextReview \in Nat
    BY <1>1, ConstantsAssumption DEF Inv, TypeOK, Review
  <2>2. ReviewStep(r)
    BY <1>1, OwnSteps
  <2>3. \A pc : ReviewGoto(r, pc) => review'[r].pc = pc
    BY <2>1 DEF ReviewGoto, TypeOK, ReviewRecord
  <2>4. \/ CheckMode(r) /\ ~superMode
        \/ CheckCurrent(r) /\ current # r
    BY <1>1, <2>2, <2>3 DEF ReviewStep, StartReview, ReviewFails, ReviewAnswers, CheckMode,
       CheckCurrent, StoreFeedback, EndReview
  <2>5. CASE CheckCurrent(r) /\ current # r
    <3>1. r \in cancelled
      BY <1>1, <2>1, <2>5 DEF Registered, Live
    <3> QED BY <2>1, <3>1 DEF Registered
  <2> QED BY <2>4, <2>5
<1>2. Inv /\ [Next]_vars =>
        [\A r \in Review : review[r].pc \in {"recheck", "current"} /\ review'[r].pc = "ending"
           => nextReview > r \/ ~superMode \/ closed]_vars
  BY <1>1
<1> QED BY <1>2, Invariance, PTL DEF Spec, AnswerNotDropped

=============================================================================
