--------------------------- MODULE AgentsProofs ---------------------------
(***************************************************************************)
(* Proofs about Agents, for any bounds, any goroutines that write and      *)
(* close, any lengths of what an agent says and any capacities.  Each kind *)
(* of agent has an inductive invariant of its own: CodexInv follows a      *)
(* request to its response, a turn from its input to its end and an answer *)
(* from the app server to the channel; ClaudeInv an approval request from  *)
(* the output of the CLI to the decision; HermesInv what is replayed of a  *)
(* session; CliInv what a CLI writes; TurnInv the deltas of an answer      *)
(* through every queue on their way.                                       *)
(***************************************************************************)
EXTENDS Agents, Sequences, SequenceFacts, TLAPS

-----------------------------------------------------------------------------
(* A live codex session *)

\* What is on its way between the session and the app server, and in the channel.
Kinds == {"init", "thread", "turn"}
CodexRequest == [what : {"decision"}, n : Codex!Ask] \cup [what : Kinds, c : Codex!Callers]
CodexMessage ==
  [what : {"response"}, c : Codex!Callers, n : 1 .. Codex!Turns + 1]
    \cup [what : {"started", "delta", "item", "completed"}, n : Codex!Turn] \cup [what : {"ask"}, n : Codex!Ask]
CodexEvent ==
  [what : {"delta", "item", "completed"}, n : Codex!Turn] \cup [what : {"ask"}, n : Codex!Ask]
    \cup [what : {"error"}, n : {0}]

CodexCalls ==
  /\ call \in [Codex!Callers -> [pc : {"idle", "write", "wait", "store", "drain"},
                           kind : {"none", "init", "thread", "turn"}]]
  /\ sent \in [Codex!Callers -> Nat] /\ sent["turn"] + sent["btw"] <= Sends /\ sent["btw"] <= Injections
  /\ pendingResp \subseteq Codex!Callers /\ response \in [Codex!Callers -> 0 .. Codex!Turns + 1]
  /\ transport \in {"stdio", "websocket"}
  /\ state \in {"starting", "alive", "closing", "closed", "failed"}
CodexWire ==
  /\ toServer \in Seq(CodexRequest) /\ fromServer \in Seq(CodexMessage)
  /\ server \in [up : BOOLEAN, turn : Nat, running : BOOLEAN, deltas : 0 .. Deltas,
                 asked : SUBSET Codex!Ask, asks : 0 .. Approvals]
CodexReader ==
  /\ turnID \in 0 .. Codex!Turns /\ deltaSeen \subseteq Codex!Turn
  /\ reader \in {"read", "emit", "ended"} /\ told \in {"none", "silent", "error"}
  /\ emitting \in Seq(CodexEvent) /\ Len(emitting) = IF reader = "emit" THEN 1 ELSE 0
  /\ events \in Seq(CodexEvent) /\ Len(events) <= Capacity
  /\ out \in [Codex!Turn -> [deltas : Nat, whole : Nat]]
CodexApprovals == slot \in 0 .. Approvals /\ shown \in 0 .. Approvals /\ decided \subseteq Codex!Ask
CodexTyped == CodexCalls /\ CodexWire /\ CodexReader /\ CodexApprovals

\* A caller waits for one response, and its channel is empty but for it.
Busy == {"write", "wait", "store"}
CodexCaller(c) ==
  /\ c \in pendingResp => call[c].pc = "wait"
  /\ response[c] # 0 => call[c].pc \in {"wait", "store"} /\ c \notin pendingResp
  /\ call[c].pc = "store" => response[c] \notin {0, Codex!Refusal}
  /\ call[c].pc \in Busy => call[c].kind \in Kinds
  /\ call[c].pc \in Busy /\ state # "starting" => call[c].kind = "turn"
CodexEarly ==
  /\ state \in {"starting", "failed"} => sent["turn"] = 0 /\ sent["btw"] = 0 /\ call["btw"].pc = "idle"
  /\ state = "starting" => call["turn"].pc \in Busy /\ call["turn"].kind \in {"init", "thread"}
  /\ state = "failed" => call["turn"].pc = "idle"
  /\ server.up => Codex!Open
  /\ sent["btw"] = 0 => call["btw"].pc = "idle"
CodexCalling == CodexEarly /\ \A c \in Codex!Callers : CodexCaller(c)

\* Its request is in one place only.
Of(m, c) == m.what \in {"init", "thread", "turn", "response"} /\ m.c = c
Some(s, c) == \E i \in 1 .. Len(s) : Of(s[i], c)
Sole(s, c) == \A i, j \in 1 .. Len(s) : Of(s[i], c) /\ Of(s[j], c) => i = j
OneRequest(c) ==
  /\ Some(toServer, c) \/ Some(fromServer, c) => call[c].pc = "wait" /\ response[c] = 0
  /\ ~(Some(toServer, c) /\ Some(fromServer, c))
  /\ Sole(toServer, c) /\ Sole(fromServer, c)
CodexRounds == server.up => \A c \in Codex!Callers : OneRequest(c)

\* A turn for an input, at most.
Requested(c) == \E i \in 1 .. Len(toServer) : toServer[i] = Codex!Request("turn", c)
Owing(c) == call[c] = [pc |-> "write", kind |-> "turn"] \/ Requested(c)
Owes(c) == IF Owing(c) THEN 1 ELSE 0
CodexTurns ==
  /\ server.turn <= sent["turn"] + sent["btw"]
  /\ server.up => server.turn + Owes("turn") + Owes("btw") <= sent["turn"] + sent["btw"]
  /\ server.running => server.turn > 0

\* The messages are of turns that have begun.
IsText(m, t) == m.what \in {"delta", "item"} /\ m.n = t
Textual(m) == m.what \in {"delta", "item", "completed"}
Has(s, what, t) == \E i \in 1 .. Len(s) : s[i].what = what /\ s[i].n = t
NoText(s, t) == \A i \in 1 .. Len(s) : ~IsText(s[i], t)
OfTurns(s, n) == \A i \in 1 .. Len(s) : Textual(s[i]) \/ s[i].what = "started" => s[i].n <= n
CodexBegun ==
  /\ OfTurns(fromServer, server.turn) /\ OfTurns(emitting, server.turn) /\ OfTurns(events, server.turn)
  /\ \A t \in deltaSeen : t <= server.turn
  /\ \A t \in Codex!Turn : t > server.turn => out[t].deltas = 0 /\ out[t].whole = 0

\* The answer of a turn: what has been emitted of it, and what may still come.
Dead == reader = "ended" \/ told = "error"
Said(t) == t < server.turn \/ (t = server.turn /\ ~server.running)
ItemEnds(s, t) ==
  \A i, j \in 1 .. Len(s) : s[i].what = "item" /\ s[i].n = t /\ i < j => ~IsText(s[j], t)
Given(t) == out[t].whole = 0 \/ (out[t].whole = 1 /\ out[t].deltas = 0)
WholeLast(t) == out[t].whole > 0 => NoText(emitting, t) /\ NoText(fromServer, t) /\ Said(t)
ItemOnly(t) ==
  Has(emitting, "item", t) =>
    out[t].whole = 0 /\ out[t].deltas = 0 /\ NoText(fromServer, t) /\ Said(t)
DeltasSeen(t) ==
  Has(emitting, "delta", t) \/ out[t].deltas > 0 =>
    t \in deltaSeen \/ (Said(t) /\ ~Has(fromServer, "item", t))
ItemLast(t) == (Has(fromServer, "item", t) => Said(t)) /\ ItemEnds(fromServer, t)
Answer(t) == WholeLast(t) /\ ItemOnly(t) /\ DeltasSeen(t) /\ ItemLast(t)
CodexAnswers == sent["btw"] = 0 /\ ~early => \A t \in Codex!Turn : Given(t) /\ (~Dead => Answer(t))

\* Between turns nothing of a turn is left, and in one nothing comes after its end.
Orderly(s) == \A i, j \in 1 .. Len(s) : s[i].what = "completed" /\ i < j => ~Textual(s[j])
Going(s) == \A i \in 1 .. Len(s) : s[i].what # "completed"
Calm(s) == \A i \in 1 .. Len(s) : ~Textual(s[i])
AllOrderly ==
  /\ Orderly(events) /\ Orderly(fromServer)
  /\ Going(events) \/ (Calm(emitting) /\ Calm(fromServer))
  /\ Going(emitting) \/ Calm(fromServer)
AllGoing == Going(events) /\ Going(emitting) /\ Going(fromServer)
AllCalm == Calm(events) /\ Calm(emitting) /\ Calm(fromServer)
Between ==
  \/ call["turn"].pc \in {"idle", "write"}
  \/ call["turn"].pc = "wait" /\ Requested("turn")
CodexPhase ==
  state = "alive" /\ sent["btw"] = 0 /\ ~early /\ ~Dead =>
    AllOrderly /\ (server.running => AllGoing) /\ (Between => AllCalm /\ ~server.running)

\* How the reading ended.
CodexTold ==
  /\ told = "silent" => reader = "ended" /\ lastRead # "started"
  /\ told = "error" => reader \in {"emit", "ended"}
  /\ told = "error" /\ reader = "emit" => emitting[1].what = "error"
  /\ lastRead = "started" => turnID # 0
Fine(s) == \A i \in 1 .. Len(s) : s[i].what # "error"
CodexErrors == told # "error" => Fine(emitting) /\ Fine(events)

CodexInv ==
  /\ CodexTyped /\ CodexCalling /\ CodexRounds /\ CodexTurns /\ CodexBegun /\ CodexAnswers
  /\ CodexPhase /\ CodexTold /\ CodexErrors

\* What the messages are.
LEMMA CodexMessages ==
  ASSUME Codex!ConstantsAssumption
  PROVE  /\ Codex!Turns \in Nat /\ Sends \in Nat /\ Injections \in Nat /\ Approvals \in Nat /\ Deltas \in Nat
         /\ Codex!Turns = Sends /\ Capacity \in Nat \ {0} /\ Codex!Refusal = Codex!Turns + 1
         /\ \A c \in Codex!Callers, n \in 1 .. Codex!Turns + 1 : Codex!Reply(c, n) \in CodexMessage
         /\ \A n \in Codex!Turn, what \in {"started", "delta", "item", "completed"} : Codex!Message(what, n) \in CodexMessage
         /\ \A n \in Codex!Ask : Codex!Message("ask", n) \in CodexMessage /\ Codex!Message("decision", n) \in CodexRequest
         /\ \A c \in Codex!Callers, kind \in Kinds : Codex!Request(kind, c) \in CodexRequest
         /\ Codex!Message("error", 0) \in CodexEvent
BY DEF Codex!ConstantsAssumption, Codex!Turns, Codex!Turn, Codex!Ask, Codex!Refusal, Codex!Reply, Codex!Message, Codex!Request, CodexMessage, CodexRequest,
       CodexEvent

\* A message of the app server, by its kind.
LEMMA CodexMessageIs ==
  ASSUME NEW m \in CodexMessage
  PROVE  /\ m.what = "response" => m.c \in Codex!Callers /\ m.n \in 1 .. Codex!Turns + 1
         /\ m.what # "response" => m.n \in Nat
         /\ m.what \in {"started", "delta", "item", "completed"} => m.n \in Codex!Turn
         /\ m.what = "ask" => m.n \in Codex!Ask
         /\ m.what \in {"response", "started", "delta", "item", "completed", "ask"}
         /\ m.what \in {"delta", "item", "completed", "ask"} => m \in CodexEvent
BY DEF CodexMessage, CodexEvent, Codex!Turn, Codex!Ask

\* A message to the app server, by its kind.
LEMMA CodexRequestIs ==
  ASSUME NEW m \in CodexRequest
  PROVE  /\ m.what = "decision" => m.n \in Codex!Ask
         /\ m.what # "decision" => m.c \in Codex!Callers /\ m.what \in Kinds /\ m = Codex!Request(m.what, m.c)
         /\ m.what \in Kinds \cup {"decision"}
BY DEF CodexRequest, Kinds, Codex!Request

\* An event, by its kind.
LEMMA CodexEventIs ==
  ASSUME NEW m \in CodexEvent
  PROVE  /\ m.what \in {"delta", "item", "completed"} => m.n \in Codex!Turn
         /\ m.what = "ask" => m.n \in Codex!Ask
         /\ m.what \in {"delta", "item", "completed", "ask", "error"}
BY DEF CodexEvent, Codex!Turn, Codex!Ask

\* The types stay, where nothing changes.
LEMMA CodexTypesStay ==
  /\ CodexCalls /\ UNCHANGED <<call, sent, pendingResp, response, transport, state>> => CodexCalls'
  /\ CodexWire /\ UNCHANGED <<toServer, fromServer, server>> => CodexWire'
  /\ CodexReader /\ UNCHANGED <<turnID, deltaSeen, reader, told, emitting, events, out>> => CodexReader'
  /\ CodexApprovals /\ UNCHANGED <<slot, shown, decided>> => CodexApprovals'
<1>1. CodexCalls /\ UNCHANGED <<call, sent, pendingResp, response, transport, state>> => CodexCalls'
  BY DEF CodexCalls
<1>2. CodexWire /\ UNCHANGED <<toServer, fromServer, server>> => CodexWire'
  BY DEF CodexWire
<1>3. CodexReader /\ UNCHANGED <<turnID, deltaSeen, reader, told, emitting, events, out>> => CodexReader'
  BY DEF CodexReader
<1>4. CodexApprovals /\ UNCHANGED <<slot, shown, decided>> => CodexApprovals'
  BY DEF CodexApprovals
<1> QED
  BY <1>1, <1>2, <1>3, <1>4

\* The types of what a call changes.
LEMMA CodexCallsTyped ==
  ASSUME CodexInv, Codex!ConstantsAssumption, Codex!Next
  PROVE  CodexCalls'
<1>1. /\ CodexCalls /\ CodexCalling /\ CodexWire /\ CodexReader
      /\ Sends \in Nat /\ Injections \in Nat /\ Codex!Turns \in Nat
  BY CodexMessages DEF CodexInv, CodexTyped
<1>2. ASSUME UNCHANGED <<call, sent, pendingResp, response, transport, state>> PROVE CodexCalls'
  BY <1>1, <1>2, CodexTypesStay
<1>4. ASSUME NEW c \in Codex!Callers, Codex!Failed(c), UNCHANGED <<sent, transport>> PROVE CodexCalls'
  BY <1>1, <1>4 DEF CodexCalls, Codex!Failed, Codex!Idle
<1>5. CASE Codex!Send
  BY <1>1, <1>5 DEF Codex!Send, Codex!More, Codex!Begin, CodexCalls, Codex!Callers
<1>6. CASE Codex!Inject
  BY <1>1, <1>6 DEF Codex!Inject, Codex!More, Codex!Begin, CodexCalls, Codex!Callers
<1>7. ASSUME NEW c \in Codex!Callers, Codex!Caller(c) PROVE CodexCalls'
  <2>1. CASE Codex!WriteFails(c) \/ Codex!WaitCancelled(c) \/ Codex!TakeRefusal(c)
    BY <2>1, <1>4 DEF Codex!WriteFails, Codex!WaitCancelled, Codex!TakeRefusal
  <2>2. CASE Codex!Write(c)
    BY <2>2, <1>1 DEF Codex!Write, CodexCalls
  <2>3. CASE Codex!TakeResponse(c)
    BY <2>3, <1>1 DEF Codex!TakeResponse, CodexCalls
  <2>4. CASE Codex!Store(c)
    <3>k. call[c].kind \in {"init", "thread", "turn"}
      BY <2>4, <1>1 DEF Codex!Store, CodexCalling, CodexCaller, Busy, Kinds
    <3>1. /\ UNCHANGED <<sent, pendingResp, transport>> /\ response' = [response EXCEPT ![c] = 0]
          /\ state' \in {state, "alive"}
      BY <2>4, <3>k DEF Codex!Store
    <3>2. call' \in [Codex!Callers -> [pc : {"idle", "write", "wait", "store", "drain"},
                                 kind : {"none", "init", "thread", "turn"}]]
      <4>1. CASE call[c].kind = "init"
        BY <2>4, <4>1, <1>1 DEF Codex!Store, CodexCalls
      <4>2. CASE call[c].kind = "thread"
        BY <2>4, <4>2, <1>1 DEF Codex!Store, CodexCalls, Codex!Idle
      <4>3. CASE call[c].kind = "turn"
        BY <2>4, <4>3, <1>1 DEF Codex!Store, CodexCalls
      <4> QED
        BY <3>k, <4>1, <4>2, <4>3
    <3> QED
      BY <3>1, <3>2, <1>1 DEF CodexCalls
  <2> QED
    BY <1>7, <2>1, <2>2, <2>3, <2>4 DEF Codex!Caller
<1>8. CASE Codex!Fallback
  BY <1>8, <1>1 DEF Codex!Fallback, CodexCalls, Codex!Callers
<1>9. CASE Codex!Read
  <2>1. DEFINE m == Head(fromServer)
  <2>2. m \in CodexMessage /\ UNCHANGED <<call, sent, transport, state>>
    BY <1>9, <1>1, FirstAndRest DEF Codex!Read, CodexWire
  <2>3. CASE m.what = "response"
    <3>1. Codex!Deliver(m) /\ m.c \in Codex!Callers /\ m.n \in 0 .. Codex!Turns + 1
      BY <2>2, <2>3, <1>9, CodexMessageIs DEF Codex!Read
    <3> QED
      BY <3>1, <2>2, <1>1 DEF Codex!Deliver, CodexCalls
  <2>4. CASE m.what # "response"
    BY <2>2, <2>4, <1>2, <1>9 DEF Codex!Read, Codex!Notify
  <2> QED
    BY <2>3, <2>4
<1>10. CASE Codex!Take \/ Codex!Leave
  <2>1. /\ UNCHANGED <<sent, pendingResp, response, transport, state>>
        /\ call' = call \/ call' = [call EXCEPT !["turn"] = [pc |-> "idle", kind |-> "none"]]
    BY <1>10 DEF Codex!Take, Codex!Leave, Codex!Idle
  <2> QED
    BY <2>1, <1>1 DEF CodexCalls
<1>11. CASE Codex!Close \/ Codex!CloseEnds
  BY <1>11, <1>1 DEF Codex!Close, Codex!CloseEnds, CodexCalls, Codex!callVars
<1>12. CASE Codex!DrainEnds
  BY <1>12, <1>1 DEF Codex!DrainEnds, CodexCalls, Codex!Idle
<1>13. CASE \/ \E why \in {"eof", "quiet"} : Codex!ReadFails(why)
            \/ Codex!ReadCancelled \/ Codex!Emit \/ Codex!EmitCancelled \/ Codex!Respond \/ Codex!Server \/ Codex!ServerExits
  BY <1>13, <1>2 DEF Codex!ReadFails, Codex!ReadCancelled, Codex!Emit, Codex!EmitCancelled, Codex!Respond, Codex!Server, Codex!ServerExits, Codex!ServerTakes,
                    Codex!ServerRefuses, Codex!ServerDelta, Codex!ServerAsks, Codex!ServerCompletes, Codex!callVars, Codex!Others
<1> QED
  BY <1>5, <1>6, <1>7, <1>8, <1>9, <1>10, <1>11, <1>12, <1>13 DEF Codex!Next, Codex!Reader

\* A turn can begin as long as one is owed.
LEMMA CodexTurnLeft ==
  ASSUME CodexInv, Codex!ConstantsAssumption, server.up, NEW c \in Codex!Callers, Requested(c)
  PROVE  server.turn + 1 <= sent["turn"] + sent["btw"] /\ server.turn + 1 \in Codex!Turn
<1>1. /\ Owes(c) = 1 /\ Owes("turn") \in {0, 1} /\ Owes("btw") \in {0, 1} /\ c \in {"turn", "btw"}
  BY DEF Owes, Owing, Codex!Callers
<1>2. /\ server.turn \in Nat /\ sent["turn"] \in Nat /\ sent["btw"] \in Nat
      /\ sent["turn"] + sent["btw"] <= Sends /\ sent["btw"] <= Injections
      /\ server.turn + Owes("turn") + Owes("btw") <= sent["turn"] + sent["btw"]
  BY DEF CodexInv, CodexTyped, CodexCalls, CodexWire, CodexTurns, Codex!Callers
<1>3. server.turn + 1 <= sent["turn"] + sent["btw"]
  BY <1>1, <1>2
<1> QED
  BY <1>2, <1>3, CodexMessages DEF Codex!Turn

\* The app server runs a turn that was asked for.
LEMMA CodexTurnsAre ==
  ASSUME CodexInv, Codex!ConstantsAssumption
  PROVE  server.turn \in Nat /\ server.turn <= Codex!Turns /\ (server.running => server.turn \in Codex!Turn)
<1>1. /\ server.turn \in Nat /\ server.turn <= sent["turn"] + sent["btw"] /\ (server.running => server.turn > 0)
      /\ sent["turn"] \in Nat /\ sent["btw"] \in Nat /\ sent["turn"] + sent["btw"] <= Sends /\ sent["btw"] <= Injections
  BY DEF CodexInv, CodexTyped, CodexCalls, CodexWire, CodexTurns, Codex!Callers
<1> QED
  BY <1>1, CodexMessages DEF Codex!Turn

\* What the app server is and what it says.
LEMMA CodexSays ==
  ASSUME CodexWire, NEW ms \in Seq(CodexMessage), Codex!Say(ms)
  PROVE  /\ fromServer' \in Seq(CodexMessage) /\ Len(fromServer') = Len(fromServer) + Len(ms)
         /\ Len(fromServer) \in Nat /\ Len(ms) \in Nat
         /\ \A i \in 1 .. Len(fromServer) : fromServer'[i] = fromServer[i]
         /\ \A i \in 1 .. Len(ms) : fromServer'[Len(fromServer) + i] = ms[i]
<1>1. fromServer \in Seq(CodexMessage) /\ fromServer' = fromServer \o ms
  BY DEF CodexWire, Codex!Say
<1> QED
  BY <1>1, JoinParts

\* What the app server does with a message it takes.
LEMMA CodexServerTakes ==
  ASSUME CodexInv, Codex!ConstantsAssumption, Codex!ServerTakes
  PROVE  /\ toServer' \in Seq(CodexRequest) /\ UNCHANGED Codex!Others
         /\ \/ /\ Head(toServer).what = "decision" /\ UNCHANGED fromServer
               /\ server' = [server EXCEPT !.asked = @ \ {Head(toServer).n}]
            \/ /\ Head(toServer).what \in Kinds /\ Head(toServer).c \in Codex!Callers /\ UNCHANGED server
               /\ Head(toServer).what # "turn" \/ server.running
               /\ \E n \in 1 .. Codex!Turns + 1 : Codex!Say(<<Codex!Reply(Head(toServer).c, n)>>)
            \/ /\ Head(toServer) = Codex!Request("turn", Head(toServer).c) /\ Head(toServer).c \in Codex!Callers
               /\ ~server.running /\ server.turn + 1 \in Codex!Turn
               /\ server' = [server EXCEPT !.turn = @ + 1, !.running = TRUE, !.deltas = 0]
               /\ Codex!Say(<<Codex!Reply(Head(toServer).c, server.turn + 1), Codex!Message("started", server.turn + 1)>>)
<1> DEFINE m == Head(toServer)
<1>1. toServer \in Seq(CodexRequest) /\ toServer # <<>> /\ server.up /\ Codex!Turns \in Nat /\ server.turn \in Nat
      /\ server.turn <= Codex!Turns /\ toServer' = Tail(toServer) /\ UNCHANGED Codex!Others
  <2>1. /\ toServer \in Seq(CodexRequest) /\ server.turn \in Nat /\ server.turn <= sent["turn"] + sent["btw"]
        /\ sent["turn"] \in Nat /\ sent["btw"] \in Nat /\ sent["turn"] + sent["btw"] <= Sends /\ sent["btw"] <= Injections
    BY DEF CodexInv, CodexTyped, CodexWire, CodexTurns, CodexCalls, Codex!Callers
  <2>2. Codex!Turns \in Nat /\ server.turn <= Codex!Turns
    BY <2>1, CodexMessages, SMTT(60)
  <2>3. toServer # <<>> /\ server.up /\ toServer' = Tail(toServer) /\ UNCHANGED Codex!Others
    BY DEF Codex!ServerTakes
  <2> QED
    BY <2>1, <2>2, <2>3
<1>2. m \in CodexRequest /\ m = toServer[1] /\ Len(toServer) > 0 /\ Tail(toServer) \in Seq(CodexRequest)
      /\ Len(toServer) \in Nat
  BY <1>1, FirstAndRest
<1>3. m.what # "decision" => m.c \in Codex!Callers /\ m.what \in Kinds /\ m = Codex!Request(m.what, m.c)
  BY <1>2, CodexRequestIs
<1>4. m.what \in {"decision", "init", "thread", "turn"}
  BY <1>2, CodexRequestIs DEF Kinds
<1>5. CASE m.what = "decision"
  BY <1>1, <1>2, <1>5 DEF Codex!ServerTakes
<1>6. CASE m.what \in {"init", "thread"}
  <2>1. Codex!Say(<<Codex!Reply(m.c, 1)>>) /\ UNCHANGED server
    BY <1>6 DEF Codex!ServerTakes
  <2>2. 1 \in 1 .. Codex!Turns + 1
    BY <1>1
  <2> QED
    BY <1>1, <1>2, <1>3, <1>6, <2>1, <2>2
<1>7. CASE m.what = "turn" /\ server.running
  <2>1. Codex!Say(<<Codex!Reply(m.c, server.turn)>>) /\ UNCHANGED server
    BY <1>7 DEF Codex!ServerTakes
  <2>2. server.turn \in 1 .. Codex!Turns + 1
    BY <1>1, <1>7 DEF CodexInv, CodexTurns
  <2> QED
    BY <1>1, <1>2, <1>3, <1>7, <2>1, <2>2
<1>8. CASE m.what = "turn" /\ ~server.running
  <2>1. /\ server' = [server EXCEPT !.turn = @ + 1, !.running = TRUE, !.deltas = 0]
        /\ Codex!Say(<<Codex!Reply(m.c, server.turn + 1), Codex!Message("started", server.turn + 1)>>)
    BY <1>8 DEF Codex!ServerTakes
  <2>2. m = Codex!Request("turn", m.c) /\ m.c \in Codex!Callers
    BY <1>3, <1>8
  <2>3. Requested(m.c)
    BY <1>2, <2>2 DEF Requested
  <2>4. server.turn + 1 \in Codex!Turn
    BY <1>1, <2>2, <2>3, CodexTurnLeft
  <2> QED
    BY <1>1, <1>2, <1>8, <2>1, <2>2, <2>4
<1> QED
  BY <1>4, <1>5, <1>6, <1>7, <1>8

\* The types of what is on the wire.
LEMMA CodexWireTyped ==
  ASSUME CodexInv, Codex!ConstantsAssumption, Codex!Next
  PROVE  CodexWire'
<1>1. /\ CodexCalls /\ CodexWire /\ CodexCalling /\ CodexApprovals /\ Approvals \in Nat /\ Deltas \in Nat
      /\ Codex!Turns \in Nat /\ server.turn \in Nat /\ server.turn <= Codex!Turns
      /\ toServer \in Seq(CodexRequest) /\ fromServer \in Seq(CodexMessage)
  BY CodexMessages, CodexTurnsAre DEF CodexInv, CodexTyped, CodexWire
<1>q. ASSUME UNCHANGED <<toServer, fromServer, server>> PROVE CodexWire'
  BY <1>1, <1>q, CodexTypesStay
<1>d. ASSUME UNCHANGED <<toServer, fromServer>>, server' = [server EXCEPT !.up = FALSE] PROVE CodexWire'
  BY <1>1, <1>d DEF CodexWire
<1>2. ASSUME NEW c \in Codex!Callers, Codex!Caller(c) PROVE CodexWire'
  <2>1. CASE Codex!WriteFails(c) \/ Codex!WaitCancelled(c) \/ Codex!TakeRefusal(c)
    BY <2>1, <1>d DEF Codex!WriteFails, Codex!WaitCancelled, Codex!TakeRefusal, Codex!Failed, Codex!wire
  <2>2. CASE Codex!Write(c)
    <3>1. call[c].kind \in Kinds
      BY <2>2, <1>1 DEF Codex!Write, CodexCalling, CodexCaller, Busy
    <3>2. Codex!Request(call[c].kind, c) \in CodexRequest
      BY <3>1, CodexMessages
    <3>3. toServer' \in Seq(CodexRequest)
      BY <2>2, <3>2, <1>1, Appended DEF Codex!Write
    <3> QED
      BY <2>2, <3>3, <1>1 DEF Codex!Write, CodexWire
  <2>3. CASE Codex!TakeResponse(c) \/ Codex!Store(c)
    BY <2>3, <1>q DEF Codex!TakeResponse, Codex!Store, Codex!wire
  <2> QED
    BY <1>2, <2>1, <2>2, <2>3 DEF Codex!Caller
<1>3. CASE Codex!Fallback
  <2>1. toServer' = <<>> /\ fromServer' = <<>> /\ server' = [Codex!Down EXCEPT !.up = TRUE]
    BY <1>3 DEF Codex!Fallback
  <2>2. server' \in [up : BOOLEAN, turn : Nat, running : BOOLEAN, deltas : 0 .. Deltas,
                     asked : SUBSET Codex!Ask, asks : 0 .. Approvals]
    <3>1. server' = [up |-> TRUE, turn |-> 0, running |-> FALSE, deltas |-> 0, asked |-> {}, asks |-> 0]
      BY <2>1 DEF Codex!Down
    <3> QED
      BY <3>1, <1>1
  <2>3. toServer' \in Seq(CodexRequest) /\ fromServer' \in Seq(CodexMessage)
    BY <2>1, FewElements
  <2> QED
    BY <2>2, <2>3 DEF CodexWire
<1>4. CASE Codex!Read
  <2>1. fromServer' \in Seq(CodexMessage) /\ UNCHANGED <<toServer, server>>
    BY <1>4, <1>1, FirstAndRest DEF Codex!Read
  <2> QED
    BY <2>1, <1>1 DEF CodexWire
<1>5. CASE Codex!Respond
  <2>1. UNCHANGED <<fromServer, server>> /\ (UNCHANGED toServer \/ (slot # 0 /\ toServer' = Append(toServer, Codex!Message("decision", slot))))
    <3>1. UNCHANGED <<fromServer, server>>
      BY <1>5 DEF Codex!Respond
    <3>2. ASSUME toServer' # toServer PROVE slot # 0 /\ toServer' = Append(toServer, Codex!Message("decision", slot))
      BY <1>5, <3>2, Zenon DEF Codex!Respond
    <3> QED
      BY <3>1, <3>2, Zenon
  <2>2. slot # 0 => Codex!Message("decision", slot) \in CodexRequest
    BY <1>1, CodexMessages DEF CodexApprovals, Codex!Ask
  <2>3. toServer' \in Seq(CodexRequest)
    BY <2>1, <2>2, <1>1, Appended
  <2> QED
    BY <2>1, <2>3, <1>1 DEF CodexWire
<1>6. CASE Codex!Close \/ Codex!DrainEnds \/ Codex!ServerExits
  BY <1>6, <1>d DEF Codex!Close, Codex!DrainEnds, Codex!ServerExits, Codex!wire
<1>7. CASE \/ Codex!Send \/ Codex!Inject \/ Codex!Take \/ Codex!Leave \/ Codex!CloseEnds \/ Codex!ReadCancelled \/ Codex!Emit \/ Codex!EmitCancelled
           \/ \E why \in {"eof", "quiet"} : Codex!ReadFails(why)
  BY <1>7, <1>q DEF Codex!Send, Codex!Inject, Codex!Take, Codex!Leave, Codex!CloseEnds, Codex!ReadCancelled, Codex!Emit, Codex!EmitCancelled, Codex!ReadFails, Codex!wire
<1>8. CASE Codex!Server
  <2>1. server' \in [up : BOOLEAN, turn : Nat, running : BOOLEAN, deltas : 0 .. Deltas,
                     asked : SUBSET Codex!Ask, asks : 0 .. Approvals]
    <3>1. CASE Codex!ServerTakes
      <4>1. \/ server' = [server EXCEPT !.asked = @ \ {Head(toServer).n}] \/ server' = server
            \/ server' = [server EXCEPT !.turn = @ + 1, !.running = TRUE, !.deltas = 0]
        BY <3>1, CodexServerTakes
      <4>2. server.turn + 1 \in Nat /\ 0 \in 0 .. Deltas
        BY <1>1
      <4>3. CASE server' = [server EXCEPT !.asked = @ \ {Head(toServer).n}] \/ server' = server
        BY <4>3, <1>1 DEF CodexWire
      <4>4. CASE server' = [server EXCEPT !.turn = @ + 1, !.running = TRUE, !.deltas = 0]
        BY <4>2, <4>4, <1>1 DEF CodexWire
      <4> QED
        BY <4>1, <4>3, <4>4
    <3>2. CASE Codex!ServerRefuses
      BY <3>2, <1>1 DEF Codex!ServerRefuses, CodexWire
    <3>3. CASE Codex!ServerDelta
      <4>1. server.deltas + 1 \in 0 .. Deltas
        BY <3>3, <1>1 DEF Codex!ServerDelta, CodexWire
      <4>2. server' = [server EXCEPT !.deltas = @ + 1]
        BY <3>3 DEF Codex!ServerDelta
      <4> QED
        BY <4>1, <4>2, <1>1 DEF CodexWire
    <3>4. CASE Codex!ServerAsks
      <4>1. server.asks + 1 \in Codex!Ask /\ server.asks + 1 \in 0 .. Approvals
        BY <3>4, <1>1 DEF Codex!ServerAsks, CodexWire, Codex!Ask
      <4>2. server' = [server EXCEPT !.asks = @ + 1, !.asked = @ \cup {server.asks + 1}]
        BY <3>4 DEF Codex!ServerAsks
      <4> QED
        BY <4>1, <4>2, <1>1 DEF CodexWire
    <3>5. CASE Codex!ServerCompletes
      BY <3>5, <1>1 DEF Codex!ServerCompletes, CodexWire
    <3> QED
      BY <1>8, <3>1, <3>2, <3>3, <3>4, <3>5 DEF Codex!Server
  <2>2. toServer' \in Seq(CodexRequest)
    BY <1>8, <1>1, CodexServerTakes, FirstAndRest DEF Codex!Server, Codex!ServerRefuses, Codex!ServerDelta, Codex!ServerAsks, Codex!ServerCompletes
  <2>3. ASSUME NEW x \in CodexMessage, Codex!Say(<<x>>) PROVE fromServer' \in Seq(CodexMessage)
    BY <2>3, <1>1, FewElements, CodexSays
  <2>4. ASSUME NEW x \in CodexMessage, NEW y \in CodexMessage, Codex!Say(<<x, y>>) PROVE fromServer' \in Seq(CodexMessage)
    <3>1. <<x, y>> \in Seq(CodexMessage)
      BY FewElements
    <3> QED
      BY <2>4, <3>1, <1>1, CodexSays
  <2>5. fromServer' \in Seq(CodexMessage)
    <3>1. CASE Codex!ServerTakes
      <4>1. CASE UNCHANGED fromServer
        BY <4>1, <1>1
      <4>2. ASSUME NEW n \in 1 .. Codex!Turns + 1, NEW c \in Codex!Callers, Codex!Say(<<Codex!Reply(c, n)>>)
            PROVE  fromServer' \in Seq(CodexMessage)
        BY <4>2, <2>3, CodexMessages
      <4>3. ASSUME NEW c \in Codex!Callers, server.turn + 1 \in Codex!Turn,
                   Codex!Say(<<Codex!Reply(c, server.turn + 1), Codex!Message("started", server.turn + 1)>>)
            PROVE  fromServer' \in Seq(CodexMessage)
        <5>1. server.turn + 1 \in 1 .. Codex!Turns + 1
          BY <4>3, <1>1 DEF Codex!Turn
        <5>2. Codex!Reply(c, server.turn + 1) \in CodexMessage /\ Codex!Message("started", server.turn + 1) \in CodexMessage
          BY <4>3, <5>1, CodexMessages
        <5> QED
          BY <4>3, <5>2, <2>4
      <4> QED
        BY <3>1, <4>1, <4>2, <4>3, CodexServerTakes
    <3>2. CASE Codex!ServerRefuses
      <4>1. Head(toServer) \in CodexRequest /\ Head(toServer).what # "decision" /\ Codex!Say(<<Codex!Reply(Head(toServer).c, Codex!Refusal)>>)
        BY <3>2, <1>1, FirstAndRest DEF Codex!ServerRefuses
      <4>2. Codex!Reply(Head(toServer).c, Codex!Refusal) \in CodexMessage
        BY <4>1, <1>1, CodexMessages, CodexRequestIs
      <4> QED
        BY <4>1, <4>2, <2>3
    <3>3. CASE Codex!ServerDelta \/ Codex!ServerCompletes
      <4>1. server.turn \in Codex!Turn
        BY <3>3, <1>1 DEF Codex!ServerDelta, Codex!ServerCompletes, CodexInv, CodexTurns, Codex!Turn
      <4> QED
        BY <3>3, <4>1, <2>3, <2>4, CodexMessages DEF Codex!ServerDelta, Codex!ServerCompletes
    <3>4. CASE Codex!ServerAsks
      <4>1. server.asks + 1 \in Codex!Ask
        BY <3>4, <1>1 DEF Codex!ServerAsks, CodexWire, Codex!Ask
      <4> QED
        BY <3>4, <4>1, <2>3, CodexMessages DEF Codex!ServerAsks
    <3> QED
      BY <1>8, <3>1, <3>2, <3>3, <3>4 DEF Codex!Server
  <2> QED
    BY <2>1, <2>2, <2>5 DEF CodexWire
<1> QED
  BY <1>2, <1>3, <1>4, <1>5, <1>6, <1>7, <1>8 DEF Codex!Next, Codex!Reader

\* An event is put into the channel, and an answer grows.
LEMMA CodexRecords ==
  ASSUME CodexReader, Codex!Emit
  PROVE  /\ Len(emitting) = 1 /\ emitting[1] \in CodexEvent /\ Tail(emitting) = <<>>
         /\ emitting = <<emitting[1]>> /\ Head(emitting) = emitting[1] /\ emitting' = <<>>
         /\ events' = Append(events, emitting[1])
         /\ reader' = IF told = "error" THEN "ended" ELSE "read"
         /\ out' \in [Codex!Turn -> [deltas : Nat, whole : Nat]]
         /\ \A t \in Codex!Turn : /\ out'[t].deltas = IF emitting[1].what = "delta" /\ emitting[1].n = t
                                                THEN out[t].deltas + 1 ELSE out[t].deltas
                            /\ out'[t].whole = IF emitting[1].what = "item" /\ emitting[1].n = t
                                               THEN out[t].whole + 1 ELSE out[t].whole
<1> DEFINE e == emitting[1]
<1>1. /\ emitting \in Seq(CodexEvent) /\ Len(emitting) = 1 /\ out \in [Codex!Turn -> [deltas : Nat, whole : Nat]]
      /\ emitting' = Tail(emitting) /\ events' = Append(events, Head(emitting)) /\ out' = Codex!Recorded(Head(emitting))
      /\ reader' = IF told = "error" THEN "ended" ELSE IF Tail(emitting) = <<>> THEN "read" ELSE "emit"
  BY DEF CodexReader, Codex!Emit
<1>2. Head(emitting) = e /\ e \in CodexEvent /\ Tail(emitting) = <<>> /\ emitting = <<e>>
  BY <1>1, OnlyElement
<1>3. e.what \in {"delta", "item", "completed", "ask", "error"} /\ (e.what \in {"delta", "item"} => e.n \in Codex!Turn)
  BY <1>2, CodexEventIs
<1>4. out' = Codex!Recorded(e)
  BY <1>1, <1>2
<1> HIDE DEF e
<1>5. /\ out' \in [Codex!Turn -> [deltas : Nat, whole : Nat]]
      /\ \A t \in Codex!Turn : /\ out'[t].deltas = IF e.what = "delta" /\ e.n = t
                                             THEN out[t].deltas + 1 ELSE out[t].deltas
                         /\ out'[t].whole = IF e.what = "item" /\ e.n = t
                                            THEN out[t].whole + 1 ELSE out[t].whole
  <2>1. CASE e.what = "delta"
    <3>1. out' = [out EXCEPT ![e.n].deltas = @ + 1] /\ e.n \in Codex!Turn
      BY <1>3, <1>4, <2>1 DEF Codex!Recorded
    <3>2. out[e.n] \in [deltas : Nat, whole : Nat]
      BY <3>1, <1>1
    <3> DEFINE r == [out[e.n] EXCEPT !.deltas = @ + 1]
    <3>3. /\ r \in [deltas : Nat, whole : Nat] /\ r.deltas = out[e.n].deltas + 1 /\ r.whole = out[e.n].whole
      BY <3>2
    <3>4. out' = [out EXCEPT ![e.n] = r]
      BY <3>1
    <3> HIDE DEF r
    <3> QED
      BY <3>1, <3>3, <3>4, <1>1, <2>1
  <2>2. CASE e.what = "item"
    <3>1. out' = [out EXCEPT ![e.n].whole = @ + 1] /\ e.n \in Codex!Turn
      BY <1>3, <1>4, <2>2 DEF Codex!Recorded
    <3>2. out[e.n] \in [deltas : Nat, whole : Nat]
      BY <3>1, <1>1
    <3> DEFINE r == [out[e.n] EXCEPT !.whole = @ + 1]
    <3>3. /\ r \in [deltas : Nat, whole : Nat] /\ r.whole = out[e.n].whole + 1 /\ r.deltas = out[e.n].deltas
      BY <3>2
    <3>4. out' = [out EXCEPT ![e.n] = r]
      BY <3>1
    <3> HIDE DEF r
    <3> QED
      BY <3>1, <3>3, <3>4, <1>1, <2>2
  <2>3. CASE e.what \notin {"delta", "item"}
    BY <1>1, <1>3, <1>4, <2>3 DEF Codex!Recorded
  <2> QED
    BY <2>1, <2>2, <2>3
<1> USE DEF e
<1> QED
  BY <1>1, <1>2, <1>5

\* A message is taken, and it leads to an event or to none.
LEMMA CodexReads ==
  ASSUME CodexInv, Codex!ConstantsAssumption, Codex!Read, NEW m, m = Head(fromServer)
  PROVE  /\ m \in CodexMessage /\ fromServer # <<>> /\ m = fromServer[1] /\ fromServer' = Tail(fromServer)
         /\ reader = "read" /\ emitting = <<>> /\ Codex!Open
         /\ \/ m.what = "response" /\ Codex!Deliver(m)
            \/ /\ m.what # "response" /\ Codex!Notify(m)
               /\ \/ /\ emitting' = <<m>> /\ m \in CodexEvent /\ reader' = "emit"
                     /\ m.what \in {"delta", "item", "completed", "ask"}
                     /\ (m.what = "item" => m.n \notin deltaSeen)
                  \/ /\ emitting' = <<>> /\ reader' = "read" /\ m.what \in {"started", "item"}
                     /\ (m.what = "item" => m.n \in deltaSeen)
         /\ UNCHANGED <<transport, call, sent, toServer, server, events, state, out, shown, decided, decisions, told>>
<1>1. /\ fromServer \in Seq(CodexMessage) /\ fromServer # <<>> /\ fromServer' = Tail(fromServer)
      /\ reader = "read" /\ Codex!Open
      /\ IF m.what = "response" THEN Codex!Deliver(m) ELSE Codex!Notify(m)
      /\ UNCHANGED <<transport, call, sent, toServer, server, events, state, out, shown, decided, decisions, told>>
  BY DEF Codex!Read, CodexInv, CodexTyped, CodexWire
<1>2. m \in CodexMessage /\ m = fromServer[1]
  BY <1>1, FirstAndRest
<1>3. emitting = <<>>
  BY <1>1 DEF CodexInv, CodexTyped, CodexReader
<1>4. ASSUME m.what # "response"
      PROVE  /\ Codex!Notify(m)
             /\ \/ /\ emitting' = <<m>> /\ m \in CodexEvent /\ reader' = "emit"
                   /\ m.what \in {"delta", "item", "completed", "ask"}
                   /\ (m.what = "item" => m.n \notin deltaSeen)
                \/ /\ emitting' = <<>> /\ reader' = "read" /\ m.what \in {"started", "item"}
                   /\ (m.what = "item" => m.n \in deltaSeen)
  <2>1. Codex!Notify(m) /\ m.what \in {"started", "delta", "item", "completed", "ask"}
        /\ (m.what # "started" => m \in CodexEvent)
    BY <1>1, <1>2, <1>4, CodexMessageIs
  <2>2. Codex!EventsOf(m) = IF m.what = "started" \/ (m.what = "item" /\ m.n \in deltaSeen) THEN <<>> ELSE <<m>>
    BY <2>1 DEF Codex!EventsOf
  <2>3. emitting' = Codex!EventsOf(m) /\ reader' = IF Codex!EventsOf(m) = <<>> THEN "read" ELSE "emit"
    BY <2>1 DEF Codex!Notify
  <2>4. CASE m.what = "started" \/ (m.what = "item" /\ m.n \in deltaSeen)
    <3>1. emitting' = <<>> /\ reader' = "read"
      BY <2>2, <2>3, <2>4
    <3> QED
      BY <2>1, <2>4, <3>1
  <2>5. CASE ~(m.what = "started" \/ (m.what = "item" /\ m.n \in deltaSeen))
    <3>1. Codex!EventsOf(m) = <<m>> /\ <<m>> # <<>>
      BY <2>2, <2>5
    <3>2. emitting' = <<m>> /\ reader' = "emit"
      BY <2>3, <3>1
    <3>3. m.what \in {"delta", "item", "completed", "ask"} /\ (m.what = "item" => m.n \notin deltaSeen)
      BY <2>1, <2>5
    <3>4. m \in CodexEvent /\ Codex!Notify(m)
      BY <2>1, <3>3
    <3> QED
      BY <3>2, <3>3, <3>4, Zenon
  <2> QED
    BY <2>4, <2>5
<1> QED
  BY <1>1, <1>2, <1>3, <1>4

\* The types of what the reader changes.
LEMMA CodexReaderTyped ==
  ASSUME CodexInv, Codex!ConstantsAssumption, Codex!Next
  PROVE  CodexReader'
<1>1. /\ CodexCalls /\ CodexWire /\ CodexCalling /\ CodexReader /\ Codex!Turns \in Nat /\ Capacity \in Nat \ {0}
  BY CodexMessages DEF CodexInv, CodexTyped
<1>q. ASSUME UNCHANGED <<turnID, deltaSeen, reader, told, emitting, events, out>> PROVE CodexReader'
  BY <1>1, <1>q, CodexTypesStay
<1>2. CASE Codex!Send \/ Codex!Inject
  <2>1. deltaSeen' = {} /\ UNCHANGED <<turnID, reader, told, emitting, events, out>>
    BY <1>2 DEF Codex!Send, Codex!Inject, Codex!Begin, Codex!history
  <2> QED
    BY <2>1, <1>1 DEF CodexReader
<1>3. ASSUME NEW c \in Codex!Callers, Codex!Caller(c) PROVE CodexReader'
  <2>1. CASE \/ Codex!Write(c) \/ Codex!WriteFails(c) \/ Codex!WaitCancelled(c) \/ Codex!TakeRefusal(c) \/ Codex!TakeResponse(c)
    BY <2>1, <1>q DEF Codex!Write, Codex!WriteFails, Codex!WaitCancelled, Codex!TakeRefusal, Codex!TakeResponse, Codex!history
  <2>2. CASE Codex!Store(c)
    <3>1. /\ call[c].kind \in Kinds /\ response[c] \notin {0, Codex!Refusal} /\ response[c] \in 0 .. Codex!Turns + 1
      BY <2>2, <1>1 DEF Codex!Store, CodexCalling, CodexCaller, Busy, CodexCalls
    <3>2. response[c] \in 0 .. Codex!Turns
      BY <3>1, <1>1 DEF Codex!Refusal
    <3>3. turnID' \in {turnID, response[c]}
      <4>1. CASE call[c].kind = "turn"
        BY <2>2, <4>1 DEF Codex!Store
      <4>2. CASE call[c].kind = "init"
        BY <2>2, <4>2 DEF Codex!Store
      <4>3. CASE call[c].kind = "thread"
        BY <2>2, <4>3 DEF Codex!Store
      <4> QED
        BY <3>1, <4>1, <4>2, <4>3 DEF Kinds
    <3>4. UNCHANGED <<deltaSeen, reader, told, emitting, events, out>>
      BY <2>2 DEF Codex!Store, Codex!history
    <3> QED
      BY <3>2, <3>3, <3>4, <1>1 DEF CodexReader
  <2> QED
    BY <1>3, <2>1, <2>2 DEF Codex!Caller
<1>4. CASE Codex!Fallback
  <2>1. /\ reader' = "read" /\ emitting' = <<>> /\ events' = <<>> /\ told' = "none"
        /\ UNCHANGED <<turnID, deltaSeen, out>>
    BY <1>4 DEF Codex!Fallback
  <2>2. <<>> \in Seq(CodexEvent) /\ Len(<<>>) = 0
    BY FewElements
  <2> QED
    BY <2>1, <2>2, <1>1 DEF CodexReader
<1>5. CASE Codex!Read
  <2> DEFINE m == Head(fromServer)
  <2>1. m = Head(fromServer)
    OBVIOUS
  <2> HIDE DEF m
  <2>2. /\ m \in CodexMessage /\ emitting = <<>> /\ reader = "read" /\ UNCHANGED <<events, out, told>>
        /\ (m.what \in {"started", "delta", "item", "completed"} => m.n \in Codex!Turn)
    BY <2>1, <1>5, CodexReads, CodexMessageIs
  <2>3. CASE m.what = "response"
    <3>1. UNCHANGED <<turnID, deltaSeen, emitting, reader>>
      BY <2>1, <2>3, <1>5, CodexReads DEF Codex!Deliver
    <3> QED
      BY <3>1, <2>2, <1>q
  <2>4. CASE m.what # "response"
    <3>1. /\ Codex!Notify(m)
          /\ \/ emitting' = <<m>> /\ m \in CodexEvent /\ reader' = "emit"
             \/ emitting' = <<>> /\ reader' = "read"
      BY <2>1, <2>4, <1>5, CodexReads
    <3>2. emitting' \in Seq(CodexEvent) /\ Len(emitting') = IF reader' = "emit" THEN 1 ELSE 0
      <4>1. CASE emitting' = <<m>> /\ m \in CodexEvent /\ reader' = "emit"
        BY <4>1, FewElements
      <4>2. CASE emitting' = <<>> /\ reader' = "read"
        BY <4>2, FewElements
      <4> QED
        BY <3>1, <4>1, <4>2
    <3>3. turnID' \in 0 .. Codex!Turns /\ deltaSeen' \subseteq Codex!Turn
      BY <3>1, <2>2, <1>1 DEF Codex!Notify, CodexReader, Codex!Turn
    <3>4. reader' \in {"read", "emit"}
      BY <3>1
    <3> QED
      BY <3>2, <3>3, <3>4, <2>2, <1>1 DEF CodexReader
  <2> QED
    BY <2>3, <2>4
<1>6. ASSUME NEW why, Codex!ReadFails(why) PROVE CodexReader'
  <2>1. \/ reader' = "ended" /\ told' = "silent" /\ UNCHANGED emitting
        \/ reader' = "emit" /\ told' = "error" /\ emitting' = <<Codex!Message("error", 0)>>
    BY <1>6 DEF Codex!ReadFails, Codex!Ignored
  <2>2. reader = "read" /\ UNCHANGED <<turnID, deltaSeen, events, out>>
    BY <1>6 DEF Codex!ReadFails
  <2>3. <<Codex!Message("error", 0)>> \in Seq(CodexEvent) /\ Len(<<Codex!Message("error", 0)>>) = 1
    BY CodexMessages, FewElements
  <2>4. CASE reader' = "ended" /\ told' = "silent" /\ UNCHANGED emitting
    BY <2>2, <2>4, <1>1 DEF CodexReader
  <2>5. CASE reader' = "emit" /\ told' = "error" /\ emitting' = <<Codex!Message("error", 0)>>
    BY <2>2, <2>3, <2>5, <1>1 DEF CodexReader
  <2> QED
    BY <2>1, <2>4, <2>5
<1>7. CASE Codex!ReadCancelled
  BY <1>7, <1>1 DEF Codex!ReadCancelled, CodexReader, Codex!history
<1>8. CASE Codex!Emit
  <2>1. /\ emitting' = <<>> /\ events' = Append(events, emitting[1]) /\ emitting[1] \in CodexEvent
        /\ reader' \in {"ended", "read"} /\ out' \in [Codex!Turn -> [deltas : Nat, whole : Nat]]
    BY <1>8, <1>1, CodexRecords
  <2>2. Len(events) < Capacity /\ UNCHANGED <<turnID, deltaSeen, told>>
    BY <1>8 DEF Codex!Emit, Codex!history
  <2>3. events' \in Seq(CodexEvent) /\ Len(events') = Len(events) + 1 /\ Len(events) \in Nat
    BY <2>1, <1>1, Appended DEF CodexReader
  <2>4. <<>> \in Seq(CodexEvent) /\ Len(<<>>) = 0
    BY FewElements
  <2>5. Len(events') <= Capacity
    BY <2>2, <2>3, <1>1
  <2> QED
    BY <2>1, <2>2, <2>3, <2>4, <2>5, <1>1 DEF CodexReader
<1>9. CASE Codex!EmitCancelled
  <2>1. /\ emitting' = <<>> /\ reader' \in {"ended", "read"}
        /\ UNCHANGED <<turnID, deltaSeen, events, told, out>>
    BY <1>9 DEF Codex!EmitCancelled, Codex!history
  <2>2. <<>> \in Seq(CodexEvent) /\ Len(<<>>) = 0
    BY FewElements
  <2> QED
    BY <2>1, <2>2, <1>1 DEF CodexReader
<1>10. CASE Codex!Take
  <2>1. /\ events # <<>> /\ events' = Tail(events)
        /\ UNCHANGED <<turnID, deltaSeen, reader, emitting, told, out>>
    BY <1>10 DEF Codex!Take, Codex!history
  <2>2. events' \in Seq(CodexEvent) /\ Len(events') = Len(events) - 1 /\ Len(events) \in Nat
    BY <2>1, <1>1, FirstAndRest DEF CodexReader
  <2>3. Len(events') <= Capacity
    BY <2>2, <1>1 DEF CodexReader
  <2> QED
    BY <2>1, <2>2, <2>3, <1>1 DEF CodexReader
<1>11. CASE Codex!Leave \/ Codex!Respond \/ Codex!Close \/ Codex!CloseEnds \/ Codex!DrainEnds \/ Codex!ServerExits \/ Codex!Server
  BY <1>11, <1>q DEF Codex!Leave, Codex!Respond, Codex!Close, Codex!CloseEnds, Codex!DrainEnds, Codex!ServerExits, Codex!Server, Codex!ServerTakes, Codex!ServerRefuses,
                    Codex!ServerDelta, Codex!ServerAsks, Codex!ServerCompletes, Codex!Others, Codex!history
<1> QED
  BY <1>2, <1>3, <1>4, <1>5, <1>6, <1>7, <1>8, <1>9, <1>10, <1>11 DEF Codex!Next, Codex!Reader

\* The types of the approvals.
LEMMA CodexApprovalsTyped ==
  ASSUME CodexInv, Codex!ConstantsAssumption, Codex!Next
  PROVE  CodexApprovals'
<1>1. CodexWire /\ CodexReader /\ CodexApprovals /\ Approvals \in Nat
  BY CodexMessages DEF CodexInv, CodexTyped
<1>q. ASSUME UNCHANGED <<slot, shown, decided>> PROVE CodexApprovals'
  BY <1>1, <1>q, CodexTypesStay
<1>2. CASE Codex!Read
  <2> DEFINE m == Head(fromServer)
  <2>1. m = Head(fromServer)
    OBVIOUS
  <2> HIDE DEF m
  <2>2. m \in CodexMessage /\ UNCHANGED <<shown, decided>> /\ (m.what = "ask" => m.n \in Codex!Ask)
        /\ (Codex!Deliver(m) \/ Codex!Notify(m))
    BY <2>1, <1>2, CodexReads, CodexMessageIs
  <2>3. slot' = slot \/ slot' \in Codex!Ask
    BY <2>2 DEF Codex!Deliver, Codex!Notify, Codex!Slot
  <2> QED
    BY <2>2, <2>3, <1>1 DEF CodexApprovals, Codex!Ask
<1>3. CASE Codex!Take
  <2>1. events \in Seq(CodexEvent) /\ events # <<>> /\ UNCHANGED <<slot, decided>>
        /\ (shown' = shown \/ (Head(events).what = "ask" /\ shown' = Head(events).n))
    <3>1. events \in Seq(CodexEvent) /\ events # <<>> /\ UNCHANGED <<slot, decided>>
      BY <1>3, <1>1 DEF Codex!Take, CodexReader
    <3>2. ASSUME shown' # shown PROVE Head(events).what = "ask" /\ shown' = Head(events).n
      BY <1>3, <3>2, Zenon DEF Codex!Take
    <3> QED
      BY <3>1, <3>2, Zenon
  <2>2. Head(events) \in CodexEvent
    BY <2>1, FirstAndRest
  <2>3. shown' = shown \/ shown' \in Codex!Ask
    BY <2>1, <2>2, CodexEventIs
  <2> QED
    BY <2>1, <2>3, <1>1 DEF CodexApprovals, Codex!Ask
<1>4. CASE Codex!Respond
  BY <1>4, <1>1 DEF Codex!Respond, CodexApprovals, Codex!Ask
<1>5. ASSUME NEW c \in Codex!Callers, Codex!Caller(c) PROVE CodexApprovals'
  BY <1>5, <1>q DEF Codex!Caller, Codex!Write, Codex!WriteFails, Codex!WaitCancelled, Codex!TakeRefusal, Codex!TakeResponse, Codex!Store, Codex!approvals
<1>6. CASE Codex!Send \/ Codex!Leave \/ Codex!Inject \/ Codex!Fallback \/ Codex!ReadCancelled \/ Codex!Emit \/ Codex!EmitCancelled \/ Codex!Close \/ Codex!CloseEnds
           \/ Codex!DrainEnds \/ Codex!ServerExits \/ Codex!Server \/ \E why \in {"eof", "quiet"} : Codex!ReadFails(why)
  BY <1>6, <1>q DEF Codex!Send, Codex!Leave, Codex!Inject, Codex!Fallback, Codex!ReadCancelled, Codex!Emit, Codex!EmitCancelled, Codex!Close, Codex!CloseEnds, Codex!DrainEnds,
                    Codex!ServerExits, Codex!Server, Codex!ServerTakes, Codex!ServerRefuses, Codex!ServerDelta, Codex!ServerAsks, Codex!ServerCompletes,
                    Codex!ReadFails, Codex!Others, Codex!approvals
<1> QED
  BY <1>2, <1>3, <1>4, <1>5, <1>6 DEF Codex!Next, Codex!Reader

\* The callers, where only the session and the app server change.
LEMMA CodexCallsStay ==
  ASSUME CodexCalling, UNCHANGED <<call, sent, pendingResp, response>>,
         \/ state' = state /\ server'.up = server.up
         \/ state' = state /\ ~server'.up
         \/ state = "alive" /\ state' = "closing" /\ ~server'.up
         \/ state = "closing" /\ state' = "closed" /\ server'.up = server.up
  PROVE  CodexCalling'
<1>1. CodexEarly'
  BY DEF CodexCalling, CodexEarly, Codex!Open
<1>2. ASSUME NEW c \in Codex!Callers PROVE CodexCaller(c)'
  BY <1>2 DEF CodexCalling, CodexCaller
<1> QED
  BY <1>1, <1>2 DEF CodexCalling

\* The callers, when a request fails.
LEMMA CodexFails ==
  ASSUME CodexInv, NEW c \in Codex!Callers, call[c].pc \in Busy, Codex!Failed(c), UNCHANGED sent
  PROVE  CodexCalling'
<1>1. /\ CodexCalls /\ CodexWire /\ CodexEarly /\ \A d \in Codex!Callers : CodexCaller(d)
  BY DEF CodexInv, CodexTyped, CodexCalling
<1>2. /\ call' = [call EXCEPT ![c] = [pc |-> "idle", kind |-> "none"]]
      /\ pendingResp' = pendingResp \ {c} /\ response' = [response EXCEPT ![c] = 0]
      /\ state' = IF state = "starting" THEN "failed" ELSE IF state = "alive" THEN "closing" ELSE state
      /\ ~server'.up
  BY <1>1 DEF Codex!Failed, Codex!Idle, CodexWire
<1>3. state \in {"starting", "failed"} => c = "turn"
  BY <1>1 DEF CodexEarly, Codex!Callers, Busy
<1>4. CodexEarly'
  BY <1>1, <1>2, <1>3 DEF CodexEarly, CodexCalls, Codex!Callers, Busy
<1>5. ASSUME NEW d \in Codex!Callers PROVE CodexCaller(d)'
  <2>1. CodexCaller(d)
    BY <1>1
  <2>2. CASE d = c
    <3>1. call'[d] = [pc |-> "idle", kind |-> "none"] /\ response'[d] = 0 /\ d \notin pendingResp'
      BY <1>1, <1>2, <2>2 DEF CodexCalls
    <3> QED
      BY <3>1 DEF CodexCaller, Busy
  <2>3. CASE d # c
    <3>1. /\ call'[d] = call[d] /\ response'[d] = response[d] /\ (d \in pendingResp' <=> d \in pendingResp)
      BY <1>1, <1>2, <2>3 DEF CodexCalls
    <3>2. call[d].pc \in Busy /\ state' # "starting" => state # "starting"
      BY <1>1, <1>3, <2>3 DEF CodexEarly, Codex!Callers, Busy
    <3> QED
      BY <2>1, <3>1, <3>2 DEF CodexCaller
  <2> QED
    BY <2>2, <2>3
<1> QED
  BY <1>4, <1>5 DEF CodexCalling

\* The callers, step by step.
LEMMA CodexCallingKept ==
  ASSUME CodexInv, Codex!ConstantsAssumption, Codex!Next
  PROVE  CodexCalling'
<1>1. /\ CodexCalls /\ CodexWire /\ CodexCalling /\ CodexEarly /\ \A d \in Codex!Callers : CodexCaller(d)
      /\ {"turn", "btw"} \subseteq Codex!Callers
  BY DEF CodexInv, CodexTyped, CodexCalling, Codex!Callers
\* A step of one caller.
<1>c. ASSUME NEW c \in Codex!Callers, state' = state, sent' = sent, server'.up = server.up,
             NEW k, call' = [call EXCEPT ![c] = k],
             \A d \in Codex!Callers : d # c => response'[d] = response[d] /\ (d \in pendingResp' <=> d \in pendingResp),
             k.pc \in Busy /\ k.kind = call[c].kind, call[c].pc \in Busy,
             c \in pendingResp' => k.pc = "wait",
             response'[c] # 0 => k.pc \in {"wait", "store"} /\ c \notin pendingResp',
             k.pc = "store" => response'[c] \notin {0, Codex!Refusal}
      PROVE  CodexCalling'
  <2>1. call'[c] = k /\ \A d \in Codex!Callers : d # c => call'[d] = call[d]
    BY <1>1, <1>c DEF CodexCalls
  <2>2. CodexEarly'
    BY <1>1, <1>c, <2>1 DEF CodexEarly, Codex!Open, Busy, Codex!Callers
  <2>3. ASSUME NEW d \in Codex!Callers PROVE CodexCaller(d)'
    <3>1. CASE d = c
      BY <1>1, <1>c, <2>1, <3>1 DEF CodexCaller
    <3>2. CASE d # c
      BY <1>1, <1>c, <2>1, <3>2 DEF CodexCaller
    <3> QED
      BY <3>1, <3>2
  <2> QED
    BY <2>2, <2>3 DEF CodexCalling
<1>b. ASSUME NEW c \in Codex!Callers, state = "alive", Codex!Begin(c), call[c].pc = "idle",
             UNCHANGED <<state, pendingResp, response, server>>
      PROVE  CodexCalling'
  <2>1. call'[c] = [pc |-> "write", kind |-> "turn"] /\ \A d \in Codex!Callers : d # c => call'[d] = call[d]
    BY <1>1, <1>b DEF CodexCalls, Codex!Begin
  <2>2. CodexEarly'
    <3>1. sent' = [sent EXCEPT ![c] = @ + 1] /\ sent \in [Codex!Callers -> Nat] /\ state' = state /\ server' = server
      BY <1>1, <1>b DEF Codex!Begin, CodexCalls
    <3>2. c = "btw" => sent'["btw"] # 0
      BY <3>1, <1>1
    <3>3. c # "btw" => sent'["btw"] = sent["btw"] /\ call'["btw"] = call["btw"]
      BY <3>1, <2>1, <1>1
    <3> QED
      BY <3>1, <3>2, <3>3, <1>1, <1>b DEF CodexEarly, Codex!Open
  <2>3. ASSUME NEW d \in Codex!Callers PROVE CodexCaller(d)'
    BY <1>1, <1>b, <2>1 DEF CodexCaller, Busy, Kinds
  <2> QED
    BY <2>2, <2>3 DEF CodexCalling
<1>2. CASE Codex!Send
  BY <1>1, <1>2, <1>b DEF Codex!Send
<1>3. CASE Codex!Inject
  BY <1>1, <1>3, <1>b DEF Codex!Inject
<1>4. ASSUME NEW c \in Codex!Callers, Codex!Caller(c) PROVE CodexCalling'
  <2>1. CASE Codex!WriteFails(c) \/ Codex!WaitCancelled(c) \/ Codex!TakeRefusal(c)
    <3>1. call[c].pc \in Busy /\ Codex!Failed(c) /\ UNCHANGED sent
      BY <2>1 DEF Codex!WriteFails, Codex!WaitCancelled, Codex!TakeRefusal, Busy
    <3> QED
      BY <3>1, CodexFails
  <2>2. CASE Codex!Write(c)
    <3> DEFINE k == [call[c] EXCEPT !.pc = "wait"]
    <3>1. call' = [call EXCEPT ![c] = k] /\ call[c].pc = "write" /\ pendingResp' = pendingResp \cup {c}
          /\ UNCHANGED <<state, sent, server, response>>
      BY <2>2 DEF Codex!Write
    <3>2. k.pc = "wait" /\ k.kind = call[c].kind
      BY <1>1 DEF CodexCalls
    <3>3. response[c] = 0
      BY <1>1, <3>1 DEF CodexCaller
    <3> HIDE DEF k
    <3>4. /\ \A d \in Codex!Callers : d # c => response'[d] = response[d] /\ (d \in pendingResp' <=> d \in pendingResp)
          /\ k.pc \in Busy /\ call[c].pc \in Busy /\ server'.up = server.up
      BY <3>1, <3>2 DEF Busy
    <3> QED
      BY <1>c, <3>1, <3>2, <3>3, <3>4
  <2>3. CASE Codex!TakeResponse(c)
    <3> DEFINE k == [call[c] EXCEPT !.pc = "store"]
    <3>1. call' = [call EXCEPT ![c] = k] /\ call[c].pc = "wait" /\ response[c] \notin {0, Codex!Refusal}
          /\ UNCHANGED <<state, sent, server, response, pendingResp>>
      BY <2>3 DEF Codex!TakeResponse
    <3>2. k.pc = "store" /\ k.kind = call[c].kind
      BY <1>1 DEF CodexCalls
    <3>3. c \notin pendingResp
      BY <1>1, <3>1 DEF CodexCaller
    <3> HIDE DEF k
    <3>4. k.pc \in Busy /\ call[c].pc \in Busy /\ server'.up = server.up
      BY <3>1, <3>2 DEF Busy
    <3> QED
      BY <1>c, <3>1, <3>2, <3>3, <3>4
  <2>4. CASE Codex!Store(c)
    <3>1. /\ call[c].pc = "store" /\ response' = [response EXCEPT ![c] = 0] /\ c \notin pendingResp
          /\ UNCHANGED <<sent, pendingResp, server>> /\ call[c].kind \in Kinds
          /\ (state # "starting" => call[c].kind = "turn")
      BY <2>4, <1>1 DEF Codex!Store, CodexCaller, Busy
    <3>2. response'[c] = 0 /\ \A d \in Codex!Callers : d # c => response'[d] = response[d]
      BY <3>1, <1>1 DEF CodexCalls
    <3>3. state = "starting" => c = "turn" /\ call[c].kind \in {"init", "thread"}
      BY <3>1, <1>1 DEF CodexEarly, Codex!Callers
    <3>4. CASE call[c].kind = "init"
      <4>1. call' = [call EXCEPT ![c] = [pc |-> "write", kind |-> "thread"]] /\ UNCHANGED state /\ state = "starting"
        BY <2>4, <3>1, <3>4 DEF Codex!Store
      <4>2. call'[c] = [pc |-> "write", kind |-> "thread"] /\ \A d \in Codex!Callers : d # c => call'[d] = call[d]
        BY <4>1, <1>1 DEF CodexCalls
      <4>3. CodexEarly'
        BY <1>1, <3>1, <3>3, <4>1, <4>2 DEF CodexEarly, Codex!Open, Busy
      <4>4. ASSUME NEW d \in Codex!Callers PROVE CodexCaller(d)'
        BY <1>1, <3>1, <3>2, <4>1, <4>2 DEF CodexCaller, Busy, Kinds
      <4> QED
        BY <4>3, <4>4 DEF CodexCalling
    <3>5. CASE call[c].kind = "thread"
      <4>1. call' = [call EXCEPT ![c] = [pc |-> "idle", kind |-> "none"]] /\ state = "starting" /\ state' = "alive"
            /\ c = "turn"
        BY <2>4, <3>1, <3>3, <3>5 DEF Codex!Store, Codex!Idle
      <4>2. call'[c].pc = "idle" /\ \A d \in Codex!Callers : d # c => call'[d] = call[d]
        BY <4>1, <1>1 DEF CodexCalls
      <4>3. CodexEarly'
        BY <1>1, <3>1, <4>1, <4>2 DEF CodexEarly, Codex!Open
      <4>4. ASSUME NEW d \in Codex!Callers PROVE CodexCaller(d)'
        <5>1. CASE d = c
          BY <1>1, <5>1, <3>1, <3>2, <4>2 DEF CodexCaller, Busy
        <5>2. CASE d # c
          <6>1. call[d].pc = "idle"
            BY <5>2, <1>1, <4>1 DEF CodexEarly, Codex!Callers
          <6> QED
            BY <1>1, <5>2, <6>1, <3>1, <3>2, <4>2 DEF CodexCaller, Busy
        <5> QED
          BY <5>1, <5>2
      <4> QED
        BY <4>3, <4>4 DEF CodexCalling
    <3>6. CASE call[c].kind = "turn"
      <4>1. /\ call' = [call EXCEPT ![c].pc = IF c = "turn" THEN "drain" ELSE "idle"] /\ UNCHANGED state
            /\ state # "starting"
        BY <2>4, <3>1, <3>3, <3>6 DEF Codex!Store
      <4>2. call'[c].pc \in {"idle", "drain"} /\ \A d \in Codex!Callers : d # c => call'[d] = call[d]
        BY <4>1, <1>1 DEF CodexCalls
      <4>3. c = "btw" => call'[c].pc = "idle"
        BY <4>1, <1>1 DEF CodexCalls
      <4>5. state # "failed" \/ c = "btw"
        BY <1>1, <3>1, <4>1 DEF CodexEarly, Codex!Callers
      <4>6. CodexEarly'
        BY <1>1, <3>1, <4>1, <4>2, <4>3, <4>5 DEF CodexEarly, Codex!Open, Codex!Callers
      <4>7. ASSUME NEW d \in Codex!Callers PROVE CodexCaller(d)'
        <5>1. CASE d = c
          BY <1>1, <5>1, <3>1, <3>2, <4>2 DEF CodexCaller, Busy
        <5>2. CASE d # c
          BY <1>1, <5>2, <3>1, <3>2, <4>1, <4>2 DEF CodexCaller
        <5> QED
          BY <5>1, <5>2
      <4> QED
        BY <4>6, <4>7 DEF CodexCalling
    <3> QED
      BY <3>1, <3>4, <3>5, <3>6 DEF Kinds
  <2> QED
    BY <1>4, <2>1, <2>2, <2>3, <2>4 DEF Codex!Caller
<1>5. CASE Codex!Fallback
  <2>1. /\ state = "failed" /\ state' = "starting" /\ UNCHANGED <<sent, pendingResp, response>>
        /\ call' = [call EXCEPT !["turn"] = [pc |-> "write", kind |-> "init"]]
    BY <1>5 DEF Codex!Fallback
  <2>2. call'["turn"] = [pc |-> "write", kind |-> "init"] /\ call'["btw"] = call["btw"]
    BY <2>1, <1>1 DEF CodexCalls, Codex!Callers
  <2>3. CodexEarly'
    BY <2>1, <2>2, <1>1 DEF CodexEarly, Codex!Open, Busy
  <2>4. call["turn"].pc = "idle"
    BY <2>1, <1>1 DEF CodexEarly
  <2>5. ASSUME NEW d \in Codex!Callers PROVE CodexCaller(d)'
    <3>1. CASE d = "turn"
      BY <3>1, <1>1, <2>1, <2>2, <2>4 DEF CodexCaller, Busy, Kinds
    <3>2. CASE d = "btw"
      <4>1. call["btw"].pc = "idle"
        BY <2>1, <1>1 DEF CodexEarly
      <4> QED
        BY <3>2, <4>1, <1>1, <2>1, <2>2 DEF CodexCaller, Busy
    <3> QED
      BY <3>1, <3>2 DEF Codex!Callers
  <2> QED
    BY <2>3, <2>5 DEF CodexCalling
<1>6. CASE Codex!Read
  <2> DEFINE m == Head(fromServer)
  <2>1. m = Head(fromServer)
    OBVIOUS
  <2> HIDE DEF m
  <2>2. UNCHANGED <<call, sent, server, state>>
    BY <2>1, <1>6, CodexReads
  <2>3. CASE m.what = "response" /\ m.c \in pendingResp
    <3>1. /\ pendingResp' = pendingResp \ {m.c} /\ response' = [response EXCEPT ![m.c] = m.n]
          /\ m.c \in Codex!Callers
      BY <2>1, <2>3, <1>6, CodexReads, CodexMessageIs DEF Codex!Deliver
    <3>2. ASSUME NEW d \in Codex!Callers PROVE CodexCaller(d)'
      <4>1. CASE d = m.c
        <5>1. call[d].pc = "wait" /\ d \notin pendingResp'
          BY <4>1, <2>3, <3>1, <1>1 DEF CodexCaller
        <5> QED
          BY <5>1, <2>2, <1>1 DEF CodexCaller
      <4>2. CASE d # m.c
        <5>1. response'[d] = response[d] /\ (d \in pendingResp' <=> d \in pendingResp)
          BY <4>2, <3>1, <1>1 DEF CodexCalls
        <5> QED
          BY <5>1, <2>2, <1>1 DEF CodexCaller
      <4> QED
        BY <4>1, <4>2
    <3>3. CodexEarly'
      BY <2>2, <1>1 DEF CodexEarly, Codex!Open
    <3> QED
      BY <3>2, <3>3 DEF CodexCalling
  <2>4. CASE ~(m.what = "response" /\ m.c \in pendingResp)
    <3>1. UNCHANGED <<pendingResp, response>>
      <4>1. CASE m.what = "response"
        BY <2>1, <2>4, <4>1, <1>6, CodexReads DEF Codex!Deliver
      <4>2. CASE m.what # "response"
        BY <2>1, <4>2, <1>6, CodexReads DEF Codex!Notify
      <4> QED
        BY <4>1, <4>2
    <3> QED
      BY <3>1, <2>2, <1>1, CodexCallsStay
  <2> QED
    BY <2>3, <2>4
<1>7. ASSUME state = "alive", UNCHANGED <<sent, pendingResp, response>>,
             call' = [call EXCEPT !["turn"] = [pc |-> "idle", kind |-> "none"]],
             call["turn"].pc \in {"idle", "drain"}, server'.up => server.up, state' \in {"alive", "closing"},
             server'.up => state' = "alive"
      PROVE  CodexCalling'
  <2>1. call'["turn"] = [pc |-> "idle", kind |-> "none"] /\ call'["btw"] = call["btw"]
    BY <1>7, <1>1 DEF CodexCalls, Codex!Callers
  <2>2. CodexEarly'
    BY <1>7, <2>1, <1>1 DEF CodexEarly, Codex!Open
  <2>3. ASSUME NEW d \in Codex!Callers PROVE CodexCaller(d)'
    <3>1. CASE d = "turn"
      BY <3>1, <1>1, <1>7, <2>1 DEF CodexCaller, Busy
    <3>2. CASE d = "btw"
      BY <3>2, <1>1, <1>7, <2>1 DEF CodexCaller
    <3> QED
      BY <3>1, <3>2 DEF Codex!Callers
  <2> QED
    BY <2>2, <2>3 DEF CodexCalling
<1>8. CASE Codex!Take \/ Codex!Leave
  <2>1. call["turn"].pc \in {"idle", "drain"} /\ state = "alive" /\ UNCHANGED <<sent, pendingResp, response, server, state>>
        /\ (call' = call \/ call' = [call EXCEPT !["turn"] = [pc |-> "idle", kind |-> "none"]])
    BY <1>8 DEF Codex!Take, Codex!Leave, Codex!Idle
  <2> QED
    BY <2>1, <1>1, <1>7, CodexCallsStay
<1>9. CASE Codex!Close \/ Codex!CloseEnds
  <2>1. CASE Codex!Close
    BY <2>1, <1>1, CodexCallsStay DEF Codex!Close, Codex!callVars, CodexWire
  <2>2. CASE Codex!CloseEnds
    BY <2>2, <1>1, CodexCallsStay DEF Codex!CloseEnds, Codex!callVars
  <2> QED
    BY <1>9, <2>1, <2>2
<1>10. CASE Codex!DrainEnds
  <2>1. /\ call["turn"].pc = "drain" /\ UNCHANGED <<sent, pendingResp, response>> /\ ~server'.up
        /\ call' = [call EXCEPT !["turn"] = [pc |-> "idle", kind |-> "none"]]
        /\ state' = IF state = "alive" THEN "closing" ELSE state
    BY <1>10, <1>1 DEF Codex!DrainEnds, Codex!Idle, CodexWire
  <2>2. state \notin {"starting", "failed"}
    BY <2>1, <1>1 DEF CodexEarly, Busy
  <2>3. call'["turn"] = [pc |-> "idle", kind |-> "none"] /\ call'["btw"] = call["btw"]
    BY <2>1, <1>1 DEF CodexCalls, Codex!Callers
  <2>4. CodexEarly'
    BY <2>1, <2>2, <2>3, <1>1 DEF CodexEarly
  <2>5. ASSUME NEW d \in Codex!Callers PROVE CodexCaller(d)'
    <3>1. CASE d = "turn"
      BY <3>1, <1>1, <2>1, <2>3 DEF CodexCaller, Busy
    <3>2. CASE d = "btw"
      BY <3>2, <1>1, <2>1, <2>2, <2>3 DEF CodexCaller
    <3> QED
      BY <3>1, <3>2 DEF Codex!Callers
  <2> QED
    BY <2>4, <2>5 DEF CodexCalling
<1>11. CASE Codex!Server \/ Codex!ServerExits
  <2>1. UNCHANGED <<call, sent, pendingResp, response, state>>
    BY <1>11 DEF Codex!Server, Codex!ServerExits, Codex!ServerTakes, Codex!ServerRefuses, Codex!ServerDelta, Codex!ServerAsks, Codex!ServerCompletes, Codex!Others,
              Codex!callVars
  <2>2. server'.up = server.up \/ ~server'.up
    BY <1>11, <1>1 DEF Codex!Server, Codex!ServerExits, Codex!ServerTakes, Codex!ServerRefuses, Codex!ServerDelta, Codex!ServerAsks, Codex!ServerCompletes,
                       CodexWire
  <2> QED
    BY <2>1, <2>2, <1>1, CodexCallsStay
<1>12. CASE \/ \E why \in {"eof", "quiet"} : Codex!ReadFails(why)
            \/ Codex!ReadCancelled \/ Codex!Emit \/ Codex!EmitCancelled \/ Codex!Respond
  <2>1. UNCHANGED <<call, sent, pendingResp, response, state, server>>
    BY <1>12 DEF Codex!ReadFails, Codex!ReadCancelled, Codex!Emit, Codex!EmitCancelled, Codex!Respond, Codex!callVars
  <2> QED
    BY <2>1, <1>1, CodexCallsStay
<1> QED
  BY <1>2, <1>3, <1>4, <1>5, <1>6, <1>8, <1>9, <1>10, <1>11, <1>12 DEF Codex!Next, Codex!Reader

\* The messages of a caller in a sequence that loses its first, or gets another.
LEMMA SomeRest ==
  ASSUME NEW E, NEW s \in Seq(E), s # <<>>, NEW c, Sole(s, c)
  PROVE  /\ Sole(Tail(s), c) /\ (Some(Tail(s), c) => Some(s, c))
         /\ (Of(Head(s), c) => Some(s, c) /\ ~Some(Tail(s), c))
<1>1. /\ Head(s) = s[1] /\ Len(s) \in Nat /\ Len(s) > 0 /\ Len(Tail(s)) = Len(s) - 1
      /\ \A i \in 1 .. Len(s) - 1 : Tail(s)[i] = s[i + 1]
  BY FirstAndRest
<1>2. ASSUME NEW i \in 1 .. Len(Tail(s)) PROVE i + 1 \in 1 .. Len(s) /\ Tail(s)[i] = s[i + 1] /\ i + 1 # 1 /\ i \in Nat
  BY <1>1
<1>3. Sole(Tail(s), c)
  BY <1>2 DEF Sole
<1>4. Some(Tail(s), c) => Some(s, c)
  BY <1>2 DEF Some
<1>5. 1 \in 1 .. Len(s)
  BY <1>1
<1>6. Of(Head(s), c) => Some(s, c) /\ ~Some(Tail(s), c)
  BY <1>1, <1>2, <1>5 DEF Sole, Some
<1> QED
  BY <1>3, <1>4, <1>6

\* A message more in a sequence.
LEMMA SomeMore ==
  ASSUME NEW E, NEW s \in Seq(E), NEW x \in E, NEW c, Sole(s, c)
  PROVE  /\ ~Of(x, c) => Sole(Append(s, x), c) /\ (Some(Append(s, x), c) <=> Some(s, c))
         /\ Of(x, c) /\ ~Some(s, c) => Sole(Append(s, x), c) /\ Some(Append(s, x), c)
<1> DEFINE r == Append(s, x)
<1>1. /\ Len(r) = Len(s) + 1 /\ Len(s) \in Nat
      /\ \A i \in 1 .. Len(s) : r[i] = s[i]
      /\ r[Len(s) + 1] = x
  BY Appended
<1>2. \A i \in 1 .. Len(r) : (i \in 1 .. Len(s) /\ r[i] = s[i]) \/ (i = Len(s) + 1 /\ r[i] = x)
  BY <1>1
<1>3. Len(s) + 1 \in 1 .. Len(r) /\ \A i \in 1 .. Len(s) : i \in 1 .. Len(r) /\ r[i] = s[i]
  BY <1>1
<1> HIDE DEF r
<1>4. ~Of(x, c) => Sole(r, c) /\ (Some(r, c) <=> Some(s, c))
  BY <1>2, <1>3 DEF Sole, Some
<1>5. Of(x, c) /\ ~Some(s, c) => Sole(r, c) /\ Some(r, c)
  BY <1>1, <1>2, <1>3 DEF Sole, Some
<1> QED
  BY <1>4, <1>5 DEF r

\* None in an empty one.
LEMMA SomeOfNone == \A c : Sole(<<>>, c) /\ ~Some(<<>>, c)
BY DEF Sole, Some

\* What the app server says comes last.
LEMMA CodexSays1 ==
  ASSUME CodexWire, NEW x \in CodexMessage
  PROVE  /\ Codex!Say(<<x>>) => fromServer' = Append(fromServer, x)
         /\ \A y \in CodexMessage : Codex!Say(<<x, y>>) => fromServer' = Append(Append(fromServer, x), y)
BY JoinFew DEF CodexWire, Codex!Say

\* The request of a caller stays where it is.
LEMMA CodexRoundStays ==
  ASSUME NEW c, OneRequest(c), UNCHANGED <<toServer, fromServer>>,
         (call'[c].pc = call[c].pc /\ response'[c] = response[c]) \/ call[c].pc # "wait" \/ response[c] # 0
  PROVE  OneRequest(c)'
BY DEF OneRequest

\* The request of a caller is in one place only, step by step.
LEMMA CodexRoundsKept ==
  ASSUME CodexInv, Codex!ConstantsAssumption, Codex!Next
  PROVE  CodexRounds'
<1> SUFFICES ASSUME server'.up PROVE \A c \in Codex!Callers : OneRequest(c)'
  BY DEF CodexRounds
<1>1. /\ CodexCalls /\ CodexWire /\ CodexCalling /\ \A d \in Codex!Callers : CodexCaller(d)
      /\ toServer \in Seq(CodexRequest) /\ fromServer \in Seq(CodexMessage)
      /\ (server.up => \A d \in Codex!Callers : OneRequest(d))
      /\ {"turn", "btw"} \subseteq Codex!Callers
  BY DEF CodexInv, CodexTyped, CodexCalling, CodexRounds, CodexWire, Codex!Callers
<1>q. ASSUME UNCHANGED <<toServer, fromServer, call, response>>, server.up
      PROVE  \A c \in Codex!Callers : OneRequest(c)'
  BY <1>1, <1>q, CodexRoundStays
\* A step of one caller.
<1>c. ASSUME NEW c \in Codex!Callers, UNCHANGED <<toServer, fromServer>>, server.up,
             call[c].pc # "wait" \/ response[c] # 0,
             \A d \in Codex!Callers : d # c => call'[d] = call[d] /\ response'[d] = response[d]
      PROVE  \A d \in Codex!Callers : OneRequest(d)'
  BY <1>1, <1>c, CodexRoundStays
\* A message of no caller.
<1>s. ASSUME NEW x \in CodexMessage, x.what # "response", fromServer' = Append(fromServer, x),
             UNCHANGED <<toServer, call, response>>, server.up
      PROVE  \A c \in Codex!Callers : OneRequest(c)'
  <2>1. \A c : ~Of(x, c)
    BY <1>s DEF Of, CodexMessage
  <2> QED
    BY <1>1, <1>s, <2>1, SomeMore DEF OneRequest
<1>2. CASE Codex!Send \/ Codex!Inject
  <2>1. ASSUME NEW c \in Codex!Callers, Codex!Begin(c), call[c].pc = "idle", UNCHANGED <<toServer, fromServer, response, server>>
        PROVE  \A d \in Codex!Callers : OneRequest(d)'
    <3>1. \A d \in Codex!Callers : d # c => call'[d] = call[d]
      BY <2>1, <1>1 DEF Codex!Begin, CodexCalls
    <3> QED
      BY <2>1, <3>1, <1>c
  <2>2. CASE Codex!Send
    BY <2>1, <2>2, <1>1 DEF Codex!Send, Codex!wire
  <2>3. CASE Codex!Inject
    BY <2>1, <2>3, <1>1 DEF Codex!Inject, Codex!wire
  <2> QED
    BY <1>2, <2>2, <2>3
<1>3. ASSUME NEW c \in Codex!Callers, Codex!Caller(c) PROVE \A d \in Codex!Callers : OneRequest(d)'
  <2>1. CASE Codex!WriteFails(c) \/ Codex!WaitCancelled(c) \/ Codex!TakeRefusal(c)
    <3>1. ~server'.up
      BY <2>1, <1>1 DEF Codex!WriteFails, Codex!WaitCancelled, Codex!TakeRefusal, Codex!Failed, CodexWire
    <3> QED
      BY <3>1
  <2>2. CASE Codex!Write(c)
    <3> DEFINE x == Codex!Request(call[c].kind, c)
    <3>1. /\ call[c].pc = "write" /\ server.up /\ toServer' = Append(toServer, x)
          /\ UNCHANGED <<fromServer, response>> /\ call' = [call EXCEPT ![c].pc = "wait"]
      BY <2>2 DEF Codex!Write, Codex!CanWrite
    <3>2. call[c].kind \in Kinds /\ response[c] = 0
      BY <3>1, <1>1 DEF CodexCaller, Busy
    <3>3. x \in CodexRequest /\ Of(x, c) /\ \A d : d # c => ~Of(x, d)
      BY <3>2, CodexMessages DEF Codex!Request, Of, Kinds
    <3>4. call'[c].pc = "wait" /\ \A d \in Codex!Callers : d # c => call'[d] = call[d]
      BY <3>1, <1>1 DEF CodexCalls
    <3> HIDE DEF x
    <3>5. OneRequest(c) /\ ~Some(toServer, c) /\ ~Some(fromServer, c)
      BY <3>1, <1>1 DEF OneRequest
    <3>6. OneRequest(c)'
      BY <3>1, <3>2, <3>3, <3>4, <3>5, <1>1, SomeMore DEF OneRequest
    <3>7. ASSUME NEW d \in Codex!Callers, d # c PROVE OneRequest(d)'
      BY <3>1, <3>3, <3>4, <3>7, <1>1, SomeMore DEF OneRequest
    <3> QED
      BY <3>6, <3>7
  <2>3. CASE Codex!TakeResponse(c)
    <3>1. \A d \in Codex!Callers : d # c => call'[d] = call[d]
      BY <2>3, <1>1 DEF Codex!TakeResponse, CodexCalls
    <3>2. response[c] # 0 /\ UNCHANGED <<toServer, fromServer, response, server>>
      BY <2>3 DEF Codex!TakeResponse, Codex!wire
    <3> QED
      BY <3>1, <3>2, <1>c
  <2>4. CASE Codex!Store(c)
    <3>1. call[c].pc = "store" /\ UNCHANGED <<toServer, fromServer, server>> /\ response' = [response EXCEPT ![c] = 0]
          /\ call[c].kind \in Kinds
      BY <2>4, <1>1 DEF Codex!Store, Codex!wire, CodexCaller, Busy
    <3>2. \A d \in Codex!Callers : d # c => response'[d] = response[d]
      BY <3>1, <1>1 DEF CodexCalls
    <3>3. \A d \in Codex!Callers : d # c => call'[d] = call[d]
      <4>1. CASE call[c].kind = "init"
        BY <4>1, <2>4, <1>1 DEF Codex!Store, CodexCalls
      <4>2. CASE call[c].kind = "thread"
        BY <4>2, <2>4, <1>1 DEF Codex!Store, CodexCalls
      <4>3. CASE call[c].kind = "turn"
        BY <4>3, <2>4, <1>1 DEF Codex!Store, CodexCalls
      <4> QED
        BY <3>1, <4>1, <4>2, <4>3 DEF Kinds
    <3> QED
      BY <3>1, <3>2, <3>3, <1>c
  <2> QED
    BY <1>3, <2>1, <2>2, <2>3, <2>4 DEF Codex!Caller
<1>4. CASE Codex!Fallback
  <2>1. toServer' = <<>> /\ fromServer' = <<>>
    BY <1>4 DEF Codex!Fallback
  <2> QED
    BY <2>1, SomeOfNone DEF OneRequest
<1>5. CASE Codex!Read
  <2> DEFINE m == Head(fromServer)
  <2>1. m = Head(fromServer)
    OBVIOUS
  <2> HIDE DEF m
  <2>2. UNCHANGED <<call, toServer, server>> /\ fromServer' = Tail(fromServer) /\ fromServer # <<>> /\ m \in CodexMessage
    BY <2>1, <1>5, CodexReads
  <2>3. ASSUME NEW c \in Codex!Callers PROVE OneRequest(c)'
    <3>1. OneRequest(c) /\ server.up
      BY <1>1, <2>2
    <3>2. Sole(fromServer', c) /\ (Some(fromServer', c) => Some(fromServer, c))
      BY <3>1, <2>2, <1>1, SomeRest DEF OneRequest
    <3>3. response'[c] = response[c] \/ ~Some(fromServer', c)
      <4>1. CASE m.what = "response" /\ m.c = c
        <5>1. Of(Head(fromServer), c)
          BY <2>1, <4>1 DEF Of
        <5> QED
          BY <5>1, <3>1, <2>2, <1>1, SomeRest DEF OneRequest
      <4>2. CASE m.what = "response" /\ m.c # c
        <5>1. response' = response \/ response' = [response EXCEPT ![m.c] = m.n]
          BY <2>1, <4>2, <1>5, CodexReads DEF Codex!Deliver
        <5> QED
          BY <5>1, <4>2, <1>1 DEF CodexCalls
      <4>3. CASE m.what # "response"
        BY <2>1, <4>3, <1>5, CodexReads DEF Codex!Notify
      <4> QED
        BY <4>1, <4>2, <4>3
    <3>4. m.what = "response" /\ m.c = c => ~Some(toServer, c)
      <4>1. m.what = "response" /\ m.c = c => Of(Head(fromServer), c)
        BY <2>1 DEF Of
      <4> QED
        BY <4>1, <3>1, <2>2, <1>1, SomeRest DEF OneRequest
    <3>5. response'[c] = response[c] \/ (m.what = "response" /\ m.c = c)
      <4>1. CASE m.what = "response"
        <5>1. response' = response \/ response' = [response EXCEPT ![m.c] = m.n]
          BY <2>1, <4>1, <1>5, CodexReads DEF Codex!Deliver
        <5> QED
          BY <5>1, <4>1, <1>1 DEF CodexCalls
      <4>3. CASE m.what # "response"
        BY <2>1, <4>3, <1>5, CodexReads DEF Codex!Notify
      <4> QED
        BY <4>1, <4>3
    <3> QED
      BY <2>2, <3>1, <3>2, <3>3, <3>4, <3>5 DEF OneRequest
  <2> QED
    BY <2>3
<1>6. CASE Codex!Take \/ Codex!Leave
  <2>1. call["turn"].pc \in {"idle", "drain"} /\ UNCHANGED <<toServer, fromServer, response, server>>
        /\ (call' = call \/ call' = [call EXCEPT !["turn"] = Codex!Idle])
    BY <1>6 DEF Codex!Take, Codex!Leave, Codex!wire
  <2>2. \A d \in Codex!Callers : d # "turn" => call'[d] = call[d]
    BY <2>1, <1>1 DEF CodexCalls
  <2> QED
    BY <2>1, <2>2, <1>1, <1>c
<1>7. CASE Codex!Respond
  <2>1. UNCHANGED <<fromServer, call, response, server>>
    BY <1>7 DEF Codex!Respond, Codex!callVars
  <2>2. CASE toServer' = toServer
    BY <2>1, <2>2, <1>q
  <2>3. CASE toServer' # toServer
    <3> DEFINE x == Codex!Message("decision", slot)
    <3>1. slot # 0 /\ toServer' = Append(toServer, x)
      BY <1>7, <2>3, Zenon DEF Codex!Respond
    <3>2. slot \in Codex!Ask
      BY <3>1, CodexMessages DEF CodexInv, CodexTyped, CodexApprovals, Codex!Ask
    <3>3. x \in CodexRequest
      BY <3>2, CodexMessages
    <3>4. \A c : ~Of(x, c)
      BY DEF Of, Codex!Message
    <3> HIDE DEF x
    <3> QED
      BY <2>1, <3>1, <3>3, <3>4, <1>1, SomeMore DEF OneRequest
  <2> QED
    BY <2>2, <2>3
<1>8. CASE Codex!Close \/ Codex!DrainEnds \/ Codex!ServerExits
  <2>1. ~server'.up
    BY <1>8, <1>1 DEF Codex!Close, Codex!DrainEnds, Codex!ServerExits, CodexWire
  <2> QED
    BY <2>1
<1>9. CASE \/ \E why \in {"eof", "quiet"} : Codex!ReadFails(why)
           \/ Codex!ReadCancelled \/ Codex!Emit \/ Codex!EmitCancelled \/ Codex!CloseEnds
  BY <1>9, <1>q DEF Codex!ReadFails, Codex!ReadCancelled, Codex!Emit, Codex!EmitCancelled, Codex!CloseEnds, Codex!callVars, Codex!wire
\* A response takes the place of a request.
<1>r. ASSUME server.up, toServer # <<>>, toServer' = Tail(toServer), UNCHANGED <<call, response>>,
             NEW c \in Codex!Callers, Of(Head(toServer), c), NEW n, Codex!Reply(c, n) \in CodexMessage,
             NEW r \in Seq(CodexMessage), r = Append(fromServer, Codex!Reply(c, n))
      PROVE  \A d \in Codex!Callers : /\ Sole(toServer', d) /\ Sole(r, d)
                                /\ ~(Some(toServer', d) /\ Some(r, d))
                                /\ (Some(toServer', d) \/ Some(r, d) => call[d].pc = "wait" /\ response[d] = 0)
  <2>1. ASSUME NEW d \in Codex!Callers
        PROVE  /\ Sole(toServer', d) /\ Sole(r, d)
               /\ ~(Some(toServer', d) /\ Some(r, d))
               /\ (Some(toServer', d) \/ Some(r, d) => call[d].pc = "wait" /\ response[d] = 0)
    <3>1. OneRequest(d) /\ Sole(toServer', d) /\ (Some(toServer', d) => Some(toServer, d))
          /\ (Of(Head(toServer), d) => Some(toServer, d) /\ ~Some(toServer', d))
      BY <1>1, <1>r, SomeRest DEF OneRequest
    <3>2. CASE d = c
      <4>1. Of(Codex!Reply(c, n), d) /\ ~Some(fromServer, d)
        BY <1>r, <3>1, <3>2 DEF OneRequest, Codex!Reply, Of
      <4>2. Sole(r, d) /\ Some(r, d)
        BY <1>1, <1>r, <3>1, <4>1, SomeMore DEF OneRequest
      <4> QED
        BY <1>r, <3>1, <3>2, <4>2 DEF OneRequest
    <3>3. CASE d # c
      <4>1. ~Of(Codex!Reply(c, n), d)
        BY <3>3 DEF Codex!Reply, Of
      <4>2. Sole(r, d) /\ (Some(r, d) <=> Some(fromServer, d))
        BY <1>1, <1>r, <3>1, <4>1, SomeMore DEF OneRequest
      <4> QED
        BY <3>1, <4>2 DEF OneRequest
    <3> QED
      BY <3>2, <3>3
  <2> QED
    BY <2>1
<1>10. CASE Codex!ServerTakes
  <2> DEFINE m == Head(toServer)
             c == m.c
  <2>1. server.up /\ toServer # <<>> /\ toServer' = Tail(toServer) /\ UNCHANGED <<call, response>> /\ m \in CodexRequest
    BY <1>10, <1>1, FirstAndRest DEF Codex!ServerTakes, Codex!Others, Codex!callVars
  <2>2. CASE m.what = "decision" /\ UNCHANGED fromServer
    BY <2>1, <2>2, <1>1, SomeRest DEF OneRequest
  <2>3. ASSUME m.what \in Kinds, c \in Codex!Callers, NEW n \in 1 .. Codex!Turns + 1, Codex!Say(<<Codex!Reply(c, n)>>)
        PROVE  \A d \in Codex!Callers : OneRequest(d)'
    <3>1. Of(m, c) /\ Codex!Reply(c, n) \in CodexMessage
      BY <2>3, CodexMessages DEF Of, Kinds
    <3>2. fromServer' = Append(fromServer, Codex!Reply(c, n)) /\ fromServer' \in Seq(CodexMessage)
      <4>1. fromServer' = Append(fromServer, Codex!Reply(c, n))
        BY <2>3, <3>1, <1>1, CodexSays1
      <4> QED
        BY <4>1, <3>1, <1>1, Appended
    <3>3. \A d \in Codex!Callers : /\ Sole(toServer', d) /\ Sole(fromServer', d)
                             /\ ~(Some(toServer', d) /\ Some(fromServer', d))
                             /\ (Some(toServer', d) \/ Some(fromServer', d) => call[d].pc = "wait" /\ response[d] = 0)
      BY <2>1, <2>3, <3>1, <3>2, <1>r
    <3> QED
      BY <2>1, <3>3 DEF OneRequest
  <2>4. ASSUME m = Codex!Request("turn", c), c \in Codex!Callers, server.turn + 1 \in Codex!Turn,
               Codex!Say(<<Codex!Reply(c, server.turn + 1), Codex!Message("started", server.turn + 1)>>)
        PROVE  \A d \in Codex!Callers : OneRequest(d)'
    <3> DEFINE n == server.turn + 1
               y == Codex!Message("started", n)
               r == Append(fromServer, Codex!Reply(c, n))
    <3>1. Of(m, c) /\ n \in 1 .. Codex!Turns + 1
      BY <2>4, CodexMessages DEF Of, Codex!Request, Codex!Turn
    <3>2. Codex!Reply(c, n) \in CodexMessage /\ y \in CodexMessage
      BY <2>4, <3>1, CodexMessages
    <3>3. r \in Seq(CodexMessage) /\ fromServer' = Append(r, y)
      BY <2>4, <3>2, <1>1, CodexSays1, Appended
    <3>4. \A d : ~Of(y, d)
      BY DEF Of, Codex!Message
    <3>5. r = Append(fromServer, Codex!Reply(c, n))
      OBVIOUS
    <3> HIDE DEF n, y, r
    <3>6. \A d \in Codex!Callers : /\ Sole(toServer', d) /\ Sole(r, d)
                             /\ ~(Some(toServer', d) /\ Some(r, d))
                             /\ (Some(toServer', d) \/ Some(r, d) => call[d].pc = "wait" /\ response[d] = 0)
      BY <2>1, <2>4, <3>1, <3>2, <3>3, <3>5, <1>r
    <3>7. \A d \in Codex!Callers : Sole(fromServer', d) /\ (Some(fromServer', d) <=> Some(r, d))
      BY <3>2, <3>3, <3>4, <3>6, SomeMore
    <3> QED
      BY <2>1, <3>6, <3>7 DEF OneRequest
  <2> QED
    BY <1>10, <2>2, <2>3, <2>4, CodexServerTakes
<1>11. CASE Codex!ServerRefuses
  <2> DEFINE m == Head(toServer)
             c == m.c
  <2>1. /\ server.up /\ toServer # <<>> /\ toServer' = Tail(toServer) /\ UNCHANGED <<call, response>>
        /\ m \in CodexRequest /\ m.what # "decision" /\ Codex!Say(<<Codex!Reply(c, Codex!Refusal)>>)
    BY <1>11, <1>1, FirstAndRest DEF Codex!ServerRefuses, Codex!Others, Codex!callVars
  <2>2. c \in Codex!Callers /\ Of(m, c) /\ Codex!Reply(c, Codex!Refusal) \in CodexMessage
    BY <2>1, CodexRequestIs, CodexMessages DEF Of, Kinds
  <2>3. fromServer' = Append(fromServer, Codex!Reply(c, Codex!Refusal)) /\ fromServer' \in Seq(CodexMessage)
    BY <2>1, <2>2, <1>1, CodexSays1, Appended
  <2>4. \A d \in Codex!Callers : /\ Sole(toServer', d) /\ Sole(fromServer', d)
                           /\ ~(Some(toServer', d) /\ Some(fromServer', d))
                           /\ (Some(toServer', d) \/ Some(fromServer', d) => call[d].pc = "wait" /\ response[d] = 0)
    BY <2>1, <2>2, <2>3, <1>r
  <2> QED
    BY <2>1, <2>4 DEF OneRequest
<1>12. CASE Codex!ServerDelta \/ Codex!ServerAsks
  <2>1. server.up /\ UNCHANGED <<toServer, call, response>>
    BY <1>12 DEF Codex!ServerDelta, Codex!ServerAsks, Codex!Others, Codex!callVars
  <2>2. PICK x \in CodexMessage : x.what # "response" /\ Codex!Say(<<x>>)
    <3>1. CASE Codex!ServerDelta
      <4>1. server.turn \in Codex!Turn
        BY <3>1, <1>1, CodexMessages, CodexTurnsAre DEF Codex!ServerDelta
      <4> QED
        BY <3>1, <4>1, CodexMessages DEF Codex!ServerDelta, Codex!Message
    <3>2. CASE Codex!ServerAsks
      <4>1. server.asks + 1 \in Codex!Ask
        BY <3>2, <1>1, CodexMessages, SMTT(60) DEF Codex!ServerAsks, CodexWire, Codex!Ask
      <4> QED
        BY <3>2, <4>1, CodexMessages DEF Codex!ServerAsks, Codex!Message
    <3> QED
      BY <1>12, <3>1, <3>2
  <2>3. fromServer' = Append(fromServer, x)
    BY <2>2, <1>1, CodexSays1
  <2> QED
    BY <2>1, <2>2, <2>3, <1>s
<1>13. CASE Codex!ServerCompletes
  <2> DEFINE x == Codex!Message("item", server.turn)
             y == Codex!Message("completed", server.turn)
             r == Append(fromServer, x)
  <2>1. server.up /\ UNCHANGED <<toServer, call, response>> /\ Codex!Say(<<x, y>>)
    BY <1>13 DEF Codex!ServerCompletes, Codex!Others, Codex!callVars
  <2>2. server.turn \in Codex!Turn
    BY <1>13, <1>1, CodexMessages, CodexTurnsAre DEF Codex!ServerCompletes
  <2>3. x \in CodexMessage /\ y \in CodexMessage /\ \A c : ~Of(x, c) /\ ~Of(y, c)
    BY <2>2, CodexMessages DEF Codex!Message, Of
  <2>4. fromServer' = Append(r, y) /\ r \in Seq(CodexMessage)
    BY <2>1, <2>3, <1>1, CodexSays1, Appended
  <2>5. r = Append(fromServer, x)
    OBVIOUS
  <2> HIDE DEF x, y, r
  <2>6. \A c \in Codex!Callers : Sole(r, c) /\ (Some(r, c) <=> Some(fromServer, c))
    BY <2>1, <2>3, <2>5, <1>1, SomeMore DEF OneRequest
  <2>7. \A c \in Codex!Callers : Sole(fromServer', c) /\ (Some(fromServer', c) <=> Some(r, c))
    BY <2>3, <2>4, <2>6, SomeMore
  <2> QED
    BY <2>1, <2>6, <2>7, <1>1 DEF OneRequest
<1> QED
  BY <1>2, <1>3, <1>4, <1>5, <1>6, <1>7, <1>8, <1>9, <1>10, <1>11, <1>12, <1>13 DEF Codex!Next, Codex!Reader, Codex!Server

\* Who is owed no turn stays so.
LEMMA CodexTurnsStay ==
  ASSUME CodexInv, UNCHANGED sent, server'.turn = server.turn, server'.running => server.running,
         server'.up => server.up /\ \A c \in Codex!Callers : Owing(c)' => Owing(c)
  PROVE  CodexTurns'
<1>1. /\ server.turn \in Nat /\ sent["turn"] \in Nat /\ sent["btw"] \in Nat /\ CodexTurns
      /\ {"turn", "btw"} \subseteq Codex!Callers
  BY DEF CodexInv, CodexTyped, CodexCalls, CodexWire, Codex!Callers
<1>2. ASSUME server'.up PROVE server'.turn + Owes("turn")' + Owes("btw")' <= sent'["turn"] + sent'["btw"]
  <2>1. Owes("turn")' <= Owes("turn") /\ Owes("btw")' <= Owes("btw")
    BY <1>1, <1>2 DEF Owes
  <2>2. Owes("turn")' \in Nat /\ Owes("btw")' \in Nat /\ Owes("turn") \in Nat /\ Owes("btw") \in Nat
    BY DEF Owes
  <2> QED
    BY <1>1, <1>2, <2>1, <2>2 DEF CodexTurns
<1> QED
  BY <1>1, <1>2 DEF CodexTurns

\* A turn for an input at most, step by step.
LEMMA CodexTurnsKept ==
  ASSUME CodexInv, Codex!ConstantsAssumption, Codex!Next
  PROVE  CodexTurns'
<1>1. /\ CodexCalls /\ CodexWire /\ CodexEarly /\ CodexTurns /\ \A d \in Codex!Callers : CodexCaller(d)
      /\ toServer \in Seq(CodexRequest)
      /\ (server.up => \A d \in Codex!Callers : OneRequest(d))
      /\ {"turn", "btw"} \subseteq Codex!Callers /\ server.turn \in Nat /\ sent["turn"] \in Nat /\ sent["btw"] \in Nat
  BY DEF CodexInv, CodexTyped, CodexCalling, CodexRounds, CodexWire, CodexCalls, Codex!Callers
<1>q. ASSUME UNCHANGED <<sent, call, toServer>>, server'.turn = server.turn, server'.running => server.running,
             server'.up => server.up
      PROVE  CodexTurns'
  BY <1>q, CodexTurnsStay DEF Owing, Requested
<1>d. ASSUME UNCHANGED sent, ~server'.up, server'.turn = server.turn, server'.running = server.running
      PROVE  CodexTurns'
  BY <1>d, CodexTurnsStay
<1>c. ASSUME NEW c \in Codex!Callers, UNCHANGED <<sent, toServer, server>>,
             \A d \in Codex!Callers : d # c => call'[d] = call[d],
             call'[c] # [pc |-> "write", kind |-> "turn"]
      PROVE  CodexTurns'
  BY <1>c, CodexTurnsStay DEF Owing, Requested
<1>b. ASSUME NEW c \in Codex!Callers, NEW d \in Codex!Callers, d # c, Codex!Begin(c), call[c].pc = "idle", UNCHANGED <<toServer, server>>
      PROVE  CodexTurns'
  <2>1. sent'[c] = sent[c] + 1 /\ sent'[d] = sent[d] /\ call'[d] = call[d] /\ sent[c] \in Nat /\ sent[d] \in Nat
    BY <1>1, <1>b DEF Codex!Begin, CodexCalls
  <2>2. (c = "turn" /\ d = "btw") \/ (c = "btw" /\ d = "turn")
    BY <1>b DEF Codex!Callers
  <2>3. sent'["turn"] + sent'["btw"] = sent["turn"] + sent["btw"] + 1
    <3>1. CASE c = "turn" /\ d = "btw"
      BY <2>1, <3>1
    <3>2. CASE c = "btw" /\ d = "turn"
      BY <2>1, <3>2
    <3> QED
      BY <2>2, <3>1, <3>2
  <2>4. ASSUME server.up PROVE Owes(c) = 0 /\ Owes(d)' = Owes(d)
    <3>1. ~Some(toServer, c)
      BY <2>4, <1>1, <1>b DEF OneRequest
    <3>2. ~Requested(c)
      BY <3>1 DEF Some, Of, Requested, Codex!Request
    <3>3. Owing(d)' <=> Owing(d)
      BY <1>b, <2>1 DEF Owing, Requested
    <3> QED
      BY <3>2, <3>3, <1>b DEF Owes, Owing
  <2>5. Owes(c)' \in {0, 1} /\ Owes(d) \in {0, 1} /\ Owes(d)' \in {0, 1}
    BY DEF Owes
  <2>6. ASSUME server.up PROVE server.turn + Owes("turn")' + Owes("btw")' <= sent["turn"] + sent["btw"] + 1
    <3>1. server.turn + Owes(c) + Owes(d) <= sent["turn"] + sent["btw"]
      <4>0. server.turn + Owes("turn") + Owes("btw") <= sent["turn"] + sent["btw"]
        BY <2>6, <1>1 DEF CodexTurns
      <4>1. CASE c = "turn" /\ d = "btw"
        BY <4>0, <4>1
      <4>2. CASE c = "btw" /\ d = "turn"
        <5>1. server.turn + Owes(d) + Owes(c) <= sent["turn"] + sent["btw"]
          BY <4>0, <4>2
        <5> QED
          BY <5>1, <2>4, <2>5, <2>6, <1>1
      <4> QED
        BY <2>2, <4>1, <4>2
    <3>2. server.turn + Owes(c)' + Owes(d)' <= sent["turn"] + sent["btw"] + 1
      BY <3>1, <2>4, <2>5, <2>6, <1>1
    <3>3. (c = "turn" /\ d = "btw") \/ (c = "btw" /\ d = "turn")
      BY <1>b DEF Codex!Callers
    <3>4. CASE c = "turn" /\ d = "btw"
      BY <3>2, <3>4
    <3>5. CASE c = "btw" /\ d = "turn"
      <4>1. Owes("btw")' \in {0, 1} /\ Owes("turn")' \in {0, 1}
        BY <3>5, <2>5
      <4>2. server.turn + Owes("btw")' + Owes("turn")' <= sent["turn"] + sent["btw"] + 1
        BY <3>2, <3>5
      <4> QED
        BY <4>1, <4>2, <1>1
    <3> QED
      BY <3>3, <3>4, <3>5
  <2> QED
    BY <1>1, <1>b, <2>3, <2>6 DEF CodexTurns
<1>2. CASE Codex!Send
  BY <1>1, <1>2, <1>b DEF Codex!Send, Codex!wire
<1>3. CASE Codex!Inject
  BY <1>1, <1>3, <1>b DEF Codex!Inject, Codex!wire
<1>4. ASSUME NEW c \in Codex!Callers, Codex!Caller(c) PROVE CodexTurns'
  <2>1. CASE Codex!WriteFails(c) \/ Codex!WaitCancelled(c) \/ Codex!TakeRefusal(c)
    BY <2>1, <1>1, <1>d DEF Codex!WriteFails, Codex!WaitCancelled, Codex!TakeRefusal, Codex!Failed, CodexWire
  <2>2. CASE Codex!Write(c)
    <3> DEFINE x == Codex!Request(call[c].kind, c)
    <3>1. /\ call[c].pc = "write" /\ server.up /\ toServer' = Append(toServer, x)
          /\ UNCHANGED <<sent, server>> /\ call' = [call EXCEPT ![c].pc = "wait"]
      BY <2>2 DEF Codex!Write, Codex!CanWrite
    <3>2. call'[c].pc = "wait" /\ \A d \in Codex!Callers : d # c => call'[d] = call[d]
      BY <3>1, <1>1 DEF CodexCalls
    <3>3. call[c].kind \in Kinds
      BY <3>1, <1>1 DEF CodexCaller, Busy
    <3>4. x \in CodexRequest
      BY <3>3, CodexMessages
    <3>5. \A d \in Codex!Callers : x = Codex!Request("turn", d) => d = c /\ call[c].kind = "turn"
      BY DEF Codex!Request
    <3> HIDE DEF x
    <3>6. \A i \in 1 .. Len(toServer') : (i \in 1 .. Len(toServer) /\ toServer'[i] = toServer[i]) \/ toServer'[i] = x
      BY <3>1, <3>4, <1>1, Appended
    <3>7. ASSUME NEW d \in Codex!Callers, Requested(d)' PROVE Requested(d) \/ (d = c /\ call[c].kind = "turn")
      BY <3>5, <3>6, <3>7 DEF Requested
    <3>8. call[c].kind = "turn" => call[c] = [pc |-> "write", kind |-> "turn"]
      BY <3>1, <1>1 DEF CodexCalls
    <3>9. call'[c] # [pc |-> "write", kind |-> "turn"]
      BY <3>2
    <3>10. \A d \in Codex!Callers : Owing(d)' => Owing(d)
      BY <3>2, <3>7, <3>8, <3>9 DEF Owing
    <3> QED
      BY <3>1, <3>10, CodexTurnsStay
  <2>3. CASE Codex!TakeResponse(c)
    <3>1. call' = [call EXCEPT ![c].pc = "store"] /\ UNCHANGED <<sent, toServer, server>>
      BY <2>3 DEF Codex!TakeResponse, Codex!wire
    <3>2. call'[c].pc = "store" /\ \A d \in Codex!Callers : d # c => call'[d] = call[d]
      BY <3>1, <1>1 DEF CodexCalls
    <3>3. call'[c] # [pc |-> "write", kind |-> "turn"]
      BY <3>2
    <3> QED
      BY <3>1, <3>2, <3>3, <1>c
  <2>4. CASE Codex!Store(c)
    <3>1. call[c].pc = "store" /\ UNCHANGED <<sent, toServer, server>> /\ call[c].kind \in Kinds
      BY <2>4, <1>1 DEF Codex!Store, Codex!wire, CodexCaller, Busy
    <3>2. \A d \in Codex!Callers : d # c => call'[d] = call[d]
      <4>1. CASE call[c].kind = "init"
        BY <4>1, <2>4, <1>1 DEF Codex!Store, CodexCalls
      <4>2. CASE call[c].kind = "thread"
        BY <4>2, <2>4, <1>1 DEF Codex!Store, CodexCalls
      <4>3. CASE call[c].kind = "turn"
        BY <4>3, <2>4, <1>1 DEF Codex!Store, CodexCalls
      <4> QED
        BY <3>1, <4>1, <4>2, <4>3 DEF Kinds
    <3>3. call'[c].kind = "thread" \/ call'[c].pc \in {"idle", "drain"}
      <4>1. CASE call[c].kind = "init"
        BY <4>1, <2>4, <1>1 DEF Codex!Store, CodexCalls
      <4>2. CASE call[c].kind = "thread"
        BY <4>2, <2>4, <1>1 DEF Codex!Store, CodexCalls, Codex!Idle
      <4>3. CASE call[c].kind = "turn"
        BY <4>3, <2>4, <1>1 DEF Codex!Store, CodexCalls
      <4> QED
        BY <3>1, <4>1, <4>2, <4>3 DEF Kinds
    <3>4. call'[c] # [pc |-> "write", kind |-> "turn"]
      BY <3>3
    <3> QED
      BY <3>1, <3>2, <3>4, <1>c
  <2> QED
    BY <1>4, <2>1, <2>2, <2>3, <2>4 DEF Codex!Caller
<1>5. CASE Codex!Fallback
  <2>1. /\ state = "failed" /\ toServer' = <<>> /\ server' = [Codex!Down EXCEPT !.up = TRUE] /\ UNCHANGED sent
        /\ call' = [call EXCEPT !["turn"] = [pc |-> "write", kind |-> "init"]]
    BY <1>5 DEF Codex!Fallback
  <2>2. server'.turn = 0 /\ server'.running = FALSE
    BY <2>1 DEF Codex!Down
  <2>3. \A c : ~Requested(c)'
    BY <2>1 DEF Requested
  <2>4. call'["turn"] = [pc |-> "write", kind |-> "init"] /\ call'["btw"] = call["btw"] /\ call["btw"].pc = "idle"
    BY <2>1, <1>1 DEF CodexCalls, CodexEarly
  <2>5. call'["turn"] # [pc |-> "write", kind |-> "turn"] /\ call'["btw"] # [pc |-> "write", kind |-> "turn"]
    BY <2>4
  <2>6. Owes("turn")' = 0 /\ Owes("btw")' = 0
    BY <2>3, <2>5 DEF Owes, Owing
  <2> QED
    BY <2>1, <2>2, <2>6, <1>1 DEF CodexTurns
<1>6. CASE Codex!Read
  BY <1>6, <1>q DEF Codex!Read
<1>7. CASE Codex!Take \/ Codex!Leave
  <2>1. UNCHANGED <<sent, toServer, server>> /\ (call' = call \/ call' = [call EXCEPT !["turn"] = Codex!Idle])
    BY <1>7 DEF Codex!Take, Codex!Leave, Codex!wire
  <2>2. CASE call' = call
    BY <2>1, <2>2, <1>q
  <2>3. CASE call' = [call EXCEPT !["turn"] = Codex!Idle]
    <3>1. call'["turn"].pc = "idle" /\ \A d \in Codex!Callers : d # "turn" => call'[d] = call[d]
      BY <2>3, <1>1 DEF CodexCalls, Codex!Idle
    <3>2. call'["turn"] # [pc |-> "write", kind |-> "turn"]
      BY <3>1
    <3> QED
      BY <2>1, <3>1, <3>2, <1>1, <1>c
  <2> QED
    BY <2>1, <2>2, <2>3
<1>8. CASE Codex!Respond
  <2>1. UNCHANGED <<sent, call, server>>
    BY <1>8 DEF Codex!Respond, Codex!callVars
  <2>2. CASE toServer' = toServer
    BY <2>1, <2>2, <1>q
  <2>3. CASE toServer' # toServer
    <3> DEFINE x == Codex!Message("decision", slot)
    <3>1. slot # 0 /\ toServer' = Append(toServer, x)
      BY <1>8, <2>3, Zenon DEF Codex!Respond
    <3>2. slot \in Codex!Ask
      BY <3>1, CodexMessages DEF CodexInv, CodexTyped, CodexApprovals, Codex!Ask
    <3>3. x \in CodexRequest
      BY <3>2, CodexMessages
    <3>4. \A c : x # Codex!Request("turn", c)
      BY DEF Codex!Request, Codex!Message
    <3> HIDE DEF x
    <3>5. \A i \in 1 .. Len(toServer') : (i \in 1 .. Len(toServer) /\ toServer'[i] = toServer[i]) \/ toServer'[i] = x
      BY <3>1, <3>3, <1>1, Appended
    <3>6. \A c \in Codex!Callers : Owing(c)' => Owing(c)
      BY <2>1, <3>4, <3>5 DEF Owing, Requested
    <3> QED
      BY <2>1, <3>6, CodexTurnsStay
  <2> QED
    BY <2>2, <2>3
<1>9. CASE Codex!Close \/ Codex!DrainEnds \/ Codex!ServerExits
  <2>1. ~server'.up /\ server'.turn = server.turn /\ server'.running = server.running /\ UNCHANGED sent
    BY <1>9, <1>1 DEF Codex!Close, Codex!DrainEnds, Codex!ServerExits, CodexWire, Codex!callVars, Codex!Others
  <2> QED
    BY <2>1, <1>d
<1>10. CASE \/ \E why \in {"eof", "quiet"} : Codex!ReadFails(why)
            \/ Codex!ReadCancelled \/ Codex!Emit \/ Codex!EmitCancelled \/ Codex!CloseEnds
  BY <1>10, <1>q DEF Codex!ReadFails, Codex!ReadCancelled, Codex!Emit, Codex!EmitCancelled, Codex!CloseEnds, Codex!callVars, Codex!wire
<1>11. CASE Codex!ServerDelta \/ Codex!ServerAsks \/ Codex!ServerCompletes
  <2>1. UNCHANGED <<sent, call, toServer>> /\ server'.turn = server.turn /\ (server'.running => server.running)
        /\ server.up
    BY <1>11, <1>1 DEF Codex!ServerDelta, Codex!ServerAsks, Codex!ServerCompletes, Codex!Others, Codex!callVars, CodexWire
  <2> QED
    BY <2>1, <1>q
\* A request that is taken is not there any more.
<1>r. ASSUME toServer # <<>>, toServer' = Tail(toServer), UNCHANGED <<sent, call>>
      PROVE  \A c \in Codex!Callers : Owing(c)' => Owing(c)
  <2>1. \A i \in 1 .. Len(toServer') : toServer'[i] = toServer[i + 1] /\ i + 1 \in 1 .. Len(toServer)
    BY <1>r, <1>1, FirstAndRest
  <2>2. \A c \in Codex!Callers : Requested(c)' => Requested(c)
    BY <2>1 DEF Requested
  <2> QED
    BY <2>2, <1>r DEF Owing
<1>12. CASE Codex!ServerRefuses
  <2>1. toServer # <<>> /\ toServer' = Tail(toServer) /\ UNCHANGED <<sent, call, server>>
    BY <1>12 DEF Codex!ServerRefuses, Codex!Others, Codex!callVars
  <2> QED
    BY <2>1, <1>r, CodexTurnsStay, <1>12 DEF Codex!ServerRefuses
<1>13. CASE Codex!ServerTakes
  <2>1. server.up /\ toServer # <<>> /\ toServer' = Tail(toServer) /\ UNCHANGED <<sent, call>>
    BY <1>13 DEF Codex!ServerTakes, Codex!Others, Codex!callVars
  <2>2. \A d \in Codex!Callers : Owing(d)' => Owing(d)
    BY <2>1, <1>r
  <2>3. CASE server'.turn = server.turn /\ server'.running = server.running
    BY <2>1, <2>2, <2>3, CodexTurnsStay
  <2>4. ASSUME NEW c \in Codex!Callers, Head(toServer) = Codex!Request("turn", c),
               server' = [server EXCEPT !.turn = @ + 1, !.running = TRUE, !.deltas = 0]
        PROVE  CodexTurns'
    <3>1. server'.turn = server.turn + 1
      BY <2>4, <1>1 DEF CodexWire
    <3>2. Of(Head(toServer), c)
      BY <2>4 DEF Of, Codex!Request
    <3>3. Some(toServer, c) /\ ~Some(toServer', c) /\ call[c].pc = "wait"
      BY <2>1, <2>4, <3>2, <1>1, SomeRest DEF OneRequest
    <3>4. ~Requested(c)'
      BY <3>3 DEF Requested, Some, Of, Codex!Request
    <3>5. Owes(c)' = 0
      BY <2>1, <3>3, <3>4 DEF Owes, Owing
    <3>6. Head(toServer) = toServer[1] /\ 1 \in 1 .. Len(toServer)
      BY <2>1, <1>1, FirstAndRest
    <3>7. Owes(c) = 1
      BY <2>4, <3>6 DEF Owes, Owing, Requested
    <3>8. PICK d \in Codex!Callers : d # c /\ ((c = "turn" /\ d = "btw") \/ (c = "btw" /\ d = "turn"))
      BY <2>4 DEF Codex!Callers
    <3>9. Owes(d)' <= Owes(d) /\ Owes(d)' \in {0, 1} /\ Owes(d) \in {0, 1}
      BY <2>2 DEF Owes
    <3>12. server.turn + Owes("turn") + Owes("btw") <= sent["turn"] + sent["btw"]
      BY <2>1, <1>1 DEF CodexTurns
    <3>13. Owes("turn")' \in {0, 1} /\ Owes("btw")' \in {0, 1} /\ Owes("turn") \in {0, 1} /\ Owes("btw") \in {0, 1}
      BY DEF Owes
    <3>14. server'.turn + Owes("turn")' + Owes("btw")' <= sent["turn"] + sent["btw"]
      <4>1. CASE c = "turn" /\ d = "btw"
        BY <3>1, <3>5, <3>7, <3>9, <3>12, <3>13, <4>1, <1>1
      <4>2. CASE c = "btw" /\ d = "turn"
        BY <3>1, <3>5, <3>7, <3>9, <3>12, <3>13, <4>2, <1>1
      <4> QED
        BY <3>8, <4>1, <4>2
    <3>15. server'.turn <= sent["turn"] + sent["btw"] /\ server'.turn > 0
      BY <3>1, <3>13, <3>14, <1>1
    <3> QED
      BY <2>1, <3>14, <3>15 DEF CodexTurns
  <2>5. CASE server' = [server EXCEPT !.asked = @ \ {Head(toServer).n}] \/ UNCHANGED server
    <3>1. server'.turn = server.turn /\ server'.running = server.running
      BY <1>1, <2>5 DEF CodexWire
    <3> QED
      BY <3>1, <2>3
  <2> QED
    BY <1>13, <2>4, <2>5, CodexServerTakes
<1> QED
  BY <1>2, <1>3, <1>4, <1>5, <1>6, <1>7, <1>8, <1>9, <1>10, <1>11, <1>12, <1>13 DEF Codex!Next, Codex!Reader, Codex!Server

\* How the reading ended, step by step.
LEMMA CodexToldKept ==
  ASSUME CodexInv, Codex!ConstantsAssumption, Codex!Next
  PROVE  CodexTold'
<1>1. /\ CodexTold /\ CodexCalls /\ CodexReader /\ CodexWire /\ \A d \in Codex!Callers : CodexCaller(d)
  BY DEF CodexInv, CodexTyped, CodexCalling
<1>q. ASSUME UNCHANGED <<told, reader, lastRead, emitting, turnID>> PROVE CodexTold'
  BY <1>1, <1>q DEF CodexTold
<1>2. ASSUME NEW c \in Codex!Callers, Codex!Caller(c) PROVE CodexTold'
  <2>1. CASE Codex!Store(c)
    <3>1. UNCHANGED <<told, reader, lastRead, emitting>> /\ call[c].kind \in Kinds /\ response[c] # 0
      BY <2>1, <1>1 DEF Codex!Store, Codex!history, CodexCaller, Busy
    <3>2. turnID' = turnID \/ turnID' = response[c]
      <4>1. CASE call[c].kind = "init"
        BY <4>1, <2>1 DEF Codex!Store
      <4>2. CASE call[c].kind = "thread"
        BY <4>2, <2>1 DEF Codex!Store
      <4>3. CASE call[c].kind = "turn"
        BY <4>3, <2>1 DEF Codex!Store
      <4> QED
        BY <3>1, <4>1, <4>2, <4>3 DEF Kinds
    <3> QED
      BY <3>1, <3>2, <1>1 DEF CodexTold
  <2>2. CASE ~Codex!Store(c)
    BY <1>2, <2>2, <1>q DEF Codex!Caller, Codex!Write, Codex!WriteFails, Codex!WaitCancelled, Codex!TakeRefusal, Codex!TakeResponse, Codex!history
  <2> QED
    BY <2>1, <2>2
<1>3. CASE Codex!Fallback
  BY <1>3, <1>1 DEF Codex!Fallback, CodexTold
<1>4. CASE Codex!Read
  <2> DEFINE m == Head(fromServer)
  <2>1. m = Head(fromServer)
    OBVIOUS
  <2> HIDE DEF m
  <2>2. /\ m \in CodexMessage /\ reader = "read" /\ UNCHANGED told
        /\ (m.what = "started" => m.n \in Codex!Turn)
    BY <2>1, <1>4, CodexReads, CodexMessageIs
  <2>3. told = "none"
    BY <2>2, <1>1 DEF CodexTold, CodexReader
  <2>4. lastRead' = "started" => turnID' # 0
    <3>1. CASE m.what = "response"
      BY <2>1, <3>1, <1>1, <1>4, CodexReads DEF Codex!Deliver, CodexTold
    <3>2. CASE m.what # "response"
      BY <2>1, <2>2, <3>2, <1>1, <1>4, CodexReads DEF Codex!Notify, CodexTold, Codex!Turn
    <3> QED
      BY <3>1, <3>2
  <2> QED
    BY <2>2, <2>3, <2>4 DEF CodexTold
<1>5. ASSUME NEW why, Codex!ReadFails(why) PROVE CodexTold'
  <2>1. /\ \/ reader' = "ended" /\ told' = "silent" /\ turnID = 0
           \/ reader' = "emit" /\ told' = "error" /\ emitting' = <<Codex!Message("error", 0)>>
        /\ UNCHANGED <<lastRead, turnID>>
    BY <1>5 DEF Codex!ReadFails, Codex!Ignored
  <2>2. <<Codex!Message("error", 0)>>[1].what = "error"
    BY DEF Codex!Message
  <2> QED
    BY <2>1, <2>2, <1>1 DEF CodexTold
<1>6. CASE Codex!ReadCancelled
  BY <1>6, <1>1 DEF Codex!ReadCancelled, CodexTold, Codex!history
<1>7. CASE Codex!Emit
  <2>1. reader' = (IF told = "error" THEN "ended" ELSE "read") /\ UNCHANGED <<told, lastRead, turnID>> /\ reader = "emit"
    BY <1>7, <1>1, CodexRecords DEF Codex!Emit, Codex!history
  <2> QED
    BY <2>1, <1>1 DEF CodexTold
<1>8. CASE Codex!EmitCancelled
  BY <1>8, <1>1 DEF Codex!EmitCancelled, CodexTold, Codex!history
<1>9. CASE Codex!Send \/ Codex!Inject \/ Codex!Take \/ Codex!Leave \/ Codex!Respond \/ Codex!Close \/ Codex!CloseEnds \/ Codex!DrainEnds \/ Codex!ServerExits \/ Codex!Server
  BY <1>9, <1>q DEF Codex!Send, Codex!Inject, Codex!Take, Codex!Leave, Codex!Respond, Codex!Close, Codex!CloseEnds, Codex!DrainEnds, Codex!ServerExits, Codex!Server, Codex!ServerTakes,
                    Codex!ServerRefuses, Codex!ServerDelta, Codex!ServerAsks, Codex!ServerCompletes, Codex!Others, Codex!history
<1> QED
  BY <1>2, <1>3, <1>4, <1>5, <1>6, <1>7, <1>8, <1>9 DEF Codex!Next, Codex!Reader

\* What a message more, or less, does to a sequence of them.
LEMMA MessageLess ==
  ASSUME NEW E, NEW s \in Seq(E), s # <<>>
  PROVE  /\ \A n : OfTurns(s, n) => OfTurns(Tail(s), n)
         /\ Fine(s) => Fine(Tail(s))
         /\ Orderly(s) => Orderly(Tail(s)) /\ (Head(s).what = "completed" => Calm(Tail(s)))
         /\ Going(s) => Going(Tail(s))
         /\ Calm(s) => Calm(Tail(s)) /\ ~Textual(Head(s))
         /\ ~Going(Tail(s)) => ~Going(s)
         /\ Head(s).what = "completed" => ~Going(s)
<1>1. /\ Head(s) = s[1] /\ Len(s) \in Nat /\ Len(s) > 0 /\ Len(Tail(s)) = Len(s) - 1
      /\ \A i \in 1 .. Len(s) - 1 : Tail(s)[i] = s[i + 1]
  BY FirstAndRest
<1> DEFINE r == Tail(s)
<1>2. \A i \in 1 .. Len(r) : i + 1 \in 1 .. Len(s) /\ r[i] = s[i + 1] /\ 1 < i + 1
  BY <1>1
<1>3. \A i, j \in 1 .. Len(r) : i < j => i + 1 < j + 1
  BY <1>1
<1>4. 1 \in 1 .. Len(s) /\ Head(s) = s[1]
  BY <1>1
<1> HIDE DEF r
<1>5. \A n : OfTurns(s, n) => OfTurns(r, n)
  BY <1>2 DEF OfTurns
<1>6. Fine(s) => Fine(r)
  BY <1>2 DEF Fine
<1>7. Orderly(s) => Orderly(r)
  BY <1>2, <1>3 DEF Orderly
<1>8. Orderly(s) /\ Head(s).what = "completed" => Calm(r)
  BY <1>2, <1>4 DEF Orderly, Calm
<1>9. Going(s) => Going(r)
  BY <1>2 DEF Going
<1>10. Calm(s) => Calm(r) /\ ~Textual(Head(s))
  BY <1>2, <1>4 DEF Calm
<1>11. Head(s).what = "completed" => ~Going(s)
  BY <1>4 DEF Going
<1> QED
  BY <1>5, <1>6, <1>7, <1>8, <1>9, <1>10, <1>11 DEF r

\* The same of a sequence with a message more.
LEMMA MessageMore ==
  ASSUME NEW E, NEW s \in Seq(E), NEW x \in E
  PROVE  /\ \A n : OfTurns(s, n) /\ (Textual(x) \/ x.what = "started" => x.n <= n) => OfTurns(Append(s, x), n)
         /\ Fine(s) /\ x.what # "error" => Fine(Append(s, x))
         /\ Orderly(s) /\ (Going(s) \/ ~Textual(x)) => Orderly(Append(s, x))
         /\ Going(s) /\ x.what # "completed" => Going(Append(s, x))
         /\ Calm(s) /\ ~Textual(x) => Calm(Append(s, x))
         /\ ~Going(Append(s, x)) => ~Going(s) \/ x.what = "completed"
<1> DEFINE r == Append(s, x)
<1>1. /\ Len(r) = Len(s) + 1 /\ Len(s) \in Nat
      /\ \A i \in 1 .. Len(s) : r[i] = s[i]
      /\ r[Len(s) + 1] = x
  BY Appended
<1>2. \A i \in 1 .. Len(r) : (i \in 1 .. Len(s) /\ r[i] = s[i]) \/ (i = Len(s) + 1 /\ r[i] = x)
  BY <1>1
<1>3. \A i, j \in 1 .. Len(r) : i < j => i \in 1 .. Len(s) /\ r[i] = s[i]
  BY <1>1
<1> HIDE DEF r
<1>4. \A n : OfTurns(s, n) /\ (Textual(x) \/ x.what = "started" => x.n <= n) => OfTurns(r, n)
  BY <1>2 DEF OfTurns
<1>5. Fine(s) /\ x.what # "error" => Fine(r)
  BY <1>2 DEF Fine
<1>6. Orderly(s) /\ (Going(s) \/ ~Textual(x)) => Orderly(r)
  BY <1>2, <1>3 DEF Orderly, Going
<1>7. Going(s) /\ x.what # "completed" => Going(r)
  BY <1>2 DEF Going
<1>8. Calm(s) /\ ~Textual(x) => Calm(r)
  BY <1>2 DEF Calm
<1> QED
  BY <1>4, <1>5, <1>6, <1>7, <1>8 DEF r

\* The same of none.
LEMMA NoMessage ==
  /\ \A n : OfTurns(<<>>, n) /\ NoText(<<>>, n) /\ ItemEnds(<<>>, n) /\ \A what : ~Has(<<>>, what, n)
  /\ Fine(<<>>) /\ Orderly(<<>>) /\ Going(<<>>) /\ Calm(<<>>)
BY DEF OfTurns, NoText, ItemEnds, Has, Fine, Orderly, Going, Calm

\* The same of one message.
LEMMA OneMessage ==
  ASSUME NEW x
  PROVE  /\ \A n : OfTurns(<<x>>, n) <=> (Textual(x) \/ x.what = "started" => x.n <= n)
         /\ Fine(<<x>>) <=> x.what # "error"
         /\ Going(<<x>>) <=> x.what # "completed"
         /\ Calm(<<x>>) <=> ~Textual(x)
         /\ \A t : NoText(<<x>>, t) <=> ~IsText(x, t)
         /\ \A t, what : Has(<<x>>, what, t) <=> x.what = what /\ x.n = t
<1>1. Len(<<x>>) = 1 /\ <<x>>[1] = x
  OBVIOUS
<1> DEFINE s == <<x>>
<1>2. \A i \in 1 .. Len(s) : i = 1 /\ s[i] = x
  BY <1>1
<1>3. 1 \in 1 .. Len(s) /\ s[1] = x
  BY <1>1
<1> HIDE DEF s
<1>4. /\ \A n : OfTurns(s, n) <=> (Textual(x) \/ x.what = "started" => x.n <= n)
      /\ Fine(s) <=> x.what # "error"
      /\ Going(s) <=> x.what # "completed"
      /\ Calm(s) <=> ~Textual(x)
      /\ \A t : NoText(s, t) <=> ~IsText(x, t)
      /\ \A t, what : Has(s, what, t) <=> x.what = what /\ x.n = t
  BY <1>2, <1>3 DEF OfTurns, Fine, Going, Calm, NoText, Has
<1> QED
  BY <1>4 DEF s

\* What the app server says, step by step: a response, or what a turn says.
LEMMA CodexTells ==
  ASSUME CodexInv, Codex!ConstantsAssumption, Codex!Server
  PROVE  /\ UNCHANGED Codex!Others
         /\ \/ fromServer' = fromServer /\ server'.turn = server.turn /\ server'.running = server.running
            \/ /\ server'.turn = server.turn /\ server'.running = server.running
               /\ \E x \in CodexMessage : ~Textual(x) /\ x.what # "started" /\ fromServer' = Append(fromServer, x)
            \/ /\ server'.turn = server.turn /\ server'.running = server.running /\ server.running
               /\ Codex!Message("delta", server.turn) \in CodexMessage
               /\ fromServer' = Append(fromServer, Codex!Message("delta", server.turn))
            \/ /\ server'.turn = server.turn /\ ~server'.running /\ server.running
               /\ Codex!Message("item", server.turn) \in CodexMessage /\ Codex!Message("completed", server.turn) \in CodexMessage
               /\ fromServer' = Append(Append(fromServer, Codex!Message("item", server.turn)), Codex!Message("completed", server.turn))
            \/ /\ server'.turn = server.turn + 1 /\ server'.running /\ ~server.running /\ Codex!ServerTakes
               /\ Head(toServer) = Codex!Request("turn", Head(toServer).c) /\ Head(toServer).c \in Codex!Callers
               /\ \E x, y \in CodexMessage : /\ x.what = "response" /\ y = Codex!Message("started", server.turn + 1)
                                             /\ fromServer' = Append(Append(fromServer, x), y)
<1>1. /\ CodexWire /\ server.turn \in Nat /\ toServer \in Seq(CodexRequest) /\ fromServer \in Seq(CodexMessage)
      /\ server.turn <= Codex!Turns /\ (server.running => server.turn \in Codex!Turn) /\ Codex!Turns \in Nat
  BY CodexTurnsAre, CodexMessages DEF CodexInv, CodexTyped, CodexWire
<1>2. UNCHANGED Codex!Others
  BY DEF Codex!Server, Codex!ServerTakes, Codex!ServerRefuses, Codex!ServerDelta, Codex!ServerAsks, Codex!ServerCompletes
<1>r. ASSUME NEW c \in Codex!Callers, NEW n \in 1 .. Codex!Turns + 1, Codex!Say(<<Codex!Reply(c, n)>>)
      PROVE  \E x \in CodexMessage : ~Textual(x) /\ x.what # "started" /\ fromServer' = Append(fromServer, x)
  <2>1. Codex!Reply(c, n) \in CodexMessage /\ ~Textual(Codex!Reply(c, n)) /\ Codex!Reply(c, n).what # "started"
    BY CodexMessages DEF Codex!Reply, Textual
  <2> QED
    BY <2>1, <1>1, <1>r, CodexSays1
<1>3. CASE Codex!ServerTakes
  <2>1. CASE Head(toServer).what = "decision" /\ UNCHANGED fromServer
             /\ server' = [server EXCEPT !.asked = @ \ {Head(toServer).n}]
    <3>1. server'.turn = server.turn /\ server'.running = server.running
      BY <2>1, <1>1 DEF CodexWire
    <3> QED
      BY <2>1, <3>1, <1>2
  <2>2. CASE Head(toServer).what \in Kinds /\ Head(toServer).c \in Codex!Callers /\ UNCHANGED server
             /\ \E n \in 1 .. Codex!Turns + 1 : Codex!Say(<<Codex!Reply(Head(toServer).c, n)>>)
    <3>1. \E x \in CodexMessage : ~Textual(x) /\ x.what # "started" /\ fromServer' = Append(fromServer, x)
      BY <2>2, <1>r
    <3> QED
      BY <2>2, <3>1, <1>2
  <2>3. ASSUME NEW c \in Codex!Callers, c = Head(toServer).c, Head(toServer) = Codex!Request("turn", c),
               ~server.running, server.turn + 1 \in Codex!Turn,
               server' = [server EXCEPT !.turn = @ + 1, !.running = TRUE, !.deltas = 0],
               Codex!Say(<<Codex!Reply(c, server.turn + 1), Codex!Message("started", server.turn + 1)>>)
        PROVE  /\ server'.turn = server.turn + 1 /\ server'.running /\ ~server.running
               /\ \E x, y \in CodexMessage : /\ x.what = "response" /\ y = Codex!Message("started", server.turn + 1)
                                             /\ fromServer' = Append(Append(fromServer, x), y)
    <3> DEFINE x == Codex!Reply(c, server.turn + 1)
               y == Codex!Message("started", server.turn + 1)
    <3>1. server.turn + 1 \in 1 .. Codex!Turns + 1
      BY <2>3, <1>1 DEF Codex!Turn
    <3>2. x \in CodexMessage /\ y \in CodexMessage /\ x.what = "response"
      BY <2>3, <3>1, CodexMessages DEF Codex!Reply
    <3>3. fromServer' = Append(Append(fromServer, x), y)
      BY <2>3, <3>2, <1>1, CodexSays1
    <3>4. server'.turn = server.turn + 1 /\ server'.running
      BY <2>3, <1>1 DEF CodexWire
    <3> HIDE DEF x
    <3> QED
      BY <2>3, <3>2, <3>3, <3>4
  <2> QED
    BY <2>1, <2>2, <2>3, <1>2, <1>3, CodexServerTakes
<1>4. CASE Codex!ServerRefuses
  <2>1. Head(toServer) \in CodexRequest /\ Head(toServer).what # "decision" /\ Codex!Say(<<Codex!Reply(Head(toServer).c, Codex!Refusal)>>)
        /\ UNCHANGED server
    BY <1>4, <1>1, FirstAndRest DEF Codex!ServerRefuses
  <2>2. Head(toServer).c \in Codex!Callers /\ Codex!Refusal \in 1 .. Codex!Turns + 1
    BY <2>1, <1>1, CodexRequestIs, CodexMessages, SMTT(60)
  <2>3. \E x \in CodexMessage : ~Textual(x) /\ x.what # "started" /\ fromServer' = Append(fromServer, x)
    BY <2>1, <2>2, <1>r
  <2> QED
    BY <2>1, <2>3, <1>2
<1>5. CASE Codex!ServerDelta
  <2>1. server'.turn = server.turn /\ server'.running = server.running /\ server.running
        /\ Codex!Say(<<Codex!Message("delta", server.turn)>>)
    BY <1>5, <1>1 DEF Codex!ServerDelta, CodexWire
  <2>2. Codex!Message("delta", server.turn) \in CodexMessage
    BY <2>1, <1>1, CodexMessages
  <2>3. fromServer' = Append(fromServer, Codex!Message("delta", server.turn))
    BY <2>1, <2>2, <1>1, CodexSays1
  <2> QED
    BY <2>1, <2>2, <2>3, <1>2
<1>6. CASE Codex!ServerAsks
  <2>0. server' = [server EXCEPT !.asks = @ + 1, !.asked = @ \cup {server.asks + 1}] /\ server.asks < Approvals
        /\ Codex!Say(<<Codex!Message("ask", server.asks + 1)>>)
    BY <1>6 DEF Codex!ServerAsks
  <2>1. server'.turn = server.turn /\ server'.running = server.running /\ server.asks + 1 \in Codex!Ask
        /\ Codex!Say(<<Codex!Message("ask", server.asks + 1)>>)
    <3>1. server'.turn = server.turn /\ server'.running = server.running
      BY <2>0, <1>1 DEF CodexWire
    <3>2. server.asks + 1 \in Codex!Ask
      BY <2>0, <1>1, CodexMessages, SMTT(60) DEF CodexWire, Codex!Ask
    <3> QED
      BY <2>0, <3>1, <3>2
  <2>2. Codex!Message("ask", server.asks + 1) \in CodexMessage /\ ~Textual(Codex!Message("ask", server.asks + 1))
        /\ Codex!Message("ask", server.asks + 1).what # "started"
    BY <2>1, CodexMessages DEF Codex!Message, Textual
  <2>3. fromServer' = Append(fromServer, Codex!Message("ask", server.asks + 1))
    BY <2>1, <2>2, <1>1, CodexSays1
  <2> QED
    BY <2>1, <2>2, <2>3, <1>2
<1>7. CASE Codex!ServerCompletes
  <2>1. server'.turn = server.turn /\ ~server'.running /\ server.running
        /\ Codex!Say(<<Codex!Message("item", server.turn), Codex!Message("completed", server.turn)>>)
    BY <1>7, <1>1 DEF Codex!ServerCompletes, CodexWire
  <2>2. Codex!Message("item", server.turn) \in CodexMessage /\ Codex!Message("completed", server.turn) \in CodexMessage
    BY <2>1, <1>1, CodexMessages
  <2>3. fromServer' = Append(Append(fromServer, Codex!Message("item", server.turn)), Codex!Message("completed", server.turn))
    BY <2>1, <2>2, <1>1, CodexSays1
  <2> QED
    BY <2>1, <2>2, <2>3, <1>2
<1> QED
  BY <1>3, <1>4, <1>5, <1>6, <1>7 DEF Codex!Server

\* The messages are of turns that have begun, step by step.
LEMMA CodexBegunKept ==
  ASSUME CodexInv, Codex!ConstantsAssumption, Codex!Next
  PROVE  CodexBegun'
<1>1. /\ CodexBegun /\ CodexReader /\ server.turn \in Nat /\ CodexEarly /\ CodexTurns /\ CodexWire
      /\ fromServer \in Seq(CodexMessage) /\ events \in Seq(CodexEvent) /\ emitting \in Seq(CodexEvent)
  BY DEF CodexInv, CodexTyped, CodexCalling, CodexWire, CodexReader
<1>q. ASSUME UNCHANGED <<fromServer, emitting, events, out>>, server'.turn = server.turn,
             deltaSeen' = deltaSeen \/ deltaSeen' = {}
      PROVE  CodexBegun'
  BY <1>1, <1>q DEF CodexBegun
<1>2. CASE Codex!Send \/ Codex!Inject
  BY <1>2, <1>q DEF Codex!Send, Codex!Inject, Codex!Begin, Codex!wire
<1>3. ASSUME NEW c \in Codex!Callers, Codex!Caller(c) PROVE CodexBegun'
  <2>1. UNCHANGED <<fromServer, emitting, events, out, deltaSeen>>
    BY <1>3 DEF Codex!Caller, Codex!Write, Codex!WriteFails, Codex!WaitCancelled, Codex!TakeRefusal, Codex!TakeResponse, Codex!Store, Codex!wire
  <2>2. server'.turn = server.turn
    BY <1>3, <1>1 DEF Codex!Caller, Codex!Write, Codex!WriteFails, Codex!WaitCancelled, Codex!TakeRefusal, Codex!TakeResponse, Codex!Store, Codex!Failed, CodexWire
  <2> QED
    BY <2>1, <2>2, <1>q
<1>4. CASE Codex!Fallback
  <2>1. /\ state = "failed" /\ fromServer' = <<>> /\ emitting' = <<>> /\ events' = <<>>
        /\ server' = [Codex!Down EXCEPT !.up = TRUE] /\ UNCHANGED <<deltaSeen, out>>
    BY <1>4 DEF Codex!Fallback
  <2>2. server.turn = 0 /\ server'.turn = 0
    BY <2>1, <1>1 DEF CodexEarly, CodexTurns, Codex!Down
  <2> QED
    BY <2>1, <2>2, <1>1, NoMessage DEF CodexBegun
<1>5. CASE Codex!Read
  <2> DEFINE m == Head(fromServer)
  <2>1. m = Head(fromServer)
    OBVIOUS
  <2> HIDE DEF m
  <2>2. /\ fromServer' = Tail(fromServer) /\ fromServer # <<>> /\ m = fromServer[1] /\ emitting = <<>>
        /\ UNCHANGED <<events, out, server>>
    BY <2>1, <1>5, CodexReads
  <2>3. OfTurns(fromServer', server.turn)
    BY <2>2, <1>1, MessageLess DEF CodexBegun
  <2>4. 1 \in 1 .. Len(fromServer)
    BY <2>2, <1>1, FirstAndRest
  <2>5. Textual(m) \/ m.what = "started" => m.n <= server.turn
    BY <2>2, <2>4, <1>1 DEF CodexBegun, OfTurns
  <2>6. emitting' = <<>> \/ emitting' = <<m>>
    <3>1. CASE m.what = "response"
      BY <2>1, <2>2, <3>1, <1>5, CodexReads DEF Codex!Deliver
    <3>2. CASE m.what # "response"
      BY <2>1, <3>2, <1>5, CodexReads
    <3> QED
      BY <3>1, <3>2
  <2>7. OfTurns(emitting', server.turn)
    BY <2>5, <2>6, NoMessage, OneMessage
  <2>8. \A t \in deltaSeen' : t \in deltaSeen \/ (m.what = "delta" /\ t = m.n)
    <3>1. CASE m.what = "response"
      BY <2>1, <3>1, <1>5, CodexReads DEF Codex!Deliver
    <3>2. CASE m.what # "response"
      BY <2>1, <3>2, <1>5, CodexReads DEF Codex!Notify
    <3> QED
      BY <3>1, <3>2
  <2>9. \A t \in deltaSeen' : t <= server.turn
    BY <2>5, <2>8, <1>1 DEF CodexBegun, Textual
  <2> QED
    BY <2>2, <2>3, <2>7, <2>9, <1>1 DEF CodexBegun
<1>6. ASSUME NEW why, Codex!ReadFails(why) PROVE CodexBegun'
  <2>1. /\ emitting' = emitting \/ emitting' = <<Codex!Message("error", 0)>>
        /\ UNCHANGED <<fromServer, events, out, server, deltaSeen>>
    BY <1>6 DEF Codex!ReadFails, Codex!wire
  <2>2. OfTurns(<<Codex!Message("error", 0)>>, server.turn)
    BY OneMessage DEF Textual, Codex!Message
  <2> QED
    BY <2>1, <2>2, <1>1 DEF CodexBegun
<1>7. CASE Codex!Emit
  <2> DEFINE h == emitting[1]
  <2>1. /\ h \in CodexEvent /\ emitting = <<h>> /\ emitting' = <<>> /\ events' = Append(events, h)
        /\ \A t \in Codex!Turn : (h.what \in {"delta", "item"} /\ h.n = t)
                             \/ (out'[t].deltas = out[t].deltas /\ out'[t].whole = out[t].whole)
    BY <1>7, <1>1, CodexRecords
  <2>2. UNCHANGED <<fromServer, server, deltaSeen>>
    BY <1>7 DEF Codex!Emit, Codex!wire
  <2> HIDE DEF h
  <2>3. Textual(h) \/ h.what = "started" => h.n <= server.turn
    BY <2>1, <1>1, OneMessage DEF CodexBegun
  <2>4. OfTurns(events', server.turn)
    BY <2>1, <2>3, <1>1, MessageMore DEF CodexBegun
  <2>5. ASSUME NEW t \in Codex!Turn, t > server.turn PROVE out'[t].deltas = 0 /\ out'[t].whole = 0
    <3>1. t \in Nat
      BY DEF Codex!Turn
    <3>2. ~(h.what \in {"delta", "item"} /\ h.n = t)
      BY <2>3, <2>5, <3>1, <1>1 DEF Textual
    <3> QED
      BY <2>1, <2>5, <3>2, <1>1 DEF CodexBegun
  <2>6. OfTurns(emitting', server.turn)
    BY <2>1, NoMessage
  <2> QED
    BY <2>2, <2>4, <2>5, <2>6, <1>1 DEF CodexBegun
<1>8. CASE Codex!EmitCancelled
  <2>1. emitting' = <<>> /\ UNCHANGED <<fromServer, events, out, server, deltaSeen>>
    BY <1>8 DEF Codex!EmitCancelled, Codex!wire
  <2> QED
    BY <2>1, <1>1, NoMessage DEF CodexBegun
<1>9. CASE Codex!Take
  <2>1. events # <<>> /\ events' = Tail(events) /\ UNCHANGED <<fromServer, emitting, out, server, deltaSeen>>
    BY <1>9 DEF Codex!Take, Codex!wire
  <2>2. OfTurns(events', server.turn)
    BY <2>1, <1>1, MessageLess DEF CodexBegun
  <2> QED
    BY <2>1, <2>2, <1>1 DEF CodexBegun
<1>10. CASE Codex!Leave \/ Codex!ReadCancelled \/ Codex!Respond \/ Codex!Close \/ Codex!CloseEnds \/ Codex!DrainEnds \/ Codex!ServerExits
  <2>1. UNCHANGED <<fromServer, emitting, events, out, deltaSeen>>
    BY <1>10 DEF Codex!Leave, Codex!ReadCancelled, Codex!Respond, Codex!Close, Codex!CloseEnds, Codex!DrainEnds, Codex!ServerExits, Codex!wire, Codex!Others
  <2>2. server'.turn = server.turn
    BY <1>10, <1>1 DEF Codex!Leave, Codex!ReadCancelled, Codex!Respond, Codex!Close, Codex!CloseEnds, Codex!DrainEnds, Codex!ServerExits, CodexWire
  <2> QED
    BY <2>1, <2>2, <1>q
<1>11. CASE Codex!Server
  <2>1. UNCHANGED <<emitting, events, out, deltaSeen>>
    BY <1>11, CodexTells DEF Codex!Others
  <2>2. server'.turn \in Nat /\ server.turn <= server'.turn /\ OfTurns(fromServer', server'.turn)
    <3>1. CASE fromServer' = fromServer /\ server'.turn = server.turn
      BY <3>1, <1>1 DEF CodexBegun
    <3>2. ASSUME NEW x \in CodexMessage, ~Textual(x), x.what # "started", fromServer' = Append(fromServer, x),
                 server'.turn = server.turn
          PROVE  OfTurns(fromServer', server'.turn)
      BY <3>2, <1>1, MessageMore DEF CodexBegun
    <3>3. CASE server'.turn = server.turn /\ Codex!Message("delta", server.turn) \in CodexMessage
               /\ fromServer' = Append(fromServer, Codex!Message("delta", server.turn))
      <4>1. Codex!Message("delta", server.turn).n <= server.turn
        BY <1>1 DEF Codex!Message
      <4> QED
        BY <3>3, <4>1, <1>1, MessageMore DEF CodexBegun
    <3>4. ASSUME NEW x \in CodexMessage, NEW y \in CodexMessage, x.what # "response" => x.n <= server'.turn,
                 y.n <= server'.turn, fromServer' = Append(Append(fromServer, x), y),
                 server'.turn \in Nat, server.turn <= server'.turn
          PROVE  OfTurns(fromServer', server'.turn)
      <4>1. OfTurns(fromServer, server'.turn)
        <5>1. ASSUME NEW i \in 1 .. Len(fromServer), Textual(fromServer[i]) \/ fromServer[i].what = "started"
              PROVE  fromServer[i].n <= server'.turn
          <6>1. fromServer[i].n <= server.turn /\ fromServer[i] \in CodexMessage
            BY <5>1, <1>1 DEF CodexBegun, OfTurns
          <6>2. fromServer[i].n \in Nat
            BY <5>1, <6>1, CodexMessageIs DEF Textual
          <6> QED
            BY <6>1, <6>2, <3>4, <1>1
        <5> QED
          BY <5>1 DEF OfTurns
      <4> DEFINE r == Append(fromServer, x)
      <4>2. OfTurns(r, server'.turn) /\ r \in Seq(CodexMessage)
        BY <4>1, <3>4, <1>1, MessageMore, Appended DEF Textual
      <4> HIDE DEF r
      <4>3. fromServer' = Append(r, y)
        BY <3>4 DEF r
      <4>4. OfTurns(Append(r, y), server'.turn)
        BY <4>2, <3>4, MessageMore
      <4> QED
        BY <4>3, <4>4
    <3>5. CASE server'.turn = server.turn /\ Codex!Message("item", server.turn) \in CodexMessage
               /\ Codex!Message("completed", server.turn) \in CodexMessage
               /\ fromServer' = Append(Append(fromServer, Codex!Message("item", server.turn)), Codex!Message("completed", server.turn))
      <4>1. Codex!Message("item", server.turn).n <= server'.turn /\ Codex!Message("completed", server.turn).n <= server'.turn
        BY <3>5, <1>1 DEF Codex!Message
      <4> QED
        BY <3>5, <4>1, <3>4, <1>1
    <3>6. ASSUME server'.turn = server.turn + 1, NEW x \in CodexMessage, NEW y \in CodexMessage,
                 x.what = "response", y = Codex!Message("started", server.turn + 1),
                 fromServer' = Append(Append(fromServer, x), y)
          PROVE  OfTurns(fromServer', server'.turn)
      <4>1. y.n <= server'.turn /\ server'.turn \in Nat /\ server.turn <= server'.turn
        BY <3>6, <1>1 DEF Codex!Message
      <4> QED
        BY <3>6, <4>1, <3>4
    <3>7. server'.turn = server.turn \/ server'.turn = server.turn + 1
      BY <1>11, CodexTells
    <3> QED
      BY <3>1, <3>2, <3>3, <3>5, <3>6, <3>7, <1>1, <1>11, CodexTells, SMTT(60)
  <2>3. ASSUME NEW s \in Seq(CodexEvent), OfTurns(s, server.turn) PROVE OfTurns(s, server'.turn)
    <3>1. ASSUME NEW i \in 1 .. Len(s), Textual(s[i]) \/ s[i].what = "started" PROVE s[i].n <= server'.turn
      <4>1. s[i].n <= server.turn /\ s[i] \in CodexEvent
        BY <3>1, <2>3 DEF OfTurns
      <4>2. s[i].n \in Nat
        BY <3>1, <4>1, CodexEventIs DEF Textual, Codex!Turn
      <4> QED
        BY <4>1, <4>2, <2>2, <1>1
    <3> QED
      BY <3>1 DEF OfTurns
  <2>4. OfTurns(emitting, server'.turn) /\ OfTurns(events, server'.turn)
    BY <2>3, <1>1 DEF CodexBegun
  <2>5. \A t \in deltaSeen : t <= server'.turn
    BY <2>2, <1>1 DEF CodexBegun, CodexReader, Codex!Turn
  <2>6. \A t \in Codex!Turn : t > server'.turn => t > server.turn
    BY <2>2, <1>1 DEF Codex!Turn
  <2> QED
    BY <2>1, <2>2, <2>4, <2>5, <2>6, <1>1 DEF CodexBegun
<1> QED
  BY <1>2, <1>3, <1>4, <1>5, <1>6, <1>7, <1>8, <1>9, <1>10, <1>11 DEF Codex!Next, Codex!Reader

\* An error comes last, step by step.
LEMMA CodexErrorsKept ==
  ASSUME CodexInv, Codex!ConstantsAssumption, Codex!Next
  PROVE  CodexErrors'
<1>1. /\ CodexErrors /\ CodexReader /\ CodexTold /\ events \in Seq(CodexEvent) /\ emitting \in Seq(CodexEvent)
  BY DEF CodexInv, CodexTyped, CodexReader
<1>q. ASSUME UNCHANGED <<emitting, events, told>> PROVE CodexErrors'
  BY <1>1, <1>q DEF CodexErrors
<1>2. CASE Codex!Fallback
  BY <1>2, NoMessage DEF Codex!Fallback, CodexErrors
<1>3. CASE Codex!Read
  <2> DEFINE m == Head(fromServer)
  <2>1. m = Head(fromServer)
    OBVIOUS
  <2> HIDE DEF m
  <2>2. m \in CodexMessage /\ UNCHANGED <<events, told>> /\ (emitting' = <<>> \/ emitting' = <<m>>)
    <3>1. m \in CodexMessage /\ emitting = <<>> /\ UNCHANGED <<events, told>>
      BY <2>1, <1>3, CodexReads
    <3>2. CASE m.what = "response"
      BY <2>1, <3>1, <3>2, <1>3, CodexReads DEF Codex!Deliver
    <3>3. CASE m.what # "response"
      BY <2>1, <3>1, <3>3, <1>3, CodexReads
    <3> QED
      BY <3>1, <3>2, <3>3
  <2>3. Fine(emitting')
    BY <2>2, CodexMessageIs, OneMessage, NoMessage
  <2> QED
    BY <2>2, <2>3, <1>1 DEF CodexErrors
<1>4. ASSUME NEW why, Codex!ReadFails(why) PROVE CodexErrors'
  <2>1. told' = "error" \/ (UNCHANGED <<emitting, events>> /\ told' = "silent" /\ reader = "read")
    BY <1>4 DEF Codex!ReadFails
  <2>2. reader = "read" => told # "error"
    BY <1>1 DEF CodexTold
  <2> QED
    BY <2>1, <2>2, <1>1 DEF CodexErrors
<1>5. CASE Codex!Emit
  <2>1. /\ emitting[1] \in CodexEvent /\ emitting = <<emitting[1]>> /\ emitting' = <<>>
        /\ events' = Append(events, emitting[1]) /\ UNCHANGED told
    BY <1>5, <1>1, CodexRecords DEF Codex!Emit, Codex!history
  <2>2. told # "error" => emitting[1].what # "error"
    BY <2>1, <1>1, OneMessage DEF CodexErrors
  <2>3. told # "error" => Fine(events')
    BY <2>1, <2>2, <1>1, MessageMore DEF CodexErrors
  <2> QED
    BY <2>1, <2>3, NoMessage DEF CodexErrors
<1>6. CASE Codex!EmitCancelled
  BY <1>6, <1>1, NoMessage DEF Codex!EmitCancelled, CodexErrors, Codex!history
<1>7. CASE Codex!Take
  <2>1. events # <<>> /\ events' = Tail(events) /\ UNCHANGED <<emitting, told>>
    BY <1>7 DEF Codex!Take, Codex!history
  <2> QED
    BY <2>1, <1>1, MessageLess DEF CodexErrors
<1>8. ASSUME NEW c \in Codex!Callers, Codex!Caller(c) PROVE CodexErrors'
  BY <1>8, <1>q DEF Codex!Caller, Codex!Write, Codex!WriteFails, Codex!WaitCancelled, Codex!TakeRefusal, Codex!TakeResponse, Codex!Store, Codex!history
<1>9. CASE Codex!Leave \/ Codex!Send \/ Codex!Inject \/ Codex!ReadCancelled \/ Codex!Respond \/ Codex!Close \/ Codex!CloseEnds \/ Codex!DrainEnds \/ Codex!ServerExits \/ Codex!Server
  BY <1>9, <1>q DEF Codex!Leave, Codex!Send, Codex!Inject, Codex!ReadCancelled, Codex!Respond, Codex!Close, Codex!CloseEnds, Codex!DrainEnds, Codex!ServerExits, Codex!Server, Codex!ServerTakes,
                    Codex!ServerRefuses, Codex!ServerDelta, Codex!ServerAsks, Codex!ServerCompletes, Codex!Others, Codex!history
<1> QED
  BY <1>2, <1>3, <1>4, <1>5, <1>6, <1>7, <1>8, <1>9 DEF Codex!Next, Codex!Reader

\* What a message more, or less, does to the texts in a sequence.
LEMMA TextLess ==
  ASSUME NEW E, NEW s \in Seq(E), s # <<>>, NEW t
  PROVE  /\ NoText(s, t) => NoText(Tail(s), t) /\ ~IsText(Head(s), t)
         /\ Has(Tail(s), "item", t) => Has(s, "item", t)
         /\ ItemEnds(s, t) => ItemEnds(Tail(s), t)
         /\ Head(s).what = "item" /\ Head(s).n = t => Has(s, "item", t) /\ (ItemEnds(s, t) => NoText(Tail(s), t))
<1>1. /\ Head(s) = s[1] /\ Len(s) \in Nat /\ Len(s) > 0 /\ Len(Tail(s)) = Len(s) - 1
      /\ \A i \in 1 .. Len(s) - 1 : Tail(s)[i] = s[i + 1]
  BY FirstAndRest
<1> DEFINE r == Tail(s)
<1>2. \A i \in 1 .. Len(r) : i + 1 \in 1 .. Len(s) /\ r[i] = s[i + 1] /\ 1 < i + 1
  BY <1>1
<1>3. \A i, j \in 1 .. Len(r) : i < j => i + 1 < j + 1
  BY <1>1
<1>4. 1 \in 1 .. Len(s) /\ Head(s) = s[1]
  BY <1>1
<1> HIDE DEF r
<1>5. NoText(s, t) => NoText(r, t) /\ ~IsText(Head(s), t)
  BY <1>2, <1>4 DEF NoText
<1>6. Has(r, "item", t) => Has(s, "item", t)
  BY <1>2 DEF Has
<1>7. ItemEnds(s, t) => ItemEnds(r, t)
  BY <1>2, <1>3 DEF ItemEnds
<1>8. Head(s).what = "item" /\ Head(s).n = t => Has(s, "item", t) /\ (ItemEnds(s, t) => NoText(r, t))
  BY <1>2, <1>4 DEF ItemEnds, NoText, Has
<1> QED
  BY <1>5, <1>6, <1>7, <1>8 DEF r

\* The same of a sequence with a message more.
LEMMA TextMore ==
  ASSUME NEW E, NEW s \in Seq(E), NEW x \in E, NEW t
  PROVE  /\ NoText(s, t) /\ ~IsText(x, t) => NoText(Append(s, x), t)
         /\ Has(Append(s, x), "item", t) => Has(s, "item", t) \/ (x.what = "item" /\ x.n = t)
         /\ ItemEnds(s, t) /\ (~Has(s, "item", t) \/ ~IsText(x, t)) => ItemEnds(Append(s, x), t)
<1> DEFINE r == Append(s, x)
<1>1. /\ Len(r) = Len(s) + 1 /\ Len(s) \in Nat
      /\ \A i \in 1 .. Len(s) : r[i] = s[i]
      /\ r[Len(s) + 1] = x
  BY Appended
<1>2. \A i \in 1 .. Len(r) : (i \in 1 .. Len(s) /\ r[i] = s[i]) \/ (i = Len(s) + 1 /\ r[i] = x)
  BY <1>1
<1>3. \A i, j \in 1 .. Len(r) : i < j => i \in 1 .. Len(s) /\ r[i] = s[i]
  BY <1>1
<1> HIDE DEF r
<1>4. NoText(s, t) /\ ~IsText(x, t) => NoText(r, t)
  BY <1>2 DEF NoText
<1>5. Has(r, "item", t) => Has(s, "item", t) \/ (x.what = "item" /\ x.n = t)
  BY <1>2 DEF Has
<1>6. ItemEnds(s, t) /\ (~Has(s, "item", t) \/ ~IsText(x, t)) => ItemEnds(r, t)
  BY <1>2, <1>3 DEF ItemEnds, Has
<1> QED
  BY <1>4, <1>5, <1>6 DEF r

\* No text is neither an item nor a delta.
LEMMA TextNone ==
  ASSUME NEW s, NEW t
  PROVE  NoText(s, t) => ~Has(s, "item", t) /\ ~Has(s, "delta", t)
BY DEF NoText, Has, IsText

\* A calm sequence has no text.
LEMMA CalmNoText ==
  ASSUME NEW s, NEW t, Calm(s)
  PROVE  NoText(s, t) /\ ~Has(s, "item", t) /\ ~Has(s, "delta", t)
BY DEF Calm, Textual, NoText, Has, IsText

\* An answer stays as it is when nothing of it comes, and nothing of it is forgotten.
LEMMA CodexAnswerStays ==
  ASSUME NEW t \in Codex!Turn, Answer(t), out'[t].deltas = out[t].deltas, out'[t].whole = out[t].whole,
         NoText(fromServer, t) => NoText(fromServer', t),
         Has(fromServer', "item", t) => Has(fromServer, "item", t),
         ItemEnds(fromServer, t) => ItemEnds(fromServer', t),
         NoText(emitting, t) => NoText(emitting', t),
         Has(emitting', "item", t) => Has(emitting, "item", t),
         Has(emitting', "delta", t) => Has(emitting, "delta", t),
         t \in deltaSeen => t \in deltaSeen', Said(t) => Said(t)'
  PROVE  Answer(t)'
<1>1. WholeLast(t) /\ ItemOnly(t) /\ DeltasSeen(t) /\ ItemLast(t)
  BY DEF Answer
<1>2. WholeLast(t)'
  BY <1>1 DEF WholeLast
<1>3. ItemOnly(t)'
  BY <1>1 DEF ItemOnly
<1>4. DeltasSeen(t)'
  BY <1>1 DEF DeltasSeen
<1>5. ItemLast(t)'
  BY <1>1 DEF ItemLast
<1> QED
  BY <1>2, <1>3, <1>4, <1>5 DEF Answer

\* That a turn was left early is not forgotten.
LEMMA CodexNotEarly ==
  ASSUME Codex!Next, ~early'
  PROVE  ~early
<1>1. ASSUME NEW c \in Codex!Callers, Codex!Caller(c) PROVE early' = early
  BY <1>1 DEF Codex!Caller, Codex!Write, Codex!WriteFails, Codex!WaitCancelled, Codex!TakeRefusal, Codex!TakeResponse, Codex!Store, Codex!history
<1>2. CASE Codex!Send \/ Codex!Inject \/ Codex!Fallback \/ Codex!Take \/ Codex!Respond \/ Codex!Close \/ Codex!CloseEnds \/ Codex!DrainEnds
  BY <1>2 DEF Codex!Send, Codex!Inject, Codex!Fallback, Codex!Take, Codex!Respond, Codex!Close, Codex!CloseEnds, Codex!DrainEnds, Codex!history
<1>3. CASE Codex!Reader
  BY <1>3 DEF Codex!Reader, Codex!Read, Codex!ReadFails, Codex!ReadCancelled, Codex!Emit, Codex!EmitCancelled, Codex!history
<1>4. CASE Codex!Server \/ Codex!ServerExits
  BY <1>4 DEF Codex!Server, Codex!ServerExits, Codex!ServerTakes, Codex!ServerRefuses, Codex!ServerDelta, Codex!ServerAsks,
     Codex!ServerCompletes, Codex!Others, Codex!history
<1>5. CASE Codex!Leave
  BY <1>5 DEF Codex!Leave
<1> QED
  BY <1>1, <1>2, <1>3, <1>4, <1>5 DEF Codex!Next

\* The answer of a turn, step by step.
LEMMA CodexAnswersKept ==
  ASSUME CodexInv, Codex!ConstantsAssumption, Codex!Next
  PROVE  CodexAnswers'
<1>1. /\ CodexAnswers /\ CodexCalls /\ CodexReader /\ CodexWire /\ CodexTold /\ CodexEarly /\ CodexBegun /\ CodexPhase
      /\ CodexTurns /\ server.turn \in Nat /\ fromServer \in Seq(CodexMessage) /\ emitting \in Seq(CodexEvent)
      /\ out \in [Codex!Turn -> [deltas : Nat, whole : Nat]] /\ {"turn", "btw"} \subseteq Codex!Callers
  BY DEF CodexInv, CodexTyped, CodexCalling, CodexWire, CodexReader, Codex!Callers
<1> SUFFICES ASSUME sent'["btw"] = 0, ~early', NEW t \in Codex!Turn PROVE Given(t)' /\ (~Dead' => Answer(t)')
  BY DEF CodexAnswers
<1>e. ~early
  BY CodexNotEarly
<1>t. t \in Nat /\ t > 0
  BY DEF Codex!Turn
<1>a. ASSUME UNCHANGED sent PROVE sent["btw"] = 0 /\ Given(t) /\ (~Dead => Answer(t))
  BY <1>1, <1>a, <1>e DEF CodexAnswers
<1>q. ASSUME UNCHANGED <<sent, deltaSeen, fromServer, told>>,
             out'[t].deltas = out[t].deltas, out'[t].whole = out[t].whole,
             emitting' = emitting \/ emitting' = <<>>, reader = "ended" => reader' = "ended",
             Said(t) => Said(t)'
      PROVE  Given(t)' /\ (~Dead' => Answer(t)')
  <2>1. Given(t)'
    BY <1>q, <1>a DEF Given
  <2>2. NoText(<<>>, t) /\ ~Has(<<>>, "item", t) /\ ~Has(<<>>, "delta", t)
    BY NoMessage
  <2>3. ASSUME ~Dead' PROVE Answer(t)'
    <3>1. Answer(t)
      BY <1>q, <1>a, <2>3 DEF Dead
    <3> QED
      BY <1>q, <2>2, <3>1, CodexAnswerStays
  <2> QED
    BY <2>1, <2>3
<1>2. CASE Codex!Send
  <2>1. /\ state = "alive" /\ call["turn"].pc = "idle" /\ deltaSeen' = {} /\ sent' = [sent EXCEPT !["turn"] = @ + 1]
        /\ UNCHANGED <<fromServer, told, out, emitting, reader, server>>
    BY <1>2 DEF Codex!Send, Codex!Begin, Codex!wire, Codex!history
  <2>2. sent["btw"] = 0
    BY <2>1, <1>1 DEF CodexCalls
  <2>3. Given(t) /\ (~Dead => Answer(t))
    BY <2>2, <1>1, <1>e DEF CodexAnswers
  <2>4. Given(t)'
    BY <2>1, <2>3 DEF Given
  <2>5. ASSUME ~Dead' PROVE Answer(t)'
    <3>1. ~Dead
      BY <2>1, <2>5 DEF Dead
    <3>2. Calm(emitting) /\ Calm(fromServer) /\ ~server.running
      BY <2>1, <2>2, <3>1, <1>1, <1>e DEF CodexPhase, Between, AllCalm
    <3>3. ~Has(emitting, "delta", t) /\ ~Has(fromServer, "item", t)
      BY <3>2, CalmNoText
    <3>4. out[t].deltas > 0 => t <= server.turn
      BY <1>1, <1>t DEF CodexBegun
    <3>5. out[t].deltas > 0 => Said(t)
      BY <3>2, <3>4, <1>1, <1>t DEF Said
    <3>6. DeltasSeen(t)'
      <4>1. ~Has(emitting', "delta", t) /\ ~Has(fromServer', "item", t) /\ out'[t].deltas = out[t].deltas
            /\ (Said(t) => Said(t)')
        BY <2>1, <3>3 DEF Said
      <4> QED
        BY <4>1, <3>5, <2>1 DEF DeltasSeen
    <3>7. WholeLast(t)' /\ ItemOnly(t)' /\ ItemLast(t)'
      BY <2>1, <2>3, <3>1 DEF Answer, WholeLast, ItemOnly, ItemLast, Said
    <3> QED
      BY <3>6, <3>7 DEF Answer
  <2> QED
    BY <2>4, <2>5
<1>3. CASE Codex!Inject
  <2>1. sent' = [sent EXCEPT !["btw"] = @ + 1]
    BY <1>3 DEF Codex!Inject, Codex!Begin
  <2>2. sent'["btw"] = sent["btw"] + 1 /\ sent["btw"] \in Nat
    BY <2>1, <1>1 DEF CodexCalls
  <2> QED
    BY <2>2
<1>4. ASSUME NEW c \in Codex!Callers, Codex!Caller(c) PROVE Given(t)' /\ (~Dead' => Answer(t)')
  <2>1. UNCHANGED <<sent, deltaSeen, fromServer, told, out, emitting, reader>>
    BY <1>4 DEF Codex!Caller, Codex!Write, Codex!WriteFails, Codex!WaitCancelled, Codex!TakeRefusal, Codex!TakeResponse, Codex!Store, Codex!Failed, Codex!wire, Codex!history
  <2>2. server'.turn = server.turn /\ server'.running = server.running
    BY <1>4, <1>1 DEF Codex!Caller, Codex!Write, Codex!WriteFails, Codex!WaitCancelled, Codex!TakeRefusal, Codex!TakeResponse, Codex!Store, Codex!Failed, CodexWire
  <2> QED
    BY <2>1, <2>2, <1>q DEF Said
<1>5. CASE Codex!Fallback
  <2>1. /\ state = "failed" /\ fromServer' = <<>> /\ emitting' = <<>> /\ UNCHANGED <<sent, out>>
    BY <1>5 DEF Codex!Fallback
  <2>2. server.turn = 0
    BY <2>1, <1>1 DEF CodexEarly, CodexTurns
  <2>3. out'[t].deltas = 0 /\ out'[t].whole = 0
    BY <2>1, <2>2, <1>1, <1>t DEF CodexBegun
  <2>4. Given(t)'
    BY <2>3 DEF Given
  <2>5. /\ ~Has(emitting', "item", t) /\ ~Has(emitting', "delta", t) /\ ~Has(fromServer', "item", t)
        /\ ItemEnds(fromServer', t)
    BY <2>1, NoMessage
  <2>6. WholeLast(t)' /\ ItemOnly(t)' /\ DeltasSeen(t)' /\ ItemLast(t)'
    BY <2>3, <2>5 DEF WholeLast, ItemOnly, DeltasSeen, ItemLast
  <2> QED
    BY <2>4, <2>6 DEF Answer
<1>6. CASE Codex!Read
  <2> DEFINE m == Head(fromServer)
  <2>1. m = Head(fromServer)
    OBVIOUS
  <2> HIDE DEF m
  <2>2. /\ m \in CodexMessage /\ fromServer # <<>> /\ fromServer' = Tail(fromServer) /\ reader = "read" /\ emitting = <<>>
        /\ UNCHANGED <<sent, server, out, told>>
    BY <2>1, <1>6, CodexReads
  <2>3. Given(t)'
    BY <2>2, <1>a DEF Given
  <2>4. ASSUME ~Dead' PROVE Answer(t)'
    <3>1. Answer(t)
      BY <2>2, <2>4, <1>a DEF Dead
    <3>2. /\ NoText(fromServer, t) => NoText(fromServer', t) /\ ~IsText(m, t)
          /\ Has(fromServer', "item", t) => Has(fromServer, "item", t)
          /\ ItemEnds(fromServer, t) => ItemEnds(fromServer', t)
          /\ m.what = "item" /\ m.n = t => Has(fromServer, "item", t) /\ (ItemEnds(fromServer, t) => NoText(fromServer', t))
      BY <2>1, <2>2, <1>1, TextLess
    <3>3. Said(t)' <=> Said(t)
      BY <2>2 DEF Said
    <3>4. /\ t \in deltaSeen => t \in deltaSeen'
          /\ \/ emitting' = <<>>
             \/ /\ emitting' = <<m>> /\ m.what # "response" /\ (m.what = "item" => m.n \notin deltaSeen)
                /\ m.what = "delta" => m.n \in deltaSeen'
      <4>1. CASE m.what = "response"
        BY <2>1, <2>2, <4>1, <1>6, CodexReads DEF Codex!Deliver
      <4>2. CASE m.what # "response"
        BY <2>1, <2>2, <4>2, <1>6, CodexReads DEF Codex!Notify
      <4> QED
        BY <4>1, <4>2
    <3>5. CASE NoText(emitting', t)
      <4>1. ~Has(emitting', "item", t) /\ ~Has(emitting', "delta", t)
        BY <3>5, TextNone
      <4> QED
        BY <4>1, <3>1, <3>2, <3>3, <3>4, <3>5, <2>2, CodexAnswerStays
    <3>6. CASE ~NoText(emitting', t)
      <4>1. emitting' = <<m>> /\ IsText(m, t)
        BY <3>4, <3>6, NoMessage, OneMessage
      <4>2. out[t].whole = 0
        <5>1. ~NoText(fromServer, t)
          BY <3>2, <4>1
        <5> QED
          BY <5>1, <3>1, <1>1 DEF Answer, WholeLast
      <4>3. out'[t].whole = 0 /\ out'[t].deltas = out[t].deltas /\ out[t].deltas \in Nat
        BY <4>2, <2>2, <1>1
      <4>4. WholeLast(t)'
        BY <4>3 DEF WholeLast
      <4>5. ItemLast(t)'
        BY <3>1, <3>2, <3>3 DEF Answer, ItemLast
      <4>6. CASE m.what = "delta" /\ m.n = t
        <5>1. ~Has(emitting', "item", t)
          BY <4>1, <4>6, OneMessage
        <5>2. t \in deltaSeen'
          BY <4>1, <4>6, <3>4
        <5>3. ItemOnly(t)' /\ DeltasSeen(t)'
          BY <5>1, <5>2 DEF ItemOnly, DeltasSeen
        <5> QED
          BY <5>3, <4>4, <4>5 DEF Answer
      <4>7. CASE m.what = "item" /\ m.n = t
        <5>1. Has(fromServer, "item", t) /\ NoText(fromServer', t) /\ Said(t)
          BY <4>7, <3>1, <3>2 DEF Answer, ItemLast
        <5>2. t \notin deltaSeen
          BY <4>1, <4>7, <3>4
        <5>3. out'[t].deltas = 0
          BY <5>1, <5>2, <3>1, <4>3 DEF Answer, DeltasSeen
        <5>4. ItemOnly(t)'
          BY <5>1, <5>3, <4>3, <3>3 DEF ItemOnly
        <5>5. ~Has(emitting', "delta", t)
          BY <4>1, <4>7, OneMessage
        <5>6. DeltasSeen(t)'
          BY <5>3, <5>5 DEF DeltasSeen
        <5> QED
          BY <5>4, <5>6, <4>4, <4>5 DEF Answer
      <4> QED
        BY <4>1, <4>6, <4>7 DEF IsText
    <3> QED
      BY <3>5, <3>6
  <2> QED
    BY <2>3, <2>4
<1>7. ASSUME NEW why, Codex!ReadFails(why) PROVE Given(t)' /\ (~Dead' => Answer(t)')
  <2>1. (reader' = "ended" \/ told' = "error") /\ UNCHANGED <<sent, out>>
    BY <1>7 DEF Codex!ReadFails, Codex!callVars
  <2> QED
    BY <2>1, <1>a DEF Dead, Given
<1>8. CASE Codex!ReadCancelled
  <2>1. reader' = "ended" /\ UNCHANGED <<sent, out>>
    BY <1>8 DEF Codex!ReadCancelled, Codex!callVars
  <2> QED
    BY <2>1, <1>a DEF Dead, Given
<1>9. CASE Codex!Emit
  <2> DEFINE e == emitting[1]
  <2>1. /\ emitting = <<e>> /\ emitting' = <<>> /\ reader = "emit"
        /\ reader' = IF told = "error" THEN "ended" ELSE "read"
        /\ out'[t].deltas = IF e.what = "delta" /\ e.n = t THEN out[t].deltas + 1 ELSE out[t].deltas
        /\ out'[t].whole = IF e.what = "item" /\ e.n = t THEN out[t].whole + 1 ELSE out[t].whole
    BY <1>9, <1>1, CodexRecords DEF Codex!Emit
  <2>2. UNCHANGED <<sent, fromServer, server, deltaSeen, told>>
    BY <1>9 DEF Codex!Emit, Codex!wire, Codex!callVars, Codex!history
  <2>3. told = "error" => e.what = "error"
    BY <2>1, <1>1 DEF CodexTold
  <2>4. out[t].deltas \in Nat /\ out[t].whole \in Nat
    BY <1>1
  <2> HIDE DEF e
  <2>5. Said(t)' <=> Said(t)
    BY <2>2 DEF Said
  <2>6. CASE ~IsText(e, t)
    <3>1. out'[t].deltas = out[t].deltas /\ out'[t].whole = out[t].whole
      BY <2>1, <2>6 DEF IsText
    <3> QED
      BY <3>1, <2>1, <2>2, <2>5, <1>q
  <2>7. CASE IsText(e, t)
    <3>1. ~Dead
      BY <2>1, <2>3, <2>7 DEF Dead, IsText
    <3>2. Answer(t) /\ ~NoText(emitting, t) /\ Given(t)
      BY <2>1, <2>2, <2>7, <3>1, <1>a, OneMessage
    <3>3. out[t].whole = 0
      BY <3>2, <2>4 DEF Answer, WholeLast
    <3>4. ItemLast(t)'
      BY <2>2, <2>5, <3>2 DEF Answer, ItemLast
    <3>5. ~Has(emitting', "item", t) /\ ~Has(emitting', "delta", t) /\ NoText(emitting', t)
      BY <2>1, NoMessage
    <3>6. ItemOnly(t)'
      BY <3>5 DEF ItemOnly
    <3>7. CASE e.what = "delta" /\ e.n = t
      <4>1. out'[t].whole = 0
        BY <2>1, <3>3, <3>7
      <4>2. Has(emitting, "delta", t)
        BY <2>1, <3>7, OneMessage
      <4>3. DeltasSeen(t)'
        BY <4>2, <2>2, <2>5, <3>2 DEF Answer, DeltasSeen
      <4>4. WholeLast(t)' /\ Given(t)'
        BY <4>1 DEF WholeLast, Given
      <4> QED
        BY <4>3, <4>4, <3>4, <3>6 DEF Answer
    <3>8. CASE e.what = "item" /\ e.n = t
      <4>1. Has(emitting, "item", t)
        BY <2>1, <3>8, OneMessage
      <4>2. out[t].deltas = 0 /\ NoText(fromServer, t) /\ Said(t)
        BY <4>1, <3>2 DEF Answer, ItemOnly
      <4>3. out'[t].deltas = 0 /\ out'[t].whole = 1
        BY <2>1, <3>3, <3>8, <4>2
      <4>4. DeltasSeen(t)' /\ Given(t)'
        BY <4>3, <3>5 DEF DeltasSeen, Given
      <4>5. WholeLast(t)'
        BY <4>2, <3>5, <2>2, <2>5 DEF WholeLast
      <4> QED
        BY <4>4, <4>5, <3>4, <3>6 DEF Answer
    <3> QED
      BY <2>7, <3>7, <3>8 DEF IsText
  <2> QED
    BY <2>6, <2>7
<1>10. CASE Codex!EmitCancelled
  BY <1>10, <1>q DEF Codex!EmitCancelled, Codex!wire, Codex!callVars, Codex!history, Said
<1>11. CASE Codex!Take \/ Codex!Respond \/ Codex!Close \/ Codex!CloseEnds \/ Codex!DrainEnds \/ Codex!ServerExits
  <2>1. UNCHANGED <<sent, fromServer, emitting, out, deltaSeen, told, reader>>
    BY <1>11 DEF Codex!Take, Codex!Respond, Codex!Close, Codex!CloseEnds, Codex!DrainEnds, Codex!ServerExits, Codex!wire, Codex!Others, Codex!callVars, Codex!history
  <2>2. server'.turn = server.turn /\ server'.running = server.running
    BY <1>11, <1>1 DEF Codex!Take, Codex!Respond, Codex!Close, Codex!CloseEnds, Codex!DrainEnds, Codex!ServerExits, CodexWire
  <2> QED
    BY <2>1, <2>2, <1>q DEF Said
<1>12. CASE Codex!Server
  <2>1. UNCHANGED <<sent, emitting, out, deltaSeen, told, reader>>
    BY <1>12, CodexTells DEF Codex!Others, Codex!callVars, Codex!history
  <2>2. Given(t)'
    BY <2>1, <1>a DEF Given
  <2>3. ASSUME ~Dead' PROVE Answer(t)'
    <3>1. Answer(t)
      BY <2>1, <2>3, <1>a DEF Dead
    <3>s. ASSUME NoText(fromServer, t) => NoText(fromServer', t), Has(fromServer', "item", t) => Has(fromServer, "item", t),
                 ItemEnds(fromServer, t) => ItemEnds(fromServer', t), Said(t) => Said(t)'
          PROVE  Answer(t)'
      BY <2>1, <3>1, <3>s, CodexAnswerStays
    <3>2. CASE fromServer' = fromServer /\ server'.turn = server.turn /\ server'.running = server.running
      BY <3>2, <3>s DEF Said
    <3>3. ASSUME NEW x \in CodexMessage, ~IsText(x, t), fromServer' = Append(fromServer, x), Said(t) => Said(t)'
          PROVE  Answer(t)'
      <4>1. ~(x.what = "item" /\ x.n = t)
        BY <3>3 DEF IsText
      <4> QED
        BY <3>3, <4>1, <3>s, <1>1, TextMore
    <3>4. ASSUME NEW x \in CodexMessage, NEW y \in CodexMessage, ~IsText(x, t), ~IsText(y, t),
                 fromServer' = Append(Append(fromServer, x), y), Said(t) => Said(t)'
          PROVE  Answer(t)'
      <4> DEFINE r == Append(fromServer, x)
      <4>1. /\ r \in Seq(CodexMessage) /\ (NoText(fromServer, t) => NoText(r, t))
            /\ Has(r, "item", t) => Has(fromServer, "item", t)
            /\ ItemEnds(fromServer, t) => ItemEnds(r, t)
        BY <3>4, <1>1, TextMore, Appended DEF IsText
      <4>2. fromServer' = Append(r, y)
        BY <3>4
      <4> HIDE DEF r
      <4>3. /\ NoText(r, t) => NoText(fromServer', t)
            /\ Has(fromServer', "item", t) => Has(r, "item", t)
            /\ ItemEnds(r, t) => ItemEnds(fromServer', t)
        BY <4>1, <4>2, <3>4, TextMore, ZenonT(60) DEF IsText
      <4> QED
        BY <4>1, <4>3, <3>4, <3>s
    <3>5. ASSUME server.running, t = server.turn
          PROVE  /\ out'[t].whole = 0 /\ ~Has(emitting', "item", t) /\ ~Has(fromServer, "item", t)
                 /\ ItemEnds(fromServer, t)
                 /\ Has(emitting', "delta", t) \/ out'[t].deltas > 0 => t \in deltaSeen'
      <4>1. ~Said(t)
        BY <3>5, <1>1 DEF Said
      <4> QED
        BY <4>1, <2>1, <3>1, <1>1 DEF Answer, WholeLast, ItemOnly, DeltasSeen, ItemLast
    <3>6. CASE server'.turn = server.turn /\ server'.running = server.running /\ server.running
               /\ Codex!Message("delta", server.turn) \in CodexMessage
               /\ fromServer' = Append(fromServer, Codex!Message("delta", server.turn))
      <4>1. Said(t) => Said(t)'
        BY <3>6 DEF Said
      <4>2. CASE t # server.turn
        <5>1. ~IsText(Codex!Message("delta", server.turn), t)
          BY <4>2 DEF IsText, Codex!Message
        <5> QED
          BY <3>6, <4>1, <5>1, <3>3
      <4>3. CASE t = server.turn
        <5>1. Codex!Message("delta", server.turn).what # "item"
          BY DEF Codex!Message
        <5>2. ~Has(fromServer', "item", t) /\ ItemEnds(fromServer', t)
          BY <3>5, <3>6, <4>3, <5>1, <1>1, TextMore
        <5>3. WholeLast(t)' /\ ItemOnly(t)' /\ DeltasSeen(t)' /\ ItemLast(t)'
          BY <3>5, <3>6, <4>3, <5>2 DEF WholeLast, ItemOnly, DeltasSeen, ItemLast
        <5> QED
          BY <5>3 DEF Answer
      <4> QED
        BY <4>2, <4>3
    <3>7. CASE /\ server'.turn = server.turn /\ ~server'.running /\ server.running
               /\ Codex!Message("item", server.turn) \in CodexMessage /\ Codex!Message("completed", server.turn) \in CodexMessage
               /\ fromServer' = Append(Append(fromServer, Codex!Message("item", server.turn)), Codex!Message("completed", server.turn))
      <4>1. (Said(t) => Said(t)') /\ (t = server.turn => Said(t)')
        BY <3>7 DEF Said
      <4>2. CASE t # server.turn
        <5>1. ~IsText(Codex!Message("item", server.turn), t) /\ ~IsText(Codex!Message("completed", server.turn), t)
          BY <4>2 DEF IsText, Codex!Message
        <5> QED
          BY <3>7, <4>1, <5>1, <3>4
      <4>3. CASE t = server.turn
        <5> DEFINE x == Codex!Message("item", server.turn)
                   y == Codex!Message("completed", server.turn)
                   r == Append(fromServer, x)
        <5>1. ~IsText(y, t) /\ x \in CodexMessage /\ y \in CodexMessage
          BY <3>7 DEF IsText, Codex!Message
        <5>2. fromServer' = Append(r, y)
          BY <3>7
        <5>3. r \in Seq(CodexMessage) /\ ItemEnds(r, t)
          BY <3>5, <3>7, <4>3, <5>1, <1>1, TextMore, Appended
        <5> HIDE DEF x, y, r
        <5>4. ItemEnds(fromServer', t)
          BY <5>1, <5>2, <5>3, TextMore
        <5>5. WholeLast(t)' /\ ItemOnly(t)' /\ DeltasSeen(t)' /\ ItemLast(t)'
          BY <3>5, <3>7, <4>1, <4>3, <5>4 DEF WholeLast, ItemOnly, DeltasSeen, ItemLast
        <5> QED
          BY <5>5 DEF Answer
      <4> QED
        BY <4>2, <4>3
    <3>8. ASSUME server'.turn = server.turn + 1, NEW x \in CodexMessage, NEW y \in CodexMessage,
                 x.what = "response", y = Codex!Message("started", server.turn + 1),
                 fromServer' = Append(Append(fromServer, x), y)
          PROVE  Answer(t)'
      <4>1. Said(t) => Said(t)'
        BY <3>8, <1>1, <1>t DEF Said
      <4>2. ~IsText(x, t) /\ ~IsText(y, t)
        BY <3>8 DEF IsText, Codex!Message
      <4> QED
        BY <3>8, <4>1, <4>2, <3>4
    <3>9. ASSUME NEW x \in CodexMessage, ~Textual(x), fromServer' = Append(fromServer, x),
                 server'.turn = server.turn, server'.running = server.running
          PROVE  Answer(t)'
      <4>1. ~IsText(x, t) /\ (Said(t) => Said(t)')
        BY <3>9 DEF IsText, Textual, Said
      <4> QED
        BY <3>9, <4>1, <3>3
    <3> QED
      BY <3>2, <3>6, <3>7, <3>8, <3>9, <1>12, CodexTells
  <2> QED
    BY <2>2, <2>3
<1>13. CASE Codex!Leave
  BY <1>13 DEF Codex!Leave
<1> QED
  BY <1>2, <1>3, <1>4, <1>5, <1>6, <1>7, <1>8, <1>9, <1>10, <1>11, <1>12, <1>13 DEF Codex!Next, Codex!Reader

\* A calm sequence has no end of a turn, and one without an end is in order.
LEMMA CalmGoing ==
  ASSUME NEW s
  PROVE  (Calm(s) => Going(s)) /\ (Going(s) => Orderly(s))
BY DEF Calm, Going, Orderly, Textual

\* What holds of the messages on their way, and what it follows from.
Passing == AllOrderly /\ (server.running => AllGoing) /\ (Between => AllCalm /\ ~server.running)

\* Nothing on its way is in order, and so is a turn that goes on.
LEMMA CodexCalm ==
  /\ AllCalm /\ ~server.running => Passing
  /\ AllCalm /\ ~Between => Passing
  /\ AllGoing /\ ~Between => Passing
BY CalmGoing DEF AllCalm, AllGoing, AllOrderly, Passing

\* The order stays when no message moves.
LEMMA CodexPasses ==
  ASSUME Passing, UNCHANGED <<events, emitting, fromServer>>, server'.running => server.running, Between' => Between
  PROVE  Passing'
BY DEF Passing, AllOrderly, AllGoing, AllCalm

\* A turn begins for the input of the caller "turn", with nothing on its way.
LEMMA CodexTurnBegins ==
  ASSUME CodexInv, Codex!ConstantsAssumption, Codex!ServerTakes, sent["btw"] = 0, UNCHANGED call,
         Head(toServer) = Codex!Request("turn", Head(toServer).c), Head(toServer).c \in Codex!Callers
  PROVE  Between /\ ~Between'
<1> DEFINE m == Head(toServer)
<1>1. /\ server.up /\ toServer # <<>> /\ toServer' = Tail(toServer) /\ toServer \in Seq(CodexRequest)
      /\ CodexEarly /\ {"turn", "btw"} \subseteq Codex!Callers /\ OneRequest("turn") /\ OneRequest("btw")
  BY DEF Codex!ServerTakes, CodexInv, CodexTyped, CodexWire, CodexCalling, CodexRounds, Codex!Callers
<1>2. Of(m, m.c) /\ m.c \in {"turn", "btw"} /\ m = Codex!Request("turn", m.c)
  BY DEF Of, Codex!Request, Codex!Callers
<1>3. m = toServer[1] /\ 1 \in 1 .. Len(toServer)
  BY <1>1, FirstAndRest
<1>4. m.c # "btw"
  <2>1. Of(m, "btw") => Some(toServer, "btw")
    BY <1>3 DEF Some
  <2> QED
    BY <2>1, <1>1, <1>2 DEF OneRequest, CodexEarly
<1>5. m = Codex!Request("turn", "turn") /\ Of(m, "turn")
  BY <1>2, <1>4
<1>6. Some(toServer, "turn") /\ ~Some(Tail(toServer), "turn")
  BY <1>1, <1>5, SomeRest DEF OneRequest
<1>7. Requested("turn")
  BY <1>3, <1>5 DEF Requested
<1>8. call["turn"].pc = "wait"
  BY <1>1, <1>6 DEF OneRequest
<1>9. ~Requested("turn")'
  BY <1>1, <1>6 DEF Requested, Some, Of, Codex!Request
<1> QED
  BY <1>7, <1>8, <1>9 DEF Between

\* The order of the messages, step by step.
LEMMA CodexPhaseKept ==
  ASSUME CodexInv, Codex!ConstantsAssumption, Codex!Next
  PROVE  CodexPhase'
<1>1. /\ CodexCalls /\ CodexReader /\ CodexWire /\ CodexTold /\ CodexEarly /\ CodexBegun /\ CodexPhase /\ CodexTurns
      /\ CodexErrors /\ \A d \in Codex!Callers : CodexCaller(d)
      /\ server.turn \in Nat /\ fromServer \in Seq(CodexMessage) /\ emitting \in Seq(CodexEvent)
      /\ events \in Seq(CodexEvent) /\ toServer \in Seq(CodexRequest) /\ {"turn", "btw"} \subseteq Codex!Callers
  BY DEF CodexInv, CodexTyped, CodexCalling, CodexWire, CodexReader, Codex!Callers
<1> SUFFICES ASSUME state' = "alive", sent'["btw"] = 0, ~early', ~Dead' PROVE Passing'
  BY DEF CodexPhase, Passing
<1>e. ~early
  BY CodexNotEarly
<1>p. state = "alive" /\ sent["btw"] = 0 /\ ~Dead => Passing
  BY <1>1, <1>e DEF CodexPhase, Passing
<1>q. ASSUME state = "alive", UNCHANGED <<sent, told, events, emitting, fromServer>>, reader = "ended" => reader' = "ended",
             server'.running => server.running, Between' => Between
      PROVE  Passing'
  BY <1>p, <1>q, CodexPasses DEF Dead
<1>2. CASE Codex!Send
  <2>1. /\ state = "alive" /\ call["turn"].pc = "idle" /\ sent' = [sent EXCEPT !["turn"] = @ + 1]
        /\ UNCHANGED <<told, events, emitting, fromServer, reader, server>>
    BY <1>2 DEF Codex!Send, Codex!Begin, Codex!wire, Codex!history
  <2>2. sent["btw"] = 0 /\ ~Dead /\ Between
    BY <2>1, <1>1 DEF CodexCalls, Dead, Between
  <2>3. AllCalm' /\ ~server'.running
    BY <2>1, <2>2, <1>p DEF Passing, AllCalm
  <2>4. (AllCalm /\ ~server.running => Passing)'
    BY CodexCalm, PTL
  <2> QED
    BY <2>3, <2>4
<1>3. CASE Codex!Inject
  <2>1. sent' = [sent EXCEPT !["btw"] = @ + 1]
    BY <1>3 DEF Codex!Inject, Codex!Begin
  <2>2. sent'["btw"] = sent["btw"] + 1 /\ sent["btw"] \in Nat
    BY <2>1, <1>1 DEF CodexCalls
  <2> QED
    BY <2>2
<1>4. ASSUME NEW c \in Codex!Callers, Codex!Caller(c) PROVE Passing'
  <2>1. /\ UNCHANGED <<sent, told, events, emitting, fromServer, reader>> /\ sent["btw"] = 0
        /\ server'.turn = server.turn /\ server'.running = server.running
    <3>1. UNCHANGED <<sent, told, events, emitting, fromServer, reader>>
      BY <1>4 DEF Codex!Caller, Codex!Write, Codex!WriteFails, Codex!WaitCancelled, Codex!TakeRefusal, Codex!TakeResponse, Codex!Store, Codex!wire, Codex!history
    <3>2. server'.turn = server.turn /\ server'.running = server.running
      BY <1>4, <1>1 DEF Codex!Caller, Codex!Write, Codex!WriteFails, Codex!WaitCancelled, Codex!TakeRefusal, Codex!TakeResponse, Codex!Store, Codex!Failed, CodexWire
    <3> QED
      BY <3>1, <3>2
  <2>2. ~Dead
    BY <2>1 DEF Dead
  <2>3. c = "turn"
    <3>1. call["btw"].pc = "idle"
      BY <2>1, <1>1 DEF CodexEarly
    <3>2. CASE Codex!WriteFails(c) \/ Codex!WaitCancelled(c) \/ Codex!TakeRefusal(c)
      BY <3>2 DEF Codex!WriteFails, Codex!WaitCancelled, Codex!TakeRefusal, Codex!Failed
    <3>3. CASE Codex!Write(c) \/ Codex!TakeResponse(c) \/ Codex!Store(c)
      BY <3>1, <3>3 DEF Codex!Write, Codex!TakeResponse, Codex!Store, Codex!Callers
    <3> QED
      BY <1>4, <3>2, <3>3 DEF Codex!Caller
  <2>4. CASE Codex!WriteFails(c) \/ Codex!WaitCancelled(c) \/ Codex!TakeRefusal(c)
    BY <2>4 DEF Codex!WriteFails, Codex!WaitCancelled, Codex!TakeRefusal, Codex!Failed
  <2>5. CASE Codex!Write(c)
    <3>1. state = "alive" /\ call["turn"].pc = "write"
      BY <2>3, <2>5 DEF Codex!Write
    <3> QED
      BY <3>1, <2>1, <1>q DEF Between
  <2>6. CASE Codex!TakeResponse(c)
    <3>1. state = "alive" /\ call' = [call EXCEPT !["turn"].pc = "store"]
      BY <2>3, <2>6 DEF Codex!TakeResponse
    <3>2. call'["turn"].pc = "store"
      BY <3>1, <1>1 DEF CodexCalls
    <3> QED
      BY <3>1, <3>2, <2>1, <1>q DEF Between
  <2>7. CASE Codex!Store(c)
    <3>1. call["turn"].pc = "store" /\ call["turn"].kind \in Kinds /\ (state # "starting" => call["turn"].kind = "turn")
      BY <2>3, <2>7, <1>1 DEF Codex!Store, CodexCaller, Busy
    <3>2. CASE call["turn"].kind = "turn"
      <4>1. state = "alive" /\ call' = [call EXCEPT !["turn"].pc = "drain"]
        BY <2>3, <2>7, <3>2 DEF Codex!Store
      <4>2. call'["turn"].pc = "drain"
        BY <4>1, <1>1 DEF CodexCalls
      <4> QED
        BY <4>1, <4>2, <2>1, <1>q DEF Between
    <3>3. CASE call["turn"].kind = "init"
      <4>1. state' = state
        BY <2>3, <2>7, <3>3 DEF Codex!Store
      <4> QED
        BY <4>1, <3>1, <3>3
    <3>4. CASE call["turn"].kind = "thread"
      <4>1. state = "starting"
        BY <2>3, <2>7, <3>1, <3>4, <1>1 DEF CodexCalls
      <4>2. server.turn = 0 /\ ~server.running
        BY <4>1, <1>1 DEF CodexEarly, CodexTurns
      <4>3. Calm(fromServer)
        <5>1. ASSUME NEW i \in 1 .. Len(fromServer), Textual(fromServer[i]) PROVE FALSE
          <6>1. fromServer[i].n <= 0 /\ fromServer[i] \in CodexMessage
            BY <5>1, <4>2, <1>1 DEF CodexBegun, OfTurns
          <6> QED
            BY <5>1, <6>1, CodexMessageIs DEF Textual, Codex!Turn
        <5> QED
          BY <5>1 DEF Calm
      <4>4. ASSUME NEW s \in Seq(CodexEvent), OfTurns(s, 0) PROVE Calm(s)
        <5>1. ASSUME NEW i \in 1 .. Len(s), Textual(s[i]) PROVE FALSE
          <6>1. s[i].n <= 0 /\ s[i] \in CodexEvent
            BY <5>1, <4>4 DEF OfTurns
          <6> QED
            BY <5>1, <6>1, CodexEventIs DEF Textual, Codex!Turn
        <5> QED
          BY <5>1 DEF Calm
      <4>5. AllCalm' /\ ~server'.running
        BY <4>2, <4>3, <4>4, <2>1, <1>1 DEF AllCalm, CodexBegun
      <4>6. (AllCalm /\ ~server.running => Passing)'
        BY CodexCalm, PTL
      <4> QED
        BY <4>5, <4>6
    <3> QED
      BY <3>1, <3>2, <3>3, <3>4 DEF Kinds
  <2> QED
    BY <1>4, <2>4, <2>5, <2>6, <2>7 DEF Codex!Caller
<1>5. CASE Codex!Fallback
  BY <1>5 DEF Codex!Fallback
<1>6. CASE Codex!Read
  <2> DEFINE m == Head(fromServer)
  <2>1. m = Head(fromServer)
    OBVIOUS
  <2> HIDE DEF m
  <2>2. /\ m \in CodexMessage /\ fromServer # <<>> /\ fromServer' = Tail(fromServer) /\ reader = "read" /\ emitting = <<>>
        /\ UNCHANGED <<sent, server, state, call, toServer, events, told>>
    BY <2>1, <1>6, CodexReads
  <2>3. Passing
    BY <2>2, <1>p DEF Dead
  <2>4. emitting' = <<>> \/ emitting' = <<m>>
    <3>1. CASE m.what = "response"
      BY <2>1, <2>2, <3>1, <1>6, CodexReads DEF Codex!Deliver
    <3>2. CASE m.what # "response"
      BY <2>1, <3>2, <1>6, CodexReads
    <3> QED
      BY <3>1, <3>2
  <2>5. /\ Orderly(fromServer) => Orderly(fromServer') /\ (m.what = "completed" => Calm(fromServer'))
        /\ Going(fromServer) => Going(fromServer') /\ m.what # "completed"
        /\ Calm(fromServer) => Calm(fromServer') /\ ~Textual(m)
    BY <2>1, <2>2, <1>1, MessageLess
  <2>6. (m.what # "completed" => Going(emitting')) /\ (~Textual(m) => Calm(emitting'))
    BY <2>4, NoMessage, OneMessage
  <2>7. AllOrderly'
    BY <2>2, <2>3, <2>5, <2>6 DEF Passing, AllOrderly
  <2>8. server'.running => AllGoing'
    BY <2>2, <2>3, <2>5, <2>6 DEF Passing, AllGoing
  <2>9. Between' => AllCalm' /\ ~server'.running
    <3>1. Between' => Between
      BY <2>2 DEF Between, Requested
    <3> QED
      BY <3>1, <2>2, <2>3, <2>5, <2>6 DEF Passing, AllCalm
  <2> QED
    BY <2>7, <2>8, <2>9 DEF Passing
<1>7. ASSUME NEW why, Codex!ReadFails(why) PROVE Passing'
  BY <1>7 DEF Codex!ReadFails, Dead
<1>8. CASE Codex!ReadCancelled
  BY <1>8 DEF Codex!ReadCancelled, Dead
<1>9. CASE Codex!Emit
  <2> DEFINE h == emitting[1]
  <2>1. /\ h \in CodexEvent /\ emitting = <<h>> /\ emitting' = <<>> /\ events' = Append(events, h) /\ reader = "emit"
    BY <1>9, <1>1, CodexRecords DEF Codex!Emit
  <2>2. UNCHANGED <<sent, fromServer, server, state, call, toServer, told>>
    BY <1>9 DEF Codex!Emit, Codex!wire, Codex!callVars, Codex!history
  <2>3. Passing
    BY <2>1, <2>2, <1>p DEF Dead
  <2> HIDE DEF h
  <2>4. (Going(emitting) <=> h.what # "completed") /\ (Calm(emitting) <=> ~Textual(h))
    BY <2>1, OneMessage
  <2>5. /\ Orderly(events) /\ (Going(events) \/ ~Textual(h)) => Orderly(events')
        /\ Going(events) /\ h.what # "completed" => Going(events')
        /\ Calm(events) /\ ~Textual(h) => Calm(events')
    BY <2>1, <1>1, MessageMore
  <2>6. Going(emitting') /\ Calm(emitting')
    BY <2>1, NoMessage
  <2>7. AllOrderly'
    BY <2>2, <2>3, <2>4, <2>5, <2>6 DEF Passing, AllOrderly
  <2>8. server'.running => AllGoing'
    BY <2>2, <2>3, <2>4, <2>5, <2>6 DEF Passing, AllGoing
  <2>9. Between' => AllCalm' /\ ~server'.running
    <3>1. Between' => Between
      BY <2>2 DEF Between, Requested
    <3> QED
      BY <3>1, <2>2, <2>3, <2>4, <2>5, <2>6 DEF Passing, AllCalm
  <2> QED
    BY <2>7, <2>8, <2>9 DEF Passing
<1>10. CASE Codex!EmitCancelled
  BY <1>10 DEF Codex!EmitCancelled, Codex!Cancelled
<1>11. CASE Codex!Take
  <2> DEFINE e == Head(events)
  <2>1. /\ state = "alive" /\ events # <<>> /\ events' = Tail(events) /\ e = Head(events)
        /\ UNCHANGED <<sent, toServer, fromServer, server, reader, emitting, told>>
    BY <1>11 DEF Codex!Take, Codex!wire, Codex!history
  <2>2. call' = call \/ e.what \in {"completed", "error"}
    BY <1>11 DEF Codex!Take
  <2> HIDE DEF e
  <2>3. Passing /\ ~Dead
    BY <2>1, <1>p DEF Dead
  <2>4. /\ Orderly(events) => Orderly(events') /\ (e.what = "completed" => Calm(events'))
        /\ Going(events) => Going(events') /\ e.what # "completed"
        /\ Calm(events) => Calm(events')
    BY <2>1, <1>1, MessageLess
  <2>5. e.what # "error"
    <3>1. e = events[1] /\ 1 \in 1 .. Len(events)
      BY <2>1, <1>1, FirstAndRest
    <3> QED
      BY <3>1, <2>3, <1>1 DEF CodexErrors, Fine, Dead
  <2>6. CASE e.what = "completed"
    <3>1. Calm(events') /\ ~Going(events)
      BY <2>3, <2>4, <2>6 DEF Passing, AllOrderly
    <3>2. Calm(emitting) /\ Calm(fromServer) /\ ~server.running
      BY <2>3, <3>1 DEF Passing, AllOrderly, AllGoing
    <3>3. AllCalm' /\ ~server'.running
      BY <2>1, <3>1, <3>2 DEF AllCalm
    <3>4. (AllCalm /\ ~server.running => Passing)'
      BY CodexCalm, PTL
    <3> QED
      BY <3>3, <3>4
  <2>7. CASE e.what # "completed"
    <3>1. Between' => Between
      BY <2>1, <2>2, <2>5, <2>7 DEF Between, Requested
    <3>2. AllOrderly' /\ (server'.running => AllGoing')
      BY <2>1, <2>3, <2>4 DEF Passing, AllOrderly, AllGoing
    <3>3. Between' => AllCalm' /\ ~server'.running
      BY <2>1, <2>3, <2>4, <3>1 DEF Passing, AllCalm
    <3> QED
      BY <3>2, <3>3 DEF Passing
  <2> QED
    BY <2>6, <2>7
<1>12. CASE Codex!Respond
  <2>1. UNCHANGED <<sent, told, events, emitting, fromServer, reader, server, state, call>>
    BY <1>12 DEF Codex!Respond, Codex!callVars, Codex!history
  <2>2. slot \in Nat
    BY DEF CodexInv, CodexTyped, CodexApprovals
  <2>3. UNCHANGED toServer \/ (slot # 0 /\ toServer' = Append(toServer, Codex!Message("decision", slot)))
    <3>1. ASSUME toServer' # toServer PROVE slot # 0 /\ toServer' = Append(toServer, Codex!Message("decision", slot))
      BY <1>12, <3>1, Zenon DEF Codex!Respond
    <3> QED
      BY <3>1, Zenon
  <2>4. Requested("turn")' => Requested("turn")
    <3>1. CASE UNCHANGED toServer
      BY <3>1 DEF Requested
    <3>2. CASE slot # 0 /\ toServer' = Append(toServer, Codex!Message("decision", slot))
      <4>1. Codex!Message("decision", slot) \in CodexRequest
        BY <3>2, CodexMessages DEF CodexInv, CodexTyped, CodexApprovals, Codex!Ask
      <4>2. Codex!Message("decision", slot) # Codex!Request("turn", "turn")
        <5>1. Codex!Message("decision", slot).what = "decision" /\ Codex!Request("turn", "turn").what = "turn"
          BY DEF Codex!Message, Codex!Request
        <5> QED
          BY <5>1
      <4>3. \A i \in 1 .. Len(toServer') : (i \in 1 .. Len(toServer) /\ toServer'[i] = toServer[i])
                                             \/ toServer'[i] = Codex!Message("decision", slot)
        BY <3>2, <4>1, <1>1, Appended
      <4> QED
        BY <4>2, <4>3 DEF Requested
    <3> QED
      BY <2>3, <3>1, <3>2
  <2>5. Between' => Between
    BY <2>1, <2>4 DEF Between
  <2> QED
    BY <2>1, <2>5, <1>q
<1>13. CASE Codex!Close \/ Codex!CloseEnds \/ Codex!DrainEnds
  BY <1>13 DEF Codex!Close, Codex!CloseEnds, Codex!DrainEnds
<1>14. CASE Codex!ServerExits
  <2>1. UNCHANGED <<sent, told, events, emitting, fromServer, toServer, reader, state, call>>
    BY <1>14 DEF Codex!ServerExits, Codex!wire, Codex!Others, Codex!callVars, Codex!history
  <2>2. server'.running = server.running
    BY <1>14, <1>1 DEF Codex!ServerExits, CodexWire
  <2> QED
    BY <2>1, <2>2, <1>q DEF Between, Requested
<1>15. CASE Codex!Server
  <2>1. UNCHANGED <<sent, told, events, emitting, reader, state, call>>
    BY <1>15, CodexTells DEF Codex!Others, Codex!callVars, Codex!history
  <2>2. Passing /\ sent["btw"] = 0
    BY <2>1, <1>p DEF Dead
  <2>3. Between' => Between
    <3>1. toServer' = toServer \/ (toServer # <<>> /\ toServer' = Tail(toServer))
      BY <1>15 DEF Codex!Server, Codex!ServerTakes, Codex!ServerRefuses, Codex!ServerDelta, Codex!ServerAsks, Codex!ServerCompletes
    <3>2. Requested("turn")' => Requested("turn")
      <4>1. CASE toServer' = toServer
        BY <4>1 DEF Requested
      <4>2. CASE toServer # <<>> /\ toServer' = Tail(toServer)
        <5>1. \A i \in 1 .. Len(toServer') : i + 1 \in 1 .. Len(toServer) /\ toServer'[i] = toServer[i + 1]
          BY <4>2, <1>1, FirstAndRest
        <5> QED
          BY <5>1 DEF Requested
      <4> QED
        BY <3>1, <4>1, <4>2
    <3> QED
      BY <2>1, <3>2 DEF Between
  <2>c. (AllCalm /\ ~Between => Passing)' /\ (AllGoing /\ ~Between => Passing)'
    BY CodexCalm, PTL
  <2>4. CASE fromServer' = fromServer /\ server'.turn = server.turn /\ server'.running = server.running
    BY <2>1, <2>2, <2>3, <2>4, CodexPasses
  <2>5. ASSUME NEW x \in CodexMessage, ~Textual(x), fromServer' = Append(fromServer, x),
               server'.running = server.running
        PROVE  Passing'
    <3>1. x.what # "completed"
      BY <2>5 DEF Textual
    <3>2. /\ Orderly(fromServer) => Orderly(fromServer')
          /\ Going(fromServer) => Going(fromServer')
          /\ Calm(fromServer) => Calm(fromServer')
      BY <2>5, <3>1, <1>1, MessageMore
    <3>3. AllOrderly' /\ (server'.running => AllGoing')
      BY <2>1, <2>2, <2>5, <3>2 DEF Passing, AllOrderly, AllGoing
    <3>4. Between' => AllCalm' /\ ~server'.running
      BY <2>1, <2>2, <2>3, <2>5, <3>2 DEF Passing, AllCalm
    <3> QED
      BY <3>3, <3>4 DEF Passing
  <2>6. CASE server'.turn = server.turn /\ server'.running = server.running /\ server.running
             /\ Codex!Message("delta", server.turn) \in CodexMessage
             /\ fromServer' = Append(fromServer, Codex!Message("delta", server.turn))
    <3>1. AllGoing /\ ~Between'
      BY <2>2, <2>3, <2>6 DEF Passing
    <3>2. Codex!Message("delta", server.turn).what # "completed"
      BY DEF Codex!Message
    <3>3. Going(fromServer')
      BY <2>6, <3>1, <3>2, <1>1, MessageMore DEF AllGoing
    <3>4. AllGoing'
      BY <2>1, <3>1, <3>3 DEF AllGoing
    <3> QED
      BY <2>c, <3>1, <3>4
  <2>7. CASE /\ server'.turn = server.turn /\ ~server'.running /\ server.running
             /\ Codex!Message("item", server.turn) \in CodexMessage /\ Codex!Message("completed", server.turn) \in CodexMessage
             /\ fromServer' = Append(Append(fromServer, Codex!Message("item", server.turn)), Codex!Message("completed", server.turn))
    <3> DEFINE x == Codex!Message("item", server.turn)
               y == Codex!Message("completed", server.turn)
               r == Append(fromServer, x)
    <3>1. AllGoing /\ ~Between'
      BY <2>2, <2>3, <2>7 DEF Passing
    <3>2. x.what # "completed" /\ fromServer' = Append(r, y) /\ x \in CodexMessage /\ y \in CodexMessage
      BY <2>7 DEF Codex!Message
    <3>3. Going(r) /\ r \in Seq(CodexMessage)
      BY <3>1, <3>2, <1>1, MessageMore, Appended DEF AllGoing
    <3> HIDE DEF x, y, r
    <3>4. Orderly(fromServer')
      BY <3>2, <3>3, MessageMore, CalmGoing
    <3>5. AllOrderly'
      BY <2>1, <3>1, <3>4, CalmGoing DEF AllOrderly, AllGoing
    <3> QED
      BY <2>7, <3>1, <3>5 DEF Passing
  <2>8. ASSUME server'.turn = server.turn + 1, NEW x \in CodexMessage, NEW y \in CodexMessage, Codex!ServerTakes,
               Head(toServer) = Codex!Request("turn", Head(toServer).c), Head(toServer).c \in Codex!Callers,
               x.what = "response", y = Codex!Message("started", server.turn + 1),
               fromServer' = Append(Append(fromServer, x), y)
        PROVE  Passing'
    <3>1. Between /\ ~Between'
      BY <2>1, <2>2, <2>8, CodexTurnBegins
    <3>2. AllCalm
      BY <2>2, <3>1 DEF Passing
    <3>3. ~Textual(x) /\ ~Textual(y)
      BY <2>8 DEF Textual, Codex!Message
    <3> DEFINE r == Append(fromServer, x)
    <3>4. Calm(r) /\ r \in Seq(CodexMessage) /\ fromServer' = Append(r, y)
      BY <2>8, <3>2, <3>3, <1>1, MessageMore, Appended DEF AllCalm
    <3> HIDE DEF r
    <3>5. Calm(fromServer')
      BY <2>8, <3>3, <3>4, MessageMore
    <3>6. AllCalm'
      BY <2>1, <3>2, <3>5 DEF AllCalm
    <3> QED
      BY <2>c, <3>1, <3>6
  <2> QED
    BY <2>4, <2>5, <2>6, <2>7, <2>8, <1>15, CodexTells
<1>16. CASE Codex!Leave
  BY <1>16 DEF Codex!Leave
<1> QED
  BY <1>2, <1>3, <1>4, <1>5, <1>6, <1>7, <1>8, <1>9, <1>10, <1>11, <1>12, <1>13, <1>14, <1>15, <1>16 DEF Codex!Next, Codex!Reader

\* The invariant holds at first, and is kept.
LEMMA CodexStart ==
  ASSUME Codex!ConstantsAssumption, Codex!Init
  PROVE  CodexInv
<1>1. /\ call["turn"] = [pc |-> "write", kind |-> "init"] /\ call["btw"] = Codex!Idle
      /\ call \in [Codex!Callers -> [pc : {"idle", "write", "wait", "store", "drain"},
                               kind : {"none", "init", "thread", "turn"}]]
      /\ {"turn", "btw"} = Codex!Callers
  BY DEF Codex!Init, Codex!Callers, Codex!Idle
<1>2. /\ sent = [c \in Codex!Callers |-> 0] /\ sent["turn"] = 0 /\ sent["btw"] = 0
      /\ response = [c \in Codex!Callers |-> 0] /\ pendingResp = {}
  BY <1>1 DEF Codex!Init
<1>3. /\ server = [up |-> TRUE, turn |-> 0, running |-> FALSE, deltas |-> 0, asked |-> {}, asks |-> 0]
      /\ toServer = <<>> /\ fromServer = <<>> /\ emitting = <<>> /\ events = <<>>
      /\ out = [t \in Codex!Turn |-> [deltas |-> 0, whole |-> 0]] /\ deltaSeen = {}
      /\ turnID = 0 /\ slot = 0 /\ shown = 0 /\ decided = {} /\ reader = "read" /\ told = "none"
      /\ lastRead = "none" /\ state = "starting" /\ transport = "stdio"
  BY DEF Codex!Init, Codex!Down
<1>4. /\ Codex!Turns \in Nat /\ Sends \in Nat /\ Injections \in Nat /\ Approvals \in Nat /\ Deltas \in Nat /\ Capacity \in Nat
  BY CodexMessages
<1>5. CodexCalls
  BY <1>1, <1>2, <1>3, <1>4 DEF CodexCalls
<1>6. CodexWire
  BY <1>3, <1>4, FewElements DEF CodexWire
<1>7. CodexReader
  <2>1. <<>> \in Seq(CodexEvent) /\ Len(<<>>) = 0
    BY FewElements
  <2>2. out \in [Codex!Turn -> [deltas : Nat, whole : Nat]]
    BY <1>3
  <2> QED
    BY <2>1, <2>2, <1>3, <1>4 DEF CodexReader
<1>8. CodexApprovals
  BY <1>3, <1>4 DEF CodexApprovals
<1>9. CodexCalling
  <2>1. CodexEarly
    BY <1>1, <1>2, <1>3 DEF CodexEarly, Busy, Codex!Idle, Codex!Open
  <2>2. ASSUME NEW c \in Codex!Callers PROVE CodexCaller(c)
    <3>1. call[c] = [pc |-> "write", kind |-> "init"] \/ call[c] = Codex!Idle
      BY <1>1
    <3>2. response[c] = 0 /\ c \notin pendingResp
      BY <1>2
    <3>3. call[c].pc \in {"write", "idle"} /\ (call[c].pc = "write" => call[c].kind = "init")
      BY <3>1 DEF Codex!Idle
    <3> QED
      BY <3>2, <3>3, <1>3 DEF CodexCaller, Busy, Kinds
  <2> QED
    BY <2>1, <2>2 DEF CodexCalling
<1>10. CodexRounds
  BY <1>3, SomeOfNone DEF CodexRounds, OneRequest
<1>11. CodexTurns
  <2>1. ~Owing("turn") /\ ~Owing("btw")
    <3>1. \A c : ~Requested(c)
      BY <1>3 DEF Requested
    <3> QED
      BY <3>1, <1>1 DEF Owing, Codex!Idle
  <2>2. Owes("turn") = 0 /\ Owes("btw") = 0
    BY <2>1 DEF Owes
  <2> QED
    BY <2>2, <1>2, <1>3 DEF CodexTurns
<1>12. CodexBegun
  BY <1>3, NoMessage DEF CodexBegun
<1>13. CodexAnswers
  <2>1. ASSUME NEW t \in Codex!Turn PROVE Given(t) /\ Answer(t)
    <3>1. out[t].deltas = 0 /\ out[t].whole = 0
      BY <1>3
    <3>2. ~Has(emitting, "item", t) /\ ~Has(emitting, "delta", t) /\ ~Has(fromServer, "item", t) /\ ItemEnds(fromServer, t)
      BY <1>3, NoMessage
    <3> QED
      BY <3>1, <3>2 DEF Given, Answer, WholeLast, ItemOnly, DeltasSeen, ItemLast
  <2> QED
    BY <2>1 DEF CodexAnswers
<1>14. CodexPhase /\ CodexTold
  BY <1>3 DEF CodexPhase, CodexTold
<1>15. CodexErrors
  BY <1>3, NoMessage DEF CodexErrors
<1> QED
  BY <1>5, <1>6, <1>7, <1>8, <1>9, <1>10, <1>11, <1>12, <1>13, <1>14, <1>15 DEF CodexInv, CodexTyped

\* A step that changes nothing keeps the invariant.
LEMMA CodexStays ==
  ASSUME CodexInv, UNCHANGED Codex!vars
  PROVE  CodexInv'
<1>1. UNCHANGED <<transport, call, sent, pendingResp, response, toServer, fromServer, server, turnID, deltaSeen, reader,
                  emitting, events, state, out, slot, shown, decided, lastRead, told, early>>
  BY DEF Codex!vars, Codex!callVars, Codex!wire, Codex!approvals, Codex!history
<1>2. CodexTyped'
  BY <1>1, CodexTypesStay DEF CodexInv, CodexTyped
<1>3. CodexCalling'
  BY <1>1 DEF CodexInv, CodexCalling, CodexEarly, CodexCaller, Codex!Open
<1>4. CodexRounds'
  BY <1>1 DEF CodexInv, CodexRounds, OneRequest
<1>5. CodexTurns'
  BY <1>1, CodexTurnsStay DEF Owing, Requested
<1>6. CodexBegun'
  BY <1>1 DEF CodexInv, CodexBegun
<1>7. CodexAnswers'
  BY <1>1 DEF CodexInv, CodexAnswers, Given, Answer, WholeLast, ItemOnly, DeltasSeen, ItemLast, Said, Dead
<1>8. CodexPhase'
  BY <1>1 DEF CodexInv, CodexPhase, AllOrderly, AllGoing, AllCalm, Between, Requested, Dead
<1>9. CodexTold' /\ CodexErrors'
  BY <1>1 DEF CodexInv, CodexTold, CodexErrors
<1> QED
  BY <1>2, <1>3, <1>4, <1>5, <1>6, <1>7, <1>8, <1>9 DEF CodexInv

\* Every step keeps it.
LEMMA CodexKept ==
  ASSUME CodexInv, Codex!ConstantsAssumption, [Codex!Next]_(Codex!vars)
  PROVE  CodexInv'
<1>1. CASE Codex!Next
  <2>1. CodexTyped'
    BY <1>1, CodexCallsTyped, CodexWireTyped, CodexReaderTyped, CodexApprovalsTyped DEF CodexTyped
  <2> QED
    BY <1>1, <2>1, CodexCallingKept, CodexRoundsKept, CodexTurnsKept, CodexBegunKept, CodexAnswersKept, CodexPhaseKept,
       CodexToldKept, CodexErrorsKept DEF CodexInv
<1>2. CASE UNCHANGED Codex!vars
  BY <1>2, CodexStays
<1> QED
  BY <1>1, <1>2

\* What it says of the session.
LEMMA CodexShows ==
  ASSUME CodexInv, Codex!ConstantsAssumption
  PROVE  Codex!TypeOK /\ Codex!AnswerOnce /\ Codex!ActiveEndTold
<1>1. CodexCalls /\ CodexWire /\ CodexReader /\ CodexApprovals /\ CodexAnswers /\ CodexTold
  BY DEF CodexInv, CodexTyped
<1>2. Codex!TypeOK
  <2>1. server.turn \in 0 .. Codex!Turns
    BY CodexTurnsAre, CodexMessages
  <2>2. server \in [up : BOOLEAN, turn : 0 .. Codex!Turns, running : BOOLEAN, deltas : 0 .. Deltas,
                    asked : SUBSET Codex!Ask, asks : 0 .. Approvals]
    BY <2>1, <1>1 DEF CodexWire
  <2>3. sent["turn"] \in 0 .. Sends /\ sent["btw"] \in 0 .. Injections
    BY <1>1, CodexMessages DEF CodexCalls, Codex!Callers
  <2> QED
    BY <2>2, <2>3, <1>1 DEF Codex!TypeOK, CodexCalls, CodexReader, CodexApprovals
<1>3. Codex!AnswerOnce
  <2>1. ASSUME sent["btw"] = 0, ~early, NEW t \in Codex!Turn
        PROVE  out[t].whole + (IF out[t].deltas > 0 THEN 1 ELSE 0) <= 1
    <3>1. out[t].whole \in Nat /\ out[t].deltas \in Nat
      BY <1>1 DEF CodexReader
    <3> QED
      BY <2>1, <3>1, <1>1 DEF CodexAnswers, Given
  <2> QED
    BY <2>1 DEF Codex!AnswerOnce
<1>4. Codex!ActiveEndTold
  BY <1>1 DEF CodexTold, Codex!ActiveEndTold
<1> QED
  BY <1>2, <1>3, <1>4

-----------------------------------------------------------------------------
(* A live Claude session *)

ClaudeEvent == [what : {"none", "text", "ask", "error"}, n : 0 .. Lines]
ClaudeSaid == [what : {"text", "ask"}, n : 1 .. Lines]

ClaudeTyped ==
  /\ Claude!TypeOK
  /\ output \in Seq(ClaudeSaid) /\ line \in ClaudeEvent /\ claudeEvents \in Seq(ClaudeEvent) /\ claudeDecided \in Seq(Claude!Request)

\* The lines the reader has scanned; those in the pipe follow one another.
ClaudeScanned == said - Len(output)
ClaudeNumbered ==
  Len(output) <= said /\ \A i \in 1 .. Len(output) : output[i].n = ClaudeScanned + i

\* A request has been scanned before it is held, and then waits in the slot, or is held by
\* one writer, or was written about, once.
OneHolder ==
  /\ claudeSlot <= ClaudeScanned
  /\ \A w \in Writers : writer[w].for <= ClaudeScanned /\ (writer[w].pc = "idle" => writer[w].for = 0)
  /\ \A i \in 1 .. Len(claudeDecided) : claudeDecided[i] <= ClaudeScanned
  /\ claudeSlot # 0 => /\ \A w \in Writers : writer[w].for # claudeSlot
                 /\ \A i \in 1 .. Len(claudeDecided) : claudeDecided[i] # claudeSlot
  /\ \A w \in Writers : writer[w].for # 0 =>
       /\ \A v \in Writers \ {w} : writer[v].for # writer[w].for
       /\ \A i \in 1 .. Len(claudeDecided) : claudeDecided[i] # writer[w].for
  /\ \A i, j \in 1 .. Len(claudeDecided) : i # j => claudeDecided[i] # claudeDecided[j]

\* What waits for the CLI has seen the end of its output, or has said that it could not,
\* unless it was cancelled.
EndsInOrder ==
  /\ claudeReader = "fail" => line.what = "error"
  /\ claudeReader \in {"wait", "report", "ended"} /\ ~cancelled =>
       (output = <<>> /\ ~Claude!Up) \/ line.what = "error"
  /\ claudeReader \in {"report", "ended"} /\ ~cancelled => proc = "reaped"

ClaudeInv == ClaudeTyped /\ ClaudeNumbered /\ OneHolder /\ EndsInOrder

---------------------------------------------------------------------------
(* Types *)

\* The types at first.
LEMMA ClaudeTypesStart == ASSUME Claude!ConstantsAssumption, Claude!Init PROVE ClaudeTyped
<1>1. 0 \in 0 .. Lines /\ 0 \in 0 .. Room /\ 0 <= Lines /\ 0 <= ClaudeCapacity
  BY DEF Claude!ConstantsAssumption
<1>2. [open |-> TRUE, unread |-> 0] \in [open : BOOLEAN, unread : 0 .. Room]
  BY <1>1
<1>3. [pc |-> "idle", for |-> 0] \in [pc : {"idle", "lock", "write"}, for : 0 .. Lines]
  BY <1>1
<1>4. [what |-> "none", n |-> 0] \in ClaudeEvent
  BY <1>1 DEF ClaudeEvent
<1>5. output = <<>> /\ claudeEvents = <<>> /\ claudeDecided = <<>>
  BY DEF Claude!Init
<1>6. Claude!TypeOK
  BY <1>1, <1>2, <1>3, <1>5 DEF Claude!Init, Claude!TypeOK
<1> QED
  BY <1>4, <1>5, <1>6 DEF ClaudeTyped, Claude!Init

\* The types of what only the writers change.
ClaudeWriterTypes ==
  /\ writer \in [Writers -> [pc : {"idle", "lock", "write"}, for : 0 .. Lines]]
  /\ mu \in Writers \cup {"none"} /\ input \in [open : BOOLEAN, unread : 0 .. Room]
  /\ claudeDecided \in Seq(Claude!Request) /\ claudeSlot \in 0 .. Lines

\* Of what the reader and the CLI change, and of the rest.
ClaudeReaderTypes ==
  /\ claudeReader \in {"scan", "emit", "fail", "wait", "report", "ended"} /\ line \in ClaudeEvent
  /\ claudeEvents \in Seq(ClaudeEvent) /\ Len(claudeEvents) <= ClaudeCapacity
ClaudeCliTypes ==
  /\ proc \in {"up", "stuck", "gone", "reaped"} /\ said \in 0 .. Lines
  /\ output \in Seq(ClaudeSaid) /\ Len(output) <= Lines
ClaudeCloserTypes ==
  /\ killed \in BOOLEAN /\ orphan \in BOOLEAN /\ alive \in BOOLEAN /\ cancelled \in BOOLEAN
  /\ closer \in [Closers -> {"idle", "begun", "lock", "first", "second", "third", "returned"}]

\* The types, by what changes together.
LEMMA ClaudeTypedParts == ClaudeTyped <=> ClaudeWriterTypes /\ ClaudeReaderTypes /\ ClaudeCliTypes /\ ClaudeCloserTypes
BY DEF ClaudeTyped, Claude!TypeOK, ClaudeWriterTypes, ClaudeReaderTypes, ClaudeCliTypes, ClaudeCloserTypes

\* The same, after a step.
LEMMA ClaudePartsTyped ==
  ASSUME ClaudeWriterTypes', ClaudeReaderTypes', ClaudeCliTypes', ClaudeCloserTypes'
  PROVE  ClaudeTyped'
BY DEF ClaudeTyped, Claude!TypeOK, ClaudeWriterTypes, ClaudeReaderTypes, ClaudeCliTypes, ClaudeCloserTypes

\* The goroutines that write.
LEMMA ClaudeWriterTyped ==
  ASSUME ClaudeTyped, Claude!ConstantsAssumption, NEW w \in Writers, Claude!Writer(w)
  PROVE  ClaudeTyped'
<1> USE DEF Claude!cli, Claude!readerVars
<1>0. ClaudeWriterTypes /\ ClaudeReaderTypes /\ ClaudeCliTypes /\ ClaudeCloserTypes /\ 0 \in 0 .. Lines
  BY ClaudeTypedParts DEF Claude!ConstantsAssumption
<1>1. /\ UNCHANGED <<proc, killed, orphan, said, output, claudeReader, line, claudeEvents, alive, cancelled, closer>>
  BY DEF Claude!Writer, Claude!Send, Claude!Respond, Claude!Lock, Claude!Write
<1>2. ClaudeReaderTypes' /\ ClaudeCliTypes' /\ ClaudeCloserTypes'
  BY <1>0, <1>1 DEF ClaudeReaderTypes, ClaudeCliTypes, ClaudeCloserTypes
<1>3. ASSUME Claude!Send(w) PROVE ClaudeWriterTypes'
  BY <1>0, <1>3 DEF Claude!Send, ClaudeWriterTypes
<1>4. ASSUME Claude!Respond(w) PROVE ClaudeWriterTypes'
  BY <1>0, <1>4 DEF Claude!Respond, ClaudeWriterTypes
<1>5. ASSUME Claude!Lock(w) PROVE ClaudeWriterTypes'
  BY <1>0, <1>5 DEF Claude!Lock, ClaudeWriterTypes
<1>6. ASSUME Claude!Write(w) PROVE ClaudeWriterTypes'
  <2>1. writer' \in [Writers -> [pc : {"idle", "lock", "write"}, for : 0 .. Lines]] /\ mu' = "none"
    BY <1>0, <1>6 DEF Claude!Write, ClaudeWriterTypes
  <2>2. CASE Claude!Broken
    BY <1>0, <1>6, <2>1, <2>2 DEF Claude!Write, ClaudeWriterTypes
  <2>3. CASE ~Claude!Broken
    <3>1. /\ input' = [input EXCEPT !.unread = @ + 1] /\ input.unread < Room /\ claudeSlot' = claudeSlot
          /\ claudeDecided' = IF writer[w].for = 0 THEN claudeDecided ELSE Append(claudeDecided, writer[w].for)
      BY <1>6, <2>3 DEF Claude!Write
    <3>2. input' \in [open : BOOLEAN, unread : 0 .. Room]
      BY <1>0, <3>1, SMTT(60) DEF ClaudeWriterTypes, Claude!ConstantsAssumption
    <3>3. claudeDecided' \in Seq(Claude!Request)
      <4>1. writer[w].for # 0 => writer[w].for \in Claude!Request
        BY <1>0 DEF ClaudeWriterTypes, Claude!Request, Claude!ConstantsAssumption
      <4> QED
        BY <1>0, <3>1, <4>1 DEF ClaudeWriterTypes
    <3> QED
      BY <1>0, <2>1, <3>1, <3>2, <3>3 DEF ClaudeWriterTypes
  <2> QED
    BY <2>2, <2>3
<1>7. ClaudeWriterTypes'
  BY <1>3, <1>4, <1>5, <1>6 DEF Claude!Writer
<1> QED
  BY <1>2, <1>7, ClaudePartsTyped

\* The goroutines that close.
LEMMA ClaudeCloserTyped ==
  ASSUME ClaudeTyped, Claude!ConstantsAssumption, NEW c \in Closers, Claude!Closer(c)
  PROVE  ClaudeTyped'
<1> USE DEF Claude!Rest, Claude!readerVars
<1>0. ClaudeWriterTypes /\ ClaudeReaderTypes /\ ClaudeCliTypes /\ ClaudeCloserTypes
  BY ClaudeTypedParts
<1>1. UNCHANGED <<proc, said, output, claudeReader, line, claudeEvents, writer, claudeDecided, claudeSlot, mu>>
  BY DEF Claude!Closer, Claude!Begin, Claude!StoreDead, Claude!CloseInput, Claude!Terminate, Claude!Kill, Claude!Return
<1>2. ClaudeReaderTypes' /\ ClaudeCliTypes'
  BY <1>0, <1>1 DEF ClaudeReaderTypes, ClaudeCliTypes
<1>3. input' \in [open : BOOLEAN, unread : 0 .. Room]
  BY <1>0 DEF ClaudeWriterTypes, Claude!Closer, Claude!Begin, Claude!StoreDead, Claude!CloseInput, Claude!Terminate, Claude!Kill, Claude!Return
<1>4. ClaudeWriterTypes'
  BY <1>0, <1>1, <1>3 DEF ClaudeWriterTypes
<1>5. ClaudeCloserTypes'
  <2>1. killed' \in BOOLEAN /\ orphan' \in BOOLEAN /\ alive' \in BOOLEAN /\ cancelled' \in BOOLEAN
    BY <1>0 DEF ClaudeCloserTypes, Claude!Closer, Claude!Begin, Claude!StoreDead, Claude!CloseInput, Claude!Terminate, Claude!Kill, Claude!Return
  <2>2. PICK at \in {"begun", "lock", "first", "second", "third", "returned"} : closer' = [closer EXCEPT ![c] = at]
    BY DEF Claude!Closer, Claude!At, Claude!Begin, Claude!StoreDead, Claude!CloseInput, Claude!Terminate, Claude!Kill, Claude!Return
  <2> QED
    BY <1>0, <2>1, <2>2 DEF ClaudeCloserTypes
<1> QED
  BY <1>2, <1>4, <1>5, ClaudePartsTyped

\* The steps of the reader, and of the turn that takes events.
ClaudeReaderSteps ==
  \/ Claude!Scan \/ Claude!ScanEnds \/ Claude!ScanFails \/ Claude!Emit \/ Claude!EmitCancelled
  \/ Claude!Wait \/ Claude!Take

\* The reader.
LEMMA ClaudeReaderTyped ==
  ASSUME ClaudeTyped, Claude!ConstantsAssumption, ClaudeReaderSteps
  PROVE  ClaudeTyped'
<1> USE DEF Claude!cli, Claude!readerVars, Claude!Ended
<1>0. ClaudeWriterTypes /\ ClaudeReaderTypes /\ ClaudeCliTypes /\ ClaudeCloserTypes /\ 0 \in 0 .. Lines
  BY ClaudeTypedParts DEF Claude!ConstantsAssumption
<1>1. /\ UNCHANGED <<killed, orphan, said, input, cancelled, mu, writer, claudeDecided, closer>>
      /\ alive' \in BOOLEAN
  BY <1>0 DEF ClaudeReaderSteps, Claude!Scan, Claude!ScanEnds, Claude!ScanFails, Claude!Emit, Claude!EmitCancelled, Claude!Wait, Claude!Take, ClaudeCloserTypes
<1>2. ClaudeCloserTypes'
  BY <1>0, <1>1 DEF ClaudeCloserTypes
<1>3. CASE Claude!Scan
  <2>1. output # <<>> /\ output \in Seq(ClaudeSaid) /\ Len(output) <= Lines
    BY <1>0, <1>3 DEF Claude!Scan, ClaudeCliTypes
  <2>2. Head(output) \in ClaudeSaid /\ Tail(output) \in Seq(ClaudeSaid) /\ Len(Tail(output)) <= Lines
    BY <2>1 DEF Claude!ConstantsAssumption
  <2>3. Head(output) \in ClaudeEvent /\ Head(output).n \in 0 .. Lines
    BY <2>2 DEF ClaudeSaid, ClaudeEvent
  <2>4. ClaudeReaderTypes' /\ ClaudeCliTypes'
    BY <1>0, <1>3, <2>2, <2>3 DEF Claude!Scan, ClaudeReaderTypes, ClaudeCliTypes
  <2>5. claudeSlot' \in 0 .. Lines
    BY <1>0, <1>3, <2>3 DEF Claude!Scan, ClaudeWriterTypes
  <2> QED
    BY <1>0, <1>1, <1>2, <2>4, <2>5, ClaudePartsTyped DEF ClaudeWriterTypes
<1>4. ASSUME claudeSlot' = claudeSlot, ClaudeReaderTypes', ClaudeCliTypes' PROVE ClaudeTyped'
  BY <1>0, <1>1, <1>2, <1>4, ClaudePartsTyped DEF ClaudeWriterTypes
<1>5. CASE Claude!ScanEnds
  BY <1>0, <1>4, <1>5 DEF Claude!ScanEnds, ClaudeReaderTypes, ClaudeCliTypes
<1>10. CASE Claude!ScanFails
  <2>1. Claude!Failure \in ClaudeEvent
    BY <1>0 DEF Claude!Failure, ClaudeEvent
  <2> QED
    BY <1>0, <1>4, <1>10, <2>1 DEF Claude!ScanFails, ClaudeReaderTypes, ClaudeCliTypes
<1>6. CASE Claude!Emit
  <2>1. Append(claudeEvents, line) \in Seq(ClaudeEvent) /\ Len(Append(claudeEvents, line)) = Len(claudeEvents) + 1
    BY <1>0 DEF ClaudeReaderTypes
  <2>2. Len(claudeEvents) + 1 <= ClaudeCapacity
    BY <1>0, <1>6 DEF Claude!Emit, ClaudeReaderTypes, Claude!ConstantsAssumption
  <2>3. claudeReader' \in {"scan", "wait", "ended"}
    BY <1>6 DEF Claude!Emit
  <2>4. ClaudeReaderTypes' /\ ClaudeCliTypes'
    BY <1>0, <1>6, <2>1, <2>2, <2>3 DEF Claude!Emit, ClaudeReaderTypes, ClaudeCliTypes
  <2> QED
    BY <1>4, <1>6, <2>4 DEF Claude!Emit
<1>7. CASE Claude!EmitCancelled
  BY <1>0, <1>4, <1>7 DEF Claude!EmitCancelled, ClaudeReaderTypes, ClaudeCliTypes
<1>8. CASE Claude!Wait
  <2>1. claudeReader' \in {"report", "ended"} /\ proc' = "reaped" /\ UNCHANGED <<output, said, claudeEvents, claudeSlot>>
    BY <1>8 DEF Claude!Wait
  <2>2. Claude!Failure \in ClaudeEvent
    BY <1>0 DEF Claude!Failure, ClaudeEvent
  <2>3. line' \in ClaudeEvent
    BY <1>0, <1>8, <2>2 DEF Claude!Wait, ClaudeReaderTypes
  <2> QED
    BY <1>0, <1>4, <2>1, <2>3 DEF ClaudeReaderTypes, ClaudeCliTypes
<1>9. CASE Claude!Take
  <2>1. claudeEvents # <<>> /\ claudeEvents' = Tail(claudeEvents) /\ UNCHANGED <<claudeReader, line, claudeSlot, proc, said, output>>
    BY <1>9 DEF Claude!Take
  <2>2. Tail(claudeEvents) \in Seq(ClaudeEvent) /\ Len(Tail(claudeEvents)) <= ClaudeCapacity
    BY <1>0, <2>1 DEF ClaudeReaderTypes, Claude!ConstantsAssumption
  <2> QED
    BY <1>0, <1>4, <2>1, <2>2 DEF ClaudeReaderTypes, ClaudeCliTypes
<1> QED
  BY <1>3, <1>5, <1>6, <1>7, <1>8, <1>9, <1>10 DEF ClaudeReaderSteps

\* The steps of the CLI, but for what it says.
ClaudeCliQuiet == Claude!Reads \/ Claude!StopsReading \/ Claude!Exits

\* The CLI.
LEMMA ClaudeCliTyped ==
  ASSUME ClaudeTyped, Claude!ConstantsAssumption, ClaudeNumbered, ClaudeCliQuiet \/ \E what \in {"text", "ask"} : Claude!Says(what)
  PROVE  ClaudeTyped'
<1> USE DEF Claude!cli, Claude!Bridge, Claude!readerVars
<1>0. ClaudeWriterTypes /\ ClaudeReaderTypes /\ ClaudeCliTypes /\ ClaudeCloserTypes
  BY ClaudeTypedParts
<1>1. UNCHANGED <<claudeReader, line, claudeEvents, claudeSlot, alive, cancelled, mu, writer, claudeDecided, closer, killed>>
  BY DEF ClaudeCliQuiet, Claude!Reads, Claude!StopsReading, Claude!Exits, Claude!Says
<1>2. input' \in [open : BOOLEAN, unread : 0 .. Room] /\ orphan' \in BOOLEAN
  <2>1. CASE Claude!Reads
    BY <1>0, <2>1 DEF Claude!Reads, ClaudeWriterTypes, ClaudeCloserTypes, Claude!ConstantsAssumption
  <2>2. CASE Claude!StopsReading \/ \E what \in {"text", "ask"} : Claude!Says(what)
    BY <1>0, <2>2 DEF Claude!StopsReading, Claude!Says, ClaudeWriterTypes, ClaudeCloserTypes
  <2>3. CASE Claude!Exits
    BY <1>0, <2>3 DEF Claude!Exits, ClaudeWriterTypes, Claude!ConstantsAssumption
  <2> QED
    BY <2>1, <2>2, <2>3 DEF ClaudeCliQuiet
<1>3. ClaudeWriterTypes' /\ ClaudeReaderTypes' /\ ClaudeCloserTypes'
  BY <1>0, <1>1, <1>2 DEF ClaudeWriterTypes, ClaudeReaderTypes, ClaudeCloserTypes
<1>4. CASE ClaudeCliQuiet
  <2>1. ClaudeCliTypes'
    BY <1>0, <1>4 DEF ClaudeCliQuiet, Claude!Reads, Claude!StopsReading, Claude!Exits, ClaudeCliTypes
  <2> QED
    BY <1>3, <2>1, ClaudePartsTyped
<1>5. CASE \E what \in {"text", "ask"} : Claude!Says(what)
  <2> PICK what \in {"text", "ask"} : Claude!Says(what)
    BY <1>5
  <2>1. /\ proc' = proc /\ said < Lines /\ said' = said + 1
        /\ output' = Append(output, [what |-> what, n |-> said + 1])
    BY DEF Claude!Says
  <2>2. said' \in 1 .. Lines
    BY <1>0, <2>1 DEF ClaudeCliTypes, Claude!ConstantsAssumption
  <2>3. [what |-> what, n |-> said + 1] \in ClaudeSaid
    BY <2>1, <2>2 DEF ClaudeSaid
  <2>4. output' \in Seq(ClaudeSaid) /\ Len(output') = Len(output) + 1
    BY <1>0, <2>1, <2>3 DEF ClaudeCliTypes
  <2>5. Len(output') <= Lines
    BY <1>0, <2>1, <2>2, <2>4 DEF ClaudeNumbered, ClaudeCliTypes, Claude!ConstantsAssumption
  <2>6. ClaudeCliTypes'
    BY <1>0, <2>1, <2>2, <2>4, <2>5 DEF ClaudeCliTypes
  <2> QED
    BY <1>3, <2>6, ClaudePartsTyped
<1> QED
  BY <1>4, <1>5
---------------------------------------------------------------------------
(* The order of the lines, and the end of the output *)

\* As many lines have been scanned as are no longer in the pipe.
LEMMA ScannedIsNat ==
  ASSUME ClaudeTyped, Claude!ConstantsAssumption, ClaudeNumbered
  PROVE  ClaudeScanned \in Nat /\ said \in Nat /\ Len(output) \in Nat
BY DEF ClaudeTyped, Claude!TypeOK, ClaudeNumbered, ClaudeScanned, Claude!ConstantsAssumption

\* A step that leaves the pipe from the CLI as it is.
LEMMA PipeStays ==
  ASSUME ClaudeNumbered, UNCHANGED <<output, said>>
  PROVE  ClaudeNumbered' /\ ClaudeScanned' = ClaudeScanned
BY DEF ClaudeNumbered, ClaudeScanned

\* The line that is scanned is the next one.
LEMMA ScanNext ==
  ASSUME ClaudeTyped, Claude!ConstantsAssumption, ClaudeNumbered, Claude!Scan
  PROVE  ClaudeNumbered' /\ ClaudeScanned' = ClaudeScanned + 1 /\ Head(output).n = ClaudeScanned + 1
<1>1. /\ output \in Seq(ClaudeSaid) /\ output # <<>> /\ output' = Tail(output) /\ said' = said
      /\ Len(output) <= said /\ said \in Nat
  BY ScannedIsNat DEF Claude!Scan, Claude!cli, ClaudeTyped, ClaudeNumbered
<1>2. /\ Head(output) = output[1] /\ Len(output') = Len(output) - 1 /\ Len(output) \in Nat \ {0}
      /\ \A i \in 1 .. Len(output') : output'[i] = output[i + 1] /\ i + 1 \in 1 .. Len(output)
  BY <1>1
<1>3. ClaudeScanned' = ClaudeScanned + 1
  BY <1>1, <1>2 DEF ClaudeScanned
<1>4. Head(output).n = ClaudeScanned + 1
  BY <1>2 DEF ClaudeNumbered
<1>5. \A i \in 1 .. Len(output') : output'[i].n = ClaudeScanned + 1 + i
  BY <1>1, <1>2, ScannedIsNat DEF ClaudeNumbered
<1> QED
  BY <1>1, <1>2, <1>3, <1>4, <1>5 DEF ClaudeNumbered

\* A line that the CLI writes comes next.
LEMMA SaysNext ==
  ASSUME ClaudeTyped, Claude!ConstantsAssumption, ClaudeNumbered, NEW what, Claude!Says(what)
  PROVE  ClaudeNumbered' /\ ClaudeScanned' = ClaudeScanned
<1>1. /\ output \in Seq(ClaudeSaid) /\ output' = Append(output, [what |-> what, n |-> said + 1])
      /\ said' = said + 1 /\ Len(output) <= said /\ said \in Nat
  BY ScannedIsNat DEF Claude!Says, ClaudeTyped, ClaudeNumbered
<1>2. /\ Len(output') = Len(output) + 1 /\ Len(output) \in Nat
      /\ \A i \in 1 .. Len(output) : output'[i] = output[i]
      /\ output'[Len(output) + 1].n = said + 1
  BY <1>1
<1>3. ClaudeScanned' = ClaudeScanned
  BY <1>1, <1>2 DEF ClaudeScanned
<1>4. ASSUME NEW i \in 1 .. Len(output') PROVE output'[i].n = ClaudeScanned + i
  <2>1. CASE i \in 1 .. Len(output)
    BY <1>2, <2>1 DEF ClaudeNumbered
  <2>2. CASE i = Len(output) + 1
    BY <1>1, <1>2, <2>2 DEF ClaudeScanned
  <2> QED
    BY <1>2, <2>1, <2>2
<1> QED
  BY <1>1, <1>2, <1>3, <1>4 DEF ClaudeNumbered

\* Nothing is said by a CLI that is gone, and nobody starts it again.
LEMMA ClaudeEndsKept ==
  ASSUME ClaudeTyped, EndsInOrder, Claude!Next
  PROVE  EndsInOrder'
<1> USE DEF Claude!cli, Claude!readerVars, EndsInOrder, Claude!Up
<1>1. ASSUME NEW w \in Writers, Claude!Writer(w) PROVE EndsInOrder'
  <2>1. UNCHANGED <<claudeReader, line, cancelled, output, proc>>
    BY <1>1 DEF Claude!Writer, Claude!Send, Claude!Respond, Claude!Lock, Claude!Write
  <2> QED
    BY <2>1
<1>2. ASSUME NEW c \in Closers, Claude!Closer(c) PROVE EndsInOrder'
  <2>1. UNCHANGED <<claudeReader, line, output, proc>> /\ (cancelled => cancelled')
    BY <1>2 DEF Claude!Closer, Claude!Begin, Claude!StoreDead, Claude!CloseInput, Claude!Terminate, Claude!Kill, Claude!Return, Claude!Rest
  <2> QED
    BY <2>1
<1>3. ASSUME ClaudeReaderSteps PROVE EndsInOrder'
  BY <1>3 DEF ClaudeReaderSteps, Claude!Scan, Claude!ScanEnds, Claude!ScanFails, Claude!Failure, Claude!PipeEnds, Claude!Emit, Claude!EmitCancelled, Claude!Wait, Claude!Take, Claude!Ended
<1>4. ASSUME ClaudeCliQuiet \/ \E what \in {"text", "ask"} : Claude!Says(what) PROVE EndsInOrder'
  BY <1>4 DEF ClaudeCliQuiet, Claude!Reads, Claude!StopsReading, Claude!Exits, Claude!Says, Claude!Bridge
<1> QED
  BY <1>1, <1>2, <1>3, <1>4 DEF Claude!Next, ClaudeReaderSteps, ClaudeCliQuiet

---------------------------------------------------------------------------
(* Who holds a request *)

\* A request stays where it is.
LEMMA HolderStays ==
  ASSUME OneHolder, UNCHANGED <<claudeSlot, writer, claudeDecided>>, ClaudeScanned' = ClaudeScanned
  PROVE  OneHolder'
BY DEF OneHolder

\* The reader scans a request into the slot.
LEMMA HolderByReader ==
  ASSUME ClaudeTyped, Claude!ConstantsAssumption, ClaudeNumbered, OneHolder, ClaudeReaderSteps
  PROVE  OneHolder'
<1>1. CASE Claude!Scan
  <2>1. /\ ClaudeScanned' = ClaudeScanned + 1 /\ ClaudeScanned \in Nat
        /\ claudeSlot' = claudeSlot \/ claudeSlot' = ClaudeScanned + 1
        /\ UNCHANGED <<writer, claudeDecided>>
    BY <1>1, ScanNext, ScannedIsNat DEF Claude!Scan
  <2>2. /\ \A w \in Writers : writer[w].for \in Nat
        /\ claudeSlot \in Nat /\ \A i \in 1 .. Len(claudeDecided) : claudeDecided[i] \in Nat
    <3>1. /\ writer \in [Writers -> [pc : {"idle", "lock", "write"}, for : 0 .. Lines]]
          /\ claudeSlot \in 0 .. Lines /\ claudeDecided \in Seq(Claude!Request) /\ Claude!Request \subseteq Nat
      BY ClaudeTypedParts DEF ClaudeWriterTypes, Claude!Request
    <3>2. \A i \in 1 .. Len(claudeDecided) : claudeDecided[i] \in Claude!Request
      BY <3>1
    <3>3. \A i \in 1 .. Len(claudeDecided) : claudeDecided[i] \in Nat
      BY <3>1, <3>2, Zenon
    <3>4. \A w \in Writers : writer[w].for \in 0 .. Lines
      BY <3>1
    <3>5. \A n \in 0 .. Lines : n \in Nat
      BY DEF Claude!ConstantsAssumption
    <3> QED
      BY <3>1, <3>3, <3>4, <3>5, Zenon
  <2>3. /\ claudeSlot' <= ClaudeScanned' /\ \A w \in Writers : writer[w].for <= ClaudeScanned'
        /\ \A i \in 1 .. Len(claudeDecided) : claudeDecided[i] <= ClaudeScanned'
    BY <2>1, <2>2 DEF OneHolder
  <2>4. claudeSlot' # 0 => /\ \A w \in Writers : writer[w].for # claudeSlot'
                     /\ \A i \in 1 .. Len(claudeDecided) : claudeDecided[i] # claudeSlot'
    BY <2>1, <2>2 DEF OneHolder
  <2> QED
    BY <2>1, <2>3, <2>4 DEF OneHolder
<1>2. CASE ~Claude!Scan
  <2>1. UNCHANGED <<claudeSlot, writer, claudeDecided, output, said>>
    BY <1>2 DEF ClaudeReaderSteps, Claude!ScanEnds, Claude!ScanFails, Claude!Emit, Claude!EmitCancelled, Claude!Wait, Claude!Take, Claude!cli
  <2> QED
    BY <2>1, HolderStays, PipeStays
<1> QED
  BY <1>1, <1>2

\* A goroutine takes a request out of the slot, and writes.
LEMMA HolderByWriter ==
  ASSUME ClaudeTyped, Claude!ConstantsAssumption, ClaudeNumbered, OneHolder, NEW w \in Writers, Claude!Writer(w)
  PROVE  OneHolder'
<1>1. /\ \A v \in Writers : writer[v].for \in Nat
      /\ writer \in [Writers -> [pc : {"idle", "lock", "write"}, for : 0 .. Lines]]
      /\ claudeSlot \in Nat /\ claudeDecided \in Seq(Claude!Request)
  BY ClaudeTypedParts DEF ClaudeWriterTypes
<1>2. UNCHANGED <<output, said>>
  BY DEF Claude!Writer, Claude!Send, Claude!Respond, Claude!Lock, Claude!Write, Claude!cli
<1>3. ClaudeScanned' = ClaudeScanned /\ ClaudeScanned \in Nat
  BY <1>2, PipeStays, ScannedIsNat
<1>4. CASE Claude!Send(w)
  BY <1>1, <1>3, <1>4 DEF Claude!Send, OneHolder
<1>5. CASE Claude!Respond(w)
  BY <1>1, <1>3, <1>5 DEF Claude!Respond, OneHolder
<1>6. CASE Claude!Lock(w)
  BY <1>1, <1>3, <1>6 DEF Claude!Lock, OneHolder
<1>7. CASE Claude!Write(w)
  <2>1. /\ writer' = [writer EXCEPT ![w] = [pc |-> "idle", for |-> 0]] /\ claudeSlot' = claudeSlot
        /\ \/ claudeDecided' = claudeDecided
           \/ writer[w].for # 0 /\ claudeDecided' = Append(claudeDecided, writer[w].for)
    BY <1>7 DEF Claude!Write
  <2>2. CASE claudeDecided' = claudeDecided
    BY <1>1, <1>3, <2>1, <2>2 DEF OneHolder
  <2>3. CASE writer[w].for # 0 /\ claudeDecided' = Append(claudeDecided, writer[w].for)
    <3>1. /\ Len(claudeDecided') = Len(claudeDecided) + 1 /\ Len(claudeDecided) \in Nat
          /\ \A i \in 1 .. Len(claudeDecided') :
               claudeDecided'[i] = IF i = Len(claudeDecided) + 1 THEN writer[w].for ELSE claudeDecided[i]
      BY <1>1, <2>3
    <3>2. \A i \in 1 .. Len(claudeDecided') : i # Len(claudeDecided) + 1 => i \in 1 .. Len(claudeDecided)
      BY <3>1
    <3>3. \A i, j \in 1 .. Len(claudeDecided') : i # j => claudeDecided'[i] # claudeDecided'[j]
      BY <2>3, <3>1, <3>2 DEF OneHolder
    <3>4. \A i \in 1 .. Len(claudeDecided') : claudeDecided'[i] <= ClaudeScanned' /\ (claudeSlot # 0 => claudeDecided'[i] # claudeSlot)
      BY <1>3, <2>3, <3>1, <3>2 DEF OneHolder
    <3>5. \A v \in Writers : writer'[v].for # 0 =>
            /\ v # w /\ \A u \in Writers \ {v} : writer'[u].for # writer'[v].for
            /\ \A i \in 1 .. Len(claudeDecided') : claudeDecided'[i] # writer'[v].for
      BY <1>1, <2>1, <2>3, <3>1, <3>2 DEF OneHolder
    <3>6. \A v \in Writers : /\ writer'[v].for <= ClaudeScanned'
                             /\ writer'[v].pc = "idle" => writer'[v].for = 0
                             /\ claudeSlot # 0 => writer'[v].for # claudeSlot
      BY <1>1, <1>3, <2>1 DEF OneHolder
    <3> QED
      BY <1>3, <2>1, <3>3, <3>4, <3>5, <3>6 DEF OneHolder
  <2> QED
    BY <2>1, <2>2, <2>3
<1> QED
  BY <1>4, <1>5, <1>6, <1>7 DEF Claude!Writer

---------------------------------------------------------------------------
(* The steps together *)

\* Every step keeps the invariant.
LEMMA ClaudeKept ==
  ASSUME ClaudeInv, Claude!ConstantsAssumption, [Claude!Next]_(Claude!vars)
  PROVE  ClaudeInv'
<1> USE DEF ClaudeInv
<1>1. ASSUME NEW w \in Writers, Claude!Writer(w) PROVE ClaudeInv'
  <2>1. UNCHANGED <<output, said>> /\ Claude!Next
    BY <1>1 DEF Claude!Writer, Claude!Send, Claude!Respond, Claude!Lock, Claude!Write, Claude!cli, Claude!Next
  <2> QED
    BY <1>1, <2>1, ClaudeWriterTyped, HolderByWriter, PipeStays, ClaudeEndsKept
<1>2. ASSUME NEW c \in Closers, Claude!Closer(c) PROVE ClaudeInv'
  <2>1. UNCHANGED <<output, said, claudeSlot, writer, claudeDecided>> /\ Claude!Next
    BY <1>2 DEF Claude!Closer, Claude!Begin, Claude!StoreDead, Claude!CloseInput, Claude!Terminate, Claude!Kill, Claude!Return, Claude!Rest, Claude!Next
  <2> QED
    BY <1>2, <2>1, ClaudeCloserTyped, HolderStays, PipeStays, ClaudeEndsKept
<1>3. ASSUME ClaudeReaderSteps PROVE ClaudeInv'
  <2>1. Claude!Next
    BY <1>3 DEF ClaudeReaderSteps, Claude!Next
  <2>2. ClaudeNumbered'
    <3>1. CASE Claude!Scan
      BY <3>1, ScanNext
    <3>2. CASE ~Claude!Scan
      BY <1>3, <3>2, PipeStays DEF ClaudeReaderSteps, Claude!ScanEnds, Claude!ScanFails, Claude!Emit, Claude!EmitCancelled, Claude!Wait, Claude!Take, Claude!cli
    <3> QED
      BY <3>1, <3>2
  <2> QED
    BY <1>3, <2>1, <2>2, ClaudeReaderTyped, HolderByReader, ClaudeEndsKept
<1>4. ASSUME ClaudeCliQuiet \/ \E what \in {"text", "ask"} : Claude!Says(what) PROVE ClaudeInv'
  <2>1. UNCHANGED <<claudeSlot, writer, claudeDecided>> /\ Claude!Next
    BY <1>4 DEF ClaudeCliQuiet, Claude!Reads, Claude!StopsReading, Claude!Exits, Claude!Says, Claude!Bridge, Claude!Next
  <2>2. ClaudeNumbered' /\ ClaudeScanned' = ClaudeScanned
    BY <1>4, PipeStays, SaysNext DEF ClaudeCliQuiet, Claude!Reads, Claude!StopsReading, Claude!Exits, Claude!cli
  <2> QED
    BY <1>4, <2>1, <2>2, ClaudeCliTyped, HolderStays, ClaudeEndsKept
<1>5. ASSUME UNCHANGED Claude!vars PROVE ClaudeInv'
  <2>1. /\ UNCHANGED <<Claude!cli, input, output, Claude!readerVars, claudeSlot, alive, cancelled, mu, writer, claudeSent>>
        /\ UNCHANGED <<claudeDecided, closer, proc, said>>
    BY <1>5 DEF Claude!vars, Claude!cli
  <2>2. ClaudeTyped'
    BY <2>1 DEF ClaudeTyped, Claude!TypeOK, Claude!cli, Claude!readerVars
  <2>3. EndsInOrder'
    BY <2>1 DEF EndsInOrder, Claude!Up, Claude!readerVars
  <2> QED
    BY <2>1, <2>2, <2>3, HolderStays, PipeStays
<1> QED
  BY <1>1, <1>2, <1>3, <1>4, <1>5 DEF Claude!Next, ClaudeReaderSteps, ClaudeCliQuiet

\* It holds at first.
LEMMA ClaudeStart == ASSUME Claude!ConstantsAssumption, Claude!Init PROVE ClaudeInv
<1>1. /\ output = <<>> /\ claudeDecided = <<>> /\ said = 0 /\ claudeSlot = 0 /\ claudeReader = "scan"
      /\ writer = [w \in Writers |-> [pc |-> "idle", for |-> 0]]
  BY DEF Claude!Init
<1>2. Len(output) = 0 /\ Len(claudeDecided) = 0
  BY <1>1
<1>3. ClaudeNumbered /\ OneHolder /\ EndsInOrder
  <2>1. ClaudeScanned = 0
    <3>1. ClaudeScanned = 0 - 0
      BY <1>1, <1>2, Zenon DEF ClaudeScanned
    <3> QED
      BY <3>1
  <2>2. ClaudeNumbered /\ EndsInOrder
    BY <1>1, <1>2 DEF ClaudeNumbered, EndsInOrder
  <2>3. OneHolder
    BY <1>1, <1>2, <2>1 DEF OneHolder
  <2> QED
    BY <2>2, <2>3
<1> QED
  BY <1>3, ClaudeTypesStart DEF ClaudeInv

\* The CLI gets at most one decision on a request, whichever goroutines decide, while newer
\* requests replace older ones in the slot.
LEMMA ClaudeDecides == ASSUME ClaudeInv PROVE Claude!DecidedOnce
BY DEF ClaudeInv, OneHolder, Claude!DecidedOnce

\* While nobody closes the session its end comes after everything the CLI has written, or
\* with an error.
LEMMA ClaudeEnds == ASSUME ClaudeInv PROVE Claude!ReadToTheEnd
BY DEF ClaudeInv, EndsInOrder, Claude!ReadToTheEnd, Claude!Done

-----------------------------------------------------------------------------
(* A live hermes session *)

\* What is on its way to hermes, and from it.
ToHermes == [what : {"init", "session"}, n : {0}] \cup [what : {"prompt", "steer"}, n : Hermes!Prompt]
FromHermes == [what : {"response", "replay"}, n : {0}] \cup [what : {"chunk", "ended"}, n : Hermes!Prompt]

HermesStarting ==
  /\ start \in {"init", "session", "drain", "alive", "failed"}
  /\ hermesResponse \in BOOLEAN /\ pending \in BOOLEAN /\ suppress \in BOOLEAN
HermesPrompts ==
  /\ promptIDs \subseteq Hermes!Prompt /\ hermesSent \in 0 .. Prompts
  /\ sender \in [Hermes!Senders -> {"none", "prompt", "steer"}]
HermesWire == toHermes \in Seq(ToHermes) /\ fromHermes \in Seq(FromHermes)
HermesProcess ==
  /\ hermes \in [running : 0 .. Prompts, chunks : 0 .. Chunks, replays : 0 .. Replays]
  /\ hermesProc \in {"up", "gone", "reaped"} /\ hermesOrphan \in BOOLEAN /\ hermesOutput \in BOOLEAN
HermesReads ==
  /\ hermesReader \in {"read", "emit", "wait", "ended"}
  /\ hermesEmitting \in Seq(FromHermes) /\ (hermesReader = "emit" => hermesEmitting # <<>>)
  /\ hermesEvents \in Seq(FromHermes) /\ Len(hermesEvents) <= HermesCapacity
  /\ ended \subseteq Hermes!Prompt /\ replayed \in Nat
HermesCloses ==
  /\ stderr \in BOOLEAN /\ hermesAlive \in BOOLEAN /\ hermesCancelled \in BOOLEAN
  /\ hermesCloser \in [HermesClosers -> [pc : {"idle", "first", "join", "returned"}, first : BOOLEAN]]
HermesTyped ==
  HermesStarting /\ HermesPrompts /\ HermesWire /\ HermesProcess /\ HermesReads /\ HermesCloses

\* While what is replayed is suppressed it may be on its way; after that there is none, and
\* none to come.
NoReplay(s) == \A i \in 1 .. Len(s) : s[i].what # "replay"
ReplayOver == NoReplay(fromHermes) /\ (~Resume \/ hermes.replays = Replays \/ hermesProc # "up")
Hidden ==
  ~Late => /\ replayed = 0 /\ NoReplay(hermesEmitting)
           /\ ~suppress => hermesReader = "ended" \/ ReplayOver

HermesInv == HermesTyped /\ Hidden /\ Hermes!FirstCloseJoins

---------------------------------------------------------------------------
\* The types that the properties ask for.
LEMMA HermesTypeOK == HermesTyped => Hermes!TypeOK
BY DEF HermesTyped, HermesStarting, HermesPrompts, HermesWire, HermesProcess, HermesReads,
       HermesCloses, Hermes!TypeOK

\* None, or a message that is no replay.
LEMMA NoReplayFew ==
  /\ NoReplay(<<>>)
  /\ \A m \in FromHermes : m.what # "replay" => NoReplay(<<m>>)
BY DEF NoReplay, FromHermes

\* A message more, or less.
LEMMA NoReplayMoves ==
  ASSUME NEW s \in Seq(FromHermes), NoReplay(s)
  PROVE  /\ \A m \in FromHermes : m.what # "replay" => NoReplay(Append(s, m))
         /\ s # <<>> => NoReplay(Tail(s)) /\ Head(s).what # "replay"
BY DEF NoReplay

\* The goroutines that close.
LEMMA HermesClosing ==
  ASSUME HermesInv, Hermes!ConstantsAssumption, NEW c \in HermesClosers, Hermes!Closer(c)
  PROVE  HermesInv'
<1> USE DEF Hermes!starting, Hermes!prompts, Hermes!wire, Hermes!readerVars, Hermes!Rest
<1>1. UNCHANGED <<start, hermesResponse, pending, suppress, promptIDs, hermesSent, sender, toHermes,
                  fromHermes, hermes, hermesOrphan, hermesReader, hermesEmitting, hermesEvents,
                  ended, replayed, stderr>>
  BY DEF Hermes!Closer, Hermes!Close, Hermes!CloseWaits, Hermes!CloseSees, Hermes!Return
<1>2. /\ hermesProc' \in {"up", "gone", "reaped"} /\ hermesOutput' \in BOOLEAN
      /\ hermesProc # "up" => hermesProc' # "up"
  BY DEF Hermes!Closer, Hermes!Close, Hermes!CloseWaits, Hermes!CloseSees, Hermes!Return,
         Hermes!Killed, Hermes!Reap, HermesInv, HermesTyped, HermesProcess
<1>3. hermesAlive' \in BOOLEAN /\ hermesCancelled' \in BOOLEAN
  BY DEF Hermes!Closer, Hermes!Close, Hermes!CloseWaits, Hermes!CloseSees, Hermes!Return,
         HermesInv, HermesTyped, HermesCloses
<1>4. PICK at \in [pc : {"idle", "first", "join", "returned"}, first : BOOLEAN] :
        /\ hermesCloser' = [hermesCloser EXCEPT ![c] = at]
        /\ at.pc = "returned" /\ at.first => Hermes!Joined
  <2>1. hermesCloser[c] \in [pc : {"idle", "first", "join", "returned"}, first : BOOLEAN]
        /\ hermesAlive \in BOOLEAN
    BY DEF HermesInv, HermesTyped, HermesCloses
  <2>2. CASE Hermes!Close(c)
    <3> DEFINE at == [pc |-> IF hermesAlive THEN "first" ELSE "returned", first |-> hermesAlive]
    <3>1. at \in [pc : {"idle", "first", "join", "returned"}, first : BOOLEAN]
          /\ ~(at.pc = "returned" /\ at.first)
      BY <2>1
    <3> QED
      BY <2>2, <3>1 DEF Hermes!Close
  <2>3. CASE Hermes!CloseWaits(c) \/ Hermes!CloseSees(c)
    <3> DEFINE at == [hermesCloser[c] EXCEPT !.pc = "join"]
    <3>1. at \in [pc : {"idle", "first", "join", "returned"}, first : BOOLEAN] /\ at.pc = "join"
      BY <2>1
    <3>2. hermesCloser' = [hermesCloser EXCEPT ![c] = at]
      BY <2>1, <2>3 DEF Hermes!CloseWaits, Hermes!CloseSees, Hermes!Move, HermesInv, HermesTyped, HermesCloses
    <3> QED
      BY <3>1, <3>2
  <2>4. CASE Hermes!Return(c)
    <3> DEFINE at == [hermesCloser[c] EXCEPT !.pc = "returned"]
    <3>1. at \in [pc : {"idle", "first", "join", "returned"}, first : BOOLEAN]
      BY <2>1
    <3>2. hermesCloser' = [hermesCloser EXCEPT ![c] = at] /\ Hermes!Joined
      BY <2>1, <2>4 DEF Hermes!Return, Hermes!Move, HermesInv, HermesTyped, HermesCloses
    <3> QED
      BY <3>1, <3>2
  <2> QED
    BY <2>2, <2>3, <2>4 DEF Hermes!Closer
<1>5. HermesTyped'
  BY <1>1, <1>2, <1>3, <1>4 DEF HermesInv, HermesTyped, HermesStarting, HermesPrompts, HermesWire,
     HermesProcess, HermesReads, HermesCloses
<1>6. Hidden'
  BY <1>1, <1>2 DEF HermesInv, Hidden, ReplayOver, NoReplay
<1>7. Hermes!FirstCloseJoins'
  <2>1. Hermes!Joined' = Hermes!Joined
    BY <1>1 DEF Hermes!Joined
  <2>2. ASSUME NEW d \in HermesClosers
        PROVE  hermesCloser'[d].pc = "returned" /\ hermesCloser'[d].first => Hermes!Joined
    BY <1>4 DEF HermesInv, HermesTyped, HermesCloses, Hermes!FirstCloseJoins
  <2> QED
    BY <2>1, <2>2 DEF Hermes!FirstCloseJoins
<1> QED
  BY <1>5, <1>6, <1>7 DEF HermesInv

\* The session's other goroutines leave those that close alone.
LEMMA StillJoined ==
  ASSUME HermesInv, hermesCloser' = hermesCloser,
         hermesReader = "ended" => hermesReader' = "ended", ~stderr => ~stderr'
  PROVE  Hermes!FirstCloseJoins'
BY DEF HermesInv, Hermes!FirstCloseJoins, Hermes!Joined

\* The start of a session.
LEMMA HermesStarts ==
  ASSUME HermesInv, Hermes!ConstantsAssumption,
         Hermes!StartFails \/ Hermes!StartGoesOn \/ Hermes!DrainEnds
  PROVE  HermesInv'
<1> USE DEF Hermes!Others, Hermes!prompts, Hermes!readerVars
<1>1. UNCHANGED <<promptIDs, hermesSent, sender, fromHermes, hermes, hermesOrphan, hermesOutput,
                  hermesReader, hermesEmitting, hermesEvents, ended, replayed, stderr, hermesCloser>>
  BY DEF Hermes!StartFails, Hermes!StartGoesOn, Hermes!DrainEnds
<1>2. /\ hermesProc' \in {"up", "gone", "reaped"} /\ (hermesProc # "up" => hermesProc' # "up")
      /\ hermesAlive' \in BOOLEAN /\ hermesCancelled' \in BOOLEAN
  BY DEF Hermes!StartFails, Hermes!StartGoesOn, Hermes!DrainEnds, Hermes!Terminating, Hermes!Going,
         Hermes!Killed, HermesInv, HermesTyped, HermesProcess, HermesCloses
<1>3. HermesStarting' /\ toHermes' \in Seq(ToHermes)
  <2>1. Hermes!Message("session", 0) \in ToHermes
    BY DEF Hermes!Message, ToHermes
  <2>2. HermesStarting /\ toHermes \in Seq(ToHermes) /\ Resume \in BOOLEAN
    BY DEF HermesInv, HermesTyped, HermesWire, Hermes!ConstantsAssumption
  <2>3. CASE Hermes!StartFails
    BY <2>2, <2>3 DEF Hermes!StartFails, Hermes!Terminating, HermesStarting
  <2>4. CASE Hermes!StartGoesOn
    <3>1. hermesResponse' = FALSE /\ UNCHANGED suppress /\ start' \in {"session", "drain", "alive"}
          /\ pending' \in {pending, TRUE}
          /\ toHermes' \in {toHermes, Append(toHermes, Hermes!Message("session", 0))}
      BY <2>4 DEF Hermes!StartGoesOn
    <3>2. toHermes' \in Seq(ToHermes)
      BY <2>1, <2>2, <3>1
    <3> QED
      BY <2>2, <3>1, <3>2 DEF HermesStarting
  <2>5. CASE Hermes!DrainEnds
    BY <2>2, <2>5 DEF Hermes!DrainEnds, Hermes!Terminating, HermesStarting
  <2> QED
    BY <2>3, <2>4, <2>5
<1>4. HermesTyped'
  BY <1>1, <1>2, <1>3 DEF HermesInv, HermesTyped, HermesPrompts, HermesWire, HermesProcess,
     HermesReads, HermesCloses
<1>5. Hidden'
  <2>1. ReplayOver => ReplayOver'
    BY <1>1, <1>2 DEF ReplayOver, NoReplay
  <2>2. CASE suppress' = suppress
    BY <1>1, <2>1, <2>2 DEF HermesInv, Hidden, NoReplay
  <2>3. CASE Hermes!DrainEnds
    <3>1. hermesReader = "ended" \/ Late \/ (fromHermes = <<>> /\ (hermes.replays = Replays \/ hermesProc # "up"))
      BY <2>3 DEF Hermes!DrainEnds
    <3>2. hermesReader = "ended" \/ Late \/ ReplayOver
      BY <3>1, NoReplayFew DEF ReplayOver
    <3> QED
      BY <1>1, <2>1, <3>2 DEF HermesInv, Hidden, NoReplay
  <2> QED
    BY <2>2, <2>3 DEF Hermes!StartFails, Hermes!StartGoesOn
<1> QED
  BY <1>1, <1>4, <1>5, StillJoined DEF HermesInv

\* A prompt, or a steer: it is looked up which, and sent.
LEMMA HermesSends ==
  ASSUME HermesInv, Hermes!ConstantsAssumption, NEW w \in Hermes!Senders, Hermes!Send(w) \/ Hermes!Track(w)
  PROVE  HermesInv'
<1> USE DEF Hermes!starting, Hermes!wire, Hermes!cli, Hermes!readerVars
<1>1. UNCHANGED <<start, hermesResponse, pending, suppress, fromHermes, hermes, hermesProc, hermesOrphan,
                  hermesOutput, hermesReader, hermesEmitting, hermesEvents, ended, replayed, stderr,
                  hermesAlive, hermesCancelled, hermesCloser>>
  BY DEF Hermes!Send, Hermes!Track
<1>2. HermesPrompts' /\ toHermes' \in Seq(ToHermes)
  <2>1. toHermes \in Seq(ToHermes) /\ HermesPrompts
    BY DEF HermesInv, HermesTyped, HermesWire
  <2>2. CASE Hermes!Send(w)
    <3>1. sender' \in [Hermes!Senders -> {"none", "prompt", "steer"}]
      BY <2>1, <2>2 DEF HermesPrompts, Hermes!Send
    <3> QED
      BY <2>1, <2>2, <3>1 DEF Hermes!Send, HermesPrompts
  <2>3. CASE Hermes!Track(w)
    <3>1. hermesSent + 1 \in Hermes!Prompt /\ Prompts \in Nat
      BY <2>1, <2>3 DEF HermesPrompts, Hermes!Track, Hermes!Prompt, Hermes!ConstantsAssumption
    <3>2. sender[w] \in {"prompt", "steer"} /\ sender' \in [Hermes!Senders -> {"none", "prompt", "steer"}]
      BY <2>1, <2>3 DEF HermesPrompts, Hermes!Track
    <3> DEFINE m == Hermes!Message(sender[w], hermesSent + 1)
    <3>3. m \in ToHermes
      BY <3>1, <3>2 DEF Hermes!Message, ToHermes
    <3>4. /\ toHermes' \in {toHermes, Append(toHermes, m)} /\ hermesSent' = hermesSent + 1
          /\ promptIDs' \in {promptIDs, promptIDs \cup {hermesSent + 1}}
      BY <2>3 DEF Hermes!Track
    <3> HIDE DEF m
    <3>5. toHermes' \in Seq(ToHermes)
      BY <2>1, <3>3, <3>4
    <3> QED
      BY <2>1, <3>1, <3>2, <3>4, <3>5 DEF HermesPrompts, Hermes!Prompt
  <2> QED
    BY <2>2, <2>3
<1>3. HermesTyped'
  BY <1>1, <1>2 DEF HermesInv, HermesTyped, HermesStarting, HermesWire, HermesProcess,
     HermesReads, HermesCloses
<1>4. Hidden'
  BY <1>1 DEF HermesInv, Hidden, ReplayOver, NoReplay
<1> QED
  BY <1>1, <1>3, <1>4, StillJoined DEF HermesInv

\* A message is read: a replay has no event while it is suppressed.
LEMMA HermesReadKept ==
  ASSUME HermesInv, Hermes!ConstantsAssumption, Hermes!Read
  PROVE  HermesInv'
<1> USE DEF Hermes!cli
<1> DEFINE m == Head(fromHermes)
<1>1. /\ UNCHANGED <<start, suppress, hermesSent, sender, toHermes, hermes, hermesProc, hermesOrphan, hermesOutput,
                     hermesEvents, ended, replayed, stderr, hermesAlive, hermesCancelled, hermesCloser>>
      /\ fromHermes # <<>> /\ fromHermes' = Tail(fromHermes) /\ hermesReader = "read"
      /\ hermesEmitting' = Hermes!EventsOf(m)
      /\ hermesReader' = IF Hermes!EventsOf(m) = <<>> THEN "read" ELSE "emit"
      /\ promptIDs' = IF m.what = "ended" THEN promptIDs \ {m.n} ELSE promptIDs
  BY DEF Hermes!Read
<1>2. pending' \in BOOLEAN /\ hermesResponse' \in BOOLEAN
  BY DEF Hermes!Read, HermesInv, HermesTyped, HermesStarting
<1>3. m \in FromHermes /\ Tail(fromHermes) \in Seq(FromHermes)
  BY <1>1 DEF HermesInv, HermesTyped, HermesWire
<1>31. promptIDs' \subseteq promptIDs
  BY <1>1
<1>4. Hermes!EventsOf(m) \in {<<>>, <<m>>} /\ (suppress /\ m.what = "replay" => Hermes!EventsOf(m) = <<>>)
  BY DEF Hermes!EventsOf, Hermes!Suppressed
<1>5. HermesTyped'
  <2>1. hermesEmitting' \in Seq(FromHermes) /\ hermesReader' \in {"read", "emit"}
        /\ (hermesReader' = "emit" => hermesEmitting' # <<>>)
    <3> HIDE DEF m
    <3>1. <<m>> \in Seq(FromHermes) /\ <<>> \in Seq(FromHermes)
      BY <1>3
    <3>2. CASE Hermes!EventsOf(m) = <<>>
      BY <1>1, <3>1, <3>2
    <3>3. CASE Hermes!EventsOf(m) = <<m>>
      <4>1. hermesEmitting' = <<m>> /\ <<m>> # <<>> /\ hermesReader' = "emit"
        BY <1>1, <3>3
      <4> QED
        BY <3>1, <4>1
    <3> QED
      BY <1>4, <3>2, <3>3
  <2>2. HermesReads'
    BY <1>1, <2>1 DEF HermesInv, HermesTyped, HermesReads
  <2> QED
    BY <1>1, <1>2, <1>3, <1>31, <2>2 DEF HermesInv, HermesTyped, HermesStarting, HermesPrompts, HermesWire,
       HermesProcess, HermesCloses
<1>6. Hidden'
  <2> SUFFICES ASSUME ~Late PROVE Hidden'
    BY DEF Hidden
  <2>1. ~suppress => ReplayOver /\ ReplayOver' /\ m.what # "replay"
    <3>1. ~suppress => ReplayOver
      BY <1>1 DEF HermesInv, Hidden
    <3>2. NoReplay(fromHermes) => NoReplay(Tail(fromHermes)) /\ m.what # "replay"
      BY <1>1, NoReplayMoves DEF HermesInv, HermesTyped, HermesWire
    <3> QED
      BY <1>1, <3>1, <3>2 DEF ReplayOver, NoReplay
  <2>2. NoReplay(Hermes!EventsOf(m))
    BY <1>3, <1>4, <2>1, NoReplayFew
  <2>3. NoReplay(hermesEmitting')
    BY <1>1, <2>2
  <2> QED
    BY <1>1, <2>1, <2>3 DEF HermesInv, Hidden, NoReplay
<1> QED
  BY <1>1, <1>5, <1>6, StillJoined DEF HermesInv

\* The other steps of the goroutine that reads, and of the one that takes events.
LEMMA HermesReadsOn ==
  ASSUME HermesInv, Hermes!ConstantsAssumption,
         \/ Hermes!ReadEnds \/ Hermes!Emit \/ Hermes!EmitCancelled \/ Hermes!Take
         \/ Hermes!ReaderEnds \/ Hermes!StderrEnds
  PROVE  HermesInv'
<1> USE DEF Hermes!starting, Hermes!prompts, Hermes!wire, Hermes!cli, Hermes!readerVars
<1>1. /\ UNCHANGED <<start, hermesResponse, pending, suppress, promptIDs, hermesSent, sender, toHermes,
                     fromHermes, hermes, hermesOrphan, hermesCancelled, hermesCloser>>
      /\ hermesReader = "ended" => hermesReader' = "ended"
      /\ ~stderr => ~stderr'
      /\ hermesProc # "up" => hermesProc' # "up"
  BY DEF Hermes!ReadEnds, Hermes!Emit, Hermes!EmitCancelled, Hermes!Take, Hermes!ReaderEnds,
         Hermes!StderrEnds, Hermes!Reap
<1>2. /\ stderr' \in BOOLEAN /\ hermesAlive' \in BOOLEAN
      /\ hermesProc' \in {"up", "gone", "reaped"} /\ hermesOutput' \in BOOLEAN
  BY DEF Hermes!ReadEnds, Hermes!Emit, Hermes!EmitCancelled, Hermes!Take, Hermes!ReaderEnds,
         Hermes!StderrEnds, Hermes!Reap, HermesInv, HermesTyped, HermesProcess, HermesCloses
<1>3. HermesReads'
  <2>1. HermesReads /\ HermesCapacity \in Nat
    BY DEF HermesInv, HermesTyped, Hermes!ConstantsAssumption
  <2>2. CASE Hermes!Emit
    <3> DEFINE e == Head(hermesEmitting)
    <3>1. e \in FromHermes
      BY <2>1, <2>2 DEF HermesReads, Hermes!Emit
    <3>2. ended' \subseteq Hermes!Prompt /\ replayed' \in Nat
      BY <2>1, <2>2, <3>1 DEF HermesReads, Hermes!Emit, Hermes!Emitted, FromHermes
    <3>3. hermesEvents' = Append(hermesEvents, e) /\ Len(hermesEvents) < HermesCapacity
          /\ hermesReader' = "read" /\ hermesEmitting' = <<>>
      BY <2>2 DEF Hermes!Emit
    <3> QED
      BY <2>1, <3>1, <3>2, <3>3 DEF HermesReads
  <2>3. CASE Hermes!Take
    BY <2>1, <2>3 DEF HermesReads, Hermes!Take
  <2>4. CASE Hermes!ReadEnds \/ Hermes!EmitCancelled \/ Hermes!ReaderEnds \/ Hermes!StderrEnds
    <3>1. UNCHANGED <<hermesEvents, ended, replayed>> /\ hermesEmitting' \in {hermesEmitting, <<>>}
          /\ ((hermesReader' = hermesReader /\ hermesEmitting' = hermesEmitting) \/ hermesReader' \in {"read", "wait", "ended"})
      BY <2>4 DEF Hermes!ReadEnds, Hermes!EmitCancelled, Hermes!ReaderEnds, Hermes!StderrEnds
    <3>2. hermesEmitting' \in Seq(FromHermes)
      <4>1. hermesEmitting \in Seq(FromHermes) /\ <<>> \in Seq(FromHermes)
        BY <2>1 DEF HermesReads
      <4> QED
        BY <3>1, <4>1, Zenon
    <3>3. hermesReader' \in {"read", "emit", "wait", "ended"} /\ (hermesReader' = "emit" => hermesEmitting' # <<>>)
      BY <2>1, <3>1 DEF HermesReads
    <3> QED
      BY <2>1, <3>1, <3>2, <3>3 DEF HermesReads
  <2> QED
    BY <2>2, <2>3, <2>4
<1>4. HermesTyped'
  BY <1>1, <1>2, <1>3 DEF HermesInv, HermesTyped, HermesStarting, HermesPrompts, HermesWire,
     HermesProcess, HermesCloses
<1>5. Hidden'
  <2> SUFFICES ASSUME ~Late PROVE Hidden'
    BY DEF Hidden
  <2>1. ReplayOver => ReplayOver'
    BY <1>1 DEF ReplayOver, NoReplay
  <2>2. ~suppress' => hermesReader' = "ended" \/ ReplayOver'
    BY <1>1, <2>1 DEF HermesInv, Hidden
  <2>3. replayed' = 0 /\ NoReplay(hermesEmitting')
    <3>1. replayed = 0 /\ NoReplay(hermesEmitting)
      BY DEF HermesInv, Hidden
    <3>2. CASE Hermes!Emit
      <4>1. hermesEmitting # <<>> => Head(hermesEmitting).what # "replay"
        BY <3>1, NoReplayMoves DEF HermesInv, HermesTyped, HermesReads
      <4> QED
        BY <3>1, <3>2, <4>1, NoReplayFew DEF Hermes!Emit, Hermes!Emitted, HermesInv, HermesTyped, HermesReads
    <3>3. CASE Hermes!ReadEnds \/ Hermes!EmitCancelled \/ Hermes!Take \/ Hermes!ReaderEnds \/ Hermes!StderrEnds
      <4>1. replayed' = replayed /\ hermesEmitting' \in {hermesEmitting, <<>>}
        BY <3>3 DEF Hermes!ReadEnds, Hermes!EmitCancelled, Hermes!Take, Hermes!ReaderEnds, Hermes!StderrEnds
      <4> QED
        BY <3>1, <4>1, NoReplayFew
    <3> QED
      BY <3>2, <3>3
  <2> QED
    BY <2>2, <2>3 DEF Hidden
<1> QED
  BY <1>1, <1>4, <1>5, StillJoined DEF HermesInv

\* What hermes says is no replay but in Replay.
LEMMA HermesSpeaks ==
  ASSUME HermesInv, Hermes!ConstantsAssumption,
         Hermes!Answers \/ Hermes!Replay \/ Hermes!Chunk \/ Hermes!PromptEnds \/ Hermes!Exit
  PROVE  HermesInv'
<1> USE DEF Hermes!Bridge, Hermes!starting, Hermes!prompts, Hermes!readerVars, Hermes!wire
<1>1. /\ UNCHANGED <<start, hermesResponse, pending, suppress, promptIDs, hermesSent, sender, hermesOutput,
                     hermesReader, hermesEmitting, hermesEvents, ended, replayed, stderr,
                     hermesAlive, hermesCancelled, hermesCloser>>
      /\ hermesProc = "up" /\ hermesProc' \in {"up", "gone"}
  BY DEF Hermes!Answers, Hermes!Replay, Hermes!Chunk, Hermes!PromptEnds, Hermes!Exit
<1>2. hermesOrphan' \in BOOLEAN
  BY DEF Hermes!Answers, Hermes!Replay, Hermes!Chunk, Hermes!PromptEnds, Hermes!Exit, HermesInv, HermesTyped,
         HermesProcess, Hermes!ConstantsAssumption
<1>3. /\ toHermes \in Seq(ToHermes) /\ fromHermes \in Seq(FromHermes)
      /\ hermes \in [running : 0 .. Prompts, chunks : 0 .. Chunks, replays : 0 .. Replays]
      /\ Prompts \in Nat /\ Chunks \in Nat /\ Replays \in Nat
  BY DEF HermesInv, HermesTyped, HermesWire, HermesProcess, Hermes!ConstantsAssumption
<1> DEFINE Says(m) == m \in FromHermes /\ fromHermes' = Append(fromHermes, m)
           Knows == hermes' \in [running : 0 .. Prompts, chunks : 0 .. Chunks, replays : 0 .. Replays]
<1>4. /\ toHermes' \in Seq(ToHermes) /\ Knows
      /\ \/ fromHermes' = fromHermes /\ hermes'.replays = hermes.replays
         \/ hermes'.replays = hermes.replays /\ \E m \in FromHermes : m.what # "replay" /\ fromHermes' = Append(fromHermes, m)
         \/ Hermes!Replay /\ \E m \in FromHermes : fromHermes' = Append(fromHermes, m)
  <2>1. CASE Hermes!Answers
    <3> DEFINE m == Head(toHermes)
    <3>1. m \in ToHermes /\ toHermes' = Tail(toHermes) /\ toHermes' \in Seq(ToHermes)
      BY <1>3, <2>1 DEF Hermes!Answers
    <3>2. m.what \in {"prompt", "steer"} => m.n \in Hermes!Prompt
      BY <3>1 DEF ToHermes
    <3>3. CASE m.what \in {"init", "session"}
      <4>1. hermes' = hermes
        BY <2>1, <3>3 DEF Hermes!Answers
      <4>2. fromHermes' = fromHermes \/ fromHermes' = Append(fromHermes, Hermes!Message("response", 0))
        BY <2>1, <3>3 DEF Hermes!Answers, Hermes!Say
      <4>3. Hermes!Message("response", 0) \in FromHermes /\ Hermes!Message("response", 0).what = "response"
        BY DEF Hermes!Message, FromHermes
      <4> QED
        BY <1>3, <3>1, <4>1, <4>2, <4>3
    <3>4. CASE m.what = "prompt"
      <4>1. hermes' = [hermes EXCEPT !.running = m.n, !.chunks = 0] /\ fromHermes' = fromHermes
        BY <2>1, <3>4 DEF Hermes!Answers
      <4>2. m.n \in 0 .. Prompts /\ 0 \in 0 .. Chunks
        BY <1>3, <3>2, <3>4 DEF Hermes!Prompt
      <4> HIDE DEF m
      <4>3. Knows /\ hermes'.replays = hermes.replays
        BY <1>3, <4>1, <4>2
      <4> QED
        BY <3>1, <4>1, <4>3
    <3>5. CASE m.what = "steer"
      <4>1. hermes' = hermes /\ fromHermes' = Append(fromHermes, Hermes!Message("ended", m.n))
        BY <2>1, <3>5 DEF Hermes!Answers, Hermes!Say
      <4>2. Hermes!Message("ended", m.n) \in FromHermes /\ Hermes!Message("ended", m.n).what = "ended"
        BY <3>2, <3>5 DEF Hermes!Message, FromHermes
      <4> QED
        BY <1>3, <3>1, <4>1, <4>2
    <3> QED
      BY <3>1, <3>3, <3>4, <3>5 DEF ToHermes
  <2>2. CASE Hermes!Replay
    <3>1. Hermes!Message("replay", 0) \in FromHermes
      BY DEF Hermes!Message, FromHermes
    <3>2. /\ hermes' = [hermes EXCEPT !.replays = @ + 1] /\ hermes.replays < Replays /\ toHermes' = toHermes
          /\ fromHermes' = Append(fromHermes, Hermes!Message("replay", 0))
      BY <2>2 DEF Hermes!Replay, Hermes!Say
    <3>3. Knows
      BY <1>3, <3>2, SMTT(60)
    <3> QED
      BY <1>3, <2>2, <3>1, <3>2, <3>3, Zenon
  <2>3. CASE Hermes!Chunk
    <3>1. /\ hermes' = [hermes EXCEPT !.chunks = @ + 1] /\ hermes.chunks < Chunks /\ hermes.running # 0
          /\ fromHermes' = Append(fromHermes, Hermes!Message("chunk", hermes.running)) /\ toHermes' = toHermes
      BY <2>3 DEF Hermes!Chunk, Hermes!Say, Hermes!Idle
    <3>2. Hermes!Message("chunk", hermes.running) \in FromHermes /\ Hermes!Message("chunk", hermes.running).what = "chunk"
      BY <1>3, <3>1 DEF Hermes!Message, FromHermes, Hermes!Prompt
    <3>3. Knows /\ hermes'.replays = hermes.replays
      BY <1>3, <3>1
    <3> QED
      BY <1>3, <3>1, <3>2, <3>3
  <2>4. CASE Hermes!PromptEnds
    <3>1. /\ hermes' = [hermes EXCEPT !.running = 0] /\ hermes.running # 0
          /\ fromHermes' = Append(fromHermes, Hermes!Message("ended", hermes.running)) /\ toHermes' = toHermes
      BY <2>4 DEF Hermes!PromptEnds, Hermes!Say, Hermes!Idle
    <3>2. Hermes!Message("ended", hermes.running) \in FromHermes /\ Hermes!Message("ended", hermes.running).what = "ended"
      BY <1>3, <3>1 DEF Hermes!Message, FromHermes, Hermes!Prompt
    <3> QED
      BY <1>3, <3>1, <3>2
  <2>5. CASE Hermes!Exit
    BY <1>3, <2>5 DEF Hermes!Exit
  <2> QED
    BY <2>1, <2>2, <2>3, <2>4, <2>5
<1>5. HermesTyped'
  <2>2. fromHermes' \in Seq(FromHermes)
    <3>1. \A m \in FromHermes : Append(fromHermes, m) \in Seq(FromHermes)
      BY <1>3
    <3> QED
      BY <1>3, <1>4, <3>1, Zenon
  <2>1. HermesWire' /\ HermesProcess'
    BY <1>1, <1>2, <1>4, <2>2 DEF HermesWire, HermesProcess, HermesInv, HermesTyped
  <2> QED
    BY <1>1, <2>1 DEF HermesInv, HermesTyped, HermesStarting, HermesPrompts, HermesReads, HermesCloses
<1>6. Hidden'
  <2> SUFFICES ASSUME ~Late PROVE Hidden'
    BY DEF Hidden
  <2>1. Hermes!Replay /\ ReplayOver => FALSE
    BY <1>3 DEF ReplayOver, Hermes!Replay
  <2>2. ReplayOver => ReplayOver'
    <3>1. NoReplay(fromHermes) /\ ~Hermes!Replay => NoReplay(fromHermes') /\ hermes'.replays = hermes.replays
      BY <1>3, <1>4, NoReplayMoves
    <3> QED
      BY <1>1, <2>1, <3>1 DEF ReplayOver
  <2> QED
    BY <1>1, <2>2 DEF HermesInv, Hidden, NoReplay
<1> QED
  BY <1>1, <1>5, <1>6, StillJoined DEF HermesInv

\* The invariant holds at first.
LEMMA HermesStart == ASSUME Hermes!ConstantsAssumption, Hermes!Init PROVE HermesInv
<1>1. HermesWire
  BY DEF Hermes!Init, HermesWire, Hermes!Message, ToHermes
<1>2. HermesProcess
  <2>1. 0 \in 0 .. Prompts /\ 0 \in 0 .. Chunks /\ 0 \in 0 .. Replays
    BY DEF Hermes!ConstantsAssumption
  <2> QED
    BY <2>1 DEF Hermes!Init, HermesProcess
<1>3. HermesReads /\ HermesStarting /\ HermesPrompts
  <2>1. 0 \in 0 .. Prompts /\ 0 <= HermesCapacity /\ Resume \in BOOLEAN
    BY DEF Hermes!ConstantsAssumption
  <2>2. HermesReads
    BY <2>1 DEF Hermes!Init, HermesReads
  <2> QED
    BY <2>1, <2>2 DEF Hermes!Init, HermesStarting, HermesPrompts
<1>4. HermesCloses
  BY DEF Hermes!Init, HermesCloses
<1>5. Hidden
  BY NoReplayFew DEF Hermes!Init, Hidden, ReplayOver, Hermes!ConstantsAssumption
<1>6. Hermes!FirstCloseJoins
  BY DEF Hermes!Init, Hermes!FirstCloseJoins
<1> QED
  BY <1>1, <1>2, <1>3, <1>4, <1>5, <1>6 DEF HermesInv, HermesTyped

\* Every step keeps it.
LEMMA HermesKept ==
  ASSUME HermesInv, Hermes!ConstantsAssumption, [Hermes!Next]_hermesVars PROVE HermesInv'
<1>1. CASE UNCHANGED hermesVars
  <2>1. HermesTyped'
    BY <1>1 DEF hermesVars, HermesInv, HermesTyped, HermesStarting, HermesPrompts, HermesWire,
       HermesProcess, HermesReads, HermesCloses
  <2>2. Hidden'
    BY <1>1 DEF hermesVars, HermesInv, Hidden, ReplayOver, NoReplay
  <2> QED
    BY <1>1, <2>1, <2>2, StillJoined DEF hermesVars, HermesInv
<1>2. CASE Hermes!Next
  BY <1>2, HermesClosing, HermesStarts, HermesSends, HermesReadKept, HermesReadsOn, HermesSpeaks
     DEF Hermes!Next, Hermes!Reader
<1> QED
  BY <1>1, <1>2

\* What the properties ask of hermes.
LEMMA HermesShows == ASSUME HermesInv PROVE Hermes!TypeOK /\ Hermes!ReplayHidden /\ Hermes!FirstCloseJoins
BY HermesTypeOK DEF HermesInv, Hidden, Hermes!ReplayHidden

-----------------------------------------------------------------------------
(* A turn of a CLI *)

\* The events, and what is told by each line.
CliEvent == {"text", "error", "done"}
Telling == [one \in Cli!Line |-> Cli!EventsOf(one)]
Tells(s) == \E i \in 1 .. Len(s) : s[i] = "error"

CliProcess ==
  /\ agent \in Clis /\ cliProc \in {"none", "up", "gone", "reaped"}
  /\ failed \in BOOLEAN /\ cliOrphan \in BOOLEAN
CliOutput ==
  /\ cliSaid \in Seq(Cli!Line) /\ Len(cliSaid) <= Lines /\ cliOutput \in Seq(Cli!Line)
  /\ Sequence!IsSuffix(cliOutput, cliSaid)
CliEvents ==
  /\ cliEvents \in Seq(CliEvent) /\ Len(cliEvents) <= CliCapacity /\ cliPassed \in Seq(CliEvent)
  /\ Sequence!IsSuffix(cliEvents, cliPassed)
CliLoop ==
  /\ cliPc \in {"start", "read", "emit", "wait", "report", "reap", "ended"}
  /\ cliTodo \in Seq(CliEvent) /\ Len(cliTodo) <= 2 /\ errors \in BOOLEAN /\ cliCancelled \in BOOLEAN
  /\ cliTodo # <<>> <=> cliPc \in {"emit", "report"}
CliTyped == CliProcess /\ CliOutput /\ CliEvents /\ CliLoop

\* Where the goroutine and the process may be.
Placed ==
  /\ cliPc = "start" => cliProc = "none"
  /\ cliProc = "none" => cliPc \in {"start", "report", "ended"} /\ cliSaid = <<>>
  /\ cliProc \in {"none", "up"} => ~failed
  /\ cliPc = "emit" => agent # "hermes"
  /\ cliPc = "reap" => cliCancelled /\ agent = "claude"
  /\ cliPc \in {"wait", "report", "ended"} /\ ~cliCancelled => cliProc # "up"
  /\ cliPc = "report" => cliProc \in {"none", "reaped"}

\* What has been passed on and what is still to be are what the CLI has written.
PassesOn ==
  ~cliCancelled /\ agent # "hermes" =>
    IF cliPc \in {"wait", "report", "ended"} THEN Sequence!IsPrefix(Each(Telling, cliSaid), cliPassed)
    ELSE (cliPassed \o cliTodo) \o Each(Telling, cliOutput) = Each(Telling, cliSaid)

\* A failure is told of, or will be.
TellsOf ==
  ~cliCancelled =>
    /\ errors \/ (failed /\ cliPc = "report") => Tells(cliPassed) \/ Tells(cliTodo)
    /\ failed /\ cliPc = "ended" => Tells(cliPassed)

CliInv == CliTyped /\ Placed /\ PassesOn /\ TellsOf /\ Cli!Reaped

---------------------------------------------------------------------------
\* A suffix is one, whichever instance of the library says so.
LEMMA CliSuffix == ASSUME NEW s, NEW t PROVE Cli!IsSuffix(s, t) <=> Sequence!IsSuffix(s, t)
BY DEF Cli!IsSuffix, Cli!IsPrefix, Cli!Reverse, Sequence!IsSuffix, Sequence!IsPrefix, Sequence!Reverse

\* The types that the properties ask for.
LEMMA CliTypeOK == CliTyped => Cli!TypeOK
BY CliSuffix DEF CliTyped, CliProcess, CliOutput, CliEvents, CliLoop, Cli!TypeOK

\* What is put at a time.
LEMMA FewEvents ==
  \A s \in {<<>>, <<"text">>, <<"error">>, <<"done">>, <<"error", "done">>, <<"text", "done">>} :
    s \in Seq(CliEvent) /\ Len(s) <= 2
<1>1. <<>> \in Seq(CliEvent) /\ Len(<<>>) <= 2
  OBVIOUS
<1>2. ASSUME NEW e \in CliEvent PROVE <<e>> \in Seq(CliEvent) /\ Len(<<e>>) <= 2
  OBVIOUS
<1>3. ASSUME NEW e \in CliEvent, NEW f \in CliEvent PROVE <<e, f>> \in Seq(CliEvent) /\ Len(<<e, f>>) <= 2
  OBVIOUS
<1>4. "text" \in CliEvent /\ "error" \in CliEvent /\ "done" \in CliEvent
  BY DEF CliEvent
<1> QED
  BY <1>1, <1>2, <1>3, <1>4, Zenon

\* What a line tells.
LEMMA TellingIs ==
  ASSUME agent \in Clis, Cli!ConstantsAssumption
  PROVE  /\ Telling \in [Cli!Line -> Seq(CliEvent)]
         /\ \A one \in Cli!Line :
              /\ Telling[one] = Cli!EventsOf(one) /\ Len(Telling[one]) <= 2
              /\ agent = "gemini" /\ one \in {"error", "fail"} => Tells(Telling[one])
<1>1. \A one \in Cli!Line : Cli!EventsOf(one) \in {<<>>, <<"text">>, <<"error">>, <<"done">>, <<"error", "done">>}
  BY DEF Cli!EventsOf, Cli!Line, Cli!ConstantsAssumption
<1>2. \A s \in {<<>>, <<"text">>, <<"error">>, <<"done">>, <<"error", "done">>} : s \in Seq(CliEvent) /\ Len(s) <= 2
  BY FewEvents
<1>3. \A one \in Cli!Line : agent = "gemini" /\ one \in {"error", "fail"} =>
        Cli!EventsOf(one) \in {<<"error">>, <<"error", "done">>}
  BY DEF Cli!EventsOf
<1>4. Tells(<<"error">>) /\ Tells(<<"error", "done">>)
  <2>1. 1 \in 1 .. Len(<<"error">>) /\ <<"error">>[1] = "error"
    OBVIOUS
  <2>2. 1 \in 1 .. Len(<<"error", "done">>) /\ <<"error", "done">>[1] = "error"
    OBVIOUS
  <2> QED
    BY <2>1, <2>2 DEF Tells
<1>5. \A one \in Cli!Line : Telling[one] = Cli!EventsOf(one)
  BY DEF Telling
<1>6. Telling = [one \in Cli!Line |-> Telling[one]]
  BY DEF Telling
<1> HIDE DEF Telling
<1>7. \A one \in Cli!Line : Telling[one] \in Seq(CliEvent) /\ Len(Telling[one]) <= 2
  BY <1>1, <1>2, <1>5
<1> QED
  BY <1>3, <1>4, <1>5, <1>6, <1>7

\* What the lines of a sequence tell.
LEMMA TellingEach ==
  ASSUME agent \in Clis, Cli!ConstantsAssumption, NEW s \in Seq(Cli!Line)
  PROVE  /\ Each(Telling, s) \in Seq(CliEvent) /\ Each(Telling, <<>>) = <<>>
         /\ \A one \in Cli!Line : Each(Telling, Append(s, one)) = Each(Telling, s) \o Telling[one]
         /\ \A one \in Cli!Line : Each(Telling, <<one>> \o s) = Telling[one] \o Each(Telling, s)
<1>1. PICK f : f = Telling
  OBVIOUS
<1>2. f \in [Cli!Line -> Seq(CliEvent)]
  BY <1>1, TellingIs
<1>3. /\ Each(f, s) \in Seq(CliEvent) /\ Each(f, <<>>) = <<>>
      /\ \A one \in Cli!Line : Each(f, Append(s, one)) = Each(f, s) \o f[one]
  BY <1>2, EachIs, SMTT(60)
<1>4. \A one \in Cli!Line : Each(f, <<one>> \o s) = f[one] \o Each(f, s)
  BY <1>2, EachFirst, ZenonT(60)
<1> QED
  BY <1>1, <1>3, <1>4

\* An error stays in what is passed on.
LEMMA TellsMoves ==
  ASSUME NEW s \in Seq(CliEvent), NEW t \in Seq(CliEvent), s # <<>>, Tells(s) \/ Tells(t)
  PROVE  Tells(Tail(s)) \/ Tells(Append(t, Head(s)))
<1> DEFINE r == Tail(s)
           a == Append(t, Head(s))
<1>1. /\ Len(r) = Len(s) - 1 /\ \A i \in 1 .. Len(s) - 1 : r[i] = s[i + 1]
      /\ Len(a) = Len(t) + 1 /\ a[Len(t) + 1] = s[1] /\ \A i \in 1 .. Len(t) : a[i] = t[i]
  OBVIOUS
<1> HIDE DEF r, a
<1>2. CASE Tells(t)
  <2>1. PICK i \in 1 .. Len(t) : t[i] = "error"
    BY <1>2 DEF Tells
  <2>2. i \in 1 .. Len(a) /\ a[i] = "error"
    BY <1>1, <2>1
  <2> QED
    BY <2>2 DEF Tells, a
<1>3. CASE Tells(s)
  <2>1. PICK i \in 1 .. Len(s) : s[i] = "error"
    BY <1>3 DEF Tells
  <2>2. CASE i = 1
    <3>1. Len(t) + 1 \in 1 .. Len(a) /\ a[Len(t) + 1] = "error"
      BY <1>1, <2>1, <2>2
    <3> QED
      BY <3>1 DEF Tells, a
  <2>3. CASE i # 1
    <3>1. i - 1 \in 1 .. Len(r) /\ r[i - 1] = "error"
      BY <1>1, <2>1, <2>3
    <3> QED
      BY <3>1 DEF Tells, r
  <2> QED
    BY <2>2, <2>3
<1> QED
  BY <1>2, <1>3

\* There is none in nothing.
LEMMA TellsNot == ~Tells(<<>>)
BY DEF Tells

\* The events of a line stay the same.
LEMMA TellingStays == agent' = agent => Telling' = Telling
BY DEF Telling, Cli!EventsOf

\* The goroutine starts the CLI.
LEMMA CliStarts ==
  ASSUME CliInv, Cli!ConstantsAssumption, Cli!Start
  PROVE  CliInv'
<1> USE DEF Cli!Start
<1>1. Telling' = Telling
  BY TellingStays
<1>2. <<"error">> \in Seq(CliEvent) /\ <<>> \in Seq(CliEvent) /\ Len(<<"error">>) = 1 /\ <<"error">> # <<>> /\ Tells(<<"error">>)
  <2>1. 1 \in 1 .. Len(<<"error">>) /\ <<"error">>[1] = "error"
    OBVIOUS
  <2> QED
    BY <2>1 DEF CliEvent, Tells
<1>3. CliTyped'
  <2>1. CliProcess' /\ CliOutput' /\ CliEvents'
    BY DEF CliInv, CliTyped, CliProcess, CliOutput, CliEvents
  <2>2. CliLoop'
    <3>1. cliTodo = <<>>
      BY DEF CliInv, CliTyped, CliLoop
    <3>2. cliTodo' \in Seq(CliEvent) /\ Len(cliTodo') <= 2 /\ (cliTodo' # <<>> <=> cliPc' = "report")
          /\ cliPc' \in {"read", "report"}
      <4>1. CASE cliPc' = "read" /\ cliTodo' = cliTodo
        BY <1>2, <3>1, <4>1
      <4>2. CASE cliPc' = "report" /\ cliTodo' = <<"error">>
        BY <1>2, <4>2
      <4> QED
        BY <4>1, <4>2
    <3> QED
      BY <3>2 DEF CliInv, CliTyped, CliLoop
  <2> QED
    BY <2>1, <2>2 DEF CliTyped
<1>4. Placed'
  BY DEF CliInv, Placed
<1>5. PassesOn'
  <2>1. cliSaid = <<>> /\ cliProc = "none"
    BY DEF CliInv, Placed
  <2>2. Telling \in [Cli!Line -> Seq(CliEvent)]
    BY TellingIs DEF CliInv, CliTyped, CliProcess
  <2>3. Each(Telling, <<>>) = <<>>
    <3>1. <<>> \in Seq(Cli!Line)
      OBVIOUS
    <3> QED
      BY <2>2, <3>1, EachIs
  <2>4. Sequence!IsPrefix(<<>>, cliPassed)
    BY PrefixOfNone DEF CliInv, CliTyped, CliEvents
  <2>5. CASE cliPc' = "report"
    BY <1>1, <2>1, <2>3, <2>4, <2>5 DEF PassesOn
  <2>6. CASE cliPc' = "read"
    BY <1>1, <2>6 DEF CliInv, PassesOn
  <2> QED
    BY <2>5, <2>6
<1>6. TellsOf'
  BY <1>2 DEF CliInv, TellsOf, Placed, Tells, CliTyped, CliLoop
<1>7. Cli!Reaped'
  BY DEF CliInv, Cli!Reaped
<1> QED
  BY <1>3, <1>4, <1>5, <1>6, <1>7 DEF CliInv

\* A line is read.
LEMMA CliReads ==
  ASSUME CliInv, Cli!ConstantsAssumption, Cli!Read
  PROVE  CliInv'
<1> DEFINE h == Head(cliOutput)
<1>1. /\ cliPc = "read" /\ agent # "hermes" /\ cliOutput # <<>>
      /\ cliTodo' = Cli!EventsOf(h) /\ cliOutput' = Tail(cliOutput)
      /\ cliPc' = IF cliTodo' = <<>> THEN "read" ELSE "emit"
      /\ errors' = (errors \/ (agent = "gemini" /\ h \in {"error", "fail"}))
      /\ UNCHANGED <<agent, cliProc, failed, cliOrphan, cliSaid, cliEvents, cliPassed, cliCancelled>>
  BY DEF Cli!Read
<1>2. Telling' = Telling
  BY <1>1, TellingStays
<1>3. h \in Cli!Line /\ Tail(cliOutput) \in Seq(Cli!Line)
  BY <1>1 DEF CliInv, CliTyped, CliOutput
<1> HIDE DEF h
<1>4. /\ Telling \in [Cli!Line -> Seq(CliEvent)]
      /\ cliTodo' = Telling[h] /\ cliTodo' \in Seq(CliEvent) /\ Len(cliTodo') <= 2
      /\ agent = "gemini" /\ h \in {"error", "fail"} => Tells(cliTodo')
  BY <1>1, <1>3, TellingIs DEF CliInv, CliTyped, CliProcess
<1>5. CliTyped'
  <2>1. Sequence!IsSuffix(Tail(cliOutput), cliSaid)
    BY <1>1, SuffixKept DEF CliInv, CliTyped, CliOutput
  <2>2. CliOutput'
    BY <1>1, <1>3, <2>1 DEF CliInv, CliTyped, CliOutput
  <2>3. CliLoop'
    BY <1>1, <1>4 DEF CliInv, CliTyped, CliLoop
  <2> QED
    BY <1>1, <2>2, <2>3 DEF CliInv, CliTyped, CliProcess, CliEvents
<1>6. Placed'
  BY <1>1 DEF CliInv, Placed
<1>7. PassesOn'
  <2>1. ASSUME ~cliCancelled
        PROVE  (cliPassed \o cliTodo') \o Each(Telling, cliOutput') = Each(Telling, cliSaid)
    <3> DEFINE r == Each(Telling, Tail(cliOutput))
    <3>1. cliTodo = <<>> /\ cliPassed \in Seq(CliEvent) /\ cliOutput \in Seq(Cli!Line)
      BY <1>1 DEF CliInv, CliTyped, CliLoop, CliEvents, CliOutput
    <3>2. (cliPassed \o cliTodo) \o Each(Telling, cliOutput) = Each(Telling, cliSaid)
      BY <1>1, <2>1 DEF CliInv, PassesOn
    <3>3. Each(Telling, cliOutput) = Telling[h] \o r
      <4>1. cliOutput = <<h>> \o Tail(cliOutput)
        BY <1>1, <3>1 DEF h
      <4> QED
        BY <1>3, <4>1, TellingEach DEF CliInv, CliTyped, CliProcess
    <3>4. r \in Seq(CliEvent)
      BY <1>3, <1>4, EachIs
    <3> HIDE DEF r
    <3>5. (cliPassed \o cliTodo') \o r = cliPassed \o (cliTodo' \o r)
      <4>1. cliPassed \in Seq(CliEvent) /\ cliTodo' \in Seq(CliEvent) /\ r \in Seq(CliEvent)
        BY <1>4, <3>1, <3>4
      <4> QED
        BY ONLY <4>1, Associates, SMTT(60)
    <3>6. cliPassed \o cliTodo = cliPassed
      BY <3>1
    <3> QED
      BY <1>1, <1>4, <3>2, <3>3, <3>5, <3>6 DEF r
  <2> QED
    BY <1>1, <1>2, <2>1 DEF PassesOn
<1>8. TellsOf'
  BY <1>1, <1>4, TellsNot DEF CliInv, TellsOf, CliTyped, CliLoop, Tells
<1>9. Cli!Reaped'
  BY <1>1 DEF Cli!Reaped
<1> QED
  BY <1>5, <1>6, <1>7, <1>8, <1>9 DEF CliInv

\* The output ends.
LEMMA CliReadEnds ==
  ASSUME CliInv, Cli!ConstantsAssumption, Cli!ReadEnds
  PROVE  CliInv'
<1> USE DEF Cli!ReadEnds, Cli!cli
<1>1. Telling' = Telling
  BY TellingStays
<1>2. CliTyped'
  BY DEF CliInv, CliTyped, CliProcess, CliOutput, CliEvents, CliLoop
<1>3. Placed'
  BY DEF CliInv, Placed, Cli!PipeEnds
<1>4. PassesOn'
  <2>1. ASSUME ~cliCancelled, agent # "hermes"
        PROVE  Sequence!IsPrefix(Each(Telling, cliSaid), cliPassed)
    <3>1. /\ cliTodo = <<>> /\ cliPassed \in Seq(CliEvent) /\ cliOutput = <<>>
          /\ cliPassed \o <<>> = cliPassed
      BY <2>1 DEF CliInv, CliTyped, CliLoop, CliEvents
    <3>2. (cliPassed \o cliTodo) \o Each(Telling, cliOutput) = Each(Telling, cliSaid)
      BY <2>1 DEF CliInv, PassesOn
    <3>3. Telling \in [Cli!Line -> Seq(CliEvent)] /\ <<>> \in Seq(Cli!Line)
      BY TellingIs DEF CliInv, CliTyped, CliProcess
    <3>4. Each(Telling, <<>>) = <<>>
      BY <3>3, EachIs
    <3>5. Each(Telling, cliSaid) = cliPassed
      BY <3>1, <3>2, <3>4
    <3> QED
      BY <3>1, <3>5, PrefixItself
  <2> QED
    BY <1>1, <2>1 DEF PassesOn
<1>5. TellsOf'
  BY DEF CliInv, TellsOf, Tells
<1>6. Cli!Reaped'
  BY DEF CliInv, Cli!Reaped
<1> QED
  BY <1>2, <1>3, <1>4, <1>5, <1>6 DEF CliInv

\* An event goes into the channel.
LEMMA CliEmits ==
  ASSUME CliInv, Cli!ConstantsAssumption, Cli!Emit
  PROVE  CliInv'
<1> DEFINE h == Head(cliTodo)
           r == Tail(cliTodo)
<1>1. /\ cliPc \in {"emit", "report"} /\ Len(cliEvents) < CliCapacity
      /\ cliEvents' = Append(cliEvents, h) /\ cliPassed' = Append(cliPassed, h) /\ cliTodo' = r
      /\ cliPc' = IF r # <<>> THEN cliPc ELSE IF cliPc = "emit" THEN "read" ELSE "ended"
      /\ UNCHANGED <<agent, cliProc, failed, cliOrphan, cliOutput, cliSaid, errors, cliCancelled>>
  BY DEF Cli!Emit, Cli!cli
<1>2. Telling' = Telling
  BY <1>1, TellingStays
<1>3. /\ cliTodo \in Seq(CliEvent) /\ cliTodo # <<>> /\ Len(cliTodo) <= 2
      /\ cliPassed \in Seq(CliEvent) /\ cliEvents \in Seq(CliEvent)
  BY <1>1 DEF CliInv, CliTyped, CliLoop, CliEvents
<1>4. h \in CliEvent /\ r \in Seq(CliEvent) /\ Len(r) <= 2 /\ Append(cliPassed, h) \in Seq(CliEvent)
      /\ Append(cliEvents, h) \in Seq(CliEvent) /\ Len(Append(cliEvents, h)) = Len(cliEvents) + 1
  BY <1>3
<1>5. Append(cliPassed, h) \o r = cliPassed \o cliTodo
  BY <1>3, SMTT(60)
<1>a. Tells(cliPassed) \/ Tells(cliTodo) => Tells(Append(cliPassed, h)) \/ Tells(r)
  BY <1>3, TellsMoves
<1> HIDE DEF h, r
<1>6. CliTyped'
  <2>1. Sequence!IsSuffix(Append(cliEvents, h), Append(cliPassed, h))
    BY <1>3, <1>4, SuffixKept DEF CliInv, CliTyped, CliEvents
  <2>2. Len(cliEvents') <= CliCapacity
    BY <1>1, <1>3, <1>4 DEF Cli!ConstantsAssumption
  <2>3. CliEvents'
    BY <1>1, <1>4, <2>1, <2>2 DEF CliEvents
  <2>4. CliLoop'
    BY <1>1, <1>4 DEF CliInv, CliTyped, CliLoop
  <2> QED
    BY <1>1, <2>3, <2>4 DEF CliInv, CliTyped, CliProcess, CliOutput
<1>7. Placed'
  BY <1>1 DEF CliInv, Placed
<1>8. PassesOn'
  <2>1. CASE cliPc = "emit"
    <3>1. cliPc' \notin {"wait", "report", "ended"}
      BY <1>1, <2>1
    <3>2. ~cliCancelled /\ agent # "hermes" => (cliPassed \o cliTodo) \o Each(Telling, cliOutput) = Each(Telling, cliSaid)
      BY <2>1 DEF CliInv, PassesOn
    <3> QED
      BY <1>1, <1>2, <1>5, <3>1, <3>2 DEF PassesOn
  <2>2. CASE cliPc = "report"
    <3>1. cliPc' \in {"report", "ended"}
      BY <1>1, <2>2
    <3>2. ASSUME ~cliCancelled, agent # "hermes"
          PROVE  Sequence!IsPrefix(Each(Telling, cliSaid), Append(cliPassed, h))
      <4>1. Sequence!IsPrefix(Each(Telling, cliSaid), cliPassed)
        BY <2>2, <3>2 DEF CliInv, PassesOn
      <4>2. Telling \in [Cli!Line -> Seq(CliEvent)]
        BY TellingIs DEF CliInv, CliTyped, CliProcess
      <4>3. Each(Telling, cliSaid) \in Seq(CliEvent)
        BY <4>2, EachIs DEF CliInv, CliTyped, CliOutput
      <4> QED
        BY <1>3, <1>4, <4>1, <4>3, PrefixKept
    <3> QED
      BY <1>1, <1>2, <3>1, <3>2 DEF PassesOn
  <2> QED
    BY <1>1, <2>1, <2>2
<1>9. TellsOf'
  <2>1. Tells(cliPassed') \/ Tells(cliTodo') <=> Tells(Append(cliPassed, h)) \/ Tells(r)
    BY <1>1
  <2>2. cliPc' = "ended" => r = <<>> /\ cliPc = "report"
    BY <1>1
  <2> QED
    BY <1>1, <1>a, <2>1, <2>2, TellsNot DEF CliInv, TellsOf, Tells
<1>10. Cli!Reaped'
  BY <1>1 DEF CliInv, Placed, Cli!Reaped
<1> QED
  BY <1>6, <1>7, <1>8, <1>9, <1>10 DEF CliInv

\* An event is given up.
LEMMA CliGivesUp ==
  ASSUME CliInv, Cli!ConstantsAssumption, Cli!EmitCancelled
  PROVE  CliInv'
<1> USE DEF Cli!EmitCancelled, Cli!cli
<1>1. <<>> \in Seq(CliEvent) /\ Len(<<>>) = 0
  OBVIOUS
<1>2. CliTyped'
  BY <1>1 DEF CliInv, CliTyped, CliProcess, CliOutput, CliEvents, CliLoop
<1>3. Placed' /\ PassesOn' /\ TellsOf'
  BY DEF CliInv, Placed, PassesOn, TellsOf
<1>4. Cli!Reaped'
  BY DEF CliInv, Placed, Cli!Reaped, Cli!ConstantsAssumption
<1> QED
  BY <1>2, <1>3, <1>4 DEF CliInv

\* The process is waited for.
LEMMA CliWaits ==
  ASSUME CliInv, Cli!ConstantsAssumption, Cli!Wait
  PROVE  CliInv'
<1>1. /\ cliPc = "wait" /\ cliProc \in {"gone", "reaped"} /\ cliProc' = "reaped"
      /\ cliTodo' = Cli!Report /\ cliPc' = IF Cli!Report = <<>> THEN "ended" ELSE "report"
      /\ UNCHANGED <<agent, failed, cliOrphan, cliOutput, cliSaid, errors, cliEvents, cliPassed, cliCancelled>>
  BY DEF Cli!Wait, Cli!PipeEnds
<1>2. agent \in {"claude", "gemini", "codex", "hermes"} /\ cliTodo = <<>>
  BY <1>1 DEF CliInv, CliTyped, CliProcess, CliLoop, Cli!ConstantsAssumption
<1>3. /\ Cli!Report \in {<<>>, <<"error">>, <<"done">>, <<"text", "done">>}
      /\ failed /\ ~cliCancelled /\ ~errors => Cli!Report = <<"error">>
  BY <1>2 DEF Cli!Report, Cli!Whole
<1>4. \A s \in {<<>>, <<"error">>, <<"done">>, <<"text", "done">>} : s \in Seq(CliEvent) /\ Len(s) <= 2
  BY FewEvents
<1>5. Tells(<<"error">>)
  <2>1. 1 \in 1 .. Len(<<"error">>) /\ <<"error">>[1] = "error"
    OBVIOUS
  <2> QED
    BY <2>1 DEF Tells
<1>6. /\ cliTodo' \in Seq(CliEvent) /\ Len(cliTodo') <= 2 /\ cliPc' = IF cliTodo' = <<>> THEN "ended" ELSE "report"
      /\ failed /\ ~cliCancelled /\ ~errors => Tells(cliTodo') /\ cliPc' # "ended"
  <2>1. <<"error">> # <<>>
    OBVIOUS
  <2> QED
    BY <1>1, <1>3, <1>4, <1>5, <2>1
<1>7. CliTyped'
  BY <1>1, <1>6 DEF CliInv, CliTyped, CliProcess, CliOutput, CliEvents, CliLoop
<1>8. Placed'
  BY <1>1, <1>6 DEF CliInv, Placed
<1>9. PassesOn'
  <2>1. Telling' = Telling
    BY <1>1, TellingStays
  <2> QED
    BY <1>1, <1>6, <2>1 DEF CliInv, PassesOn
<1>10. TellsOf'
  <2>1. Tells(cliPassed)' <=> Tells(cliPassed)
    BY <1>1 DEF Tells
  <2>2. ~Tells(cliTodo)
    BY <1>2, TellsNot
  <2>3. Tells(cliTodo)' <=> Tells(cliTodo')
    BY DEF Tells
  <2> QED
    BY <1>1, <1>6, <2>1, <2>2, <2>3 DEF CliInv, TellsOf
<1>11. Cli!Reaped'
  BY <1>1 DEF Cli!Reaped
<1> QED
  BY <1>7, <1>8, <1>9, <1>10, <1>11 DEF CliInv

\* The goroutine reaps the CLI after a cancellation.
LEMMA CliReaps ==
  ASSUME CliInv, Cli!ConstantsAssumption, Cli!Reap
  PROVE  CliInv'
<1> USE DEF Cli!Reap, Cli!PipeEnds
<1>1. cliCancelled /\ cliCancelled'
  BY DEF CliInv, Placed
<1>2. CliTyped'
  BY DEF CliInv, CliTyped, CliProcess, CliOutput, CliEvents, CliLoop
<1>3. Placed' /\ PassesOn' /\ TellsOf'
  BY <1>1 DEF CliInv, Placed, PassesOn, TellsOf
<1>4. Cli!Reaped'
  BY DEF Cli!Reaped
<1> QED
  BY <1>2, <1>3, <1>4 DEF CliInv

\* The router takes an event, or cancels the turn.
LEMMA CliRouter ==
  ASSUME CliInv, Cli!ConstantsAssumption, Cli!Take \/ Cli!Cancel
  PROVE  CliInv'
<1> USE DEF Cli!cli
<1>1. CASE Cli!Take
  <2> USE <1>1 DEF Cli!Take
  <2>1. Telling' = Telling
    BY TellingStays
  <2>2. /\ cliEvents # <<>> /\ cliEvents \in Seq(CliEvent) /\ Sequence!IsSuffix(cliEvents, cliPassed)
        /\ cliPassed \in Seq(CliEvent) /\ Len(cliEvents) <= CliCapacity
    BY DEF CliInv, CliTyped, CliEvents
  <2>3. Tail(cliEvents) \in Seq(CliEvent) /\ Len(Tail(cliEvents)) <= CliCapacity
    BY <2>2 DEF Cli!ConstantsAssumption
  <2>4. Sequence!IsSuffix(Tail(cliEvents), cliPassed)
    BY <2>2, SuffixKept
  <2>5. CliTyped'
    BY <2>2, <2>3, <2>4 DEF CliInv, CliTyped, CliProcess, CliOutput, CliEvents, CliLoop
  <2> QED
    BY <2>1, <2>5 DEF CliInv, Placed, PassesOn, TellsOf, Tells, Cli!Reaped
<1>2. CASE Cli!Cancel
  BY <1>2 DEF Cli!Cancel, CliInv, CliTyped, CliProcess, CliOutput, CliEvents, CliLoop, Placed, PassesOn,
     TellsOf, Cli!Reaped
<1> QED
  BY <1>1, <1>2

\* The CLI writes a line.
LEMMA CliSays ==
  ASSUME CliInv, Cli!ConstantsAssumption, NEW one \in Cli!Line, Cli!Says(one)
  PROVE  CliInv'
<1>1. /\ cliProc = "up" /\ Len(cliSaid) < Lines
      /\ cliOutput' = Append(cliOutput, one) /\ cliSaid' = Append(cliSaid, one)
      /\ UNCHANGED <<agent, cliProc, failed, cliOrphan, cliPc, cliTodo, errors, cliEvents, cliPassed, cliCancelled>>
  BY DEF Cli!Says
<1>2. Telling' = Telling /\ Telling \in [Cli!Line -> Seq(CliEvent)]
  BY <1>1, TellingStays, TellingIs DEF CliInv, CliTyped, CliProcess
<1>3. cliOutput \in Seq(Cli!Line) /\ cliSaid \in Seq(Cli!Line) /\ Sequence!IsSuffix(cliOutput, cliSaid)
  BY DEF CliInv, CliTyped, CliOutput
<1>4. CliTyped'
  <2>1. Sequence!IsSuffix(Append(cliOutput, one), Append(cliSaid, one))
    BY <1>3, SuffixKept
  <2>2. Append(cliOutput, one) \in Seq(Cli!Line) /\ Append(cliSaid, one) \in Seq(Cli!Line)
        /\ Len(Append(cliSaid, one)) <= Lines
    BY <1>1, <1>3 DEF Cli!ConstantsAssumption
  <2>3. CliOutput'
    BY <1>1, <2>1, <2>2 DEF CliOutput
  <2> QED
    BY <1>1, <2>3 DEF CliInv, CliTyped, CliProcess, CliEvents, CliLoop
<1>5. Placed'
  BY <1>1 DEF CliInv, Placed
<1>6. PassesOn'
  <2>1. ASSUME ~cliCancelled, agent # "hermes"
        PROVE  (cliPassed \o cliTodo) \o Each(Telling, Append(cliOutput, one)) = Each(Telling, Append(cliSaid, one))
    <3> DEFINE a == cliPassed \o cliTodo
               b == Each(Telling, cliOutput)
               c == Telling[one]
    <3>1. a \o b = Each(Telling, cliSaid)
      BY <1>1, <2>1 DEF CliInv, PassesOn, Placed
    <3>2. Each(Telling, Append(cliOutput, one)) = b \o c /\ Each(Telling, Append(cliSaid, one)) = Each(Telling, cliSaid) \o c
          /\ b \in Seq(CliEvent)
      BY <1>3, TellingEach DEF CliInv, CliTyped, CliProcess
    <3>3. a \in Seq(CliEvent) /\ c \in Seq(CliEvent)
      BY <1>2 DEF CliInv, CliTyped, CliEvents, CliLoop
    <3> HIDE DEF a, b, c
    <3>4. (a \o b) \o c = a \o (b \o c)
      BY <3>2, <3>3, Associates, SMTT(60)
    <3> QED
      BY <3>1, <3>2, <3>4 DEF a
  <2>2. ~cliCancelled => cliPc \notin {"wait", "report", "ended"}
    BY <1>1 DEF CliInv, Placed
  <2> QED
    BY <1>1, <1>2, <2>1, <2>2 DEF PassesOn
<1>7. TellsOf' /\ Cli!Reaped'
  BY <1>1 DEF CliInv, TellsOf, Tells, Cli!Reaped
<1> QED
  BY <1>4, <1>5, <1>6, <1>7 DEF CliInv

\* The CLI ends.
LEMMA CliExits ==
  ASSUME CliInv, Cli!ConstantsAssumption, NEW bad \in BOOLEAN, Cli!Exits(bad)
  PROVE  CliInv'
<1> USE DEF Cli!Exits
<1>1. Telling' = Telling
  BY TellingStays
<1>2. CliTyped'
  BY DEF CliInv, CliTyped, CliProcess, CliOutput, CliEvents, CliLoop, Cli!ConstantsAssumption
<1>3. Placed'
  BY DEF CliInv, Placed
<1>4. PassesOn'
  BY <1>1 DEF CliInv, PassesOn
<1>5. TellsOf'
  BY DEF CliInv, TellsOf, Tells, Placed
<1>6. Cli!Reaped'
  BY DEF CliInv, Cli!Reaped
<1> QED
  BY <1>2, <1>3, <1>4, <1>5, <1>6 DEF CliInv

\* Every step keeps the invariant.
LEMMA CliKept ==
  ASSUME CliInv, Cli!ConstantsAssumption, [Cli!Next]_cliVars
  PROVE  CliInv'
<1>1. CASE UNCHANGED cliVars
  BY <1>1, TellingStays DEF cliVars, CliInv, CliTyped, CliProcess, CliOutput, CliEvents, CliLoop, Placed, PassesOn,
     TellsOf, Tells, Cli!Reaped
<1>2. CASE Cli!Killed
  BY <1>2, CliExits DEF Cli!Killed
<1> QED
  BY <1>1, <1>2, CliStarts, CliReads, CliReadEnds, CliEmits, CliGivesUp, CliWaits, CliReaps, CliRouter, CliSays, CliExits
  DEF Cli!Next, Cli!Goroutine

\* It holds at first.
LEMMA CliStart ==
  ASSUME Cli!ConstantsAssumption, Cli!Init
  PROVE  CliInv
<1> USE DEF Cli!Init
<1>1. <<>> \in Seq(CliEvent) /\ <<>> \in Seq(Cli!Line) /\ Len(<<>>) = 0
  OBVIOUS
<1>2. Sequence!IsSuffix(<<>>, <<>>)
  <2>1. EndsWith(<<>>, <<>>)
    BY <1>1 DEF EndsWith
  <2> QED
    BY <1>1, <2>1, SuffixIs
<1>3. CliTyped
  <2>1. CliProcess
    BY DEF CliProcess
  <2>2. CliOutput /\ CliEvents
    BY <1>1, <1>2 DEF CliOutput, CliEvents, Cli!ConstantsAssumption
  <2>3. CliLoop
    <3>1. cliTodo \in Seq(CliEvent) /\ cliTodo = <<>> /\ Len(cliTodo) <= 2 /\ cliPc \in {"start", "read"}
      BY <1>1
    <3> QED
      BY <3>1 DEF CliLoop
  <2> QED
    BY <2>1, <2>2, <2>3 DEF CliTyped
<1>4. Placed /\ TellsOf /\ Cli!Reaped
  BY DEF Placed, TellsOf, Cli!Reaped
<1>5. PassesOn
  <2>1. Telling \in [Cli!Line -> Seq(CliEvent)]
    BY TellingIs
  <2>2. Each(Telling, <<>>) = <<>>
    BY <1>1, <2>1, EachIs
  <2>3. (<<>> \o <<>>) \o <<>> = <<>>
    OBVIOUS
  <2>4. cliPc \notin {"wait", "report", "ended"} /\ cliPassed = <<>> /\ cliTodo = <<>> /\ cliOutput = <<>> /\ cliSaid = <<>>
    OBVIOUS
  <2> QED
    BY <2>2, <2>3, <2>4 DEF PassesOn
<1> QED
  BY <1>3, <1>4, <1>5 DEF CliInv

\* What it says of a turn.
LEMMA CliEnds ==
  ASSUME CliInv, Cli!ConstantsAssumption
  PROVE  Cli!TypeOK /\ Cli!PassedWhole /\ Cli!FailureTold /\ Cli!Reaped
<1>1. Cli!TypeOK
  BY CliTypeOK DEF CliInv
<1>2. Cli!PassedWhole
  <2>1. [i \in 1 .. Len(cliSaid) |-> Cli!EventsOf(cliSaid[i])] = [i \in 1 .. Len(cliSaid) |-> Telling[cliSaid[i]]]
    BY DEF Telling, CliInv, CliTyped, CliOutput
  <2>2. \A s : Cli!FlattenSeq(s) = Sequence!FlattenSeq(s)
    BY DEF Cli!FlattenSeq, Sequence!FlattenSeq
  <2>3. \A s, t : Cli!IsPrefix(s, t) <=> Sequence!IsPrefix(s, t)
    BY DEF Cli!IsPrefix, Sequence!IsPrefix
  <2> QED
    BY <2>1, <2>2, <2>3 DEF CliInv, PassesOn, Each, Cli!PassedWhole
<1>3. Cli!FailureTold
  BY DEF CliInv, TellsOf, Tells, Cli!FailureTold
<1> QED
  BY <1>1, <1>2, <1>3 DEF CliInv

-----------------------------------------------------------------------------
(* A turn on an app server of codex *)

\* What is on its way: messages, and events.
TurnMsg ==
  [what : {"response", "refusal", "delta", "item", "completed", "failed", "session", "done", "error"},
   n : Nat]
TurnEnds == {"item", "completed", "failed", "done"}
TurnRequests == {"none", "init", "thread", "turn"}

TurnCore ==
  /\ via \in {"stdio", "websocket", "cli"} /\ request \in TurnRequests /\ inputs \in Nat
  /\ app \in [up : BOOLEAN, replies : TurnRequests, turn : {"no", "runs", "over"}]
TurnWire == appSaid \in Nat /\ appSaid <= TurnDeltas /\ wire \in Seq(TurnMsg)
TurnReader ==
  /\ appReader \in {"none", "read", "put", "close", "ended"} /\ (appReader = "put" => held \in TurnMsg)
  /\ messages \in Seq(TurnMsg) /\ Len(messages) <= MsgCapacity /\ readErr \in BOOLEAN
TurnLoop ==
  /\ pc \in {"start", "init", "thread", "turn", "failed", "stream", "report", "ended"}
  /\ closed \in BOOLEAN /\ appDeltaSeen \in BOOLEAN /\ appCancelled \in BOOLEAN
  /\ aside \in Seq(TurnMsg) /\ todo \in Seq(TurnMsg) /\ Len(todo) <= 2
TurnEvents ==
  /\ passed \in Seq(TurnMsg) /\ appEvents \in Seq(TurnMsg) /\ Len(appEvents) <= TurnCapacity
  /\ Sequence!IsSuffix(appEvents, passed)
TurnData == TurnWire /\ TurnReader /\ TurnLoop /\ TurnEvents

\* Outside a turn there is no app server.
AppDown == pc \in {"start", "failed", "ended"} => ~app.up

\* Each app server is given the input once at most: the third request asks for it, and it is
\* given when that is read.
Asked == IF request = "turn" THEN 1 ELSE 0
Before == IF via = "stdio" THEN 0 ELSE 1
GivenOnce ==
  /\ inputs <= Before + 1
  /\ app.up => inputs + Asked <= Before + 1
  /\ pc \in {"start", "init", "thread"} => inputs <= Before
  /\ pc \in {"init", "thread"} => request # "turn"

\* In s are the deltas from a + 1 to b, in their order, of the n that have been said, and
\* none after what ends the answer.
IsDelta(m) == m.what = "delta"
Chain(s, a, b, n) ==
  /\ a \in Nat /\ b \in Nat /\ a <= b /\ b <= n
  /\ \A i \in 1 .. Len(s) : IsDelta(s[i]) => a < s[i].n /\ s[i].n <= b
  /\ \A i, j \in 1 .. Len(s) : IsDelta(s[i]) /\ IsDelta(s[j]) /\ i < j => s[i].n < s[j].n
  /\ \A k \in Nat : a < k /\ k <= b => \E i \in 1 .. Len(s) : s[i] = Turn!Message("delta", k)
  /\ \A i \in 1 .. Len(s) : s[i].what \in TurnEnds => b = n
  /\ \A i, j \in 1 .. Len(s) : s[i].what \in TurnEnds /\ i < j => ~IsDelta(s[j])
NoEnd(s) == \A i \in 1 .. Len(s) : s[i].what \notin TurnEnds
HasItem(s) == \E i \in 1 .. Len(s) : s[i].what = "item"

InHand == IF appReader = "put" THEN <<held>> ELSE <<>>
Flows(a, b, c, d, e) ==
  /\ Chain(passed, 0, a, appSaid) /\ Chain(todo, a, b, appSaid) /\ Chain(aside, b, c, appSaid)
  /\ Chain(messages, c, d, appSaid) /\ Chain(InHand, d, e, appSaid) /\ Chain(wire, e, appSaid, appSaid)
  /\ ~appDeltaSeen => b = 0
NoEnds ==
  NoEnd(passed) /\ NoEnd(todo) /\ NoEnd(aside) /\ NoEnd(messages) /\ NoEnd(InHand) /\ NoEnd(wire)

\* Before the turn there is nothing to pass on.
Fresh ==
  /\ pc \in {"start", "init", "thread", "turn", "failed"} => passed = <<>> /\ todo = <<>> /\ ~appDeltaSeen
\* While there is an app server: the deltas flow, until the answer has ended.
Live == pc \in {"init", "thread", "turn", "stream", "report"}
Flowing ==
  Live =>
    /\ \E a, b, c, d, e \in Nat : Flows(a, b, c, d, e)
    /\ pc \in {"init", "thread"} \/ request = "turn" => app.turn = "no" /\ appSaid = 0 /\ NoEnds
    /\ app.turn = "runs" => NoEnds
\* What has been passed on.
PassedOn ==
  /\ \E a \in Nat : Chain(passed, 0, a, appSaid)
  /\ HasItem(passed) \/ HasItem(todo) => appSaid = 0

TurnBase == TurnCore /\ AppDown /\ GivenOnce
TurnInv == TurnBase /\ TurnData /\ Fresh /\ Flowing /\ PassedOn

---------------------------------------------------------------------------
(* Deltas in order *)

\* A chain of nothing.
LEMMA ChainNone ==
  /\ \A a, n \in Nat : a <= n => Chain(<<>>, a, a, n)
  /\ \A a, b, n : Chain(<<>>, a, b, n) => a = b
BY DEF Chain

\* One message, or two.
LEMMA FewMessages ==
  /\ <<>> \in Seq(TurnMsg) /\ Len(<<>>) = 0
  /\ \A m \in TurnMsg : <<m>> \in Seq(TurnMsg) /\ Len(<<m>>) = 1 /\ <<m>>[1] = m
  /\ \A m, k \in TurnMsg : <<m, k>> \in Seq(TurnMsg) /\ Len(<<m, k>>) = 2 /\ <<m, k>>[1] = m /\ <<m, k>>[2] = k
<1>1. <<>> \in Seq(TurnMsg) /\ Len(<<>>) = 0
  OBVIOUS
<1>2. ASSUME NEW m \in TurnMsg PROVE <<m>> \in Seq(TurnMsg) /\ Len(<<m>>) = 1 /\ <<m>>[1] = m
  OBVIOUS
<1>3. ASSUME NEW m \in TurnMsg, NEW k \in TurnMsg
      PROVE  <<m, k>> \in Seq(TurnMsg) /\ Len(<<m, k>>) = 2 /\ <<m, k>>[1] = m /\ <<m, k>>[2] = k
  OBVIOUS
<1> QED
  BY <1>1, <1>2, <1>3, Zenon

\* The parts of a sequence.
LEMMA Ended1 ==
  ASSUME NEW s \in Seq(TurnMsg), NEW x \in TurnMsg
  PROVE  /\ Append(s, x) \in Seq(TurnMsg) /\ Len(Append(s, x)) = Len(s) + 1 /\ Len(s) \in Nat
         /\ \A i \in 1 .. Len(s) : Append(s, x)[i] = s[i]
         /\ Append(s, x)[Len(s) + 1] = x
OBVIOUS

\* The first message and the rest.
LEMMA Begun1 ==
  ASSUME NEW t \in Seq(TurnMsg), t # <<>>
  PROVE  /\ Head(t) \in TurnMsg /\ Head(t) = t[1] /\ Tail(t) \in Seq(TurnMsg) /\ Len(Tail(t)) = Len(t) - 1
         /\ Len(t) \in Nat /\ Len(t) > 0
         /\ \A i \in 1 .. Len(t) - 1 : Tail(t)[i] = t[i + 1]
OBVIOUS

\* What is neither a delta nor an end changes nothing.
LEMMA ChainAppend ==
  ASSUME NEW s \in Seq(TurnMsg), NEW x \in TurnMsg, NEW a, NEW b, NEW n \in Nat,
         Chain(s, a, b, n), ~IsDelta(x), x.what \in TurnEnds => b = n
  PROVE  Chain(Append(s, x), a, b, n)
<1> DEFINE r == Append(s, x)
<1>1. /\ Len(r) = Len(s) + 1 /\ Len(s) \in Nat
      /\ \A i \in 1 .. Len(s) : r[i] = s[i]
      /\ r[Len(s) + 1] = x
  BY Ended1
<1> HIDE DEF r
<1>2. a \in Nat /\ b \in Nat /\ a <= b /\ b <= n
  BY DEF Chain
<1>3. ASSUME NEW i \in 1 .. Len(r), IsDelta(r[i]) PROVE i \in 1 .. Len(s) /\ r[i] = s[i]
  BY <1>1, <1>3
<1>4. \A i \in 1 .. Len(r) : IsDelta(r[i]) => a < r[i].n /\ r[i].n <= b
  BY <1>3 DEF Chain
<1>5. \A i, j \in 1 .. Len(r) : IsDelta(r[i]) /\ IsDelta(r[j]) /\ i < j => r[i].n < r[j].n
  BY <1>3 DEF Chain
<1>6. ASSUME NEW k \in Nat, a < k, k <= b PROVE \E i \in 1 .. Len(r) : r[i] = Turn!Message("delta", k)
  <2>1. PICK i \in 1 .. Len(s) : s[i] = Turn!Message("delta", k)
    BY <1>6 DEF Chain
  <2>2. i \in 1 .. Len(r) /\ r[i] = Turn!Message("delta", k)
    BY <1>1, <2>1
  <2> QED
    BY <2>2
<1>7. ASSUME NEW i \in 1 .. Len(r), r[i].what \in TurnEnds PROVE b = n
  <2>1. CASE i = Len(s) + 1
    BY <1>1, <1>7, <2>1
  <2>2. CASE i \in 1 .. Len(s)
    BY <1>1, <1>7, <2>2 DEF Chain
  <2> QED
    BY <1>1, <2>1, <2>2
<1>8. ASSUME NEW i \in 1 .. Len(r), NEW j \in 1 .. Len(r), r[i].what \in TurnEnds, i < j PROVE ~IsDelta(r[j])
  <2>1. CASE IsDelta(r[j])
    <3>1. j \in 1 .. Len(s) /\ r[j] = s[j]
      BY <1>3, <2>1
    <3>2. i \in 1 .. Len(s) /\ r[i] = s[i]
      BY <1>1, <1>8, <3>1
    <3> QED
      BY <1>8, <2>1, <3>1, <3>2 DEF Chain
  <2> QED
    BY <2>1
<1> QED
  BY <1>2, <1>4, <1>5, <1>6, <1>7, <1>8 DEF Chain, r

\* The next delta makes the chain longer.
LEMMA ChainDelta ==
  ASSUME NEW s \in Seq(TurnMsg), NEW x \in TurnMsg, NEW a, NEW b, NEW n \in Nat,
         Chain(s, a, b, n), x = Turn!Message("delta", b + 1), b + 1 <= n
  PROVE  Chain(Append(s, x), a, b + 1, n)
<1> DEFINE r == Append(s, x)
<1>1. /\ Len(r) = Len(s) + 1 /\ Len(s) \in Nat
      /\ \A i \in 1 .. Len(s) : r[i] = s[i]
      /\ r[Len(s) + 1] = x
  BY Ended1
<1> HIDE DEF r
<1>2. a \in Nat /\ b \in Nat /\ a <= b /\ b <= n
  BY DEF Chain
<1>3. IsDelta(x) /\ x.n = b + 1 /\ x.what \notin TurnEnds
  BY DEF Turn!Message, IsDelta, TurnEnds
<1>4. ASSUME NEW i \in 1 .. Len(r) PROVE (i \in 1 .. Len(s) /\ r[i] = s[i]) \/ (i = Len(s) + 1 /\ r[i] = x)
  BY <1>1
<1>5. ASSUME NEW i \in 1 .. Len(s) PROVE s[i].what \notin TurnEnds
  BY <1>2 DEF Chain
<1>6. ASSUME NEW i \in 1 .. Len(s), IsDelta(s[i]) PROVE a < s[i].n /\ s[i].n <= b /\ s[i].n \in Nat
  <2>1. s[i] \in TurnMsg
    OBVIOUS
  <2>2. s[i].n \in Nat
    BY <2>1 DEF TurnMsg
  <2> QED
    BY <1>6, <2>2 DEF Chain
<1>7. \A i \in 1 .. Len(r) : IsDelta(r[i]) => a < r[i].n /\ r[i].n <= b + 1
  BY <1>2, <1>3, <1>4, <1>6
<1>8. ASSUME NEW i \in 1 .. Len(r), NEW j \in 1 .. Len(r), IsDelta(r[i]), IsDelta(r[j]), i < j
      PROVE  r[i].n < r[j].n
  <2>1. i \in 1 .. Len(s) /\ r[i] = s[i]
    BY <1>1, <1>4, <1>8
  <2>2. CASE j \in 1 .. Len(s) /\ r[j] = s[j]
    BY <1>8, <2>1, <2>2 DEF Chain
  <2>3. CASE r[j] = x
    BY <1>2, <1>3, <1>6, <1>8, <2>1, <2>3
  <2> QED
    BY <1>4, <2>2, <2>3
<1>9. ASSUME NEW k \in Nat, a < k, k <= b + 1 PROVE \E i \in 1 .. Len(r) : r[i] = Turn!Message("delta", k)
  <2>1. CASE k = b + 1
    <3>1. Len(s) + 1 \in 1 .. Len(r) /\ r[Len(s) + 1] = Turn!Message("delta", k)
      BY <1>1, <2>1
    <3> QED
      BY <3>1
  <2>2. CASE k <= b
    <3>1. PICK i \in 1 .. Len(s) : s[i] = Turn!Message("delta", k)
      BY <1>9, <2>2 DEF Chain
    <3>2. i \in 1 .. Len(r) /\ r[i] = Turn!Message("delta", k)
      BY <1>1, <3>1
    <3> QED
      BY <3>2
  <2> QED
    BY <1>2, <1>9, <2>1, <2>2
<1>10. \A i \in 1 .. Len(r) : r[i].what \notin TurnEnds
  BY <1>3, <1>4, <1>5
<1>11. b + 1 \in Nat /\ a <= b + 1
  BY <1>2
<1>12. Chain(r, a, b + 1, n)
  BY <1>2, <1>7, <1>8, <1>9, <1>10, <1>11, Zenon DEF Chain
<1> QED
  BY <1>12 DEF r

\* The first of a chain, and the rest.
LEMMA ChainRest ==
  ASSUME NEW t \in Seq(TurnMsg), NEW b, NEW c, NEW n \in Nat, Chain(t, b, c, n), t # <<>>
  PROVE  \/ ~IsDelta(Head(t)) /\ Chain(Tail(t), b, c, n) /\ (Head(t).what \in TurnEnds => b = n)
         \/ Head(t) = Turn!Message("delta", b + 1) /\ b + 1 <= n /\ Chain(Tail(t), b + 1, c, n)
<1> DEFINE h == Head(t)
           r == Tail(t)
<1>1. /\ h \in TurnMsg /\ h = t[1] /\ Len(r) = Len(t) - 1 /\ Len(t) \in Nat /\ Len(t) > 0
      /\ \A i \in 1 .. Len(t) - 1 : r[i] = t[i + 1]
  BY Begun1
<1> HIDE DEF h, r
<1>2. b \in Nat /\ c \in Nat /\ b <= c /\ c <= n
  BY DEF Chain
<1>3. ASSUME NEW i \in 1 .. Len(r) PROVE i + 1 \in 1 .. Len(t) /\ r[i] = t[i + 1] /\ 1 < i + 1
  BY <1>1
<1>4. ASSUME NEW i \in 2 .. Len(t) PROVE i - 1 \in 1 .. Len(r) /\ r[i - 1] = t[i]
  <2>1. i - 1 \in 1 .. Len(r) /\ (i - 1) + 1 = i
    BY <1>1
  <2> QED
    BY <1>3, <2>1
<1>5. 1 \in 1 .. Len(t)
  BY <1>1
<1>6. \A i, j \in 1 .. Len(r) : IsDelta(r[i]) /\ IsDelta(r[j]) /\ i < j => r[i].n < r[j].n
  BY <1>3 DEF Chain
<1>7. \A i \in 1 .. Len(r) : r[i].what \in TurnEnds => c = n
  BY <1>3 DEF Chain
<1>8. \A i, j \in 1 .. Len(r) : r[i].what \in TurnEnds /\ i < j => ~IsDelta(r[j])
  BY <1>3 DEF Chain
<1>9. CASE IsDelta(h)
  <2>1. b < h.n /\ h.n <= c /\ h.n \in Nat
    BY <1>1, <1>5, <1>9 DEF Chain, TurnMsg
  <2>2. b + 1 \in Nat /\ b < b + 1 /\ b + 1 <= c
    BY <1>2, <2>1
  <2>3. PICK i \in 1 .. Len(t) : t[i] = Turn!Message("delta", b + 1)
    BY <2>2 DEF Chain
  <2>4. i = 1
    <3>1. IsDelta(t[i]) /\ t[i].n = b + 1
      BY <2>3 DEF IsDelta, Turn!Message
    <3>2. CASE 1 < i
      <4>1. t[1].n < t[i].n
        BY <1>1, <1>5, <1>9, <3>1, <3>2 DEF Chain
      <4> QED
        BY <1>1, <1>2, <2>1, <3>1, <4>1
    <3> QED
      BY <3>2
  <2>5. h = Turn!Message("delta", b + 1)
    BY <1>1, <2>3, <2>4
  <2>6. h.n = b + 1
    BY <2>5 DEF Turn!Message
  <2>7. ASSUME NEW j \in 1 .. Len(r), IsDelta(r[j]) PROVE b + 1 < r[j].n /\ r[j].n <= c
    <3>1. t[1].n < t[j + 1].n /\ t[j + 1].n <= c
      BY <1>1, <1>3, <1>5, <1>9, <2>7 DEF Chain
    <3> QED
      BY <1>1, <1>3, <2>6, <3>1
  <2>8. ASSUME NEW k \in Nat, b + 1 < k, k <= c PROVE \E j \in 1 .. Len(r) : r[j] = Turn!Message("delta", k)
    <3>1. b < k
      BY <1>2, <2>8
    <3>2. PICK j \in 1 .. Len(t) : t[j] = Turn!Message("delta", k)
      BY <2>8, <3>1 DEF Chain
    <3>3. j # 1
      <4>1. t[j].n = k
        BY <3>2 DEF Turn!Message
      <4> QED
        BY <1>1, <1>2, <2>6, <2>8, <4>1
    <3>4. j - 1 \in 1 .. Len(r) /\ r[j - 1] = Turn!Message("delta", k)
      BY <1>4, <3>2, <3>3
    <3> QED
      BY <3>4
  <2>9. Chain(r, b + 1, c, n)
    BY <1>2, <1>6, <1>7, <1>8, <2>2, <2>7, <2>8 DEF Chain
  <2> QED
    BY <1>2, <2>2, <2>5, <2>9 DEF h, r
<1>10. CASE ~IsDelta(h)
  <2>1. \A j \in 1 .. Len(r) : IsDelta(r[j]) => b < r[j].n /\ r[j].n <= c
    BY <1>3 DEF Chain
  <2>2. ASSUME NEW k \in Nat, b < k, k <= c PROVE \E j \in 1 .. Len(r) : r[j] = Turn!Message("delta", k)
    <3>1. PICK j \in 1 .. Len(t) : t[j] = Turn!Message("delta", k)
      BY <2>2 DEF Chain
    <3>2. j # 1
      BY <1>1, <1>10, <3>1 DEF IsDelta, Turn!Message
    <3>3. j - 1 \in 1 .. Len(r) /\ r[j - 1] = Turn!Message("delta", k)
      BY <1>4, <3>1, <3>2
    <3> QED
      BY <3>3
  <2>3. Chain(r, b, c, n)
    BY <1>2, <1>6, <1>7, <1>8, <2>1, <2>2 DEF Chain
  <2>4. ASSUME h.what \in TurnEnds PROVE b = n
    <3>1. c = n
      BY <1>1, <1>5, <2>4 DEF Chain
    <3>2. CASE b < c
      <4>1. b + 1 \in Nat /\ b < b + 1 /\ b + 1 <= c
        BY <1>2, <3>2
      <4>2. PICK j \in 1 .. Len(r) : r[j] = Turn!Message("delta", b + 1)
        BY <2>2, <4>1
      <4>3. j + 1 \in 1 .. Len(t) /\ 1 < j + 1 /\ IsDelta(t[j + 1])
        BY <1>3, <4>2 DEF IsDelta, Turn!Message
      <4> QED
        BY <1>1, <1>5, <2>4, <4>3 DEF Chain
    <3> QED
      BY <1>2, <3>1, <3>2
  <2> QED
    BY <1>10, <2>3, <2>4 DEF h, r
<1> QED
  BY <1>9, <1>10

\* The first of one chain goes to the end of the chain before it.
LEMMA ChainMove ==
  ASSUME NEW s \in Seq(TurnMsg), NEW t \in Seq(TurnMsg), NEW a, NEW b, NEW c, NEW n \in Nat,
         Chain(s, a, b, n), Chain(t, b, c, n), t # <<>>
  PROVE  \E m \in Nat : /\ Chain(Append(s, Head(t)), a, m, n) /\ Chain(Tail(t), m, c, n)
                        /\ ~IsDelta(Head(t)) => m = b
<1>1. Head(t) \in TurnMsg /\ b \in Nat
  BY Begun1 DEF Chain
<1>2. CASE ~IsDelta(Head(t)) /\ Chain(Tail(t), b, c, n) /\ (Head(t).what \in TurnEnds => b = n)
  BY <1>1, <1>2, ChainAppend
<1>3. CASE Head(t) = Turn!Message("delta", b + 1) /\ b + 1 <= n /\ Chain(Tail(t), b + 1, c, n)
  <2>1. Chain(Append(s, Head(t)), a, b + 1, n) /\ IsDelta(Head(t)) /\ b + 1 \in Nat
    <3>1. Head(t) \in TurnMsg
      BY <1>1
    <3>2. Chain(Append(s, Head(t)), a, b + 1, n)
      BY <1>3, <3>1, ChainDelta
    <3>3. IsDelta(Head(t))
      BY <1>3 DEF IsDelta, Turn!Message
    <3> QED
      BY <1>1, <3>2, <3>3
  <2> QED
    BY <1>3, <2>1
<1> QED
  BY <1>2, <1>3, ChainRest

\* One more is said, of an answer that goes on.
LEMMA ChainGrows ==
  ASSUME NEW s \in Seq(TurnMsg), NEW a, NEW b, NEW n \in Nat, Chain(s, a, b, n), NoEnd(s)
  PROVE  Chain(s, a, b, n + 1)
BY DEF Chain, NoEnd

\* A message more, or less, that is no end.
LEMMA NoEndMoves ==
  ASSUME NEW s \in Seq(TurnMsg), NoEnd(s)
  PROVE  /\ \A x \in TurnMsg : x.what \notin TurnEnds => NoEnd(Append(s, x))
         /\ s # <<>> => Head(s).what \notin TurnEnds /\ NoEnd(Tail(s))
         /\ NoEnd(<<>>) /\ ~HasItem(s)
<1>1. ASSUME NEW x \in TurnMsg, x.what \notin TurnEnds PROVE NoEnd(Append(s, x))
  BY <1>1, Ended1 DEF NoEnd
<1>2. ASSUME s # <<>> PROVE Head(s).what \notin TurnEnds /\ NoEnd(Tail(s))
  BY <1>2, Begun1 DEF NoEnd
<1>3. NoEnd(<<>>) /\ ~HasItem(s)
  BY DEF NoEnd, HasItem, TurnEnds
<1> QED
  BY <1>1, <1>2, <1>3
---------------------------------------------------------------------------
(* The app server, and the input it is given *)

\* The app server as it was, or gone.
AppStays == app' = app \/ app' = [app EXCEPT !.up = FALSE]

\* A step on the bridge's side that asks for nothing: it stays where it was, goes on to
\* the events, or ends with the app server.
LEMMA TurnQuiet ==
  ASSUME TurnBase, UNCHANGED <<via, request, inputs>>, AppStays,
         \/ pc' = pc
         \/ pc' \in {"stream", "report"}
         \/ pc' \in {"failed", "ended"} /\ ~app'.up
  PROVE  TurnBase'
<1>1. TurnCore'
  BY DEF TurnBase, TurnCore, AppStays
<1>2. app'.up => app.up
  BY DEF TurnBase, TurnCore, AppStays
<1>3. AppDown'
  BY <1>2 DEF TurnBase, AppDown
<1>4. GivenOnce'
  BY <1>2 DEF TurnBase, TurnCore, GivenOnce, Asked, Before
<1> QED
  BY <1>1, <1>3, <1>4 DEF TurnBase

\* The app server is shut down.
LEMMA TurnShuts ==
  ASSUME TurnBase, Turn!Shutdown
  PROVE  AppStays /\ ~app'.up
BY DEF TurnBase, TurnCore, Turn!Shutdown, AppStays

\* The reader, the turn that takes events, a cancellation.
LEMMA BaseReader ==
  ASSUME TurnBase, Turn!Reader \/ Turn!Take \/ Turn!Cancel
  PROVE  TurnBase'
<1>1. UNCHANGED <<via, pc, request, app, inputs>>
  BY DEF Turn!Reader, Turn!Read, Turn!Put, Turn!ReadFails, Turn!CloseMessages, Turn!Take, Turn!Cancel, Turn!connection
<1> QED
  BY <1>1, TurnQuiet DEF AppStays

\* The start of an app server, and the way from one transport to the next.
LEMMA BaseStart ==
  ASSUME TurnBase, Turn!Start \/ Turn!StartFails \/ Turn!Fallback
  PROVE  TurnBase'
<1> USE DEF Turn!connection
<1>1. CASE Turn!Start
  <2>1. /\ pc = "start" /\ pc' = "init" /\ request' = "init" /\ UNCHANGED <<via, inputs>>
        /\ app' = [Turn!Idle EXCEPT !.up = TRUE]
    BY <1>1 DEF Turn!Start
  <2>2. Turn!Idle \in [up : BOOLEAN, replies : TurnRequests, turn : {"no", "runs", "over"}]
    BY DEF Turn!Idle, TurnRequests
  <2>3. TurnCore'
    BY <2>1, <2>2 DEF TurnBase, TurnCore, TurnRequests
  <2> QED
    BY <2>1, <2>3 DEF TurnBase, TurnCore, AppDown, GivenOnce, Asked, Before
<1>2. CASE Turn!StartFails
  <2>1. pc = "start" /\ pc' = "failed" /\ UNCHANGED <<via, request, app, inputs>>
    BY <1>2 DEF Turn!StartFails
  <2> QED
    BY <2>1, TurnQuiet DEF TurnBase, AppDown, AppStays
<1>3. CASE Turn!Fallback
  <2>1. /\ pc = "failed" /\ UNCHANGED <<request, app, inputs>> /\ ~app.up
        /\ via' = IF via = "stdio" THEN "websocket" ELSE "cli"
        /\ pc' = IF via = "stdio" THEN "start" ELSE "ended"
    BY <1>3 DEF Turn!Fallback, TurnBase, AppDown
  <2>2. TurnCore'
    BY <2>1 DEF TurnBase, TurnCore
  <2> QED
    BY <2>1, <2>2 DEF TurnBase, TurnCore, AppDown, GivenOnce, Asked, Before
<1> QED
  BY <1>1, <1>2, <1>3

\* A response, and the next request.
LEMMA BaseResponse ==
  ASSUME TurnBase, Turn!TakeResponse
  PROVE  TurnBase'
<1> DEFINE kind == Turn!NextRequest
<1>1. UNCHANGED <<via, inputs>> /\ Turn!Waits
  BY DEF Turn!TakeResponse
<1>2. CASE pc = "turn"
  <2>1. pc' = "stream" /\ UNCHANGED <<request, app>>
    BY <1>2 DEF Turn!TakeResponse
  <2> QED
    BY <1>1, <2>1, TurnQuiet DEF AppStays
<1>3. CASE pc # "turn"
  <2>1. Turn!Asks(kind) /\ pc \in {"init", "thread"} /\ kind \in {"thread", "turn"}
        /\ (kind = "thread" <=> pc = "init")
    BY <1>1, <1>3 DEF Turn!TakeResponse, Turn!Waits, Turn!NextRequest
  <2>2. CASE app.up
    <3>1. pc' = kind /\ request' = kind /\ app' = app
      BY <2>1, <2>2 DEF Turn!Asks
    <3>2. TurnCore' /\ AppDown'
      BY <1>1, <2>1, <3>1 DEF TurnBase, TurnCore, TurnRequests, AppDown
    <3>3. inputs <= Before /\ Before' = Before /\ Before \in Nat /\ inputs \in Nat
      BY <1>1, <2>1 DEF TurnBase, TurnCore, GivenOnce, Before
    <3>4. GivenOnce'
      BY <1>1, <2>1, <3>1, <3>3 DEF GivenOnce, Asked
    <3> QED
      BY <3>2, <3>4 DEF TurnBase
  <2>3. CASE ~app.up
    <3>1. pc' = "failed" /\ Turn!Shutdown /\ request' = request
      BY <2>1, <2>3 DEF Turn!Asks
    <3> QED
      BY <1>1, <3>1, TurnShuts, TurnQuiet
  <2> QED
    BY <2>2, <2>3
<1> QED
  BY <1>2, <1>3

\* The other steps of the turn.
LEMMA BaseTurn ==
  ASSUME TurnBase,
         \/ Turn!SetAside \/ Turn!WaitFails
         \/ Turn!TakePending \/ Turn!TakeMessage \/ Turn!TakeError \/ Turn!StreamEnds \/ Turn!Emit \/ Turn!EmitCancelled
  PROVE  TurnBase'
<1> USE DEF Turn!connection
<1>1. UNCHANGED <<via, request, inputs>>
  BY DEF Turn!SetAside, Turn!WaitFails, Turn!TakePending, Turn!TakeMessage, Turn!TakeError, Turn!StreamEnds, Turn!Emit, Turn!EmitCancelled
<1>2. \/ UNCHANGED <<pc, app>>
      \/ pc' = "report" /\ app' = app
      \/ pc' \in {"failed", "ended"} /\ Turn!Shutdown
  BY DEF Turn!SetAside, Turn!WaitFails, Turn!TakePending, Turn!TakeMessage, Turn!TakeError, Turn!StreamEnds, Turn!Emit,
         Turn!EmitCancelled, Turn!Ends
<1> QED
  BY <1>1, <1>2, TurnShuts, TurnQuiet DEF AppStays

\* The app server.
LEMMA BaseServer ==
  ASSUME TurnBase, Turn!Server
  PROVE  TurnBase'
<1> USE DEF Turn!Bridge
<1>1. CASE Turn!ServerReads
  <2>1. /\ app.up /\ request # "none" /\ request' = "none" /\ UNCHANGED <<via, pc>>
        /\ app' = [app EXCEPT !.replies = request,
                                    !.turn = IF request = "turn" THEN "runs" ELSE @]
        /\ inputs' = IF request = "turn" THEN inputs + 1 ELSE inputs
    BY <1>1 DEF Turn!ServerReads
  <2>2. TurnCore' /\ app'.up
    <3>1. app.turn \in {"no", "runs", "over"} /\ request \in TurnRequests /\ inputs \in Nat
      BY DEF TurnBase, TurnCore
    <3> DEFINE t == IF request = "turn" THEN "runs" ELSE app.turn
    <3>2. t \in {"no", "runs", "over"}
      BY <3>1
    <3>3. app' = [app EXCEPT !.replies = request, !.turn = t]
      BY <2>1 DEF TurnBase, TurnCore
    <3> HIDE DEF t
    <3>4. /\ app' \in [up : BOOLEAN, replies : TurnRequests, turn : {"no", "runs", "over"}]
          /\ app'.up
      BY <2>1, <3>1, <3>2, <3>3 DEF TurnBase, TurnCore
    <3>5. inputs' \in Nat /\ request' \in TurnRequests /\ via' = via
      BY <2>1, <3>1 DEF TurnRequests
    <3> QED
      BY <3>4, <3>5 DEF TurnBase, TurnCore
  <2>3. AppDown'
    BY <2>1 DEF TurnBase, AppDown
  <2>4. GivenOnce'
    <3>1. Before' = Before /\ Before \in Nat /\ inputs \in Nat /\ Asked' = 0
      BY <2>1 DEF Before, Asked, TurnBase, TurnCore
    <3>2. CASE request = "turn"
      <4>1. inputs' = inputs + 1 /\ inputs + 1 <= Before + 1 /\ pc \notin {"start", "init", "thread"}
        BY <2>1, <3>1, <3>2 DEF TurnBase, GivenOnce, Asked, AppDown
      <4> QED
        BY <2>1, <3>1, <4>1 DEF GivenOnce
    <3>3. CASE request # "turn"
      BY <2>1, <3>1, <3>3 DEF TurnBase, GivenOnce
    <3> QED
      BY <3>2, <3>3
  <2> QED
    BY <2>2, <2>3, <2>4 DEF TurnBase
<1>2. CASE (\E what \in {"response", "refusal"} : Turn!ServerReplies(what)) \/ Turn!ServerDelta
           \/ \E what \in {"completed", "failed"} : Turn!ServerCompletes(what)
  <2>1. UNCHANGED <<via, pc, request, inputs>>
    BY <1>2 DEF Turn!ServerReplies, Turn!ServerDelta, Turn!ServerCompletes
  <2>2. TurnCore' /\ app'.up = app.up
    BY <1>2, <2>1 DEF Turn!ServerReplies, Turn!ServerDelta, Turn!ServerCompletes, TurnBase, TurnCore, TurnRequests
  <2> QED
    BY <2>1, <2>2 DEF TurnBase, AppDown, GivenOnce, Asked, Before
<1>3. CASE Turn!ServerEnds
  <2>1. UNCHANGED <<via, pc, request, inputs>> /\ AppStays
    BY <1>3 DEF Turn!ServerEnds, AppStays
  <2> QED
    BY <2>1, TurnQuiet
<1> QED
  BY <1>1, <1>2, <1>3 DEF Turn!Server

\* Every step keeps it.
LEMMA BaseKept ==
  ASSUME TurnBase, [Turn!Next]_(Turn!vars)
  PROVE  TurnBase'
<1>1. CASE UNCHANGED Turn!vars
  BY <1>1, TurnQuiet DEF Turn!vars, Turn!connection, AppStays
<1>2. CASE Turn!Next
  BY <1>2, BaseReader, BaseStart, BaseResponse, BaseTurn, BaseServer DEF Turn!Next, Turn!Turn
<1> QED
  BY <1>1, <1>2

---------------------------------------------------------------------------
(* What the steps do to the deltas *)

TurnRest == TurnData /\ Fresh /\ Flowing /\ PassedOn

Early == pc \in {"init", "thread"} \/ request = "turn"

\* The flow of the answer, when none of it moves.
LEMMA FlowStays ==
  ASSUME Flowing, UNCHANGED <<passed, todo, aside, messages, wire, appSaid, appDeltaSeen>>,
         InHand' = InHand, Live' => Live, Live' /\ Early' => Early /\ app'.turn = app.turn,
         Live' /\ app'.turn = "runs" => app.turn = "runs" \/ Early
  PROVE  Flowing'
<1>1. SUFFICES ASSUME Live' PROVE Flowing'
  BY DEF Flowing
<1>2. PICK a \in Nat, b \in Nat, c \in Nat, d \in Nat, e \in Nat : Flows(a, b, c, d, e)
  BY <1>1 DEF Flowing
<1>3. Flows(a, b, c, d, e)'
  BY <1>2 DEF Flows
<1>4. NoEnds => NoEnds'
  BY DEF NoEnds
<1>5. Early' => app'.turn = "no" /\ appSaid' = 0 /\ NoEnds'
  BY <1>1, <1>4 DEF Flowing, Early
<1>6. app'.turn = "runs" => NoEnds'
  BY <1>1, <1>4 DEF Flowing, Early
<1> QED
  BY <1>3, <1>5, <1>6 DEF Flowing, Early

\* What has been passed on, when nothing is.
LEMMA PassedStays ==
  ASSUME PassedOn, UNCHANGED <<passed, todo, appSaid>>
  PROVE  PassedOn'
BY DEF PassedOn, HasItem

\* The goroutine that reads.
LEMMA TurnReads ==
  ASSUME TurnInv, Turn!ConstantsAssumption, Turn!Read
  PROVE  TurnRest'
<1>1. /\ appReader = "read" /\ wire # <<>> /\ wire' = Tail(wire) /\ held' = Head(wire) /\ appReader' = "put"
      /\ UNCHANGED <<via, pc, request, app, appSaid, inputs, messages, readErr, closed, aside, todo, appDeltaSeen,
                     appEvents, passed, appCancelled>>
  BY DEF Turn!Read, Turn!stream
<1>2. wire \in Seq(TurnMsg)
  BY DEF TurnInv, TurnData, TurnWire
<1>3. Head(wire) \in TurnMsg /\ Tail(wire) \in Seq(TurnMsg)
  BY <1>1, <1>2, Begun1
<1>4. TurnData'
  BY <1>1, <1>3 DEF TurnInv, TurnData, TurnWire, TurnReader, TurnLoop, TurnEvents
<1>5. InHand = <<>> /\ InHand' = <<Head(wire)>> /\ Append(<<>>, Head(wire)) = <<Head(wire)>>
  BY <1>1, <1>3 DEF InHand
<1>6. Flowing'
  <2>1. SUFFICES ASSUME Live' PROVE Flowing'
    BY DEF Flowing
  <2>2. Live
    BY <1>1, <2>1 DEF Live
  <2>3. PICK a \in Nat, b \in Nat, c \in Nat, d \in Nat, e \in Nat : Flows(a, b, c, d, e)
    BY <2>2 DEF TurnInv, Flowing
  <2>4. appSaid \in Nat /\ <<>> \in Seq(TurnMsg)
    BY DEF TurnInv, TurnData, TurnWire
  <2>5. PICK m \in Nat : Chain(Append(<<>>, Head(wire)), d, m, appSaid) /\ Chain(Tail(wire), m, appSaid, appSaid)
    BY <1>1, <1>2, <1>5, <2>3, <2>4, ChainMove DEF Flows
  <2>6. Flows(a, b, c, d, m)'
    BY <1>1, <1>5, <2>3, <2>5 DEF Flows
  <2>7. NoEnds => NoEnds'
    <3>1. ASSUME NoEnd(wire) PROVE NoEnd(Tail(wire)) /\ NoEnd(<<Head(wire)>>)
      BY <1>1, <1>2, <1>3, <1>5, <2>4, <3>1, NoEndMoves
    <3> QED
      BY <1>1, <1>5, <3>1 DEF NoEnds
  <2> QED
    BY <1>1, <2>2, <2>6, <2>7 DEF TurnInv, Flowing
<1>7. Fresh' /\ PassedOn'
  BY <1>1, PassedStays DEF TurnInv, Fresh
<1> QED
  BY <1>4, <1>6, <1>7 DEF TurnRest

\* The goroutine that reads puts a message into the channel.
LEMMA TurnPuts ==
  ASSUME TurnInv, Turn!ConstantsAssumption, Turn!Put
  PROVE  TurnRest'
<1>1. /\ appReader = "put" /\ Len(messages) < MsgCapacity
      /\ messages' = Append(messages, held) /\ appReader' = "read"
      /\ UNCHANGED <<via, pc, request, app, wire, appSaid, inputs, readErr, closed, aside, todo, appDeltaSeen,
                     appEvents, passed, appCancelled>>
  BY DEF Turn!Put, Turn!stream, Turn!connection
<1>2. messages \in Seq(TurnMsg) /\ held \in TurnMsg
  BY <1>1 DEF TurnInv, TurnData, TurnReader
<1>3. Append(messages, held) \in Seq(TurnMsg) /\ Len(Append(messages, held)) = Len(messages) + 1 /\ Len(messages) \in Nat
  BY <1>2, Ended1
<1>4. TurnData'
  <2>1. Len(messages') <= MsgCapacity
    BY <1>1, <1>3 DEF Turn!ConstantsAssumption
  <2> QED
    BY <1>1, <1>3, <2>1 DEF TurnInv, TurnData, TurnWire, TurnReader, TurnLoop, TurnEvents
<1>5. /\ InHand = <<held>> /\ InHand' = <<>>
      /\ <<held>> \in Seq(TurnMsg) /\ <<held>> # <<>> /\ Head(<<held>>) = held /\ Tail(<<held>>) = <<>>
  BY <1>1, <1>2 DEF InHand
<1>6. Flowing'
  <2>1. SUFFICES ASSUME Live' PROVE Flowing'
    BY DEF Flowing
  <2>2. Live
    BY <1>1, <2>1 DEF Live
  <2>3. PICK a \in Nat, b \in Nat, c \in Nat, d \in Nat, e \in Nat : Flows(a, b, c, d, e)
    BY <2>2 DEF TurnInv, Flowing
  <2>4. appSaid \in Nat
    BY DEF TurnInv, TurnData, TurnWire
  <2>5. PICK m \in Nat : Chain(Append(messages, held), c, m, appSaid) /\ Chain(<<>>, m, e, appSaid)
    <3> DEFINE t == <<held>>
    <3>1. Chain(messages, c, d, appSaid) /\ Chain(t, d, e, appSaid)
      BY <1>5, <2>3 DEF Flows
    <3>2. t \in Seq(TurnMsg) /\ t # <<>> /\ Head(t) = held /\ Tail(t) = <<>>
      BY <1>5
    <3> HIDE DEF t
    <3>3. PICK m \in Nat : Chain(Append(messages, Head(t)), c, m, appSaid) /\ Chain(Tail(t), m, e, appSaid)
      BY <1>2, <2>4, <3>1, <3>2, ChainMove
    <3> QED
      BY <3>2, <3>3
  <2>6. Flows(a, b, c, m, e)'
    BY <1>1, <1>5, <2>3, <2>5 DEF Flows
  <2>7. NoEnds => NoEnds'
    <3>1. ASSUME NoEnd(messages), NoEnd(<<held>>) PROVE NoEnd(Append(messages, held)) /\ NoEnd(<<>>)
      <4>1. held.what \notin TurnEnds
        BY <1>5, <3>1, NoEndMoves
      <4> QED
        BY <1>2, <3>1, <4>1, NoEndMoves
    <3> QED
      BY <1>1, <1>5, <3>1 DEF NoEnds
  <2> QED
    BY <1>1, <2>2, <2>6, <2>7 DEF TurnInv, Flowing
<1>7. Fresh' /\ PassedOn'
  BY <1>1, PassedStays DEF TurnInv, Fresh
<1> QED
  BY <1>4, <1>6, <1>7 DEF TurnRest

\* What leaves the deltas alone.
LEMMA TurnIdles ==
  ASSUME TurnInv, Turn!ConstantsAssumption, Turn!ReadFails \/ Turn!CloseMessages \/ Turn!Cancel \/ Turn!StartFails \/ Turn!Fallback
  PROVE  TurnRest'
<1>1. /\ UNCHANGED <<request, app, wire, appSaid, inputs, held, messages, closed, aside, todo, appDeltaSeen, appEvents, passed>>
      /\ readErr' \in BOOLEAN /\ appCancelled' \in BOOLEAN
  BY DEF Turn!ReadFails, Turn!CloseMessages, Turn!Cancel, Turn!StartFails, Turn!Fallback, Turn!connection, Turn!stream, Turn!loop, TurnInv, TurnData, TurnReader, TurnLoop
<1>2. /\ appReader' \in {"none", "read", "close", "ended"} \/ appReader' = appReader
      /\ pc' = pc \/ (pc' \in {"start", "failed", "ended"} /\ pc \in {"start", "failed"})
      /\ pc' \in {"init", "thread", "turn", "stream", "report"} => InHand' = InHand
  BY DEF Turn!ReadFails, Turn!CloseMessages, Turn!Cancel, Turn!StartFails, Turn!Fallback, Turn!connection, Turn!loop, InHand
<1>3. TurnData'
  <2>1. TurnReader'
    BY <1>1, <1>2 DEF TurnInv, TurnData, TurnReader
  <2>2. TurnLoop'
    BY <1>1, <1>2 DEF TurnInv, TurnData, TurnLoop
  <2> QED
    BY <1>1, <2>1, <2>2 DEF TurnInv, TurnData, TurnWire, TurnEvents
<1>4. Fresh' /\ PassedOn'
  BY <1>1, <1>2, PassedStays DEF TurnInv, Fresh
<1>5. Flowing'
  <2>1. CASE Live'
    BY <1>1, <1>2, <2>1, FlowStays DEF TurnInv, Live, Early
  <2>2. CASE ~Live'
    BY <2>2 DEF Flowing
  <2> QED
    BY <2>1, <2>2
<1> QED
  BY <1>3, <1>4, <1>5 DEF TurnRest

\* Someone takes an event.
LEMMA TurnTakes ==
  ASSUME TurnInv, Turn!ConstantsAssumption, Turn!Take
  PROVE  TurnRest'
<1>1. /\ appEvents # <<>> /\ appEvents' = Tail(appEvents)
      /\ UNCHANGED <<via, pc, request, app, wire, appSaid, inputs, appReader, held, messages, readErr, closed, aside,
                     todo, appDeltaSeen, passed, appCancelled>>
  BY DEF Turn!Take, Turn!connection, Turn!loop
<1>2. appEvents \in Seq(TurnMsg) /\ passed \in Seq(TurnMsg) /\ Len(appEvents) <= TurnCapacity /\ Sequence!IsSuffix(appEvents, passed)
  BY DEF TurnInv, TurnData, TurnEvents
<1>3. Tail(appEvents) \in Seq(TurnMsg) /\ Len(Tail(appEvents)) = Len(appEvents) - 1 /\ Len(appEvents) \in Nat
  BY <1>1, <1>2, Begun1
<1>4. Sequence!IsSuffix(Tail(appEvents), passed)
  BY <1>1, <1>2, SuffixKept
<1>5. Len(Tail(appEvents)) <= TurnCapacity
  BY <1>2, <1>3 DEF Turn!ConstantsAssumption
<1>6. TurnData'
  BY <1>1, <1>2, <1>3, <1>4, <1>5 DEF TurnInv, TurnData, TurnWire, TurnReader, TurnLoop, TurnEvents
<1>7. Fresh' /\ PassedOn'
  BY <1>1, PassedStays DEF TurnInv, Fresh
<1>8. Flowing'
  BY <1>1, FlowStays DEF TurnInv, Live, Early, InHand
<1> QED
  BY <1>6, <1>7, <1>8 DEF TurnRest

\* An app server is started.
LEMMA TurnStarts ==
  ASSUME TurnInv, Turn!ConstantsAssumption, Turn!Start
  PROVE  TurnRest'
<1>1. /\ pc = "start" /\ pc' = "init" /\ request' = "init" /\ app' = [Turn!Idle EXCEPT !.up = TRUE]
      /\ wire' = <<>> /\ appSaid' = 0 /\ appReader' = "read" /\ messages' = <<>> /\ readErr' = FALSE /\ closed' = FALSE
      /\ aside' = <<>> /\ UNCHANGED <<todo, appDeltaSeen, appEvents, passed, appCancelled>>
  BY DEF Turn!Start
<1>2. passed = <<>> /\ todo = <<>> /\ ~appDeltaSeen
  BY <1>1 DEF TurnInv, Fresh
<1>3. TurnData'
  <2>1. 0 <= TurnDeltas /\ 0 <= MsgCapacity
    BY DEF Turn!ConstantsAssumption
  <2>2. TurnWire' /\ TurnReader'
    BY <1>1, <2>1, FewMessages DEF TurnWire, TurnReader
  <2>3. TurnLoop' /\ TurnEvents'
    BY <1>1, FewMessages DEF TurnInv, TurnData, TurnLoop, TurnEvents
  <2> QED
    BY <2>2, <2>3 DEF TurnData
<1>4. Fresh'
  BY <1>1, <1>2 DEF Fresh
<1>5. Chain(<<>>, 0, 0, 0) /\ NoEnd(<<>>) /\ ~HasItem(<<>>)
  <2>1. NoEnd(<<>>) /\ ~HasItem(<<>>)
    BY DEF NoEnd, HasItem
  <2>2. 0 \in Nat /\ 0 <= 0
    OBVIOUS
  <2> QED
    BY <2>1, <2>2, ChainNone, Zenon
<1>6. PassedOn'
  BY <1>1, <1>2, <1>5 DEF PassedOn
<1>7. Flowing'
  <2>1. InHand' = <<>> /\ app'.turn = "no"
    BY <1>1 DEF InHand, Turn!Idle
  <2>2. Flows(0, 0, 0, 0, 0)'
    BY <1>1, <1>2, <1>5, <2>1 DEF Flows
  <2>3. NoEnds'
    BY <1>1, <1>2, <1>5, <2>1 DEF NoEnds
  <2> QED
    BY <1>1, <2>1, <2>2, <2>3 DEF Flowing
<1> QED
  BY <1>3, <1>4, <1>6, <1>7 DEF TurnRest

\* A response to a request, and what is set aside.
LEMMA TurnResponds ==
  ASSUME TurnInv, Turn!ConstantsAssumption, Turn!TakeResponse
  PROVE  TurnRest'
<1> DEFINE h == Head(messages)
<1>1. /\ pc \in {"init", "thread", "turn"} /\ messages # <<>> /\ h.what = "response" /\ messages' = Tail(messages)
      /\ UNCHANGED <<via, wire, appSaid, inputs, appReader, held, readErr, aside, todo, appDeltaSeen, appCancelled>>
  BY DEF Turn!TakeResponse, Turn!Waits
<1>2. messages \in Seq(TurnMsg) /\ passed = <<>> /\ todo = <<>> /\ ~appDeltaSeen /\ appSaid \in Nat
  BY <1>1 DEF TurnInv, TurnData, TurnReader, TurnWire, Fresh
<1>3. /\ h \in TurnMsg /\ Tail(messages) \in Seq(TurnMsg) /\ Len(Tail(messages)) = Len(messages) - 1
      /\ Len(messages) \in Nat
  BY <1>1, <1>2, Begun1
<1>4. ~IsDelta(h) /\ h.what \notin TurnEnds
  BY <1>1 DEF IsDelta, TurnEnds
<1> HIDE DEF h
<1>5. \/ /\ pc = "turn" /\ pc' = "stream" /\ UNCHANGED <<request, app, closed>>
         /\ \/ appEvents' = Append(appEvents, Turn!Message("session", 0)) /\ passed' = Append(passed, Turn!Message("session", 0))
            \/ UNCHANGED <<appEvents, passed>>
      \/ /\ pc = "init" /\ pc' = "thread" /\ request' = "thread" /\ UNCHANGED <<app, closed, appEvents, passed>>
      \/ /\ pc = "thread" /\ pc' = "turn" /\ request' = "turn" /\ UNCHANGED <<app, closed, appEvents, passed>>
      \/ /\ pc \in {"init", "thread"} /\ pc' = "failed" /\ closed' = TRUE /\ UNCHANGED <<appEvents, passed>>
  <2>1. CASE pc = "turn"
    BY <2>1 DEF Turn!TakeResponse
  <2>2. CASE pc # "turn"
    <3>1. Turn!Asks(Turn!NextRequest) /\ UNCHANGED <<appEvents, passed>> /\ pc \in {"init", "thread"}
      BY <1>1, <2>2 DEF Turn!TakeResponse
    <3> QED
      BY <3>1 DEF Turn!Asks, Turn!NextRequest, Turn!Shutdown
  <2> QED
    BY <2>1, <2>2
<1>6. /\ Turn!Message("session", 0) \in TurnMsg /\ Turn!Message("session", 0).what = "session"
  BY DEF Turn!Message, TurnMsg
<1>7. passed' = <<>> \/ passed' = Append(<<>>, Turn!Message("session", 0))
  BY <1>2, <1>5
<1>8. TurnData'
  <2>1. TurnEvents'
    <3>1. /\ passed \in Seq(TurnMsg) /\ appEvents \in Seq(TurnMsg) /\ Len(appEvents) <= TurnCapacity
          /\ Sequence!IsSuffix(appEvents, passed)
      BY DEF TurnInv, TurnData, TurnEvents
    <3>2. appEvents = <<>>
      BY <1>2, <3>1, SuffixKept
    <3>3. CASE UNCHANGED <<appEvents, passed>>
      BY <3>1, <3>3 DEF TurnEvents
    <3>4. CASE appEvents' = Append(appEvents, Turn!Message("session", 0)) /\ passed' = Append(passed, Turn!Message("session", 0))
      <4>1. appEvents' \in Seq(TurnMsg) /\ passed' \in Seq(TurnMsg) /\ Len(appEvents') = 1
        BY <1>6, <3>1, <3>2, <3>4, Ended1
      <4>2. Sequence!IsSuffix(appEvents', passed')
        BY <1>6, <3>1, <3>4, SuffixKept
      <4> QED
        BY <4>1, <4>2 DEF TurnEvents, Turn!ConstantsAssumption
    <3> QED
      BY <1>5, <3>3, <3>4
  <2>2. TurnReader'
    BY <1>1, <1>3 DEF TurnInv, TurnData, TurnReader, Turn!ConstantsAssumption
  <2>3. TurnLoop'
    BY <1>1, <1>5 DEF TurnInv, TurnData, TurnLoop
  <2> QED
    BY <1>1, <2>1, <2>2, <2>3 DEF TurnInv, TurnData, TurnWire
<1>9. Fresh'
  BY <1>1, <1>2, <1>5 DEF Fresh
<1>10. ASSUME NEW n \in Nat PROVE Chain(passed', 0, 0, n)
  <2>1. Chain(<<>>, 0, 0, n)
    <3>1. 0 \in Nat /\ 0 <= n
      OBVIOUS
    <3> QED
      BY <1>10, <3>1, ChainNone
  <2>2. <<>> \in Seq(TurnMsg) /\ ~IsDelta(Turn!Message("session", 0)) /\ Turn!Message("session", 0).what \notin TurnEnds
    BY <1>6 DEF IsDelta, TurnEnds
  <2>3. Chain(Append(<<>>, Turn!Message("session", 0)), 0, 0, n)
    BY <1>6, <1>10, <2>1, <2>2, ChainAppend
  <2> QED
    BY <1>7, <2>1, <2>3
<1>11. NoEnd(passed') /\ ~HasItem(passed') /\ NoEnd(todo') /\ ~HasItem(todo')
  <2>1. <<>> \in Seq(TurnMsg) /\ NoEnd(<<>>) /\ Turn!Message("session", 0).what \notin TurnEnds
    BY <1>6 DEF NoEnd, TurnEnds
  <2>2. NoEnd(passed') /\ passed' \in Seq(TurnMsg)
    BY <1>6, <1>7, <2>1, NoEndMoves, Ended1, ZenonT(60)
  <2> QED
    BY <1>1, <1>2, <2>1, <2>2, NoEndMoves
<1>12. PassedOn'
  BY <1>1, <1>2, <1>10, <1>11 DEF PassedOn
<1>13. Flowing'
  <2>1. SUFFICES ASSUME Live' PROVE Flowing'
    BY DEF Flowing
  <2>2. Live
    BY <1>1 DEF Live
  <2>3. PICK a \in Nat, b \in Nat, c \in Nat, d \in Nat, e \in Nat : Flows(a, b, c, d, e)
    BY <2>2 DEF TurnInv, Flowing
  <2>4. a = 0 /\ b = 0
    BY <1>2, <2>3, ChainNone DEF Flows
  <2>5. Chain(Tail(messages), c, d, appSaid)
    <3>1. Chain(messages, c, d, appSaid) /\ Head(messages) = h
      BY <2>3 DEF Flows, h
    <3>2. h # Turn!Message("delta", c + 1)
      BY <1>4 DEF IsDelta, Turn!Message
    <3> QED
      BY <1>1, <1>2, <1>4, <3>1, <3>2, ChainRest
  <2>6. InHand' = InHand
    BY <1>1 DEF InHand
  <2>7. Flows(0, 0, c, d, e)'
    BY <1>1, <1>2, <1>10, <2>3, <2>4, <2>5, <2>6 DEF Flows
  <2>8. NoEnds => NoEnds'
    <3>1. NoEnd(messages) => NoEnd(Tail(messages))
      BY <1>1, <1>2, NoEndMoves
    <3> QED
      BY <1>1, <1>2, <1>11, <2>6, <3>1 DEF NoEnds
  <2>9. Early' => Early /\ app'.turn = app.turn
    BY <1>1, <1>5, <2>1 DEF Early, Live
  <2>10. app'.turn = app.turn
    BY <1>5, <2>1 DEF Live
  <2>11. Early' => app'.turn = "no" /\ appSaid' = 0 /\ NoEnds'
    BY <1>1, <2>2, <2>8, <2>9, SMTT(60) DEF TurnInv, Flowing, Early
  <2>12. app'.turn = "runs" => NoEnds'
    BY <2>2, <2>8, <2>10 DEF TurnInv, Flowing
  <2>13. \E a1, b1, c1, d1, e1 \in Nat : Flows(a1, b1, c1, d1, e1)'
    BY <2>7
  <2> QED
    BY <2>11, <2>12, <2>13 DEF Flowing, Early
<1> QED
  BY <1>8, <1>9, <1>12, <1>13 DEF TurnRest

\* The turn sets a message aside.
LEMMA TurnSetsAside ==
  ASSUME TurnInv, Turn!ConstantsAssumption, Turn!SetAside
  PROVE  TurnRest'
<1> DEFINE h == Head(messages)
<1>1. /\ pc \in {"init", "thread", "turn"} /\ messages # <<>>
      /\ aside' = Append(aside, h) /\ messages' = Tail(messages)
      /\ UNCHANGED <<via, pc, request, app, wire, appSaid, inputs, appReader, held, readErr, closed, todo, appDeltaSeen,
                     appEvents, passed, appCancelled>>
  BY DEF Turn!SetAside, Turn!Waits, Turn!connection
<1>2. messages \in Seq(TurnMsg) /\ aside \in Seq(TurnMsg) /\ appSaid \in Nat
  BY DEF TurnInv, TurnData, TurnReader, TurnLoop, TurnWire
<1>3. /\ h \in TurnMsg /\ Tail(messages) \in Seq(TurnMsg) /\ Len(Tail(messages)) = Len(messages) - 1
      /\ Len(messages) \in Nat
  BY <1>1, <1>2, Begun1
<1>4. TurnData'
  <2>1. TurnReader'
    BY <1>1, <1>3 DEF TurnInv, TurnData, TurnReader, Turn!ConstantsAssumption
  <2>2. TurnLoop'
    BY <1>1, <1>2, <1>3, Ended1 DEF TurnInv, TurnData, TurnLoop
  <2> QED
    BY <1>1, <2>1, <2>2 DEF TurnInv, TurnData, TurnWire, TurnEvents
<1>5. Fresh' /\ PassedOn'
  BY <1>1, PassedStays DEF TurnInv, Fresh
<1>6. Flowing'
  <2>2. Live
    BY <1>1 DEF Live
  <2>3. PICK a \in Nat, b \in Nat, c \in Nat, d \in Nat, e \in Nat : Flows(a, b, c, d, e)
    BY <2>2 DEF TurnInv, Flowing
  <2>4. PICK m \in Nat : Chain(Append(aside, h), b, m, appSaid) /\ Chain(Tail(messages), m, d, appSaid)
    BY <1>1, <1>2, <2>3, ChainMove DEF Flows
  <2>5. InHand' = InHand
    BY <1>1 DEF InHand
  <2>6. Flows(a, b, m, d, e)'
    BY <1>1, <2>3, <2>4, <2>5 DEF Flows
  <2>7. NoEnds => NoEnds'
    <3>1. ASSUME NoEnd(messages), NoEnd(aside) PROVE NoEnd(Tail(messages)) /\ NoEnd(Append(aside, h))
      <4>1. h.what \notin TurnEnds /\ NoEnd(Tail(messages))
        BY <1>1, <1>2, <3>1, NoEndMoves
      <4> QED
        BY <1>2, <1>3, <3>1, <4>1, NoEndMoves, SMTT(60)
    <3> QED
      BY <1>1, <2>5, <3>1 DEF NoEnds
  <2> QED
    BY <1>1, <2>2, <2>6, <2>7 DEF TurnInv, Flowing
<1> QED
  BY <1>4, <1>5, <1>6 DEF TurnRest

\* The turn fails, or ends without an event.
LEMMA TurnStops ==
  ASSUME TurnInv, Turn!ConstantsAssumption, Turn!WaitFails \/ Turn!StreamEnds \/ (Turn!TakeError /\ appCancelled) \/ Turn!EmitCancelled
  PROVE  TurnRest'
<1>1. /\ pc' \in {"failed", "ended"} /\ closed' = TRUE
      /\ pc' = "failed" => pc \in {"init", "thread", "turn"} /\ todo' = todo
      /\ todo' = todo \/ todo' = <<>>
      /\ messages' = messages \/ (messages # <<>> /\ messages' = Tail(messages))
      /\ readErr' \in {readErr, FALSE}
      /\ UNCHANGED <<wire, appSaid, appReader, held, aside, appDeltaSeen, appEvents, passed, appCancelled>>
  BY DEF Turn!WaitFails, Turn!Waits, Turn!StreamEnds, Turn!TakeError, Turn!EmitCancelled, Turn!Ends, Turn!Shutdown, Turn!loop, Turn!stream
<1>2. messages' \in Seq(TurnMsg) /\ Len(messages') <= MsgCapacity
  <2>1. messages \in Seq(TurnMsg) /\ Len(messages) <= MsgCapacity
    BY DEF TurnInv, TurnData, TurnReader
  <2>2. messages # <<>> => Tail(messages) \in Seq(TurnMsg) /\ Len(Tail(messages)) <= MsgCapacity
    BY <2>1, Begun1 DEF Turn!ConstantsAssumption
  <2> QED
    BY <1>1, <2>1, <2>2
<1>3. todo' \in Seq(TurnMsg) /\ Len(todo') <= 2
  <2>1. todo \in Seq(TurnMsg) /\ Len(todo) <= 2
    BY DEF TurnInv, TurnData, TurnLoop
  <2>2. CASE todo' = todo
    BY <2>1, <2>2
  <2>3. CASE todo' = <<>>
    BY <2>3
  <2> QED
    BY <1>1, <2>2, <2>3
<1>4. TurnData'
  BY <1>1, <1>2, <1>3 DEF TurnInv, TurnData, TurnWire, TurnReader, TurnLoop, TurnEvents
<1>5. Fresh' /\ Flowing'
  BY <1>1 DEF TurnInv, Fresh, Flowing, Live
<1>6. PassedOn'
  <2>1. HasItem(todo') => HasItem(todo)
    BY <1>1 DEF HasItem
  <2> QED
    BY <1>1, <2>1 DEF TurnInv, PassedOn
<1> QED
  BY <1>4, <1>5, <1>6 DEF TurnRest

\* What a message makes of the deltas.
LEMMA ParsedChain ==
  ASSUME NEW t \in Seq(TurnMsg), NEW b, NEW c, NEW n \in Nat, Chain(t, b, c, n), t # <<>>, Turn!Parsed(Head(t)),
         appDeltaSeen \in BOOLEAN, ~appDeltaSeen => b = 0
  PROVE  /\ todo' \in Seq(TurnMsg) /\ Len(todo') <= 2 /\ appDeltaSeen' \in BOOLEAN
         /\ \E m \in Nat : /\ Chain(todo', b, m, n) /\ Chain(Tail(t), m, c, n)
                           /\ ~appDeltaSeen' => m = 0
         /\ HasItem(todo') => n = 0
         /\ NoEnd(t) => NoEnd(todo') /\ NoEnd(Tail(t))
<1> DEFINE h == Head(t)
           r == Tail(t)
<1>1. h \in TurnMsg /\ b \in Nat /\ b <= n /\ r \in Seq(TurnMsg)
  BY Begun1 DEF Chain
<1>2. todo' = Turn!EventsOf(h) /\ appDeltaSeen' = (appDeltaSeen \/ h.what = "delta")
  BY DEF Turn!Parsed
<1>3. \/ ~IsDelta(h) /\ Chain(r, b, c, n) /\ (h.what \in TurnEnds => b = n)
      \/ h = Turn!Message("delta", b + 1) /\ b + 1 <= n /\ Chain(r, b + 1, c, n)
  BY ChainRest
<1>4. NoEnd(t) => h.what \notin TurnEnds /\ NoEnd(r)
  BY NoEndMoves
<1> HIDE DEF h, r
<1>5. Chain(<<>>, b, b, n) /\ NoEnd(<<>>) /\ ~HasItem(<<>>) /\ <<>> \in Seq(TurnMsg) /\ Len(<<>>) = 0
  <2>1. NoEnd(<<>>) /\ ~HasItem(<<>>)
    BY DEF NoEnd, HasItem
  <2> QED
    BY <1>1, <2>1, ChainNone, FewMessages
<1>6. ASSUME NEW x \in TurnMsg
      PROVE  <<x>> = Append(<<>>, x) /\ <<x>> \in Seq(TurnMsg) /\ Len(<<x>>) = 1 /\ (HasItem(<<x>>) => x.what = "item")
  <2>1. HasItem(<<x>>) => x.what = "item"
    BY DEF HasItem
  <2> QED
    BY <2>1
<1>7. CASE h = Turn!Message("delta", b + 1) /\ b + 1 <= n /\ Chain(r, b + 1, c, n)
  <2>1. h.what = "delta"
    BY <1>7 DEF Turn!Message
  <2>2. todo' = <<h>> /\ appDeltaSeen'
    BY <1>2, <2>1 DEF Turn!EventsOf
  <2>3. Chain(Append(<<>>, h), b, b + 1, n)
    BY <1>1, <1>5, <1>7, ChainDelta
  <2>4. Chain(todo', b, b + 1, n) /\ ~HasItem(todo') /\ todo' \in Seq(TurnMsg) /\ Len(todo') <= 2
    BY <1>1, <1>6, <2>1, <2>2, <2>3
  <2>5. NoEnd(todo')
    <3>1. h.what \notin TurnEnds
      BY <2>1 DEF TurnEnds
    <3>2. NoEnd(Append(<<>>, h))
      BY <1>1, <1>5, <3>1, NoEndMoves
    <3> QED
      BY <1>1, <1>6, <2>2, <3>2
  <2>6. b + 1 \in Nat
    BY <1>1
  <2> QED
    BY <1>4, <1>7, <2>2, <2>4, <2>5, <2>6 DEF r
<1>8. CASE ~IsDelta(h) /\ Chain(r, b, c, n) /\ (h.what \in TurnEnds => b = n)
  <2>1. h.what # "delta" /\ appDeltaSeen' = appDeltaSeen
    BY <1>2, <1>8 DEF IsDelta
  <2>2. ASSUME NEW x \in TurnMsg, ~IsDelta(x), x.what \in TurnEnds => b = n
        PROVE  Chain(<<x>>, b, b, n) /\ (x.what \notin TurnEnds => NoEnd(<<x>>))
    <3>1. Chain(Append(<<>>, x), b, b, n)
      BY <1>5, <2>2, ChainAppend
    <3>2. x.what \notin TurnEnds => NoEnd(Append(<<>>, x))
      BY <1>5, NoEndMoves
    <3> QED
      BY <1>6, <3>1, <3>2
  <2>3. /\ Chain(todo', b, b, n) /\ todo' \in Seq(TurnMsg) /\ Len(todo') <= 2
        /\ HasItem(todo') => h.what = "item" /\ ~appDeltaSeen
        /\ h.what \notin TurnEnds => NoEnd(todo')
    <3>1. CASE h.what = "item" /\ ~appDeltaSeen
      <4>1. todo' = <<h>>
        BY <1>2, <3>1 DEF Turn!EventsOf
      <4>2. Chain(<<h>>, b, b, n)
        BY <1>1, <1>8, <2>2
      <4> QED
        BY <1>1, <1>6, <3>1, <4>1, <4>2 DEF TurnEnds
    <3>2. CASE h.what = "completed"
      <4> DEFINE x == Turn!Message("done", 0)
      <4>1. todo' = <<x>>
        BY <1>2, <3>2 DEF Turn!EventsOf
      <4>2. x \in TurnMsg /\ x.what = "done" /\ ~IsDelta(x)
        BY DEF Turn!Message, TurnMsg, IsDelta
      <4>3. h.what \in TurnEnds /\ b = n
        BY <1>8, <3>2 DEF TurnEnds
      <4> HIDE DEF x
      <4>4. Chain(<<x>>, b, b, n)
        BY <2>2, <4>2, <4>3
      <4> QED
        BY <1>6, <4>1, <4>2, <4>3, <4>4
    <3>3. CASE h.what = "failed"
      <4> DEFINE x == Turn!Message("done", 0)
                 y == Turn!Message("error", 0)
      <4>1. todo' = <<y, x>>
        BY <1>2, <3>3 DEF Turn!EventsOf
      <4>2. /\ x \in TurnMsg /\ x.what = "done" /\ ~IsDelta(x)
            /\ y \in TurnMsg /\ y.what = "error" /\ ~IsDelta(y)
        BY DEF Turn!Message, TurnMsg, IsDelta
      <4>3. h.what \in TurnEnds /\ b = n
        BY <1>8, <3>3 DEF TurnEnds
      <4> HIDE DEF x, y
      <4>4. Chain(<<y>>, b, b, n) /\ <<y>> \in Seq(TurnMsg)
        BY <1>6, <2>2, <4>2, <4>3
      <4> DEFINE z == <<y, x>>
      <4>6. z \in Seq(TurnMsg) /\ Len(z) = 2 /\ z[1] = y /\ z[2] = x
        BY <4>2, FewMessages
      <4> HIDE DEF z
      <4>5. Append(<<y>>, x) = z
        <5> DEFINE w == Append(<<y>>, x)
                   q == <<y>>
        <5>1. q \in Seq(TurnMsg) /\ Len(q) = 1 /\ q[1] = y
          BY <4>2, FewMessages
        <5> HIDE DEF q
        <5>2. w = Append(q, x)
          BY DEF q
        <5> HIDE DEF w
        <5>a. /\ w \in Seq(TurnMsg) /\ Len(w) = Len(q) + 1 /\ w[Len(q) + 1] = x
              /\ \A i \in 1 .. Len(q) : w[i] = q[i]
          BY <4>2, <5>1, <5>2, Ended1
        <5>3. w \in Seq(TurnMsg) /\ Len(w) = 2 /\ w[1] = y /\ w[2] = x
          BY <5>1, <5>a
        <5>4. \A i \in 1 .. 2 : w[i] = z[i]
          BY <4>6, <5>3
        <5>5. w = z
          BY <4>6, <5>3, <5>4
        <5> QED
          BY <5>5 DEF w
      <4>7. ~HasItem(z)
        BY <4>2, <4>6 DEF HasItem
      <4>8. Chain(Append(<<y>>, x), b, b, n)
        BY <4>2, <4>3, <4>4, ChainAppend
      <4>9. todo' = z
        BY <4>1 DEF z
      <4>10. Chain(z, b, b, n)
        BY <4>5, <4>8
      <4>11. Chain(todo', b, b, n) /\ todo' \in Seq(TurnMsg) /\ Len(todo') = 2 /\ ~HasItem(todo')
        BY <4>6, <4>7, <4>9, <4>10
      <4> QED
        BY <4>3, <4>11
    <3>4. CASE h.what \notin {"item", "completed", "failed"} \/ (h.what = "item" /\ appDeltaSeen)
      <4>1. todo' = <<>>
        BY <1>2, <2>1, <3>4 DEF Turn!EventsOf
      <4> QED
        BY <1>5, <4>1
    <3> QED
      BY <3>1, <3>2, <3>3, <3>4
  <2>4. HasItem(todo') => n = 0
    BY <1>8, <2>3 DEF TurnEnds
  <2> QED
    BY <1>1, <1>4, <1>8, <2>1, <2>3, <2>4 DEF r
<1> QED
  BY <1>3, <1>7, <1>8

\* The messages set aside, and those that come then.
LEMMA TurnParses ==
  ASSUME TurnInv, Turn!ConstantsAssumption, Turn!TakePending \/ Turn!TakeMessage
  PROVE  TurnRest'
<1>1. /\ pc = "stream" /\ todo = <<>>
      /\ UNCHANGED <<via, pc, request, app, wire, appSaid, inputs, appReader, held, readErr, closed, appEvents, passed, appCancelled>>
  BY DEF Turn!TakePending, Turn!TakeMessage, Turn!Selects, Turn!connection, Turn!loop
<1>2. Live /\ InHand' = InHand
  BY <1>1 DEF Live, InHand
<1>3. PICK a \in Nat, b \in Nat, c \in Nat, d \in Nat, e \in Nat : Flows(a, b, c, d, e)
  BY <1>2 DEF TurnInv, Flowing
<1>4. /\ appSaid \in Nat /\ appDeltaSeen \in BOOLEAN /\ passed \in Seq(TurnMsg) /\ aside \in Seq(TurnMsg)
      /\ messages \in Seq(TurnMsg) /\ Len(messages) <= MsgCapacity
  BY DEF TurnInv, TurnData, TurnReader, TurnLoop, TurnWire, TurnEvents
<1>5. a = b
  BY <1>1, <1>3, ChainNone DEF Flows
<1>6. /\ todo' \in Seq(TurnMsg) /\ Len(todo') <= 2 /\ appDeltaSeen' \in BOOLEAN
      /\ aside' \in Seq(TurnMsg) /\ messages' \in Seq(TurnMsg) /\ Len(messages') <= MsgCapacity
      /\ \E m, k \in Nat : /\ Chain(todo', b, m, appSaid) /\ Chain(aside', m, k, appSaid) /\ Chain(messages', k, d, appSaid)
                           /\ ~appDeltaSeen' => m = 0
      /\ HasItem(todo') => appSaid = 0
      /\ NoEnd(aside) /\ NoEnd(messages) => NoEnd(todo') /\ NoEnd(aside') /\ NoEnd(messages')
  <2>1. CASE Turn!TakePending
    <3>1. /\ aside # <<>> /\ Turn!Parsed(Head(aside)) /\ aside' = Tail(aside) /\ messages' = messages
          /\ Chain(aside, b, c, appSaid) /\ Chain(messages, c, d, appSaid)
      BY <1>3, <2>1 DEF Turn!TakePending, Turn!loop, Flows
    <3>2. Tail(aside) \in Seq(TurnMsg)
      BY <1>4, <3>1, Begun1
    <3>3. /\ todo' \in Seq(TurnMsg) /\ Len(todo') <= 2 /\ appDeltaSeen' \in BOOLEAN
          /\ \E m \in Nat : /\ Chain(todo', b, m, appSaid) /\ Chain(Tail(aside), m, c, appSaid)
                            /\ ~appDeltaSeen' => m = 0
          /\ HasItem(todo') => appSaid = 0
          /\ NoEnd(aside) => NoEnd(todo') /\ NoEnd(Tail(aside))
      BY <1>3, <1>4, <3>1, ParsedChain DEF Flows
    <3> QED
      BY <1>4, <3>1, <3>2, <3>3
  <2>2. CASE Turn!TakeMessage
    <3>1. /\ aside = <<>> /\ messages # <<>> /\ Turn!Parsed(Head(messages)) /\ messages' = Tail(messages) /\ aside' = aside
          /\ Chain(aside, b, c, appSaid) /\ Chain(messages, c, d, appSaid)
      BY <1>3, <2>2 DEF Turn!TakeMessage, Turn!Selects, Flows
    <3>2. Tail(messages) \in Seq(TurnMsg) /\ Len(Tail(messages)) <= MsgCapacity /\ b = c
      BY <1>4, <3>1, Begun1, ChainNone DEF Turn!ConstantsAssumption
    <3>3. /\ todo' \in Seq(TurnMsg) /\ Len(todo') <= 2 /\ appDeltaSeen' \in BOOLEAN
          /\ \E m \in Nat : /\ Chain(todo', b, m, appSaid) /\ Chain(Tail(messages), m, d, appSaid)
                            /\ ~appDeltaSeen' => m = 0
          /\ HasItem(todo') => appSaid = 0
          /\ NoEnd(messages) => NoEnd(todo') /\ NoEnd(Tail(messages))
      BY <1>3, <1>4, <3>1, <3>2, ParsedChain DEF Flows
    <3>4. PICK m \in Nat : Chain(todo', b, m, appSaid) /\ Chain(Tail(messages), m, d, appSaid) /\ (~appDeltaSeen' => m = 0)
      BY <3>3
    <3>5. Chain(<<>>, m, m, appSaid)
      <4>1. m <= appSaid
        BY <3>4 DEF Chain
      <4> QED
        BY <1>4, <4>1, ChainNone
    <3> QED
      BY <1>4, <3>1, <3>2, <3>3, <3>4, <3>5
  <2> QED
    BY <2>1, <2>2
<1>7. TurnData'
  BY <1>1, <1>6 DEF TurnInv, TurnData, TurnWire, TurnReader, TurnLoop, TurnEvents
<1>8. Fresh'
  BY <1>1 DEF Fresh
<1>9. PassedOn'
  BY <1>1, <1>6 DEF TurnInv, PassedOn
<1>10. Flowing'
  <2>1. PICK m \in Nat, k \in Nat : /\ Chain(todo', b, m, appSaid) /\ Chain(aside', m, k, appSaid)
                                    /\ Chain(messages', k, d, appSaid) /\ (~appDeltaSeen' => m = 0)
    BY <1>6
  <2>2. Flows(a, m, k, d, e)'
    BY <1>1, <1>2, <1>3, <1>5, <2>1 DEF Flows
  <2>3. NoEnds => NoEnds'
    BY <1>1, <1>2, <1>6 DEF NoEnds
  <2> QED
    BY <1>1, <1>2, <2>2, <2>3 DEF TurnInv, Flowing
<1> QED
  BY <1>7, <1>8, <1>9, <1>10 DEF TurnRest

\* An error is reported.
LEMMA TurnReports ==
  ASSUME TurnInv, Turn!ConstantsAssumption, Turn!TakeError, ~appCancelled
  PROVE  TurnRest'
<1> DEFINE x == Turn!Message("error", 0)
<1>1. /\ pc = "stream" /\ todo = <<>> /\ readErr' = FALSE /\ pc' = "report" /\ todo' = <<x>>
      /\ UNCHANGED <<app, closed, via, request, wire, appSaid, inputs, appReader, held, messages, aside, appDeltaSeen,
                     appEvents, passed, appCancelled>>
  BY DEF Turn!TakeError, Turn!Selects
<1>2. x \in TurnMsg /\ x.what = "error" /\ ~IsDelta(x) /\ x.what \notin TurnEnds
  BY DEF Turn!Message, TurnMsg, IsDelta, TurnEnds
<1> HIDE DEF x
<1>3. <<x>> = Append(<<>>, x) /\ <<x>> \in Seq(TurnMsg) /\ Len(<<x>>) = 1 /\ <<>> \in Seq(TurnMsg) /\ ~HasItem(<<x>>)
  <2>1. ~HasItem(<<x>>)
    BY <1>2 DEF HasItem
  <2> QED
    BY <1>2, <2>1
<1>4. TurnData'
  <2>1. todo' \in Seq(TurnMsg) /\ Len(todo') <= 2
    BY <1>1, <1>3
  <2>2. TurnLoop'
    BY <1>1, <2>1 DEF TurnInv, TurnData, TurnLoop
  <2> QED
    BY <1>1, <2>2 DEF TurnInv, TurnData, TurnWire, TurnReader, TurnEvents
<1>5. Fresh' /\ PassedOn'
  BY <1>1, <1>3 DEF Fresh, TurnInv, PassedOn
<1>6. Flowing'
  <2>1. Live /\ InHand' = InHand
    BY <1>1 DEF Live, InHand
  <2>2. PICK a \in Nat, b \in Nat, c \in Nat, d \in Nat, e \in Nat : Flows(a, b, c, d, e)
    BY <2>1 DEF TurnInv, Flowing
  <2>3. appSaid \in Nat
    BY DEF TurnInv, TurnData, TurnWire
  <2>4. Chain(<<x>>, a, b, appSaid)
    <3>1. Chain(<<>>, a, b, appSaid)
      BY <1>1, <2>2 DEF Flows
    <3> QED
      BY <1>2, <1>3, <2>3, <3>1, ChainAppend
  <2>5. Flows(a, b, c, d, e)'
    BY <1>1, <2>1, <2>2, <2>4 DEF Flows
  <2>6. NoEnds => NoEnds'
    <3>1. NoEnd(<<>>) => NoEnd(<<x>>)
      BY <1>2, <1>3, NoEndMoves
    <3> QED
      BY <1>1, <2>1, <3>1 DEF NoEnds
  <2> QED
    BY <1>1, <2>1, <2>5, <2>6 DEF TurnInv, Flowing
<1> QED
  BY <1>4, <1>5, <1>6 DEF TurnRest

\* An event is put into the channel.
LEMMA TurnEmits ==
  ASSUME TurnInv, Turn!ConstantsAssumption, Turn!Emit
  PROVE  TurnRest'
<1> DEFINE h == Head(todo)
<1>1. /\ pc \in {"stream", "report"} /\ todo # <<>> /\ Len(appEvents) < TurnCapacity
      /\ appEvents' = Append(appEvents, h) /\ passed' = Append(passed, h) /\ todo' = Tail(todo)
      /\ pc' = pc \/ pc' = "ended"
      /\ pc' # "ended" => app' = app
      /\ closed' = TRUE \/ closed' = closed
      /\ UNCHANGED <<via, request, wire, appSaid, inputs, appReader, held, messages, readErr, aside, appDeltaSeen, appCancelled>>
  BY DEF Turn!Emit, Turn!Ends, Turn!Shutdown, Turn!loop
<1>2. /\ todo \in Seq(TurnMsg) /\ Len(todo) <= 2 /\ passed \in Seq(TurnMsg) /\ appEvents \in Seq(TurnMsg)
      /\ Sequence!IsSuffix(appEvents, passed) /\ appSaid \in Nat
  BY DEF TurnInv, TurnData, TurnLoop, TurnEvents, TurnWire
<1>3. h \in TurnMsg /\ Tail(todo) \in Seq(TurnMsg) /\ Len(Tail(todo)) = Len(todo) - 1 /\ Len(todo) \in Nat
      /\ h = todo[1] /\ Len(todo) > 0 /\ \A i \in 1 .. Len(todo) - 1 : Tail(todo)[i] = todo[i + 1]
  BY <1>1, <1>2, Begun1
<1>4. Append(appEvents, h) \in Seq(TurnMsg) /\ Len(Append(appEvents, h)) = Len(appEvents) + 1 /\ Len(appEvents) \in Nat
  BY <1>2, <1>3, Ended1
<1>5. /\ Append(passed, h) \in Seq(TurnMsg) /\ Len(Append(passed, h)) = Len(passed) + 1 /\ Len(passed) \in Nat
      /\ \A i \in 1 .. Len(passed) : Append(passed, h)[i] = passed[i]
      /\ Append(passed, h)[Len(passed) + 1] = h
  BY <1>2, <1>3, Ended1
<1>6. TurnData'
  <2>1. Sequence!IsSuffix(Append(appEvents, h), Append(passed, h))
    BY <1>2, <1>3, SuffixKept
  <2>2. Len(appEvents') <= TurnCapacity
    BY <1>1, <1>4 DEF Turn!ConstantsAssumption
  <2>3. TurnEvents'
    BY <1>1, <1>4, <1>5, <2>1, <2>2 DEF TurnEvents
  <2>4. TurnLoop'
    <3>1. todo' \in Seq(TurnMsg) /\ Len(todo') <= 2
      BY <1>1, <1>2, <1>3
    <3> QED
      BY <1>1, <3>1 DEF TurnInv, TurnData, TurnLoop
  <2> QED
    BY <1>1, <2>3, <2>4 DEF TurnInv, TurnData, TurnWire, TurnReader
<1>7. Fresh'
  BY <1>1 DEF Fresh
<1>8. Live
  BY <1>1 DEF Live
<1>9. PICK a \in Nat, b \in Nat, c \in Nat, d \in Nat, e \in Nat : Flows(a, b, c, d, e)
  BY <1>8 DEF TurnInv, Flowing
<1>10. PICK m \in Nat : Chain(Append(passed, h), 0, m, appSaid) /\ Chain(Tail(todo), m, b, appSaid)
  BY <1>1, <1>2, <1>9, ChainMove DEF Flows
<1>11. PassedOn'
  <2>1. ASSUME HasItem(Append(passed, h)) \/ HasItem(Tail(todo)) PROVE HasItem(passed) \/ HasItem(todo)
    <3>1. CASE HasItem(Tail(todo))
      <4>1. PICK i \in 1 .. Len(todo) - 1 : Tail(todo)[i].what = "item"
        BY <1>3, <3>1 DEF HasItem
      <4>2. i + 1 \in 1 .. Len(todo) /\ todo[i + 1].what = "item"
        BY <1>3, <4>1
      <4> QED
        BY <4>2 DEF HasItem
    <3>2. CASE HasItem(Append(passed, h))
      <4>1. PICK i \in 1 .. Len(passed) + 1 : Append(passed, h)[i].what = "item"
        BY <1>5, <3>2 DEF HasItem
      <4>2. CASE i \in 1 .. Len(passed)
        BY <1>5, <4>1, <4>2 DEF HasItem
      <4>3. CASE i = Len(passed) + 1
        <5>1. 1 \in 1 .. Len(todo) /\ todo[1].what = "item"
          BY <1>3, <1>5, <4>1, <4>3
        <5> QED
          BY <5>1 DEF HasItem
      <4> QED
        BY <1>5, <4>2, <4>3
    <3> QED
      BY <2>1, <3>1, <3>2
  <2> QED
    BY <1>1, <1>10, <2>1 DEF TurnInv, PassedOn
<1>12. Flowing'
  <2>1. SUFFICES ASSUME Live' PROVE Flowing'
    BY DEF Flowing
  <2>2. pc' = pc /\ app' = app
    BY <1>1, <2>1 DEF Live
  <2>3. InHand' = InHand
    BY <1>1 DEF InHand
  <2>4. Flows(m, b, c, d, e)'
    BY <1>1, <1>9, <1>10, <2>3 DEF Flows
  <2>5. NoEnds => NoEnds'
    <3>1. ASSUME NoEnd(passed), NoEnd(todo) PROVE NoEnd(Append(passed, h)) /\ NoEnd(Tail(todo))
      <4>1. h.what \notin TurnEnds /\ NoEnd(Tail(todo))
        BY <1>1, <1>2, <3>1, NoEndMoves
      <4> QED
        BY <1>2, <1>3, <3>1, <4>1, NoEndMoves
    <3> QED
      BY <1>1, <2>3, <3>1 DEF NoEnds
  <2> QED
    BY <1>1, <1>8, <2>2, <2>4, <2>5 DEF TurnInv, Flowing
<1> QED
  BY <1>6, <1>7, <1>11, <1>12 DEF TurnRest

---------------------------------------------------------------------------
(* The app server *)

\* The app server reads a request, or ends.
LEMMA TurnReadsRequest ==
  ASSUME TurnInv, Turn!ConstantsAssumption, Turn!ServerReads \/ Turn!ServerEnds
  PROVE  TurnRest'
<1>1. /\ app.up /\ UNCHANGED <<wire, appSaid, via, pc, appReader, held, messages, readErr, closed, aside, todo, appDeltaSeen,
                                 appEvents, passed, appCancelled>>
      /\ request' = request \/ request' = "none"
  BY DEF Turn!ServerReads, Turn!ServerEnds, Turn!Bridge, Turn!loop, Turn!stream
<1>2. app'.turn = app.turn \/ (request = "turn" /\ request' = "none" /\ app'.turn = "runs")
  BY DEF Turn!ServerReads, Turn!ServerEnds, TurnInv, TurnBase, TurnCore
<1>3. TurnData'
  BY <1>1 DEF TurnInv, TurnData, TurnWire, TurnReader, TurnLoop, TurnEvents
<1>4. Fresh' /\ PassedOn'
  BY <1>1, PassedStays DEF TurnInv, Fresh
<1>5. InHand' = InHand
  BY <1>1 DEF InHand
<1>6. Flowing'
  <2>1. CASE app'.turn = app.turn
    BY <1>1, <1>5, <2>1, FlowStays DEF TurnInv, Live, Early
  <2>2. CASE request = "turn" /\ request' = "none" /\ app'.turn = "runs"
    <3>1. pc \notin {"init", "thread"}
      BY <2>2 DEF TurnInv, TurnBase, GivenOnce
    <3> QED
      BY <1>1, <1>5, <2>2, <3>1, FlowStays DEF TurnInv, Live, Early
  <2> QED
    BY <1>2, <2>1, <2>2
<1> QED
  BY <1>3, <1>4, <1>6 DEF TurnRest

\* The app server sends something that is no delta, when nothing has ended the answer.
LEMMA AppIsLive ==
  ASSUME TurnInv, app.up
  PROVE  Live
BY DEF TurnInv, TurnBase, AppDown, Live, TurnData, TurnLoop

\* It replies.
LEMMA TurnReplied ==
  ASSUME TurnInv, Turn!ConstantsAssumption, NEW what \in {"response", "refusal"}, Turn!ServerReplies(what)
  PROVE  TurnRest'
<1> DEFINE x == Turn!Message(what, 0)
<1>1. /\ app.up /\ wire' = wire \o <<x>>
      /\ UNCHANGED <<request, appSaid, via, pc, appReader, held, messages, readErr, closed, aside, todo, appDeltaSeen, appEvents,
                     passed, appCancelled>>
  BY DEF Turn!ServerReplies, Turn!Says, Turn!Bridge, Turn!loop, Turn!stream
<1>2. /\ app'.turn = app.turn \/ app'.turn = "no"
  BY DEF Turn!ServerReplies, TurnInv, TurnBase, TurnCore
<1>3. x \in TurnMsg /\ ~IsDelta(x) /\ x.what \notin TurnEnds
  BY DEF Turn!Message, TurnMsg, IsDelta, TurnEnds
<1> HIDE DEF x
<1>4. wire \in Seq(TurnMsg) /\ appSaid \in Nat
  BY DEF TurnInv, TurnData, TurnWire
<1>5. wire' = Append(wire, x) /\ wire' \in Seq(TurnMsg)
  BY <1>1, <1>3, <1>4
<1>6. TurnData'
  BY <1>1, <1>5 DEF TurnInv, TurnData, TurnWire, TurnReader, TurnLoop, TurnEvents
<1>7. Fresh' /\ PassedOn'
  BY <1>1, PassedStays DEF TurnInv, Fresh
<1>8. Flowing'
  <2>1. Live /\ InHand' = InHand
    BY <1>1, AppIsLive DEF InHand
  <2>2. PICK a \in Nat, b \in Nat, c \in Nat, d \in Nat, e \in Nat : Flows(a, b, c, d, e)
    BY <2>1 DEF TurnInv, Flowing
  <2>3. Chain(Append(wire, x), e, appSaid, appSaid)
    BY <1>3, <1>4, <2>2, ChainAppend DEF Flows
  <2>4. Flows(a, b, c, d, e)'
    BY <1>1, <1>5, <2>1, <2>2, <2>3 DEF Flows
  <2>5. NoEnds => NoEnds'
    <3>1. NoEnd(wire) => NoEnd(Append(wire, x))
      BY <1>3, <1>4, NoEndMoves
    <3> QED
      BY <1>1, <1>5, <2>1, <3>1 DEF NoEnds
  <2>6. Early' => app'.turn = "no" /\ appSaid' = 0 /\ NoEnds'
    BY <1>1, <1>2, <2>1, <2>5 DEF TurnInv, Flowing, Early
  <2>7. app'.turn = "runs" => NoEnds'
    BY <1>2, <2>1, <2>5 DEF TurnInv, Flowing
  <2>8. \E a1, b1, c1, d1, e1 \in Nat : Flows(a1, b1, c1, d1, e1)'
    BY <2>4
  <2> QED
    BY <2>6, <2>7, <2>8 DEF Flowing, Early
<1> QED
  BY <1>6, <1>7, <1>8 DEF TurnRest

\* While the turn runs nothing has ended, and the request for it has been read.
LEMMA TurnRunning ==
  ASSUME TurnInv, app.up, app.turn = "runs"
  PROVE  NoEnds /\ Live /\ ~Early
BY AppIsLive DEF TurnInv, Flowing, Early

\* It says a delta.
LEMMA TurnTells ==
  ASSUME TurnInv, Turn!ConstantsAssumption, Turn!ServerDelta
  PROVE  TurnRest'
<1> DEFINE x == Turn!Message("delta", appSaid + 1)
<1>1. /\ app.up /\ app.turn = "runs" /\ appSaid < TurnDeltas /\ appSaid' = appSaid + 1 /\ wire' = wire \o <<x>>
      /\ UNCHANGED <<request, app, via, pc, appReader, held, messages, readErr, closed, aside, todo, appDeltaSeen, appEvents,
                     passed, appCancelled>>
  BY DEF Turn!ServerDelta, Turn!Says, Turn!Bridge, Turn!loop, Turn!stream
<1>2. NoEnds /\ Live /\ ~Early /\ InHand' = InHand
  BY <1>1, TurnRunning DEF InHand
<1>3. wire \in Seq(TurnMsg) /\ appSaid \in Nat
  BY DEF TurnInv, TurnData, TurnWire
<1>4. x \in TurnMsg /\ x.what = "delta" /\ x.what \notin TurnEnds
  BY <1>3 DEF Turn!Message, TurnMsg, TurnEnds
<1>5. wire' = Append(wire, x) /\ wire' \in Seq(TurnMsg)
  <2> HIDE DEF x
  <2> QED
    BY <1>1, <1>3, <1>4
<1>6. TurnData'
  BY <1>1, <1>3, <1>5 DEF TurnInv, TurnData, TurnWire, TurnReader, TurnLoop, TurnEvents, Turn!ConstantsAssumption
<1>7. Fresh'
  BY <1>1 DEF TurnInv, Fresh
<1>8. PICK a \in Nat, b \in Nat, c \in Nat, d \in Nat, e \in Nat : Flows(a, b, c, d, e)
  BY <1>2 DEF TurnInv, Flowing
<1>9. NoEnd(wire) /\ NoEnd(InHand) /\ NoEnd(messages) /\ NoEnd(aside) /\ NoEnd(todo) /\ NoEnd(passed)
  BY <1>2 DEF NoEnds
<1>10. /\ Chain(passed, 0, a, appSaid + 1) /\ Chain(todo, a, b, appSaid + 1) /\ Chain(aside, b, c, appSaid + 1)
       /\ Chain(messages, c, d, appSaid + 1) /\ Chain(InHand, d, e, appSaid + 1)
  <2>1. passed \in Seq(TurnMsg) /\ todo \in Seq(TurnMsg) /\ aside \in Seq(TurnMsg) /\ messages \in Seq(TurnMsg)
    BY DEF TurnInv, TurnData, TurnLoop, TurnEvents, TurnReader
  <2>2. InHand \in Seq(TurnMsg)
    BY FewMessages DEF TurnInv, TurnData, TurnReader, InHand
  <2>3. Chain(passed, 0, a, appSaid + 1)
    BY <1>3, <1>8, <1>9, <2>1, ChainGrows DEF Flows
  <2>4. Chain(todo, a, b, appSaid + 1)
    BY <1>3, <1>8, <1>9, <2>1, ChainGrows DEF Flows
  <2>5. Chain(aside, b, c, appSaid + 1)
    BY <1>3, <1>8, <1>9, <2>1, ChainGrows DEF Flows
  <2>6. Chain(messages, c, d, appSaid + 1)
    BY <1>3, <1>8, <1>9, <2>1, ChainGrows DEF Flows
  <2>7. Chain(InHand, d, e, appSaid + 1)
    BY <1>3, <1>8, <1>9, <2>2, ChainGrows DEF Flows
  <2> QED
    BY <2>3, <2>4, <2>5, <2>6, <2>7
<1>11. PassedOn'
  <2>1. passed \in Seq(TurnMsg) /\ todo \in Seq(TurnMsg)
    BY DEF TurnInv, TurnData, TurnLoop, TurnEvents
  <2>2. ~HasItem(passed) /\ ~HasItem(todo)
    BY <1>9, <2>1, NoEndMoves
  <2> QED
    BY <1>1, <1>10, <2>2 DEF PassedOn
<1>12. Flowing'
  <2>1. Chain(wire, e, appSaid, appSaid + 1)
    BY <1>3, <1>8, <1>9, ChainGrows DEF Flows
  <2>2. Chain(Append(wire, x), e, appSaid + 1, appSaid + 1)
    <3>1. appSaid + 1 \in Nat /\ appSaid + 1 <= appSaid + 1
      BY <1>3
    <3> QED
      BY <1>3, <1>4, <2>1, <3>1, ChainDelta
  <2>3. Flows(a, b, c, d, e)'
    BY <1>1, <1>2, <1>5, <1>8, <1>10, <2>2 DEF Flows
  <2>4. NoEnds'
    <3>1. NoEnd(Append(wire, x))
      BY <1>3, <1>4, <1>9, NoEndMoves
    <3> QED
      BY <1>1, <1>2, <1>5, <3>1 DEF NoEnds
  <2> QED
    BY <1>1, <1>2, <2>3, <2>4 DEF Flowing, Early
<1> QED
  BY <1>6, <1>7, <1>11, <1>12 DEF TurnRest

\* The turn is over.
LEMMA TurnCompletes ==
  ASSUME TurnInv, Turn!ConstantsAssumption, NEW what \in {"completed", "failed"}, Turn!ServerCompletes(what)
  PROVE  TurnRest'
<1> DEFINE x == Turn!Message("item", 0)
           y == Turn!Message(what, 0)
<1>1. /\ app.up /\ app.turn = "runs" /\ app'.turn = "over"
      /\ wire' = wire \o (IF what = "completed" THEN <<x, y>> ELSE <<y>>)
      /\ UNCHANGED <<request, appSaid, via, pc, appReader, held, messages, readErr, closed, aside, todo, appDeltaSeen, appEvents,
                     passed, appCancelled>>
  BY DEF Turn!ServerCompletes, Turn!Says, Turn!Bridge, Turn!loop, Turn!stream, TurnInv, TurnBase, TurnCore
<1>2. Live /\ ~Early /\ InHand' = InHand
  BY <1>1, TurnRunning DEF InHand
<1>3. wire \in Seq(TurnMsg) /\ appSaid \in Nat
  BY DEF TurnInv, TurnData, TurnWire
<1>4. x \in TurnMsg /\ ~IsDelta(x) /\ y \in TurnMsg /\ ~IsDelta(y)
  BY DEF Turn!Message, TurnMsg, IsDelta
<1> HIDE DEF x, y
<1>5. /\ wire' = Append(wire, y) \/ wire' = Append(Append(wire, x), y)
      /\ Append(wire, x) \in Seq(TurnMsg) /\ wire' \in Seq(TurnMsg)
  BY <1>1, <1>3, <1>4
<1>6. TurnData'
  BY <1>1, <1>5 DEF TurnInv, TurnData, TurnWire, TurnReader, TurnLoop, TurnEvents
<1>7. Fresh' /\ PassedOn'
  BY <1>1, PassedStays DEF TurnInv, Fresh
<1>8. Flowing'
  <2>1. PICK a \in Nat, b \in Nat, c \in Nat, d \in Nat, e \in Nat : Flows(a, b, c, d, e)
    BY <1>2 DEF TurnInv, Flowing
  <2>2. Chain(Append(wire, x), e, appSaid, appSaid)
    BY <1>3, <1>4, <2>1, ChainAppend DEF Flows
  <2>3. Chain(Append(wire, y), e, appSaid, appSaid) /\ Chain(Append(Append(wire, x), y), e, appSaid, appSaid)
    BY <1>3, <1>4, <1>5, <2>1, <2>2, ChainAppend DEF Flows
  <2>4. Flows(a, b, c, d, e)'
    BY <1>1, <1>2, <1>5, <2>1, <2>3 DEF Flows
  <2> QED
    BY <1>1, <1>2, <2>4 DEF Flowing, Early
<1> QED
  BY <1>6, <1>7, <1>8 DEF TurnRest

---------------------------------------------------------------------------
\* Every step keeps the invariant.
LEMMA TurnKept ==
  ASSUME TurnInv, Turn!ConstantsAssumption, [Turn!Next]_(Turn!vars)
  PROVE  TurnInv'
<1>1. TurnBase'
  BY BaseKept DEF TurnInv
<1>2. TurnRest'
  <2>1. CASE UNCHANGED Turn!vars
    <3>1. UNCHANGED <<via, pc, request, app, wire, appSaid, inputs, appReader, held, messages, readErr, closed, aside, todo,
                      appDeltaSeen, appEvents, passed, appCancelled>>
      BY <2>1 DEF Turn!vars, Turn!connection, Turn!loop, Turn!stream
    <3>2. Flowing'
      BY <3>1, FlowStays DEF TurnInv, Live, Early, InHand
    <3> QED
      BY <3>1, <3>2, PassedStays
      DEF TurnRest, TurnInv, TurnData, TurnWire, TurnReader, TurnLoop, TurnEvents, Fresh
  <2>2. CASE Turn!TakeError
    BY <2>2, TurnStops, TurnReports
  <2>3. CASE Turn!Reader \/ Turn!Take \/ Turn!Cancel
    BY <2>3, TurnReads, TurnPuts, TurnIdles, TurnTakes DEF Turn!Reader
  <2>4. CASE Turn!Turn
    BY <2>2, <2>4, TurnStarts, TurnIdles, TurnResponds, TurnSetsAside, TurnStops, TurnParses, TurnEmits DEF Turn!Turn
  <2>5. CASE Turn!Server
    BY <2>5, TurnReadsRequest, TurnReplied, TurnTells, TurnCompletes DEF Turn!Server
  <2> QED
    BY <2>1, <2>3, <2>4, <2>5 DEF Turn!Next
<1> QED
  BY <1>1, <1>2 DEF TurnInv, TurnRest

\* It holds at first.
LEMMA TurnStart ==
  ASSUME Turn!ConstantsAssumption, Turn!Init
  PROVE  TurnInv
<1> USE DEF Turn!Init
<1>1. TurnBase
  BY DEF Turn!Idle, TurnBase, TurnCore, TurnRequests, AppDown, GivenOnce, Asked, Before
<1>2. Chain(<<>>, 0, 0, 0) /\ ~HasItem(<<>>)
  <2>1. ~HasItem(<<>>)
    BY DEF HasItem
  <2>2. 0 \in Nat /\ 0 <= 0
    OBVIOUS
  <2> QED
    BY <2>1, <2>2, ChainNone, Zenon
<1>3. TurnData
  <2>1. 0 <= TurnDeltas /\ 0 <= MsgCapacity /\ 0 <= TurnCapacity
    BY DEF Turn!ConstantsAssumption
  <2>2. Sequence!IsSuffix(<<>>, <<>>)
    <3>1. EndsWith(<<>>, <<>>)
      BY FewMessages DEF EndsWith
    <3> QED
      BY FewMessages, <3>1, SuffixIs
  <2>3. TurnWire /\ TurnReader
    BY <2>1, FewMessages DEF TurnWire, TurnReader
  <2>4. TurnLoop
    <3>1. todo = <<>> /\ aside = <<>> /\ <<>> \in Seq(TurnMsg) /\ Len(<<>>) <= 2
      BY FewMessages
    <3> QED
      BY <3>1 DEF TurnLoop
  <2>5. TurnEvents
    BY <2>1, <2>2, FewMessages DEF TurnEvents
  <2> QED
    BY <2>3, <2>4, <2>5 DEF TurnData
<1>4. Fresh /\ Flowing
  BY DEF Fresh, Flowing, Live
<1>5. PassedOn
  BY <1>2 DEF PassedOn
<1> QED
  BY <1>1, <1>3, <1>4, <1>5 DEF TurnInv

\* What it says of a turn.
LEMMA TurnEndsWhole ==
  ASSUME TurnInv, Turn!ConstantsAssumption
  PROVE  Turn!TypeOK /\ Turn!AnswerOnce /\ Turn!DoneIsWhole /\ Turn!NoneLeft
<1>1. Turn!TypeOK
  <2>1. Turn!IsSuffix(appEvents, passed)
    BY DEF TurnInv, TurnData, TurnEvents, Turn!IsSuffix, Turn!IsPrefix, Turn!Reverse, Sequence!IsSuffix, Sequence!IsPrefix, Sequence!Reverse
  <2>2. inputs \in 0 .. 2 /\ appSaid \in 0 .. TurnDeltas
    BY DEF TurnInv, TurnBase, TurnCore, GivenOnce, Before, TurnData, TurnWire, Turn!ConstantsAssumption
  <2> QED
    BY <2>1, <2>2 DEF TurnInv, TurnBase, TurnCore, TurnRequests, TurnData, TurnReader, TurnLoop, TurnEvents, Turn!TypeOK
<1>2. PICK a \in Nat : Chain(passed, 0, a, appSaid)
  BY DEF TurnInv, PassedOn
<1>3. passed \in Seq(TurnMsg) /\ appSaid \in Nat
  BY DEF TurnInv, TurnData, TurnEvents, TurnWire
<1>4. Turn!AnswerOnce
  <2>1. ASSUME NEW i \in 1 .. Len(passed), Turn!Delta(i), NEW k \in 1 .. passed[i].n - 1
        PROVE  \E j \in 1 .. i - 1 : passed[j] = Turn!Message("delta", k)
    <3>1. passed[i] \in TurnMsg
      BY <1>3
    <3>2. passed[i].n \in Nat /\ 0 < passed[i].n /\ passed[i].n <= a /\ IsDelta(passed[i])
      BY <1>2, <2>1, <3>1 DEF TurnMsg, Turn!Delta, IsDelta, Chain
    <3>3. k \in Nat /\ 0 < k /\ k <= a /\ k < passed[i].n
      BY <3>2
    <3>4. PICK j \in 1 .. Len(passed) : passed[j] = Turn!Message("delta", k)
      BY <1>2, <3>3 DEF Chain
    <3>5. IsDelta(passed[j]) /\ passed[j].n = k
      BY <3>4 DEF IsDelta, Turn!Message
    <3>6. ~(i < j) /\ i # j
      <4>1. i < j => passed[i].n < passed[j].n
        BY <1>2, <3>2, <3>5 DEF Chain
      <4> QED
        BY <3>2, <3>3, <3>5, <4>1
    <3>7. j \in 1 .. i - 1
      BY <1>3, <3>6
    <3> QED
      BY <3>4, <3>7
  <2>2. \A i, j \in 1 .. Len(passed) : Turn!Delta(i) /\ Turn!Delta(j) /\ i < j => passed[i].n < passed[j].n
    BY <1>2 DEF Turn!Delta, IsDelta, Chain
  <2>3. ASSUME Turn!Is("item"), Turn!Is("delta") PROVE FALSE
    <3>1. appSaid = 0
      BY <2>3 DEF TurnInv, PassedOn, Turn!Is, HasItem
    <3>2. PICK i \in 1 .. Len(passed) : passed[i].what = "delta"
      BY <2>3 DEF Turn!Is
    <3>3. 0 < passed[i].n /\ passed[i].n <= a /\ a <= appSaid /\ passed[i] \in TurnMsg
      BY <1>2, <1>3, <3>2 DEF Chain, IsDelta
    <3>4. passed[i].n \in Nat
      BY <3>3 DEF TurnMsg
    <3> QED
      BY <3>1, <3>3, <3>4
  <2> QED
    BY <2>1, <2>2, <2>3 DEF Turn!AnswerOnce
<1>5. Turn!DoneIsWhole
  <2>1. ASSUME Turn!Is("done"), NEW k \in 1 .. appSaid PROVE \E i \in 1 .. Len(passed) : passed[i] = Turn!Message("delta", k)
    <3>1. PICK i \in 1 .. Len(passed) : passed[i].what = "done"
      BY <2>1 DEF Turn!Is
    <3>2. a = appSaid
      BY <1>2, <3>1 DEF Chain, TurnEnds
    <3>3. k \in Nat /\ 0 < k /\ k <= a
      BY <1>3, <3>2
    <3> QED
      BY <1>2, <3>3 DEF Chain
  <2> QED
    BY <2>1 DEF Turn!DoneIsWhole
<1>6. Turn!NoneLeft
  BY DEF TurnInv, TurnBase, AppDown, Turn!NoneLeft
<1> QED
  BY <1>1, <1>4, <1>5, <1>6

\* An app server is given the input once, and there are two at most.
LEMMA TurnInputs ==
  ASSUME TurnInv
  PROVE  inputs <= IF via = "stdio" THEN 1 ELSE 2
BY DEF TurnInv, TurnBase, TurnCore, GivenOnce, Before

-----------------------------------------------------------------------------
(* The agents *)

\* The inductive invariant: that of each kind.
Inv == part \in Parts /\ CodexInv /\ ClaudeInv /\ HermesInv /\ CliInv /\ TurnInv

\* The inductive invariant holds in every behaviour, whichever agent runs.
THEOREM Invariant == Spec => []Inv
<1>1. Init => Inv
  BY ConstantsAssumption, CodexStart, ClaudeStart, HermesStart, CliStart, TurnStart DEF Init, Inv
<1>2. Inv /\ [Next]_vars => Inv'
  <2> SUFFICES ASSUME Inv, [Next]_vars PROVE Inv'
    OBVIOUS
  <2>1. part \in Parts /\ CodexInv /\ ClaudeInv /\ HermesInv /\ CliInv /\ TurnInv
    BY DEF Inv
  <2>2. /\ part' = part
        /\ Codex!Next \/ UNCHANGED codexVars
        /\ Claude!Next \/ UNCHANGED claudeVars
        /\ [Hermes!Next]_hermesVars /\ [Cli!Next]_cliVars
        /\ Turn!Next \/ UNCHANGED turnVars
    BY DEF Next, CodexRuns, ClaudeRuns, HermesRuns, CliRuns, TurnRuns, vars
  <2>3. [Codex!Next]_(Codex!vars)
    BY <2>2 DEF codexVars, Codex!vars, Codex!callVars, Codex!wire, Codex!approvals, Codex!history
  <2>4. [Claude!Next]_(Claude!vars)
    BY <2>2 DEF claudeVars, Claude!vars, Claude!cli, Claude!readerVars
  <2>5. [Turn!Next]_(Turn!vars)
    BY <2>2 DEF turnVars, Turn!vars, Turn!connection, Turn!loop, Turn!stream
  <2> QED
    BY <2>1, <2>2, <2>3, <2>4, <2>5, ConstantsAssumption, CodexKept, ClaudeKept, HermesKept, CliKept, TurnKept DEF Inv
<1> QED
  BY <1>1, <1>2, PTL DEF Spec

\* The variables of every agent keep their types.
THEOREM TypeCorrect == Spec => []TypeOK
<1>1. Inv => TypeOK
  BY ConstantsAssumption, CodexShows, HermesShows, CliEnds, TurnEndsWhole DEF Inv, ClaudeInv, ClaudeTyped, TypeOK
<1> QED
  BY <1>1, Invariant, PTL

\* codex's answer is passed on once, as its deltas or as a whole, in a turn of its own and in a
\* live session without injections whose turns were all waited for; what hermes has replayed
\* by the end of its start is not taken for an answer; and the CLI of Claude gets one decision
\* on a request, whoever decides meanwhile.
THEOREM Once == Spec => []OnceOnly
<1>1. Inv => OnceOnly
  BY ConstantsAssumption, CodexShows, HermesShows, ClaudeDecides, TurnEndsWhole DEF Inv, OnceOnly
<1> QED
  BY <1>1, Invariant, PTL

\* While nobody closes or cancels: a live session of Claude ends with all its CLI has written
\* passed on, or with an error, and with no process left; a turn of a CLI has passed everything
\* on (of hermes' nothing is said), reports a CLI that failed, and leaves no process (Claude's
\* and hermes'); an app server that goes in the middle of a live turn is reported; a codex turn
\* that says done was passed on whole, and leaves no app server.  And the call that closes
\* hermes returns when its goroutines have ended.
THEOREM Ends == Spec => []EndsWhole
<1>1. Inv => EndsWhole
  BY ConstantsAssumption, CodexShows, HermesShows, ClaudeEnds, CliEnds, TurnEndsWhole DEF Inv, EndsWhole
<1> QED
  BY <1>1, Invariant, PTL

\* A turn on an app server of codex that falls back from one transport to the other gives its
\* input to two app servers at most, and to one while it has not fallen back.
THEOREM InputTwiceAtMost == Spec => [](inputs <= IF via = "stdio" THEN 1 ELSE 2)
<1>1. Inv => inputs <= IF via = "stdio" THEN 1 ELSE 2
  BY TurnInputs DEF Inv
<1> QED
  BY <1>1, Invariant, PTL
=============================================================================
