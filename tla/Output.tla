-------------------------------- MODULE Output --------------------------------
(***************************************************************************)
(* What goes to a user beside the turns themselves: the reply stream of a  *)
(* message (StreamSender), the table of a user's listeners (Listen), and   *)
(* a listener with its log (LogFollower).  part says which of them runs;   *)
(* the variables of the others stay as they are.                           *)
(***************************************************************************)
EXTENDS Naturals

CONSTANTS
  \* StreamSender
  Modes, Pieces, ChunkMax, Errors, MidMessage,
  \* Listen
  Callers, Runs,
  \* LogFollower
  Kinds, Before, Lines, Cuts, Files, Replacings

VARIABLES part,
  \* StreamSender
  mode, fwd, cancelled, stream, sender, text, nextChunk, wire, produced, owed, left,
  \* Listen
  entry, nextID, run, stopped, rootCtx, closing, caller, taken,
  \* LogFollower
  kind, files, path, there, torn, apart, copied, written, pc, f, seen, sent

streamVars == <<mode, fwd, cancelled, stream, sender, text, nextChunk, wire, produced, owed, left>>
listenVars == <<entry, nextID, run, stopped, rootCtx, closing, caller, taken>>
logVars == <<kind, files, path, there, torn, apart, copied, written, pc, f, seen, sent>>
vars == <<part, streamVars, listenVars, logVars>>

Stream == INSTANCE StreamSender
Table == INSTANCE Listen WITH cancelled <- stopped
Log == INSTANCE LogFollower

ASSUME ConstantsAssumption ==
  Stream!ConstantsAssumption /\ Table!ConstantsAssumption /\ Log!ConstantsAssumption

\* The commands of a user come one at a time ("one"), or some at once ("some").
Parts == {"stream", "one", "some", "log"}
OneAtATime == \A c, d \in Callers : caller[c] # "idle" /\ caller[d] # "idle" => c = d

AnyOf(S) == CHOOSE x \in S : TRUE

Init ==
  /\ part \in Parts
  /\ Stream!Init /\ (part # "stream" => mode = AnyOf(Modes))
  /\ Table!Init
  /\ Log!Init /\ (part # "log" => kind = AnyOf(Kinds))

StreamRuns(A) == part = "stream" /\ A /\ UNCHANGED <<part, listenVars, logVars>>
TableRuns(A) ==
  /\ part \in {"one", "some"} /\ A /\ (part = "one" => OneAtATime')
  /\ UNCHANGED <<part, streamVars, logVars>>
LogRuns(A) == part = "log" /\ A /\ UNCHANGED <<part, streamVars, listenVars>>

Next == StreamRuns(Stream!Next) \/ TableRuns(Table!Next) \/ LogRuns(Log!Next)

\* Each part is scheduled as its module says.
Fairness ==
  /\ WF_vars(StreamRuns(Stream!Progress))
  /\ WF_vars(TableRuns(Table!Progress))
  /\ WF_vars(LogRuns(Log!Follower)) /\ WF_vars(LogRuns(Log!WriteRest \/ Log!Create))

Spec == Init /\ [][Next]_vars /\ Fairness

-----------------------------------------------------------------------------
(* Properties: those of the parts *)

\* The types of the variables.
TypeOK == part \in Parts /\ Stream!TypeOK /\ Table!TypeOK /\ Log!TypeOK

\* A reply reaches the user in order, in chunks without a gap, closed once; and, unless the
\* agent says more after its message, whole: nothing is left in the buffer when the stream
\* ends or is cancelled.
ReplyWhole ==
  /\ Stream!InOrder /\ Stream!ChunksInSequence
  /\ ~MidMessage => Stream!AllShown /\ Stream!CancelFlushes

\* A user who listens sees no line that was in the log when the follower started, and the new
\* ones in their order and once, but for a log that is copied or is replaced while it is being
\* opened again; and can stop that as long as their commands come one at a time.
ListensInOrder == Log!InOrder /\ Log!NothingOld /\ (part = "one" => Table!CanBeStopped)

\* Buffered text goes out, Close ends every listener, and a listener ends up at the end of
\* the log.
Completes == Stream!BufferGoesOut /\ Table!CloseEndsAll /\ (part = "log" => Log!CaughtUp)
=============================================================================
