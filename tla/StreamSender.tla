----------------------------- MODULE StreamSender -----------------------------
(***************************************************************************)
(* The reply to one message on its way to the user: the events of the      *)
(* stream (router_stream.go) go through the buffering sender               *)
(* (stream_sender.go) to the reply stream of the weibo platform, which     *)
(* cuts them into numbered chunks.  In simple mode only requests and the   *)
(* final text are sent.                                                    *)
(*                                                                         *)
(* Text is a sequence of pieces, numbered as the agent produces them.      *)
(* Where a buffered text may be cut depends on its wording and is left     *)
(* open; the line break after a pause and blank texts are left out.        *)
(***************************************************************************)
EXTENDS Naturals, Sequences, FiniteSets, SequencesExt, FiniteSetsExt

CONSTANTS
  Modes,      \* "stream", "simple"
  Pieces,     \* bound: pieces of text produced
  ChunkMax,   \* pieces in a chunk, maxWeiboChunk runes in the code
  Errors,     \* bound: writes to the connection that fail
  MidMessage  \* may a message be followed by more text of the same turn?

ConstantsAssumption ==
  /\ Modes \subseteq {"stream", "simple"}
  /\ Pieces \in Nat /\ ChunkMax \in Nat \ {0} /\ Errors \in Nat
  /\ MidMessage \in BOOLEAN

VARIABLES
  mode,       \* the session's simple mode
  fwd,        \* the forwarding loop: "opening", "loop", "ended", "failed" or "cancelled"
  cancelled,  \* the context of the turn
  stream,     \* the events still to come: "open", "last" (a message was sent), "done", "closed"
  sender,     \* streamReplySender
  text,       \* simple mode: the deltas, the final message, the error
  nextChunk,  \* ReplyStream.nextChunk
  wire,       \* the chunks that were sent
  produced,   \* pieces produced so far
  owed,       \* pieces the user is to see (history)
  left        \* writes that may still fail

vars == <<mode, fwd, cancelled, stream, sender, text, nextChunk, wire, produced, owed, left>>

Init ==
  /\ mode \in Modes
  /\ fwd = IF mode = "stream" THEN "opening" ELSE "loop"
  /\ cancelled = FALSE
  /\ stream = "open"
  /\ sender = [open |-> FALSE, buffer |-> <<>>, late |-> FALSE, done |-> FALSE]
  /\ text = [deltas |-> <<>>, final |-> <<>>, error |-> <<>>]
  /\ nextChunk = 0
  /\ wire = <<>>
  /\ produced = 0
  /\ owed = {}
  /\ left = Errors

---------------------------------------------------------------------------
(* The reply stream *)

Send(content, done) == [text |-> content, done |-> done]

\* The pieces of a text: all but the last have the given size.
CutAt(size, content) ==
  [i \in 1 .. Max({1, (Len(content) + size - 1) \div size}) |->
     SubSeq(content, (i - 1) * size + 1, Min({i * size, Len(content)}))]

\* Mutant of Split: chunks may be too long.
SplitLong(content) == CutAt(ChunkMax + 1, content)

\* splitContent: what is too long for a chunk.
Split(content) == CutAt(ChunkMax, content)

ChunksOf(send) ==
  LET parts == Split(send.text) IN
    [i \in 1 .. Len(parts) |-> Send(parts[i], send.done /\ i = Len(parts))]

Chunks(sends) == FlattenSeq([i \in 1 .. Len(sends) |-> ChunksOf(sends[i])])

Numbered(chunks) ==
  [i \in 1 .. Len(chunks) |-> [id |-> nextChunk + i - 1, text |-> chunks[i].text, done |-> chunks[i].done]]

\* The calls of SendChunk one handler makes: all of them succeed, or the
\* handler ends with the first chunk that cannot be written, which used up its
\* number.  Nothing is sent once the context of the call is cancelled.
Sent(sends) ==
  /\ wire' = wire \o Numbered(Chunks(sends))
  /\ nextChunk' = nextChunk + Len(Chunks(sends))
  /\ UNCHANGED left

SentUpTo(k, sends) ==
  /\ wire' = wire \o SubSeq(Numbered(Chunks(sends)), 1, k)
  /\ nextChunk' = nextChunk + k + 1

Breaks(sends) ==
  /\ Chunks(sends) # <<>>
  /\ \/ /\ cancelled
        /\ SentUpTo(0, sends) /\ UNCHANGED left
     \/ /\ left > 0 /\ left' = left - 1
        /\ \E k \in 0 .. Len(Chunks(sends)) - 1 : SentUpTo(k, sends)

---------------------------------------------------------------------------
(* The sender: what each call sends, and the state it leaves *)

\* emitText.
Text(content) == IF content = <<>> THEN <<>> ELSE <<Send(content, FALSE)>>

\* finalize.
Final == <<Send(<<>>, TRUE)>>

\* flushBufferedDelta, forced.
Flushed == Text(sender.buffer)
Empty == [sender EXCEPT !.buffer = <<>>, !.late = FALSE]

\* findDeltaFlushBoundary: the ends of a part that may go out unforced; once
\* the text has waited for too long, some of it has to.
Boundaries(buffer) == (IF sender.late THEN 1 ELSE 0) .. Len(buffer)

\* The pieces of the next event.
News == <<produced + 1>>
Produce == produced < Pieces /\ produced' = produced + 1
Owe(content) == owed' = owed \cup {content[i] : i \in 1 .. Len(content)}

---------------------------------------------------------------------------
(* forwardStreamToPlatform *)

Loops(m) == mode = m /\ fwd = "loop"
Same == UNCHANGED <<mode, cancelled>>
Keeps == UNCHANGED <<fwd, stream, text, produced, owed>>

Open ==
  /\ fwd = "opening"
  /\ \/ fwd' = "loop" /\ sender' = [sender EXCEPT !.open = TRUE] /\ UNCHANGED left
     \/ left > 0 /\ left' = left - 1 /\ fwd' = "failed" /\ UNCHANGED sender
  /\ UNCHANGED <<stream, text, nextChunk, wire, produced, owed>> /\ Same

\* A handler that sends: it goes on with the state new, or the loop ends.
Handles(sends, new) ==
  \/ /\ ~cancelled \/ Chunks(sends) = <<>>
     /\ Sent(sends) /\ sender' = new /\ UNCHANGED fwd
  \/ Breaks(sends) /\ fwd' = "failed" /\ UNCHANGED sender

\* More text may follow a message only if MidMessage says so.
More == stream = "open" \/ (stream = "last" /\ MidMessage)

\* PushDelta.
TakeDelta ==
  LET buffer == sender.buffer \o News IN
    /\ Loops("stream") /\ More /\ Produce
    /\ IF sender.done THEN Handles(<<>>, sender)
       ELSE \E n \in Boundaries(buffer) :
              Handles(Text(SubSeq(buffer, 1, n)),
                      [sender EXCEPT !.buffer = SubSeq(buffer, n + 1, Len(buffer)), !.late = @ /\ n = 0])
    /\ Owe(News)
    /\ UNCHANGED <<stream, text>> /\ Same

\* PushInformationalText: what is buffered first.
TakeRequest ==
  /\ Loops("stream") /\ More /\ Produce
  /\ IF sender.done THEN Handles(<<>>, sender) ELSE Handles(Flushed \o Text(News), Empty)
  /\ Owe(News)
  /\ UNCHANGED <<stream, text>> /\ Same

\* PushDeliverText: a message or an error, after which the reply is closed.  A
\* late message is not meant to be shown.
TakeMessage ==
  /\ Loops("stream") /\ stream \in {"open", "last"} /\ Produce
  /\ IF sender.done THEN Handles(<<>>, sender) /\ UNCHANGED owed
     ELSE Handles(Flushed \o Text(News) \o Final, [Empty EXCEPT !.done = TRUE]) /\ Owe(News)
  /\ stream' = "last"
  /\ UNCHANGED text /\ Same

\* Mutant of Settled: what is buffered is forgotten.
SettledAtOnce == IF sender.done THEN <<>> ELSE Final

\* finalize happens once.
Settled == IF sender.done THEN <<>> ELSE Flushed \o Final
Settling == [Empty EXCEPT !.done = TRUE]

TakeDone ==
  /\ Loops("stream") /\ stream \in {"open", "last"}
  /\ Handles(Settled, Settling)
  /\ stream' = "done"
  /\ UNCHANGED <<text, produced, owed>> /\ Same

TakeClosed ==
  /\ Loops("stream") /\ stream = "closed"
  /\ \/ (~cancelled \/ Settled = <<>>) /\ Sent(Settled) /\ sender' = Settling /\ fwd' = "ended"
     \/ Breaks(Settled) /\ fwd' = "failed" /\ UNCHANGED sender
  /\ UNCHANGED <<stream, text, produced, owed>> /\ Same

\* FlushPendingIfDelayed.
TakeTick ==
  /\ Loops("stream") /\ sender.late /\ sender.buffer # <<>>
  /\ Handles(Flushed, Empty)
  /\ UNCHANGED <<stream, text, produced, owed>> /\ Same

\* The loop notices that the context is cancelled, and settles without it.
TakeCancel ==
  /\ fwd = "loop" /\ cancelled
  /\ IF ~sender.open THEN fwd' = "cancelled" /\ UNCHANGED <<sender, nextChunk, wire, left>>
     ELSE \/ Sent(Settled) /\ sender' = Settling /\ fwd' = "cancelled"
          \/ /\ Settled # <<>> /\ left > 0 /\ left' = left - 1
             /\ \E k \in 0 .. Len(Chunks(Settled)) - 1 : SentUpTo(k, Settled)
             /\ fwd' = "failed" /\ UNCHANGED sender
  /\ UNCHANGED <<stream, text, produced, owed>> /\ Same

---------------------------------------------------------------------------
(* forwardSimpleStreamToPlatform *)

SimpleDelta ==
  /\ Loops("simple") /\ More /\ Produce
  /\ text' = [text EXCEPT !.deltas = @ \o News]
  /\ UNCHANGED <<fwd, sender, nextChunk, wire, owed, left, stream>> /\ Same

SimpleMessage ==
  /\ Loops("simple") /\ stream \in {"open", "last"} /\ Produce
  /\ text' = [text EXCEPT !.final = IF @ = <<>> THEN News ELSE @]
  /\ stream' = "last"
  /\ UNCHANGED <<fwd, sender, nextChunk, wire, owed, left>> /\ Same

SimpleError ==
  /\ Loops("simple") /\ stream \in {"open", "last"} /\ Produce
  /\ text' = [text EXCEPT !.error = News]
  /\ stream' = "last"
  /\ UNCHANGED <<fwd, sender, nextChunk, wire, owed, left>> /\ Same

\* The sender is made with the first text that is sent.
SimpleRequest ==
  /\ Loops("simple") /\ More /\ Produce
  /\ Handles(Text(News), [sender EXCEPT !.open = TRUE])
  /\ Owe(News)
  /\ UNCHANGED <<stream, text>> /\ Same

FinalText ==
  IF text.error # <<>> THEN text.error ELSE IF text.final # <<>> THEN text.final ELSE text.deltas

SimpleFinal ==
  IF sender.done THEN <<>>
  ELSE IF FinalText # <<>> THEN Text(FinalText) \o Final
  ELSE IF sender.open THEN Final ELSE <<>>

Ending == [sender EXCEPT !.open = (@ \/ FinalText # <<>>), !.done = (@ \/ sender.open \/ FinalText # <<>>)]

SimpleDone ==
  /\ Loops("simple") /\ stream \in {"open", "last"}
  /\ Handles(SimpleFinal, Ending)
  /\ Owe(FinalText)
  /\ stream' = "done"
  /\ UNCHANGED <<text, produced>> /\ Same

SimpleClosed ==
  /\ Loops("simple") /\ stream = "closed"
  /\ \/ (~cancelled \/ SimpleFinal = <<>>) /\ Sent(SimpleFinal) /\ sender' = Ending /\ fwd' = "ended"
     \/ Breaks(SimpleFinal) /\ fwd' = "failed" /\ UNCHANGED sender
  /\ Owe(FinalText)
  /\ UNCHANGED <<stream, text, produced>> /\ Same

---------------------------------------------------------------------------
(* The turn, and time *)

\* The done is the last event; a cancelled turn may close its stream without.
StreamCloses ==
  /\ stream = "done" \/ (cancelled /\ stream # "closed")
  /\ stream' = "closed"
  /\ UNCHANGED <<fwd, sender, text, nextChunk, wire, produced, owed, left>> /\ Same

Cancel ==
  /\ ~cancelled
  /\ cancelled' = TRUE
  /\ UNCHANGED <<mode, fwd, stream, sender, text, nextChunk, wire, produced, owed, left>>

\* maxBufferDelay passes.
Waits ==
  /\ sender.buffer # <<>> /\ ~sender.late
  /\ sender' = [sender EXCEPT !.late = TRUE]
  /\ UNCHANGED <<nextChunk, wire, left>> /\ Keeps /\ Same

Forward ==
  \/ Open \/ TakeTick \/ TakeCancel
  \/ TakeDone \/ TakeClosed \/ SimpleDone \/ SimpleClosed

Next ==
  \/ Forward
  \/ TakeDelta \/ TakeRequest \/ TakeMessage
  \/ SimpleDelta \/ SimpleMessage \/ SimpleError \/ SimpleRequest
  \/ StreamCloses \/ Cancel \/ Waits

\* The loop runs and its ticker ticks; the agent may be silent for ever.  (Every run comes
\* to a halt.)
Progress == Open \/ Waits \/ TakeTick \/ TakeCancel
Fairness == WF_vars(Progress)

Spec == Init /\ [][Next]_vars /\ Fairness

---------------------------------------------------------------------------
(* Properties *)

Shown == FlattenSeq([i \in 1 .. Len(wire) |-> wire[i].text])
ShownPieces == {Shown[i] : i \in 1 .. Len(Shown)}

\* The types of the variables.
TypeOK ==
  /\ mode \in Modes /\ cancelled \in BOOLEAN
  /\ fwd \in {"opening", "loop", "ended", "failed", "cancelled"}
  /\ stream \in {"open", "last", "done", "closed"}
  /\ {sender.open, sender.late, sender.done} \subseteq BOOLEAN
  /\ nextChunk \in Nat /\ produced \in 0 .. Pieces /\ owed \subseteq 1 .. Pieces /\ left \in 0 .. Errors
  /\ \A i \in 1 .. Len(wire) : Len(wire[i].text) <= ChunkMax

\* The user sees no text twice, and in stream mode all of it in the order it was
\* produced, the buffer last, whatever was buffered, cut and flushed.
InOrder ==
  LET all == IF fwd = "loop" THEN Shown \o sender.buffer ELSE Shown
  IN  \A i, j \in 1 .. Len(all) :
        i < j => IF mode = "stream" THEN all[i] < all[j] ELSE all[i] # all[j]

\* The platform puts a reply together by the numbers of its chunks: they have
\* no gaps, and only the last one says that the reply is complete.
ChunksInSequence ==
  \A i \in 1 .. Len(wire) : wire[i].id = i - 1 /\ (wire[i].done => i = Len(wire))

\* When the loop has ended with the stream, all that is owed has been shown,
\* and the reply was closed if there was any.
AllShown ==
  fwd = "ended" => /\ owed \subseteq ShownPieces
                   /\ wire # <<>> => wire[Len(wire)].done

\* A turn that is cancelled while its reply is being streamed ends with a closed
\* reply, as long as the connection works.
CancelSettles ==
  mode = "stream" /\ fwd \in {"cancelled", "failed"} /\ sender.open /\ left = Errors
    => wire # <<>> /\ wire[Len(wire)].done

\* A loop that notices the cancelled context shows what it has taken from the
\* stream and closes the reply.
CancelFlushes ==
  fwd = "cancelled" /\ sender.open =>
    /\ wire # <<>> /\ wire[Len(wire)].done
    /\ mode = "stream" => owed \subseteq ShownPieces

\* Buffered text does not wait for the agent's next words.
BufferGoesOut == []<>(sender.buffer = <<>> \/ fwd # "loop")
=============================================================================
