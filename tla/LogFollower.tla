------------------------------ MODULE LogFollower ------------------------------
(***************************************************************************)
(* A listener and the session log it follows (listen.go).  The logs of     *)
(* claude, codex and gemini are files of lines, which their owner appends  *)
(* to, in one write or in two, and may replace or truncate, again and      *)
(* again; that of hermes is one document, which is written anew with every *)
(* message.                                                                *)
(*                                                                         *)
(* A line is a number and every line has a text to show; a file is a       *)
(* sequence of half lines, a document a sequence of lines.                 *)
(***************************************************************************)
EXTENDS Naturals, Sequences

CONSTANTS
  Kinds,       \* kinds of logs: "lines", "document"
  Before,      \* lines that are there when the listener starts
  Lines,       \* bound: lines that are written, those included
  Cuts,        \* where the first of two writes of a line may stop: "text", in its text, or "end",
               \* before the end of the line
  Files,       \* bound: files that get the log's name
  Replacings   \* what the owner may do to the file: "move", "copy", "truncate"

ConstantsAssumption ==
  /\ Kinds \subseteq {"lines", "document"}
  /\ Before \in Nat /\ Lines \in Nat /\ Before <= Lines
  /\ Cuts \subseteq {"text", "end"} /\ Files \in Nat \ {0}
  /\ Replacings \subseteq {"move", "copy", "truncate"}

VARIABLES
  kind,      \* of the log
  files,     \* file -> content; each file replaces the one before it
  path,      \* the last file of the log's name
  there,     \* it has the name; otherwise it was moved away, and there is none
  torn,      \* a write is half done
  apart,     \* lines that are written apart from their end
  copied,    \* a file was replaced by a copy (history)
  written,   \* lines written
  pc,        \* the follower: "start", "read", "eof", "reopen", "ended"
  f,         \* the open file: [file, info, pos, part]; from: lines that were there when the follower
             \* started; mistaken: a file was opened as if it were the one before it (histories)
  seen,      \* followHermesSessionFile: seen
  sent       \* the lines given to sendReply

log == <<kind, files, path, there, torn, apart, copied, written>>
follower == <<pc, f, seen, sent>>
vars == <<log, follower>>

Half(l, h) == <<l, h>>
Whole(l) == <<Half(l, 1), Half(l, 2)>>

WholeLines(n) == [i \in 1 .. 2 * n |-> Half((i + 1) \div 2, 2 - (i % 2))]

Unstarted == Lines + 1
Closed == [file |-> 0, info |-> 0, pos |-> 0, part |-> <<>>, from |-> Unstarted, mistaken |-> FALSE]

Init ==
  /\ kind \in Kinds
  /\ files = [n \in 1 .. Files |-> IF n = 1 THEN WholeLines(Before) ELSE <<>>]
  /\ path = 1 /\ there = TRUE /\ torn = FALSE /\ apart = {} /\ copied = FALSE
  /\ written = Before
  /\ pc = "start" /\ f = Closed /\ seen = 0
  /\ sent = <<>>

---------------------------------------------------------------------------
(* The owner of the log *)

Extend(halves) == files' = [files EXCEPT ![path] = @ \o halves]

WriteLine ==
  /\ there /\ ~torn /\ written < Lines
  /\ written' = written + 1
  /\ Extend(Whole(written'))
  /\ UNCHANGED <<kind, path, there, torn, apart, copied, follower>>

\* The rest of the line follows with WriteRest.
WriteHalf(cut) ==
  /\ kind = "lines" /\ there /\ ~torn /\ written < Lines
  /\ torn' = TRUE
  /\ written' = written + 1
  /\ apart' = IF cut = "end" THEN apart \cup {written'} ELSE apart
  /\ Extend(<<Half(written', 1)>>)
  /\ UNCHANGED <<kind, path, there, copied, follower>>

\* So does the rest of the document.
RewriteHalf ==
  /\ kind = "document" /\ ~torn /\ written < Lines
  /\ torn' = TRUE
  /\ written' = written + 1
  /\ Extend(Whole(written'))
  /\ UNCHANGED <<kind, path, there, apart, copied, follower>>

WriteRest ==
  /\ torn /\ torn' = FALSE
  /\ IF kind = "lines" THEN Extend(<<Half(written, 2)>>) ELSE UNCHANGED files
  /\ UNCHANGED <<kind, path, there, apart, copied, written, follower>>

Replacing(what) ==
  /\ what \in Replacings /\ kind = "lines" /\ there /\ ~torn
  /\ UNCHANGED <<kind, torn, apart, written, follower>>

\* The log is moved away; the next one is created.
MoveAway == Replacing("move") /\ path < Files /\ there' = FALSE /\ UNCHANGED <<files, path, copied>>

Create ==
  /\ ~there /\ there' = TRUE /\ path' = path + 1
  /\ UNCHANGED <<kind, files, torn, apart, copied, written, follower>>

\* The log is written anew under another name, and renamed.
RenameOver ==
  /\ Replacing("copy") /\ path < Files
  /\ path' = path + 1 /\ files' = [files EXCEPT ![path'] = files[path]]
  /\ copied' = TRUE
  /\ UNCHANGED there

Truncate == Replacing("truncate") /\ files' = [files EXCEPT ![path] = <<>>] /\ UNCHANGED <<path, there, copied>>

---------------------------------------------------------------------------
(* The listener *)

\* The messages of the document; of half a document, none.
Messages == IF torn THEN 0 ELSE Len(files[1]) \div 2

\* os.Open, Stat and the seek to the end; a document is counted.
Start ==
  /\ pc = "start"
  /\ IF kind = "document"
       THEN pc' = "read" /\ seen' = Messages /\ f' = [f EXCEPT !.from = Messages]
       ELSE /\ IF ~there THEN pc' = "ended" /\ UNCHANGED f
               ELSE pc' = "read" /\ f' = [f EXCEPT !.file = path, !.info = path, !.pos = Len(files[path]),
                                                  !.from = written]
            /\ UNCHANGED seen
  /\ UNCHANGED <<log, sent>>

\* A line of the log begins at i and ends with the next half.  What is left of another
\* line before it would spoil it.
LineAt(halves, i) ==
  /\ i < Len(halves)
  /\ halves[i][2] = 1 /\ halves[i + 1] = Half(halves[i][1], 2)
  /\ i = 1 \/ halves[i - 1][2] = 2

\* The lines of a text.
LinesOf(halves) ==
  LET upTo[i \in 0 .. Len(halves)] ==
        IF i = 0 THEN <<>>
        ELSE IF LineAt(halves, i) THEN Append(upTo[i - 1], halves[i][1]) ELSE upTo[i - 1]
  IN upTo[Len(halves)]

\* The rest of a text after its last line.
Rest(halves) ==
  IF halves # <<>> /\ halves[Len(halves)][2] = 1 THEN <<halves[Len(halves)]>> ELSE <<>>

\* ReadString: all there is; what is not a whole line is kept.
Read ==
  LET content == files[f.file]
      text == f.part \o SubSeq(content, f.pos + 1, Len(content))
  IN /\ pc = "read" /\ kind = "lines" /\ f.pos < Len(content)
     /\ sent' = sent \o LinesOf(text)
     /\ f' = [f EXCEPT !.pos = Len(content), !.part = Rest(text)]
     /\ UNCHANGED <<log, pc, seen>>

\* ReadString at the end of the file: what was kept is a line if only its end is missing.  Shown or
\* not, it is forgotten.
AtEnd ==
  /\ pc = "read" /\ kind = "lines" /\ f.pos >= Len(files[f.file])
  /\ pc' = "eof"
  /\ sent' = sent \o (IF f.part # <<>> /\ f.part[1][1] \in apart THEN <<f.part[1][1]>> ELSE <<>>)
  /\ f' = [f EXCEPT !.part = <<>>]
  /\ UNCHANGED <<log, seen>>

\* reopenJSONLSessionFileIfRotated: another file, or one that became shorter.
Rotated == path # f.info \/ Len(files[path]) < f.pos

Check ==
  /\ pc = "eof"
  /\ IF there /\ Rotated
       THEN pc' = "reopen" /\ f' = [f EXCEPT !.info = path]
       ELSE pc' = "read" /\ UNCHANGED f
  /\ UNCHANGED <<log, seen, sent>>

\* The file of the log's name at this moment, from its beginning; it goes by the info of the one
\* that was checked.
Reopen ==
  /\ pc = "reopen"
  /\ IF ~there THEN pc' = "ended" /\ UNCHANGED f
     ELSE pc' = "read" /\ f' = [f EXCEPT !.file = path, !.pos = 0, !.mistaken = @ \/ path # f.info]
  /\ UNCHANGED <<log, seen, sent>>

\* The messages after the first n of those seen.
After(n, m) == [i \in 1 .. m - n |-> n + i]

\* Mutant of Poll: a document that cannot be read counts as an empty one.
PollForgets ==
  /\ pc = "read" /\ kind = "document" /\ Messages # seen
  /\ sent' = sent \o After(seen, Messages)
  /\ seen' = Messages
  /\ UNCHANGED <<log, pc, f>>

\* followHermesSessionFile: the messages that are new.
Poll ==
  /\ pc = "read" /\ kind = "document" /\ Messages > seen
  /\ sent' = sent \o After(seen, Messages)
  /\ seen' = Messages
  /\ UNCHANGED <<log, pc, f>>

\* One of them cannot be sent, which ends the listener.
PollFails ==
  /\ pc = "read" /\ kind = "document"
  /\ \E last \in seen + 1 .. Messages : sent' = sent \o After(seen, last)
  /\ pc' = "ended"
  /\ UNCHANGED <<log, f, seen>>

Owner ==
  \/ WriteLine \/ (\E cut \in Cuts : WriteHalf(cut)) \/ RewriteHalf \/ WriteRest
  \/ MoveAway \/ Create \/ RenameOver \/ Truncate

\* One goroutine.
Follower == Start \/ Read \/ AtEnd \/ Check \/ Reopen \/ Poll \/ PollFails

Next == Owner \/ Follower

\* The follower runs; the owner of the log finishes what it has begun.
Fairness == WF_vars(Follower) /\ WF_vars(WriteRest \/ Create)

Spec == Init /\ [][Next]_vars /\ Fairness

---------------------------------------------------------------------------
(* Properties *)

SentLines == {sent[i] : i \in 1 .. Len(sent)}

\* The types of the variables.
TypeOK ==
  /\ kind \in Kinds /\ path \in 1 .. Files /\ there \in BOOLEAN /\ torn \in BOOLEAN /\ copied \in BOOLEAN
  /\ written \in Before .. Lines /\ apart \subseteq 1 .. Lines
  /\ pc \in {"start", "read", "eof", "reopen", "ended"}
  /\ f.file \in 0 .. Files /\ f.info \in 0 .. Files /\ f.pos \in 0 .. 2 * Lines /\ Len(f.part) <= 1
  /\ seen \in 0 .. Lines
  /\ \A i \in 1 .. Len(sent) : sent[i] \in 1 .. Lines

\* The user gets the lines in their order and none twice, however often the log is replaced or
\* truncated; unless it is copied, or replaced between the look at its name and the opening
\* (listen.go:170, 188), after which the new file goes by the info of the old one and is read again.
InOrder ==
  ~copied /\ ~f.mistaken => \A i, j \in 1 .. Len(sent) : i < j => sent[i] < sent[j]

\* Nothing is shown that was in the log when the follower started; unless it is copied.  (A
\* document that is being written then counts as empty: it is shown from its first message,
\* listen.go:200.)
NothingOld == ~copied => \A l \in SentLines : l > f.from

\* The follower ends up with the file of the log's name, read to its end.
CaughtUp ==
  <>[](pc = "ended" \/ (IF kind = "document" THEN seen = written
                        ELSE there /\ f.file = path /\ f.pos = Len(files[path])))

\* What is written into the log while it is followed is shown.
FollowedLineShown ==
  [](\A l \in 1 .. Lines : written >= l /\ f.from < l => <>(l \in SentLines \/ pc = "ended"))
=============================================================================
