----------------------------- MODULE OutputProofs -----------------------------
(***************************************************************************)
(* Proofs about Output, for every value of its constants: the reply stream *)
(* of a message, the table of a user's listeners, and a listener with its  *)
(* log.  One part runs at a time, so its invariant is the conjunction of   *)
(* those of the parts, each kept by the steps of its part and by the       *)
(* steps of the others, which leave its variables alone.                   *)
(*                                                                         *)
(* The log: lines are written as halves in ascending order, in files each  *)
(* newer than the last, so what a follower has still to read is newer than *)
(* all it sent, until it takes a file for the one before it.  The table:   *)
(* what a command takes out is gone until the command is over.  The reply: *)
(* what was shown, with what is buffered, is what was produced, in order.  *)
(***************************************************************************)
EXTENDS Output, Sequences, SequenceFacts, TLAPS

-------------------------------------------------------------------------------
(* The log and its follower: the invariant *)

\* Halves of lines: the line, and which half.
Halved == Seq(Nat \X {1, 2})

\* The order of the halves of lines.
Rank(x) == 2 * x[1] + x[2]
Ascending(s) == \A i, j \in 1 .. Len(s) : i < j => Rank(s[i]) < Rank(s[j])

\* What has been written: whole lines, but for the half that is missing.
Top == 2 * written - (IF torn /\ kind = "lines" THEN 1 ELSE 0)

\* A file with lines up to w, and halves up to the given one.
FitsTo(s, w, top) ==
  /\ s \in Halved /\ Len(s) <= top /\ Ascending(s)
  /\ \A i \in 1 .. Len(s) : s[i][1] \in 1 .. w /\ Rank(s[i]) <= top + 2

FileFits(s) == FitsTo(s, written, Top)

\* The log and its files: each is newer than those before it, unless one was copied.
Past(x, s, pos) == \A j \in 1 .. Len(s) : j > pos => Rank(x) < Rank(s[j])
Above(s, t) == \A i \in 1 .. Len(s) : Past(s[i], t, 0)

OwnerInv ==
  /\ files \in [1 .. Files -> Halved] /\ \A q \in 1 .. Files : FileFits(files[q])
  /\ path \in 1 .. Files /\ \A q \in 1 .. Files : q > path => files[q] = <<>>
  /\ ~there => ~torn /\ path < Files
  /\ kind = "document" => path = 1 /\ there /\ Len(files[1]) = 2 * written
  /\ ~copied => \A p \in 1 .. Files : \A q \in 1 .. Files : p < q => Above(files[p], files[q])

Following == kind = "lines" /\ pc \in {"read", "eof", "reopen"}

\* The follower and its file.
Opened == [file : 0 .. Files, info : 0 .. Files, pos : 0 .. 2 * written, part : Halved,
           from : 0 .. Log!Unstarted, mistaken : BOOLEAN]

FollowerInv ==
  /\ f \in Opened /\ Len(f.part) <= 1
  /\ \A i \in 1 .. Len(f.part) : f.part[i][2] = 1 /\ f.part[i][1] \in 1 .. written /\ Rank(f.part[i]) <= Top + 2
  /\ kind = "document" => pc \in {"start", "read", "ended"}
  /\ pc = "start" => sent = <<>> /\ f = Log!Closed
  /\ pc \in {"eof", "reopen"} => f.part = <<>>
  /\ Following => /\ f.file \in 1 .. path /\ f.info \in 1 .. path /\ f.from <= written
                  /\ ~f.mistaken => f.file <= f.info /\ (pc # "reopen" => f.info = f.file)

\* A line newer than the start of the follower g and, as long as it mistook no file, than all that
\* were sent; and a file with such lines only, past a position.
Newer(lines, g, l) == l > g.from /\ (~g.mistaken => \A k \in 1 .. Len(lines) : lines[k] < l)
Unseen(lines, g, s, pos) == \A i \in 1 .. Len(s) : i > pos /\ s[i][2] = 1 => Newer(lines, g, s[i][1])

\* The follower may read its file s from the beginning once more.
Again(g, s, where) == (where = "reopen" /\ g.info = g.file) \/ Len(s) < g.pos \/ g.mistaken

\* What is still to be read.
Future ==
  /\ Unseen(sent, f, files[f.file], f.pos)
  /\ Again(f, files[f.file], pc) => Unseen(sent, f, files[f.file], 0)
  /\ \A q \in 1 .. Files : q > f.file => Unseen(sent, f, files[q], 0)
  /\ \A i \in 1 .. Len(f.part) :
       /\ Newer(sent, f, f.part[i][1])
       /\ Past(f.part[i], files[f.file], f.pos)
       /\ Len(files[f.file]) < f.pos => Past(f.part[i], files[f.file], 0)
       /\ \A q \in 1 .. Files : q > f.file => Past(f.part[i], files[q], 0)

\* What was sent, and what is still to be read.
Sorted(lines) == \A j, k \in 1 .. Len(lines) : j < k => lines[j] < lines[k]

SentInv ==
  /\ sent \in Seq(Nat) /\ \A k \in 1 .. Len(sent) : sent[k] \in 1 .. written
  /\ kind = "document" => /\ \A k \in 1 .. Len(sent) : sent[k] > f.from
                          /\ Sorted(sent)
                          /\ pc = "read" => /\ f.from <= seen /\ seen <= written
                                            /\ \A k \in 1 .. Len(sent) : sent[k] <= seen
  /\ kind = "lines" /\ ~copied => /\ \A k \in 1 .. Len(sent) : sent[k] > f.from
                                  /\ ~f.mistaken => Sorted(sent)
                                  /\ Following => Future

LogInv == Log!TypeOK /\ OwnerInv /\ FollowerInv /\ SentInv

-------------------------------------------------------------------------------
(* The log *)

\* The lines that are found in the halves s: those whose two halves follow each other.
Found(s, lines) ==
  /\ lines \in Seq(Nat)
  /\ \A k \in 1 .. Len(lines) : \E i \in 1 .. Len(s) : Log!LineAt(s, i) /\ lines[k] = s[i][1]
  /\ Ascending(s) => \A j, k \in 1 .. Len(lines) : j < k => lines[j] < lines[k]

\* Of a text come lines it has, and in their order.
LEMMA LinesFound == ASSUME NEW s \in Halved PROVE Found(s, Log!LinesOf(s))
<1> DEFINE n == Len(s)
           Rec(F) == [i \in 0 .. n |->
                        IF i = 0 THEN <<>>
                        ELSE IF Log!LineAt(s, i) THEN Append(F[i - 1], s[i][1]) ELSE F[i - 1]]
           upTo == CHOOSE F : F = Rec(F)
           g == [i \in 1 .. n |-> [x \in Seq(Nat) |->
                                     IF Log!LineAt(s, i) THEN Append(x, s[i][1]) ELSE x]]
<1>0. n \in Nat
  BY DEF Halved
<1>1. Log!LinesOf(s) = upTo[n] /\ n \in Nat
  BY <1>0 DEF Log!LinesOf
<1>2. upTo = Rec(upTo)
  <2>1. g \in [1 .. n -> [Seq(Nat) -> Seq(Nat)]]
    BY DEF Halved
  <2>2. PICK F \in [0 .. n -> Seq(Nat)] : F[0] = <<>> /\ \A i \in 1 .. n : F[i] = g[i][F[i - 1]]
    <3> HIDE DEF g
    <3> DEFINE X == Seq(Nat)
               e == <<>>
    <3>1. e \in X /\ g \in [1 .. n -> [X -> X]]
      BY <2>1
    <3> HIDE DEF g, n, X, e
    <3>2. \E F \in [0 .. n -> X] : F[0] = e /\ \A i \in 1 .. n : F[i] = g[i][F[i - 1]]
      BY <1>0, <3>1, Iterate
    <3> QED
      BY <3>2 DEF X, e
  <2>3. \A i \in 1 .. n : F[i - 1] \in Seq(Nat)
    BY <1>1
  <2>4. \A i \in 0 .. n : F[i] = Rec(F)[i]
    <3>1. \A i \in 1 .. n : g[i][F[i - 1]] = IF Log!LineAt(s, i) THEN Append(F[i - 1], s[i][1]) ELSE F[i - 1]
      BY <2>3
    <3>2. \A i \in 0 .. n : i = 0 \/ i \in 1 .. n
      BY <1>1
    <3> HIDE DEF g
    <3> QED
      BY <2>2, <3>1, <3>2
  <2>5. F = Rec(F)
    BY <2>4
  <2> QED
    BY <2>5, Zenon
<1> DEFINE Good(m) == /\ upTo[m] \in Seq(Nat)
                      /\ \A k \in 1 .. Len(upTo[m]) :
                           \E i \in 1 .. m : Log!LineAt(s, i) /\ upTo[m][k] = s[i][1]
                      /\ Ascending(s) =>
                           \A j, k \in 1 .. Len(upTo[m]) : j < k => upTo[m][j] < upTo[m][k]
           S == {m \in Nat : m <= n => Good(m)}
<1>3. upTo[0] = <<>>
      /\ \A i \in 1 .. n : upTo[i] = IF Log!LineAt(s, i) THEN Append(upTo[i - 1], s[i][1]) ELSE upTo[i - 1]
  <2> DEFINE r == Rec(upTo)
  <2>1. r[0] = <<>> /\ \A i \in 1 .. n : r[i] = IF Log!LineAt(s, i) THEN Append(upTo[i - 1], s[i][1]) ELSE upTo[i - 1]
    BY <1>1
  <2>2. r = upTo
    BY <1>2, Zenon
  <2> HIDE DEF r, upTo
  <2> QED
    BY <2>1, <2>2
<1> HIDE DEF upTo
<1>4. 0 \in S
  <2>1. Good(0)
    BY <1>3
  <2> QED
    BY <2>1
<1>5. ASSUME NEW m \in S PROVE m + 1 \in S
  <2>0. m \in Nat /\ m + 1 \in Nat /\ (m + 1 <= n => m <= n) /\ (m <= n => Good(m))
    BY <1>1, SMTT(60)
  <2> SUFFICES ASSUME m + 1 <= n PROVE Good(m + 1)
    <3> HIDE DEF Good
    <3> QED
      BY <2>0
  <2> DEFINE u == upTo[m]
             l == s[m + 1][1]
  <2>1. m \in Nat /\ Good(m) /\ Len(u) \in Nat /\ m + 1 \in 1 .. n /\ (m + 1) - 1 = m
    <3>1. m + 1 \in 1 .. n /\ (m + 1) - 1 = m /\ m <= n
      <4> HIDE DEF Good, n
      <4> QED
        BY <1>1, <2>0
    <3>2. Good(m)
      <4> HIDE DEF Good
      <4> QED
        BY <2>0, <3>1
    <3>3. u \in Seq(Nat)
      BY <3>2
    <3>4. Len(u) \in Nat
      <4> HIDE DEF u, Good
      <4> QED
        BY <3>3
    <3> HIDE DEF Good
    <3> QED
      BY <2>0, <3>1, <3>2, <3>4
  <2>2. upTo[m + 1] = IF Log!LineAt(s, m + 1) THEN Append(u, l) ELSE u
    BY <1>3, <2>1
  <2>3. CASE ~Log!LineAt(s, m + 1)
    BY <2>1, <2>2, <2>3
  <2>4. CASE Log!LineAt(s, m + 1)
    <3> DEFINE v == Append(u, l)
    <3>1. l \in Nat /\ u \in Seq(Nat) /\ v \in Seq(Nat) /\ Len(v) = Len(u) + 1 /\ v[Len(v)] = l
          /\ \A k \in 1 .. Len(u) : v[k] = u[k]
      BY <1>1, <2>1 DEF Halved
    <3>2. \A i \in 1 .. m : Ascending(s) /\ Log!LineAt(s, i) => s[i][1] < l
      <4> SUFFICES ASSUME NEW i \in 1 .. m, Ascending(s), Log!LineAt(s, i) PROVE s[i][1] < l
        OBVIOUS
      <4>1. s[i][2] = 1 /\ s[m + 1][2] = 1 /\ s[i][1] \in Nat
        BY <1>1, <2>1, <2>4, SMTT(60) DEF Log!LineAt, Halved
      <4>2. i \in 1 .. Len(s) /\ m + 1 \in 1 .. Len(s) /\ i < m + 1
        BY <1>1, <2>1
      <4>3. Rank(s[i]) < Rank(s[m + 1])
        BY <4>2 DEF Ascending
      <4> QED
        BY <3>1, <4>1, <4>3, SMTT(60) DEF Rank
    <3>3. upTo[m + 1] = v
      BY <2>2, <2>4
    <3> HIDE DEF v, l
    <3>a. \A k \in 1 .. Len(v) : k = Len(v) \/ (k \in 1 .. Len(u) /\ v[k] = u[k])
      <4>1. \A k \in 1 .. Len(u) + 1 : k = Len(u) + 1 \/ k \in 1 .. Len(u)
        BY <2>1
      <4> QED
        BY <3>1, <4>1
    <3>4. \A k \in 1 .. Len(v) : \E i \in 1 .. m + 1 : Log!LineAt(s, i) /\ v[k] = s[i][1]
      <4> SUFFICES ASSUME NEW k \in 1 .. Len(v)
                   PROVE  \E i \in 1 .. m + 1 : Log!LineAt(s, i) /\ v[k] = s[i][1]
        OBVIOUS
      <4>1. CASE k = Len(v)
        BY <2>1, <2>4, <3>1, <4>1 DEF l
      <4>2. CASE k \in 1 .. Len(u) /\ v[k] = u[k]
        <5>1. PICK i \in 1 .. m : Log!LineAt(s, i) /\ u[k] = s[i][1]
          BY <2>1, <4>2
        <5> QED
          BY <2>1, <4>2, <5>1
      <4> QED
        BY <3>a, <4>1, <4>2
    <3>5. Ascending(s) => \A j, k \in 1 .. Len(v) : j < k => v[j] < v[k]
      <4> SUFFICES ASSUME Ascending(s), NEW j \in 1 .. Len(v), NEW k \in 1 .. Len(v), j < k
                   PROVE  v[j] < v[k]
        OBVIOUS
      <4>1. j \in 1 .. Len(u) /\ v[j] = u[j]
        BY <2>1, <3>1, <3>a, SMTT(60)
      <4>2. CASE k = Len(v)
        BY <2>1, <3>1, <3>2, <4>1, <4>2
      <4>3. CASE k \in 1 .. Len(u) /\ v[k] = u[k]
        BY <2>1, <4>1, <4>3
      <4> QED
        BY <3>a, <4>2, <4>3
    <3> QED
      BY <3>1, <3>3, <3>4, <3>5
  <2> QED
    BY <2>3, <2>4
<1>6. S = Nat
  <2> HIDE DEF S
  <2>1. S \subseteq Nat
    BY DEF S
  <2> QED
    BY <1>4, <1>5, <2>1, SetInduction
<1>7. Good(n)
  <2>1. n \in S /\ n <= n
    BY <1>1, <1>6
  <2> HIDE DEF n
  <2> QED
    BY <2>1
<1> QED
  BY <1>1, <1>7, Zenon DEF Found

\* A sequence with another after it.
LEMMA Joined ==
  ASSUME NEW s \in Halved, NEW t \in Halved
  PROVE  /\ s \o t \in Halved /\ Len(s \o t) = Len(s) + Len(t) /\ Len(s) \in Nat /\ Len(t) \in Nat
         /\ \A k \in 1 .. Len(s) : (s \o t)[k] = s[k]
         /\ \A k \in 1 .. Len(s \o t) : \/ k \in 1 .. Len(s) /\ (s \o t)[k] = s[k]
                                        \/ k > Len(s) /\ k - Len(s) \in 1 .. Len(t) /\ (s \o t)[k] = t[k - Len(s)]
<1> USE DEF Halved
<1>1. s \o t \in Halved /\ Len(s \o t) = Len(s) + Len(t) /\ Len(s) \in Nat /\ Len(t) \in Nat
  OBVIOUS
<1>2. \A k \in 1 .. Len(s) + Len(t) : (s \o t)[k] = IF k <= Len(s) THEN s[k] ELSE t[k - Len(s)]
  BY SMTT(60)
<1>3. ASSUME NEW k \in 1 .. Len(s) + Len(t)
      PROVE  \/ k \in 1 .. Len(s) /\ (s \o t)[k] = s[k]
             \/ k > Len(s) /\ k - Len(s) \in 1 .. Len(t) /\ (s \o t)[k] = t[k - Len(s)]
  BY <1>1, <1>2
<1> QED
  BY <1>1, <1>2, <1>3

\* Halves of lines have numbers.
LEMMA RankType == ASSUME NEW s \in Halved PROVE \A i \in 1 .. Len(s) : Rank(s[i]) \in Nat /\ s[i] \in Nat \X {1, 2}
BY DEF Halved, Rank

\* What is joined in order ascends.
LEMMA JoinedAscending ==
  ASSUME NEW s \in Halved, NEW t \in Halved, Ascending(s), Ascending(t),
         \A i \in 1 .. Len(s) : \A j \in 1 .. Len(t) : Rank(s[i]) < Rank(t[j])
  PROVE  Ascending(s \o t)
<1> DEFINE u == s \o t
<1>1. \A k \in 1 .. Len(u) : \/ k \in 1 .. Len(s) /\ u[k] = s[k]
                             \/ k > Len(s) /\ k - Len(s) \in 1 .. Len(t) /\ u[k] = t[k - Len(s)]
  BY Joined
<1>2. Len(s) \in Nat /\ Len(u) \in Nat
  BY Joined
<1> HIDE DEF u
<1> SUFFICES ASSUME NEW i \in 1 .. Len(u), NEW j \in 1 .. Len(u), i < j PROVE Rank(u[i]) < Rank(u[j])
  BY DEF Ascending, u
<1>3. CASE i \in 1 .. Len(s) /\ u[i] = s[i]
  <2>1. CASE j \in 1 .. Len(s) /\ u[j] = s[j]
    BY <1>3, <2>1 DEF Ascending
  <2>2. CASE j > Len(s) /\ j - Len(s) \in 1 .. Len(t) /\ u[j] = t[j - Len(s)]
    BY <1>3, <2>2
  <2> QED
    BY <1>1, <2>1, <2>2
<1>4. CASE i > Len(s) /\ i - Len(s) \in 1 .. Len(t) /\ u[i] = t[i - Len(s)]
  <2>1. j > Len(s) /\ j - Len(s) \in 1 .. Len(t) /\ u[j] = t[j - Len(s)]
    BY <1>1, <1>2, <1>4
  <2>2. i - Len(s) < j - Len(s)
    BY <1>2
  <2> QED
    BY <1>4, <2>1, <2>2 DEF Ascending
<1> QED
  BY <1>1, <1>3, <1>4

\* Halves written after all others, up to the new Top.
NewHalves(t) ==
  /\ t \in Halved /\ Ascending(t)
  /\ \A j \in 1 .. Len(t) : /\ Rank(t[j]) > Top + 2 /\ Rank(t[j]) <= Top' + 2
                            /\ t[j][1] \in 1 .. written' /\ (t[j][2] = 1 => t[j][1] > written)
  /\ Top' >= Top + Len(t) /\ written' >= written /\ written' \in Before .. Lines

\* The numbers of a typed state.
Numbers ==
  /\ Before \in Nat /\ Lines \in Nat /\ written \in Before .. Lines /\ written \in Nat /\ Top \in Int /\ Top <= 2 * written
  /\ Files \in Nat \ {0}

LEMMA NumbersFit == ASSUME Log!TypeOK, Log!ConstantsAssumption PROVE Numbers
<1>1. Before \in Nat /\ Lines \in Nat /\ written \in Before .. Lines /\ Files \in Nat \ {0}
  BY DEF Log!TypeOK, Log!ConstantsAssumption
<1>2. written \in Nat
  BY <1>1
<1> QED
  BY <1>1, <1>2 DEF Numbers, Top

\* A file grows.
LEMMA FileGrows ==
  ASSUME LogInv, Log!ConstantsAssumption, Top' \in Int, NEW s, FileFits(s), NEW t, NewHalves(t)
  PROVE  FitsTo(s \o t, written', Top')
<1>0. Numbers
  BY NumbersFit DEF LogInv
<1>1. s \in Halved /\ t \in Halved /\ Len(s) <= Top /\ Ascending(s) /\ Ascending(t)
  BY DEF FileFits, FitsTo, NewHalves
<1> DEFINE u == s \o t
<1>2. /\ u \in Halved /\ Len(u) = Len(s) + Len(t) /\ Len(s) \in Nat /\ Len(t) \in Nat
      /\ \A k \in 1 .. Len(u) : \/ k \in 1 .. Len(s) /\ u[k] = s[k]
                                \/ k > Len(s) /\ k - Len(s) \in 1 .. Len(t) /\ u[k] = t[k - Len(s)]
  BY <1>1, Joined
<1>3. \A i \in 1 .. Len(s) : Rank(s[i]) \in Nat /\ Rank(s[i]) <= Top + 2 /\ s[i][1] \in 1 .. written
  BY <1>1, RankType DEF FileFits, FitsTo
<1>4. \A j \in 1 .. Len(t) : Rank(t[j]) \in Nat /\ Rank(t[j]) > Top + 2 /\ Rank(t[j]) <= Top' + 2 /\ t[j][1] \in 1 .. written'
  BY <1>1, RankType DEF NewHalves
<1>5. Ascending(u)
  <2>1. \A i \in 1 .. Len(s) : \A j \in 1 .. Len(t) : Rank(s[i]) < Rank(t[j])
    BY <1>0, <1>3, <1>4 DEF Numbers
  <2> QED
    BY <1>1, <2>1, JoinedAscending
<1>6. Top' >= Top + Len(t) /\ written' >= written /\ written' \in Nat /\ written \in Nat
  BY <1>0 DEF NewHalves, Numbers
<1>7. Len(u) <= Top'
  BY <1>0, <1>1, <1>2, <1>6 DEF Numbers
<1>8. \A k \in 1 .. Len(u) : u[k][1] \in 1 .. written' /\ Rank(u[k]) <= Top' + 2
  <2> SUFFICES ASSUME NEW k \in 1 .. Len(u) PROVE u[k][1] \in 1 .. written' /\ Rank(u[k]) <= Top' + 2
    OBVIOUS
  <2>1. CASE k \in 1 .. Len(s) /\ u[k] = s[k]
    BY <1>0, <1>2, <1>3, <1>6, <2>1, SMTT(60) DEF Numbers
  <2>2. CASE k - Len(s) \in 1 .. Len(t) /\ u[k] = t[k - Len(s)]
    BY <1>4, <2>2
  <2> QED
    BY <1>2, <2>1, <2>2
<1> QED
  BY <1>2, <1>5, <1>7, <1>8 DEF FitsTo

\* The file of the log's name grows.
LEMMA Grows ==
  ASSUME LogInv, Log!ConstantsAssumption, NEW t, NewHalves(t), there, Top' \in Int,
         files' = [files EXCEPT ![path] = @ \o t],
         UNCHANGED <<kind, path, there, copied, pc, f, seen, sent>>,
         kind = "document" => Len(files'[1]) = 2 * written'
  PROVE  OwnerInv' /\ FollowerInv' /\ SentInv'
<1>0. Numbers /\ written' \in Before .. Lines /\ written' >= written /\ written' \in Nat
  <2>1. Numbers /\ written' \in Before .. Lines /\ written' >= written
    BY NumbersFit DEF LogInv, NewHalves
  <2> QED
    BY <2>1 DEF Numbers
<1>1. /\ files \in [1 .. Files -> Halved] /\ t \in Halved /\ path \in 1 .. Files /\ files[path] \in Halved
      /\ \A q \in 1 .. Files : FileFits(files[q])
  BY DEF LogInv, OwnerInv, NewHalves
<1>2. /\ files' \in [1 .. Files -> Halved] /\ files'[path] = files[path] \o t
      /\ \A q \in 1 .. Files : q # path => files'[q] = files[q]
  <2>1. files[path] \o t \in Halved
    BY <1>1, Joined
  <2> QED
    BY <1>1, <2>1
<1>3. Top' >= Top
  <2>1. Len(t) \in Nat /\ Top' >= Top + Len(t)
    BY <1>1 DEF NewHalves, Halved
  <2> QED
    BY <1>0, <2>1 DEF Numbers
<1>4. \A q \in 1 .. Files : FitsTo(files'[q], written', Top')
  <2>1. FitsTo(files[path] \o t, written', Top')
    BY <1>1, FileGrows
  <2>2. ASSUME NEW s, FitsTo(s, written, Top) PROVE FitsTo(s, written', Top')
    <3>1. \A i \in 1 .. Len(s) : Rank(s[i]) \in Nat
      BY <2>2, RankType DEF FitsTo
    <3>2. Len(s) \in Nat
      BY <2>2 DEF FitsTo, Halved
    <3> QED
      BY <1>0, <1>3, <2>2, <3>1, <3>2 DEF FitsTo, Numbers
  <2> QED
    BY <1>1, <1>2, <2>1, <2>2 DEF FileFits
\* A half of a file now is one it had, at the same place, or a new one.
<1>5. ASSUME NEW q \in 1 .. Files, NEW i \in 1 .. Len(files'[q])
      PROVE  \/ i \in 1 .. Len(files[q]) /\ files'[q][i] = files[q][i]
             \/ /\ q = path /\ i > Len(files[q])
                /\ Rank(files'[q][i]) > Top + 2 /\ (files'[q][i][2] = 1 => files'[q][i][1] > written)
  <2>1. CASE q # path
    BY <1>2, <1>5, <2>1
  <2>2. CASE q = path
    <3> DEFINE s == files[path]
    <3>1. /\ Len(s \o t) = Len(s) + Len(t)
          /\ \A k \in 1 .. Len(s \o t) : \/ k \in 1 .. Len(s) /\ (s \o t)[k] = s[k]
                                         \/ k > Len(s) /\ k - Len(s) \in 1 .. Len(t) /\ (s \o t)[k] = t[k - Len(s)]
      BY <1>1, Joined
    <3>2. i \in 1 .. Len(s \o t) /\ files'[q][i] = (s \o t)[i] /\ files[q] = s
      BY <1>2, <1>5, <2>2
    <3> HIDE DEF s
    <3> QED
      BY <2>2, <3>1, <3>2, SMTT(60) DEF NewHalves
  <2> QED
    BY <2>1, <2>2
<1>6. \A q \in 1 .. Files : Len(files[q]) \in Nat /\ Len(files'[q]) \in Nat /\ Len(files[q]) <= Len(files'[q])
  <2>1. \A q \in 1 .. Files : files[q] \in Halved /\ files'[q] \in Halved
    BY <1>1, <1>2
  <2>2. Len(files'[path]) = Len(files[path]) + Len(t) /\ Len(t) \in Nat
    BY <1>1, <1>2, Joined
  <2> QED
    BY <1>2, <2>1, <2>2 DEF Halved
<1>7. \A k \in 1 .. Len(sent) : sent[k] \in Nat /\ sent[k] <= written
  BY <1>0 DEF LogInv, SentInv, Numbers
<1>a. \A q \in 1 .. Files : \A i \in 1 .. Len(files'[q]) : Rank(files'[q][i]) \in Nat /\ files'[q][i][1] \in Nat
  <2>1. \A q \in 1 .. Files : files'[q] \in Halved
    BY <1>2
  <2>2. \A q \in 1 .. Files : \A i \in 1 .. Len(files'[q]) : Rank(files'[q][i]) \in Nat
    BY <2>1, RankType
  <2>3. \A q \in 1 .. Files : \A i \in 1 .. Len(files'[q]) : files'[q][i][1] \in 1 .. written'
    BY <1>4 DEF FitsTo
  <2>4. \A l \in 1 .. written' : l \in Nat
    BY <1>0
  <2> QED
    BY <2>2, <2>3, <2>4
\* What came before the halves of a file still does.
<1>b. ASSUME NEW q \in 1 .. Files, NEW n \in Nat, NEW x, Rank(x) \in Nat, Rank(x) <= Top + 2, Past(x, files[q], n)
      PROVE  \A j \in 1 .. Len(files'[q]) : j > n => Rank(x) < Rank(files'[q][j])
  <2> SUFFICES ASSUME NEW j \in 1 .. Len(files'[q]), j > n PROVE Rank(x) < Rank(files'[q][j])
    OBVIOUS
  <2>1. Rank(files'[q][j]) \in Nat
    BY <1>a
  <2>2. CASE j \in 1 .. Len(files[q]) /\ files'[q][j] = files[q][j]
    BY <1>b, <2>2 DEF Past
  <2>3. CASE Rank(files'[q][j]) > Top + 2
    BY <1>0, <1>b, <2>1, <2>3, SMTT(60) DEF Numbers
  <2> QED
    BY <1>5, <2>2, <2>3
<1>8. OwnerInv'
  <2>1. \A q \in 1 .. Files : q > path => files'[q] = <<>>
    BY <1>1, <1>2 DEF LogInv, OwnerInv
  <2>2. ASSUME ~copied, NEW p \in 1 .. Files, NEW q \in 1 .. Files, p < q PROVE Above(files'[p], files'[q])
    <3>1. Above(files[p], files[q])
      BY <2>2 DEF LogInv, OwnerInv
    <3>2. CASE p = path
      <4>1. files'[q] = <<>>
        BY <2>1, <2>2, <3>2
      <4> QED
        BY <4>1 DEF Above, Past
    <3>3. CASE p # path
      <4> SUFFICES ASSUME NEW i \in 1 .. Len(files[p]) PROVE Past(files[p][i], files'[q], 0)
        BY <1>2, <3>3 DEF Above
      <4>1. Rank(files[p][i]) \in Nat /\ Rank(files[p][i]) <= Top + 2
        <5>1. FitsTo(files[p], written, Top)
          BY <1>1 DEF FileFits
        <5> QED
          BY <5>1, RankType DEF FitsTo
      <4>2. Past(files[p][i], files[q], 0)
        BY <3>1 DEF Above
      <4>3. \A j \in 1 .. Len(files'[q]) : j > 0 => Rank(files[p][i]) < Rank(files'[q][j])
        BY <1>b, <4>1, <4>2
      <4> QED
        BY <4>3 DEF Past
    <3> QED
      BY <3>2, <3>3
  <2>3. there' /\ path' \in 1 .. Files /\ (kind' = "document" => path' = 1 /\ Len(files'[1]) = 2 * written')
    BY <1>1 DEF LogInv, OwnerInv
  <2>4. \A q \in 1 .. Files : FileFits(files[q])'
    BY <1>4 DEF FileFits
  <2> QED
    BY <1>2, <2>1, <2>2, <2>3, <2>4 DEF OwnerInv
<1>9. FollowerInv'
  <2>1. /\ f \in Opened /\ Len(f.part) <= 1
        /\ \A i \in 1 .. Len(f.part) : f.part[i][2] = 1 /\ f.part[i][1] \in 1 .. written /\ Rank(f.part[i]) <= Top + 2
    BY DEF LogInv, FollowerInv
  <2>2. Opened'
        = [file : 0 .. Files, info : 0 .. Files, pos : 0 .. 2 * written', part : Halved,
           from : 0 .. Log!Unstarted, mistaken : BOOLEAN]
    BY DEF Opened, Log!Unstarted
  <2>3. f' \in Opened'
    <3>1. f.pos \in 0 .. 2 * written'
      BY <1>0, <2>1 DEF Numbers, Opened
    <3> QED
      BY <2>1, <2>2, <3>1 DEF Opened
  <2>4. \A i \in 1 .. Len(f.part) : f.part[i][1] \in 1 .. written' /\ Rank(f.part[i]) <= Top' + 2
    <3>1. \A i \in 1 .. Len(f.part) : Rank(f.part[i]) \in Nat
      BY <2>1, RankType DEF Opened
    <3> QED
      BY <1>0, <1>3, <2>1, <3>1, SMTT(60) DEF Numbers
  <2>5. Following' <=> Following
    BY DEF Following
  <2>6. f.from <= written => f.from <= written'
    <3>1. f.from \in 0 .. Lines + 1
      BY <2>1 DEF Opened, Log!Unstarted
    <3> QED
      BY <1>0, <3>1 DEF Numbers
  <2> QED
    BY <2>1, <2>3, <2>4, <2>5, <2>6 DEF LogInv, FollowerInv
<1>10. SentInv'
  <2>1. ASSUME Following PROVE \A l \in Nat : l > written => Newer(sent, f, l)
    <3>1. f.from \in Nat /\ f.from <= written
      <4>1. f.from \in 0 .. Lines + 1 /\ f.from <= written
        BY <2>1 DEF LogInv, FollowerInv, Opened, Log!Unstarted
      <4> QED
        BY <1>0, <4>1 DEF Numbers
    <3> QED
      BY <1>0, <1>7, <3>1 DEF Newer, Numbers
  <2>2. sent' = sent /\ f' = f /\ pc' = pc /\ (Following' <=> Following)
    BY DEF Following
  <2>3. ASSUME Following, NEW q \in 1 .. Files, NEW n \in Nat, Unseen(sent, f, files[q], n) PROVE Unseen(sent, f, files[q], n)'
    <3> SUFFICES ASSUME NEW i \in 1 .. Len(files'[q]), i > n, files'[q][i][2] = 1
                 PROVE  Newer(sent, f, files'[q][i][1])
      BY <2>2 DEF Unseen
    <3>1. files'[q][i][1] \in Nat
      BY <1>a
    <3> QED
      BY <1>5, <2>1, <2>3, <3>1 DEF Unseen
  <2>4. f \in Opened /\ f.pos \in Nat
    <3>1. f \in Opened
      BY DEF LogInv, FollowerInv
    <3> QED
      BY <1>0, <3>1 DEF Numbers, Opened
  <2>5. ASSUME Following, Future PROVE Future'
    <3>0. f.file \in 1 .. Files
      <4>1. f.file \in 1 .. path
        BY <2>5 DEF LogInv, FollowerInv
      <4> QED
        BY <1>0, <1>1, <4>1 DEF Numbers
    <3>1. Unseen(sent, f, files[f.file], f.pos)'
      <4>1. Unseen(sent, f, files[f.file], f.pos)
        BY <2>5 DEF Future
      <4> DEFINE q == f.file
                 n == f.pos
      <4>2. q \in 1 .. Files /\ n \in Nat /\ Unseen(sent, f, files[q], n)
        BY <2>4, <3>0, <4>1
      <4>3. q' = q /\ n' = n
        BY <2>2
      <4> HIDE DEF q, n
      <4>4. Unseen(sent', f', files'[q], n)
        BY <2>3, <2>5, <4>2 DEF Unseen
      <4> QED
        BY <4>3, <4>4 DEF q, n, Unseen
    <3>2. Again(f, files[f.file], pc)' => Unseen(sent', f', files'[f.file], 0)
      <4>1. Again(f, files[f.file], pc)' => Again(f, files[f.file], pc)
        BY <1>6, <2>2, <2>4, <3>0 DEF Again
      <4>2. Again(f, files[f.file], pc) => Unseen(sent, f, files[f.file], 0)
        BY <2>5 DEF Future
      <4> DEFINE q == f.file
      <4> HIDE DEF q
      <4>3. q \in 1 .. Files /\ (Unseen(sent, f, files[q], 0) => Unseen(sent', f', files'[q], 0))
        <5>1. q \in 1 .. Files
          BY <3>0 DEF q
        <5> QED
          BY <2>3, <2>5, <5>1 DEF Unseen
      <4> QED
        BY <4>1, <4>2, <4>3 DEF q
    <3>3. \A q \in 1 .. Files : q > f.file => Unseen(sent', f', files'[q], 0)
      <4> SUFFICES ASSUME NEW q \in 1 .. Files, q > f.file PROVE Unseen(sent', f', files'[q], 0)
        OBVIOUS
      <4>1. Unseen(sent, f, files[q], 0)
        BY <2>5 DEF Future
      <4> QED
        BY <2>3, <2>5, <4>1 DEF Unseen
    <3>4. ASSUME NEW i \in 1 .. Len(f.part)
          PROVE  /\ Newer(sent, f, f.part[i][1])
                 /\ \A j \in 1 .. Len(files'[f.file]) : j > f.pos => Rank(f.part[i]) < Rank(files'[f.file][j])
                 /\ Len(files'[f.file]) < f.pos =>
                      \A j \in 1 .. Len(files'[f.file]) : j > 0 => Rank(f.part[i]) < Rank(files'[f.file][j])
                 /\ \A q \in 1 .. Files : q > f.file =>
                      \A j \in 1 .. Len(files'[q]) : j > 0 => Rank(f.part[i]) < Rank(files'[q][j])
      <4> DEFINE x == f.part[i]
      <4>1. Rank(x) \in Nat /\ Rank(x) <= Top + 2
        BY <2>4, RankType DEF LogInv, FollowerInv, Opened
      <4>2. /\ Newer(sent, f, x[1]) /\ Past(x, files[f.file], f.pos)
            /\ Len(files[f.file]) < f.pos => Past(x, files[f.file], 0)
            /\ \A q \in 1 .. Files : q > f.file => Past(x, files[q], 0)
        BY <2>5 DEF Future
      <4> HIDE DEF x
      <4>3. ASSUME NEW q \in 1 .. Files, NEW n \in Nat, Past(x, files[q], n)
            PROVE  \A j \in 1 .. Len(files'[q]) : j > n => Rank(x) < Rank(files'[q][j])
        BY <1>b, <4>1, <4>3
      <4>4. Len(files'[f.file]) < f.pos => Len(files[f.file]) < f.pos
        BY <1>6, <2>4, <3>0
      <4>5. \A j \in 1 .. Len(files'[f.file]) : j > f.pos => Rank(x) < Rank(files'[f.file][j])
        BY <2>4, <3>0, <4>2, <4>3
      <4>6. Len(files'[f.file]) < f.pos =>
              \A j \in 1 .. Len(files'[f.file]) : j > 0 => Rank(x) < Rank(files'[f.file][j])
        BY <3>0, <4>2, <4>3, <4>4
      <4>7. \A q \in 1 .. Files : q > f.file =>
              \A j \in 1 .. Len(files'[q]) : j > 0 => Rank(x) < Rank(files'[q][j])
        BY <4>2, <4>3
      <4> QED
        BY <4>2, <4>5, <4>6, <4>7 DEF x
    <3> QED
      BY <2>2, <3>1, <3>2, <3>3, <3>4 DEF Future, Past
  <2>6. \A k \in 1 .. Len(sent) : sent[k] \in 1 .. written'
    BY <1>0, <1>7, SMTT(60) DEF LogInv, SentInv, Numbers
  <2>7. kind = "document" /\ pc = "read" => seen <= written'
    BY <1>0 DEF LogInv, SentInv, Log!TypeOK, Numbers, Log!ConstantsAssumption
  <2> QED
    BY <2>2, <2>5, <2>6, <2>7 DEF LogInv, SentInv, Sorted
<1> QED
  BY <1>8, <1>9, <1>10

-------------------------------------------------------------------------------
(* The log is written, and replaced *)

\* The types, but for the lines that are sent.
LEMMA OwnerTyped ==
  ASSUME LogInv, Log!ConstantsAssumption, Log!Owner
  PROVE  Log!TypeOK'
<1>1. written \in Before .. Lines /\ Before \in Nat /\ Lines \in Nat
  BY DEF LogInv, Log!TypeOK, Log!ConstantsAssumption
<1>2. written < Lines => written + 1 \in Before .. Lines /\ written + 1 \in 1 .. Lines
  BY <1>1
<1>3. path < Files => path + 1 \in 1 .. Files
  BY DEF LogInv, OwnerInv, Log!ConstantsAssumption
<1> USE DEF LogInv, Log!TypeOK, Log!Replacing, Log!follower
<1>4. CASE Log!WriteLine
  BY <1>1, <1>2, <1>4 DEF Log!WriteLine
<1>5. ASSUME NEW cut \in Cuts, Log!WriteHalf(cut) PROVE Log!TypeOK'
  <2>1. apart' \subseteq 1 .. Lines
    BY <1>1, <1>2, <1>5 DEF Log!WriteHalf
  <2> QED
    BY <1>1, <1>2, <1>5, <2>1 DEF Log!WriteHalf
<1>6. CASE Log!RewriteHalf
  BY <1>1, <1>2, <1>6 DEF Log!RewriteHalf
<1>7. CASE Log!WriteRest
  BY <1>7 DEF Log!WriteRest
<1>8. CASE Log!MoveAway
  BY <1>8 DEF Log!MoveAway
<1>9. CASE Log!Create
  BY <1>3, <1>9 DEF Log!Create, OwnerInv
<1>10. CASE Log!RenameOver
  BY <1>3, <1>10 DEF Log!RenameOver
<1>11. CASE Log!Truncate
  BY <1>11 DEF Log!Truncate
<1> QED
  BY <1>4, <1>5, <1>6, <1>7, <1>8, <1>9, <1>10, <1>11 DEF Log!Owner

\* A sequence of one half.
LEMMA OneHalf ==
  ASSUME NEW a \in Nat \X {1, 2}
  PROVE  <<a>> \in Halved /\ Len(<<a>>) = 1 /\ Ascending(<<a>>) /\ \A i \in 1 .. 1 : <<a>>[i] = a
BY DEF Halved, Ascending

\* A sequence of two halves.
LEMMA TwoHalves ==
  ASSUME NEW l \in Nat
  PROVE  /\ Log!Whole(l) \in Halved /\ Len(Log!Whole(l)) = 2 /\ Ascending(Log!Whole(l))
         /\ Log!Whole(l)[1] = <<l, 1>> /\ Log!Whole(l)[2] = <<l, 2>>
<1>1. Log!Whole(l) = <<<<l, 1>>, <<l, 2>>>>
  BY DEF Log!Whole, Log!Half
<1>2. <<l, 1>> \in Nat \X {1, 2} /\ <<l, 2>> \in Nat \X {1, 2}
  OBVIOUS
<1>3. Rank(<<l, 1>>) < Rank(<<l, 2>>)
  BY DEF Rank
<1> HIDE DEF Rank
<1> QED
  BY <1>1, <1>2, <1>3 DEF Halved, Ascending

\* A whole line, or a document, comes to a file.
LEMMA WholeKept ==
  ASSUME LogInv, Log!ConstantsAssumption, Log!WriteLine \/ Log!RewriteHalf
  PROVE  LogInv'
<1> DEFINE t == Log!Whole(written + 1)
<1>0. Log!TypeOK' /\ Numbers
  BY OwnerTyped, NumbersFit DEF LogInv, Log!Owner
<1>1. there
  BY DEF LogInv, OwnerInv, Log!WriteLine, Log!RewriteHalf
<1>2. /\ written' = written + 1 /\ written' \in Before .. Lines /\ written \in Nat /\ ~torn
      /\ (kind = "document" \/ torn' = torn) /\ files' = [files EXCEPT ![path] = @ \o t]
      /\ UNCHANGED <<kind, path, there, copied, pc, f, seen, sent>>
  BY <1>0 DEF Log!WriteLine, Log!RewriteHalf, Log!Extend, Log!follower, Log!TypeOK, Numbers
<1>3. Top = 2 * written /\ Top' = 2 * written + 2
  BY <1>2 DEF Top
<1>4. t \in Halved /\ Len(t) = 2 /\ Ascending(t) /\ t[1] = <<written + 1, 1>> /\ t[2] = <<written + 1, 2>>
  BY <1>2, TwoHalves
<1> HIDE DEF t
<1>5. NewHalves(t)
  BY <1>2, <1>3, <1>4 DEF NewHalves, Rank
<1>6. kind = "document" => Len(files'[1]) = 2 * written'
  <2> SUFFICES ASSUME kind = "document" PROVE Len(files'[1]) = 2 * written'
    OBVIOUS
  <2>1. path = 1 /\ Len(files[1]) = 2 * written /\ files \in [1 .. Files -> Halved] /\ 1 \in 1 .. Files
    BY DEF LogInv, OwnerInv
  <2> DEFINE s == files[1]
  <2>2. s \in Halved
    BY <2>1
  <2> HIDE DEF s
  <2>3. Len(s \o t) = Len(s) + Len(t)
    BY <1>4, <2>2, Joined
  <2> QED
    BY <1>2, <1>4, <2>1, <2>3 DEF s
<1>7. Top' \in Int
  BY <1>2, <1>3
<1> QED
  BY <1>0, <1>1, <1>2, <1>5, <1>6, <1>7, Grows DEF LogInv

\* Half a line, and the rest of it or of the document.
LEMMA HalvesKept ==
  ASSUME LogInv, Log!ConstantsAssumption, (\E cut \in Cuts : Log!WriteHalf(cut)) \/ Log!WriteRest
  PROVE  LogInv'
<1>0. Log!TypeOK' /\ Numbers /\ torn \in BOOLEAN /\ kind \in {"lines", "document"}
  BY OwnerTyped, NumbersFit DEF LogInv, Log!TypeOK, Log!ConstantsAssumption, Log!Owner
<1>1. written \in Nat /\ Lines \in Nat /\ (torn => there)
  BY <1>0 DEF Numbers, LogInv, OwnerInv
<1>2. ASSUME NEW cut \in Cuts, Log!WriteHalf(cut) PROVE LogInv'
  <2> DEFINE t == <<Log!Half(written + 1, 1)>>
  <2>1. /\ written' = written + 1 /\ written' \in Before .. Lines /\ files' = [files EXCEPT ![path] = @ \o t]
        /\ UNCHANGED <<kind, path, there, copied, pc, f, seen, sent>> /\ ~torn /\ torn' = TRUE /\ there
        /\ kind = "lines" /\ kind # "document"
    BY <1>0, <1>2 DEF Log!WriteHalf, Log!Extend, Log!follower, Log!TypeOK
  <2>2. Top = 2 * written /\ Top' = 2 * written + 1
    BY <1>1, <2>1 DEF Top
  <2>3. t \in Halved /\ Len(t) = 1 /\ Ascending(t) /\ t[1] = <<written + 1, 1>>
    <3>1. <<written + 1, 1>> \in Nat \X {1, 2} /\ t = <<<<written + 1, 1>>>>
      BY <1>1 DEF Log!Half
    <3> QED
      BY <3>1, OneHalf
  <2> HIDE DEF t
  <2>4. NewHalves(t)
    BY <1>1, <2>1, <2>2, <2>3 DEF NewHalves, Rank
  <2>5. Top' \in Int
    BY <1>1, <2>2
  <2> QED
    BY <1>0, <2>1, <2>4, <2>5, Grows DEF LogInv
<1>3. CASE Log!WriteRest
  <2>0. torn /\ ~torn' /\ UNCHANGED <<kind, path, there, copied, written, pc, f, seen, sent>> /\ there
    BY <1>1, <1>3 DEF Log!WriteRest, Log!follower
  <2>1. CASE kind = "lines"
    <3> DEFINE t == <<Log!Half(written, 2)>>
    <3>1. files' = [files EXCEPT ![path] = @ \o t]
      BY <1>3, <2>1 DEF Log!WriteRest, Log!Extend
    <3>2. Top = 2 * written - 1 /\ Top' = 2 * written
      BY <1>1, <2>0, <2>1 DEF Top
    <3>3. written >= 1
      <4>1. files[path] \in Halved /\ Len(files[path]) <= Top
        BY DEF LogInv, OwnerInv, FileFits, FitsTo
      <4>2. Len(files[path]) \in Nat
        BY <4>1 DEF Halved
      <4> QED
        BY <1>1, <3>2, <4>1, <4>2
    <3>4. t \in Halved /\ Len(t) = 1 /\ Ascending(t) /\ t[1] = <<written, 2>>
      <4>1. <<written, 2>> \in Nat \X {1, 2} /\ t = <<<<written, 2>>>>
        BY <1>1 DEF Log!Half
      <4> QED
        BY <4>1, OneHalf
    <3> HIDE DEF t
    <3>5. NewHalves(t)
      BY <1>0, <1>1, <2>0, <3>2, <3>3, <3>4 DEF NewHalves, Rank, Numbers
    <3>6. Top' \in Int /\ kind # "document"
      BY <1>1, <2>1, <3>2
    <3> QED
      BY <1>0, <2>0, <3>1, <3>5, <3>6, Grows DEF LogInv
  <2>2. CASE kind = "document"
    <3>1. UNCHANGED <<files, Top>>
      BY <1>3, <2>0, <2>2 DEF Log!WriteRest, Top
    <3>2. UNCHANGED <<Following, Future, Opened>>
      BY <2>0, <2>2, <3>1 DEF Following, Future, Opened, Log!Unstarted
    <3> QED
      BY <1>0, <2>0, <2>2, <3>1, <3>2 DEF LogInv, OwnerInv, FollowerInv, SentInv, FileFits
  <2> QED
    BY <1>0, <2>1, <2>2
<1> QED
  BY <1>2, <1>3

\* The log is moved away and the next one created, it is written anew, or truncated: the file of the
\* log's name loses its halves, another gets the name, or the promises end with a copy.
LEMMA ReplacedKept ==
  ASSUME LogInv, Log!ConstantsAssumption,
         Log!MoveAway \/ Log!Create \/ Log!RenameOver \/ Log!Truncate
  PROVE  LogInv'
<1>0. /\ Log!TypeOK' /\ Numbers /\ path \in 1 .. Files /\ files \in [1 .. Files -> Halved]
      /\ (path < Files => path + 1 \in 1 .. Files)
  <2>1. Log!TypeOK' /\ Numbers /\ path \in 1 .. Files /\ files \in [1 .. Files -> Halved]
    BY OwnerTyped, NumbersFit DEF LogInv, OwnerInv, Log!Owner
  <2> QED
    BY <2>1 DEF Numbers
<1>1. UNCHANGED <<kind, torn, written, Top, pc, f, seen, sent, Following, Opened>>
  <2>1. UNCHANGED <<kind, torn, written, pc, f, seen, sent>>
    BY DEF Log!MoveAway, Log!Create, Log!RenameOver, Log!Truncate, Log!Replacing, Log!follower
  <2> QED
    BY <2>1 DEF Top, Following, Opened, Log!Unstarted
<1>2. FileFits(<<>>) /\ <<>> \in Halved /\ Len(<<>>) = 0
  <2>1. files[path] \in Halved /\ Len(files[path]) <= Top
    BY DEF LogInv, OwnerInv, FileFits, FitsTo
  <2>2. Len(files[path]) \in Nat
    BY <2>1 DEF Halved
  <2>3. <<>> \in Halved /\ Len(<<>>) = 0
    BY DEF Halved
  <2> QED
    BY <1>0, <2>1, <2>2, <2>3 DEF FileFits, FitsTo, Ascending, Numbers
<1>3. \A g, q \in 1 .. Files : g <= q \/ q < g
  BY <1>0 DEF Numbers
\* The follower's part of the invariant is kept when the path does not fall back.
<1>4. ASSUME path' >= path, path' \in 1 .. Files PROVE FollowerInv'
  <2>1. \A n \in 1 .. path : n \in 1 .. path'
    BY <1>0, <1>4
  <2> QED
    BY <1>1, <2>1 DEF LogInv, FollowerInv
<1>5. CASE Log!MoveAway
  <2>1. path < Files /\ ~there' /\ UNCHANGED <<files, path, copied>> /\ ~torn /\ kind = "lines"
    BY <1>5 DEF Log!MoveAway, Log!Replacing
  <2>2. OwnerInv'
    BY <1>1, <2>1 DEF LogInv, OwnerInv, FileFits
  <2>3. FollowerInv'
    BY <1>0, <1>3, <1>4, <2>1
  <2>4. SentInv'
    BY <1>1, <2>1 DEF LogInv, SentInv, Future
  <2> QED
    BY <1>0, <2>2, <2>3, <2>4 DEF LogInv
<1>6. CASE Log!Create
  <2>1. ~there /\ there' /\ path' = path + 1 /\ path < Files /\ UNCHANGED <<files, copied>> /\ kind # "document"
    BY <1>6 DEF Log!Create, LogInv, OwnerInv
  <2>2. path' >= path /\ path' \in 1 .. Files /\ \A q \in 1 .. Files : q > path' => q > path
    BY <1>0, <2>1
  <2>3. OwnerInv'
    BY <1>1, <2>1, <2>2 DEF LogInv, OwnerInv, FileFits
  <2>4. SentInv'
    BY <1>1, <2>1 DEF LogInv, SentInv, Future
  <2> QED
    BY <1>0, <1>4, <2>2, <2>3, <2>4 DEF LogInv
<1>7. CASE Log!RenameOver
  <2>1. /\ path < Files /\ path' = path + 1 /\ copied' /\ there' = there /\ there /\ kind # "document"
        /\ files' = [files EXCEPT ![path'] = files[path]]
    BY <1>7 DEF Log!RenameOver, Log!Replacing
  <2>2. path' >= path /\ path' \in 1 .. Files /\ \A q \in 1 .. Files : q > path' => q > path /\ q # path'
    BY <1>0, <2>1
  <2>3. files' \in [1 .. Files -> Halved] /\ \A q \in 1 .. Files : files'[q] = IF q = path' THEN files[path] ELSE files[q]
    BY <1>0, <2>1, <2>2
  <2>4. OwnerInv'
    BY <1>0, <1>1, <2>1, <2>2, <2>3 DEF LogInv, OwnerInv, FileFits
  <2>5. SentInv'
    BY <1>1, <2>1 DEF LogInv, SentInv
  <2> QED
    BY <1>0, <1>4, <2>2, <2>4, <2>5 DEF LogInv
<1>8. CASE Log!Truncate
  <2>1. UNCHANGED <<path, there, copied>> /\ there /\ kind # "document" /\ files' = [files EXCEPT ![path] = <<>>]
    BY <1>8 DEF Log!Truncate, Log!Replacing
  <2>2. files' \in [1 .. Files -> Halved] /\ \A q \in 1 .. Files : files'[q] = IF q = path THEN <<>> ELSE files[q]
    BY <1>0, <1>2, <2>1
  <2>3. \A q \in 1 .. Files : files'[q] = files[q] \/ (files'[q] = <<>> /\ Len(files'[q]) = 0)
    BY <1>2, <2>2
  <2>4. OwnerInv'
    <3>1. ASSUME ~copied, NEW p \in 1 .. Files, NEW q \in 1 .. Files, p < q PROVE Above(files'[p], files'[q])
      <4>1. Above(files[p], files[q])
        BY <3>1 DEF LogInv, OwnerInv
      <4> QED
        BY <2>3, <4>1 DEF Above, Past
    <3> QED
      BY <1>1, <1>2, <2>1, <2>2, <3>1 DEF LogInv, OwnerInv, FileFits
  <2>5. FollowerInv'
    BY <1>0, <1>4, <2>1
  <2>6. ASSUME Following, Future PROVE Future'
    <3>1. f.file \in 1 .. Files /\ f' = f /\ sent' = sent /\ pc' = pc
      <4>1. f.file \in 1 .. path
        BY <2>6 DEF LogInv, FollowerInv
      <4> QED
        BY <1>0, <1>1, <4>1 DEF Numbers
    <3>2. CASE files'[f.file] = files[f.file]
      BY <2>3, <2>6, <3>1, <3>2 DEF Future, Unseen, Past
    <3>3. CASE files'[f.file] = <<>>
      <4>1. \A j \in 1 .. Len(files'[f.file]) : FALSE
        BY <1>2, <3>3
      <4> QED
        BY <2>3, <2>6, <3>1, <4>1, SMTT(60) DEF Future, Unseen, Past
    <3> QED
      BY <2>3, <3>1, <3>2, <3>3
  <2>7. SentInv'
    BY <1>1, <2>1, <2>6 DEF LogInv, SentInv
  <2> QED
    BY <1>0, <2>4, <2>5, <2>7 DEF LogInv
<1> QED
  BY <1>5, <1>6, <1>7, <1>8

-------------------------------------------------------------------------------
(* The follower *)

\* What the follower has to read: what it has kept and the rest of its file.
LEMMA TextOf ==
  ASSUME NEW c \in Halved, NEW pos \in Nat, pos <= Len(c), NEW s \in Halved, Len(s) <= 1
  PROVE  LET t == s \o SubSeq(c, pos + 1, Len(c)) IN
           /\ t \in Halved /\ Len(t) \in Nat
           /\ \A i \in 1 .. Len(t) : \/ i = 1 /\ i \in 1 .. Len(s) /\ t[i] = s[i]
                                     \/ \E k \in 1 .. Len(c) : k > pos /\ t[i] = c[k]
           /\ \A i \in 1 .. Len(t) : i > 1 => \E k \in 1 .. Len(c) : k > pos /\ t[i] = c[k]
           /\ (Ascending(c) /\ \A i \in 1 .. Len(s) : \A k \in 1 .. Len(c) : k > pos => Rank(s[i]) < Rank(c[k]))
                => Ascending(t)
<1> DEFINE r == SubSeq(c, pos + 1, Len(c))
           t == s \o r
<1>1. r \in Halved /\ Len(r) = Len(c) - pos /\ Len(c) \in Nat /\ \A j \in 1 .. Len(r) : r[j] = c[pos + j]
  <2>1. r \in Halved /\ Len(r) = Len(c) - pos
    BY SMTT(60) DEF Halved
  <2>2. Len(c) \in Nat
    BY DEF Halved
  <2>3. \A j \in 1 .. Len(r) : r[j] = c[pos + j]
    BY SMTT(60) DEF Halved
  <2> QED
    BY <2>1, <2>2, <2>3
<1>2. \A j \in 1 .. Len(r) : pos + j \in 1 .. Len(c) /\ pos + j > pos
  BY <1>1, SMTT(60)
<1> HIDE DEF r
<1>3. /\ t \in Halved /\ Len(s) \in Nat /\ Len(t) \in Nat
      /\ \A k \in 1 .. Len(t) : \/ k \in 1 .. Len(s) /\ t[k] = s[k]
                                \/ k > Len(s) /\ k - Len(s) \in 1 .. Len(r) /\ t[k] = r[k - Len(s)]
  <2>1. Len(t) = Len(s) + Len(r) /\ Len(s) \in Nat /\ Len(r) \in Nat
    BY <1>1, Joined
  <2> QED
    BY <1>1, <2>1, Joined
<1> HIDE DEF t
<1>4. ASSUME NEW i \in 1 .. Len(t), ~(i \in 1 .. Len(s) /\ t[i] = s[i])
      PROVE  \E k \in 1 .. Len(c) : k > pos /\ t[i] = c[k]
  <2>1. i - Len(s) \in 1 .. Len(r) /\ t[i] = r[i - Len(s)]
    BY <1>3, <1>4
  <2>2. pos + (i - Len(s)) \in 1 .. Len(c) /\ pos + (i - Len(s)) > pos /\ t[i] = c[pos + (i - Len(s))]
    BY <1>1, <1>2, <2>1
  <2> QED
    BY <2>2
<1>5. \A i \in 1 .. Len(t) : i \in 1 .. Len(s) => i = 1
  BY <1>3
<1>6. ASSUME Ascending(c), \A i \in 1 .. Len(s) : \A k \in 1 .. Len(c) : k > pos => Rank(s[i]) < Rank(c[k])
      PROVE  Ascending(t)
  <2>1. Ascending(r)
    <3> SUFFICES ASSUME NEW i \in 1 .. Len(r), NEW j \in 1 .. Len(r), i < j PROVE Rank(r[i]) < Rank(r[j])
      BY DEF Ascending
    <3>1. pos + i < pos + j
      BY <1>1
    <3> QED
      BY <1>1, <1>2, <1>6, <3>1 DEF Ascending
  <2>2. Ascending(s)
    <3>1. \A i, j \in 1 .. Len(s) : ~(i < j)
      BY <1>3
    <3> QED
      BY <3>1 DEF Ascending
  <2>3. \A i \in 1 .. Len(s) : \A j \in 1 .. Len(r) : Rank(s[i]) < Rank(r[j])
    BY <1>1, <1>2, <1>6
  <2> QED
    BY <1>1, <2>1, <2>2, <2>3, JoinedAscending DEF t
<1>7. \A i \in 1 .. Len(t) : \/ i = 1 /\ i \in 1 .. Len(s) /\ t[i] = s[i]
                            \/ \E k \in 1 .. Len(c) : k > pos /\ t[i] = c[k]
  BY <1>4, <1>5
<1>8. \A i \in 1 .. Len(t) : i > 1 => \E k \in 1 .. Len(c) : k > pos /\ t[i] = c[k]
  BY <1>4, <1>5
<1>9. t \in Halved /\ Len(t) \in Nat
  BY <1>3
<1>10. t = s \o SubSeq(c, pos + 1, Len(c))
  BY DEF t, r
<1> QED
  BY <1>6, <1>7, <1>8, <1>9, <1>10

\* Lines sent after others.
LEMMA SentMore ==
  ASSUME NEW a \in Seq(Nat), NEW b \in Seq(Nat)
  PROVE  /\ a \o b \in Seq(Nat)
         /\ \A k \in 1 .. Len(a \o b) : (\E i \in 1 .. Len(a) : (a \o b)[k] = a[i]) \/ (\E i \in 1 .. Len(b) : (a \o b)[k] = b[i])
         /\ ((\A i, j \in 1 .. Len(a) : i < j => a[i] < a[j]) /\ (\A i, j \in 1 .. Len(b) : i < j => b[i] < b[j])
              /\ \A i \in 1 .. Len(a) : \A j \in 1 .. Len(b) : a[i] < b[j])
              => \A i, j \in 1 .. Len(a \o b) : i < j => (a \o b)[i] < (a \o b)[j]
<1> DEFINE u == a \o b
<1>1. u \in Seq(Nat) /\ Len(u) = Len(a) + Len(b) /\ Len(a) \in Nat /\ Len(b) \in Nat
  OBVIOUS
<1>2. \A k \in 1 .. Len(u) : \/ k \in 1 .. Len(a) /\ u[k] = a[k]
                             \/ k > Len(a) /\ k - Len(a) \in 1 .. Len(b) /\ u[k] = b[k - Len(a)]
  <2>1. \A k \in 1 .. Len(a) + Len(b) : u[k] = IF k <= Len(a) THEN a[k] ELSE b[k - Len(a)]
    OBVIOUS
  <2>2. \A k \in 1 .. Len(a) + Len(b) : k \in 1 .. Len(a) \/ (k > Len(a) /\ k - Len(a) \in 1 .. Len(b))
    BY <1>1
  <2> HIDE DEF u
  <2>3. \A k \in 1 .. Len(a) : k <= Len(a) /\ k <= Len(a) + Len(b)
    BY <1>1
  <2>4. \A k \in 1 .. Len(u) : u[k] = IF k <= Len(a) THEN a[k] ELSE b[k - Len(a)]
    BY <1>1, <2>1 DEF u
  <2> QED
    BY <1>1, <2>2, <2>3, <2>4, SMTT(30)
<1> HIDE DEF u
<1>3. ASSUME \A i, j \in 1 .. Len(a) : i < j => a[i] < a[j], \A i, j \in 1 .. Len(b) : i < j => b[i] < b[j],
             \A i \in 1 .. Len(a) : \A j \in 1 .. Len(b) : a[i] < b[j],
             NEW i \in 1 .. Len(u), NEW j \in 1 .. Len(u), i < j
      PROVE  u[i] < u[j]
  <2>1. CASE i \in 1 .. Len(a) /\ u[i] = a[i]
    BY <1>2, <1>3, <2>1
  <2>2. CASE i > Len(a) /\ i - Len(a) \in 1 .. Len(b) /\ u[i] = b[i - Len(a)]
    <3>1. j > Len(a) /\ i - Len(a) < j - Len(a) /\ ~(j \in 1 .. Len(a))
      <4>1. i < j /\ i \in Int /\ j \in Int
        BY <1>3
      <4> QED
        BY <1>1, <2>2, <4>1, SMTT(60)
    <3>2. j - Len(a) \in 1 .. Len(b) /\ u[j] = b[j - Len(a)]
      BY <1>2, <1>3, <3>1
    <3>3. b[i - Len(a)] < b[j - Len(a)]
      BY <1>3, <2>2, <3>1, <3>2
    <3> QED
      BY <2>2, <3>2, <3>3
  <2> QED
    BY <1>2, <1>3, <2>1, <2>2
<1> QED
  BY <1>1, <1>2, <1>3 DEF u

\* The log stays as it is.
Same == UNCHANGED <<kind, files, path, there, torn, copied, written>>

\* What is said of the log is kept by steps of the follower.
LEMMA SameInv == ASSUME OwnerInv, UNCHANGED Log!log PROVE OwnerInv' /\ Same /\ Top' = Top /\ Opened' = Opened
BY DEF OwnerInv, Same, FileFits, Top, Opened, Log!log, Log!Unstarted

\* The types of the variables that a step of the follower leaves alone.
LEMMA FollowerTyped ==
  ASSUME Log!TypeOK, UNCHANGED Log!log, pc' \in {"start", "read", "eof", "reopen", "ended"},
         f'.file \in 0 .. Files, f'.info \in 0 .. Files, f'.pos \in 0 .. 2 * Lines, Len(f'.part) <= 1,
         seen' \in 0 .. Lines, \A i \in 1 .. Len(sent') : sent'[i] \in 1 .. Lines
  PROVE  Log!TypeOK'
BY DEF Log!TypeOK, Log!log

\* An open file is one of the log, and its place is in the range of what is written.
LEMMA FileOpen ==
  ASSUME LogInv, Log!ConstantsAssumption, Following
  PROVE  /\ f.file \in 1 .. Files /\ f.info \in 1 .. Files /\ f.pos \in Nat /\ f.pos \in 0 .. 2 * Lines /\ f.from \in Nat
         /\ files[f.file] \in Halved /\ FitsTo(files[f.file], written, Top) /\ Len(files[f.file]) \in Nat
         /\ kind = "lines" /\ kind # "document"
<1>1. Numbers /\ path \in 1 .. Files /\ f.file \in 1 .. path /\ f.info \in 1 .. path /\ f \in Opened
  BY NumbersFit DEF LogInv, OwnerInv, FollowerInv
<1>2. f.file \in 1 .. Files /\ f.info \in 1 .. Files /\ f.pos \in Nat /\ f.pos \in 0 .. 2 * Lines /\ f.from \in Nat
  <2>1. f.file \in 1 .. Files /\ f.info \in 1 .. Files
    BY <1>1 DEF Numbers
  <2>2. f.pos \in Nat /\ f.pos <= 2 * written /\ f.from \in 0 .. Lines + 1
    BY <1>1 DEF Numbers, Opened, Log!Unstarted
  <2> QED
    BY <1>1, <2>1, <2>2 DEF Numbers
<1>3. FileFits(files[f.file])
  BY <1>2 DEF LogInv, OwnerInv
<1> QED
  BY <1>2, <1>3, SMTT(60) DEF FileFits, FitsTo, Halved, Following

\* A follower starts.
LEMMA StartsKept == ASSUME LogInv, Log!ConstantsAssumption, Log!Start PROVE LogInv'
<1>0. /\ Numbers /\ Log!TypeOK /\ kind \in {"lines", "document"} /\ torn \in BOOLEAN /\ path \in 1 .. Files
      /\ UNCHANGED Log!log /\ Same /\ OwnerInv' /\ Top' = Top /\ Opened' = Opened
      /\ pc = "start" /\ sent' = sent /\ sent = <<>> /\ \A k \in 1 .. Len(sent) : FALSE
  <2>1. UNCHANGED Log!log /\ pc = "start" /\ sent' = sent
    BY DEF Log!Start
  <2>2. sent = <<>> /\ Len(<<>>) = 0
    BY <2>1 DEF LogInv, FollowerInv
  <2> QED
    BY <2>1, <2>2, NumbersFit, SameInv DEF LogInv, OwnerInv, Log!TypeOK, Log!ConstantsAssumption
<1>1. f \in Opened /\ Len(f.part) <= 1 /\ sent \in Seq(Nat) /\ written \in 0 .. Log!Unstarted /\ written <= Lines
  BY <1>0 DEF LogInv, FollowerInv, SentInv, Numbers, Log!Unstarted
<1>a. f.part = <<>> /\ f.mistaken = FALSE
  BY <1>0 DEF LogInv, FollowerInv, Log!Closed
<1>2. CASE kind = "document"
  <2>1. pc' = "read" /\ seen' = Log!Messages /\ f' = [f EXCEPT !.from = Log!Messages]
    BY <1>2 DEF Log!Start
  <2>2. Log!Messages \in {0, written}
    <3>1. Len(files[1]) = 2 * written
      BY <1>2 DEF LogInv, OwnerInv
    <3> QED
      BY <1>0, <3>1 DEF Log!Messages, Numbers
  <2>3. seen' \in 0 .. Lines /\ seen' <= written
    BY <1>0, <1>1, <2>1, <2>2 DEF Numbers
  <2>4. /\ f' \in Opened /\ f'.file = f.file /\ f'.info = f.info /\ f'.pos = f.pos /\ f'.part = f.part /\ f'.from = seen'
    <3>1. Log!Messages \in 0 .. Log!Unstarted
      BY <1>0, <1>1, <2>2 DEF Numbers, Log!Unstarted
    <3> QED
      BY <1>1, <2>1, <3>1 DEF Opened
  <2>5. Log!TypeOK'
    <3>1. f.file \in 0 .. Files /\ f.info \in 0 .. Files /\ f.pos \in 0 .. 2 * Lines /\ Len(f.part) <= 1
      BY <1>0 DEF Log!TypeOK
    <3>2. \A i \in 1 .. Len(sent') : sent'[i] \in 1 .. Lines
      BY <1>0
    <3> QED
      BY <1>0, <2>1, <2>3, <2>4, <3>1, <3>2, FollowerTyped
  <2>6. ~Following' /\ kind' = "document"
    BY <1>0, <1>2 DEF Following, Same
  <2>7. FollowerInv'
    BY <1>0, <1>1, <1>2, <2>1, <2>4, <2>6 DEF LogInv, FollowerInv, Same
  <2>8. SentInv'
    BY <1>0, <1>1, <1>2, <2>3, <2>4, <2>6 DEF SentInv, Sorted, Same
  <2> QED
    BY <1>0, <2>5, <2>7, <2>8 DEF LogInv
<1>3. CASE kind = "lines" /\ ~there
  <2>1. pc' = "ended" /\ f' = f /\ seen' = seen
    BY <1>3 DEF Log!Start
  <2>2. Log!TypeOK'
    BY <1>0, <2>1, FollowerTyped DEF Log!TypeOK
  <2>3. ~Following' /\ kind' = "lines" /\ kind' # "document"
    BY <1>0, <1>3, <2>1 DEF Following, Same
  <2>4. FollowerInv'
    BY <1>0, <2>1, <2>3 DEF LogInv, FollowerInv, Same
  <2>5. SentInv'
    BY <1>0, <1>1, <2>3 DEF SentInv, Sorted, Same
  <2> QED
    BY <1>0, <2>2, <2>4, <2>5 DEF LogInv
<1>4. CASE kind = "lines" /\ there
  <2>1. /\ pc' = "read" /\ seen' = seen
        /\ f' = [f EXCEPT !.file = path, !.info = path, !.pos = Len(files[path]), !.from = written]
    BY <1>4 DEF Log!Start
  <2>2. Len(files[path]) \in Nat /\ Len(files[path]) \in 0 .. 2 * written /\ Len(files[path]) \in 0 .. 2 * Lines
    <3>1. files[path] \in Halved /\ Len(files[path]) <= Top
      BY <1>0 DEF LogInv, OwnerInv, FileFits, FitsTo
    <3>2. Len(files[path]) \in Nat
      BY <3>1 DEF Halved
    <3> QED
      BY <1>0, <1>1, <3>1, <3>2 DEF Numbers
  <2>3. /\ f'.file = path /\ f'.info = path /\ f'.pos = Len(files[path]) /\ f'.part = <<>> /\ f'.from = written
        /\ f'.mistaken = FALSE /\ f' \in Opened /\ Len(f'.part) = 0 /\ \A i \in 1 .. Len(f'.part) : FALSE
    <3>1. /\ f' \in Opened /\ f'.file = path /\ f'.info = path /\ f'.pos = Len(files[path]) /\ f'.part = f.part
          /\ f'.from = written /\ f'.mistaken = f.mistaken
      <4>1. path \in 0 .. Files /\ written \in 0 .. Log!Unstarted
        BY <1>0, <1>1 DEF Numbers
      <4> QED
        BY <1>1, <2>1, <2>2, <4>1 DEF Opened
    <3>2. Len(<<>>) = 0
      OBVIOUS
    <3> QED
      BY <1>a, <3>1, <3>2
  <2>4. Log!TypeOK'
    <3>1. \A i \in 1 .. Len(sent') : sent'[i] \in 1 .. Lines
      BY <1>0
    <3>2. seen \in 0 .. Lines
      BY <1>0 DEF Log!TypeOK
    <3>3. path \in 0 .. Files
      BY <1>0 DEF Numbers
    <3> QED
      BY <1>0, <2>1, <2>2, <2>3, <3>1, <3>2, <3>3, FollowerTyped
  <2>5. Following' /\ kind' = "lines" /\ kind' # "document" /\ pc' = "read"
    BY <1>0, <1>4, <2>1 DEF Following, Same
  <2>6. FollowerInv'
    <3>1. path' = path /\ written' = written /\ path \in 1 .. path
      BY <1>0 DEF Same, Numbers
    <3> QED
      BY <1>0, <1>1, <2>3, <2>5, <3>1 DEF FollowerInv, Numbers
  <2>7. Future'
    <3>1. \A q \in 1 .. Files : q > path => files'[q] = <<>> /\ Len(files'[q]) = 0
      <4>1. Len(<<>>) = 0
        OBVIOUS
      <4> QED
        BY <1>0, <4>1 DEF LogInv, OwnerInv, Same
    <3>2. files'[f'.file] = files[path]
      BY <1>0, <2>3 DEF Same
    <3>3. ~Again(f', files'[f'.file], pc')
      BY <2>2, <2>3, <2>5, <3>2 DEF Again
    <3>4. Unseen(sent', f', files'[f'.file], f'.pos)
      BY <2>2, <2>3, <3>2 DEF Unseen
    <3>5. \A q \in 1 .. Files : q > f'.file => Unseen(sent', f', files'[q], 0)
      BY <2>3, <3>1 DEF Unseen
    <3> QED
      BY <2>3, <3>3, <3>4, <3>5 DEF Future
  <2>8. SentInv'
    BY <1>0, <1>1, <2>5, <2>7 DEF SentInv, Sorted, Same
  <2> QED
    BY <1>0, <2>4, <2>6, <2>8 DEF LogInv
<1> QED
  BY <1>0, <1>2, <1>3, <1>4

\* The follower reads on.
LEMMA ReadKept ==
  ASSUME LogInv, Log!ConstantsAssumption, Log!Read
  PROVE  LogInv'
<1> DEFINE c == files[f.file]
           reading == f.part \o SubSeq(c, f.pos + 1, Len(c))
           found == Log!LinesOf(reading)
<1>0. Numbers /\ Log!TypeOK
  BY NumbersFit DEF LogInv
<1>1. /\ pc = "read" /\ kind = "lines" /\ f.pos < Len(c) /\ sent' = sent \o found
      /\ f' = [f EXCEPT !.pos = Len(c), !.part = Log!Rest(reading)] /\ UNCHANGED <<pc, seen>>
      /\ UNCHANGED Log!log /\ Same /\ OwnerInv' /\ Top' = Top /\ Opened' = Opened
  <2>1. UNCHANGED Log!log
    BY DEF Log!Read
  <2> QED
    BY <2>1, SameInv DEF LogInv, Log!Read
<1>2. Following /\ f.file \in 1 .. Files
  <2>1. Following
    BY <1>1 DEF Following
  <2> QED
    BY <2>1, FileOpen
<1>3. /\ c \in Halved /\ FitsTo(c, written, Top) /\ f.part \in Halved /\ Len(f.part) <= 1 /\ f.pos \in Nat /\ Len(c) \in Nat
      /\ f \in Opened
      /\ \A i \in 1 .. Len(f.part) : f.part[i][2] = 1 /\ f.part[i][1] \in 1 .. written /\ Rank(f.part[i]) <= Top + 2
  <2>1. /\ f \in Opened
        /\ Len(f.part) <= 1
        /\ \A i \in 1 .. Len(f.part) : f.part[i][2] = 1 /\ f.part[i][1] \in 1 .. written /\ Rank(f.part[i]) <= Top + 2
    BY DEF LogInv, FollowerInv
  <2>2. c \in Halved /\ FitsTo(c, written, Top) /\ f.pos \in Nat /\ Len(c) \in Nat
    BY <1>2, FileOpen
  <2>3. f.part \in Halved
    BY <2>1 DEF Opened
  <2> QED
    BY <2>1, <2>2, <2>3
<1>4. /\ reading \in Halved /\ Len(reading) \in Nat
      /\ \A i \in 1 .. Len(reading) : \/ i = 1 /\ i \in 1 .. Len(f.part) /\ reading[i] = f.part[i]
                                   \/ \E k \in 1 .. Len(c) : k > f.pos /\ reading[i] = c[k]
      /\ \A i \in 1 .. Len(reading) : i > 1 => \E k \in 1 .. Len(c) : k > f.pos /\ reading[i] = c[k]
      /\ (Ascending(c) /\ \A i \in 1 .. Len(f.part) : \A k \in 1 .. Len(c) : k > f.pos => Rank(f.part[i]) < Rank(c[k]))
           => Ascending(reading)
  <2> DEFINE p == f.part
             q == f.pos
             t == p \o SubSeq(c, q + 1, Len(c))
  <2>1. c \in Halved /\ q \in Nat /\ q <= Len(c) /\ p \in Halved /\ Len(p) <= 1
    BY <1>1, <1>3
  <2> HIDE DEF c, p, q
  <2>2. /\ t \in Halved /\ Len(t) \in Nat
        /\ \A i \in 1 .. Len(t) : \/ i = 1 /\ i \in 1 .. Len(p) /\ t[i] = p[i]
                                  \/ \E k \in 1 .. Len(c) : k > q /\ t[i] = c[k]
        /\ \A i \in 1 .. Len(t) : i > 1 => \E k \in 1 .. Len(c) : k > q /\ t[i] = c[k]
        /\ (Ascending(c) /\ \A i \in 1 .. Len(p) : \A k \in 1 .. Len(c) : k > q => Rank(p[i]) < Rank(c[k]))
             => Ascending(t)
    <3> HIDE DEF t
    <3> QED
      BY <2>1, TextOf DEF t
  <2> QED
    BY <2>2 DEF p, q
<1>5. Found(reading, found)
  <2> HIDE DEF reading
  <2> QED
    BY <1>4, LinesFound
<1> HIDE DEF reading, found
\* The halves of the reading are in the range of the log.
<1>6. \A i \in 1 .. Len(reading) : reading[i][1] \in 1 .. written /\ Rank(reading[i]) <= Top + 2
  BY <1>3, <1>4 DEF FitsTo
<1>7. \A k \in 1 .. Len(found) : \E i \in 1 .. Len(reading) : Log!LineAt(reading, i) /\ found[k] = reading[i][1]
  BY <1>5 DEF Found
<1>8. found \in Seq(Nat) /\ \A k \in 1 .. Len(found) : found[k] \in 1 .. written
  BY <1>5, <1>6, <1>7 DEF Found
<1>9. /\ sent' \in Seq(Nat)
      /\ \A k \in 1 .. Len(sent') : sent'[k] \in 1 .. written
      /\ \A k \in 1 .. Len(sent') : (\E i \in 1 .. Len(sent) : sent'[k] = sent[i]) \/ (\E i \in 1 .. Len(found) : sent'[k] = found[i])
  <2>1. sent \in Seq(Nat) /\ \A k \in 1 .. Len(sent) : sent[k] \in 1 .. written
    BY DEF LogInv, SentInv
  <2>2. /\ sent' \in Seq(Nat)
        /\ \A k \in 1 .. Len(sent') : (\E i \in 1 .. Len(sent) : sent'[k] = sent[i]) \/ (\E i \in 1 .. Len(found) : sent'[k] = found[i])
    BY <1>1, <1>8, <2>1, SentMore, ZenonT(60)
  <2> QED
    BY <1>8, <2>1, <2>2
\* What is kept of the reading.
<1>10. /\ f'.part = Log!Rest(reading) /\ f'.pos = Len(c) /\ f'.file = f.file /\ f'.info = f.info /\ f'.from = f.from
       /\ f'.mistaken = f.mistaken
       /\ Log!Rest(reading) \in Halved /\ Len(Log!Rest(reading)) <= 1
       /\ \A i \in 1 .. Len(Log!Rest(reading)) :
            /\ Log!Rest(reading)[i] = reading[Len(reading)] /\ Len(reading) \in 1 .. Len(reading) /\ reading[Len(reading)][2] = 1
  <2>1. /\ f'.part = Log!Rest(reading) /\ f'.pos = Len(c) /\ f'.file = f.file /\ f'.info = f.info /\ f'.from = f.from
        /\ f'.mistaken = f.mistaken
    BY <1>1, <1>3 DEF Opened
  <2>2. CASE reading # <<>> /\ reading[Len(reading)][2] = 1
    <3>1. Log!Rest(reading) = <<reading[Len(reading)]>>
      BY <2>2 DEF Log!Rest
    <3>2. Len(reading) \in 1 .. Len(reading) /\ reading[Len(reading)] \in Nat \X {1, 2}
      BY <1>4, <2>2 DEF Halved
    <3> QED
      BY <2>1, <2>2, <3>1, <3>2, OneHalf
  <2>3. CASE ~(reading # <<>> /\ reading[Len(reading)][2] = 1)
    <3>1. Log!Rest(reading) = <<>>
      BY <2>3 DEF Log!Rest
    <3>2. <<>> \in Halved /\ Len(<<>>) = 0
      BY DEF Halved
    <3> QED
      BY <2>1, <3>1, <3>2
  <2> QED
    BY <2>2, <2>3
<1>11. Len(c) <= Top /\ Top <= 2 * written /\ written \in Nat /\ Top \in Int /\ written <= Lines /\ Lines \in Nat
  <2>1. written \in Nat /\ Top \in Int /\ written <= Lines /\ Lines \in Nat
    BY <1>0 DEF Numbers
  <2>2. Len(c) <= Top
    <3> HIDE DEF c
    <3> QED
      BY <1>3 DEF FitsTo
  <2>3. Top <= 2 * written
    BY <2>1 DEF Top
  <2> QED
    BY <2>1, <2>2, <2>3
<1>12. Log!TypeOK'
  <2>1. Len(c) \in 0 .. 2 * Lines /\ \A k \in 1 .. Len(sent') : sent'[k] \in 1 .. Lines
    BY <1>3, <1>9, <1>11, SMTT(60)
  <2>2. f.file \in 0 .. Files /\ f.info \in 0 .. Files /\ seen \in 0 .. Lines
    BY <1>0 DEF Log!TypeOK
  <2> HIDE DEF c
  <2> QED
    BY <1>0, <1>1, <1>10, <2>1, <2>2, FollowerTyped
<1>13. Following' /\ kind' = "lines" /\ kind' # "document" /\ pc' = "read"
  BY <1>1, <1>2 DEF Following, Same
<1>14. FollowerInv'
  <2>1. f' \in Opened
    <3>1. Len(c) \in 0 .. 2 * written /\ Log!Rest(reading) \in Halved
      BY <1>3, <1>10, <1>11
    <3> HIDE DEF c
    <3> QED
      BY <1>1, <1>3, <3>1 DEF Opened
  <2>2. \A i \in 1 .. Len(f'.part) : f'.part[i][2] = 1 /\ f'.part[i][1] \in 1 .. written /\ Rank(f'.part[i]) <= Top + 2
    BY <1>6, <1>10
  <2>3. /\ f.file \in 1 .. path /\ f.info \in 1 .. path /\ f.from <= written
        /\ ~f.mistaken => f.file <= f.info /\ f.info = f.file
    BY <1>1, <1>2 DEF LogInv, FollowerInv
  <2> QED
    BY <1>1, <1>10, <1>13, <2>1, <2>2, <2>3 DEF FollowerInv, Same
<1>15. SentInv'
  <2> SUFFICES ASSUME ~copied
               PROVE  (\A k \in 1 .. Len(sent') : sent'[k] > f.from) /\ (~f.mistaken => Sorted(sent')) /\ Future'
    BY <1>1, <1>9, <1>10, <1>13 DEF SentInv, Same
  <2>1. (\A k \in 1 .. Len(sent) : sent[k] > f.from) /\ (~f.mistaken => Sorted(sent)) /\ Future
    BY <1>1, <1>2 DEF LogInv, SentInv
  <2>a. sent \in Seq(Nat)
    BY DEF LogInv, SentInv
  <2>b. /\ Unseen(sent, f, c, f.pos)
        /\ \A i \in 1 .. Len(f.part) : Newer(sent, f, f.part[i][1]) /\ Past(f.part[i], c, f.pos)
    BY <2>1 DEF Future
  <2>2. Ascending(reading)
    BY <1>3, <1>4, <2>b DEF FitsTo, Past
  \* All lines of the reading, and of what is kept of it, are newer than what was sent.
  <2>3. ASSUME NEW i \in 1 .. Len(reading), reading[i][2] = 1 PROVE Newer(sent, f, reading[i][1])
    BY <1>4, <2>b, <2>3 DEF Unseen
  <2>4. \A k \in 1 .. Len(found) : Newer(sent, f, found[k])
    BY <1>7, <2>3 DEF Log!LineAt
  <2>5. Sorted(found)
    BY <1>5, <2>2 DEF Found, Sorted
  <2>6. \A k \in 1 .. Len(sent') : sent'[k] > f.from
    BY <1>9, <2>1, <2>4 DEF Newer
  <2>7. ~f.mistaken => Sorted(sent')
    <3> SUFFICES ASSUME ~f.mistaken PROVE Sorted(sent')
      OBVIOUS
    <3>1. \A i \in 1 .. Len(sent) : \A j \in 1 .. Len(found) : sent[i] < found[j]
      BY <2>4 DEF Newer
    <3> QED
      BY <1>1, <1>8, <2>1, <2>a, <2>5, <3>1, SentMore DEF Sorted
  \* A line newer than what was sent, and than what was found, is newer than what has been sent.
  <2>8. ASSUME NEW l, Newer(sent, f, l), \A k \in 1 .. Len(found) : found[k] < l PROVE Newer(sent', f', l)
    BY <1>9, <1>10, <2>8 DEF Newer
  \* What was found is older than a half behind the whole of it.
  <2>9. ASSUME NEW x \in Nat \X {1, 2}, x[2] = 1, NEW k \in 1 .. Len(found),
               \A m \in 1 .. Len(reading) : Log!LineAt(reading, m) => Rank(reading[m]) < Rank(x)
        PROVE  found[k] < x[1]
    <3>1. PICK m \in 1 .. Len(reading) : Log!LineAt(reading, m) /\ found[k] = reading[m][1]
      BY <1>7
    <3>2. reading[m][2] = 1 /\ Rank(reading[m]) < Rank(x)
      BY <2>9, <3>1 DEF Log!LineAt
    <3>3. reading[m][1] \in Nat /\ x[1] \in Nat
      BY <1>4 DEF Halved
    <3> QED
      BY <2>9, <3>1, <3>2, <3>3 DEF Rank
  <2>10. ASSUME NEW i \in 1 .. Len(f'.part)
         PROVE  /\ f'.part[i] = reading[Len(reading)] /\ Newer(sent', f', f'.part[i][1])
                /\ \A q \in 1 .. Files : q > f.file => Past(f'.part[i], files[q], 0)
    <3> DEFINE n == Len(reading)
    <3>1. n \in 1 .. n /\ n \in Nat /\ reading[n][2] = 1 /\ f'.part[i] = reading[n] /\ reading[n] \in Nat \X {1, 2}
      BY <1>4, <1>10 DEF Halved
    <3>2. \A m \in 1 .. n : Log!LineAt(reading, m) => Rank(reading[m]) < Rank(reading[n])
      BY <2>2, <3>1 DEF Ascending, Log!LineAt
    <3>3. Newer(sent', f', reading[n][1])
      BY <2>3, <2>8, <2>9, <3>1, <3>2
    <3>4. ASSUME NEW q \in 1 .. Files, q > f.file PROVE Past(reading[n], files[q], 0)
      <4>1. CASE 1 \in 1 .. Len(f.part) /\ reading[n] = f.part[1]
        BY <2>1, <3>4, <4>1 DEF Future
      <4>2. CASE \E k \in 1 .. Len(c) : reading[n] = c[k]
        <5>1. Above(c, files[q])
          BY <1>1, <1>2, <3>4 DEF LogInv, OwnerInv
        <5> QED
          BY <4>2, <5>1 DEF Above
      <4> QED
        BY <1>4, <3>1, <4>1, <4>2
    <3> QED
      BY <3>1, <3>3, <3>4
  <2>11. ASSUME NEW q \in 1 .. Files, q > f.file PROVE Unseen(sent', f', files[q], 0)
    <3> SUFFICES ASSUME NEW j \in 1 .. Len(files[q]), j > 0, files[q][j][2] = 1 PROVE Newer(sent', f', files[q][j][1])
      BY DEF Unseen
    <3>0. files[q][j] \in Nat \X {1, 2}
      BY DEF LogInv, OwnerInv, Halved
    <3>1. Newer(sent, f, files[q][j][1])
      BY <2>1, <2>11 DEF Future, Unseen
    <3>2. ASSUME NEW m \in 1 .. Len(reading), Log!LineAt(reading, m) PROVE Rank(reading[m]) < Rank(files[q][j])
      <4>1. /\ m + 1 \in 1 .. Len(reading) /\ m + 1 > 1 /\ reading[m][2] = 1
            /\ reading[m + 1] = <<reading[m][1], 2>>
        BY <1>4, <3>2 DEF Log!LineAt, Log!Half
      <4>2. PICK i \in 1 .. Len(c) : reading[m + 1] = c[i]
        BY <1>4, <4>1
      <4>3. Above(c, files[q])
        BY <1>1, <1>2, <2>11 DEF LogInv, OwnerInv
      <4>4. Rank(reading[m + 1]) < Rank(files[q][j])
        BY <4>2, <4>3 DEF Above, Past
      <4>5. Rank(reading[m]) = 2 * reading[m][1] + 1 /\ Rank(reading[m + 1]) = 2 * reading[m][1] + 2
        BY <4>1 DEF Rank
      <4>6. reading[m][1] \in Nat /\ Rank(files[q][j]) \in Nat
        <5>1. reading[m] \in Nat \X {1, 2}
          BY <1>4 DEF Halved
        <5>2. files[q][j][1] \in Nat /\ files[q][j][2] \in {1, 2}
          BY <3>0
        <5>3. reading[m][1] \in Nat
          BY <5>1
        <5>4. Rank(files[q][j]) = 2 * files[q][j][1] + files[q][j][2]
          BY DEF Rank
        <5>5. \A x \in Nat, y \in {1, 2} : 2 * x + y \in Nat
          OBVIOUS
        <5> QED
          BY <5>2, <5>3, <5>4, <5>5
      <4> QED
        BY <4>4, <4>5, <4>6
    <3> QED
      BY <2>8, <2>9, <3>0, <3>1, <3>2
  <2>12. Unseen(sent', f', c, Len(c))
    BY <1>3 DEF Unseen
  <2>13. Again(f', c, pc') => Unseen(sent', f', c, 0)
    <3>1. Again(f', c, pc') => f.mistaken
      BY <1>3, <1>10, <1>13 DEF Again
    <3>2. CASE f.mistaken
      <4>1. Unseen(sent, f, c, 0)
        BY <2>1, <3>2 DEF Future, Again
      <4> QED
        BY <1>10, <3>2, <4>1 DEF Unseen, Newer
    <3> QED
      BY <3>1, <3>2
  <2>14. files' = files /\ files'[f'.file] = c
    BY <1>1, <1>10 DEF Same
  <2>15. \A i \in 1 .. Len(f'.part) : Past(f'.part[i], c, f'.pos) /\ ~(Len(c) < f'.pos)
    BY <1>3, <1>10 DEF Past
  <2>16. Future'
    <3> HIDE DEF c
    <3> QED
      BY <1>10, <2>10, <2>11, <2>12, <2>13, <2>14, <2>15 DEF Future
  <2> QED
    BY <2>6, <2>7, <2>16
<1> QED
  BY <1>1, <1>12, <1>14, <1>15 DEF LogInv

\* The follower is at the end of the file: the part it shows is newer than what was sent, and
\* older than what is still to be read.
LEMMA AtEndKept == ASSUME LogInv, Log!ConstantsAssumption, Log!AtEnd PROVE LogInv'
<1> DEFINE l == f.part[1][1]
           more == IF f.part # <<>> /\ l \in apart THEN <<l>> ELSE <<>>
<1>0. /\ Numbers /\ Log!TypeOK /\ UNCHANGED Log!log /\ Same /\ OwnerInv' /\ Top' = Top /\ Opened' = Opened /\ seen' = seen
      /\ pc = "read" /\ pc' = "eof" /\ kind = "lines" /\ kind' = "lines" /\ kind' # "document" /\ Following /\ Following'
      /\ f' = [f EXCEPT !.part = <<>>] /\ sent' = sent \o more
  <2>1. UNCHANGED Log!log /\ seen' = seen
    BY DEF Log!AtEnd
  <2>2. Numbers /\ Log!TypeOK /\ Same /\ OwnerInv' /\ Top' = Top /\ Opened' = Opened
    BY <2>1, SameInv, NumbersFit DEF LogInv
  <2> QED
    BY <2>1, <2>2 DEF Log!AtEnd, Following, Same
<1>1. /\ f \in Opened /\ Len(f.part) <= 1 /\ f.file \in 1 .. Files /\ f.pos \in Nat
      /\ f.part \in Halved /\ Len(f.part) \in Nat
      /\ \A i \in 1 .. Len(f.part) : f.part[i][2] = 1 /\ f.part[i][1] \in 1 .. written
      /\ sent \in Seq(Nat) /\ \A k \in 1 .. Len(sent) : sent[k] \in 1 .. written
  BY <1>0, FileOpen DEF LogInv, FollowerInv, SentInv, Opened, Halved
<1>2. /\ f' \in Opened /\ f'.file = f.file /\ f'.info = f.info /\ f'.pos = f.pos /\ f'.part = <<>> /\ f'.from = f.from
      /\ f'.mistaken = f.mistaken /\ Len(f'.part) = 0 /\ \A i \in 1 .. Len(f'.part) : FALSE
  <2>1. <<>> \in Halved /\ Len(<<>>) = 0
    BY DEF Halved
  <2>2. /\ f' \in Opened /\ f'.file = f.file /\ f'.info = f.info /\ f'.pos = f.pos /\ f'.part = <<>> /\ f'.from = f.from
        /\ f'.mistaken = f.mistaken
    BY <1>0, <1>1, <2>1 DEF Opened
  <2> QED
    BY <2>1, <2>2
<1>3. /\ more \in Seq(Nat) /\ (\A i \in 1 .. Len(more) : more[i] = l /\ 1 \in 1 .. Len(f.part))
      /\ Sorted(more)
  <2>1. CASE f.part # <<>> /\ l \in apart
    <3>1. 1 \in 1 .. Len(f.part) /\ l \in Nat
      <4>1. Len(f.part) # 0
        BY <1>1, <2>1 DEF Halved
      <4>2. 1 \in 1 .. Len(f.part)
        BY <1>1, <4>1
      <4> QED
        BY <1>0, <1>1, <4>2 DEF Numbers
    <3>2. more = <<l>>
      BY <2>1
    <3> HIDE DEF l, more
    <3> QED
      BY <3>1, <3>2 DEF Sorted
  <2>2. CASE ~(f.part # <<>> /\ l \in apart)
    <3>1. more = <<>>
      BY <2>2
    <3> HIDE DEF l, more
    <3> QED
      BY <3>1 DEF Sorted
  <2> QED
    BY <2>1, <2>2
<1> HIDE DEF more, l
<1>4. /\ sent' \in Seq(Nat)
      /\ \A k \in 1 .. Len(sent') : (\E i \in 1 .. Len(sent) : sent'[k] = sent[i]) \/ (sent'[k] = l /\ 1 \in 1 .. Len(f.part))
  <2>1. /\ sent' \in Seq(Nat)
        /\ \A k \in 1 .. Len(sent') : (\E i \in 1 .. Len(sent) : sent'[k] = sent[i]) \/ (\E i \in 1 .. Len(more) : sent'[k] = more[i])
    BY <1>0, <1>1, <1>3, SentMore, ZenonT(60)
  <2> QED
    BY <1>3, <2>1
<1>5. \A k \in 1 .. Len(sent') : sent'[k] \in 1 .. written
  BY <1>1, <1>4 DEF l
<1>6. Log!TypeOK'
  <2>1. \A k \in 1 .. Len(sent') : sent'[k] \in 1 .. Lines
    BY <1>0, <1>5, SMTT(60) DEF Numbers
  <2>2. f.file \in 0 .. Files /\ f.info \in 0 .. Files /\ f.pos \in 0 .. 2 * Lines /\ seen \in 0 .. Lines
    BY <1>0 DEF Log!TypeOK
  <2> QED
    BY <1>0, <1>2, <2>1, <2>2, FollowerTyped
<1>7. FollowerInv'
  BY <1>0, <1>2 DEF LogInv, FollowerInv, Same
<1>8. SentInv'
  <2> SUFFICES ASSUME ~copied
               PROVE  (\A k \in 1 .. Len(sent') : sent'[k] > f.from) /\ (~f.mistaken => Sorted(sent')) /\ Future'
    BY <1>0, <1>2, <1>4, <1>5 DEF SentInv, Same
  <2>1. (\A k \in 1 .. Len(sent) : sent[k] > f.from) /\ (~f.mistaken => Sorted(sent)) /\ Future
    BY <1>0 DEF LogInv, SentInv
  <2>2. 1 \in 1 .. Len(f.part) => l > f.from /\ (~f.mistaken => \A k \in 1 .. Len(sent) : sent[k] < l)
    BY <2>1 DEF Future, Newer, l
  <2>3. \A k \in 1 .. Len(sent') : sent'[k] > f.from
    BY <1>4, <2>1, <2>2
  <2>4. ~f.mistaken => Sorted(sent')
    <3> SUFFICES ASSUME ~f.mistaken PROVE Sorted(sent')
      OBVIOUS
    <3>1. \A i \in 1 .. Len(sent) : \A j \in 1 .. Len(more) : sent[i] < more[j]
      BY <1>3, <2>2
    <3> QED
      BY <1>0, <1>1, <1>3, <2>1, <3>1, SentMore DEF Sorted
  \* A first half that is still to be read, and behind the part, is of a newer line.
  <2>5. ASSUME NEW q \in 1 .. Files, NEW n \in Nat, Unseen(sent, f, files[q], n),
               \A i \in 1 .. Len(f.part) : Past(f.part[i], files[q], n)
        PROVE  Unseen(sent', f', files'[q], n)
    <3> SUFFICES ASSUME NEW j \in 1 .. Len(files[q]), j > n, files[q][j][2] = 1 PROVE Newer(sent', f', files[q][j][1])
      BY <1>0 DEF Unseen, Same
    <3> DEFINE m == files[q][j][1]
    <3>1. m > f.from /\ (~f.mistaken => \A k \in 1 .. Len(sent) : sent[k] < m)
      BY <2>5 DEF Unseen, Newer
    <3>2. m \in Nat
      <4>1. files[q][j] \in Nat \X {1, 2}
        BY DEF LogInv, OwnerInv, Halved
      <4> QED
        BY <4>1
    <3>3. 1 \in 1 .. Len(f.part) => l < m
      <4> SUFFICES ASSUME 1 \in 1 .. Len(f.part) PROVE l < m
        OBVIOUS
      <4>1. Rank(f.part[1]) < Rank(files[q][j]) /\ f.part[1][2] = 1 /\ l \in 1 .. written
        BY <1>1, <2>5 DEF Past, l
      <4>2. 2 * l + 1 < 2 * m + 1 /\ l \in Nat
        BY <1>0, <4>1, SMTT(60) DEF Rank, l, Numbers
      <4> HIDE DEF m
      <4> QED
        BY <3>2, <4>2
    <3> HIDE DEF m
    <3>4. Newer(sent', f', m)
      BY <1>2, <1>4, <3>1, <3>3 DEF Newer
    <3> QED
      BY <3>4 DEF m
  <2>6. Unseen(sent', f', files'[f'.file], f'.pos)
    <3>1. Unseen(sent, f, files[f.file], f.pos) /\ \A i \in 1 .. Len(f.part) : Past(f.part[i], files[f.file], f.pos)
      BY <2>1 DEF Future
    <3> QED
      BY <1>1, <1>2, <2>5, <3>1
  <2>7. \A q \in 1 .. Files : q > f'.file => Unseen(sent', f', files'[q], 0)
    <3> SUFFICES ASSUME NEW q \in 1 .. Files, q > f.file PROVE Unseen(sent', f', files'[q], 0)
      BY <1>2
    <3>1. Unseen(sent, f, files[q], 0) /\ \A i \in 1 .. Len(f.part) : Past(f.part[i], files[q], 0)
      BY <2>1 DEF Future
    <3> QED
      BY <2>5, <3>1
  <2>8. Again(f', files'[f'.file], pc') => Unseen(sent', f', files'[f'.file], 0)
    <3>1. CASE f.mistaken
      <4>1. Unseen(sent, f, files[f.file], 0)
        BY <2>1, <3>1 DEF Future, Again
      <4> QED
        BY <1>0, <1>2, <3>1, <4>1 DEF Unseen, Newer, Same
    <3>2. CASE ~f.mistaken /\ Len(files[f.file]) < f.pos
      <4>1. Unseen(sent, f, files[f.file], 0) /\ \A i \in 1 .. Len(f.part) : Past(f.part[i], files[f.file], 0)
        BY <2>1, <3>2 DEF Future, Again
      <4> QED
        BY <1>1, <1>2, <2>5, <4>1
    <3>3. Again(f', files'[f'.file], pc') => f.mistaken \/ Len(files[f.file]) < f.pos
      BY <1>0, <1>2 DEF Again, Same
    <3> QED
      BY <3>1, <3>2, <3>3
  <2>9. Future'
    BY <1>2, <2>6, <2>7, <2>8 DEF Future
  <2> QED
    BY <2>3, <2>4, <2>9
<1> QED
  BY <1>0, <1>6, <1>7, <1>8 DEF LogInv

\* The follower looks whether the log is still the file it reads.
LEMMA CheckKept == ASSUME LogInv, Log!ConstantsAssumption, Log!Check PROVE LogInv'
<1>0. /\ Numbers /\ Log!TypeOK /\ UNCHANGED Log!log /\ Same /\ OwnerInv' /\ Top' = Top /\ Opened' = Opened
      /\ seen' = seen /\ sent' = sent /\ pc = "eof" /\ pc' \in {"reopen", "read"} /\ path \in 1 .. Files
      /\ kind = "lines" /\ kind' = "lines" /\ kind' # "document" /\ Following /\ Following'
  <2>1. UNCHANGED Log!log /\ seen' = seen /\ sent' = sent /\ pc = "eof" /\ pc' \in {"reopen", "read"}
    BY DEF Log!Check
  <2>2. kind = "lines"
    BY <2>1 DEF LogInv, FollowerInv, Log!TypeOK, Log!ConstantsAssumption
  <2>3. Numbers /\ Log!TypeOK /\ Same /\ OwnerInv' /\ Top' = Top /\ Opened' = Opened /\ path \in 1 .. Files
    BY <2>1, SameInv, NumbersFit DEF LogInv, OwnerInv
  <2> QED
    BY <2>1, <2>2, <2>3 DEF Following, Same
<1>1. /\ f \in Opened /\ f.part = <<>> /\ f.file \in 1 .. path /\ f.file \in 1 .. Files /\ f.pos \in Nat
      /\ Len(files[f.file]) \in Nat /\ (~f.mistaken => f.file <= f.info /\ f.info = f.file) /\ Len(<<>>) = 0
  BY <1>0, FileOpen DEF LogInv, FollowerInv
<1>2. CASE there /\ Log!Rotated
  <2>1. pc' = "reopen" /\ f' = [f EXCEPT !.info = path]
    BY <1>2 DEF Log!Check
  <2>2. /\ f' \in Opened /\ f'.file = f.file /\ f'.info = path /\ f'.pos = f.pos /\ f'.part = f.part /\ f'.from = f.from
        /\ f'.mistaken = f.mistaken
    BY <1>0, <1>1, <2>1, SMTT(60) DEF Opened, Numbers
  <2>3. Log!TypeOK'
    BY <1>0, <2>1, <2>2, FollowerTyped DEF Log!TypeOK
  <2>4. FollowerInv'
    <3>1. path \in 1 .. path /\ f.file <= path
      BY <1>0, <1>1 DEF Numbers
    <3> QED
      BY <1>0, <1>1, <2>1, <2>2, <3>1 DEF LogInv, FollowerInv, Same
  \* The file is read again if it is the one of the log's name, and has become shorter.
  <2>5. path = f.file => f.mistaken \/ Len(files[f.file]) < f.pos
    BY <1>1, <1>2 DEF Log!Rotated
  <2>6. ASSUME Future PROVE Future'
    <3>1. Again(f', files'[f'.file], pc') => Again(f, files[f.file], pc)
      BY <1>0, <1>1, <2>1, <2>2, <2>5 DEF Again, Same
    <3> QED
      BY <1>0, <2>2, <2>6, <3>1 DEF Future, Unseen, Newer, Past, Same
  <2>7. SentInv'
    BY <1>0, <2>2, <2>6 DEF LogInv, SentInv, Same
  <2> QED
    BY <1>0, <2>3, <2>4, <2>7 DEF LogInv
<1>3. CASE ~(there /\ Log!Rotated)
  <2>1. pc' = "read" /\ f' = f
    BY <1>3 DEF Log!Check
  <2>2. Log!TypeOK'
    BY <1>0, <2>1, FollowerTyped DEF Log!TypeOK
  <2>3. FollowerInv'
    BY <1>0, <1>1, <2>1 DEF LogInv, FollowerInv, Same
  <2>4. ASSUME Future PROVE Future'
    <3>1. Again(f', files'[f'.file], pc') => Again(f, files[f.file], pc)
      BY <1>0, <2>1 DEF Again, Same
    <3> QED
      BY <1>0, <2>1, <2>4, <3>1 DEF Future, Unseen, Past, Same
  <2>5. SentInv'
    BY <1>0, <2>1, <2>4 DEF LogInv, SentInv, Same
  <2> QED
    BY <1>0, <2>2, <2>3, <2>5 DEF LogInv
<1> QED
  BY <1>2, <1>3

\* The follower opens the file of the log's name: one with newer lines only, from its beginning.
LEMMA ReopenKept == ASSUME LogInv, Log!ConstantsAssumption, Log!Reopen PROVE LogInv'
<1>0. /\ Numbers /\ Log!TypeOK /\ UNCHANGED Log!log /\ Same /\ OwnerInv' /\ Top' = Top /\ Opened' = Opened
      /\ seen' = seen /\ sent' = sent /\ pc = "reopen" /\ path \in 1 .. Files
      /\ kind = "lines" /\ kind' = "lines" /\ kind' # "document" /\ Following
  <2>1. UNCHANGED Log!log /\ seen' = seen /\ sent' = sent /\ pc = "reopen"
    BY DEF Log!Reopen
  <2>2. kind = "lines"
    BY <2>1 DEF LogInv, FollowerInv, Log!TypeOK, Log!ConstantsAssumption
  <2>3. Numbers /\ Log!TypeOK /\ Same /\ OwnerInv' /\ Top' = Top /\ Opened' = Opened /\ path \in 1 .. Files
    BY <2>1, SameInv, NumbersFit DEF LogInv, OwnerInv
  <2> QED
    BY <2>1, <2>2, <2>3 DEF Following, Same
<1>1. /\ f \in Opened /\ f.part = <<>> /\ Len(f.part) = 0 /\ f.file \in 1 .. path /\ f.info \in 1 .. path /\ f.file \in 1 .. Files
      /\ (~f.mistaken => f.file <= f.info) /\ f.from <= written
  <2>1. Len(<<>>) = 0
    OBVIOUS
  <2> QED
    BY <1>0, <2>1, FileOpen DEF LogInv, FollowerInv
<1>2. CASE ~there
  <2>1. pc' = "ended" /\ f' = f
    BY <1>2 DEF Log!Reopen
  <2>2. Log!TypeOK'
    BY <1>0, <2>1, FollowerTyped DEF Log!TypeOK
  <2>3. ~Following'
    BY <2>1 DEF Following
  <2>4. FollowerInv'
    BY <1>0, <2>1, <2>3 DEF LogInv, FollowerInv, Same
  <2>5. SentInv'
    BY <1>0, <2>1, <2>3 DEF LogInv, SentInv, Same
  <2> QED
    BY <1>0, <2>2, <2>4, <2>5 DEF LogInv
<1>3. CASE there
  <2>1. pc' = "read" /\ f' = [f EXCEPT !.file = path, !.pos = 0, !.mistaken = @ \/ path # f.info]
    BY <1>3 DEF Log!Reopen
  <2>2. /\ f' \in Opened /\ f'.file = path /\ f'.info = f.info /\ f'.pos = 0 /\ f'.part = f.part /\ f'.from = f.from
        /\ f'.mistaken = (f.mistaken \/ path # f.info)
    <3> DEFINE m == f.mistaken \/ path # f.info
    <3>1. m \in BOOLEAN /\ path \in 0 .. Files /\ 0 \in 0 .. 2 * written
      BY <1>0, <1>1 DEF Opened, Numbers
    <3>2. f' = [f EXCEPT !.file = path, !.pos = 0, !.mistaken = m]
      BY <1>1, <2>1 DEF Opened
    <3> HIDE DEF m
    <3>3. /\ f' \in Opened /\ f'.file = path /\ f'.info = f.info /\ f'.pos = 0 /\ f'.part = f.part /\ f'.from = f.from
          /\ f'.mistaken = m
      BY <1>1, <3>1, <3>2 DEF Opened
    <3> QED
      BY <3>3 DEF m
  <2>3. Log!TypeOK'
    <3>1. path \in 0 .. Files /\ 0 \in 0 .. 2 * Lines
      BY <1>0 DEF Numbers
    <3> QED
      BY <1>0, <2>1, <2>2, <3>1, FollowerTyped DEF Log!TypeOK
  <2>4. Following'
    BY <1>0, <2>1 DEF Following
  <2>5. FollowerInv'
    <3>1. path \in 1 .. path /\ (path = f.info => path <= f.info)
      BY <1>0 DEF Numbers
    <3> QED
      BY <1>0, <1>1, <2>1, <2>2, <3>1 DEF LogInv, FollowerInv, Same
  <2>6. ASSUME Future PROVE Future'
    \* The file is one that may be read again, or comes after the one that was read.
    <3>1. Unseen(sent, f, files[path], 0)
      <4>1. CASE path > f.file
        BY <1>0, <2>6, <4>1 DEF Future
      <4>2. CASE path = f.file
        <5>1. f.mistaken \/ f.info = f.file
          BY <1>0, <1>1, <4>2 DEF Numbers
        <5> QED
          BY <1>0, <2>6, <4>2, <5>1 DEF Future, Again
      <4> QED
        BY <1>0, <1>1, <4>1, <4>2 DEF Numbers
    <3>2. \A q \in 1 .. Files : q > path => Unseen(sent, f, files[q], 0)
      <4>1. \A q \in 1 .. Files : q > path => q > f.file
        BY <1>0, <1>1 DEF Numbers
      <4> QED
        BY <2>6, <4>1 DEF Future
    <3>3. \A l : Newer(sent, f, l) => Newer(sent', f', l)
      BY <1>0, <2>2 DEF Newer
    <3>4. Unseen(sent', f', files'[f'.file], 0) /\ f'.pos = 0
      BY <1>0, <2>2, <3>1, <3>3 DEF Unseen, Same
    <3>5. \A q \in 1 .. Files : q > f'.file => Unseen(sent', f', files'[q], 0)
      BY <1>0, <2>2, <3>2, <3>3 DEF Unseen, Same
    <3>6. \A i \in 1 .. Len(f'.part) : FALSE
      BY <1>1, <2>2
    <3> QED
      BY <3>4, <3>5, <3>6 DEF Future
  <2>7. SentInv'
    BY <1>0, <2>2, <2>6 DEF LogInv, SentInv, Same
  <2> QED
    BY <1>0, <2>3, <2>5, <2>7 DEF LogInv
<1> QED
  BY <1>2, <1>3

\* The follower of a document counts its messages, and sends those that are new; or it ends at one
\* that cannot be sent.
LEMMA PollKept == ASSUME LogInv, Log!ConstantsAssumption, Log!Poll \/ Log!PollFails PROVE LogInv'
<1>0. /\ Numbers /\ Log!TypeOK /\ UNCHANGED Log!log /\ Same /\ OwnerInv' /\ Top' = Top /\ Opened' = Opened /\ f' = f
      /\ kind = "document" /\ kind # "lines" /\ kind' = "document" /\ kind' # "lines" /\ pc = "read" /\ pc' \in {"read", "ended"}
      /\ ~Following'
  <2>1. UNCHANGED Log!log /\ f' = f /\ kind = "document" /\ pc = "read" /\ pc' \in {"read", "ended"}
    BY DEF Log!Poll, Log!PollFails
  <2> QED
    BY <2>1, SameInv, NumbersFit DEF LogInv, Following, Same
<1>1. /\ sent \in Seq(Nat) /\ Sorted(sent) /\ seen \in Nat /\ f.from \in Nat /\ f.from <= seen /\ written <= Lines
      /\ \A k \in 1 .. Len(sent) : sent[k] \in 1 .. written /\ sent[k] > f.from /\ sent[k] <= seen
  <2>1. f.from \in Nat
    BY <1>0 DEF LogInv, FollowerInv, Opened, Log!Unstarted, Numbers
  <2> QED
    BY <1>0, <2>1 DEF LogInv, SentInv, Log!TypeOK, Numbers
<1>2. Log!Messages \in {0, written}
  <2>1. Len(files[1]) = 2 * written
    BY <1>0 DEF LogInv, OwnerInv
  <2> QED
    BY <1>0, <2>1 DEF Log!Messages, Numbers
\* Some of the new messages are sent, up to the last.
<1>3. PICK last \in Nat : /\ last > seen /\ last <= written /\ sent' = sent \o Log!After(seen, last)
                          /\ (pc' = "read" => seen' = last) /\ (pc' = "ended" => seen' = seen)
  <2>1. CASE Log!Poll
    BY <1>0, <1>1, <1>2, <2>1 DEF Log!Poll, Numbers
  <2>2. CASE Log!PollFails
    <3>1. PICK last \in seen + 1 .. Log!Messages : sent' = sent \o Log!After(seen, last)
      BY <2>2 DEF Log!PollFails
    <3>2. last \in Nat /\ last > seen /\ last <= written
      BY <1>0, <1>1, <1>2, <3>1 DEF Numbers
    <3> QED
      BY <2>2, <3>1, <3>2 DEF Log!PollFails
  <2> QED
    BY <2>1, <2>2
<1> DEFINE more == Log!After(seen, last)
<1>4. more \in Seq(Nat) /\ Len(more) = last - seen /\ \A i \in 1 .. Len(more) : more[i] = seen + i
  BY <1>1, <1>3 DEF Log!After
<1> HIDE DEF more
<1>5. \A i \in 1 .. Len(more) : more[i] \in 1 .. last /\ more[i] > seen
  BY <1>1, <1>3, <1>4
<1>6. Sorted(more)
  BY <1>1, <1>4 DEF Sorted
<1>7. \A i \in 1 .. Len(sent) : \A j \in 1 .. Len(more) : sent[i] < more[j]
  BY <1>0, <1>1, <1>5 DEF Numbers
<1>8. /\ sent' \in Seq(Nat) /\ Sorted(sent')
      /\ \A k \in 1 .. Len(sent') : (\E i \in 1 .. Len(sent) : sent'[k] = sent[i]) \/ (\E i \in 1 .. Len(more) : sent'[k] = more[i])
  <2>1. sent' = sent \o more
    BY <1>3 DEF more
  <2> QED
    BY <1>1, <1>4, <1>6, <1>7, <2>1, SentMore, ZenonT(60) DEF Sorted
<1>9. \A k \in 1 .. Len(sent') : sent'[k] \in 1 .. written /\ sent'[k] <= last /\ sent'[k] > f.from
  <2>1. \A i \in 1 .. Len(sent) : sent[i] \in 1 .. written /\ sent[i] <= last /\ sent[i] > f.from
    BY <1>0, <1>1, <1>3 DEF Numbers
  <2>2. \A i \in 1 .. Len(more) : more[i] \in 1 .. written /\ more[i] <= last /\ more[i] > f.from
    BY <1>0, <1>1, <1>3, <1>5 DEF Numbers
  <2> QED
    BY <1>8, <2>1, <2>2
<1>10. Log!TypeOK'
  <2>1. \A k \in 1 .. Len(sent') : sent'[k] \in 1 .. Lines
    BY <1>0, <1>9 DEF Numbers
  <2>2. seen' \in 0 .. Lines
    BY <1>0, <1>1, <1>3 DEF Numbers
  <2> QED
    BY <1>0, <2>1, <2>2, FollowerTyped DEF Log!TypeOK
<1>11. FollowerInv'
  BY <1>0 DEF LogInv, FollowerInv, Same
<1>12. SentInv'
  <2>1. pc' = "read" => f.from <= seen' /\ seen' <= written /\ \A k \in 1 .. Len(sent') : sent'[k] <= seen'
    BY <1>1, <1>3, <1>9
  <2> QED
    BY <1>0, <1>8, <1>9, <2>1 DEF SentInv, Same
<1> QED
  BY <1>0, <1>10, <1>11, <1>12 DEF LogInv

\* What the log begins with.
LEMMA LogBegins == ASSUME Log!Init, Log!ConstantsAssumption PROVE LogInv
<1> DEFINE w == Log!WholeLines(Before)
<1>0. /\ kind \in {"lines", "document"} /\ kind \in Kinds /\ path = 1 /\ there = TRUE /\ torn = FALSE /\ copied = FALSE
      /\ files = [n \in 1 .. Files |-> IF n = 1 THEN w ELSE <<>>] /\ written = Before /\ apart = {}
      /\ pc = "start" /\ f = Log!Closed /\ seen = 0 /\ sent = <<>>
      /\ Before \in Nat /\ Lines \in Nat /\ Before <= Lines /\ Files \in Nat \ {0} /\ 1 \in 1 .. Files
  BY DEF Log!Init, Log!ConstantsAssumption
<1>1. Top = 2 * written /\ Numbers
  BY <1>0 DEF Top, Numbers
<1>2. w = [i \in 1 .. 2 * Before |-> <<(i + 1) \div 2, 2 - (i % 2)>>]
  BY DEF Log!WholeLines, Log!Half
<1>3. ASSUME NEW i \in 1 .. 2 * Before
      PROVE  /\ w[i] = <<(i + 1) \div 2, 2 - (i % 2)>> /\ (i + 1) \div 2 \in 1 .. Before /\ 2 - (i % 2) \in {1, 2}
             /\ Rank(w[i]) = i + 2
  <2>1. w[i] = <<(i + 1) \div 2, 2 - (i % 2)>>
    BY <1>2
  <2>2. i % 2 \in {0, 1} /\ i \in Nat /\ i = 2 * (i \div 2) + (i % 2) /\ i \div 2 \in Nat
    BY <1>0
  <2>3. (i + 1) \div 2 = (i \div 2) + (i % 2)
    BY <2>2
  <2>4. (i + 1) \div 2 \in 1 .. Before /\ 2 - (i % 2) \in {1, 2}
    BY <1>0, <2>2, <2>3
  <2>5. 2 * ((i + 1) \div 2) + (2 - (i % 2)) = i + 2
    BY <1>0, <2>2, <2>3
  <2> QED
    BY <1>0, <2>1, <2>4, <2>5 DEF Rank
<1>4. w \in Halved /\ Len(w) = 2 * Before
  <2>1. \A i \in 1 .. 2 * Before : <<(i + 1) \div 2, 2 - (i % 2)>> \in Nat \X {1, 2}
    <3> SUFFICES ASSUME NEW i \in 1 .. 2 * Before PROVE <<(i + 1) \div 2, 2 - (i % 2)>> \in Nat \X {1, 2}
      OBVIOUS
    <3> DEFINE l == (i + 1) \div 2
               h == 2 - (i % 2)
    <3>1. l \in 1 .. Before /\ h \in {1, 2}
      BY <1>3
    <3> HIDE DEF l, h
    <3>2. <<l, h>> \in Nat \X {1, 2}
      BY <1>0, <3>1
    <3> QED
      BY <3>2 DEF l, h
  <2>2. 2 * Before \in Nat
    BY <1>0
  <2>3. w \in [1 .. 2 * Before -> Nat \X {1, 2}]
    BY <1>2, <2>1
  <2> HIDE DEF w
  <2> QED
    BY <2>2, <2>3 DEF Halved
<1> HIDE DEF w
<1>5. <<>> \in Halved /\ Len(<<>>) = 0
  BY DEF Halved
<1>6. FileFits(w) /\ FileFits(<<>>)
  <2>1. Ascending(w)
    BY <1>3, <1>4 DEF Ascending
  <2>2. \A i \in 1 .. Len(w) : w[i][1] \in 1 .. written /\ Rank(w[i]) <= Top + 2
    <3> SUFFICES ASSUME NEW i \in 1 .. 2 * Before PROVE w[i][1] \in 1 .. written /\ Rank(w[i]) <= Top + 2
      BY <1>4
    <3>1. w[i][1] = (i + 1) \div 2
      BY <1>3
    <3> QED
      BY <1>0, <1>1, <1>3, <3>1
  <2>3. FileFits(w)
    BY <1>0, <1>1, <1>4, <2>1, <2>2 DEF FileFits, FitsTo
  <2>4. Ascending(<<>>) /\ 0 <= Top
    BY <1>0, <1>1, <1>5 DEF Ascending
  <2> QED
    BY <1>5, <2>3, <2>4 DEF FileFits, FitsTo
<1>7. files \in [1 .. Files -> Halved] /\ files[1] = w /\ \A q \in 1 .. Files : q # 1 => files[q] = <<>>
  BY <1>0, <1>4, <1>5
<1>8. OwnerInv
  <2>1. \A q \in 1 .. Files : q > 1 => files[q] = <<>>
    BY <1>7
  <2>2. ASSUME NEW p \in 1 .. Files, NEW q \in 1 .. Files, p < q PROVE Above(files[p], files[q])
    <3>1. q # 1
      BY <2>2
    <3>2. files[q] = <<>>
      BY <1>7, <3>1
    <3> QED
      BY <1>5, <3>2 DEF Above, Past
  <2>3. \A q \in 1 .. Files : FileFits(files[q])
    BY <1>6, <1>7
  <2> QED
    BY <1>0, <1>4, <1>7, <2>1, <2>2, <2>3 DEF OwnerInv
<1>9. f \in Opened /\ f.part = <<>> /\ Len(f.part) = 0
  <2>1. 0 \in 0 .. 2 * written /\ Lines + 1 \in 0 .. Lines + 1 /\ 0 \in 0 .. Files
    BY <1>0
  <2>2. f = [file |-> 0, info |-> 0, pos |-> 0, part |-> <<>>, from |-> Lines + 1, mistaken |-> FALSE]
    BY <1>0 DEF Log!Closed, Log!Unstarted
  <2> QED
    BY <1>5, <2>1, <2>2 DEF Opened, Log!Unstarted
<1>10. FollowerInv
  BY <1>0, <1>9 DEF FollowerInv, Following
<1>11. \A k \in 1 .. Len(sent) : FALSE
  BY <1>0
<1>12. SentInv
  BY <1>0, <1>11 DEF SentInv, Sorted, Following
<1>13. Log!TypeOK
  <2>1. f.file = 0 /\ f.info = 0 /\ f.pos = 0
    BY <1>0 DEF Log!Closed
  <2>2. written \in Before .. Lines /\ 0 \in 0 .. 2 * Lines /\ 0 \in 0 .. Lines /\ 0 \in 0 .. Files
    BY <1>0
  <2>3. \A i \in 1 .. Len(sent) : sent[i] \in 1 .. Lines
    BY <1>11
  <2>4. Len(f.part) <= 1 /\ apart \subseteq 1 .. Lines
    BY <1>0, <1>9
  <2> HIDE DEF w
  <2> QED
    BY <1>0, <2>1, <2>2, <2>3, <2>4 DEF Log!TypeOK
<1> QED
  BY <1>8, <1>10, <1>12, <1>13 DEF LogInv

\* Every step of a listener and its log.
LEMMA LogKept == ASSUME LogInv, Log!ConstantsAssumption, Log!Next PROVE LogInv'
BY WholeKept, HalvesKept, ReplacedKept, StartsKept, ReadKept, AtEndKept, CheckKept, ReopenKept, PollKept
   DEF Log!Next, Log!Owner, Log!Follower

\* The steps of other parts keep the invariant of the log.
LEMMA LogStays == ASSUME LogInv, UNCHANGED logVars PROVE LogInv'
<1>1. UNCHANGED <<Top, Following, Opened>> /\ Same /\ UNCHANGED <<apart, pc, f, seen, sent>> /\ UNCHANGED Log!log
  BY DEF logVars, Top, Following, Opened, Same, Log!log, Log!Unstarted
<1>2. OwnerInv' /\ Future' = Future
  BY <1>1, SameInv DEF LogInv, Future, Same
<1>3. Log!TypeOK' /\ FollowerInv' /\ SentInv'
  BY <1>1, <1>2 DEF LogInv, Log!TypeOK, FollowerInv, SentInv, Same
<1> QED
  BY <1>2, <1>3 DEF LogInv

\* What a user who listens is promised.
LEMMA LogShows == ASSUME LogInv, Log!ConstantsAssumption PROVE Log!InOrder /\ Log!NothingOld
<1>1. kind \in {"lines", "document"}
  BY DEF LogInv, Log!TypeOK, Log!ConstantsAssumption
<1> QED
  BY <1>1 DEF LogInv, SentInv, Sorted, Log!InOrder, Log!NothingOld, Log!SentLines

-------------------------------------------------------------------------------
(* The table of listeners *)

\* What a command has taken out of the table is gone from it until the command is over, and
\* runs are numbered as they are started.
Between ==
  /\ \A c \in Callers : caller[c] # "idle" => entry = 0
  /\ \A c \in Callers : caller[c] \in {"idle", "listen"} => taken[c] = 0
  /\ \A i \in Table!IDs : i > nextID => run[i] = "none"

\* With one command at a time, a listener that runs can be stopped.
OneCommand == OneAtATime /\ Between /\ Table!CanBeStopped

\* Every step keeps the types.
LEMMA TableTypes ==
  ASSUME Table!ConstantsAssumption, Table!TypeOK, [Table!Next]_listenVars
  PROVE  Table!TypeOK'
<1> USE DEF Table!TypeOK
<1>0. 0 \in 0 .. Runs
  BY DEF Table!ConstantsAssumption
<1>1. ASSUME NEW c \in Callers, NEW then \in {"stopping", "unlisten"}, Table!StopListen(c, then)
      PROVE  Table!TypeOK'
  BY <1>0, <1>1 DEF Table!StopListen, Table!Move
<1>2. ASSUME NEW c \in Callers, Table!ListenCancels(c) \/ Table!UnlistenCancels(c) PROVE Table!TypeOK'
  <2>1. stopped' \subseteq Table!IDs
    <3>1. taken[c] \in 0 .. Runs /\ stopped' = stopped \cup ({taken[c]} \ {0})
      BY <1>2 DEF Table!ListenCancels, Table!UnlistenCancels, Table!CancelsTaken
    <3>2. taken[c] # 0 => taken[c] \in Table!IDs
      BY <3>1 DEF Table!IDs
    <3> QED
      BY <3>1, <3>2
  <2> QED
    BY <1>0, <1>2, <2>1 DEF Table!ListenCancels, Table!UnlistenCancels, Table!CancelsTaken, Table!Move
<1>3. ASSUME NEW c \in Callers, Table!Register(c) PROVE Table!TypeOK'
  <2>1. nextID' = nextID + 1 /\ nextID' \in 0 .. Runs /\ entry' = nextID' /\ nextID' \in Table!IDs
    BY <1>3 DEF Table!Register, Table!IDs, Table!ConstantsAssumption
  <2> QED
    BY <1>3, <2>1 DEF Table!Register, Table!Move
<1>4. ASSUME NEW i \in Table!IDs, Table!Ends(i) \/ Table!Deregister(i) PROVE Table!TypeOK'
  BY <1>0, <1>4 DEF Table!Ends, Table!Deregister
<1>5. ASSUME Table!CloseListeners PROVE Table!TypeOK'
  BY <1>0, <1>5 DEF Table!CloseListeners, Table!IDs, Table!ConstantsAssumption
<1>6. ASSUME Table!CloseRoot PROVE Table!TypeOK'
  BY <1>6 DEF Table!CloseRoot
<1>7. ASSUME UNCHANGED listenVars PROVE Table!TypeOK'
  BY <1>7 DEF listenVars
<1> QED
  BY <1>1, <1>2, <1>3, <1>4, <1>5, <1>6, <1>7 DEF Table!Next, Table!Listen, Table!Unlisten

\* With one command at a time, every step keeps the rest.
LEMMA OneKept ==
  ASSUME Table!ConstantsAssumption, Table!TypeOK, OneCommand, [Table!Next]_listenVars, OneAtATime'
  PROVE  OneCommand'
<1> SUFFICES Between' /\ Table!CanBeStopped'
  BY DEF OneCommand
<1> USE DEF OneCommand, OneAtATime, Between, Table!CanBeStopped, Table!Cancelled
<1>1. ASSUME NEW c \in Callers, NEW then \in {"stopping", "unlisten"}, Table!StopListen(c, then)
      PROVE  Between' /\ Table!CanBeStopped'
  <2>1. /\ caller[c] = "idle" /\ taken[c] = 0 /\ entry' = 0 /\ UNCHANGED <<nextID, run, stopped, rootCtx>>
        /\ caller'[c] = then /\ taken'[c] = entry /\ \A d \in Callers : d # c => caller'[d] = "idle" /\ caller[d] = "idle" /\ taken'[d] = taken[d] /\ taken[d] = 0
    BY <1>1 DEF Table!StopListen, Table!Move, Table!TypeOK
  <2> QED
    BY <2>1
<1>2. ASSUME NEW c \in Callers, Table!ListenCancels(c) \/ Table!UnlistenCancels(c)
      PROVE  Between' /\ Table!CanBeStopped'
  <2>1. /\ caller[c] # "idle" /\ caller'[c] \in {"listen", "idle"} /\ UNCHANGED <<entry, nextID, run, rootCtx>>
        /\ taken'[c] = 0 /\ stopped' = stopped \cup ({taken[c]} \ {0})
        /\ \A d \in Callers : d # c => caller'[d] = "idle" /\ caller[d] = "idle" /\ taken'[d] = taken[d] /\ taken[d] = 0
    BY <1>2 DEF Table!ListenCancels, Table!UnlistenCancels, Table!CancelsTaken, Table!Move, Table!TypeOK
  <2>2. 0 \notin Table!IDs
    BY DEF Table!IDs
  <2> QED
    BY <2>1, <2>2
<1>3. ASSUME NEW c \in Callers, Table!Register(c) PROVE Between' /\ Table!CanBeStopped'
  <2>1. /\ caller[c] = "listen" /\ entry = 0 /\ taken[c] = 0 /\ caller'[c] = "idle"
        /\ nextID' = nextID + 1 /\ entry' = nextID' /\ nextID \in Nat
        /\ UNCHANGED <<stopped, rootCtx, taken>> /\ \A d \in Callers : d # c => caller'[d] = "idle" /\ caller[d] = "idle" /\ taken'[d] = taken[d] /\ taken[d] = 0
    BY <1>3 DEF Table!Register, Table!Move, Table!TypeOK, Table!ConstantsAssumption
  <2>2. \A i \in Table!IDs : run'[i] = IF i = nextID' THEN "follows" ELSE run[i]
    BY <1>3 DEF Table!Register, Table!TypeOK
  <2>3. 0 \notin Table!IDs /\ Table!IDs \subseteq Nat
    BY DEF Table!IDs
  <2> QED
    BY <2>1, <2>2, <2>3
<1>4. ASSUME NEW i \in Table!IDs, Table!Ends(i) \/ Table!Deregister(i) PROVE Between' /\ Table!CanBeStopped'
  <2>1. /\ run[i] \in {"follows", "ending"} /\ run'[i] \in {"ending", "ended"}
        /\ \A j \in Table!IDs : j # i => run'[j] = run[j]
        /\ entry' = entry \/ (entry = i /\ entry' = 0)
        /\ UNCHANGED <<nextID, stopped, rootCtx, caller, taken>>
    BY <1>4 DEF Table!Ends, Table!Deregister, Table!TypeOK
  <2> QED
    BY <2>1
<1>5. ASSUME Table!CloseListeners PROVE Between' /\ Table!CanBeStopped'
  <2>1. 0 \notin Table!IDs
    BY DEF Table!IDs
  <2> QED
    BY <1>5, <2>1 DEF Table!CloseListeners
<1>6. ASSUME Table!CloseRoot PROVE Between' /\ Table!CanBeStopped'
  BY <1>6 DEF Table!CloseRoot
<1>7. ASSUME UNCHANGED listenVars PROVE Between' /\ Table!CanBeStopped'
  BY <1>7 DEF listenVars
<1> QED
  BY <1>1, <1>2, <1>3, <1>4, <1>5, <1>6, <1>7 DEF Table!Next, Table!Listen, Table!Unlisten

\* The table of listeners.
TableInv == Table!TypeOK /\ (part = "one" => OneCommand)

\* Nobody listens at first.
LEMMA TableBegins == ASSUME Table!Init, Table!ConstantsAssumption PROVE TableInv
BY DEF Table!Init, TableInv, Table!TypeOK, OneCommand, OneAtATime, Between, Table!CanBeStopped, Table!ConstantsAssumption

\* Every step of the table keeps its invariant.
LEMMA TableKept == ASSUME TableInv, Table!ConstantsAssumption, TableRuns(Table!Next) PROVE TableInv'
BY TableTypes, OneKept DEF TableInv, TableRuns

\* The steps of other parts keep the invariant of the table.
LEMMA TableStays == ASSUME TableInv, Table!ConstantsAssumption, UNCHANGED <<part, listenVars>> PROVE TableInv'
<1>1. Table!TypeOK'
  BY TableTypes DEF TableInv
<1>2. OneAtATime => OneAtATime'
  BY DEF OneAtATime, listenVars
<1>3. part = "one" => OneCommand'
  BY <1>2, OneKept DEF TableInv, OneCommand
<1> QED
  BY <1>1, <1>3 DEF TableInv

-------------------------------------------------------------------------------
(* Sequences of sequences *)

\* The stream's own name for what puts sequences together.
LEMMA StreamFlattens == ASSUME NEW s PROVE Stream!FlattenSeq(s) = Sequence!FlattenSeq(s)
BY DEF Stream!FlattenSeq, Sequence!FlattenSeq

LEMMA StreamIs ==
  ASSUME NEW E, NEW s \in Seq(Seq(E)), NEW F, Flat(E, s, F)
  PROVE  Stream!FlattenSeq(s) = F[Len(s)]
BY FlattenIs, StreamFlattens

LEMMA StreamJoin ==
  ASSUME NEW E, NEW a \in Seq(Seq(E)), NEW b \in Seq(Seq(E))
  PROVE  /\ Stream!FlattenSeq(a \o b) = Stream!FlattenSeq(a) \o Stream!FlattenSeq(b)
         /\ Stream!FlattenSeq(a) \in Seq(E) /\ Stream!FlattenSeq(b) \in Seq(E)
BY FlattenJoin, StreamFlattens

LEMMA StreamFew ==
  ASSUME NEW E, NEW t \in Seq(E)
  PROVE  Stream!FlattenSeq(<<>>) = <<>> /\ Stream!FlattenSeq(<<t>>) = t
BY FlattenFew, StreamFlattens

-------------------------------------------------------------------------------
(* A text is cut into chunks *)

\* Multiplication is monotonic.
LEMMA Times ==
  ASSUME NEW x \in Nat, NEW y \in Nat, NEW s \in Nat, x <= y
  PROVE  x * s \in Nat /\ y * s \in Nat /\ x * s <= y * s /\ (x + 1) * s = x * s + s
<1>1. y = x + (y - x) /\ y - x \in Nat
  OBVIOUS
<1>2. \A z \in Nat : (x + z) * s = x * s + z * s /\ z * s \in Nat /\ x * s \in Nat
  OBVIOUS
<1>3. (x + (y - x)) * s = x * s + (y - x) * s /\ (y - x) * s \in Nat /\ x * s \in Nat
  BY <1>1, <1>2
<1>4. (x + 1) * s = x * s + s
  OBVIOUS
<1> QED
  BY <1>1, <1>3, <1>4

\* What division leaves is less than the divisor.
LEMMA Division ==
  ASSUME NEW x \in Nat, NEW s \in Nat \ {0}
  PROVE  x \div s \in Nat /\ (x \div s) * s <= x /\ x < (x \div s) * s + s
OBVIOUS

\* Parts of a text that follow each other.
LEMMA PartsOfText ==
  ASSUME NEW c \in Seq(Nat), NEW a \in 0 .. Len(c), NEW b \in a .. Len(c)
  PROVE  /\ SubSeq(c, 1, a) \o SubSeq(c, a + 1, b) = SubSeq(c, 1, b)
         /\ SubSeq(c, 1, b) \in Seq(Nat) /\ Len(SubSeq(c, a + 1, b)) = b - a /\ SubSeq(c, a + 1, b) \in Seq(Nat)
BY SMTT(60)

\* The minimum and the maximum of two numbers.
LEMMA MinMax ==
  ASSUME NEW a \in Int, NEW b \in Int
  PROVE  /\ Stream!Max({a, b}) = IF a >= b THEN a ELSE b
         /\ Stream!Min({a, b}) = IF a <= b THEN a ELSE b
<1>1. PICK m \in {a, b} : \A y \in {a, b} : m >= y
  OBVIOUS
<1>2. PICK n \in {a, b} : \A y \in {a, b} : n <= y
  OBVIOUS
<1>3. Stream!Max({a, b}) \in {a, b} /\ \A y \in {a, b} : Stream!Max({a, b}) >= y
  BY <1>1 DEF Stream!Max
<1>4. Stream!Min({a, b}) \in {a, b} /\ \A y \in {a, b} : Stream!Min({a, b}) <= y
  BY <1>2 DEF Stream!Min
<1> QED
  BY <1>3, <1>4

\* A text that is cut is put together again from its parts, none of them too long.
LEMMA CutFacts ==
  ASSUME NEW c \in Seq(Nat), NEW size \in Nat \ {0}
  PROVE  /\ Stream!CutAt(size, c) \in Seq(Seq(Nat)) /\ Len(Stream!CutAt(size, c)) \in Nat \ {0}
         /\ \A i \in 1 .. Len(Stream!CutAt(size, c)) : Len(Stream!CutAt(size, c)[i]) <= size
         /\ Stream!FlattenSeq(Stream!CutAt(size, c)) = c
<1> DEFINE l == Len(c)
           q == (l + size - 1) \div size
           n == Stream!Max({1, q})
           low(i) == (i - 1) * size
           up(i) == Stream!Min({i * size, l})
           p == [i \in 1 .. n |-> SubSeq(c, low(i) + 1, up(i))]
           F == [i \in 0 .. n |-> SubSeq(c, 1, up(i))]
<1>1. l \in Nat /\ size \in Nat /\ size > 0 /\ l + size - 1 \in Nat /\ Stream!CutAt(size, c) = p
  BY DEF Stream!CutAt
<1>2. q \in Nat /\ q * size <= l + size - 1 /\ l + size - 1 < q * size + size
  BY <1>1, Division
<1> HIDE DEF q
<1>3. n = (IF 1 >= q THEN 1 ELSE q) /\ n \in Nat \ {0}
  BY <1>2, MinMax
<1> HIDE DEF n
\* The last part is not empty, unless it is the first.
<1>4. n * size \in Nat /\ n * size >= l /\ (n - 1) * size \in Nat /\ (n - 1) * size <= l
  <2>1. CASE n = 1
    <3>1. 1 * size = size /\ 0 * size = 0
      BY <1>1
    <3>2. q * size \in Nat /\ q * size <= 1 * size
      BY <1>1, <1>2, <1>3, <2>1, Times
    <3> QED
      BY <1>1, <1>2, <2>1, <3>1, <3>2
  <2>2. CASE n # 1
    <3>1. n = q
      BY <1>3, <2>2
    <3>2. q - 1 \in Nat /\ (q - 1) + 1 = q
      BY <1>2, <1>3, <2>2, <3>1
    <3>3. q * size \in Nat /\ (q - 1) * size \in Nat /\ q * size = (q - 1) * size + size
      <4>1. q - 1 <= q - 1
        BY <3>2
      <4>2. (q - 1) * size \in Nat /\ ((q - 1) + 1) * size = (q - 1) * size + size
        BY <1>1, <3>2, <4>1, Times
      <4> QED
        BY <1>1, <3>2, <4>2
    <3> QED
      BY <1>1, <1>2, <3>1, <3>3
  <2> QED
    BY <2>1, <2>2
<1>5. ASSUME NEW i \in 1 .. n
      PROVE  /\ low(i) \in 0 .. l /\ up(i) \in low(i) .. l /\ up(i) <= low(i) + size
             /\ up(i - 1) = low(i)
  <2>1. i \in Nat /\ i - 1 \in Nat /\ i - 1 <= n - 1 /\ n - 1 \in Nat /\ (i - 1) + 1 = i
    BY <1>3
  <2>2. low(i) \in Nat /\ low(i) <= (n - 1) * size /\ ((i - 1) + 1) * size = low(i) + size
    BY <1>1, <2>1, Times
  <2>3. low(i) \in Nat /\ low(i) <= l /\ i * size = low(i) + size
    BY <1>1, <1>4, <2>1, <2>2
  <2> DEFINE k == low(i)
  <2>4. up(i - 1) = Stream!Min({k, l})
    OBVIOUS
  <2> HIDE DEF low
  <2>5. k \in Int /\ l \in Int /\ k + size \in Int
    BY <1>1, <2>3
  <2> HIDE DEF k
  <2>6. Stream!Min({k, l}) = k
    BY <2>3, <2>5, MinMax DEF k
  <2>7. up(i) = Stream!Min({k + size, l})
    BY <2>3 DEF k
  <2>8. up(i) = IF k + size <= l THEN k + size ELSE l
    BY <2>5, <2>7, MinMax
  <2>9. k \in 0 .. l /\ up(i - 1) = k /\ k = low(i)
    BY <1>1, <2>3, <2>4, <2>6 DEF k
  <2> DEFINE m == up(i)
  <2>10. m = IF k + size <= l THEN k + size ELSE l
    BY <2>8
  <2> HIDE DEF m, up
  <2>11. m \in k .. l /\ m <= k + size
    BY <1>1, <2>9, <2>10, SMTT(60)
  <2> QED
    BY <2>9, <2>11 DEF m
<1>6. up(0) = 0 /\ up(n) = l
  <2>1. 0 * size = 0 /\ 0 <= l
    BY <1>1
  <2>2. Stream!Min({0, l}) = 0
    <3> HIDE DEF l
    <3>1. l \in Int /\ 0 \in Int /\ 0 <= l
      BY <1>1
    <3> QED
      BY <3>1, MinMax
  <2> DEFINE m == n * size
  <2>3. m \in Int /\ l \in Int /\ m >= l
    BY <1>1, <1>4
  <2> HIDE DEF m, l
  <2>4. Stream!Min({m, l}) = l
    <3>1. Stream!Min({m, l}) = IF m <= l THEN m ELSE l
      BY <2>3, MinMax
    <3> QED
      BY <2>3, <3>1
  <2> QED
    BY <2>1, <2>2, <2>4 DEF m
<1> HIDE DEF low, up
<1>7. \A i \in 1 .. n : /\ SubSeq(c, 1, up(i - 1)) \o SubSeq(c, low(i) + 1, up(i)) = SubSeq(c, 1, up(i))
                        /\ SubSeq(c, 1, up(i)) \in Seq(Nat)
                        /\ SubSeq(c, low(i) + 1, up(i)) \in Seq(Nat) /\ Len(SubSeq(c, low(i) + 1, up(i))) <= size
  <2> SUFFICES ASSUME NEW i \in 1 .. n
               PROVE  /\ SubSeq(c, 1, up(i - 1)) \o SubSeq(c, low(i) + 1, up(i)) = SubSeq(c, 1, up(i))
                      /\ SubSeq(c, 1, up(i)) \in Seq(Nat)
                      /\ SubSeq(c, low(i) + 1, up(i)) \in Seq(Nat) /\ Len(SubSeq(c, low(i) + 1, up(i))) <= size
    OBVIOUS
  <2> DEFINE a == low(i)
             b == up(i)
  <2>1. a \in 0 .. Len(c) /\ b \in a .. Len(c) /\ b <= a + size /\ up(i - 1) = a
    BY <1>5
  <2> HIDE DEF a, b
  <2>2. /\ SubSeq(c, 1, a) \o SubSeq(c, a + 1, b) = SubSeq(c, 1, b)
        /\ SubSeq(c, 1, b) \in Seq(Nat) /\ Len(SubSeq(c, a + 1, b)) = b - a /\ SubSeq(c, a + 1, b) \in Seq(Nat)
    BY <2>1, PartsOfText
  <2>3. b - a <= size
    BY <1>1, <2>1
  <2> QED
    BY <2>1, <2>2, <2>3 DEF a, b
<1>8. p \in Seq(Seq(Nat)) /\ Len(p) = n /\ \A i \in 1 .. n : p[i] = SubSeq(c, low(i) + 1, up(i))
  <2>1. \A i \in 1 .. n : SubSeq(c, low(i) + 1, up(i)) \in Seq(Nat)
    BY <1>7
  <2>2. p \in [1 .. n -> Seq(Nat)] /\ \A i \in 1 .. n : p[i] = SubSeq(c, low(i) + 1, up(i))
    BY <2>1
  <2>3. n \in Nat
    BY <1>3
  <2> HIDE DEF p
  <2> QED
    BY <2>2, <2>3
<1>9. F[0] = <<>> /\ F[n] = c /\ F \in [0 .. n -> Seq(Nat)]
      /\ \A i \in 1 .. n : F[i] = SubSeq(c, 1, up(i)) /\ F[i - 1] = SubSeq(c, 1, up(i - 1))
  <2>1. SubSeq(c, 1, 0) = <<>> /\ SubSeq(c, 1, l) = c
    OBVIOUS
  <2>a. n \in Nat
    BY <1>3
  <2>2. 0 \in 0 .. n /\ n \in 0 .. n /\ \A i \in 1 .. n : i \in 0 .. n /\ i - 1 \in 0 .. n
    BY <2>a
  <2>3. SubSeq(c, 1, up(0)) = <<>> /\ SubSeq(c, 1, up(n)) = c
    BY <1>6, <2>1
  <2>4. \A i \in 0 .. n : i = 0 \/ i \in 1 .. n
    BY <1>3
  <2>5. \A i \in 0 .. n : SubSeq(c, 1, up(i)) \in Seq(Nat)
    <3> SUFFICES ASSUME NEW i \in 0 .. n PROVE SubSeq(c, 1, up(i)) \in Seq(Nat)
      OBVIOUS
    <3>1. CASE i = 0
      <4>1. SubSeq(c, 1, up(i)) = SubSeq(c, 1, up(0))
        BY <3>1
      <4>2. <<>> \in Seq(Nat)
        OBVIOUS
      <4> QED
        BY <2>3, <4>1, <4>2
    <3>2. CASE i \in 1 .. n
      BY <1>7, <3>2
    <3> QED
      BY <2>4, <3>1, <3>2
  <2> QED
    BY <2>2, <2>3, <2>5
<1> HIDE DEF p, F
<1>10. Flat(Nat, p, F)
  <2>1. \A i \in 1 .. n : F[i] = F[i - 1] \o p[i]
    BY <1>7, <1>8, <1>9
  <2> QED
    BY <1>8, <1>9, <2>1 DEF Flat
<1>11. Stream!FlattenSeq(p) = c
  BY <1>8, <1>9, <1>10, StreamIs
<1>12. \A i \in 1 .. n : Len(p[i]) <= size
  BY <1>7, <1>8
<1> QED
  BY <1>1, <1>3, <1>8, <1>11, <1>12

-------------------------------------------------------------------------------
(* Messages and the text they carry *)

\* What is handed to the reply stream, or what it makes of it: texts, and whether the reply
\* is complete.
Message == [text : Seq(Nat), done : BOOLEAN]
\* The texts of messages.
TextsOf(s) == [i \in 1 .. Len(s) |-> s[i].text]

\* The messages s carry the text t, and the last of them closes the reply if d.
Carries(s, t, d) ==
  /\ s \in Seq(Message) /\ Stream!FlattenSeq(TextsOf(s)) = t
  /\ \A i \in 1 .. Len(s) : s[i].done <=> (d /\ i = Len(s))
  /\ d => s # <<>>

\* No message is too long for a chunk.
Small(s) == \A i \in 1 .. Len(s) : Len(s[i].text) <= ChunkMax

\* Functions with the same values are equal.
LEMMA SameSequence ==
  ASSUME NEW D, NEW S, NEW u \in [D -> S], NEW v \in [D -> S], \A i \in D : u[i] = v[i]
  PROVE  u = v
OBVIOUS

\* The texts of messages after each other.
LEMMA TextsJoin ==
  ASSUME NEW R, \A r \in R : r.text \in Seq(Nat), NEW a \in Seq(R), NEW b \in Seq(R)
  PROVE  /\ TextsOf(a \o b) = TextsOf(a) \o TextsOf(b)
         /\ TextsOf(a) \in Seq(Seq(Nat)) /\ Len(TextsOf(a)) = Len(a)
         /\ TextsOf(b) \in Seq(Seq(Nat)) /\ Len(TextsOf(b)) = Len(b)
<1>1. ASSUME NEW s \in Seq(R)
      PROVE  /\ TextsOf(s) \in Seq(Seq(Nat)) /\ Len(TextsOf(s)) = Len(s) /\ Len(s) \in Nat
             /\ \A i \in 1 .. Len(s) : TextsOf(s)[i] = s[i].text
  <2>1. \A i \in 1 .. Len(s) : s[i].text \in Seq(Nat)
    OBVIOUS
  <2> QED
    BY <2>1 DEF TextsOf
<1> DEFINE c == a \o b
           x == TextsOf(a)
           y == TextsOf(b)
           z == TextsOf(c)
<1>2. /\ c \in Seq(R) /\ Len(c) = Len(a) + Len(b) /\ Len(a) \in Nat /\ Len(b) \in Nat
      /\ \A i \in 1 .. Len(c) : c[i] = IF i <= Len(a) THEN a[i] ELSE b[i - Len(a)]
  OBVIOUS
<1>3. /\ x \in Seq(Seq(Nat)) /\ Len(x) = Len(a) /\ \A i \in 1 .. Len(a) : x[i] = a[i].text
      /\ y \in Seq(Seq(Nat)) /\ Len(y) = Len(b) /\ \A i \in 1 .. Len(b) : y[i] = b[i].text
      /\ z \in Seq(Seq(Nat)) /\ Len(z) = Len(c) /\ \A i \in 1 .. Len(c) : z[i] = c[i].text
  BY <1>1, <1>2
<1> HIDE DEF c, x, y, z
<1>4. x \o y \in Seq(Seq(Nat)) /\ Len(x \o y) = Len(a) + Len(b)
      /\ \A i \in 1 .. Len(a) + Len(b) : (x \o y)[i] = IF i <= Len(a) THEN x[i] ELSE y[i - Len(a)]
  BY <1>2, <1>3, SMTT(60)
<1>5. \A i \in 1 .. Len(a) + Len(b) : (i <= Len(a) => i \in 1 .. Len(a)) /\ (~(i <= Len(a)) => i - Len(a) \in 1 .. Len(b))
  BY <1>2
<1>6. \A i \in 1 .. Len(a) + Len(b) : z[i] = (x \o y)[i]
  BY <1>2, <1>3, <1>4, <1>5, ZenonT(60)
<1>7. z = x \o y
  <2> DEFINE w == x \o y
  <2>1. w \in Seq(Seq(Nat)) /\ z \in Seq(Seq(Nat)) /\ Len(w) = Len(z) /\ \A i \in 1 .. Len(z) : z[i] = w[i]
    BY <1>2, <1>3, <1>4, <1>6
  <2> HIDE DEF w
  <2>2. z = w
    <3>1. z \in [1 .. Len(z) -> Seq(Nat)] /\ w \in [1 .. Len(z) -> Seq(Nat)]
      BY <2>1
    <3>2. \A i \in 1 .. Len(z) : z[i] = w[i]
      BY <2>1
    <3> QED
      BY <3>1, <3>2, SameSequence
  <2> QED
    BY <2>2 DEF w
<1> QED
  BY <1>3, <1>7 DEF c, x, y, z

\* What is in a message.
LEMMA MessageText == \A r \in Message : r.text \in Seq(Nat) /\ r.done \in BOOLEAN
BY DEF Message

\* Messages after each other.
LEMMA CarriesJoin ==
  ASSUME NEW a, NEW b, NEW t, NEW u, NEW d \in BOOLEAN, Carries(a, t, FALSE), Carries(b, u, d)
  PROVE  Carries(a \o b, t \o u, d) /\ (Small(a) /\ Small(b) => Small(a \o b)) /\ t \in Seq(Nat) /\ u \in Seq(Nat)
<1> DEFINE c == a \o b
<1>1. /\ a \in Seq(Message) /\ b \in Seq(Message) /\ Stream!FlattenSeq(TextsOf(a)) = t /\ Stream!FlattenSeq(TextsOf(b)) = u
      /\ \A i \in 1 .. Len(a) : ~a[i].done
      /\ \A i \in 1 .. Len(b) : b[i].done <=> (d /\ i = Len(b))
      /\ d => b # <<>>
  BY DEF Carries
<1>2. /\ TextsOf(c) = TextsOf(a) \o TextsOf(b)
      /\ TextsOf(a) \in Seq(Seq(Nat)) /\ TextsOf(b) \in Seq(Seq(Nat))
  BY <1>1, MessageText, TextsJoin
<1>3. Stream!FlattenSeq(TextsOf(c)) = t \o u /\ t \in Seq(Nat) /\ u \in Seq(Nat)
  BY <1>1, <1>2, StreamJoin
<1>4. /\ c \in Seq(Message) /\ Len(c) = Len(a) + Len(b) /\ Len(a) \in Nat /\ Len(b) \in Nat
      /\ \A i \in 1 .. Len(c) : \/ i \in 1 .. Len(a) /\ c[i] = a[i]
                                \/ i > Len(a) /\ i - Len(a) \in 1 .. Len(b) /\ c[i] = b[i - Len(a)]
  <2>1. /\ c \in Seq(Message) /\ Len(c) = Len(a) + Len(b) /\ Len(a) \in Nat /\ Len(b) \in Nat
        /\ \A i \in 1 .. Len(c) : c[i] = IF i <= Len(a) THEN a[i] ELSE b[i - Len(a)]
    BY <1>1
  <2>2. \A i \in 1 .. Len(a) + Len(b) : i \in 1 .. Len(a) \/ (i > Len(a) /\ i - Len(a) \in 1 .. Len(b))
    BY <2>1
  <2> HIDE DEF c
  <2> QED
    BY <2>1, <2>2
<1>5. d => Len(b) > 0
  BY <1>1, <1>4
<1> HIDE DEF c
<1>6. \A i \in 1 .. Len(c) : c[i].done <=> (d /\ i = Len(c))
  <2> SUFFICES ASSUME NEW i \in 1 .. Len(c) PROVE c[i].done <=> (d /\ i = Len(c))
    OBVIOUS
  <2>1. CASE i \in 1 .. Len(a) /\ c[i] = a[i]
    <3>1. d => i # Len(c)
      BY <1>4, <1>5, <2>1
    <3>2. ~c[i].done
      BY <1>1, <2>1
    <3> QED
      BY <3>1, <3>2
  <2>2. CASE i > Len(a) /\ i - Len(a) \in 1 .. Len(b) /\ c[i] = b[i - Len(a)]
    <3>1. i - Len(a) = Len(b) <=> i = Len(c)
      BY <1>4, <2>2
    <3>2. c[i].done <=> (d /\ i - Len(a) = Len(b))
      BY <1>1, <2>2
    <3> QED
      BY <3>1, <3>2
  <2> QED
    BY <1>4, <2>1, <2>2
<1>7. d => c # <<>>
  BY <1>4, <1>5
<1>8. Small(a) /\ Small(b) => Small(c)
  BY <1>4 DEF Small
<1> QED
  BY <1>3, <1>4, <1>6, <1>7, <1>8 DEF Carries, c

\* No message, and one.
LEMMA CarriesOne ==
  /\ Carries(<<>>, <<>>, FALSE) /\ Small(<<>>)
  /\ \A t \in Seq(Nat), d \in BOOLEAN : Carries(<<Stream!Send(t, d)>>, t, d)
<1>1. Carries(<<>>, <<>>, FALSE) /\ Small(<<>>)
  <2>1. TextsOf(<<>>) = <<>>
    BY DEF TextsOf
  <2>2. Stream!FlattenSeq(<<>>) = <<>>
    BY DEF Stream!FlattenSeq
  <2>3. <<>> \in Seq(Message) /\ Len(<<>>) = 0
    OBVIOUS
  <2> QED
    BY <2>1, <2>2, <2>3 DEF Carries, Small
<1>2. ASSUME NEW t \in Seq(Nat), NEW d \in BOOLEAN PROVE Carries(<<Stream!Send(t, d)>>, t, d)
  <2> DEFINE m == Stream!Send(t, d)
             s == <<m>>
  <2>1. m \in Message /\ m.text = t /\ m.done = d
    BY DEF Stream!Send, Message
  <2> HIDE DEF m
  <2>2. s \in Seq(Message) /\ Len(s) = 1 /\ s[1] = m /\ s # <<>>
    BY <2>1
  <2> HIDE DEF s
  <2>3. TextsOf(s) = <<t>>
    <3>1. TextsOf(s) = [i \in 1 .. 1 |-> s[i].text]
      BY <2>2 DEF TextsOf
    <3>2. \A i \in 1 .. 1 : s[i].text = t
      BY <2>1, <2>2
    <3> QED
      BY <3>1, <3>2
  <2>4. Stream!FlattenSeq(TextsOf(s)) = t
    BY <2>3, StreamFew
  <2>5. \A i \in 1 .. Len(s) : s[i].done <=> (d /\ i = Len(s))
    <3>1. \A i \in 1 .. Len(s) : i = 1 /\ s[i].done = d
      BY <2>1, <2>2
    <3> QED
      BY <2>2, <3>1
  <2>6. Carries(s, t, d)
    BY <2>2, <2>4, <2>5 DEF Carries
  <2> QED
    BY <2>6 DEF s, m
<1> QED
  BY <1>1, <1>2

\* One message is cut into chunks, the last of which closes the reply if the message does.
LEMMA ChunksOfOne ==
  ASSUME NEW p \in Message, ChunkMax \in Nat \ {0}
  PROVE  Carries(Stream!ChunksOf(p), p.text, p.done) /\ Small(Stream!ChunksOf(p))
<1> DEFINE parts == Stream!CutAt(ChunkMax, p.text)
           n == Len(parts)
           s == [i \in 1 .. n |-> Stream!Send(parts[i], p.done /\ i = n)]
<1>1. p.text \in Seq(Nat) /\ p.done \in BOOLEAN
  BY DEF Message
<1>2. /\ parts \in Seq(Seq(Nat)) /\ n \in Nat \ {0} /\ Stream!FlattenSeq(parts) = p.text
      /\ \A i \in 1 .. n : Len(parts[i]) <= ChunkMax
  BY <1>1, CutFacts
<1>3. Stream!ChunksOf(p) = s
  BY DEF Stream!ChunksOf, Stream!Split
<1> HIDE DEF parts
<1>4. \A i \in 1 .. n : /\ Stream!Send(parts[i], p.done /\ i = n) \in Message
                        /\ Stream!Send(parts[i], p.done /\ i = n).text = parts[i]
                        /\ (Stream!Send(parts[i], p.done /\ i = n).done <=> p.done /\ i = n)
  <2> SUFFICES ASSUME NEW i \in 1 .. n
               PROVE  /\ Stream!Send(parts[i], p.done /\ i = n) \in Message
                      /\ Stream!Send(parts[i], p.done /\ i = n).text = parts[i]
                      /\ (Stream!Send(parts[i], p.done /\ i = n).done <=> p.done /\ i = n)
    OBVIOUS
  <2> DEFINE d == p.done /\ i = n
             t == parts[i]
  <2>1. d \in BOOLEAN /\ t \in Seq(Nat)
    BY <1>2
  <2> HIDE DEF d, t
  <2>2. Stream!Send(t, d) \in Message /\ Stream!Send(t, d).text = t /\ Stream!Send(t, d).done = d
    BY <2>1 DEF Stream!Send, Message
  <2> QED
    BY <2>1, <2>2 DEF d, t
<1>5. /\ s \in Seq(Message) /\ Len(s) = n
      /\ \A i \in 1 .. n : s[i] = Stream!Send(parts[i], p.done /\ i = n)
  <2>1. s \in [1 .. n -> Message] /\ \A i \in 1 .. n : s[i] = Stream!Send(parts[i], p.done /\ i = n)
    BY <1>4
  <2>2. n \in Nat
    BY <1>2
  <2> HIDE DEF s, n
  <2> QED
    BY <2>1, <2>2
<1> HIDE DEF s
<1>6. \A i \in 1 .. n : s[i].text = parts[i] /\ (s[i].done <=> p.done /\ i = n)
  BY <1>4, <1>5
<1>7. TextsOf(s) = parts
  <2>1. TextsOf(s) = [i \in 1 .. n |-> s[i].text]
    BY <1>5 DEF TextsOf
  <2> DEFINE u == [i \in 1 .. n |-> s[i].text]
  <2>2. \A i \in 1 .. n : parts[i] \in Seq(Nat)
    BY <1>2
  <2>3. u \in [1 .. n -> Seq(Nat)] /\ \A i \in 1 .. n : u[i] = parts[i]
    BY <1>6, <2>2
  <2>4. parts \in [1 .. n -> Seq(Nat)]
    BY <1>2
  <2> HIDE DEF u
  <2>5. u = parts
    BY <2>3, <2>4, SameSequence
  <2> QED
    BY <2>1, <2>5 DEF u
<1>8. s # <<>>
  BY <1>2, <1>5
<1>9. Carries(s, p.text, p.done)
  BY <1>2, <1>5, <1>6, <1>7, <1>8 DEF Carries
<1>10. Small(s)
  BY <1>2, <1>5, <1>6 DEF Small
<1> QED
  BY <1>3, <1>9, <1>10

\* So is a sequence of messages.
LEMMA ChunksCarry ==
  ASSUME NEW sends, NEW t, NEW d \in BOOLEAN, Carries(sends, t, d), ChunkMax \in Nat \ {0}
  PROVE  Carries(Stream!Chunks(sends), t, d) /\ Small(Stream!Chunks(sends))
<1> DEFINE n == Len(sends)
           cs == [i \in 1 .. n |-> Stream!ChunksOf(sends[i])]
           ts == TextsOf(sends)
<1>1. /\ sends \in Seq(Message) /\ n \in Nat /\ \A i \in 1 .. n : sends[i] \in Message
      /\ Stream!FlattenSeq(ts) = t
      /\ \A i \in 1 .. n : sends[i].done <=> (d /\ i = n)
      /\ d => n # 0
  <2>1. /\ sends \in Seq(Message) /\ Stream!FlattenSeq(ts) = t
        /\ \A i \in 1 .. n : sends[i].done <=> (d /\ i = n)
        /\ d => sends # <<>>
    BY DEF Carries
  <2>2. sends # <<>> => n # 0
    BY <2>1
  <2>3. n \in Nat /\ \A i \in 1 .. n : sends[i] \in Message
    BY <2>1
  <2> QED
    BY <2>1, <2>2, <2>3
<1>2. Stream!Chunks(sends) = Stream!FlattenSeq(cs)
  BY DEF Stream!Chunks
<1>3. ASSUME NEW i \in 1 .. n
      PROVE  /\ Carries(cs[i], sends[i].text, d /\ i = n) /\ Small(cs[i]) /\ cs[i] \in Seq(Message)
             /\ ts[i] = sends[i].text /\ ts[i] \in Seq(Nat)
  <2> DEFINE p == sends[i]
             e == d /\ i = n
  <2>1. p \in Message /\ (p.done <=> e) /\ e \in BOOLEAN /\ p.done \in BOOLEAN /\ p.text \in Seq(Nat)
    BY <1>1, MessageText
  <2>2. cs[i] = Stream!ChunksOf(p)
    OBVIOUS
  <2> HIDE DEF p, e
  <2>3. p.done = e
    BY <2>1
  <2>4. Carries(Stream!ChunksOf(p), p.text, p.done) /\ Small(Stream!ChunksOf(p))
    BY <2>1, ChunksOfOne
  <2>5. Carries(Stream!ChunksOf(p), p.text, e) /\ Small(Stream!ChunksOf(p))
    BY <2>3, <2>4
  <2>6. Stream!ChunksOf(p) \in Seq(Message)
    BY <2>5 DEF Carries
  <2>7. ts[i] = p.text
    BY DEF TextsOf, p
  <2> HIDE DEF cs, ts
  <2> QED
    BY <2>1, <2>2, <2>5, <2>6, <2>7 DEF p, e
<1>4. cs \in Seq(Seq(Message)) /\ Len(cs) = n
  <2>1. \A i \in 1 .. n : Stream!ChunksOf(sends[i]) \in Seq(Message)
    BY <1>3
  <2>2. cs \in [1 .. n -> Seq(Message)]
    BY <2>1
  <2> HIDE DEF cs
  <2> QED
    BY <1>1, <2>2
<1>5. ts \in Seq(Seq(Nat)) /\ Len(ts) = n
  <2>1. \A i \in 1 .. n : sends[i].text \in Seq(Nat)
    BY <1>1, MessageText
  <2>2. ts \in [1 .. n -> Seq(Nat)]
    BY <2>1 DEF TextsOf
  <2> HIDE DEF ts
  <2> QED
    BY <1>1, <2>2
<1> HIDE DEF cs, ts
<1>6. PICK H : Flat(Message, cs, H)
  BY <1>4, FlatIs
<1>7. PICK K : Flat(Nat, ts, K)
  BY <1>5, FlatIs
<1>8. Stream!FlattenSeq(cs) = H[n] /\ t = K[n]
  BY <1>1, <1>4, <1>5, <1>6, <1>7, StreamIs
<1>9. /\ H[0] = <<>> /\ K[0] = <<>>
      /\ \A i \in 1 .. n : H[i] = H[i - 1] \o cs[i] /\ K[i] = K[i - 1] \o ts[i]
  BY <1>4, <1>5, <1>6, <1>7 DEF Flat
<1> DEFINE Q(i) == i <= n => Carries(H[i], K[i], d /\ i = n) /\ Small(H[i])
           S == {i \in Nat : Q(i)}
<1>10. 0 \in S
  <2> DEFINE e == d /\ 0 = n
  <2>1. e = FALSE
    BY <1>1
  <2> HIDE DEF e
  <2>2. Carries(H[0], K[0], e) /\ Small(H[0])
    BY <1>9, <2>1, CarriesOne
  <2>3. Q(0)
    BY <2>2 DEF e
  <2> HIDE DEF Q
  <2> QED
    BY <2>3
<1>11. ASSUME NEW i \in S PROVE i + 1 \in S
  <2>b. i \in Nat /\ i + 1 \in Nat /\ Q(i)
    <3> HIDE DEF Q
    <3> QED
      OBVIOUS
  <2> SUFFICES ASSUME i + 1 <= n PROVE Carries(H[i + 1], K[i + 1], d /\ i + 1 = n) /\ Small(H[i + 1])
    BY <2>b
  <2>a. i <= n /\ i # n /\ i + 1 \in 1 .. n /\ (i + 1) - 1 = i
    BY <1>1, <2>b
  <2> DEFINE e == d /\ i + 1 = n
             g == d /\ i = n
             a == H[i]
             x == K[i]
             b == cs[i + 1]
             y == ts[i + 1]
  <2>1. g = FALSE
    BY <2>a
  <2>2. Carries(a, x, g) /\ Small(a)
    BY <2>b, <2>a
  <2>3. Carries(b, y, e) /\ Small(b) /\ e \in BOOLEAN
    BY <1>3, <2>a
  <2>4. H[i + 1] = a \o b /\ K[i + 1] = x \o y
    BY <1>9, <2>a
  <2> HIDE DEF a, b, x, y, e, g
  <2>5. Carries(a, x, FALSE)
    BY <2>1, <2>2
  <2>6. Carries(a \o b, x \o y, e) /\ Small(a \o b)
    BY <2>2, <2>3, <2>5, CarriesJoin
  <2> QED
    BY <2>4, <2>6 DEF e
<1>12. S = Nat
  <2> HIDE DEF S
  <2>1. S \subseteq Nat
    BY DEF S
  <2> QED
    BY <1>10, <1>11, <2>1, SetInduction
<1>13. Carries(H[n], K[n], d) /\ Small(H[n])
  <2> DEFINE m == n
             e == d /\ m = n
  <2>1. m \in S
    BY <1>1, <1>12
  <2>2. Q(m)
    <3> HIDE DEF Q, m
    <3> QED
      BY <2>1
  <2>3. m <= n
    BY <1>1
  <2>4. e = d
    OBVIOUS
  <2> HIDE DEF e
  <2>5. Carries(H[n], K[n], e) /\ Small(H[n])
    BY <2>2, <2>3 DEF e
  <2> QED
    BY <2>4, <2>5
<1> QED
  BY <1>2, <1>8, <1>13

-------------------------------------------------------------------------------
(* What was sent to the user *)

\* What was sent to the user: numbered without a gap, none after the last.
Chunk == [id : Nat, text : Seq(Nat), done : BOOLEAN]
WireFits(w) ==
  /\ w \in Seq(Chunk) /\ Small(w)
  /\ \A i \in 1 .. Len(w) : w[i].id = i - 1 /\ (w[i].done => i = Len(w))
Closed(w) == w # <<>> /\ w[Len(w)].done
ShownBy(w) == Stream!FlattenSeq(TextsOf(w))

\* What is in a chunk.
LEMMA ChunkText == \A r \in Chunk : r.text \in Seq(Nat)
BY DEF Chunk

\* The messages s carry a first part of the text t.
Starts(s, t) == \E u, v \in Seq(Nat) : Carries(s, u, FALSE) /\ Small(s) /\ t = u \o v

\* The first k of some messages carry a first part of their text.
LEMMA PrefixCarries ==
  ASSUME NEW c, NEW t, NEW d \in BOOLEAN, Carries(c, t, d), Small(c), NEW k \in 0 .. Len(c) - 1
  PROVE  Starts(SubSeq(c, 1, k), t)
<1> DEFINE a == SubSeq(c, 1, k)
           b == SubSeq(c, k + 1, Len(c))
           u == Stream!FlattenSeq(TextsOf(a))
           v == Stream!FlattenSeq(TextsOf(b))
<1>1. /\ c \in Seq(Message) /\ Len(c) \in Nat /\ k \in Nat /\ k < Len(c)
      /\ Stream!FlattenSeq(TextsOf(c)) = t /\ \A i \in 1 .. Len(c) : c[i].done <=> (d /\ i = Len(c))
  <2>1. c \in Seq(Message)
    BY DEF Carries
  <2>2. Len(c) \in Nat
    BY <2>1
  <2> QED
    BY <2>1, <2>2 DEF Carries
<1>2. /\ a \in Seq(Message) /\ Len(a) = k /\ b \in Seq(Message) /\ c = a \o b
      /\ \A i \in 1 .. k : a[i] = c[i] /\ i \in 1 .. Len(c) /\ i # Len(c)
  BY <1>1
<1> HIDE DEF a, b
<1>3. TextsOf(c) = TextsOf(a) \o TextsOf(b) /\ TextsOf(a) \in Seq(Seq(Nat)) /\ TextsOf(b) \in Seq(Seq(Nat))
  <2>1. a \in Seq(Message) /\ b \in Seq(Message)
    BY <1>2
  <2>2. TextsOf(a \o b) = TextsOf(a) \o TextsOf(b) /\ TextsOf(a) \in Seq(Seq(Nat)) /\ TextsOf(b) \in Seq(Seq(Nat))
    BY <2>1, MessageText, TextsJoin
  <2> QED
    BY <1>2, <2>2
<1>4. t = u \o v /\ u \in Seq(Nat) /\ v \in Seq(Nat)
  BY <1>1, <1>3, StreamJoin
<1>5. \A i \in 1 .. Len(a) : ~a[i].done
  BY <1>1, <1>2
<1>6. Carries(a, u, FALSE)
  BY <1>2, <1>5 DEF Carries
<1>7. Small(a)
  BY <1>2 DEF Small
<1> HIDE DEF u, v
<1> QED
  BY <1>4, <1>6, <1>7 DEF a, Starts

\* More chunks are sent, while the reply is not closed.
LEMMA WireGrows ==
  ASSUME NEW w, WireFits(w), ~Closed(w), nextChunk = Len(w),
         NEW c, NEW t, NEW d \in BOOLEAN, Carries(c, t, d), Small(c)
  PROVE  /\ WireFits(w \o Stream!Numbered(c)) /\ ShownBy(w \o Stream!Numbered(c)) = ShownBy(w) \o t
         /\ Len(w \o Stream!Numbered(c)) = Len(w) + Len(c) /\ Len(w) \in Nat /\ Len(c) \in Nat
         /\ Closed(w \o Stream!Numbered(c)) <=> d
         /\ ShownBy(w) \in Seq(Nat) /\ t \in Seq(Nat)
<1> DEFINE m == Stream!Numbered(c)
           x == w \o m
           l == Len(w)
           n == Len(c)
<1>1. /\ w \in Seq(Chunk) /\ l \in Nat /\ nextChunk = l
      /\ \A i \in 1 .. l : /\ w[i].id = i - 1 /\ (w[i].done => i = l) /\ Len(w[i].text) <= ChunkMax
  BY DEF WireFits, Small
<1>2. \A i \in 1 .. l : ~w[i].done
  <2>1. l \in 1 .. l => w # <<>>
    OBVIOUS
  <2> QED
    BY <1>1, <2>1 DEF Closed
<1>3. /\ c \in Seq(Message) /\ n \in Nat /\ Stream!FlattenSeq(TextsOf(c)) = t /\ (d => n > 0)
      /\ \A i \in 1 .. n : c[i] \in Message /\ (c[i].done <=> (d /\ i = n)) /\ Len(c[i].text) <= ChunkMax
  <2>1. c \in Seq(Message) /\ (d => c # <<>>)
    BY DEF Carries
  <2>2. n \in Nat /\ (c # <<>> => n > 0) /\ \A i \in 1 .. n : c[i] \in Message
    BY <2>1
  <2> QED
    BY <2>1, <2>2 DEF Carries, Small
<1>4. /\ m \in Seq(Chunk) /\ Len(m) = n
      /\ \A i \in 1 .. n : m[i].id = l + i - 1 /\ m[i].text = c[i].text /\ m[i].done = c[i].done
  <2>1. \A i \in 1 .. n : [id |-> nextChunk + i - 1, text |-> c[i].text, done |-> c[i].done] \in Chunk
    BY <1>1, <1>3, MessageText DEF Chunk
  <2>2. m = [i \in 1 .. n |-> [id |-> nextChunk + i - 1, text |-> c[i].text, done |-> c[i].done]]
    BY DEF Stream!Numbered
  <2>3. m \in [1 .. n -> Chunk]
    BY <2>1, <2>2
  <2>4. \A i \in 1 .. n : m[i].id = nextChunk + i - 1 /\ m[i].text = c[i].text /\ m[i].done = c[i].done
    BY <2>2
  <2>5. \A i \in 1 .. n : m[i].id = l + i - 1
    BY <1>1, <2>4
  <2>6. n \in Nat
    BY <1>3
  <2> HIDE DEF m, n
  <2>7. m \in Seq(Chunk) /\ Len(m) = n
    BY <2>3, <2>6
  <2> QED
    BY <2>4, <2>5, <2>7
<1>5. TextsOf(m) = TextsOf(c)
  <2>1. TextsOf(m) = [i \in 1 .. n |-> m[i].text]
    BY <1>4 DEF TextsOf
  <2>2. TextsOf(c) = [i \in 1 .. n |-> c[i].text]
    BY DEF TextsOf
  <2> HIDE DEF m
  <2> QED
    BY <1>4, <2>1, <2>2
<1> HIDE DEF m
<1>6. /\ TextsOf(x) = TextsOf(w) \o TextsOf(m)
      /\ TextsOf(w) \in Seq(Seq(Nat)) /\ TextsOf(m) \in Seq(Seq(Nat))
  BY <1>1, <1>4, ChunkText, TextsJoin
<1>7. ShownBy(x) = ShownBy(w) \o t /\ ShownBy(w) \in Seq(Nat) /\ t \in Seq(Nat)
  BY <1>3, <1>5, <1>6, StreamJoin, ZenonT(60) DEF ShownBy
<1>8. /\ x \in Seq(Chunk) /\ Len(x) = l + n
      /\ \A i \in 1 .. l + n : \/ i \in 1 .. l /\ x[i] = w[i]
                               \/ i > l /\ i - l \in 1 .. n /\ x[i] = m[i - l]
  <2>1. /\ x \in Seq(Chunk) /\ Len(x) = l + n
        /\ \A i \in 1 .. l + n : x[i] = IF i <= l THEN w[i] ELSE m[i - l]
    <3>1. w \in Seq(Chunk) /\ m \in Seq(Chunk) /\ Len(m) = n
      BY <1>1, <1>4
    <3> QED
      BY <3>1
  <2>2. \A i \in 1 .. l + n : (i <= l /\ i \in 1 .. l) \/ (~(i <= l) /\ i > l /\ i - l \in 1 .. n)
    BY <1>1, <1>3
  <2> HIDE DEF x
  <2> QED
    BY <2>1, <2>2
<1> HIDE DEF x
<1>9. ASSUME NEW i \in 1 .. l + n
      PROVE  x[i].id = i - 1 /\ (x[i].done <=> (d /\ i = l + n)) /\ Len(x[i].text) <= ChunkMax
  <2>1. CASE i \in 1 .. l /\ x[i] = w[i]
    <3>1. d => i # l + n
      BY <1>1, <1>3, <2>1
    <3> QED
      BY <1>1, <1>2, <2>1, <3>1
  <2>2. CASE i > l /\ i - l \in 1 .. n /\ x[i] = m[i - l]
    <3>1. l + (i - l) - 1 = i - 1 /\ (i - l = n <=> i = l + n)
      BY <1>1, <1>3
    <3>2. x[i].id = l + (i - l) - 1 /\ x[i].text = c[i - l].text /\ x[i].done = c[i - l].done
      BY <1>4, <2>2
    <3> QED
      BY <1>3, <2>2, <3>1, <3>2
  <2> QED
    BY <1>8, <2>1, <2>2
<1>10. WireFits(x)
  BY <1>8, <1>9 DEF WireFits, Small
<1>11. Closed(x) <=> d
  <2>1. CASE l + n = 0
    <3>1. x = <<>> /\ ~d
      BY <1>1, <1>3, <1>8, <2>1
    <3> QED
      BY <3>1 DEF Closed
  <2>2. CASE l + n # 0
    <3>1. l + n \in 1 .. l + n /\ x # <<>>
      BY <1>1, <1>3, <1>8, <2>2
    <3> QED
      BY <1>8, <1>9, <3>1 DEF Closed
  <2> QED
    BY <2>1, <2>2
<1> QED
  BY <1>1, <1>3, <1>7, <1>8, <1>10, <1>11 DEF x, m

-------------------------------------------------------------------------------
(* The reply stream: the invariant *)

\* Pieces that were produced, in their order.
In(s, n) == \A i \in 1 .. Len(s) : s[i] \in 1 .. n
Ordered(m, s) == \A i, j \in 1 .. Len(s) : i < j => IF m = "stream" THEN s[i] < s[j] ELSE s[i] # s[j]
\* A piece is in a text.
Has(s, p) == \E i \in 1 .. Len(s) : s[i] = p

Sender == [open : BOOLEAN, buffer : Seq(Nat), late : BOOLEAN, done : BOOLEAN]
Kept == [deltas : Seq(Nat), final : Seq(Nat), error : Seq(Nat)]

StreamTyped ==
  /\ mode \in Modes /\ mode \in {"stream", "simple"} /\ cancelled \in BOOLEAN
  /\ fwd \in {"opening", "loop", "ended", "failed", "cancelled"}
  /\ stream \in {"open", "last", "done", "closed"}
  /\ sender \in Sender /\ text \in Kept
  /\ nextChunk \in Nat /\ produced \in 0 .. Pieces /\ owed \subseteq 1 .. produced /\ left \in 0 .. Errors
  /\ WireFits(wire)

\* What was shown, and then what is buffered.
All == ShownBy(wire) \o sender.buffer

\* A text that is kept for the end, in simple mode.
Waiting(s) ==
  /\ In(s, produced) /\ Ordered("simple", s)
  /\ ~sender.done => \A i \in 1 .. Len(s) : ~Has(ShownBy(wire), s[i])

\* While the loop runs.
LoopInv ==
  /\ nextChunk = Len(wire) /\ (sender.done <=> Closed(wire))
  /\ In(All, produced) /\ Ordered(mode, All)
  /\ \A p \in owed : (mode = "stream" /\ MidMessage) \/ Has(All, p)
  /\ mode = "stream" /\ sender.done => stream # "open" /\ sender.buffer = <<>>
  /\ mode = "simple" =>
       /\ fwd = "loop" /\ sender.buffer = <<>>
       /\ wire # <<>> => sender.open
       /\ Waiting(text.deltas) /\ Waiting(text.final) /\ Waiting(text.error)
       /\ sender.done => /\ stream \in {"done", "closed"}
                         /\ \A i \in 1 .. Len(Stream!FinalText) : Has(ShownBy(wire), Stream!FinalText[i])

\* When it is over.
EndInv ==
  /\ Ordered(mode, ShownBy(wire))
  /\ fwd = "ended" => (wire # <<>> => Closed(wire))
  /\ fwd = "cancelled" /\ sender.open => Closed(wire)
  /\ ~MidMessage /\ (fwd = "ended" \/ (fwd = "cancelled" /\ sender.open /\ mode = "stream")) =>
       \A p \in owed : Has(ShownBy(wire), p)

StreamInv == StreamTyped /\ IF fwd \in {"opening", "loop"} THEN LoopInv ELSE EndInv

\* What the user sees.
Shown == ShownBy(wire)

\* No messages make no chunks.
LEMMA NoChunks == Stream!Chunks(<<>>) = <<>> /\ \A w \in Seq(Chunk) : w \o Stream!Numbered(<<>>) = w
<1> DEFINE s == <<>>
           cs == [i \in 1 .. Len(s) |-> Stream!ChunksOf(s[i])]
           m == [i \in 1 .. Len(s) |-> [id |-> nextChunk + i - 1, text |-> s[i].text, done |-> s[i].done]]
<1>1. cs = <<>>
  OBVIOUS
<1>2. m = <<>>
  OBVIOUS
<1>3. Stream!Chunks(s) = Stream!FlattenSeq(cs)
  BY DEF Stream!Chunks
<1>4. Stream!Numbered(s) = m
  BY DEF Stream!Numbered
<1>5. Stream!FlattenSeq(<<>>) = <<>>
  BY DEF Stream!FlattenSeq
<1> HIDE DEF cs, m
<1>6. \A w \in Seq(Chunk) : w \o <<>> = w
  OBVIOUS
<1> QED
  BY <1>1, <1>2, <1>3, <1>4, <1>5, <1>6

\* All of the messages are sent.
LEMMA SentAll ==
  ASSUME ChunkMax \in Nat \ {0}, WireFits(wire), nextChunk = Len(wire),
         NEW sends, NEW t, NEW d \in BOOLEAN, Carries(sends, t, d), sends = <<>> \/ ~Closed(wire),
         Stream!Sent(sends)
  PROVE  /\ WireFits(wire') /\ ShownBy(wire') = ShownBy(wire) \o t /\ nextChunk' = Len(wire') /\ nextChunk' \in Nat
         /\ Closed(wire') <=> Closed(wire) \/ d
         /\ ShownBy(wire) \in Seq(Nat) /\ t \in Seq(Nat) /\ left' = left
<1> DEFINE c == Stream!Chunks(sends)
           w == wire
           x == w \o Stream!Numbered(c)
<1>1. wire' = x /\ nextChunk' = nextChunk + Len(c) /\ left' = left
  BY DEF Stream!Sent
<1>2. ShownBy(w) \in Seq(Nat) /\ Len(w) \in Nat /\ w \in Seq(Chunk)
  <2>1. w \in Seq(Chunk)
    BY DEF WireFits
  <2>2. <<>> \in Seq(Chunk)
    OBVIOUS
  <2>3. TextsOf(w) \in Seq(Seq(Nat))
    <3> HIDE DEF w
    <3> QED
      BY <2>1, <2>2, ChunkText, TextsJoin
  <2>4. ShownBy(w) \in Seq(Nat)
    <3> HIDE DEF w
    <3> QED
      BY <2>3, StreamJoin DEF ShownBy
  <2> QED
    BY <2>1, <2>4
<1>3. CASE ~Closed(wire)
  <2>1. Carries(c, t, d) /\ Small(c)
    BY ChunksCarry
  <2>2. WireFits(w) /\ ~Closed(w) /\ nextChunk = Len(w)
    BY <1>3
  <2> HIDE DEF c, w, x
  <2>3. /\ WireFits(x) /\ ShownBy(x) = ShownBy(w) \o t
        /\ Len(x) = Len(w) + Len(c) /\ Len(w) \in Nat /\ Len(c) \in Nat
        /\ Closed(x) <=> d
        /\ t \in Seq(Nat)
    BY <2>1, <2>2, WireGrows DEF x
  <2> QED
    BY <1>1, <1>2, <1>3, <2>2, <2>3 DEF w
<1>4. CASE sends = <<>> /\ Closed(wire)
  <2>1. c = <<>> /\ x = w
    <3>1. c = <<>>
      BY <1>4, NoChunks
    <3> HIDE DEF c
    <3> QED
      BY <1>2, <3>1, NoChunks
  <2>2. t = <<>> /\ ~d
    <3>1. TextsOf(<<>>) = <<>> /\ Stream!FlattenSeq(<<>>) = <<>>
      BY DEF TextsOf, Stream!FlattenSeq
    <3> QED
      BY <1>4, <3>1 DEF Carries
  <2>3. Len(<<>>) = 0 /\ <<>> \in Seq(Nat)
    OBVIOUS
  <2>4. ShownBy(w) \o <<>> = ShownBy(w)
    BY <1>2
  <2> HIDE DEF c, x
  <2> QED
    BY <1>1, <1>2, <1>4, <2>1, <2>2, <2>3, <2>4
<1> QED
  BY <1>3, <1>4

\* A first part of a text is shown.
ShowsSome(t) == \E u, v \in Seq(Nat) : t = u \o v /\ ShownBy(wire') = ShownBy(wire) \o u

\* Only the first k chunks are sent.
LEMMA SentSome ==
  ASSUME ChunkMax \in Nat \ {0}, WireFits(wire), nextChunk = Len(wire),
         NEW sends, NEW t, NEW d \in BOOLEAN, Carries(sends, t, d), sends = <<>> \/ ~Closed(wire),
         NEW k \in 0 .. Len(Stream!Chunks(sends)) - 1, Stream!SentUpTo(k, sends)
  PROVE  /\ WireFits(wire') /\ nextChunk' \in Nat
         /\ ShownBy(wire) \in Seq(Nat) /\ ShowsSome(t)
<1> DEFINE c == Stream!Chunks(sends)
           p == SubSeq(c, 1, k)
           w == wire
           x == w \o Stream!Numbered(p)
<1>1. Carries(c, t, d) /\ Small(c)
  BY ChunksCarry
<1>2. c \in Seq(Message) /\ k \in 0 .. Len(c) - 1
  BY <1>1 DEF Carries
<1>3. ~Closed(w)
  <2>1. sends # <<>>
    <3>1. sends = <<>> => Len(c) = 0
      BY NoChunks
    <3> QED
      BY <3>1
  <2> QED
    BY <2>1
<1>4. SubSeq(Stream!Numbered(c), 1, k) = Stream!Numbered(p)
  <2> DEFINE N(s) == [i \in 1 .. Len(s) |-> [id |-> nextChunk + i - 1, text |-> s[i].text, done |-> s[i].done]]
             a == N(c)
             b == N(p)
  <2>1. Stream!Numbered(c) = a /\ Stream!Numbered(p) = b
    BY DEF Stream!Numbered
  <2> HIDE DEF c
  <2>2. Len(p) = k /\ k \in Nat /\ Len(c) \in Nat /\ k <= Len(c) /\ \A i \in 1 .. k : p[i] = c[i] /\ i \in 1 .. Len(c)
    BY <1>2
  <2>3. Len(a) = Len(c)
    BY <2>2
  <2>4. SubSeq(a, 1, k) = [i \in 1 .. k |-> a[i]]
    <3>1. SubSeq(a, 1, k) = [i \in 1 .. (k - 1 + 1) |-> a[i + 1 - 1]]
      BY <2>2
    <3> QED
      BY <2>2, <3>1
  <2>5. \A i \in 1 .. k : a[i] = b[i]
    BY <2>2
  <2>6. b = [i \in 1 .. k |-> b[i]]
    BY <2>2
  <2> HIDE DEF a, b
  <2> QED
    BY <2>1, <2>4, <2>5, <2>6
<1>5. wire' = x /\ nextChunk' = nextChunk + k + 1
  BY <1>4 DEF Stream!SentUpTo
<1> HIDE DEF c
<1>6. PICK u \in Seq(Nat), v \in Seq(Nat) : Carries(p, u, FALSE) /\ Small(p) /\ t = u \o v
  <2>1. Starts(SubSeq(c, 1, k), t)
    BY <1>1, <1>2, PrefixCarries
  <2> QED
    BY <2>1 DEF Starts
<1> HIDE DEF p, w, x
<1>7. /\ WireFits(x) /\ ShownBy(x) = ShownBy(w) \o u /\ Len(w) \in Nat /\ ShownBy(w) \in Seq(Nat)
  <2>1. WireFits(w) /\ nextChunk = Len(w)
    BY DEF w
  <2> QED
    BY <1>3, <1>6, <2>1, WireGrows DEF x
<1>8. k \in Nat
  BY <1>2
<1>9. Len(wire) \in Nat
  BY <1>7 DEF w
<1>10. WireFits(wire') /\ nextChunk' \in Nat
  BY <1>5, <1>7, <1>8, <1>9
<1>11. t = u \o v /\ ShownBy(wire') = ShownBy(wire) \o u /\ ShownBy(wire) \in Seq(Nat)
  BY <1>5, <1>6, <1>7 DEF w
<1> QED
  BY <1>6, <1>10, <1>11 DEF ShowsSome

-------------------------------------------------------------------------------
(* Pieces after each other *)

\* Pieces after each other.
LEMMA PiecesJoin ==
  ASSUME NEW u \in Seq(Nat), NEW v \in Seq(Nat)
  PROVE  /\ u \o v \in Seq(Nat)
         /\ \A n \in Nat : In(u \o v, n) <=> In(u, n) /\ In(v, n)
         /\ \A m : Ordered(m, u \o v) => Ordered(m, u)
         /\ \A p \in Nat : Has(u \o v, p) <=> Has(u, p) \/ Has(v, p)
         /\ Ordered("simple", u) /\ Ordered("simple", v) /\ (\A i \in 1 .. Len(v) : ~Has(u, v[i]))
              => Ordered("simple", u \o v)
<1> DEFINE w == u \o v
           k == Len(u)
           n == Len(v)
<1>1. /\ w \in Seq(Nat) /\ k \in Nat /\ n \in Nat /\ Len(w) = k + n
      /\ \A i \in 1 .. k : w[i] = u[i] /\ i \in 1 .. Len(w)
      /\ \A i \in 1 .. n : w[k + i] = v[i] /\ k + i \in 1 .. Len(w)
  OBVIOUS
<1>2. \A i \in 1 .. Len(w) : \/ i \in 1 .. k /\ w[i] = u[i]
                             \/ i > k /\ i - k \in 1 .. n /\ w[i] = v[i - k]
  <2>1. \A i \in 1 .. k + n : w[i] = IF i <= k THEN u[i] ELSE v[i - k]
    OBVIOUS
  <2>2. \A i \in 1 .. k + n : (i <= k /\ i \in 1 .. k) \/ (~(i <= k) /\ i > k /\ i - k \in 1 .. n)
    BY <1>1
  <2> HIDE DEF w
  <2> QED
    BY <1>1, <2>1, <2>2
<1> HIDE DEF w
<1>3. \A b \in Nat : In(w, b) <=> In(u, b) /\ In(v, b)
  <2> SUFFICES ASSUME NEW b \in Nat PROVE In(w, b) <=> In(u, b) /\ In(v, b)
    OBVIOUS
  <2>1. In(w, b) => In(u, b)
    BY <1>1 DEF In
  <2>2. In(w, b) => In(v, b)
    BY <1>1 DEF In
  <2>3. In(u, b) /\ In(v, b) => In(w, b)
    BY <1>2 DEF In
  <2> QED
    BY <2>1, <2>2, <2>3
<1>4. \A m : Ordered(m, w) => Ordered(m, u)
  BY <1>1, SMTT(60) DEF Ordered
<1>5. \A p \in Nat : Has(w, p) <=> Has(u, p) \/ Has(v, p)
  <2> SUFFICES ASSUME NEW p \in Nat PROVE Has(w, p) <=> Has(u, p) \/ Has(v, p)
    OBVIOUS
  <2>1. Has(u, p) => Has(w, p)
    BY <1>1 DEF Has
  <2>2. Has(v, p) => Has(w, p)
    BY <1>1 DEF Has
  <2>3. Has(w, p) => Has(u, p) \/ Has(v, p)
    BY <1>2 DEF Has
  <2> QED
    BY <2>1, <2>2, <2>3
<1>6. ASSUME Ordered("simple", u), Ordered("simple", v), \A i \in 1 .. Len(v) : ~Has(u, v[i])
      PROVE  Ordered("simple", w)
  <2> SUFFICES ASSUME NEW i \in 1 .. Len(w), NEW j \in 1 .. Len(w), i < j PROVE w[i] # w[j]
    BY DEF Ordered
  <2>1. \A a, b \in 1 .. k : a < b => u[a] # u[b]
    BY <1>6 DEF Ordered
  <2>2. \A a, b \in 1 .. n : a < b => v[a] # v[b]
    BY <1>6 DEF Ordered
  <2>3. \A a \in 1 .. k : \A b \in 1 .. n : u[a] # v[b]
    BY <1>6 DEF Has
  <2>4. CASE i \in 1 .. k /\ w[i] = u[i]
    <3>1. CASE j \in 1 .. k /\ w[j] = u[j]
      BY <2>1, <2>4, <3>1
    <3>2. CASE j > k /\ j - k \in 1 .. n /\ w[j] = v[j - k]
      BY <2>3, <2>4, <3>2
    <3> QED
      BY <1>2, <3>1, <3>2
  <2>5. CASE i > k /\ i - k \in 1 .. n /\ w[i] = v[i - k]
    <3>1. j > k /\ j - k \in 1 .. n /\ w[j] = v[j - k] /\ i - k < j - k
      <4>1. j > k /\ i - k < j - k
        BY <1>1, <2>5, SMTT(60)
      <4>2. ~(j \in 1 .. k)
        BY <1>1, <4>1
      <4> QED
        BY <1>2, <4>1, <4>2
    <3> QED
      BY <2>2, <2>5, <3>1
  <2> QED
    BY <1>2, <2>4, <2>5
<1> QED
  BY <1>1, <1>3, <1>4, <1>5, <1>6 DEF w

\* One more piece is produced.
LEMMA PieceMore ==
  ASSUME NEW s \in Seq(Nat), NEW n \in Nat, In(s, n), NEW m, Ordered(m, s)
  PROVE  /\ s \o <<n + 1>> \in Seq(Nat) /\ In(s \o <<n + 1>>, n + 1) /\ Ordered(m, s \o <<n + 1>>) /\ In(s, n + 1)
         /\ \A p \in Nat : Has(s \o <<n + 1>>, p) <=> Has(s, p) \/ p = n + 1
         /\ ~Has(s, n + 1)
<1> DEFINE v == <<n + 1>>
           w == s \o v
<1>1. v \in Seq(Nat) /\ Len(v) = 1 /\ v[1] = n + 1
  OBVIOUS
<1>2. In(v, n + 1) /\ n + 1 \in Nat
  BY <1>1 DEF In
<1>3. In(s, n + 1)
  BY DEF In
<1>4. \A p \in Nat : Has(v, p) <=> p = n + 1
  BY <1>1 DEF Has
<1>5. Len(s) \in Nat /\ Len(w) = Len(s) + 1 /\ w[Len(s) + 1] = n + 1 /\ \A i \in 1 .. Len(s) : w[i] = s[i]
  BY <1>1
<1> HIDE DEF v
<1>6. /\ w \in Seq(Nat) /\ In(w, n + 1)
      /\ \A p \in Nat : Has(w, p) <=> Has(s, p) \/ p = n + 1
  BY <1>1, <1>2, <1>3, <1>4, PiecesJoin
<1> HIDE DEF w
<1>7. Ordered(m, w)
  <2> SUFFICES ASSUME NEW i \in 1 .. Len(w), NEW j \in 1 .. Len(w), i < j
               PROVE  IF m = "stream" THEN w[i] < w[j] ELSE w[i] # w[j]
    BY DEF Ordered
  <2>1. i \in 1 .. Len(s) /\ w[i] = s[i] /\ s[i] \in 1 .. n
    BY <1>5 DEF In
  <2>2. CASE j = Len(s) + 1
    BY <1>5, <2>1, <2>2
  <2>3. CASE j # Len(s) + 1
    <3>1. j \in 1 .. Len(s)
      BY <1>5, <2>3, SMTT(60)
    <3> QED
      BY <1>5, <2>1, <3>1 DEF Ordered
  <2> QED
    BY <2>2, <2>3
<1>8. ~Has(s, n + 1)
  BY DEF Has, In
<1> QED
  BY <1>3, <1>6, <1>7, <1>8 DEF w, v

\* Some of what is to be sent is, and then the loop fails.
Broken(sends) ==
  /\ \E k \in 0 .. Len(Stream!Chunks(sends)) - 1 : Stream!SentUpTo(k, sends)
  /\ fwd' = "failed" /\ sender' = sender /\ left' \in 0 .. Errors

-------------------------------------------------------------------------------
(* What one handler does *)

\* All of the messages are sent, and the sender goes on as new.
Going(sends, new) == Stream!Sent(sends) /\ sender' = new

\* A handler that fails has sent some of its chunks.
LEMMA BreaksSome ==
  ASSUME ChunkMax \in Nat \ {0}, left \in 0 .. Errors, Errors \in Nat, NEW sends, Stream!Breaks(sends),
         NEW t, NEW d \in BOOLEAN, Carries(sends, t, d), fwd' = "failed", sender' = sender
  PROVE  Broken(sends)
<1> DEFINE c == Stream!Chunks(sends)
<1>1. c \in Seq(Message) /\ c # <<>>
  <2>1. Carries(c, t, d)
    BY ChunksCarry
  <2> QED
    BY <2>1 DEF Carries, Stream!Breaks
<1>2. \/ Stream!SentUpTo(0, sends) /\ UNCHANGED left
      \/ left > 0 /\ left' = left - 1 /\ \E k \in 0 .. Len(c) - 1 : Stream!SentUpTo(k, sends)
  BY DEF Stream!Breaks
<1> HIDE DEF c
<1>3. 0 \in 0 .. Len(c) - 1
  BY <1>1
<1>4. \E k \in 0 .. Len(c) - 1 : Stream!SentUpTo(k, sends)
  BY <1>2, <1>3
<1>5. left' \in 0 .. Errors
  BY <1>2
<1> QED
  BY <1>4, <1>5 DEF Broken, c

\* A handler sends all, or some and fails.
LEMMA HandlesEither ==
  ASSUME ChunkMax \in Nat \ {0}, left \in 0 .. Errors, Errors \in Nat, NEW sends, NEW new, Stream!Handles(sends, new),
         NEW t, NEW d \in BOOLEAN, Carries(sends, t, d)
  PROVE  (Going(sends, new) /\ fwd' = fwd) \/ Broken(sends)
BY BreaksSome DEF Stream!Handles, Going

\* What the sender sends carries what is buffered.
LEMMA Carrying ==
  ASSUME StreamTyped
  PROVE  /\ \A t \in Seq(Nat) : Carries(Stream!Text(t), t, FALSE)
         /\ Carries(Stream!Final, <<>>, TRUE)
         /\ Carries(<<>>, <<>>, FALSE)
         /\ sender.buffer \in Seq(Nat) /\ Carries(Stream!Flushed, sender.buffer, FALSE)
<1>1. <<>> \in Seq(Nat)
  OBVIOUS
<1>2. \A t \in Seq(Nat) : Carries(Stream!Text(t), t, FALSE)
  BY CarriesOne DEF Stream!Text
<1>3. Carries(Stream!Final, <<>>, TRUE)
  BY <1>1, CarriesOne DEF Stream!Final
<1>4. sender.buffer \in Seq(Nat)
  BY DEF StreamTyped, Sender
<1> QED
  BY <1>2, <1>3, <1>4, CarriesOne DEF Stream!Flushed

\* The rest of what a step leaves of the right types.
TypedRest ==
  /\ mode' = mode /\ cancelled' \in BOOLEAN /\ stream' \in {"open", "last", "done", "closed"} /\ text' \in Kept
  /\ produced' \in 0 .. Pieces /\ owed' \subseteq 1 .. produced'

\* The loop fails.
LEMMA BrokenKept ==
  ASSUME StreamInv, fwd = "loop", ChunkMax \in Nat \ {0}, TypedRest, NEW sends, NEW t, NEW d \in BOOLEAN, Carries(sends, t, d),
         sends = <<>> \/ ~Closed(wire), Broken(sends), Ordered(mode, Shown \o t)
  PROVE  StreamInv'
<1>1. StreamTyped /\ LoopInv /\ WireFits(wire) /\ nextChunk = Len(wire)
  BY DEF StreamInv, StreamTyped, LoopInv
<1>2. PICK k \in 0 .. Len(Stream!Chunks(sends)) - 1 : Stream!SentUpTo(k, sends)
  BY DEF Broken
<1>3. /\ WireFits(wire') /\ nextChunk' \in Nat
      /\ ShownBy(wire) \in Seq(Nat) /\ ShowsSome(t)
  BY <1>1, <1>2, SentSome
<1>4. PICK u \in Seq(Nat), v \in Seq(Nat) : t = u \o v /\ ShownBy(wire') = Shown \o u
  BY <1>3 DEF ShowsSome, Shown
<1>5. Ordered(mode, Shown \o u)
  <2> DEFINE s == Shown
             x == s \o u
  <2>1. s \in Seq(Nat) /\ x \in Seq(Nat)
    BY <1>3, PiecesJoin DEF Shown
  <2>2. (s \o u) \o v = s \o (u \o v)
    <3> HIDE DEF s
    <3> QED
      BY <2>1, Associates, SMTT(60)
  <2>3. Ordered(mode, x \o v)
    BY <1>4, <2>2
  <2> HIDE DEF x
  <2>4. Ordered(mode, x)
    BY <2>1, <2>3, PiecesJoin
  <2> QED
    BY <2>4 DEF x
<1>6. EndInv' /\ fwd' = "failed" /\ sender' = sender /\ left' \in 0 .. Errors
  <2>1. fwd' = "failed" /\ sender' = sender /\ left' \in 0 .. Errors
    BY DEF Broken
  <2>2. Ordered(mode', ShownBy(wire'))
    BY <1>4, <1>5 DEF TypedRest
  <2> QED
    BY <2>1, <2>2 DEF EndInv
<1>7. StreamTyped'
  BY <1>1, <1>3, <1>6, SMTT(60) DEF StreamTyped, TypedRest
<1> QED
  BY <1>6, <1>7 DEF StreamInv

\* Of what is buffered, and the next piece if there is one, the sender sends a first part
\* and keeps the rest.
LEMMA StreamGoes ==
  ASSUME StreamInv, fwd = "loop", mode = "stream", ChunkMax \in Nat \ {0}, TypedRest,
         NEW sends, NEW t, NEW d \in BOOLEAN, Carries(sends, t, d), sends = <<>> \/ ~Closed(wire),
         Going(sends, sender'), sender' \in Sender, fwd' = "loop",
         sender'.done <=> sender.done \/ d, sender'.done => stream' # "open" /\ sender'.buffer = <<>>,
         NEW x, x = t \o sender'.buffer,
         \/ x = sender.buffer /\ produced' \in {produced, produced + 1}
         \/ x = sender.buffer \o <<produced + 1>> /\ produced' = produced + 1,
         \A p \in owed' : MidMessage \/ p \in owed \/ (p = produced + 1 /\ x = sender.buffer \o <<produced + 1>>)
  PROVE  StreamInv'
<1>1. StreamTyped /\ LoopInv /\ WireFits(wire) /\ nextChunk = Len(wire)
  BY DEF StreamInv, StreamTyped, LoopInv
<1>2. /\ WireFits(wire') /\ ShownBy(wire') = ShownBy(wire) \o t /\ nextChunk' = Len(wire') /\ nextChunk' \in Nat
      /\ Closed(wire') <=> Closed(wire) \/ d
      /\ ShownBy(wire) \in Seq(Nat) /\ t \in Seq(Nat) /\ left' = left
  BY <1>1, SentAll DEF Going
<1> DEFINE s == ShownBy(wire)
           b == sender.buffer
           nb == sender'.buffer
           n == produced
           more == <<n + 1>>
<1>3. /\ s \in Seq(Nat) /\ b \in Seq(Nat) /\ nb \in Seq(Nat) /\ n \in Nat /\ more \in Seq(Nat)
      /\ All = s \o b /\ All' = (s \o t) \o nb
  BY <1>1, <1>2 DEF StreamTyped, Sender, All
<1>4. In(All, n) /\ Ordered("stream", All) /\ \A p \in owed : MidMessage \/ Has(All, p)
  BY <1>1, SMTT(60) DEF LoopInv
<1>5. All' = s \o x /\ (x = b \/ x = b \o more)
  <2>1. (s \o t) \o nb = s \o (t \o nb)
    <3>1. s \in Seq(Nat) /\ t \in Seq(Nat) /\ nb \in Seq(Nat)
      BY <1>2, <1>3
    <3> HIDE DEF s, nb
    <3> QED
      BY <3>1, Associates, SMTT(60)
  <2> QED
    BY <1>3, <2>1
<1>6. CASE x = b
  <2>1. All' = All
    BY <1>3, <1>5, <1>6
  <2>2. In(All', produced') /\ Ordered("stream", All')
    <3>1. produced' = n \/ produced' = n + 1
      OBVIOUS
    <3>2. In(All, n + 1)
      BY <1>3, <1>4, SMTT(60) DEF In
    <3> QED
      BY <1>4, <2>1, <3>1, <3>2
  <2>3. \A p \in owed' : MidMessage \/ Has(All', p)
    <3>1. b # b \o more
      <4>1. Len(b \o more) = Len(b) + 1 /\ Len(b) \in Nat
        BY <1>3
      <4> QED
        BY <4>1
    <3> QED
      BY <1>4, <1>6, <2>1, <3>1
  <2> QED
    <3>1. LoopInv'
      BY <1>1, <1>2, <2>2, <2>3 DEF LoopInv, TypedRest
    <3>2. StreamTyped'
      BY <1>1, <1>2 DEF StreamTyped, TypedRest
    <3> QED
      BY <3>1, <3>2 DEF StreamInv
<1>7. CASE x = b \o more
  <2>0. produced' = n + 1
    <3>1. b # b \o more
      <4>1. Len(b \o more) = Len(b) + 1 /\ Len(b) \in Nat
        BY <1>3
      <4> QED
        BY <4>1
    <3> QED
      BY <1>7, <3>1
  <2>1. All' = All \o more
    <3>1. (s \o b) \o more = s \o (b \o more)
      <4>1. s \in Seq(Nat) /\ b \in Seq(Nat) /\ more \in Seq(Nat)
        BY <1>3
      <4> HIDE DEF s, b, more
      <4> QED
        BY <4>1, Associates, SMTT(60)
    <3> QED
      BY <1>3, <1>5, <1>7, <3>1
  <2> DEFINE a == All
  <2>2. a \in Seq(Nat)
    BY <1>3, PiecesJoin
  <2>3. In(a, n) /\ Ordered("stream", a)
    BY <1>4
  <2> HIDE DEF a, n
  <2>4. /\ In(a \o <<n + 1>>, n + 1) /\ Ordered("stream", a \o <<n + 1>>)
        /\ \A p \in Nat : Has(a \o <<n + 1>>, p) <=> Has(a, p) \/ p = n + 1
    BY <1>3, <2>2, <2>3, PieceMore
  <2>5. In(All', produced') /\ Ordered("stream", All')
    BY <2>0, <2>1, <2>4 DEF a
  <2>6. \A p \in owed' : MidMessage \/ Has(All', p)
    <3>1. \A p \in owed' : p \in Nat
      BY DEF TypedRest
    <3> QED
      BY <1>4, <2>1, <2>4, <3>1 DEF a, n
  <2> QED
    <3>1. LoopInv'
      BY <1>1, <1>2, <2>5, <2>6 DEF LoopInv, TypedRest
    <3>2. StreamTyped'
      BY <1>1, <1>2 DEF StreamTyped, TypedRest
    <3> QED
      BY <3>1, <3>2 DEF StreamInv
<1> QED
  BY <1>5, <1>6, <1>7

\* All that is buffered is sent, and the reply closed, as the loop ends.
LEMMA StreamEnds ==
  ASSUME StreamInv, fwd = "loop", ChunkMax \in Nat \ {0}, TypedRest, owed' = owed, produced' = produced,
         NEW sends, NEW d \in BOOLEAN, Carries(sends, sender.buffer, d), sends = <<>> \/ ~Closed(wire),
         Going(sends, sender'), sender' \in Sender, fwd' \in {"ended", "cancelled"},
         sender.done \/ d \/ (mode = "simple" /\ wire = <<>> /\ sends = <<>> /\ ~sender'.open)
  PROVE  StreamInv'
<1>1. StreamTyped /\ LoopInv /\ WireFits(wire) /\ nextChunk = Len(wire)
  BY DEF StreamInv, StreamTyped, LoopInv
<1> DEFINE b == sender.buffer
<1>2. /\ WireFits(wire') /\ ShownBy(wire') = ShownBy(wire) \o b /\ nextChunk' = Len(wire') /\ nextChunk' \in Nat
      /\ Closed(wire') <=> Closed(wire) \/ d
      /\ left' = left
  <2>1. Carries(sends, b, d)
    OBVIOUS
  <2> HIDE DEF b
  <2> QED
    BY <1>1, <2>1, SentAll DEF Going
<1>3. ShownBy(wire') = All
  BY <1>2 DEF All
<1>4. Closed(wire') \/ (mode = "simple" /\ wire = <<>> /\ sends = <<>> /\ ~sender'.open)
  BY <1>1, <1>2 DEF LoopInv
<1>5. StreamTyped'
  BY <1>1, <1>2 DEF StreamTyped, TypedRest
<1>6. Ordered(mode', ShownBy(wire')) /\ \A p \in owed' : (mode' = "stream" /\ MidMessage) \/ Has(ShownBy(wire'), p)
  BY <1>1, <1>3 DEF LoopInv, TypedRest
<1>7. CASE Closed(wire')
  BY <1>5, <1>6, <1>7 DEF StreamInv, EndInv, Closed, TypedRest
<1>8. CASE mode = "simple" /\ wire = <<>> /\ sends = <<>> /\ ~sender'.open
  <2>1. wire' = wire \o Stream!Numbered(Stream!Chunks(sends))
    BY DEF Going, Stream!Sent
  <2>2. wire \in Seq(Chunk)
    BY <1>1 DEF WireFits
  <2>3. wire' = <<>>
    <3>1. wire' = wire \o Stream!Numbered(<<>>)
      BY <1>8, <2>1, NoChunks
    <3>2. wire \o Stream!Numbered(<<>>) = wire
      BY <2>2, NoChunks
    <3> QED
      BY <1>8, <3>1, <3>2
  <2>4. mode' = "simple"
    BY <1>8 DEF TypedRest
  <2> QED
    BY <1>5, <1>6, <1>8, <2>3, <2>4 DEF StreamInv, EndInv
<1> QED
  BY <1>4, <1>7, <1>8

\* What a buffer gets by the next piece, or does not.
WithNews(x) == x = sender.buffer \o Stream!News /\ produced' = produced + 1
\* What a buffer is without the next piece.
AsBefore(x) == x = sender.buffer /\ produced' \in {produced, produced + 1}

\* Texts after each other need no brackets.
Associative(a, b, c) == (a \o b) \o c = a \o (b \o c)

\* It is so for all texts.
LEMMA Associating == \A a, b, c \in Seq(Nat) : Associative(a, b, c)
BY Associates, SMTT(60) DEF Associative

\* A handler in stream mode.
LEMMA StreamHandles ==
  ASSUME StreamInv, fwd = "loop", mode = "stream", ChunkMax \in Nat \ {0}, Errors \in Nat, TypedRest,
         NEW sends, NEW t \in Seq(Nat), NEW d \in BOOLEAN, Carries(sends, t, d), sends = <<>> \/ ~sender.done,
         NEW new \in Sender, Stream!Handles(sends, new),
         new.done <=> sender.done \/ d, new.done => stream' # "open" /\ new.buffer = <<>>,
         NEW x, x = t \o new.buffer, WithNews(x) \/ AsBefore(x),
         \A p \in owed' : MidMessage \/ p \in owed \/ (p = produced + 1 /\ WithNews(x))
  PROVE  StreamInv'
<1>1. StreamTyped /\ LoopInv /\ left \in 0 .. Errors /\ WireFits(wire)
  BY DEF StreamInv, StreamTyped
<1>2. sends = <<>> \/ ~Closed(wire)
  BY <1>1 DEF LoopInv
<1>3. (Going(sends, new) /\ fwd' = fwd) \/ Broken(sends)
  BY <1>1, HandlesEither, SMTT(60)
<1>4. CASE Going(sends, new) /\ fwd' = fwd
  <2>1. sender' = new
    BY <1>4 DEF Going
  <2>2. Going(sends, sender') /\ fwd' = "loop" /\ sender' \in Sender
    BY <1>4, <2>1
  <2>3. (sender'.done <=> sender.done \/ d) /\ (sender'.done => stream' # "open" /\ sender'.buffer = <<>>) /\ x = t \o sender'.buffer
    BY <2>1
  <2>4. \/ x = sender.buffer /\ produced' \in {produced, produced + 1}
        \/ x = sender.buffer \o <<produced + 1>> /\ produced' = produced + 1
    BY DEF WithNews, AsBefore, Stream!News
  <2>5. \A p \in owed' : MidMessage \/ p \in owed \/ (p = produced + 1 /\ x = sender.buffer \o <<produced + 1>>)
    BY DEF WithNews, Stream!News
  <2> QED
    BY <1>2, <2>2, <2>3, <2>4, <2>5, StreamGoes
<1>5. CASE Broken(sends)
  <2> DEFINE s == Shown
             b == sender.buffer
             nb == new.buffer
             n == produced
             more == <<n + 1>>
             a == s \o t
  <2>1. s \in Seq(Nat) /\ t \in Seq(Nat)
    <3>1. PICK k \in 0 .. Len(Stream!Chunks(sends)) - 1 : Stream!SentUpTo(k, sends)
      BY <1>5 DEF Broken
    <3>2. nextChunk = Len(wire)
      BY <1>1 DEF LoopInv
    <3>3. s \in Seq(Nat)
      BY <1>1, <1>2, <3>1, <3>2, SentSome DEF Shown
    <3> QED
      BY <3>3
  <2>2. b \in Seq(Nat) /\ nb \in Seq(Nat) /\ n \in Nat /\ more \in Seq(Nat)
    BY <1>1 DEF StreamTyped, Sender
  <2>3. a \o nb = s \o x
    <3>1. s \in Seq(Nat) /\ t \in Seq(Nat) /\ nb \in Seq(Nat)
      BY <2>1, <2>2
    <3>2. (s \o t) \o nb = s \o (t \o nb)
      <4>1. Associative(s, t, nb)
        BY <3>1, Associating
      <4> QED
        BY <4>1 DEF Associative
    <3> QED
      BY <3>2
  <2>4. s \o b \in Seq(Nat) /\ In(s \o b, n) /\ Ordered("stream", s \o b)
    <3>1. s \o b \in Seq(Nat)
      <4> HIDE DEF s, b
      <4> QED
        BY <2>1, <2>2, PiecesJoin
    <3> QED
      BY <1>1, <3>1 DEF LoopInv, All, Shown
  <2>5. Ordered("stream", s \o x)
    <3>1. CASE x = b
      BY <2>4, <3>1
    <3>2. CASE x = b \o more
      <4>1. (s \o b) \o more = s \o (b \o more)
        <5>1. s \in Seq(Nat) /\ b \in Seq(Nat) /\ more \in Seq(Nat)
          BY <2>1, <2>2
        <5>2. Associative(s, b, more)
          BY <5>1, Associating
        <5> QED
          BY <5>2 DEF Associative
      <4> DEFINE z == s \o b
      <4>2. z \in Seq(Nat) /\ In(z, n) /\ Ordered("stream", z) /\ n \in Nat
        BY <2>2, <2>4
      <4> HIDE DEF z, n
      <4>3. Ordered("stream", z \o <<n + 1>>)
        BY <4>2, PieceMore
      <4> QED
        BY <3>2, <4>1, <4>3 DEF z
    <3> QED
      BY <3>1, <3>2 DEF WithNews, AsBefore, Stream!News
  <2>6. Ordered(mode, Shown \o t)
    <3>1. Ordered("stream", a \o nb)
      BY <2>3, <2>5
    <3>2. a \in Seq(Nat) /\ nb \in Seq(Nat)
      <4>1. nb \in Seq(Nat)
        BY <2>2
      <4>2. s \o t \in Seq(Nat)
        <5> HIDE DEF s
        <5> QED
          BY <2>1, PiecesJoin
      <4> QED
        BY <4>1, <4>2
    <3> HIDE DEF a, nb
    <3>3. Ordered("stream", a)
      BY <3>1, <3>2, PiecesJoin
    <3> QED
      BY <3>3 DEF a
  <2> QED
    BY <1>2, <1>5, <2>6, BrokenKept
<1> QED
  BY <1>3, <1>4, <1>5

-------------------------------------------------------------------------------
(* The handlers in stream mode *)

\* The premises of the lemmas about one handler.
Running(m) == StreamInv /\ fwd = "loop" /\ mode = m /\ ChunkMax \in Nat \ {0} /\ Errors \in Nat /\ Pieces \in Nat

\* The types in a running loop.
LEMMA RunningTypes ==
  ASSUME NEW m, Running(m)
  PROVE  /\ mode = m /\ cancelled \in BOOLEAN /\ sender \in Sender /\ text \in Kept /\ produced \in Nat /\ produced \in 0 .. Pieces
         /\ owed \subseteq 1 .. produced /\ owed \subseteq 1 .. produced + 1
         /\ stream \in {"open", "last", "done", "closed"}
         /\ sender.buffer \in Seq(Nat) /\ Stream!News \in Seq(Nat) /\ <<>> \in Seq(Nat)
         /\ sender.done \in BOOLEAN /\ sender.late \in BOOLEAN /\ sender.open \in BOOLEAN
         /\ (m = "stream" /\ sender.done => stream # "open" /\ sender.buffer = <<>>)
         /\ Stream!Empty \in Sender /\ Stream!Empty.buffer = <<>> /\ Stream!Empty.done = sender.done
         /\ Stream!Empty.open = sender.open
         /\ Stream!Settling \in Sender /\ Stream!Settling.buffer = <<>> /\ Stream!Settling.done
         /\ Stream!Settling.open = sender.open
<1>1. StreamTyped /\ LoopInv
  BY DEF Running, StreamInv
<1>2. /\ mode = m /\ cancelled \in BOOLEAN /\ sender \in Sender /\ text \in Kept /\ produced \in 0 .. Pieces
      /\ owed \subseteq 1 .. produced /\ stream \in {"open", "last", "done", "closed"}
  BY <1>1 DEF Running, StreamTyped
<1>3. produced \in Nat /\ Pieces \in Nat
  BY <1>2 DEF Running
<1>4. Stream!News \in Seq(Nat)
  BY <1>3 DEF Stream!News
<1>5. owed \subseteq 1 .. produced + 1
  BY <1>2, <1>3
<1>6. sender.buffer \in Seq(Nat) /\ sender.done \in BOOLEAN /\ sender.late \in BOOLEAN /\ sender.open \in BOOLEAN
  BY <1>2 DEF Sender
<1>7. m = "stream" /\ sender.done => stream # "open" /\ sender.buffer = <<>>
  BY <1>1, <1>2 DEF LoopInv
<1>8. <<>> \in Seq(Nat)
  OBVIOUS
<1>9. Stream!Empty \in Sender /\ Stream!Empty.buffer = <<>> /\ Stream!Empty.done = sender.done /\ Stream!Empty.open = sender.open
  BY <1>2, <1>6, <1>8 DEF Stream!Empty, Sender
<1> HIDE DEF Stream!Empty
<1>10. Stream!Settling \in Sender /\ Stream!Settling.buffer = <<>> /\ Stream!Settling.done /\ Stream!Settling.open = sender.open
  BY <1>9 DEF Stream!Settling, Sender
<1> QED
  BY <1>2, <1>3, <1>4, <1>5, <1>6, <1>7, <1>8, <1>9, <1>10

\* A piece is produced, and perhaps owed.
Owes(mayOwe) == owed' = owed \/ (mayOwe /\ owed' = owed \cup {produced + 1})

\* The next piece becomes owed.
LEMMA Owing == Stream!Owe(Stream!News) => owed' = owed \cup {produced + 1}
<1>1. Len(Stream!News) = 1 /\ Stream!News[1] = produced + 1
  BY DEF Stream!News
<1>2. {Stream!News[i] : i \in 1 .. Len(Stream!News)} = {produced + 1}
  BY <1>1
<1> QED
  BY <1>2 DEF Stream!Owe

\* A handler that produces a piece leaves the rest of the right types.
LEMMA TypedMore ==
  ASSUME NEW m, Running(m), Stream!Produce, mode' = mode, cancelled' = cancelled, text' \in Kept,
         stream' \in {"open", "last", "done", "closed"}, Owes(TRUE)
  PROVE  TypedRest /\ produced' = produced + 1
<1>1. produced < Pieces /\ produced' = produced + 1
  BY DEF Stream!Produce
<1>2. cancelled \in BOOLEAN /\ produced \in Nat /\ owed \subseteq 1 .. produced + 1
  BY RunningTypes
<1>3. produced' \in 0 .. Pieces
  BY <1>1, <1>2 DEF Running
<1>4. owed' \subseteq 1 .. produced'
  <2>1. produced + 1 \in 1 .. produced + 1
    BY <1>2
  <2>2. owed' \subseteq owed \cup {produced + 1}
    BY DEF Owes
  <2> QED
    BY <1>1, <1>2, <2>1, <2>2
<1> QED
  BY <1>1, <1>2, <1>3, <1>4 DEF TypedRest

\* Nothing is sent of a message that comes after the reply is closed.
LEMMA TakesLate ==
  ASSUME Running("stream"), Stream!Produce, mode' = mode, cancelled' = cancelled, text' = text,
         stream' \in {"last", "done", "closed"}, sender.done, Stream!Handles(<<>>, sender), Owes(MidMessage)
  PROVE  StreamInv'
<1>1. TypedRest /\ produced' = produced + 1
  BY RunningTypes, TypedMore DEF Owes
<1>2. /\ sender \in Sender /\ sender.buffer = <<>> /\ <<>> \in Seq(Nat)
      /\ sender.buffer = <<>> \o sender.buffer
  <2>1. sender \in Sender /\ sender.buffer = <<>> /\ <<>> \in Seq(Nat)
    BY RunningTypes
  <2>2. <<>> \o <<>> = <<>>
    OBVIOUS
  <2> QED
    BY <2>1, <2>2
<1>3. Carries(<<>>, <<>>, FALSE)
  BY CarriesOne
<1>4. AsBefore(sender.buffer)
  BY <1>1 DEF AsBefore
<1>5. \A p \in owed' : MidMessage \/ p \in owed
  BY DEF Owes
<1> DEFINE e == <<>>
           b == sender.buffer
           no == FALSE
<1>6. e \in Seq(Nat) /\ Carries(e, e, no) /\ e = <<>> /\ Stream!Handles(e, sender) /\ ~no /\ no \in BOOLEAN
      /\ b = e \o sender.buffer /\ AsBefore(b) /\ sender.buffer = <<>>
  BY <1>2, <1>3, <1>4
<1> HIDE DEF e, b, no
<1>7. stream' # "open"
  OBVIOUS
<1>8. StreamInv /\ fwd = "loop" /\ mode = "stream" /\ ChunkMax \in Nat \ {0} /\ Errors \in Nat
  BY DEF Running
<1>9. sender.done <=> sender.done \/ no
  BY <1>6
<1> QED
  BY <1>1, <1>2, <1>5, <1>6, <1>7, <1>8, <1>9, StreamHandles

\* A text is its two parts after each other.
LEMMA CutInTwo ==
  \A c \in Seq(Nat) : \A n \in 0 .. Len(c) :
    c = SubSeq(c, 1, n) \o SubSeq(c, n + 1, Len(c)) /\ SubSeq(c, 1, n) \in Seq(Nat) /\ SubSeq(c, n + 1, Len(c)) \in Seq(Nat)
<1> SUFFICES ASSUME NEW c \in Seq(Nat), NEW n \in 0 .. Len(c)
             PROVE  /\ c = SubSeq(c, 1, n) \o SubSeq(c, n + 1, Len(c))
                    /\ SubSeq(c, 1, n) \in Seq(Nat) /\ SubSeq(c, n + 1, Len(c)) \in Seq(Nat)
  OBVIOUS
<1>1. SubSeq(c, 1, n) \in Seq(Nat)
  OBVIOUS
<1>2. SubSeq(c, n + 1, Len(c)) \in Seq(Nat)
  OBVIOUS
<1>3. c = SubSeq(c, 1, n) \o SubSeq(c, n + 1, Len(c))
  <2>1. Len(c) \in n .. Len(c)
    OBVIOUS
  <2>2. SubSeq(c, 1, n) \o SubSeq(c, n + 1, Len(c)) = SubSeq(c, 1, Len(c))
    BY <2>1, PartsOfText
  <2>3. SubSeq(c, 1, Len(c)) = c
    OBVIOUS
  <2> QED
    BY <2>2, <2>3, Zenon
<1> QED
  BY <1>1, <1>2, <1>3

\* PushDelta keeps a first part of what is buffered and new.
LEMMA KeptByTakeDelta ==
  ASSUME Running("stream"), Stream!TakeDelta
  PROVE  StreamInv'
<1>1. /\ Stream!More /\ Stream!Produce /\ Stream!Owe(Stream!News) /\ stream' = stream /\ text' = text
      /\ mode' = mode /\ cancelled' = cancelled
  BY DEF Stream!TakeDelta, Stream!Same
<1>2. owed' = owed \cup {produced + 1}
  BY <1>1, Owing
<1>3. CASE sender.done
  <2>1. stream # "open" /\ stream \in {"open", "last", "done", "closed"}
    BY <1>3, RunningTypes
  <2>2. Stream!Handles(<<>>, sender)
    BY <1>3 DEF Stream!TakeDelta
  <2>3. MidMessage
    BY <1>1, <2>1 DEF Stream!More
  <2>4. Owes(MidMessage) /\ stream' \in {"last", "done", "closed"}
    BY <1>1, <1>2, <2>1, <2>3 DEF Owes
  <2> QED
    BY <1>1, <1>3, <2>2, <2>4, TakesLate
<1>4. CASE ~sender.done
  <2> DEFINE buffer == sender.buffer \o Stream!News
  <2>1. PICK n \in Stream!Boundaries(buffer) :
          Stream!Handles(Stream!Text(SubSeq(buffer, 1, n)),
            [sender EXCEPT !.buffer = SubSeq(buffer, n + 1, Len(buffer)), !.late = @ /\ n = 0])
    BY <1>4 DEF Stream!TakeDelta
  <2> DEFINE t == SubSeq(buffer, 1, n)
             nb == SubSeq(buffer, n + 1, Len(buffer))
             new == [sender EXCEPT !.buffer = nb, !.late = @ /\ n = 0]
  <2>2. buffer \in Seq(Nat)
    BY RunningTypes
  <2>3. n \in 0 .. Len(buffer)
    <3>1. Len(buffer) \in Nat
      BY <2>2
    <3> QED
      BY <3>1 DEF Stream!Boundaries
  <2>4. t \in Seq(Nat) /\ nb \in Seq(Nat) /\ buffer = t \o nb
    <3> HIDE DEF buffer
    <3> QED
      BY <2>2, <2>3, CutInTwo
  <2>5. new \in Sender /\ new.done = sender.done /\ new.buffer = nb
    <3>1. sender \in Sender
      BY RunningTypes
    <3> HIDE DEF nb, buffer
    <3> QED
      BY <2>4, <3>1 DEF Sender
  <2>6. Carries(Stream!Text(t), t, FALSE)
    <3>1. StreamTyped
      BY DEF Running, StreamInv
    <3> HIDE DEF t
    <3> QED
      BY <2>4, <3>1, Carrying
  <2>7. TypedRest /\ produced' = produced + 1
    <3>1. text \in Kept /\ stream \in {"open", "last", "done", "closed"}
      BY RunningTypes
    <3>2. Owes(TRUE)
      BY <1>2 DEF Owes
    <3> QED
      BY <1>1, <3>1, <3>2, TypedMore
  <2> DEFINE sends == Stream!Text(t)
             no == FALSE
  <2>8. Stream!Handles(sends, new) /\ Carries(sends, t, no) /\ no \in BOOLEAN /\ ~no
    BY <2>1, <2>6
  <2>9. WithNews(buffer)
    BY <2>7 DEF WithNews
  <2>10. \A p \in owed' : p \in owed \/ p = produced + 1
    BY <1>2
  <2>11. (new.done <=> sender.done \/ no) /\ ~new.done /\ buffer = t \o new.buffer
    BY <1>4, <2>4, <2>5, <2>8
  <2>12. StreamInv /\ fwd = "loop" /\ mode = "stream" /\ ChunkMax \in Nat \ {0} /\ Errors \in Nat
    BY DEF Running
  <2> HIDE DEF buffer, t, nb, new, sends, no
  <2> QED
    BY <1>4, <2>4, <2>5, <2>7, <2>8, <2>9, <2>10, <2>11, <2>12, StreamHandles
<1> QED
  BY <1>3, <1>4

\* What the handlers send carries what is buffered, what is new, and the end.
LEMMA WhatIsSent ==
  ASSUME NEW m, Running(m)
  PROVE  /\ sender.buffer \o Stream!News \in Seq(Nat)
         /\ Carries(Stream!Flushed, sender.buffer, FALSE)
         /\ Carries(Stream!Flushed \o Stream!Text(Stream!News), sender.buffer \o Stream!News, FALSE)
         /\ Carries(Stream!Flushed \o Stream!Text(Stream!News) \o Stream!Final, sender.buffer \o Stream!News, TRUE)
         /\ Carries(Stream!Flushed \o Stream!Final, sender.buffer, TRUE)
<1> DEFINE b == sender.buffer
           w == Stream!News
           bw == b \o w
           e == <<>>
           no == FALSE
           yes == TRUE
           sb == Stream!Flushed
           sw == Stream!Text(w)
           sf == Stream!Final
           sbw == sb \o sw
<1>1. b \in Seq(Nat) /\ w \in Seq(Nat) /\ e \in Seq(Nat) /\ bw \in Seq(Nat)
  BY RunningTypes
<1>2. StreamTyped
  BY DEF Running, StreamInv
<1>3. Carries(sb, b, no) /\ Carries(sw, w, no) /\ Carries(sf, e, yes)
  <2>1. Carries(sb, b, no) /\ Carries(sf, e, yes)
    BY <1>2, Carrying
  <2>2. Carries(Stream!Text(w), w, FALSE)
    <3> HIDE DEF w
    <3> QED
      BY <1>1, <1>2, Carrying
  <2> QED
    BY <2>1, <2>2
<1>4. bw \o e = bw /\ b \o e = b
  BY <1>1
<1>5. no \in BOOLEAN /\ yes \in BOOLEAN
  OBVIOUS
<1>6. Carries(sbw, bw, FALSE) /\ Carries(sb \o sf, b \o e, yes)
  <2> HIDE DEF b, w, e, yes, sb, sw, sf
  <2> QED
    BY <1>3, <1>5, CarriesJoin
<1>7. Carries(sbw \o sf, bw \o e, yes)
  <2> HIDE DEF bw, e, yes, sbw, sf
  <2> QED
    BY <1>3, <1>5, <1>6, CarriesJoin
<1> QED
  BY <1>1, <1>3, <1>4, <1>6, <1>7

\* A handler sends all of what is buffered, and perhaps what is new, in stream mode.
LEMMA SendsAll ==
  ASSUME Running("stream"), TypedRest, ~sender.done,
         NEW sends, NEW t \in Seq(Nat), NEW d \in BOOLEAN, Carries(sends, t, d),
         NEW new \in Sender, Stream!Handles(sends, new), new.buffer = <<>>, new.done <=> d,
         d => stream' # "open",
         WithNews(t) \/ AsBefore(t), \A p \in owed' : p \in owed \/ (p = produced + 1 /\ WithNews(t))
  PROVE  StreamInv'
<1>1. StreamInv /\ fwd = "loop" /\ mode = "stream" /\ ChunkMax \in Nat \ {0} /\ Errors \in Nat
  BY DEF Running
<1>2. t = t \o new.buffer
  <2>1. t \o <<>> = t
    OBVIOUS
  <2> QED
    BY <2>1
<1>3. (new.done <=> sender.done \/ d) /\ (new.done => stream' # "open" /\ new.buffer = <<>>)
  OBVIOUS
<1>4. \A p \in owed' : MidMessage \/ p \in owed \/ (p = produced + 1 /\ WithNews(t))
  OBVIOUS
<1> QED
  BY <1>1, <1>2, <1>3, <1>4, StreamHandles

\* PushInformationalText sends what is buffered, and then the request.
LEMMA KeptByTakeRequest ==
  ASSUME Running("stream"), Stream!TakeRequest
  PROVE  StreamInv'
<1>1. /\ Stream!More /\ Stream!Produce /\ Stream!Owe(Stream!News) /\ stream' = stream /\ text' = text
      /\ mode' = mode /\ cancelled' = cancelled
  BY DEF Stream!TakeRequest, Stream!Same
<1>2. owed' = owed \cup {produced + 1}
  BY <1>1, Owing
<1>3. CASE sender.done
  <2>1. stream # "open" /\ stream \in {"open", "last", "done", "closed"}
    BY <1>3, RunningTypes
  <2>2. Stream!Handles(<<>>, sender)
    BY <1>3 DEF Stream!TakeRequest
  <2>3. MidMessage
    BY <1>1, <2>1 DEF Stream!More
  <2>4. Owes(MidMessage) /\ stream' \in {"last", "done", "closed"}
    BY <1>1, <1>2, <2>1, <2>3 DEF Owes
  <2> QED
    BY <1>1, <1>3, <2>2, <2>4, TakesLate
<1>4. CASE ~sender.done
  <2> DEFINE t == sender.buffer \o Stream!News
             sends == Stream!Flushed \o Stream!Text(Stream!News)
             new == Stream!Empty
             no == FALSE
  <2>1. Stream!Handles(sends, new)
    BY <1>4 DEF Stream!TakeRequest
  <2>2. t \in Seq(Nat) /\ Carries(sends, t, no) /\ no \in BOOLEAN /\ ~no
    BY WhatIsSent
  <2>3. new \in Sender /\ new.buffer = <<>> /\ (new.done <=> no)
    BY <1>4, RunningTypes
  <2>4. TypedRest /\ produced' = produced + 1
    <3>1. text \in Kept /\ stream \in {"open", "last", "done", "closed"}
      BY RunningTypes
    <3>2. Owes(TRUE)
      BY <1>2 DEF Owes
    <3> QED
      BY <1>1, <3>1, <3>2, TypedMore
  <2>5. WithNews(t)
    BY <2>4 DEF WithNews
  <2>6. \A p \in owed' : p \in owed \/ p = produced + 1
    BY <1>2
  <2> HIDE DEF t, sends, new, no
  <2> QED
    BY <1>4, <2>1, <2>2, <2>3, <2>4, <2>5, <2>6, SendsAll
<1> QED
  BY <1>3, <1>4

\* PushDeliverText sends what is buffered, then the message, and closes the reply.
LEMMA KeptByTakeMessage ==
  ASSUME Running("stream"), Stream!TakeMessage
  PROVE  StreamInv'
<1>1. /\ Stream!Produce /\ stream' = "last" /\ text' = text /\ mode' = mode /\ cancelled' = cancelled
  BY DEF Stream!TakeMessage, Stream!Same
<1>2. CASE sender.done
  <2>1. Stream!Handles(<<>>, sender) /\ Owes(MidMessage)
    BY <1>2 DEF Stream!TakeMessage, Owes
  <2> QED
    BY <1>1, <1>2, <2>1, TakesLate
<1>3. CASE ~sender.done
  <2> DEFINE t == sender.buffer \o Stream!News
             sends == Stream!Flushed \o Stream!Text(Stream!News) \o Stream!Final
             new == [Stream!Empty EXCEPT !.done = TRUE]
             yes == TRUE
  <2>1. Stream!Handles(sends, new) /\ Stream!Owe(Stream!News)
    BY <1>3 DEF Stream!TakeMessage
  <2>2. t \in Seq(Nat) /\ Carries(sends, t, yes) /\ yes \in BOOLEAN
    BY WhatIsSent
  <2>3. new \in Sender /\ new.buffer = <<>> /\ (new.done <=> yes)
    BY RunningTypes DEF Stream!Settling
  <2>4. owed' = owed \cup {produced + 1}
    BY <2>1, Owing
  <2>5. TypedRest /\ produced' = produced + 1
    <3>1. text \in Kept /\ stream' \in {"open", "last", "done", "closed"}
      BY <1>1, RunningTypes
    <3>2. Owes(TRUE)
      BY <2>4 DEF Owes
    <3> QED
      BY <1>1, <3>1, <3>2, TypedMore
  <2>6. WithNews(t)
    BY <2>5 DEF WithNews
  <2>7. \A p \in owed' : p \in owed \/ p = produced + 1
    BY <2>4
  <2>8. stream' # "open"
    BY <1>1
  <2> HIDE DEF t, sends, new, yes
  <2> QED
    BY <1>3, <2>1, <2>2, <2>3, <2>5, <2>6, <2>7, <2>8, SendsAll
<1> QED
  BY <1>2, <1>3

\* Nothing is produced.
LEMMA TypedAsBefore ==
  ASSUME NEW m, Running(m), mode' = mode, cancelled' = cancelled, text' = text,
         stream' \in {"open", "last", "done", "closed"}, produced' = produced, owed' = owed
  PROVE  TypedRest
<1>1. cancelled \in BOOLEAN /\ text \in Kept /\ produced \in 0 .. Pieces /\ owed \subseteq 1 .. produced
  BY RunningTypes
<1> QED
  BY <1>1 DEF TypedRest

\* FlushPendingIfDelayed sends what is buffered.
LEMMA KeptByTakeTick ==
  ASSUME Running("stream"), Stream!TakeTick
  PROVE  StreamInv'
<1>1. /\ sender.buffer # <<>> /\ Stream!Handles(Stream!Flushed, Stream!Empty)
      /\ stream' = stream /\ text' = text /\ mode' = mode /\ cancelled' = cancelled /\ produced' = produced /\ owed' = owed
  BY DEF Stream!TakeTick, Stream!Same
<1>2. ~sender.done /\ stream \in {"open", "last", "done", "closed"}
  BY <1>1, RunningTypes
<1>3. TypedRest
  BY <1>1, <1>2, TypedAsBefore
<1> DEFINE t == sender.buffer
           sends == Stream!Flushed
           new == Stream!Empty
           no == FALSE
<1>4. t \in Seq(Nat) /\ Carries(sends, t, no) /\ no \in BOOLEAN /\ ~no /\ Stream!Handles(sends, new)
  BY <1>1, RunningTypes, WhatIsSent
<1>5. new \in Sender /\ new.buffer = <<>> /\ (new.done <=> no)
  BY <1>2, RunningTypes
<1>6. AsBefore(t)
  BY <1>1 DEF AsBefore
<1> HIDE DEF t, sends, new, no
<1> QED
  BY <1>1, <1>2, <1>3, <1>4, <1>5, <1>6, SendsAll

\* The reply is closed, unless it is closed already.
LEMMA KeptByTakeDone ==
  ASSUME Running("stream"), Stream!TakeDone
  PROVE  StreamInv'
<1>1. /\ Stream!Handles(Stream!Settled, Stream!Settling)
      /\ stream' = "done" /\ text' = text /\ mode' = mode /\ cancelled' = cancelled /\ produced' = produced /\ owed' = owed
  BY DEF Stream!TakeDone, Stream!Same
<1>2. TypedRest
  BY <1>1, TypedAsBefore
<1> DEFINE t == sender.buffer
           sends == Stream!Settled
           new == Stream!Settling
           yes == TRUE
           no == FALSE
           b == t
<1>3. t \in Seq(Nat) /\ new \in Sender /\ new.buffer = <<>> /\ new.done /\ AsBefore(t) /\ stream' # "open"
  BY <1>1, RunningTypes DEF AsBefore
<1>4. yes \in BOOLEAN /\ yes /\ no \in BOOLEAN /\ ~no /\ Stream!Handles(sends, new)
  BY <1>1
<1>5. CASE ~sender.done
  <2>1. Carries(sends, t, yes)
    BY <1>5, WhatIsSent DEF Stream!Settled
  <2> HIDE DEF t, sends, new, yes, no
  <2> QED
    BY <1>1, <1>2, <1>3, <1>4, <1>5, <2>1, SendsAll
<1>6. CASE sender.done
  <2>1. sends = <<>> /\ t = <<>>
    BY <1>6, RunningTypes DEF Stream!Settled
  <2>2. Carries(sends, t, no)
    BY <2>1, CarriesOne
  <2>3. t \o new.buffer = t
    BY <1>3, <2>1
  <2>4. StreamInv /\ fwd = "loop" /\ mode = "stream" /\ ChunkMax \in Nat \ {0} /\ Errors \in Nat
    BY DEF Running
  <2>5. (new.done <=> sender.done \/ no) /\ (new.done => stream' # "open" /\ new.buffer = <<>>)
    BY <1>3, <1>6
  <2> HIDE DEF t, sends, new, yes, no
  <2> QED
    BY <1>1, <1>2, <1>3, <1>4, <2>1, <2>2, <2>3, <2>4, <2>5, StreamHandles
<1> QED
  BY <1>5, <1>6

-------------------------------------------------------------------------------
(* Time, and the end of the loop *)

\* The sender does nothing.
LEMMA StreamStays ==
  ASSUME StreamInv, UNCHANGED <<mode, fwd, text, nextChunk, wire, produced, owed, left>>, cancelled' \in BOOLEAN,
         stream' \in {stream, "closed"}, sender' \in Sender,
         sender'.open = sender.open, sender'.buffer = sender.buffer, sender'.done = sender.done
  PROVE  StreamInv'
<1>1. StreamTyped /\ IF fwd \in {"opening", "loop"} THEN LoopInv ELSE EndInv
  BY DEF StreamInv
<1>2. StreamTyped'
  BY <1>1 DEF StreamTyped
<1>3. Stream!FinalText' = Stream!FinalText
  BY DEF Stream!FinalText
<1>4. All' = All
  BY DEF All
<1>5. ASSUME LoopInv PROVE LoopInv'
  <2>1. nextChunk' = Len(wire') /\ (sender'.done <=> Closed(wire'))
    BY <1>5 DEF LoopInv
  <2>2. In(All', produced') /\ Ordered(mode', All')
    BY <1>4, <1>5 DEF LoopInv
  <2>3. \A p \in owed' : (mode' = "stream" /\ MidMessage) \/ Has(All', p)
    BY <1>4, <1>5 DEF LoopInv
  <2>4. mode' = "stream" /\ sender'.done => stream' # "open" /\ sender'.buffer = <<>>
    BY <1>5 DEF LoopInv
  <2>5. ASSUME mode' = "simple"
        PROVE  /\ fwd' = "loop" /\ sender'.buffer = <<>>
               /\ wire' # <<>> => sender'.open
               /\ Waiting(text.deltas)' /\ Waiting(text.final)' /\ Waiting(text.error)'
               /\ sender'.done =>
                    /\ stream' \in {"done", "closed"}
                    /\ \A i \in 1 .. Len(Stream!FinalText') : Has(ShownBy(wire'), Stream!FinalText'[i])
    <3>1. mode = "simple"
      BY <2>5
    <3>2. fwd' = "loop" /\ sender'.buffer = <<>> /\ (wire' # <<>> => sender'.open)
      BY <1>5, <3>1 DEF LoopInv
    <3>3. Waiting(text.deltas) /\ Waiting(text.final) /\ Waiting(text.error)
      BY <1>5, <3>1 DEF LoopInv
    <3>4. Waiting(text.deltas)' /\ Waiting(text.final)' /\ Waiting(text.error)'
      BY <3>3 DEF Waiting
    <3>5. sender'.done => /\ stream' \in {"done", "closed"}
                          /\ \A i \in 1 .. Len(Stream!FinalText') : Has(ShownBy(wire'), Stream!FinalText'[i])
      BY <1>3, <1>5, <3>1 DEF LoopInv
    <3> QED
      BY <3>2, <3>4, <3>5
  <2> QED
    BY <2>1, <2>2, <2>3, <2>4, <2>5 DEF LoopInv
<1>6. ASSUME EndInv PROVE EndInv'
  BY <1>6 DEF EndInv
<1> QED
  BY <1>1, <1>2, <1>5, <1>6 DEF StreamInv

\* The turn and the time send nothing.
LEMMA KeptByTheTurn ==
  ASSUME StreamInv, Stream!StreamCloses \/ Stream!Cancel \/ Stream!Waits \/ UNCHANGED streamVars
  PROVE  StreamInv'
<1>1. StreamTyped /\ sender \in Sender /\ cancelled \in BOOLEAN
  BY DEF StreamInv, StreamTyped
<1>2. CASE Stream!StreamCloses
  BY <1>1, <1>2, StreamStays DEF Stream!StreamCloses, Stream!Same
<1>3. CASE Stream!Cancel
  BY <1>1, <1>3, StreamStays DEF Stream!Cancel
<1>4. CASE Stream!Waits
  <2>1. /\ sender' = [sender EXCEPT !.late = TRUE]
        /\ UNCHANGED <<mode, fwd, text, nextChunk, wire, produced, owed, left, cancelled, stream>>
    BY <1>4 DEF Stream!Waits, Stream!Same, Stream!Keeps
  <2>2. /\ sender' \in Sender /\ sender'.open = sender.open /\ sender'.buffer = sender.buffer
        /\ sender'.done = sender.done
    BY <1>1, <2>1 DEF Sender
  <2> QED
    BY <1>1, <2>1, <2>2, StreamStays
<1>5. CASE UNCHANGED streamVars
  BY <1>1, <1>5, StreamStays DEF streamVars
<1> QED
  BY <1>2, <1>3, <1>4, <1>5

\* What was shown is in order, too.
LEMMA ShownOrdered ==
  ASSUME StreamTyped, LoopInv
  PROVE  Ordered(mode, Shown) /\ Shown \in Seq(Nat) /\ sender.buffer \in Seq(Nat) /\ Ordered(mode, Shown \o sender.buffer)
<1> DEFINE s == Shown
           b == sender.buffer
<1>1. Ordered(mode, s \o b)
  BY DEF LoopInv, All, Shown
<1>2. b \in Seq(Nat)
  BY DEF StreamTyped, Sender
<1>3. s \in Seq(Nat)
  <2>1. wire \in Seq(Chunk) /\ <<>> \in Seq(Chunk)
    BY DEF StreamTyped, WireFits
  <2>2. TextsOf(wire) \in Seq(Seq(Nat))
    BY <2>1, ChunkText, TextsJoin
  <2> QED
    BY <2>2, StreamJoin DEF Shown, ShownBy
<1> HIDE DEF s, b
<1>4. Ordered(mode, s)
  BY <1>1, <1>2, <1>3, PiecesJoin
<1> QED
  BY <1>1, <1>2, <1>3, <1>4 DEF s, b

\* Nothing is sent as the loop ends.
LEMMA StreamQuits ==
  ASSUME StreamInv, fwd \in {"opening", "loop"}, UNCHANGED <<mode, text, nextChunk, wire, produced, owed, stream, cancelled>>,
         sender' = sender, left' \in 0 .. Errors, fwd' = "failed" \/ (fwd' = "cancelled" /\ ~sender.open)
  PROVE  StreamInv'
<1>1. StreamTyped /\ LoopInv
  BY DEF StreamInv
<1>2. Ordered(mode', ShownBy(wire'))
  BY <1>1, ShownOrdered DEF Shown
<1>3. StreamTyped'
  BY <1>1 DEF StreamTyped
<1>4. EndInv'
  BY <1>2 DEF EndInv
<1> QED
  BY <1>3, <1>4 DEF StreamInv

\* Opening the reply sends no text.
LEMMA KeptByOpen ==
  ASSUME StreamInv, Errors \in Nat, Stream!Open
  PROVE  StreamInv'
<1>1. /\ StreamTyped /\ LoopInv /\ fwd = "opening" /\ mode \in {"stream", "simple"} /\ left \in 0 .. Errors /\ sender \in Sender
      /\ UNCHANGED <<stream, text, nextChunk, wire, produced, owed, mode, cancelled>>
  BY DEF StreamInv, Stream!Open, Stream!Same, StreamTyped
<1>2. mode = "stream"
  BY <1>1 DEF LoopInv
<1>3. CASE fwd' = "loop" /\ sender' = [sender EXCEPT !.open = TRUE] /\ UNCHANGED left
  <2>1. sender' \in Sender /\ sender'.buffer = sender.buffer /\ sender'.done = sender.done
    BY <1>1, <1>3 DEF Sender
  <2>2. All' = All
    BY <1>1, <2>1 DEF All
  <2>3. LoopInv'
    BY <1>1, <1>2, <2>1, <2>2 DEF LoopInv
  <2>4. StreamTyped'
    BY <1>1, <1>3, <2>1 DEF StreamTyped
  <2> QED
    BY <1>3, <2>3, <2>4 DEF StreamInv
<1>4. CASE left > 0 /\ left' = left - 1 /\ fwd' = "failed" /\ UNCHANGED sender
  <2>1. left' \in 0 .. Errors
    BY <1>1, <1>4
  <2> QED
    BY <1>1, <1>4, <2>1, StreamQuits
<1> QED
  BY <1>3, <1>4 DEF Stream!Open

\* What closes the reply, if it is not closed yet.
LEMMA WhatSettles ==
  ASSUME NEW m, Running(m)
  PROVE  /\ ~sender.done => Carries(Stream!Settled, sender.buffer, TRUE)
         /\ sender.done => Stream!Settled = <<>> /\ Carries(Stream!Settled, sender.buffer, FALSE)
         /\ Ordered(mode, Shown \o sender.buffer) /\ (sender.done <=> Closed(wire)) /\ left \in 0 .. Errors
<1>1. StreamTyped /\ LoopInv /\ mode \in {"stream", "simple"}
  BY DEF Running, StreamInv, StreamTyped
<1>2. sender.done => sender.buffer = <<>>
  BY <1>1 DEF LoopInv
<1>3. ~sender.done => Carries(Stream!Settled, sender.buffer, TRUE)
  BY WhatIsSent DEF Stream!Settled
<1>4. sender.done => Stream!Settled = <<>> /\ Carries(Stream!Settled, sender.buffer, FALSE)
  BY <1>2, CarriesOne DEF Stream!Settled
<1>5. Ordered(mode, Shown \o sender.buffer) /\ (sender.done <=> Closed(wire)) /\ left \in 0 .. Errors
  BY <1>1, ShownOrdered DEF LoopInv, StreamTyped
<1> QED
  BY <1>3, <1>4, <1>5

\* The reply is closed, or part of that fails.
LEMMA SettlesEither ==
  ASSUME NEW m, Running(m), TypedRest, owed' = owed, produced' = produced,
         \/ Stream!Sent(Stream!Settled) /\ sender' = Stream!Settling /\ fwd' \in {"ended", "cancelled"}
         \/ Broken(Stream!Settled)
  PROVE  StreamInv'
<1>1. StreamInv /\ fwd = "loop" /\ ChunkMax \in Nat \ {0}
  BY DEF Running
<1>2. PICK d \in BOOLEAN : Carries(Stream!Settled, sender.buffer, d) /\ (sender.done \/ d)
  <2>1. sender.done \in BOOLEAN
    BY RunningTypes
  <2> QED
    BY <2>1, WhatSettles
<1>3. Stream!Settled = <<>> \/ ~Closed(wire)
  BY WhatSettles
<1>4. Ordered(mode, Shown \o sender.buffer)
  BY WhatSettles
<1> DEFINE sends == Stream!Settled
           b == sender.buffer
<1>5. CASE Stream!Sent(sends) /\ sender' = Stream!Settling /\ fwd' \in {"ended", "cancelled"}
  <2>1. Going(sends, sender') /\ sender' \in Sender
    BY <1>5, RunningTypes DEF Going
  <2>2. Carries(sends, sender.buffer, d) /\ (sends = <<>> \/ ~Closed(wire))
    BY <1>2, <1>3
  <2> HIDE DEF sends
  <2> QED
    BY <1>1, <1>2, <1>5, <2>1, <2>2, StreamEnds
<1>6. CASE Broken(sends)
  <2>1. Carries(sends, b, d) /\ (sends = <<>> \/ ~Closed(wire)) /\ Ordered(mode, Shown \o b) /\ Broken(sends)
    BY <1>2, <1>3, <1>4, <1>6
  <2> HIDE DEF sends, b
  <2> QED
    BY <1>1, <2>1, BrokenKept
<1> QED
  BY <1>5, <1>6

\* The loop ends with the stream, with the reply closed.
LEMMA KeptByTakeClosed ==
  ASSUME Running("stream"), Stream!TakeClosed
  PROVE  StreamInv'
<1>1. /\ stream' = stream /\ text' = text /\ mode' = mode /\ cancelled' = cancelled /\ produced' = produced /\ owed' = owed
  BY DEF Stream!TakeClosed, Stream!Same
<1>2. TypedRest
  BY <1>1, RunningTypes, TypedAsBefore
<1>3. \/ Stream!Sent(Stream!Settled) /\ sender' = Stream!Settling /\ fwd' = "ended"
      \/ Broken(Stream!Settled)
  <2>1. CASE Stream!Breaks(Stream!Settled) /\ fwd' = "failed" /\ UNCHANGED sender
    <3> DEFINE sends == Stream!Settled
               b == sender.buffer
    <3>1. PICK d \in BOOLEAN : Carries(sends, b, d)
      <4>1. sender.done \in BOOLEAN
        BY RunningTypes
      <4> QED
        BY <4>1, WhatSettles
    <3>2. left \in 0 .. Errors /\ Errors \in Nat /\ ChunkMax \in Nat \ {0}
      BY WhatSettles DEF Running
    <3>3. Stream!Breaks(sends) /\ fwd' = "failed" /\ sender' = sender
      BY <2>1
    <3> HIDE DEF sends, b
    <3>4. Broken(sends)
      BY <3>1, <3>2, <3>3, BreaksSome
    <3> QED
      BY <3>4 DEF sends
  <2> QED
    BY <2>1 DEF Stream!TakeClosed
<1> QED
  BY <1>1, <1>2, <1>3, SettlesEither

\* The loop ends with the context, with the reply closed if there is one.
LEMMA KeptByTakeCancel ==
  ASSUME NEW m, Running(m), Stream!TakeCancel
  PROVE  StreamInv'
<1>1. /\ stream' = stream /\ text' = text /\ mode' = mode /\ cancelled' = cancelled /\ produced' = produced /\ owed' = owed
  BY DEF Stream!TakeCancel, Stream!Same
<1>2. left \in 0 .. Errors /\ Errors \in Nat /\ StreamInv /\ fwd = "loop"
  BY WhatSettles DEF Running
<1>3. CASE ~sender.open /\ fwd' = "cancelled" /\ UNCHANGED <<sender, nextChunk, wire, left>>
  BY <1>1, <1>2, <1>3, StreamQuits
<1>4. CASE Stream!Sent(Stream!Settled) /\ sender' = Stream!Settling /\ fwd' = "cancelled"
  <2>1. TypedRest
    BY <1>1, RunningTypes, TypedAsBefore
  <2> QED
    BY <1>1, <1>4, <2>1, SettlesEither
<1>5. CASE /\ left > 0 /\ left' = left - 1
           /\ \E k \in 0 .. Len(Stream!Chunks(Stream!Settled)) - 1 : Stream!SentUpTo(k, Stream!Settled)
           /\ fwd' = "failed" /\ UNCHANGED sender
  <2>1. TypedRest
    BY <1>1, RunningTypes, TypedAsBefore
  <2>2. left' \in 0 .. Errors
    BY <1>2, <1>5
  <2>3. Broken(Stream!Settled)
    BY <1>5, <2>2 DEF Broken
  <2> QED
    BY <1>1, <2>1, <2>3, SettlesEither
<1> QED
  BY <1>3, <1>4, <1>5 DEF Stream!TakeCancel

-------------------------------------------------------------------------------
(* The handlers in simple mode *)

\* A text that waits, of pieces up to n, of which none is in w until it is sent.
Wait(s, n, done, w) ==
  In(s, n) /\ Ordered("simple", s) /\ (~done => \A i \in 1 .. Len(s) : ~Has(w, s[i]))

\* One more piece is produced: a text that waits may get it, or it may be sent at once.
LEMMA WaitsMore ==
  ASSUME NEW s \in Seq(Nat), NEW n \in Nat, NEW done, NEW w \in Seq(Nat), In(w, n), Wait(s, n, done, w)
  PROVE  /\ Wait(s, n + 1, done, w) /\ Wait(s \o <<n + 1>>, n + 1, done, w)
         /\ Wait(s, n + 1, done, w \o <<n + 1>>) /\ Wait(s, n, TRUE, w)
<1> DEFINE v == <<n + 1>>
           x == s \o v
           y == w \o v
<1>1. In(s, n) /\ Ordered("simple", s) /\ (~done => \A i \in 1 .. Len(s) : ~Has(w, s[i]))
  BY DEF Wait
<1>2. /\ x \in Seq(Nat) /\ In(x, n + 1) /\ Ordered("simple", x) /\ In(s, n + 1)
      /\ \A p \in Nat : Has(x, p) <=> Has(s, p) \/ p = n + 1
  BY <1>1, PieceMore
<1>3. ~Has(w, n + 1) /\ \A p \in Nat : Has(y, p) <=> Has(w, p) \/ p = n + 1
  <2>1. Ordered("none", <<>>) /\ In(<<>>, n)
    BY DEF Ordered, In
  <2>2. v \in Seq(Nat) /\ \A p \in Nat : Has(v, p) <=> p = n + 1
    <3>1. Len(v) = 1 /\ v[1] = n + 1 /\ v \in Seq(Nat)
      OBVIOUS
    <3> QED
      BY <3>1 DEF Has
  <2>3. \A p \in Nat : Has(y, p) <=> Has(w, p) \/ p = n + 1
    <3> HIDE DEF v
    <3> QED
      BY <2>2, PiecesJoin
  <2>4. ~Has(w, n + 1)
    BY DEF Has, In
  <2> QED
    BY <2>3, <2>4
<1>4. \A i \in 1 .. Len(x) : x[i] = n + 1 \/ (Len(s) \in Nat /\ i \in 1 .. Len(s) /\ x[i] = s[i])
  <2>1. Len(s) \in Nat /\ Len(x) = Len(s) + 1 /\ x[Len(s) + 1] = n + 1 /\ \A i \in 1 .. Len(s) : x[i] = s[i]
    OBVIOUS
  <2>2. \A i \in 1 .. Len(s) + 1 : i = Len(s) + 1 \/ i \in 1 .. Len(s)
    BY <2>1
  <2> HIDE DEF x
  <2> QED
    BY <2>1, <2>2
<1>5. \A i \in 1 .. Len(s) : s[i] \in Nat /\ s[i] # n + 1
  BY <1>1 DEF In
<1> HIDE DEF x, y
<1>6. Wait(x, n + 1, done, w)
  BY <1>1, <1>2, <1>3, <1>4 DEF Wait
<1>7. Wait(s, n + 1, done, y)
  BY <1>1, <1>2, <1>3, <1>5 DEF Wait
<1>8. Wait(s, n + 1, done, w) /\ Wait(s, n, TRUE, w)
  BY <1>1, <1>2 DEF Wait
<1> QED
  BY <1>6, <1>7, <1>8 DEF x, y

\* The state of a text that waits.
LEMMA WaitingIs == \A s : Waiting(s) <=> Wait(s, produced, sender.done, ShownBy(wire))
BY DEF Waiting, Wait

\* No text may wait.
LEMMA NothingWaits == \A n, done, w : Wait(<<>>, n, done, w)
BY DEF Wait, In, Ordered

\* The state of a running loop in simple mode.
LEMMA SimpleState ==
  ASSUME Running("simple")
  PROVE  /\ StreamTyped /\ LoopInv /\ nextChunk = Len(wire) /\ (sender.done <=> Closed(wire)) /\ sender.buffer = <<>>
         /\ Shown \in Seq(Nat) /\ All = Shown /\ In(Shown, produced) /\ Ordered("simple", Shown)
         /\ (\A p \in owed : Has(Shown, p)) /\ (wire # <<>> => sender.open)
         /\ Waiting(text.deltas) /\ Waiting(text.final) /\ Waiting(text.error)
         /\ text.deltas \in Seq(Nat) /\ text.final \in Seq(Nat) /\ text.error \in Seq(Nat)
         /\ Stream!FinalText \in Seq(Nat) /\ Waiting(Stream!FinalText)
         /\ (sender.done => /\ stream \in {"done", "closed"}
                            /\ \A i \in 1 .. Len(Stream!FinalText) : Has(Shown, Stream!FinalText[i]))
         /\ (~sender.done => Ordered("simple", Shown \o Stream!FinalText))
<1>1. StreamTyped /\ LoopInv /\ mode = "simple"
  BY DEF Running, StreamInv
<1>2. /\ nextChunk = Len(wire) /\ (sender.done <=> Closed(wire)) /\ sender.buffer = <<>> /\ (wire # <<>> => sender.open)
      /\ In(All, produced) /\ Ordered("simple", All) /\ \A p \in owed : Has(All, p)
      /\ Waiting(text.deltas) /\ Waiting(text.final) /\ Waiting(text.error)
      /\ (sender.done => /\ stream \in {"done", "closed"}
                         /\ \A i \in 1 .. Len(Stream!FinalText) : Has(Shown, Stream!FinalText[i]))
  BY <1>1 DEF LoopInv, Shown
<1>3. Shown \in Seq(Nat)
  BY <1>1, ShownOrdered
<1>4. All = Shown
  <2>1. \A s \in Seq(Nat) : s \o <<>> = s
    OBVIOUS
  <2> QED
    BY <1>2, <1>3, <2>1 DEF All, Shown
<1>5. text.deltas \in Seq(Nat) /\ text.final \in Seq(Nat) /\ text.error \in Seq(Nat)
  BY <1>1 DEF StreamTyped, Kept
<1>6. Stream!FinalText \in Seq(Nat) /\ Waiting(Stream!FinalText)
  BY <1>2, <1>5 DEF Stream!FinalText
<1>7. ~sender.done => Ordered("simple", Shown \o Stream!FinalText)
  <2> DEFINE u == Shown
             v == Stream!FinalText
  <2>1. ~sender.done => Ordered("simple", v) /\ \A i \in 1 .. Len(v) : ~Has(u, v[i])
    BY <1>6 DEF Waiting, Shown
  <2>2. u \in Seq(Nat) /\ v \in Seq(Nat) /\ Ordered("simple", u)
    BY <1>2, <1>3, <1>4, <1>6
  <2> HIDE DEF u, v
  <2>3. ~sender.done => Ordered("simple", u \o v)
    BY <2>1, <2>2, PiecesJoin
  <2> QED
    BY <2>3 DEF u, v
<1> QED
  BY <1>1, <1>2, <1>3, <1>4, <1>5, <1>6, <1>7

\* What is produced is kept for the end: the texts that wait are new.
LEMMA SimpleKeeps ==
  ASSUME Running("simple"), Stream!Produce, UNCHANGED <<mode, cancelled, fwd, sender, nextChunk, wire, owed, left>>,
         ~sender.done, stream' \in {"open", "last", "done", "closed"},
         text' \in Kept,
         text'.deltas \in {text.deltas, text.deltas \o Stream!News},
         text'.final \in {text.final, Stream!News}, text'.error \in {text.error, Stream!News}
  PROVE  StreamInv'
<1>1. /\ StreamTyped /\ LoopInv /\ nextChunk = Len(wire) /\ (sender.done <=> Closed(wire)) /\ sender.buffer = <<>>
      /\ Shown \in Seq(Nat) /\ All = Shown /\ In(Shown, produced) /\ Ordered("simple", Shown)
      /\ (\A p \in owed : Has(Shown, p)) /\ (wire # <<>> => sender.open)
      /\ Waiting(text.deltas) /\ Waiting(text.final) /\ Waiting(text.error)
      /\ text.deltas \in Seq(Nat) /\ text.final \in Seq(Nat) /\ text.error \in Seq(Nat)
  BY SimpleState
<1>2. produced \in Nat /\ produced < Pieces /\ produced' = produced + 1 /\ mode = "simple" /\ fwd = "loop"
      /\ <<>> \in Seq(Nat) /\ owed \subseteq 1 .. produced + 1 /\ Pieces \in Nat
  BY RunningTypes DEF Stream!Produce, Running
<1> DEFINE n == produced
           w == Shown
           d == sender.done
           more == <<n + 1>>
<1>3. \A s \in Seq(Nat) : Wait(s, n, d, w) => Wait(s, n + 1, d, w) /\ Wait(s \o more, n + 1, d, w)
  <2>1. w \in Seq(Nat) /\ In(w, n) /\ n \in Nat
    BY <1>1, <1>2
  <2> HIDE DEF n, w, d
  <2> QED
    BY <2>1, WaitsMore
<1>4. Wait(text.deltas, n, d, w) /\ Wait(text.final, n, d, w) /\ Wait(text.error, n, d, w)
  BY <1>1, WaitingIs DEF Shown
<1>5. Wait(more, n + 1, d, w)
  <2>1. Wait(<<>> \o more, n + 1, d, w)
    <3> HIDE DEF more
    <3> QED
      BY <1>2, <1>3, NothingWaits
  <2>2. <<>> \o more = more
    BY <1>2
  <2> QED
    BY <2>1, <2>2
<1>6. Wait(text'.deltas, n + 1, d, w) /\ Wait(text'.final, n + 1, d, w) /\ Wait(text'.error, n + 1, d, w)
  <2>1. Stream!News = more
    BY DEF Stream!News
  <2> HIDE DEF n, w, d, more
  <2> QED
    BY <1>1, <1>3, <1>4, <1>5, <2>1
<1>7. Waiting(text.deltas)' /\ Waiting(text.final)' /\ Waiting(text.error)'
  BY <1>2, <1>6 DEF Waiting, Wait, Shown
<1>8. All' = Shown
  BY <1>1 DEF All
<1>9. In(Shown, produced')
  BY <1>1, <1>2, <1>3, PieceMore
<1>10. LoopInv'
  <2>1. (nextChunk' = Len(wire') /\ (sender'.done <=> Closed(wire')) /\ sender'.buffer = <<>>) /\ mode' = "simple" /\ ~sender'.done
    BY <1>1, <1>2
  <2>2. In(All', produced') /\ Ordered(mode', All') /\ \A p \in owed' : Has(All', p)
    BY <1>1, <1>2, <1>8, <1>9
  <2>3. fwd' = "loop" /\ (wire' # <<>> => sender'.open)
    BY <1>1, <1>2
  <2> QED
    BY <1>7, <2>1, <2>2, <2>3 DEF LoopInv
<1>11. StreamTyped'
  <2>1. produced' \in 0 .. Pieces /\ owed' \subseteq 1 .. produced'
    BY <1>2
  <2> QED
    BY <1>1, <2>1 DEF StreamTyped
<1> QED
  BY <1>2, <1>10, <1>11 DEF StreamInv

\* Deltas, messages and errors wait for the end.
LEMMA KeptBySimpleTexts ==
  ASSUME Running("simple"), Stream!SimpleDelta \/ Stream!SimpleMessage \/ Stream!SimpleError
  PROVE  StreamInv'
<1>1. /\ text \in Kept /\ stream \in {"open", "last", "done", "closed"} /\ Stream!News \in Seq(Nat)
      /\ (sender.done => stream \in {"done", "closed"}) /\ text.deltas \in Seq(Nat)
  BY RunningTypes, SimpleState
<1>2. text.deltas \o Stream!News \in Seq(Nat)
  BY <1>1
<1> DEFINE w == Stream!News
           dw == text.deltas \o Stream!News
<1>3. CASE Stream!SimpleDelta
  <2>1. /\ Stream!More /\ Stream!Produce /\ text' = [text EXCEPT !.deltas = dw]
        /\ UNCHANGED <<mode, cancelled, fwd, sender, nextChunk, wire, owed, left, stream>>
    BY <1>3 DEF Stream!SimpleDelta, Stream!Same
  <2>2. ~sender.done
    BY <1>1, <2>1 DEF Stream!More
  <2>3. text' \in Kept /\ text'.deltas = dw /\ text'.final = text.final /\ text'.error = text.error
    <3>1. dw \in Seq(Nat)
      BY <1>2
    <3> HIDE DEF dw
    <3> QED
      BY <1>1, <2>1, <3>1 DEF Kept
  <2> QED
    BY <1>1, <2>1, <2>2, <2>3, SimpleKeeps
<1>4. CASE Stream!SimpleMessage
  <2>1. /\ stream \in {"open", "last"} /\ Stream!Produce /\ stream' = "last"
        /\ text' = [text EXCEPT !.final = IF text.final = <<>> THEN w ELSE text.final]
        /\ UNCHANGED <<mode, cancelled, fwd, sender, nextChunk, wire, owed, left>>
    BY <1>4 DEF Stream!SimpleMessage, Stream!Same
  <2>2. ~sender.done
    BY <1>1, <2>1
  <2>3. text' \in Kept /\ text'.deltas = text.deltas /\ text'.final \in {text.final, w} /\ text'.error = text.error
    BY <1>1, <2>1 DEF Kept
  <2> QED
    BY <2>1, <2>2, <2>3, SimpleKeeps
<1>5. CASE Stream!SimpleError
  <2>1. /\ stream \in {"open", "last"} /\ Stream!Produce /\ stream' = "last" /\ text' = [text EXCEPT !.error = w]
        /\ UNCHANGED <<mode, cancelled, fwd, sender, nextChunk, wire, owed, left>>
    BY <1>5 DEF Stream!SimpleError, Stream!Same
  <2>2. ~sender.done
    BY <1>1, <2>1
  <2>3. text' \in Kept /\ text'.deltas = text.deltas /\ text'.final = text.final /\ text'.error = w
    BY <1>1, <2>1 DEF Kept
  <2> QED
    BY <2>1, <2>2, <2>3, SimpleKeeps
<1> QED
  BY <1>3, <1>4, <1>5

\* What is sent before the reply is closed, in simple mode.
LEMMA SimpleSent ==
  ASSUME Running("simple"), ~sender.done, NEW sends, NEW t \in Seq(Nat), NEW d \in BOOLEAN, Carries(sends, t, d),
         Stream!Sent(sends), sends # <<>> \/ sender.open => sender'.open
  PROVE  /\ WireFits(wire') /\ ShownBy(wire') = Shown \o t /\ nextChunk' = Len(wire') /\ nextChunk' \in Nat
         /\ (Closed(wire') <=> d) /\ left' \in 0 .. Errors /\ (wire' # <<>> => sender'.open)
<1>1. /\ StreamTyped /\ nextChunk = Len(wire) /\ ~Closed(wire) /\ (wire # <<>> => sender.open) /\ ChunkMax \in Nat \ {0}
      /\ WireFits(wire) /\ left \in 0 .. Errors
  BY SimpleState DEF Running, StreamTyped
<1>2. /\ WireFits(wire') /\ ShownBy(wire') = ShownBy(wire) \o t /\ nextChunk' = Len(wire') /\ nextChunk' \in Nat
      /\ (Closed(wire') <=> Closed(wire) \/ d) /\ left' = left
  BY <1>1, SentAll
<1>3. wire' # <<>> => sender'.open
  <2>1. CASE sends = <<>>
    <3>1. wire' = wire \o Stream!Numbered(Stream!Chunks(<<>>))
      BY <2>1 DEF Stream!Sent
    <3>2. wire \in Seq(Chunk)
      BY <1>1 DEF WireFits
    <3>3. wire' = wire
      BY <3>1, <3>2, NoChunks
    <3> QED
      BY <1>1, <3>3
  <2> QED
    BY <2>1
<1> QED
  BY <1>1, <1>2, <1>3 DEF Shown

\* A handler in simple mode fails.
LEMMA SimpleBreaks ==
  ASSUME Running("simple"), ~sender.done, NEW sends, NEW t \in Seq(Nat), NEW d \in BOOLEAN, Carries(sends, t, d), TypedRest,
         Ordered("simple", Shown \o t), Broken(sends)
  PROVE  StreamInv'
<1>1. StreamInv /\ fwd = "loop" /\ mode = "simple" /\ ChunkMax \in Nat \ {0} /\ (sender.done <=> Closed(wire))
  BY SimpleState DEF Running
<1>2. Ordered(mode, Shown \o t) /\ (sends = <<>> \/ ~Closed(wire))
  BY <1>1
<1> QED
  BY <1>1, <1>2, BrokenKept

\* A handler in simple mode sends all, or some and fails.
LEMMA SimpleHandles ==
  ASSUME Running("simple"), NEW sends, NEW new, NEW t, NEW d \in BOOLEAN, Carries(sends, t, d)
  PROVE  /\ Stream!Handles(sends, new) => (Stream!Sent(sends) /\ sender' = new /\ fwd' = "loop") \/ Broken(sends)
         /\ Stream!Breaks(sends) /\ fwd' = "failed" /\ sender' = sender => Broken(sends)
<1>1. StreamTyped /\ left \in 0 .. Errors /\ Errors \in Nat /\ ChunkMax \in Nat \ {0} /\ fwd = "loop"
  BY SimpleState DEF Running, StreamTyped
<1>2. Stream!Handles(sends, new) => (Going(sends, new) /\ fwd' = fwd) \/ Broken(sends)
  BY <1>1, HandlesEither
<1>3. Stream!Breaks(sends) /\ fwd' = "failed" /\ sender' = sender => Broken(sends)
  BY <1>1, BreaksSome
<1> QED
  BY <1>1, <1>2, <1>3 DEF Going

\* A request goes out at once.
LEMMA KeptBySimpleRequest ==
  ASSUME Running("simple"), Stream!SimpleRequest
  PROVE  StreamInv'
<1>1. /\ Stream!More /\ Stream!Produce /\ stream' = stream /\ text' = text /\ mode' = mode /\ cancelled' = cancelled
      /\ owed' = owed \cup {produced + 1}
      /\ Stream!Handles(Stream!Text(Stream!News), [sender EXCEPT !.open = TRUE])
  BY Owing DEF Stream!SimpleRequest, Stream!Same
<1>2. /\ StreamTyped /\ LoopInv /\ sender.buffer = <<>>
      /\ Shown \in Seq(Nat) /\ In(Shown, produced) /\ Ordered("simple", Shown)
      /\ (\A p \in owed : Has(Shown, p))
      /\ Waiting(text.deltas) /\ Waiting(text.final) /\ Waiting(text.error)
      /\ text.deltas \in Seq(Nat) /\ text.final \in Seq(Nat) /\ text.error \in Seq(Nat)
      /\ (sender.done => stream \in {"done", "closed"})
  BY SimpleState
<1>3. /\ ~sender.done /\ produced \in Nat /\ produced' = produced + 1 /\ mode = "simple" /\ sender \in Sender
      /\ Stream!News \in Seq(Nat) /\ owed \subseteq 1 .. produced
  BY <1>1, <1>2, RunningTypes DEF Stream!More, Stream!Produce
<1>4. TypedRest
  <2>1. text' \in Kept /\ stream' \in {"open", "last", "done", "closed"} /\ Owes(TRUE)
    BY <1>1, RunningTypes DEF Owes
  <2> QED
    BY <1>1, <2>1, TypedMore
<1> DEFINE n == produced
           w == Shown
           t == <<n + 1>>
           x == w \o t
           new == [sender EXCEPT !.open = TRUE]
           sends == Stream!Text(Stream!News)
           no == FALSE
<1>5. t = Stream!News /\ t \in Seq(Nat)
  BY <1>3 DEF Stream!News
<1>6. Carries(sends, t, no) /\ no \in BOOLEAN /\ ~no
  <2>1. Carries(sends, Stream!News, FALSE)
    <3> DEFINE v == Stream!News
    <3>1. v \in Seq(Nat)
      BY <1>3
    <3> HIDE DEF v
    <3>2. Carries(Stream!Text(v), v, FALSE)
      BY <1>2, <3>1, Carrying
    <3> QED
      BY <3>2, Zenon DEF v
  <2> QED
    BY <1>5, <2>1
<1>7. /\ x \in Seq(Nat) /\ In(x, n + 1) /\ Ordered("simple", x) /\ \A p \in Nat : Has(x, p) <=> Has(w, p) \/ p = n + 1
  <2>1. w \in Seq(Nat) /\ n \in Nat /\ In(w, n) /\ Ordered("simple", w)
    BY <1>2, <1>3
  <2> HIDE DEF w, n
  <2> QED
    BY <2>1, PieceMore
<1>8. new \in Sender /\ new.open /\ new.buffer = <<>> /\ new.done = sender.done
  BY <1>2, <1>3 DEF Sender
<1>9. (Stream!Sent(sends) /\ sender' = new /\ fwd' = "loop") \/ Broken(sends)
  <2>1. Stream!Handles(sends, new)
    BY <1>1
  <2> HIDE DEF sends, new, t, no
  <2> QED
    BY <1>6, <2>1, SimpleHandles
<1>10. CASE Broken(sends)
  <2>1. Ordered("simple", Shown \o t)
    BY <1>7
  <2> HIDE DEF sends, t, no
  <2> QED
    BY <1>3, <1>4, <1>5, <1>6, <1>10, <2>1, SimpleBreaks
<1>11. CASE Stream!Sent(sends) /\ sender' = new /\ fwd' = "loop"
  <2>1. sender'.open /\ ~sender'.done /\ sender' \in Sender /\ sender'.buffer = <<>>
    BY <1>3, <1>8, <1>11
  <2>2. /\ WireFits(wire') /\ ShownBy(wire') = Shown \o t /\ nextChunk' = Len(wire') /\ nextChunk' \in Nat
        /\ (Closed(wire') <=> no) /\ left' \in 0 .. Errors /\ (wire' # <<>> => sender'.open)
    <3> HIDE DEF sends, t, no
    <3> QED
      BY <1>3, <1>5, <1>6, <1>11, <2>1, SimpleSent
  <2>3. ShownBy(wire') = x
    BY <2>2
  <2>4. All' = x
    <3>1. All' = x \o <<>>
      BY <2>1, <2>3 DEF All
    <3> HIDE DEF x
    <3> QED
      BY <1>7, <3>1
  <2>5. Waiting(text.deltas)' /\ Waiting(text.final)' /\ Waiting(text.error)'
    <3>1. \A s \in Seq(Nat) : Wait(s, n, sender.done, w) => Wait(s, n + 1, sender.done, x)
      <4>1. w \in Seq(Nat) /\ In(w, n) /\ n \in Nat
        BY <1>2, <1>3
      <4> HIDE DEF n, w
      <4> QED
        BY <4>1, WaitsMore
    <3>2. Wait(text.deltas, n, sender.done, w) /\ Wait(text.final, n, sender.done, w) /\ Wait(text.error, n, sender.done, w)
      BY <1>2, WaitingIs DEF Shown
    <3>3. Wait(text.deltas, n + 1, sender.done, x) /\ Wait(text.final, n + 1, sender.done, x) /\ Wait(text.error, n + 1, sender.done, x)
      <4> HIDE DEF x, n, w
      <4> QED
        BY <1>2, <3>1, <3>2
    <3>4. text' = text /\ produced' = n + 1 /\ sender'.done = sender.done /\ ShownBy(wire') = x
      BY <1>1, <1>3, <1>8, <1>11, <2>3
    <3> HIDE DEF x, n
    <3> QED
      BY <3>3, <3>4 DEF Waiting, Wait
  <2>6. LoopInv'
    <3>1. nextChunk' = Len(wire') /\ (sender'.done <=> Closed(wire')) /\ mode' = "simple" /\ ~sender'.done
      BY <1>1, <1>3, <1>6, <2>1, <2>2
    <3>2. In(All', produced') /\ Ordered(mode', All')
      BY <1>3, <1>7, <2>4, <3>1
    <3>3. \A p \in owed' : Has(All', p)
      <4>1. \A p \in owed : p \in Nat
        BY <1>3
      <4> HIDE DEF x, w
      <4> QED
        BY <1>1, <1>2, <1>3, <1>7, <2>4, <4>1 DEF w
    <3> QED
      BY <1>11, <2>1, <2>2, <2>5, <3>1, <3>2, <3>3 DEF LoopInv
  <2>7. StreamTyped'
    BY <1>2, <1>4, <1>11, <2>1, <2>2 DEF StreamTyped, TypedRest
  <2> QED
    BY <1>11, <2>6, <2>7 DEF StreamInv
<1> QED
  BY <1>9, <1>10, <1>11

\* What ends the reply in simple mode, if it is not closed yet: the final text, if there is one.
LEMMA WhatEnds ==
  ASSUME Running("simple"), ~sender.done
  PROVE  /\ Stream!Ending \in Sender /\ Stream!Ending.buffer = <<>>
         /\ (Stream!SimpleFinal # <<>> \/ sender.open => Stream!Ending.open)
         /\ \E d \in BOOLEAN : /\ Carries(Stream!SimpleFinal, Stream!FinalText, d)
                               /\ Stream!Ending.done <=> d
                               /\ ~d => Stream!SimpleFinal = <<>> /\ Stream!FinalText = <<>> /\ ~sender.open
<1> DEFINE t == Stream!FinalText
           e == <<>>
           yes == TRUE
           no == FALSE
           sf == Stream!Final
           st == Stream!Text(t)
<1>1. /\ sender \in Sender /\ sender.buffer = <<>> /\ t \in Seq(Nat) /\ StreamTyped /\ sender.open \in BOOLEAN
      /\ e \in Seq(Nat) /\ yes \in BOOLEAN /\ no \in BOOLEAN
  BY RunningTypes, SimpleState
<1>2. Carries(sf, e, yes) /\ Carries(st, t, no) /\ Carries(e, e, no)
  <2>1. Carries(sf, e, yes) /\ Carries(e, e, no)
    BY <1>1, Carrying
  <2>2. Carries(st, t, no)
    <3> HIDE DEF t
    <3> QED
      BY <1>1, Carrying
  <2> QED
    BY <2>1, <2>2
<1>3. Carries(st \o sf, t, yes)
  <2>1. t \o e = t
    BY <1>1
  <2>2. Carries(st \o sf, t \o e, yes)
    <3> HIDE DEF st, sf, t, e, yes
    <3> QED
      BY <1>1, <1>2, CarriesJoin
  <2> QED
    BY <2>1, <2>2
<1>4. Stream!Ending \in Sender /\ Stream!Ending.buffer = <<>>
  <2> HIDE DEF t
  <2> QED
    BY <1>1 DEF Stream!Ending, Sender
<1>5. Stream!Ending.open <=> sender.open \/ t # <<>>
  BY <1>1 DEF Stream!Ending, Sender
<1>6. Stream!Ending.done <=> sender.open \/ t # <<>>
  BY <1>1 DEF Stream!Ending, Sender
<1>7. CASE t # <<>>
  <2>1. Stream!SimpleFinal = st \o sf
    BY <1>7 DEF Stream!SimpleFinal
  <2> HIDE DEF st, sf, t
  <2> QED
    BY <1>1, <1>3, <1>4, <1>5, <1>6, <1>7, <2>1 DEF t
<1>8. CASE t = <<>> /\ sender.open
  <2>1. Stream!SimpleFinal = sf
    BY <1>8 DEF Stream!SimpleFinal
  <2> HIDE DEF st, sf, t
  <2> QED
    BY <1>1, <1>2, <1>4, <1>5, <1>6, <1>8, <2>1 DEF t
<1>9. CASE t = <<>> /\ ~sender.open
  <2>1. Stream!SimpleFinal = <<>>
    BY <1>9 DEF Stream!SimpleFinal
  <2> HIDE DEF st, sf, t
  <2> QED
    BY <1>1, <1>2, <1>4, <1>5, <1>6, <1>9, <2>1 DEF t
<1> QED
  BY <1>1, <1>7, <1>8, <1>9

\* The pieces of the final text become owed.
LEMMA OwesFinal ==
  ASSUME Running("simple"), Stream!Owe(Stream!FinalText)
  PROVE  \A p \in owed' : p \in 1 .. produced /\ (p \in owed \/ Has(Stream!FinalText, p))
<1> DEFINE t == Stream!FinalText
<1>1. In(t, produced) /\ owed \subseteq 1 .. produced
  BY SimpleState, RunningTypes DEF Waiting
<1>2. owed' = owed \cup {t[i] : i \in 1 .. Len(t)}
  BY DEF Stream!Owe
<1> HIDE DEF t
<1> QED
  BY <1>1, <1>2 DEF In, Has, t

\* The reply is closed with the final text, if it is not closed yet.
LEMMA SimpleEnds ==
  ASSUME Running("simple"), ~sender.done, TypedRest, produced' = produced, text' = text, Stream!Owe(Stream!FinalText),
         fwd' \in {"loop", "ended"}, fwd' = "loop" => stream' \in {"done", "closed"},
         Stream!Sent(Stream!SimpleFinal), sender' = Stream!Ending
  PROVE  StreamInv'
<1> DEFINE t == Stream!FinalText
           sends == Stream!SimpleFinal
           new == Stream!Ending
           w == Shown
           x == w \o t
<1>1. new \in Sender /\ new.buffer = <<>> /\ (sends # <<>> \/ sender.open => new.open)
  BY WhatEnds
<1>2. PICK d \in BOOLEAN : /\ Carries(sends, t, d) /\ (new.done <=> d)
                           /\ ~d => sends = <<>> /\ t = <<>> /\ ~sender.open
  BY WhatEnds
<1>3. /\ StreamTyped /\ LoopInv /\ (wire # <<>> => sender.open) /\ w \in Seq(Nat) /\ t \in Seq(Nat)
      /\ In(w, produced) /\ Ordered("simple", x) /\ Waiting(t)
      /\ (\A p \in owed : Has(w, p))
      /\ Waiting(text.deltas) /\ Waiting(text.final) /\ Waiting(text.error)
  BY SimpleState
<1>4. sender' \in Sender /\ sender'.buffer = <<>> /\ (sends # <<>> \/ sender.open => sender'.open) /\ (sender'.done <=> d)
  BY <1>1, <1>2
<1>5. /\ WireFits(wire') /\ ShownBy(wire') = Shown \o t /\ nextChunk' = Len(wire') /\ nextChunk' \in Nat
      /\ (Closed(wire') <=> d) /\ left' \in 0 .. Errors /\ (wire' # <<>> => sender'.open)
  <2>1. Carries(sends, t, d) /\ Stream!Sent(sends) /\ t \in Seq(Nat)
    BY <1>2, <1>3
  <2> HIDE DEF sends, t
  <2> QED
    BY <1>4, <2>1, SimpleSent
<1>6. ShownBy(wire') = x
  BY <1>5
<1>7. In(t, produced)
  BY <1>3 DEF Waiting
<1>8. mode' = "simple" /\ produced \in Nat
  BY RunningTypes DEF TypedRest
<1>9. x \in Seq(Nat) /\ In(x, produced) /\ \A p \in Nat : Has(x, p) <=> Has(w, p) \/ Has(t, p)
  <2> HIDE DEF w, t
  <2> QED
    BY <1>3, <1>7, <1>8, PiecesJoin
<1>10. \A p \in owed' : Has(x, p)
  <2>1. \A p \in owed' : p \in 1 .. produced /\ (p \in owed \/ Has(t, p))
    BY OwesFinal
  <2>2. \A p \in 1 .. produced : p \in Nat
    BY <1>8
  <2> HIDE DEF x, w, t
  <2> QED
    BY <1>3, <1>9, <2>1, <2>2 DEF w
<1>11. StreamTyped'
  BY <1>3, <1>4, <1>5 DEF StreamTyped, TypedRest
<1>12. CASE fwd' = "ended"
  <2>1. wire' # <<>> => Closed(wire')
    <3>1. CASE ~d
      <4>1. wire' # <<>> => sender'.open
        BY <1>5
      <4>2. ~sender'.open
        <5>1. sender.open \in BOOLEAN
          BY RunningTypes
        <5>2. ~sender.open /\ t = <<>>
          BY <1>2, <3>1
        <5> HIDE DEF t
        <5>3. ~new.open
          BY <5>1, <5>2, RunningTypes DEF Stream!Ending, Sender, t
        <5> QED
          BY <5>3
      <4> QED
        BY <4>1, <4>2
    <3> QED
      BY <1>5, <3>1
  <2>2. EndInv'
    BY <1>3, <1>6, <1>8, <1>10, <1>12, <2>1 DEF EndInv
  <2> QED
    BY <1>11, <1>12, <2>2 DEF StreamInv
<1>13. CASE fwd' = "loop"
  <2>1. All' = x
    <3>1. All' = x \o <<>>
      BY <1>4, <1>6 DEF All
    <3> HIDE DEF x
    <3> QED
      BY <1>9, <3>1
  <2>2. ASSUME NEW s, Waiting(s) PROVE In(s, produced) /\ Ordered("simple", s) /\ (~d => t = <<>>)
    BY <1>2, <2>2 DEF Waiting
  <2>3. ~d => ShownBy(wire') = ShownBy(wire)
    <3>1. \A y \in Seq(Nat) : y \o <<>> = y
      OBVIOUS
    <3> HIDE DEF t
    <3> QED
      BY <1>2, <1>3, <1>5, <3>1 DEF Shown
  <2>4. Waiting(text.deltas)' /\ Waiting(text.final)' /\ Waiting(text.error)'
    <3>1. text' = text /\ produced' = produced /\ (sender'.done <=> d) /\ ~sender.done
      BY <1>4
    <3> QED
      BY <1>3, <2>3, <3>1 DEF Waiting
  <2>5. Stream!FinalText' = t
    BY DEF Stream!FinalText
  <2>6. \A i \in 1 .. Len(t) : Has(x, t[i])
    <3>1. \A i \in 1 .. Len(t) : Has(t, t[i]) /\ t[i] \in Nat
      BY <1>3 DEF Has
    <3> HIDE DEF x, t
    <3> QED
      BY <1>9, <3>1
  <2>7. stream' \in {"done", "closed"}
    BY <1>13
  <2>8. nextChunk' = Len(wire') /\ (sender'.done <=> Closed(wire'))
    BY <1>4, <1>5
  <2>9. In(All', produced') /\ Ordered(mode', All') /\ \A p \in owed' : Has(All', p)
    BY <1>3, <1>8, <1>9, <1>10, <2>1
  <2>10. \A i \in 1 .. Len(Stream!FinalText') : Has(ShownBy(wire'), Stream!FinalText'[i])
    BY <1>6, <2>5, <2>6
  <2>11. LoopInv'
    BY <1>4, <1>5, <1>8, <1>13, <2>4, <2>7, <2>8, <2>9, <2>10 DEF LoopInv
  <2> QED
    BY <1>11, <1>13, <2>11 DEF StreamInv
<1> QED
  BY <1>12, <1>13

\* The final text is sent once, with the done or as the stream ends.
LEMMA KeptBySimpleEnd ==
  ASSUME Running("simple"), Stream!SimpleDone \/ Stream!SimpleClosed
  PROVE  StreamInv'
<1> DEFINE t == Stream!FinalText
           sends == Stream!SimpleFinal
           new == Stream!Ending
<1>1. /\ text' = text /\ mode' = mode /\ cancelled' = cancelled /\ produced' = produced /\ Stream!Owe(t)
      /\ stream' \in {"done", "closed"}
  BY DEF Stream!SimpleDone, Stream!SimpleClosed, Stream!Same
<1>2. \A p \in owed' : p \in 1 .. produced /\ (p \in owed \/ Has(t, p))
  BY <1>1, OwesFinal
<1>3. TypedRest
  <2>1. cancelled \in BOOLEAN /\ text \in Kept /\ produced \in 0 .. Pieces
    BY RunningTypes
  <2>2. owed' \subseteq 1 .. produced'
    BY <1>1, <1>2
  <2> HIDE DEF t
  <2> QED
    BY <1>1, <2>1, <2>2 DEF TypedRest
<1>4. fwd = "loop"
  BY DEF Running
<1>5. CASE ~sender.done
  <2>1. PICK d \in BOOLEAN : Carries(sends, t, d)
    BY <1>5, WhatEnds
  <2>2. t \in Seq(Nat) /\ Ordered("simple", Shown \o t)
    BY <1>5, SimpleState
  <2>3. \/ Stream!Sent(sends) /\ sender' = new /\ fwd' \in {"loop", "ended"}
        \/ Broken(sends)
    <3>1. \/ Stream!Handles(sends, new)
          \/ Stream!Sent(sends) /\ sender' = new /\ fwd' = "ended"
          \/ Stream!Breaks(sends) /\ fwd' = "failed" /\ sender' = sender
      BY DEF Stream!SimpleDone, Stream!SimpleClosed
    <3> HIDE DEF sends, new, t
    <3> QED
      BY <2>1, <3>1, SimpleHandles
  <2>4. CASE Broken(sends)
    <3> HIDE DEF sends, t
    <3> QED
      BY <1>3, <1>5, <2>1, <2>2, <2>4, SimpleBreaks
  <2>5. CASE Stream!Sent(sends) /\ sender' = new /\ fwd' \in {"loop", "ended"}
    BY <1>1, <1>3, <1>5, <2>5, SimpleEnds
  <2> QED
    BY <2>3, <2>4, <2>5
<1>6. CASE sender.done
  <2>1. /\ StreamTyped /\ LoopInv /\ nextChunk = Len(wire) /\ Closed(wire) /\ Shown \in Seq(Nat) /\ Ordered("simple", Shown)
        /\ (\A p \in owed : Has(Shown, p)) /\ stream \in {"done", "closed"}
        /\ \A i \in 1 .. Len(t) : Has(Shown, t[i])
    BY <1>6, SimpleState
  <2>2. sends = <<>> /\ Stream!SimpleClosed
    BY <1>6, <2>1 DEF Stream!SimpleFinal, Stream!SimpleDone
  <2>3. Stream!Chunks(sends) = <<>>
    BY <2>2, NoChunks
  <2>4. Stream!Sent(sends) /\ sender' = new /\ fwd' = "ended"
    BY <2>2, <2>3 DEF Stream!SimpleClosed, Stream!Breaks
  <2>5. wire' = wire /\ nextChunk' = nextChunk /\ left' = left
    <3>1. wire \in Seq(Chunk) /\ nextChunk \in Nat
      BY <2>1 DEF StreamTyped, WireFits
    <3>2. wire' = wire \o Stream!Numbered(<<>>) /\ nextChunk' = nextChunk + Len(<<>>) /\ left' = left
      BY <2>3, <2>4 DEF Stream!Sent
    <3>3. wire \o Stream!Numbered(<<>>) = wire
      BY <3>1, NoChunks
    <3> QED
      BY <3>1, <3>2, <3>3
  <2>6. new \in Sender
    BY RunningTypes DEF Stream!Ending, Sender
  <2>7. StreamTyped'
    BY <1>3, <2>1, <2>4, <2>5, <2>6 DEF StreamTyped, TypedRest
  <2>8. \A p \in owed' : Has(Shown, p)
    <3>1. \A p \in owed' : p \in owed \/ \E i \in 1 .. Len(t) : t[i] = p
      BY <1>2 DEF Has
    <3> HIDE DEF t
    <3> QED
      BY <2>1, <3>1
  <2>9. mode = "simple"
    BY DEF Running
  <2>10. EndInv'
    BY <1>1, <2>1, <2>4, <2>5, <2>8, <2>9 DEF EndInv, Shown
  <2> QED
    BY <2>4, <2>7, <2>10 DEF StreamInv
<1> QED
  BY <1>5, <1>6

-------------------------------------------------------------------------------
(* The reply stream as a whole *)

\* A handler runs in its mode, or the turn and the time go on.
LEMMA StreamKept ==
  ASSUME StreamInv, ChunkMax \in Nat \ {0}, Errors \in Nat, Pieces \in Nat, Stream!Next
  PROVE  StreamInv'
<1>1. ASSUME NEW m, fwd = "loop", mode = m PROVE Running(m)
  BY <1>1 DEF Running
<1>2. CASE Stream!Forward
  <2>1. CASE Stream!Open
    BY <2>1, KeptByOpen
  <2>2. CASE Stream!TakeTick
    BY <1>1, <2>2, KeptByTakeTick DEF Stream!TakeTick, Stream!Loops
  <2>3. CASE Stream!TakeCancel
    <3>1. Running(mode)
      BY <1>1, <2>3 DEF Stream!TakeCancel
    <3> QED
      BY <2>3, <3>1, KeptByTakeCancel
  <2>4. CASE Stream!TakeDone
    BY <1>1, <2>4, KeptByTakeDone DEF Stream!TakeDone, Stream!Loops
  <2>5. CASE Stream!TakeClosed
    BY <1>1, <2>5, KeptByTakeClosed DEF Stream!TakeClosed, Stream!Loops
  <2>6. CASE Stream!SimpleDone
    BY <1>1, <2>6, KeptBySimpleEnd DEF Stream!SimpleDone, Stream!Loops
  <2>7. CASE Stream!SimpleClosed
    BY <1>1, <2>7, KeptBySimpleEnd DEF Stream!SimpleClosed, Stream!Loops
  <2> QED
    BY <1>2, <2>1, <2>2, <2>3, <2>4, <2>5, <2>6, <2>7 DEF Stream!Forward
<1>3. CASE Stream!TakeDelta
  BY <1>1, <1>3, KeptByTakeDelta DEF Stream!TakeDelta, Stream!Loops
<1>4. CASE Stream!TakeRequest
  BY <1>1, <1>4, KeptByTakeRequest DEF Stream!TakeRequest, Stream!Loops
<1>5. CASE Stream!TakeMessage
  BY <1>1, <1>5, KeptByTakeMessage DEF Stream!TakeMessage, Stream!Loops
<1>6. CASE Stream!SimpleDelta \/ Stream!SimpleMessage \/ Stream!SimpleError
  BY <1>1, <1>6, KeptBySimpleTexts DEF Stream!SimpleDelta, Stream!SimpleMessage, Stream!SimpleError, Stream!Loops
<1>7. CASE Stream!SimpleRequest
  BY <1>1, <1>7, KeptBySimpleRequest DEF Stream!SimpleRequest, Stream!Loops
<1>8. CASE Stream!StreamCloses \/ Stream!Cancel \/ Stream!Waits
  BY <1>8, KeptByTheTurn
<1> QED
  BY <1>2, <1>3, <1>4, <1>5, <1>6, <1>7, <1>8 DEF Stream!Next

\* Nothing is sent at first.
LEMMA StreamBegins ==
  ASSUME Stream!ConstantsAssumption, Stream!Init
  PROVE  StreamInv
<1>1. /\ mode \in Modes /\ mode \in {"stream", "simple"} /\ Pieces \in Nat /\ Errors \in Nat
      /\ fwd = (IF mode = "stream" THEN "opening" ELSE "loop") /\ cancelled = FALSE /\ stream = "open"
      /\ sender = [open |-> FALSE, buffer |-> <<>>, late |-> FALSE, done |-> FALSE]
      /\ text = [deltas |-> <<>>, final |-> <<>>, error |-> <<>>]
      /\ nextChunk = 0 /\ wire = <<>> /\ produced = 0 /\ owed = {} /\ left = Errors
  BY DEF Stream!ConstantsAssumption, Stream!Init
<1>2. /\ <<>> \in Seq(Nat) /\ <<>> \in Seq(Chunk) /\ Len(<<>>) = 0 /\ <<>> \o <<>> = <<>>
  OBVIOUS
<1>3. WireFits(wire) /\ ~Closed(wire)
  BY <1>1, <1>2 DEF WireFits, Small, Closed
<1>4. ShownBy(wire) = <<>>
  <2>1. TextsOf(<<>>) = <<>>
    BY DEF TextsOf
  <2>2. Stream!FlattenSeq(<<>>) = <<>>
    BY DEF Stream!FlattenSeq
  <2> QED
    BY <1>1, <2>1, <2>2 DEF ShownBy
<1>5. All = <<>> /\ sender.buffer = <<>>
  BY <1>1, <1>2, <1>4 DEF All
<1>6. StreamTyped
  <2>1. sender \in Sender /\ text \in Kept
    BY <1>1, <1>2 DEF Sender, Kept
  <2>2. left \in 0 .. Errors /\ produced \in 0 .. Pieces
    BY <1>1
  <2> QED
    BY <1>1, <1>3, <2>1, <2>2 DEF StreamTyped
<1>7. LoopInv
  <2>1. \A m : In(<<>>, produced) /\ Ordered(m, <<>>)
    BY <1>2 DEF In, Ordered
  <2>2. Waiting(text.deltas) /\ Waiting(text.final) /\ Waiting(text.error)
    BY <1>1, <1>2, <2>1 DEF Waiting
  <2> QED
    BY <1>1, <1>2, <1>3, <1>5, <2>1, <2>2 DEF LoopInv
<1> QED
  BY <1>1, <1>6, <1>7 DEF StreamInv

\* The properties of the reply that hold in every such state.
LEMMA StreamShows ==
  ASSUME StreamInv, ChunkMax \in Nat \ {0}, Pieces \in Nat
  PROVE  /\ Stream!TypeOK /\ Stream!InOrder /\ Stream!ChunksInSequence
         /\ ~MidMessage => Stream!AllShown /\ Stream!CancelFlushes
<1>1. StreamTyped
  BY DEF StreamInv
<1>2. Stream!Shown = Shown
  BY DEF Stream!Shown, Shown, ShownBy, TextsOf
<1>3. Stream!TypeOK
  <2>1. produced \in 0 .. Pieces /\ owed \subseteq 1 .. produced
    BY <1>1 DEF StreamTyped
  <2>2. owed \subseteq 1 .. Pieces
    BY <2>1
  <2>3. \A i \in 1 .. Len(wire) : Len(wire[i].text) <= ChunkMax
    BY <1>1 DEF StreamTyped, WireFits, Small
  <2> QED
    BY <1>1, <2>1, <2>2, <2>3 DEF StreamTyped, Sender, Stream!TypeOK
<1>4. Stream!ChunksInSequence
  BY <1>1 DEF StreamTyped, WireFits, Stream!ChunksInSequence
<1>5. Stream!InOrder
  <2>1. fwd = "loop" => Ordered(mode, Shown \o sender.buffer)
    BY DEF StreamInv, LoopInv, All, Shown
  <2>2. fwd # "loop" => Ordered(mode, Shown)
    BY <1>1, ShownOrdered DEF StreamInv, EndInv, Shown
  <2> HIDE DEF Shown
  <2> QED
    BY <1>2, <2>1, <2>2 DEF Stream!InOrder, Ordered
<1>6. ASSUME ~MidMessage PROVE Stream!AllShown /\ Stream!CancelFlushes
  <2>1. fwd \in {"ended", "cancelled"} => EndInv
    BY DEF StreamInv
  <2>2. \A p : Has(Shown, p) => p \in Stream!ShownPieces
    <3> HIDE DEF Shown
    <3> QED
      BY <1>2 DEF Has, Stream!ShownPieces
  <2>3. Stream!AllShown
    <3>1. fwd = "ended" => (wire # <<>> => Closed(wire)) /\ \A p \in owed : Has(Shown, p)
      BY <1>6, <2>1 DEF EndInv, Shown
    <3> QED
      BY <2>2, <3>1 DEF Stream!AllShown, Closed
  <2>4. Stream!CancelFlushes
    <3>1. fwd = "cancelled" /\ sender.open => Closed(wire) /\ (mode = "stream" => \A p \in owed : Has(Shown, p))
      BY <1>6, <2>1 DEF EndInv, Shown
    <3> QED
      BY <2>2, <3>1 DEF Stream!CancelFlushes, Closed
  <2> QED
    BY <2>3, <2>4
<1> QED
  BY <1>3, <1>4, <1>5, <1>6

-------------------------------------------------------------------------------
(* The composition *)

\* The inductive invariant of the composition: one part runs, and each part is in a state of its own.
Inv == part \in Parts /\ StreamInv /\ TableInv /\ LogInv

\* What the proofs use of the assumption on the constants.
LEMMA Parameters ==
  /\ Stream!ConstantsAssumption /\ Table!ConstantsAssumption /\ Log!ConstantsAssumption
  /\ ChunkMax \in Nat \ {0} /\ Errors \in Nat /\ Pieces \in Nat
BY ConstantsAssumption DEF Stream!ConstantsAssumption

\* The initial states of the parts.
LEMMA InvBegins == Init => Inv
BY Parameters, StreamBegins, TableBegins, LogBegins DEF Init, Inv

\* One part takes a step while the others stay.
LEMMA InvKept == Inv /\ [Next]_vars => Inv'
<1> SUFFICES ASSUME Inv, [Next]_vars PROVE Inv'
  OBVIOUS
<1>1. part \in Parts /\ StreamInv /\ TableInv /\ LogInv
  BY DEF Inv
<1>2. CASE StreamRuns(Stream!Next)
  <2>1. Stream!Next /\ UNCHANGED <<part, listenVars>> /\ UNCHANGED logVars /\ part' = part
    BY <1>2 DEF StreamRuns
  <2> QED
    BY <1>1, <2>1, Parameters, StreamKept, TableStays, LogStays DEF Inv
<1>3. CASE TableRuns(Table!Next)
  <2>1. UNCHANGED streamVars /\ UNCHANGED logVars /\ part' = part
    BY <1>3 DEF TableRuns
  <2> QED
    BY <1>1, <1>3, <2>1, Parameters, KeptByTheTurn, TableKept, LogStays DEF Inv
<1>4. CASE LogRuns(Log!Next)
  <2>1. Log!Next /\ UNCHANGED streamVars /\ UNCHANGED <<part, listenVars>> /\ part' = part
    BY <1>4 DEF LogRuns
  <2> QED
    BY <1>1, <2>1, Parameters, KeptByTheTurn, TableStays, LogKept DEF Inv
<1>5. CASE UNCHANGED vars
  <2>1. UNCHANGED streamVars /\ UNCHANGED <<part, listenVars>> /\ UNCHANGED logVars /\ part' = part
    BY <1>5 DEF vars
  <2> QED
    BY <1>1, <2>1, Parameters, KeptByTheTurn, TableStays, LogStays DEF Inv
<1> QED
  BY <1>2, <1>3, <1>4, <1>5 DEF Next

\* The invariants of the three parts hold in every state of the composition.
THEOREM Invariant == Spec => []Inv
<1>1. Init => Inv
  BY InvBegins
<1>2. Inv /\ [Next]_vars => Inv'
  BY InvKept
<1> QED
  BY <1>1, <1>2, PTL DEF Spec

\* The variables of all parts keep their types.
THEOREM TypeCorrect == Spec => []TypeOK
<1>1. Inv => TypeOK
  BY Parameters, StreamShows DEF Inv, TypeOK, TableInv, LogInv
<1> QED
  BY <1>1, Invariant, PTL

\* A reply is shown in the order it was produced, no text twice, in chunks without a gap of
\* which only the last closes it; without text after its message, all of it is shown when
\* the loop has ended, or has noticed that the turn was cancelled.
THEOREM RepliesWhole == Spec => []ReplyWhole
<1>1. Inv => ReplyWhole
  BY Parameters, StreamShows DEF Inv, ReplyWhole
<1> QED
  BY <1>1, Invariant, PTL

\* However often a log is moved away or truncated under a listener, no line is sent that was in it
\* when the follower started, and, until a file is replaced between the look at its name and the
\* opening, they are sent in their order and none twice; a log that is copied is left out.  A user
\* whose commands come one at a time finds every listener that runs in the table.
THEOREM ListensOrdered == Spec => []ListensInOrder
<1>1. Inv => ListensInOrder
  BY Parameters, LogShows DEF Inv, ListensInOrder, TableInv, OneCommand
<1> QED
  BY <1>1, Invariant, PTL

===============================================================================
