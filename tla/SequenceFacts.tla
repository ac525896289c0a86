---------------------------- MODULE SequenceFacts ----------------------------
(***************************************************************************)
(* Facts about sequences that proofs about several modules need: steps     *)
(* made one after the other, sequences that are put together, and what     *)
(* has been put into a channel and not been taken.                         *)
(***************************************************************************)
EXTENDS Naturals, Sequences, WellFoundedInduction, TLAPS

Sequence == INSTANCE SequencesExt

-------------------------------------------------------------------------------
(* Induction *)

\* A set of naturals with 0 and every successor has all of them.
LEMMA SetInduction ==
  ASSUME NEW S \in SUBSET Nat, 0 \in S, \A n \in S : n + 1 \in S
  PROVE  S = Nat
<1> DEFINE T == Nat \ S
           R == OpToRel(<, Nat)
<1> SUFFICES ASSUME T # {} PROVE FALSE
  OBVIOUS
<1>1. IsWellFoundedOn(R, Nat)
  BY NatLessThanWellFounded
<1>2. \A x, y \in Nat : x < y => <<x, y>> \in R
  BY DEF OpToRel
<1>3. T \subseteq Nat
  OBVIOUS
<1> HIDE DEF T, R
<1>4. PICK n \in T : \A m \in T : ~ (<<m, n>> \in R)
  BY <1>1, <1>3, WFMin
<1>5. n \in Nat /\ n \notin S
  BY DEF T
<1>6. n # 0 /\ n - 1 \in Nat /\ n - 1 < n /\ (n - 1) + 1 = n
  BY <1>5
<1>7. n - 1 \notin S
  BY <1>5, <1>6
<1> QED
  BY <1>2, <1>4, <1>6, <1>7 DEF T

\* Steps g[1], ..., g[n], one after the other.
LEMMA Iterate ==
  ASSUME NEW X, NEW x0 \in X, NEW n \in Nat, NEW g \in [1 .. n -> [X -> X]]
  PROVE  \E F \in [0 .. n -> X] : F[0] = x0 /\ \A i \in 1 .. n : F[i] = g[i][F[i - 1]]
<1> DEFINE Upto(m) == \E F \in [0 .. m -> X] : F[0] = x0 /\ \A i \in 1 .. m : F[i] = g[i][F[i - 1]]
           S == {m \in Nat : m <= n => Upto(m)}
<1>1. 0 \in S
  <2> DEFINE F == [i \in 0 .. 0 |-> x0]
  <2>1. F \in [0 .. 0 -> X] /\ F[0] = x0 /\ \A i \in 1 .. 0 : F[i] = g[i][F[i - 1]]
    OBVIOUS
  <2> HIDE DEF F
  <2>2. Upto(0)
    BY <2>1
  <2> QED
    BY <2>2
<1>2. ASSUME NEW m \in S PROVE m + 1 \in S
  <2>0. m \in Nat /\ m + 1 \in Nat /\ (m + 1 <= n => m <= n)
    OBVIOUS
  <2> SUFFICES ASSUME m + 1 <= n PROVE Upto(m + 1)
    BY <2>0
  <2>1. m \in Nat /\ Upto(m)
    BY <2>0
  <2>2. PICK F \in [0 .. m -> X] : F[0] = x0 /\ \A i \in 1 .. m : F[i] = g[i][F[i - 1]]
    BY <2>1
  <2> DEFINE G == [i \in 0 .. m + 1 |-> IF i = m + 1 THEN g[m + 1][F[m]] ELSE F[i]]
  <2>3. g[m + 1][F[m]] \in X
    BY <2>1
  <2>4. G \in [0 .. m + 1 -> X]
    BY <2>1, <2>3
  <2>5. G[0] = x0 /\ \A i \in 1 .. m + 1 : G[i] = g[i][G[i - 1]]
    BY <2>1, <2>2
  <2> QED
    BY <2>4, <2>5
<1>3. S = Nat
  <2> HIDE DEF S
  <2>1. S \subseteq Nat
    BY DEF S
  <2> QED
    BY <1>1, <1>2, <2>1, SetInduction
<1> QED
  BY <1>3
-------------------------------------------------------------------------------
(* Sequences of sequences *)

\* F[i] is what the first i of the sequences s make up.
Flat(E, s, F) ==
  /\ F \in [0 .. Len(s) -> Seq(E)] /\ F[0] = <<>>
  /\ \A i \in 1 .. Len(s) : F[i] = F[i - 1] \o s[i]

\* g is a sequence of n functions on X.
Steps(X, e, n, g) == e \in X /\ n \in Nat /\ g \in [1 .. n -> [X -> X]]
\* F[i] is what the first i of the functions make of e.
Iterates(X, e, n, g) == \E F \in [0 .. n -> X] : F[0] = e /\ \A i \in 1 .. n : F[i] = g[i][F[i - 1]]

\* Functions can be applied one after the other.
LEMMA Iterated == ASSUME NEW X, NEW e, NEW n, NEW g, Steps(X, e, n, g) PROVE Iterates(X, e, n, g)
<1>1. e \in X /\ n \in Nat /\ g \in [1 .. n -> [X -> X]]
  BY DEF Steps
<1>2. \E F \in [0 .. n -> X] : F[0] = e /\ \A i \in 1 .. n : F[i] = g[i][F[i - 1]]
  BY <1>1, Iterate
<1> QED
  BY <1>2 DEF Iterates

\* What the first of some sequences make up exists.
LEMMA FlatIs == ASSUME NEW E, NEW s \in Seq(Seq(E)) PROVE \E F : Flat(E, s, F)
<1> DEFINE X == Seq(E)
           e == <<>>
           n == Len(s)
           g == [i \in 1 .. n |-> [x \in X |-> x \o s[i]]]
<1>1. n \in Nat /\ e \in X
  OBVIOUS
<1>2. \A i \in 1 .. n : s[i] \in X
  OBVIOUS
<1>3. g \in [1 .. n -> [X -> X]]
  BY <1>2
<1>4. \A i \in 1 .. n : \A x \in X : g[i][x] = x \o s[i]
  OBVIOUS
<1> HIDE DEF g, n, X, e
<1>10. \E F \in [0 .. n -> X] : F[0] = e /\ \A i \in 1 .. n : F[i] = g[i][F[i - 1]]
  <2>1. Steps(X, e, n, g)
    BY <1>1, <1>3 DEF Steps
  <2>2. Iterates(X, e, n, g)
    BY <2>1, Iterated
  <2> QED
    BY <2>2 DEF Iterates
<1>5. PICK F \in [0 .. n -> X] : F[0] = e /\ \A i \in 1 .. n : F[i] = g[i][F[i - 1]]
  BY <1>10
<1>6. \A i \in 1 .. n : i - 1 \in 0 .. n /\ F[i - 1] \in X
  BY <1>1
<1>7. \A i \in 1 .. n : F[i] = F[i - 1] \o s[i]
  BY <1>4, <1>5, <1>6
<1>8. Flat(E, s, F)
  BY <1>5, <1>7 DEF Flat, X, e, n
<1> QED
  BY <1>8

\* FlattenSeq returns what all of the sequences make up.
LEMMA FlattenIs ==
  ASSUME NEW E, NEW s \in Seq(Seq(E)), NEW F, Flat(E, s, F)
  PROVE  Sequence!FlattenSeq(s) = F[Len(s)]
<1> DEFINE n == Len(s)
           Rec(G) == [i \in 1 .. n |-> IF i = 1 THEN s[i] ELSE G[i - 1] \o s[i]]
           flatten == CHOOSE G : G = Rec(G)
<1>1. CASE n = 0
  <2>1. Sequence!FlattenSeq(s) = s
    BY <1>1 DEF Sequence!FlattenSeq
  <2>2. s = <<>>
    BY <1>1
  <2> QED
    BY <1>1, <2>1, <2>2 DEF Flat
<1>2. CASE n # 0
  <2>0. n \in Nat /\ \A i \in 1 .. n : s[i] \in Seq(E) /\ F[i] \in Seq(E) /\ F[i] = F[i - 1] \o s[i]
    <3>1. n \in Nat /\ \A i \in 1 .. n : s[i] \in Seq(E)
      OBVIOUS
    <3>2. \A i \in 1 .. n : i \in 0 .. n
      OBVIOUS
    <3>3. F \in [0 .. n -> Seq(E)] /\ \A i \in 1 .. n : F[i] = F[i - 1] \o s[i]
      BY DEF Flat
    <3> QED
      BY <3>1, <3>2, <3>3
  <2>1. Sequence!FlattenSeq(s) = flatten[n]
    BY <1>2 DEF Sequence!FlattenSeq
  <2>2. F[1] = s[1]
    <3>1. 1 \in 1 .. n /\ 1 - 1 = 0
      BY <1>2, <2>0
    <3>2. F[1] = F[0] \o s[1] /\ F[0] = <<>>
      BY <2>0, <3>1, SMTT(60) DEF Flat
    <3> QED
      BY <2>0, <3>1, <3>2
  <2>3. flatten = Rec(flatten)
    <3> DEFINE G == [i \in 1 .. n |-> F[i]]
    <3>1. \A i \in 1 .. n : i # 1 => i - 1 \in 1 .. n
      BY <2>0
    <3>2. \A i \in 1 .. n : G[i] = IF i = 1 THEN s[i] ELSE G[i - 1] \o s[i]
      BY <2>0, <2>2, <3>1
    <3>3. G = Rec(G)
      BY <3>2
    <3> QED
      BY <3>3, Zenon
  <2>4. \A i \in 1 .. n : flatten[i] = IF i = 1 THEN s[i] ELSE flatten[i - 1] \o s[i]
    <3> DEFINE r == Rec(flatten)
    <3>1. \A i \in 1 .. n : r[i] = IF i = 1 THEN s[i] ELSE flatten[i - 1] \o s[i]
      BY SMTT(60)
    <3>2. r = flatten
      BY <2>3, Zenon
    <3> HIDE DEF r, flatten
    <3> QED
      BY <3>1, <3>2
  <2> HIDE DEF flatten
  <2> DEFINE S == {m \in Nat : m \in 1 .. n => flatten[m] = F[m]}
  <2>5. 0 \in S
    OBVIOUS
  <2>6. ASSUME NEW m \in S PROVE m + 1 \in S
    <3> SUFFICES ASSUME m + 1 \in 1 .. n PROVE flatten[m + 1] = F[m + 1]
      OBVIOUS
    <3>1. CASE m = 0
      BY <2>2, <2>4, <3>1
    <3>2. CASE m # 0
      <4>1. m \in 1 .. n /\ (m + 1) - 1 = m /\ m + 1 # 1
        BY <2>0, <3>2
      <4>2. flatten[m] = F[m]
        BY <4>1
      <4>3. flatten[m + 1] = flatten[(m + 1) - 1] \o s[m + 1]
        BY <2>4, <4>1
      <4>4. F[m + 1] = F[(m + 1) - 1] \o s[m + 1]
        BY <2>0
      <4> QED
        BY <4>1, <4>2, <4>3, <4>4
    <3> QED
      BY <3>1, <3>2
  <2>7. S = Nat
    <3> HIDE DEF S
    <3>1. S \subseteq Nat
      BY DEF S
    <3> QED
      BY <2>5, <2>6, <3>1, SetInduction
  <2>8. n \in Nat /\ n \in 1 .. n
    BY <1>2, <2>0
  <2>9. n \in S
    BY <2>7, <2>8, Zenon
  <2>10. flatten[n] = F[n]
    BY <2>8, <2>9
  <2> QED
    BY <2>1, <2>10
<1> QED
  BY <1>1, <1>2

\* Concatenation.
LEMMA Associates ==
  ASSUME NEW E, NEW a \in Seq(E), NEW b \in Seq(E), NEW c \in Seq(E)
  PROVE  (a \o b) \o c = a \o (b \o c)
OBVIOUS

\* The parts of two sequences after each other.
LEMMA JoinParts ==
  ASSUME NEW E, NEW a \in Seq(E), NEW b \in Seq(E)
  PROVE  /\ a \o b \in Seq(E) /\ Len(a \o b) = Len(a) + Len(b) /\ Len(a) \in Nat /\ Len(b) \in Nat
         /\ \A i \in 1 .. Len(a) : (a \o b)[i] = a[i]
         /\ \A i \in 1 .. Len(b) : (a \o b)[Len(a) + i] = b[i]
OBVIOUS

\* What is made up of two sequences of sequences.
LEMMA FlattenJoin ==
  ASSUME NEW E, NEW a \in Seq(Seq(E)), NEW b \in Seq(Seq(E))
  PROVE  /\ Sequence!FlattenSeq(a \o b) = Sequence!FlattenSeq(a) \o Sequence!FlattenSeq(b)
         /\ Sequence!FlattenSeq(a) \in Seq(E) /\ Sequence!FlattenSeq(b) \in Seq(E)
<1> DEFINE c == a \o b
           n == Len(a)
           m == Len(b)
<1>1. /\ c \in Seq(Seq(E)) /\ Len(c) = n + m /\ n \in Nat /\ m \in Nat
      /\ \A i \in 1 .. n : c[i] = a[i]
      /\ \A i \in 1 .. m : c[n + i] = b[i]
  BY JoinParts
<1> HIDE DEF c
<1>2. PICK H : Flat(E, c, H)
  BY <1>1, FlatIs
<1>3. PICK K : Flat(E, b, K)
  BY FlatIs
<1>h. /\ H \in [0 .. n + m -> Seq(E)] /\ H[0] = <<>>
      /\ \A i \in 1 .. n + m : H[i] = H[i - 1] \o c[i]
  BY <1>1, <1>2 DEF Flat
<1>k. /\ K \in [0 .. m -> Seq(E)] /\ K[0] = <<>>
      /\ \A i \in 1 .. m : K[i] = K[i - 1] \o b[i]
  BY <1>3 DEF Flat
<1> DEFINE F == [i \in 0 .. n |-> H[i]]
<1>4. Flat(E, a, F)
  <2>a. \A i \in 0 .. n : i \in 0 .. n + m
    BY <1>1
  <2>1. \A i \in 0 .. n : H[i] \in Seq(E)
    BY <1>h, <2>a
  <2>2. \A i \in 1 .. n : H[i] = H[i - 1] \o c[i] /\ i - 1 \in 0 .. n /\ i \in 0 .. n
    <3>1. \A i \in 1 .. n : i \in 1 .. n + m /\ i - 1 \in 0 .. n /\ i \in 0 .. n
      BY <1>1
    <3> QED
      BY <1>h, <3>1
  <2>3. H[0] = <<>> /\ 0 \in 0 .. n
    BY <1>1, <1>h
  <2> QED
    BY <1>1, <2>1, <2>2, <2>3 DEF Flat
<1>5. H[n] \in Seq(E) /\ Sequence!FlattenSeq(a) = H[n]
  <2>1. n \in 0 .. n /\ n \in 0 .. n + m /\ H[n] \in Seq(E) /\ F[n] = H[n]
    <3>1. n \in 0 .. n /\ n \in 0 .. n + m
      BY <1>1
    <3> QED
      BY <1>h, <3>1
  <2>2. Sequence!FlattenSeq(a) = F[n]
    <3> HIDE DEF F
    <3> QED
      BY <1>4, FlattenIs
  <2> QED
    BY <2>1, <2>2
<1>6. Sequence!FlattenSeq(b) = K[m] /\ Sequence!FlattenSeq(c) = H[n + m] /\ K[m] \in Seq(E)
  <2>1. Sequence!FlattenSeq(b) = K[m]
    BY <1>3, FlattenIs
  <2>2. Sequence!FlattenSeq(c) = H[n + m]
    BY <1>1, <1>2, FlattenIs
  <2>3. m \in 0 .. m
    BY <1>1
  <2> QED
    BY <1>k, <2>1, <2>2, <2>3
<1> DEFINE Q(i) == i <= m => H[n + i] = H[n] \o K[i]
           S == {i \in Nat : Q(i)}
<1>7. 0 \in S
  <2>1. H[n] \o K[0] = H[n] /\ n + 0 = n
    BY <1>1, <1>k, <1>5
  <2> QED
    BY <2>1
<1>8. ASSUME NEW i \in S PROVE i + 1 \in S
  <2>b. i \in Nat /\ i + 1 \in Nat /\ Q(i)
    <3> HIDE DEF Q
    <3> QED
      OBVIOUS
  <2>0. i \in Nat /\ i + 1 \in Nat /\ (i <= m => H[n + i] = H[n] \o K[i])
    BY <2>b
  <2> SUFFICES ASSUME i + 1 <= m PROVE H[n + (i + 1)] = H[n] \o K[i + 1]
    BY <2>0
  <2>a. i <= m /\ i \in 0 .. m /\ i + 1 \in 1 .. m /\ (i + 1) - 1 = i
    BY <1>1, <2>0
  <2>1. i \in Nat /\ H[n + i] = H[n] \o K[i]
    BY <2>0, <2>a
  <2>2. K[i + 1] = K[i] \o b[i + 1] /\ K[i] \in Seq(E) /\ b[i + 1] \in Seq(E)
    <3>1. K[i + 1] = K[(i + 1) - 1] \o b[i + 1] /\ K[i] \in Seq(E)
      BY <1>k, <2>a
    <3>2. b[i + 1] \in Seq(E)
      BY <2>a
    <3> QED
      BY <2>a, <3>1, <3>2
  <2>3. H[n + (i + 1)] = H[n + i] \o b[i + 1]
    <3>1. n + (i + 1) \in 1 .. Len(c) /\ (n + (i + 1)) - 1 = n + i /\ c[n + (i + 1)] = b[i + 1]
      BY <1>1, <2>0, <2>a
    <3>2. n + (i + 1) \in 1 .. n + m
      BY <1>1, <3>1
    <3>3. H[n + (i + 1)] = H[(n + (i + 1)) - 1] \o c[n + (i + 1)]
      BY <1>h, <3>2
    <3> QED
      BY <3>1, <3>3
  <2>4. H[n + (i + 1)] = (H[n] \o K[i]) \o b[i + 1]
    BY <2>1, <2>3
  <2>5. (H[n] \o K[i]) \o b[i + 1] = H[n] \o (K[i] \o b[i + 1])
    <3> DEFINE x == H[n]
               y == K[i]
               z == b[i + 1]
    <3>1. x \in Seq(E) /\ y \in Seq(E) /\ z \in Seq(E)
      BY <1>5, <2>2
    <3> HIDE DEF x, y, z
    <3>2. (x \o y) \o z = x \o (y \o z)
      BY <3>1, Associates, SMTT(60)
    <3> QED
      BY <3>2 DEF x, y, z
  <2> QED
    BY <2>2, <2>4, <2>5
<1>9. S = Nat
  <2> HIDE DEF S
  <2>1. S \subseteq Nat
    BY DEF S
  <2> QED
    BY <1>7, <1>8, <2>1, SetInduction
<1>10. H[n + m] = H[n] \o K[m]
  <2> DEFINE mm == m
  <2>1. mm \in S
    BY <1>1, <1>9
  <2>2. mm <= m
    BY <1>1
  <2> HIDE DEF mm
  <2>3. H[n + mm] = H[n] \o K[mm]
    BY <2>1, <2>2
  <2> QED
    BY <2>3 DEF mm
<1> QED
  BY <1>5, <1>6, <1>10 DEF c

\* None and one sequence, flattened.
LEMMA FlattenFew ==
  ASSUME NEW E, NEW t \in Seq(E)
  PROVE  Sequence!FlattenSeq(<<>>) = <<>> /\ Sequence!FlattenSeq(<<t>>) = t
<1>1. Sequence!FlattenSeq(<<>>) = <<>>
  BY DEF Sequence!FlattenSeq
<1> DEFINE s == <<t>>
           F == [i \in 0 .. 1 |-> IF i = 0 THEN <<>> ELSE t]
<1>2. s \in Seq(Seq(E)) /\ Len(s) = 1 /\ s[1] = t
  OBVIOUS
<1>3. F \in [0 .. 1 -> Seq(E)] /\ F[0] = <<>> /\ F[1] = t
  OBVIOUS
<1> HIDE DEF s, F
<1>4. <<>> \o t = t
  OBVIOUS
<1>5. Flat(E, s, F)
  BY <1>2, <1>3, <1>4 DEF Flat
<1>6. Sequence!FlattenSeq(s) = t
  BY <1>2, <1>3, <1>5, FlattenIs
<1> QED
  BY <1>1, <1>6 DEF s

-------------------------------------------------------------------------------
(* What each element of a sequence stands for, put together *)

Each(f, s) == Sequence!FlattenSeq([i \in 1 .. Len(s) |-> f[s[i]]])

\* What Each returns: nothing for no element, and for one its own.
LEMMA EachIs ==
  ASSUME NEW D, NEW E, NEW f \in [D -> Seq(E)], NEW s \in Seq(D)
  PROVE  /\ Each(f, s) \in Seq(E) /\ Each(f, <<>>) = <<>>
         /\ \A d \in D : Each(f, Append(s, d)) = Each(f, s) \o f[d]
<1> DEFINE M(t) == [i \in 1 .. Len(t) |-> f[t[i]]]
<1>1. ASSUME NEW t \in Seq(D) PROVE M(t) \in Seq(Seq(E))
  OBVIOUS
<1>2. ASSUME NEW t \in Seq(D) PROVE Each(f, t) \in Seq(E)
  <2>1. <<>> \in Seq(Seq(E))
    OBVIOUS
  <2> QED
    BY <1>1, <2>1, FlattenJoin DEF Each
<1>3. ASSUME NEW d \in D PROVE Sequence!FlattenSeq(<<f[d]>>) = f[d]
  BY FlattenFew
<1>4. Each(f, <<>>) = <<>>
  <2>1. M(<<>>) = <<>>
    OBVIOUS
  <2>2. <<>> \in Seq(E)
    OBVIOUS
  <2> HIDE DEF M
  <2>3. Sequence!FlattenSeq(<<>>) = <<>>
    BY <2>2, FlattenFew
  <2> QED
    BY <2>1, <2>3 DEF Each, M
<1>5. ASSUME NEW d \in D PROVE Each(f, Append(s, d)) = Each(f, s) \o f[d]
  <2>1. M(Append(s, d)) = M(s) \o <<f[d]>>
    OBVIOUS
  <2>2. M(s) \in Seq(Seq(E)) /\ <<f[d]>> \in Seq(Seq(E))
    OBVIOUS
  <2> HIDE DEF M
  <2>3. Sequence!FlattenSeq(M(s) \o <<f[d]>>) = Sequence!FlattenSeq(M(s)) \o f[d]
    BY <2>2, <1>3, FlattenJoin, ZenonT(60)
  <2> QED
    BY <2>1, <2>3 DEF Each, M
<1> QED
  BY <1>2, <1>4, <1>5

\* The first of them.
LEMMA EachFirst ==
  ASSUME NEW D, NEW E, NEW f \in [D -> Seq(E)], NEW r \in Seq(D)
  PROVE  \A h \in D : Each(f, <<h>> \o r) = f[h] \o Each(f, r)
<1> SUFFICES ASSUME NEW h \in D PROVE Each(f, <<h>> \o r) = f[h] \o Each(f, r)
  OBVIOUS
<1> DEFINE M(t) == [i \in 1 .. Len(t) |-> f[t[i]]]
           s == <<h>> \o r
<1>0. ASSUME NEW d \in D PROVE Sequence!FlattenSeq(<<f[d]>>) = f[d]
  BY FlattenFew
<1>1. /\ h \in D /\ r \in Seq(D) /\ s \in Seq(D)
      /\ Len(s) = Len(r) + 1 /\ s[1] = h /\ \A i \in 1 .. Len(r) : s[i + 1] = r[i]
  OBVIOUS
<1> HIDE DEF s
<1>2. M(s) = <<f[h]>> \o M(r)
  <2> DEFINE x == <<f[h]>> \o M(r)
  <2>1. M(s) \in Seq(Seq(E)) /\ Len(M(s)) = Len(r) + 1 /\ \A i \in 1 .. Len(r) + 1 : M(s)[i] = f[s[i]]
    BY <1>1
  <2>2. M(r) \in Seq(Seq(E)) /\ Len(M(r)) = Len(r) /\ \A i \in 1 .. Len(r) : M(r)[i] = f[r[i]]
    BY <1>1
  <2> HIDE DEF M
  <2>3. f[h] \in Seq(E)
    BY <1>1
  <2>4. x \in Seq(Seq(E)) /\ Len(x) = Len(r) + 1 /\ x[1] = f[h] /\ \A i \in 1 .. Len(r) : x[i + 1] = f[r[i]]
    <3> DEFINE m == M(r)
    <3>1. m \in Seq(Seq(E)) /\ Len(m) = Len(r) /\ \A i \in 1 .. Len(r) : m[i] = f[r[i]]
      BY <2>2
    <3> HIDE DEF m
    <3>2. /\ <<f[h]>> \o m \in Seq(Seq(E)) /\ Len(<<f[h]>> \o m) = Len(m) + 1 /\ (<<f[h]>> \o m)[1] = f[h]
          /\ \A i \in 1 .. Len(m) : (<<f[h]>> \o m)[i + 1] = m[i]
      BY <2>3, <3>1
    <3> QED
      BY <3>1, <3>2 DEF m
  <2> HIDE DEF x
  <2>5. ASSUME NEW i \in 1 .. Len(r) + 1 PROVE M(s)[i] = x[i]
    <3>1. CASE i = 1
      BY <1>1, <2>1, <2>4, <3>1
    <3>2. CASE i # 1
      <4>1. i - 1 \in 1 .. Len(r) /\ (i - 1) + 1 = i
        BY <1>1, <3>2
      <4>2. s[i] = r[i - 1] /\ x[i] = f[r[i - 1]]
        BY <1>1, <2>4, <4>1, Zenon
      <4>3. M(s)[i] = f[s[i]]
        BY <2>1
      <4> QED
        BY <4>2, <4>3
    <3> QED
      BY <3>1, <3>2
  <2>6. M(s) = x
    BY <2>1, <2>4, <2>5
  <2> QED
    BY <2>6 DEF x
<1>3. M(r) \in Seq(Seq(E)) /\ <<f[h]>> \in Seq(Seq(E))
  BY <1>1, SMTT(60)
<1> HIDE DEF M
<1>4. Sequence!FlattenSeq(<<f[h]>> \o M(r)) = f[h] \o Sequence!FlattenSeq(M(r))
  BY <1>1, <1>3, <1>0, FlattenJoin, ZenonT(60)
<1>5. Each(f, s) = f[h] \o Each(f, r)
  BY <1>2, <1>4 DEF Each, M
<1> QED
  BY <1>5 DEF s

-------------------------------------------------------------------------------
(* The end of a sequence *)

\* A suffix, element by element.
EndsWith(s, t) == Len(s) <= Len(t) /\ \A i \in 1 .. Len(s) : s[(Len(s) - i) + 1] = t[(Len(t) - i) + 1]

\* IsSuffix says what EndsWith does.
LEMMA SuffixIs ==
  ASSUME NEW E, NEW s \in Seq(E), NEW t \in Seq(E)
  PROVE  Sequence!IsSuffix(s, t) <=> EndsWith(s, t)
<1> DEFINE r == Sequence!Reverse(s)
           q == Sequence!Reverse(t)
<1>1. /\ r \in Seq(E) /\ Len(r) = Len(s) /\ \A i \in 1 .. Len(s) : r[i] = s[(Len(s) - i) + 1]
      /\ q \in Seq(E) /\ Len(q) = Len(t) /\ \A i \in 1 .. Len(t) : q[i] = t[(Len(t) - i) + 1]
  BY DEF Sequence!Reverse
<1>2. Sequence!IsSuffix(s, t) <=> Len(r) <= Len(q) /\ SubSeq(r, 1, Len(r)) = SubSeq(q, 1, Len(r))
  BY DEF Sequence!IsSuffix, Sequence!IsPrefix
<1> HIDE DEF r, q
<1>3. ASSUME Len(r) <= Len(q)
      PROVE  SubSeq(r, 1, Len(r)) = SubSeq(q, 1, Len(r)) <=> \A i \in 1 .. Len(r) : r[i] = q[i]
  BY <1>1, <1>3
<1>4. ASSUME Len(r) <= Len(q)
      PROVE  (\A i \in 1 .. Len(r) : r[i] = q[i]) <=> \A i \in 1 .. Len(s) : s[(Len(s) - i) + 1] = t[(Len(t) - i) + 1]
  <2>1. \A i \in 1 .. Len(s) : r[i] = s[(Len(s) - i) + 1] /\ q[i] = t[(Len(t) - i) + 1]
    BY <1>1, <1>4
  <2>2. Len(r) = Len(s)
    BY <1>1
  <2>3. ASSUME \A i \in 1 .. Len(r) : r[i] = q[i], NEW i \in 1 .. Len(s)
        PROVE  s[(Len(s) - i) + 1] = t[(Len(t) - i) + 1]
    <3>1. i \in 1 .. Len(r) /\ i \in 1 .. Len(s)
      BY <2>2
    <3>2. r[i] = q[i]
      BY ONLY <2>3, <3>1, Zenon
    <3> QED
      BY ONLY <2>1, <3>1, <3>2, Zenon
  <2>4. ASSUME \A i \in 1 .. Len(s) : s[(Len(s) - i) + 1] = t[(Len(t) - i) + 1], NEW i \in 1 .. Len(r)
        PROVE  r[i] = q[i]
    <3>1. i \in 1 .. Len(s)
      BY <2>2
    <3> QED
      BY ONLY <2>1, <2>4, <3>1, Zenon
  <2> QED
    BY <2>3, <2>4
<1>5. Len(r) = Len(s) /\ Len(q) = Len(t)
  BY <1>1
<1> QED
  BY <1>2, <1>3, <1>4, <1>5 DEF EndsWith

\* A suffix stays one when the same is appended, and when it loses its first element.
LEMMA SuffixKept ==
  ASSUME NEW E, NEW s \in Seq(E), NEW t \in Seq(E), Sequence!IsSuffix(s, t)
  PROVE  /\ \A e \in E : Sequence!IsSuffix(Append(s, e), Append(t, e))
         /\ s # <<>> => Sequence!IsSuffix(Tail(s), t)
         /\ t = <<>> => s = <<>>
<1>1. Len(s) <= Len(t) /\ \A i \in 1 .. Len(s) : s[(Len(s) - i) + 1] = t[(Len(t) - i) + 1]
  BY SuffixIs DEF EndsWith
<1>2. ASSUME NEW e \in E PROVE Sequence!IsSuffix(Append(s, e), Append(t, e))
  <2> DEFINE a == Append(s, e)
             b == Append(t, e)
  <2>1. /\ a \in Seq(E) /\ Len(a) = Len(s) + 1 /\ b \in Seq(E) /\ Len(b) = Len(t) + 1
        /\ a[Len(s) + 1] = e /\ b[Len(t) + 1] = e
        /\ \A i \in 1 .. Len(s) : a[i] = s[i]
        /\ \A i \in 1 .. Len(t) : b[i] = t[i]
    OBVIOUS
  <2>a. a \in Seq(E) /\ b \in Seq(E)
    BY <2>1
  <2> HIDE DEF a, b
  <2>2. ASSUME NEW i \in 1 .. Len(a) PROVE a[(Len(a) - i) + 1] = b[(Len(b) - i) + 1]
    <3>1. CASE i = 1
      BY <2>1, <3>1
    <3>2. CASE i # 1
      <4> DEFINE j == (Len(s) - (i - 1)) + 1
                 k == (Len(t) - (i - 1)) + 1
      <4>1. /\ i - 1 \in 1 .. Len(s) /\ j \in 1 .. Len(s) /\ k \in 1 .. Len(t)
            /\ (Len(a) - i) + 1 = j /\ (Len(b) - i) + 1 = k
        BY <1>1, <2>1, <3>2
      <4>2. s[j] = t[k]
        BY <1>1, <4>1
      <4> HIDE DEF j, k
      <4>3. a[j] = s[j] /\ b[k] = t[k]
        BY <2>1, <4>1
      <4> QED
        BY <4>1, <4>2, <4>3
    <3> QED
      BY <3>1, <3>2
  <2>3. Len(a) <= Len(b)
    BY <1>1, <2>1
  <2>4. EndsWith(a, b)
    BY <2>2, <2>3, Zenon DEF EndsWith
  <2>5. Sequence!IsSuffix(a, b)
    BY <2>a, <2>4, SuffixIs, Zenon
  <2> QED
    BY <2>5 DEF a, b
<1>3. ASSUME s # <<>> PROVE Sequence!IsSuffix(Tail(s), t)
  <2> DEFINE a == Tail(s)
  <2>1. a \in Seq(E) /\ Len(a) = Len(s) - 1 /\ \A i \in 1 .. Len(a) : a[i] = s[i + 1]
    BY <1>3
  <2>a. a \in Seq(E)
    BY <2>1
  <2> HIDE DEF a
  <2>2. ASSUME NEW i \in 1 .. Len(a) PROVE a[(Len(a) - i) + 1] = t[(Len(t) - i) + 1]
    <3>1. i \in 1 .. Len(s) /\ (Len(a) - i) + 1 \in 1 .. Len(a) /\ ((Len(a) - i) + 1) + 1 = (Len(s) - i) + 1
      BY <2>1
    <3> QED
      BY <1>1, <2>1, <3>1, SMTT(60)
  <2>3. Len(a) <= Len(t)
    BY <1>1, <2>1
  <2>4. EndsWith(a, t)
    BY <2>2, <2>3, Zenon DEF EndsWith
  <2>5. Sequence!IsSuffix(a, t)
    BY <2>a, <2>4, SuffixIs, Zenon
  <2> QED
    BY <2>5 DEF a
<1>4. t = <<>> => s = <<>>
  BY <1>1
<1> QED
  BY <1>2, <1>3, <1>4

\* A prefix of a sequence is one of what continues it.
LEMMA PrefixKept ==
  ASSUME NEW E, NEW s \in Seq(E), NEW t \in Seq(E), Sequence!IsPrefix(s, t), NEW e \in E
  PROVE  Sequence!IsPrefix(s, Append(t, e))
BY DEF Sequence!IsPrefix
\* Nothing is a prefix of every sequence.
LEMMA PrefixOfNone == ASSUME NEW E, NEW s \in Seq(E) PROVE Sequence!IsPrefix(<<>>, s)
BY DEF Sequence!IsPrefix
\* A sequence is a prefix of itself.
LEMMA PrefixItself == ASSUME NEW E, NEW s \in Seq(E) PROVE Sequence!IsPrefix(s, s)
BY DEF Sequence!IsPrefix

\* A sequence with an element more.
LEMMA Appended ==
  ASSUME NEW E, NEW s \in Seq(E), NEW x \in E
  PROVE  /\ Append(s, x) \in Seq(E) /\ Len(Append(s, x)) = Len(s) + 1 /\ Len(s) \in Nat
         /\ \A i \in 1 .. Len(s) : Append(s, x)[i] = s[i]
         /\ Append(s, x)[Len(s) + 1] = x
OBVIOUS
\* The first element of a sequence and the rest of it.
LEMMA FirstAndRest ==
  ASSUME NEW E, NEW s \in Seq(E), s # <<>>
  PROVE  /\ Head(s) \in E /\ Head(s) = s[1] /\ Tail(s) \in Seq(E) /\ Len(Tail(s)) = Len(s) - 1
         /\ Len(s) \in Nat /\ Len(s) > 0
         /\ \A i \in 1 .. Len(s) - 1 : Tail(s)[i] = s[i + 1]
OBVIOUS
\* A sequence of one element.
LEMMA OnlyElement ==
  ASSUME NEW E, NEW s \in Seq(E), Len(s) = 1
  PROVE  /\ s[1] \in E /\ Head(s) = s[1] /\ s = <<s[1]>> /\ s # <<>>
         /\ Tail(s) = <<>>
<1>1. s[1] \in E /\ Head(s) = s[1] /\ s # <<>> /\ s = <<s[1]>>
  OBVIOUS
<1>2. Tail(s) \in Seq(E) /\ Len(Tail(s)) = 0
  BY <1>1
<1>3. ASSUME NEW r \in Seq(E), Len(r) = 0 PROVE r = <<>>
  BY <1>3
<1> QED
  BY <1>1, <1>2, <1>3

\* Short ones.
LEMMA FewElements ==
  ASSUME NEW E
  PROVE  /\ <<>> \in Seq(E) /\ Len(<<>>) = 0
         /\ \A x \in E : <<x>> \in Seq(E) /\ Len(<<x>>) = 1 /\ <<x>>[1] = x
         /\ \A x, y \in E : /\ <<x, y>> \in Seq(E) /\ Len(<<x, y>>) = 2
                             /\ <<x, y>>[1] = x /\ <<x, y>>[2] = y
<1>1. <<>> \in Seq(E) /\ Len(<<>>) = 0
  OBVIOUS
<1>2. ASSUME NEW x \in E PROVE <<x>> \in Seq(E) /\ Len(<<x>>) = 1 /\ <<x>>[1] = x
  OBVIOUS
<1>3. ASSUME NEW x \in E, NEW y \in E
      PROVE  <<x, y>> \in Seq(E) /\ Len(<<x, y>>) = 2 /\ <<x, y>>[1] = x /\ <<x, y>>[2] = y
  OBVIOUS
<1> QED
  BY <1>1, <1>2, <1>3, Zenon

\* A sequence joined with one of one or two elements.
LEMMA JoinFew ==
  ASSUME NEW E, NEW s \in Seq(E), NEW x \in E
  PROVE  /\ s \o <<x>> = Append(s, x)
         /\ \A y \in E : s \o <<x, y>> = Append(Append(s, x), y)
<1>1. s \o <<x>> = Append(s, x)
  OBVIOUS
<1>2. ASSUME NEW y \in E PROVE s \o <<x, y>> = Append(Append(s, x), y)
  <2>1. Append(s, x) \in Seq(E) /\ Len(Append(s, x)) = Len(s) + 1 /\ Len(s) \in Nat
    OBVIOUS
  <2> DEFINE r == Append(Append(s, x), y)
             q == s \o <<x, y>>
  <2>2. r \in Seq(E) /\ Len(r) = Len(s) + 2 /\ \A i \in 1 .. Len(s) : r[i] = s[i]
    BY <2>1
  <2>3. r[Len(s) + 1] = x /\ r[Len(s) + 2] = y
    BY <2>1
  <2>4. <<x, y>> \in Seq(E) /\ Len(<<x, y>>) = 2 /\ <<x, y>>[1] = x /\ <<x, y>>[2] = y
    OBVIOUS
  <2>5. q \in Seq(E) /\ Len(q) = Len(s) + 2 /\ \A i \in 1 .. Len(s) : q[i] = s[i]
    BY <2>4
  <2>6. q[Len(s) + 1] = x /\ q[Len(s) + 2] = y
    BY <2>4
  <2> HIDE DEF r, q
  <2>7. \A i \in 1 .. Len(s) + 2 : r[i] = q[i]
    BY <2>1, <2>2, <2>3, <2>5, <2>6
  <2>8. r = q
    BY <2>1, <2>2, <2>5, <2>7
  <2> QED
    BY <2>8 DEF r, q
<1> QED
  BY <1>1, <1>2

=============================================================================
