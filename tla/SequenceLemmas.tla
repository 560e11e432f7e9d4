--------------------------- MODULE SequenceLemmas ---------------------------
(***************************************************************************)
(* Induction over the natural numbers, stated for a set in the place of a  *)
(* formula, and what it gives: for FlattenSeq, its laws for sequences of   *)
(* any length, and what it makes of one more, or a longer, element; for a  *)
(* function that applies steps one after the other, that there is one and  *)
(* when two of them agree.  Last, that the least closed function exists    *)
(* which a recursive definition over the subsets of a set chooses.         *)
(***************************************************************************)
EXTENDS Integers, Sequences, SequencesExt, SequenceTheorems, WellFoundedInduction, TLAPS

\* Three sequences put together do so from either side.
Regroups(s, t, u) == (s \o t) \o u = s \o (t \o u)

LEMMA ConcatRegroups ==
  \A B : \A s, t, u \in Seq(B) : Regroups(s, t, u)
BY ConcatAssociative, SMT DEF Regroups

\* A set that holds 0, and with a number the next one, holds every number.
LEMMA InductionBySet ==
  ASSUME NEW S, 0 \in S, \A n \in Nat : n \in S => n + 1 \in S
  PROVE  Nat \subseteq S
<1> SUFFICES ASSUME Nat \ S # {} PROVE FALSE
  OBVIOUS
<1> DEFINE LessThan == {ss \in Nat \X Nat : ss[1] < ss[2]}
<1>1. IsWellFoundedOn(LessThan, Nat)
  BY NatLessThanWellFounded DEF OpToRel
<1> HIDE DEF LessThan
<1>2. PICK x \in Nat \ S : \A y \in Nat \ S : ~(<<y, x>> \in LessThan)
  BY <1>1, WFMin, Zenon
<1>3. x # 0
  BY <1>2
<1>4. x - 1 \in Nat /\ <<x - 1, x>> \in LessThan
  BY <1>2, <1>3, Z3 DEF LessThan
<1>5. x - 1 \in S
  BY <1>2, <1>4
<1>6. (x - 1) + 1 \in S
  BY <1>4, <1>5
<1> QED
  BY <1>2, <1>4, <1>6

\* A function on 1..n is a sequence of n elements.
LEMMA FunctionIsSeq ==
  ASSUME NEW B, NEW n \in Nat, NEW f \in [1..n -> B]
  PROVE  f \in Seq(B) /\ Len(f) = n
OBVIOUS

\* What was put between two sequences is found there.
LEMMA SubSeqMiddle ==
  ASSUME NEW B, NEW a \in Seq(B), NEW b \in Seq(B), NEW c \in Seq(B)
  PROVE  SubSeq((a \o b) \o c, Len(a) + 1, Len(a) + Len(b)) = b
<1> DEFINE s == (a \o b) \o c
           t == SubSeq(s, Len(a) + 1, Len(a) + Len(b))
<1>1. /\ s \in Seq(B) /\ Len(s) = Len(a) + Len(b) + Len(c)
      /\ \A i \in 1..Len(b) : s[Len(a) + i] = b[i]
  OBVIOUS
<1>2. Len(a) \in Nat /\ Len(b) \in Nat /\ Len(c) \in Nat
  OBVIOUS
<1> HIDE DEF s
<1>3. Len(t) = Len(b) /\ \A i \in 1..Len(b) : t[i] = s[Len(a) + i]
  BY <1>1, <1>2
<1>4. t \in Seq(B)
  BY <1>1, <1>2
<1> HIDE DEF t
<1>5. t = b
  BY <1>1, <1>3, <1>4, SeqEqual
<1> QED
  BY <1>5 DEF t, s

LEMMA SubSeqFront ==
  ASSUME NEW B, NEW a \in Seq(B), NEW b \in Seq(B)
  PROVE  SubSeq(a \o b, 1, Len(a)) = a
<1>1. <<>> \in Seq(B) /\ <<>> \o a = a /\ Len(<<>>) = 0 /\ Len(a) \in Nat
  BY ConcatEmptySeq
<1>2. SubSeq((<<>> \o a) \o b, Len(<<>>) + 1, Len(<<>>) + Len(a)) = a
  BY <1>1, SubSeqMiddle, Zenon
<1>3. Len(<<>>) + 1 = 1 /\ Len(<<>>) + Len(a) = Len(a)
  BY <1>1
<1> QED
  BY <1>1, <1>2, <1>3

-----------------------------------------------------------------------------
(***************************************************************************)
(* FlattenSeq.                                                             *)
(***************************************************************************)
\* f holds what is put together of the first one, two, ..., n sequences of s.
FlattensUpto(f, s, n, B) ==
  /\ f \in [1..n -> Seq(B)]
  /\ n > 0 => f[1] = s[1]
  /\ \A i \in 2..n : f[i] = f[i - 1] \o s[i]

LEMMA FlattensNone ==
  ASSUME NEW B, NEW s
  PROVE  \E f : FlattensUpto(f, s, 0, B)
<1>1. FlattensUpto([i \in 1..0 |-> <<>>], s, 0, B)
  BY DEF FlattensUpto
<1> QED
  BY <1>1

LEMMA FlattensOneMore ==
  ASSUME NEW B, NEW s \in Seq(Seq(B)), NEW n \in Nat, n + 1 <= Len(s),
         NEW f, FlattensUpto(f, s, n, B)
  PROVE  \E g : FlattensUpto(g, s, n + 1, B)
<1>1. s[n + 1] \in Seq(B)
  OBVIOUS
<1> DEFINE new == IF n = 0 THEN s[1] ELSE f[n] \o s[n + 1]
           g == [i \in 1..n + 1 |-> IF i <= n THEN f[i] ELSE new]
<1>2. new \in Seq(B)
  <2>1. CASE n = 0
    BY <1>1, <2>1
  <2>2. CASE n # 0
    <3>1. f[n] \in Seq(B)
      BY <2>2 DEF FlattensUpto
    <3> QED
      BY <1>1, <2>2, <3>1, ConcatProperties
  <2> QED
    BY <2>1, <2>2
<1>3. g \in [1..n + 1 -> Seq(B)]
  <2>1. \A i \in 1..n : f[i] \in Seq(B)
    BY DEF FlattensUpto
  <2> HIDE DEF new
  <2> QED
    BY <1>2, <2>1
<1>4. g[1] = s[1]
  BY DEF FlattensUpto
<1>5. ASSUME NEW i \in 2..n + 1 PROVE g[i] = g[i - 1] \o s[i]
  <2>1. CASE i <= n
    <3>1. g[i] = f[i] /\ g[i - 1] = f[i - 1] /\ i \in 2..n
      BY <2>1
    <3> QED
      BY <3>1 DEF FlattensUpto
  <2>2. CASE i = n + 1
    <3>1. g[i] = new /\ g[i - 1] = f[n] /\ n # 0
      BY <2>2
    <3> HIDE DEF g
    <3> QED
      BY <2>2, <3>1
  <2>3. i <= n \/ i = n + 1
    OBVIOUS
  <2> HIDE DEF g, new
  <2> QED
    BY <2>1, <2>2, <2>3, Zenon
<1> HIDE DEF g
<1>6. FlattensUpto(g, s, n + 1, B)
  BY <1>3, <1>4, <1>5 DEF FlattensUpto
<1> QED
  BY <1>6

LEMMA FlattensExists ==
  ASSUME NEW B, NEW s \in Seq(Seq(B))
  PROVE  \E f : FlattensUpto(f, s, Len(s), B)
<1> DEFINE S == {n \in Nat : n <= Len(s) => \E f : FlattensUpto(f, s, n, B)}
<1>1. 0 \in S
  BY FlattensNone
<1>2. ASSUME NEW n \in Nat, n \in S PROVE n + 1 \in S
  <2>1. ASSUME n + 1 <= Len(s) PROVE \E f : FlattensUpto(f, s, n + 1, B)
    <3>1. PICK f : FlattensUpto(f, s, n, B)
      BY <1>2, <2>1
    <3> QED
      BY <2>1, <3>1, FlattensOneMore
  <2> QED
    BY <2>1
<1>3. Nat \subseteq S
  <2> HIDE DEF S
  <2> QED
    BY <1>1, <1>2, InductionBySet
<1> QED
  <2>1. Len(s) \in Nat
    OBVIOUS
  <2>2. Len(s) \in S
    BY <1>3, <2>1, Zenon
  <2> QED
    BY <2>1, <2>2

\* Two ways to put the same sequences together give the same.
LEMMA FlattensUnique ==
  ASSUME NEW B, NEW C, NEW s, NEW t, NEW n \in Nat, NEW m \in Nat, NEW f, NEW g,
         FlattensUpto(f, s, n, B), FlattensUpto(g, t, m, C),
         \A i \in 1..n : i \in 1..m => s[i] = t[i]
  PROVE  \A i \in 1..n : i \in 1..m => f[i] = g[i]
<1> DEFINE S == {k \in Nat : k \in 1..n /\ k \in 1..m => f[k] = g[k]}
<1>1. 0 \in S
  OBVIOUS
<1>2. ASSUME NEW k \in Nat, k \in S PROVE k + 1 \in S
  <2>1. ASSUME k + 1 \in 1..n, k + 1 \in 1..m PROVE f[k + 1] = g[k + 1]
    <3>1. CASE k = 0
      BY <2>1, <3>1 DEF FlattensUpto
    <3>2. CASE k # 0
      <4>1. f[k] = g[k] /\ s[k + 1] = t[k + 1]
        BY <1>2, <2>1, <3>2
      <4>2. f[k + 1] = f[k] \o s[k + 1] /\ g[k + 1] = g[k] \o t[k + 1]
        <5>1. k + 1 \in 2..n /\ k + 1 \in 2..m /\ (k + 1) - 1 = k
          BY <2>1, <3>2
        <5> HIDE DEF S
        <5> QED
          BY <5>1 DEF FlattensUpto
      <4> QED
        BY <4>1, <4>2
    <3> QED
      BY <3>1, <3>2
  <2> QED
    BY <2>1
<1>3. Nat \subseteq S
  <2> HIDE DEF S
  <2> QED
    BY <1>1, <1>2, InductionBySet
<1> QED
  <2>1. ASSUME NEW i \in 1..n, i \in 1..m PROVE f[i] = g[i]
    <3>1. i \in Nat /\ i \in S
      BY <1>3
    <3> QED
      BY <2>1, <3>1
  <2> QED
    BY <2>1

LEMMA FlattenSeqIs ==
  ASSUME NEW B, NEW s \in Seq(Seq(B)), s # <<>>,
         NEW f, FlattensUpto(f, s, Len(s), B)
  PROVE  FlattenSeq(s) = f[Len(s)]
<1> DEFINE Rec(g) == g = [i \in 1..Len(s) |-> IF i = 1 THEN s[i] ELSE g[i - 1] \o s[i]]
           h == CHOOSE g : Rec(g)
<1>1. Len(s) \in Nat /\ Len(s) # 0
  BY EmptySeq
<1>2. FlattenSeq(s) = h[Len(s)]
  BY <1>1 DEF FlattenSeq
<1>3. Rec(f)
  <2>1. DOMAIN f = 1..Len(s) /\ f = [i \in 1..Len(s) |-> f[i]]
    BY DEF FlattensUpto
  <2>2. ASSUME NEW i \in 1..Len(s)
        PROVE  f[i] = IF i = 1 THEN s[i] ELSE f[i - 1] \o s[i]
    <3>1. i = 1 \/ i \in 2..Len(s)
      BY <1>1
    <3>2. f[1] = s[1] /\ \A j \in 2..Len(s) : f[j] = f[j - 1] \o s[j]
      <4>1. Len(s) > 0
        BY <1>1
      <4> QED
        BY <4>1, Zenon DEF FlattensUpto
    <3>3. 1 \notin 2..Len(s)
      BY <1>1
    <3> QED
      BY <3>1, <3>2, <3>3, Zenon
  <2> QED
    BY <2>1, <2>2
<1>4. Rec(h)
  <2> HIDE DEF Rec
  <2> QED
    BY <1>3, Zenon
<1>5. h[1] = s[1] /\ \A i \in 2..Len(s) : h[i] = h[i - 1] \o s[i]
  <2> HIDE DEF h
  <2>1. \A i \in 1..Len(s) : h[i] = IF i = 1 THEN s[i] ELSE h[i - 1] \o s[i]
    BY <1>4, Zenon
  <2>2. 1 \in 1..Len(s) /\ \A i \in 2..Len(s) : i \in 1..Len(s) /\ i # 1
    BY <1>1
  <2> QED
    BY <2>1, <2>2, Zenon
<1> HIDE DEF h
<1> DEFINE S == {k \in Nat : k \in 1..Len(s) => f[k] = h[k]}
<1>6. 0 \in S
  OBVIOUS
<1>7. ASSUME NEW k \in Nat, k \in S PROVE k + 1 \in S
  <2>1. ASSUME k + 1 \in 1..Len(s) PROVE f[k + 1] = h[k + 1]
    <3>1. CASE k = 0
      BY <1>5, <2>1, <3>1 DEF FlattensUpto
    <3>2. CASE k # 0
      <4>1. f[k] = h[k]
        BY <1>7, <2>1, <3>2
      <4>2. k + 1 \in 2..Len(s) /\ (k + 1) - 1 = k
        BY <2>1, <3>2
      <4> HIDE DEF S
      <4>3. f[k + 1] = f[k] \o s[k + 1]
        BY <4>2 DEF FlattensUpto
      <4>4. h[k + 1] = h[k] \o s[k + 1]
        BY <4>2, <1>5
      <4> QED
        BY <4>1, <4>3, <4>4
    <3> QED
      BY <3>1, <3>2
  <2> QED
    BY <2>1
<1>8. Nat \subseteq S
  <2> HIDE DEF S
  <2> QED
    BY <1>6, <1>7, InductionBySet
<1> QED
  <2>1. Len(s) \in S
    BY <1>1, <1>8
  <2> QED
    BY <1>1, <1>2, <2>1

\* FlattenSeq gives a sequence, and what is behind the last sequence is its end.
LEMMA FlattenSeqEmpty == FlattenSeq(<<>>) = <<>>
BY DEF FlattenSeq

LEMMA FlattenSeqType ==
  ASSUME NEW B, NEW s \in Seq(Seq(B))
  PROVE  FlattenSeq(s) \in Seq(B)
<1>1. CASE s = <<>>
  <2>1. <<>> \in Seq(B)
    OBVIOUS
  <2> QED
    BY <1>1, <2>1, FlattenSeqEmpty, Zenon
<1>2. CASE s # <<>>
  <2>1. PICK f : FlattensUpto(f, s, Len(s), B)
    BY FlattensExists
  <2>2. Len(s) \in 1..Len(s)
    BY <1>2, EmptySeq
  <2>3. f[Len(s)] \in Seq(B)
    BY <2>1, <2>2 DEF FlattensUpto
  <2> QED
    BY <1>2, <2>1, <2>3, FlattenSeqIs
<1> QED
  BY <1>1, <1>2

LEMMA FlattenSeqOne ==
  ASSUME NEW B, NEW e \in Seq(B)
  PROVE  FlattenSeq(<<e>>) = e
<1>1. <<e>> \in Seq(Seq(B)) /\ <<e>> # <<>> /\ Len(<<e>>) = 1
  OBVIOUS
<1>2. PICK f : FlattensUpto(f, <<e>>, 1, B)
  BY <1>1, FlattensExists
<1>3. f[1] = e
  BY <1>2 DEF FlattensUpto
<1> QED
  BY <1>1, <1>2, <1>3, FlattenSeqIs

LEMMA FlattenSeqAppend ==
  ASSUME NEW B, NEW s \in Seq(Seq(B)), NEW e \in Seq(B)
  PROVE  FlattenSeq(Append(s, e)) = FlattenSeq(s) \o e
<1> DEFINE t == Append(s, e)
           n == Len(s)
<1>1. t \in Seq(Seq(B)) /\ t # <<>> /\ Len(t) = n + 1 /\ n \in Nat
  BY AppendProperties
<1>2. CASE s = <<>>
  <2>1. t = <<e>>
    BY <1>2
  <2> QED
    BY <1>2, <2>1, FlattenSeqEmpty, FlattenSeqOne, ConcatEmptySeq
<1>3. CASE s # <<>>
  <2>1. PICK f : FlattensUpto(f, s, n, B)
    BY FlattensExists
  <2>2. PICK g : FlattensUpto(g, t, n + 1, B)
    BY <1>1, FlattensExists
  <2>3. n \in 1..n /\ n \in 1..n + 1 /\ n + 1 \in 2..n + 1 /\ (n + 1) - 1 = n
    BY <1>1, <1>3, EmptySeq
  <2>4. \A i \in 1..n : s[i] = t[i]
    BY AppendProperties
  <2>5. t[n + 1] = e
    BY AppendProperties
  <2> HIDE DEF t, n
  <2>6. f[n] = g[n]
    BY <1>1, <2>1, <2>2, <2>3, <2>4, FlattensUnique
  <2>7. g[n + 1] = g[n] \o e
    BY <2>2, <2>3, <2>5, Zenon DEF FlattensUpto
  <2>8. FlattenSeq(t) = g[n + 1]
    BY <1>1, <2>2, FlattenSeqIs
  <2>9. FlattenSeq(s) = f[n]
    BY <1>3, <2>1, FlattenSeqIs DEF n
  <2> QED
    BY <2>6, <2>7, <2>8, <2>9 DEF t
<1> QED
  BY <1>2, <1>3

\* What two sequences of sequences give is what the one and the other give.
LEMMA FlattenSeqConcat ==
  ASSUME NEW B, NEW s \in Seq(Seq(B)), NEW t \in Seq(Seq(B))
  PROVE  FlattenSeq(s \o t) = FlattenSeq(s) \o FlattenSeq(t)
<1> DEFINE S == {n \in Nat : \A u \in Seq(Seq(B)) :
                   Len(u) = n => FlattenSeq(s \o u) = FlattenSeq(s) \o FlattenSeq(u)}
<1>1. 0 \in S
  <2>1. ASSUME NEW u \in Seq(Seq(B)), Len(u) = 0
        PROVE  FlattenSeq(s \o u) = FlattenSeq(s) \o FlattenSeq(u)
    <3>1. u = <<>> /\ s \o u = s
      BY <2>1, EmptySeq, ConcatEmptySeq
    <3>2. FlattenSeq(s) \o <<>> = FlattenSeq(s)
      BY FlattenSeqType, ConcatEmptySeq
    <3> QED
      BY <3>1, <3>2, FlattenSeqEmpty
  <2> QED
    BY <2>1
<1>2. ASSUME NEW n \in Nat, n \in S PROVE n + 1 \in S
  <2>1. ASSUME NEW u \in Seq(Seq(B)), Len(u) = n + 1
        PROVE  FlattenSeq(s \o u) = FlattenSeq(s) \o FlattenSeq(u)
    <3>1. u # <<>>
      BY <2>1
    <3>2. PICK v \in Seq(Seq(B)), e \in Seq(B) : u = Append(v, e)
      BY <3>1, SequenceEmptyOrAppend
    <3>3. Len(v) = n
      BY <2>1, <3>2, AppendProperties
    <3>4. FlattenSeq(s \o v) = FlattenSeq(s) \o FlattenSeq(v)
      BY <1>2, <3>2, <3>3
    <3> HIDE DEF S
    <3>5. s \o u = Append(s \o v, e) /\ s \o v \in Seq(Seq(B))
      BY <3>2
    <3>6. FlattenSeq(s \o u) = FlattenSeq(s \o v) \o e
      BY <3>2, <3>5, FlattenSeqAppend
    <3>7. FlattenSeq(u) = FlattenSeq(v) \o e
      BY <3>2, FlattenSeqAppend
    <3>8. FlattenSeq(s) \in Seq(B) /\ FlattenSeq(v) \in Seq(B)
      BY <3>2, FlattenSeqType
    <3>9. (FlattenSeq(s) \o FlattenSeq(v)) \o e = FlattenSeq(s) \o (FlattenSeq(v) \o e)
      <4> DEFINE p == FlattenSeq(s)
                 q == FlattenSeq(v)
      <4>1. p \in Seq(B) /\ q \in Seq(B) /\ e \in Seq(B)
        BY <3>2, <3>8
      <4> HIDE DEF p, q
      <4>2. Regroups(p, q, e)
        BY <4>1, ConcatRegroups, Zenon
      <4> QED
        BY <4>2, Zenon DEF Regroups, p, q
    <3> QED
      BY <3>4, <3>6, <3>7, <3>9, Zenon
  <2> QED
    BY <2>1
<1>3. Nat \subseteq S
  <2> HIDE DEF S
  <2> QED
    BY <1>1, <1>2, InductionBySet
<1>4. Len(t) \in S
  <2>1. Len(t) \in Nat
    OBVIOUS
  <2> QED
    BY <1>3, <2>1, Zenon
<1> QED
  BY <1>4

\* The first sequence is the beginning.
LEMMA FlattenSeqHeadTail ==
  ASSUME NEW B, NEW s \in Seq(Seq(B)), s # <<>>
  PROVE  FlattenSeq(s) = Head(s) \o FlattenSeq(Tail(s))
<1>1. Head(s) \in Seq(B) /\ Tail(s) \in Seq(Seq(B)) /\ <<Head(s)>> \in Seq(Seq(B))
  BY HeadTailProperties
<1>2. s = <<Head(s)>> \o Tail(s)
  OBVIOUS
<1>3. FlattenSeq(<<Head(s)>> \o Tail(s)) = FlattenSeq(<<Head(s)>>) \o FlattenSeq(Tail(s))
  BY <1>1, FlattenSeqConcat
<1> QED
  BY <1>1, <1>2, <1>3, FlattenSeqOne

\* Sequences of four: the g-th one lies behind the g - 1 in front of it.
LEMMA FlattenSeqOfFours ==
  ASSUME NEW B, NEW s \in Seq(Seq(B)), \A g \in 1..Len(s) : Len(s[g]) = 4
  PROVE  /\ Len(FlattenSeq(s)) = 4 * Len(s)
         /\ \A g \in 1..Len(s), j \in 1..4 : FlattenSeq(s)[4 * (g - 1) + j] = s[g][j]
<1> DEFINE n == Len(s)
           At(t, k) == /\ Len(t) = 4 * k
                       /\ \A g \in 1..k, j \in 1..4 : t[4 * (g - 1) + j] = s[g][j]
<1>1. n \in Nat
  OBVIOUS
<1>2. PICK f : FlattensUpto(f, s, n, B)
  BY FlattensExists
<1>3. \A k \in 1..n : f[k] \in Seq(B) /\ s[k] \in Seq(B) /\ Len(s[k]) = 4
  BY <1>2 DEF FlattensUpto
<1> DEFINE S == {k \in Nat : k \in 1..n => At(f[k], k)}
<1>4. 0 \in S
  OBVIOUS
<1>5. ASSUME NEW k \in Nat, k \in S PROVE k + 1 \in S
  <2>1. ASSUME k + 1 \in 1..n PROVE At(f[k + 1], k + 1)
    <3>1. CASE k = 0
      <4>1. f[1] = s[1] /\ Len(s[1]) = 4
        BY <1>2, <1>3, <2>1, <3>1 DEF FlattensUpto
      <4>2. \A g \in 1..1, j \in 1..4 : g = 1 /\ 4 * (g - 1) + j = j
        OBVIOUS
      <4> HIDE DEF n
      <4> QED
        BY <3>1, <4>1, <4>2
    <3>2. CASE k # 0
      <4>1. k \in 1..n /\ k + 1 \in 2..n /\ (k + 1) - 1 = k
        BY <2>1, <3>2
      <4>2. At(f[k], k)
        BY <1>5, <4>1
      <4> DEFINE a == f[k]
                 b == s[k + 1]
      <4>3. f[k + 1] = a \o b
        BY <1>2, <4>1, Zenon DEF FlattensUpto
      <4>4. a \in Seq(B) /\ b \in Seq(B) /\ Len(b) = 4 /\ Len(a) = 4 * k
        BY <1>3, <2>1, <4>1, <4>2
      <4>5. \A g \in 1..k, j \in 1..4 : a[4 * (g - 1) + j] = s[g][j]
        BY <4>2
      <4> HIDE DEF S, a, n
      <4>6. ASSUME NEW g \in 1..k + 1, NEW j \in 1..4
            PROVE  (a \o b)[4 * (g - 1) + j] = s[g][j]
        <5>1. CASE g \in 1..k
          <6>1. 4 * (g - 1) + j \in 1..Len(a)
            BY <4>4, <5>1
          <6>2. (a \o b)[4 * (g - 1) + j] = a[4 * (g - 1) + j]
            BY <4>4, <6>1
          <6> QED
            BY <4>5, <5>1, <6>2
        <5>2. CASE g = k + 1
          <6>1. 4 * (g - 1) + j = Len(a) + j /\ j \in 1..Len(b)
            BY <4>4, <5>2
          <6>2. (a \o b)[Len(a) + j] = b[j]
            BY <4>4, <6>1
          <6> QED
            BY <5>2, <6>1, <6>2
        <5>3. g \in 1..k \/ g = k + 1
          OBVIOUS
        <5> QED
          BY <5>1, <5>2, <5>3
      <4>7. Len(a \o b) = 4 * (k + 1)
        <5>1. Len(a \o b) = Len(a) + Len(b)
          BY <4>4, ConcatProperties, Zenon
        <5> QED
          BY <4>4, <5>1
      <4> QED
        BY <4>3, <4>6, <4>7
    <3> QED
      BY <3>1, <3>2
  <2> HIDE DEF At
  <2> QED
    BY <2>1
<1>6. Nat \subseteq S
  <2> HIDE DEF S
  <2> QED
    BY <1>4, <1>5, InductionBySet
<1>7. CASE n = 0
  <2>1. s = <<>>
    BY <1>7, EmptySeq
  <2>2. FlattenSeq(s) = <<>>
    BY <2>1, FlattenSeqEmpty
  <2> QED
    BY <1>7, <2>2
<1>8. CASE n # 0
  <2>1. n \in 1..n /\ n \in S /\ s # <<>>
    BY <1>1, <1>6, <1>8
  <2>2. At(f[n], n)
    BY <1>1, <2>1
  <2>3. FlattenSeq(s) = f[n]
    BY <1>2, <2>1, FlattenSeqIs
  <2> QED
    BY <2>2, <2>3
<1> QED
  BY <1>7, <1>8

\* Nothing but empty sequences give nothing.
LEMMA FlattenSeqOfEmpties ==
  ASSUME NEW B, NEW s \in Seq(Seq(B)), \A i \in 1..Len(s) : s[i] = <<>>
  PROVE  FlattenSeq(s) = <<>>
<1> DEFINE S == {n \in Nat : \A u \in Seq(Seq(B)) :
                   Len(u) = n /\ (\A i \in 1..n : u[i] = <<>>) => FlattenSeq(u) = <<>>}
<1>1. 0 \in S
  <2>1. ASSUME NEW u \in Seq(Seq(B)), Len(u) = 0 PROVE FlattenSeq(u) = <<>>
    <3>1. u = <<>>
      BY <2>1, EmptySeq
    <3> QED
      BY <3>1, FlattenSeqEmpty
  <2> QED
    BY <2>1
<1>2. ASSUME NEW n \in Nat, n \in S PROVE n + 1 \in S
  <2>1. ASSUME NEW u \in Seq(Seq(B)), Len(u) = n + 1, \A i \in 1..n + 1 : u[i] = <<>>
        PROVE  FlattenSeq(u) = <<>>
    <3>1. u # <<>>
      BY <2>1
    <3>2. PICK v \in Seq(Seq(B)), e \in Seq(B) : u = Append(v, e)
      BY <3>1, SequenceEmptyOrAppend
    <3>3. Len(v) = n /\ (\A i \in 1..n : v[i] = u[i]) /\ u[n + 1] = e
      BY <2>1, <3>2, AppendProperties
    <3>4. (\A i \in 1..n : v[i] = <<>>) /\ e = <<>>
      BY <2>1, <3>3
    <3>5. FlattenSeq(v) = <<>>
      BY <1>2, <3>2, <3>3, <3>4
    <3> HIDE DEF S
    <3>6. FlattenSeq(u) = FlattenSeq(v) \o e
      BY <3>2, FlattenSeqAppend
    <3>7. <<>> \o <<>> = <<>>
      OBVIOUS
    <3> QED
      BY <3>4, <3>5, <3>6, <3>7, Zenon
  <2> QED
    BY <2>1
<1>3. Nat \subseteq S
  <2> HIDE DEF S
  <2> QED
    BY <1>1, <1>2, InductionBySet
<1>4. Len(s) \in S
  <2>1. Len(s) \in Nat
    OBVIOUS
  <2> QED
    BY <1>3, <2>1, Zenon
<1> QED
  BY <1>4

\* Two sequences with the same elements.
LEMMA SameElements ==
  ASSUME NEW B, NEW s \in Seq(B), NEW t \in Seq(B), Len(s) = Len(t),
         \A i \in 1..Len(s) : s[i] = t[i]
  PROVE  s = t
OBVIOUS

LEMMA ConcatElements ==
  ASSUME NEW B, NEW s \in Seq(B), NEW t \in Seq(B)
  PROVE  /\ \A i \in 1..Len(s) : (s \o t)[i] = s[i]
         /\ \A i \in 1..Len(t) : (s \o t)[Len(s) + i] = t[i]
OBVIOUS

\* A sequence around one of its elements.
LEMMA SplitAround ==
  ASSUME NEW B, NEW s \in Seq(B), NEW k \in 1..Len(s)
  PROVE  s = Append(SubSeq(s, 1, k - 1), s[k]) \o SubSeq(s, k + 1, Len(s))
<1> DEFINE a == SubSeq(s, 1, k - 1)
           b == SubSeq(s, k + 1, Len(s))
           c == Append(a, s[k])
           n == Len(s)
<1>1. n \in Nat /\ k \in Nat /\ k <= n /\ 1 <= k /\ s[k] \in B
  OBVIOUS
<1>2. a \in Seq(B) /\ Len(a) = k - 1 /\ \A i \in 1..k - 1 : a[i] = s[i]
  BY <1>1
<1>3. b \in Seq(B) /\ Len(b) = n - k /\ \A i \in 1..n - k : b[i] = s[k + i]
  BY <1>1
<1> HIDE DEF a, b
<1>4. c \in Seq(B) /\ Len(c) = k /\ (\A i \in 1..k - 1 : c[i] = s[i]) /\ c[k] = s[k]
  BY <1>1, <1>2
<1> HIDE DEF c
<1>5. c \o b \in Seq(B) /\ Len(c \o b) = n
  <2>1. c \o b \in Seq(B) /\ Len(c \o b) = Len(c) + Len(b)
    BY <1>3, <1>4, ConcatProperties
  <2>2. k + (n - k) = n
    BY <1>1
  <2> QED
    BY <1>3, <1>4, <2>1, <2>2
<1>6. ASSUME NEW i \in 1..n PROVE s[i] = (c \o b)[i]
  <2>0. /\ \A j \in 1..k : (c \o b)[j] = c[j]
        /\ \A j \in 1..n - k : (c \o b)[k + j] = b[j]
    BY <1>3, <1>4, ConcatElements
  <2>1. CASE i < k
    <3>1. i \in 1..k /\ i \in 1..k - 1
      BY <1>1, <2>1
    <3> QED
      BY <1>4, <2>0, <3>1
  <2>2. CASE i = k
    <3>1. k \in 1..k
      BY <1>1
    <3> QED
      BY <1>4, <2>0, <2>2, <3>1
  <2>3. CASE i > k
    <3>1. i - k \in 1..n - k /\ k + (i - k) = i
      BY <1>1, <2>3
    <3>2. (c \o b)[i] = b[i - k]
      BY <2>0, <3>1
    <3> QED
      BY <1>3, <3>1, <3>2
  <2>4. i < k \/ i = k \/ i > k
    BY <1>1
  <2> QED
    BY <2>1, <2>2, <2>3, <2>4, Zenon
<1>7. s = c \o b
  BY <1>5, <1>6, SameElements
<1> QED
  BY <1>7 DEF a, b, c

\* So for two that differ there at most.
SameBut(s, t, k) ==
  Len(t) = Len(s) /\ \A i \in 1..Len(s) : i # k => t[i] = s[i]

BothAround(B, s, t, k) ==
  \E a, b \in Seq(B) : /\ s = Append(a, s[k]) \o b /\ t = Append(a, t[k]) \o b
                       /\ Len(b) = Len(s) - k /\ \A i \in 1..Len(b) : b[i] = s[k + i]

LEMMA SplitBothAround ==
  ASSUME NEW B, NEW s \in Seq(B), NEW t \in Seq(B), NEW k \in 1..Len(s), SameBut(s, t, k)
  PROVE  BothAround(B, s, t, k)
<1> DEFINE a == SubSeq(s, 1, k - 1)
           b == SubSeq(s, k + 1, Len(s))
           c == SubSeq(t, 1, k - 1)
           d == SubSeq(t, k + 1, Len(t))
           n == Len(s)
<1>1. n \in Nat /\ k \in Nat /\ k <= n /\ 1 <= k /\ k \in 1..Len(t)
  BY DEF SameBut
<1>2. a \in Seq(B) /\ Len(a) = k - 1 /\ \A i \in 1..k - 1 : a[i] = s[i]
  BY <1>1
<1>3. b \in Seq(B) /\ Len(b) = n - k /\ \A i \in 1..n - k : b[i] = s[k + i]
  BY <1>1
<1>4. c \in Seq(B) /\ Len(c) = k - 1 /\ \A i \in 1..k - 1 : c[i] = t[i]
  BY <1>1
<1>5. d \in Seq(B) /\ Len(d) = n - k /\ \A i \in 1..n - k : d[i] = t[k + i]
  BY <1>1 DEF SameBut
<1>6. s = Append(a, s[k]) \o b /\ t = Append(c, t[k]) \o d
  BY <1>1, SplitAround
<1> HIDE DEF a, b, c, d
<1>7. c = a
  <2>1. \A i \in 1..k - 1 : i \in 1..Len(s) /\ i # k
    BY <1>1
  <2> QED
    BY <1>2, <1>4, <2>1, SameElements DEF SameBut
<1>8. d = b
  <2>1. \A i \in 1..n - k : k + i \in 1..Len(s) /\ k + i # k
    BY <1>1
  <2> QED
    BY <1>3, <1>5, <2>1, SameElements DEF SameBut
<1> QED
  BY <1>2, <1>3, <1>6, <1>7, <1>8 DEF BothAround

\* A sequence with one element more, behind the k-th.
OneMore(s, t, k) ==
  /\ Len(t) = Len(s) + 1
  /\ \A i \in 1..k : t[i] = s[i]
  /\ \A i \in k + 1..Len(s) : t[i + 1] = s[i]

AroundOneMore(B, s, t, k) ==
  \E a, b \in Seq(B) : s = a \o b /\ t = Append(a, t[k + 1]) \o b

LEMMA SplitAtInsertion ==
  ASSUME NEW B, NEW s \in Seq(B), NEW t \in Seq(B), NEW k \in 0..Len(s), OneMore(s, t, k)
  PROVE  AroundOneMore(B, s, t, k)
<1> DEFINE a == SubSeq(s, 1, k)
           b == SubSeq(s, k + 1, Len(s))
           c == SubSeq(t, 1, k)
           d == SubSeq(t, k + 2, Len(t))
           n == Len(s)
<1>1. n \in Nat /\ k \in Nat /\ k <= n /\ k + 1 \in 1..Len(t) /\ (k + 1) - 1 = k /\ (k + 1) + 1 = k + 2
  BY DEF OneMore
<1>2. a \in Seq(B) /\ Len(a) = k /\ \A i \in 1..k : a[i] = s[i]
  BY <1>1
<1>3. b \in Seq(B) /\ Len(b) = n - k /\ \A i \in 1..n - k : b[i] = s[k + i]
  BY <1>1
<1>4. c \in Seq(B) /\ Len(c) = k /\ \A i \in 1..k : c[i] = t[i]
  BY <1>1
<1>5. d \in Seq(B) /\ Len(d) = n - k /\ \A i \in 1..n - k : d[i] = t[(k + 1) + i]
  BY <1>1 DEF OneMore
<1>6. t = Append(c, t[k + 1]) \o d
  BY <1>1, SplitAround
<1> HIDE DEF a, b, c, d
<1>7. c = a
  BY <1>2, <1>4, SameElements DEF OneMore
<1>8. d = b
  <2>1. \A i \in 1..n - k : k + i \in k + 1..Len(s) /\ (k + 1) + i = (k + i) + 1
    BY <1>1
  <2>2. \A i \in 1..n - k : d[i] = b[i]
    <3>1. ASSUME NEW i \in 1..n - k PROVE d[i] = b[i]
      <4>1. d[i] = t[(k + 1) + i] /\ b[i] = s[k + i]
        BY <1>3, <1>5
      <4>2. k + i \in k + 1..Len(s) /\ (k + 1) + i = (k + i) + 1
        BY <2>1
      <4>3. t[(k + i) + 1] = s[k + i]
        BY <4>2 DEF OneMore
      <4> QED
        BY ONLY <4>1, <4>2, <4>3, Zenon
    <3> QED
      BY <3>1, Zenon
  <2> QED
    BY <1>3, <1>5, <2>2, SameElements
<1>9. s = a \o b
  <2>1. a \o b \in Seq(B) /\ Len(a \o b) = n
    BY <1>1, <1>2, <1>3
  <2>2. ASSUME NEW i \in 1..n PROVE s[i] = (a \o b)[i]
    <3>0. /\ \A j \in 1..k : (a \o b)[j] = a[j]
          /\ \A j \in 1..n - k : (a \o b)[k + j] = b[j]
      BY <1>2, <1>3, ConcatElements
    <3>1. CASE i <= k
      <4>1. i \in 1..k
        BY <1>1, <3>1
      <4> QED
        BY <1>2, <3>0, <4>1
    <3>2. CASE ~(i <= k)
      <4>1. i - k \in 1..n - k /\ k + (i - k) = i
        BY <1>1, <3>2
      <4>2. (a \o b)[i] = b[i - k]
        BY <3>0, <4>1
      <4> QED
        BY <1>3, <4>1, <4>2
    <3> QED
      BY <3>1, <3>2, Zenon
  <2> QED
    BY <2>1, <2>2, SameElements
<1> QED
  BY <1>2, <1>3, <1>6, <1>7, <1>8, <1>9 DEF AroundOneMore

\* An empty sequence more, anywhere, changes nothing.
LEMMA FlattenSeqInsertEmpty ==
  ASSUME NEW B, NEW s \in Seq(Seq(B)), NEW t \in Seq(Seq(B)), NEW k \in 0..Len(s),
         OneMore(s, t, k), t[k + 1] = <<>>
  PROVE  FlattenSeq(t) = FlattenSeq(s)
<1>1. PICK a \in Seq(Seq(B)), b \in Seq(Seq(B)) : s = a \o b /\ t = Append(a, t[k + 1]) \o b
  <2>1. AroundOneMore(Seq(B), s, t, k)
    BY SplitAtInsertion
  <2> QED
    BY <2>1, Zenon DEF AroundOneMore
<1>2. <<>> \in Seq(B)
  OBVIOUS
<1>3. Append(a, <<>>) \in Seq(Seq(B))
  BY <1>2, AppendProperties
<1>4. FlattenSeq(s) = FlattenSeq(a) \o FlattenSeq(b)
  BY <1>1, FlattenSeqConcat
<1>5. FlattenSeq(t) = FlattenSeq(Append(a, <<>>)) \o FlattenSeq(b)
  BY <1>1, <1>3, FlattenSeqConcat
<1>6. FlattenSeq(Append(a, <<>>)) = FlattenSeq(a) \o <<>>
  BY <1>2, FlattenSeqAppend
<1>7. FlattenSeq(a) \o <<>> = FlattenSeq(a)
  BY FlattenSeqType, ConcatEmptySeq
<1> QED
  BY <1>4, <1>5, <1>6, <1>7, Zenon

Adds(t, s, e) == t = Append(s, e)

LEMMA AppendBehind ==
  ASSUME NEW B, NEW x \in Seq(B), NEW y \in Seq(B), NEW e \in B, NEW z, Adds(z, y, e)
  PROVE  Adds(x \o z, x \o y, e)
BY DEF Adds

\* What is appended to the last sequence that is not empty comes last.
LEMMA FlattenSeqAppendAt ==
  ASSUME NEW B, NEW s \in Seq(Seq(B)), NEW t \in Seq(Seq(B)), NEW k \in 1..Len(s), NEW e \in B,
         SameBut(s, t, k), Adds(t[k], s[k], e),
         \A i \in k + 1..Len(s) : s[i] = <<>>
  PROVE  Adds(FlattenSeq(t), FlattenSeq(s), e)
<1>1. PICK a \in Seq(Seq(B)), b \in Seq(Seq(B)) :
         /\ s = Append(a, s[k]) \o b /\ t = Append(a, t[k]) \o b
         /\ Len(b) = Len(s) - k /\ \A i \in 1..Len(b) : b[i] = s[k + i]
  <2>1. BothAround(Seq(B), s, t, k)
    BY SplitBothAround
  <2> QED
    BY <2>1, Zenon DEF BothAround
<1>2. s[k] \in Seq(B) /\ t[k] \in Seq(B)
  <2>1. k \in 1..Len(t)
    BY DEF SameBut
  <2> QED
    BY <2>1, ElementOfSeq, Zenon
<1>3. FlattenSeq(b) = <<>>
  <2>1. \A i \in 1..Len(b) : k + i \in k + 1..Len(s)
    <3>1. Len(s) \in Nat /\ Len(b) = Len(s) - k /\ k \in Nat
      BY <1>1
    <3> QED
      BY <3>1
  <2>2. \A i \in 1..Len(b) : b[i] = <<>>
    BY <1>1, <2>1
  <2> QED
    BY <2>2, FlattenSeqOfEmpties
<1>4. ASSUME NEW x \in Seq(B) PROVE FlattenSeq(Append(a, x) \o b) = FlattenSeq(a) \o x
  <2>1. Append(a, x) \in Seq(Seq(B))
    BY AppendProperties
  <2>2. FlattenSeq(Append(a, x) \o b) = FlattenSeq(Append(a, x)) \o FlattenSeq(b)
    BY <2>1, FlattenSeqConcat
  <2>3. FlattenSeq(Append(a, x)) = FlattenSeq(a) \o x
    BY FlattenSeqAppend
  <2>4. FlattenSeq(Append(a, x)) \o <<>> = FlattenSeq(Append(a, x))
    BY <2>1, FlattenSeqType, ConcatEmptySeq
  <2> QED
    BY <1>3, <2>2, <2>3, <2>4, Zenon
<1>5. FlattenSeq(s) = FlattenSeq(a) \o s[k] /\ FlattenSeq(t) = FlattenSeq(a) \o t[k]
  BY <1>1, <1>2, <1>4, Zenon
<1>6. FlattenSeq(a) \in Seq(B)
  BY FlattenSeqType
<1> QED
  BY <1>2, <1>5, <1>6, AppendBehind, Zenon

LEMMA MinOfTwo ==
  ASSUME NEW a \in Int, NEW b \in Int
  PROVE  Min({a, b}) = IF a <= b THEN a ELSE b
BY DEF Min
-----------------------------------------------------------------------------
(***************************************************************************)
(* Chains: functions on 0..N that apply one step after the other.          *)
(***************************************************************************)
\* f starts at e and applies T[1], ..., T[n], functions on S.
IsChain(f, T, e, n, S) ==
  /\ f \in [0..n -> S]
  /\ f[0] = e
  /\ \A i \in 1..n : f[i] = T[i][f[i - 1]]

LEMMA ChainOneMore ==
  ASSUME NEW S, NEW e \in S, NEW n \in Nat, NEW T, T[n + 1] \in [S -> S],
         NEW f, IsChain(f, T, e, n, S)
  PROVE  \E g : IsChain(g, T, e, n + 1, S)
<1> DEFINE new == T[n + 1][f[n]]
           g == [i \in 0..n + 1 |-> IF i <= n THEN f[i] ELSE new]
<1>1. f[n] \in S /\ new \in S
  BY DEF IsChain
<1>2. \A i \in 0..n : f[i] \in S
  BY DEF IsChain
<1>3. g \in [0..n + 1 -> S]
  <2> HIDE DEF new
  <2> QED
    BY <1>1, <1>2
<1>4. g[0] = e
  BY DEF IsChain
<1>5. ASSUME NEW i \in 1..n + 1 PROVE g[i] = T[i][g[i - 1]]
  <2>1. CASE i <= n
    <3>1. g[i] = f[i] /\ g[i - 1] = f[i - 1] /\ i \in 1..n
      BY <2>1
    <3> QED
      BY <3>1 DEF IsChain
  <2>2. CASE i = n + 1
    <3>1. g[i] = new /\ g[i - 1] = f[n]
      BY <2>2
    <3> QED
      BY <2>2, <3>1
  <2> QED
    BY <2>1, <2>2
<1> HIDE DEF g
<1>6. IsChain(g, T, e, n + 1, S)
  BY <1>3, <1>4, <1>5 DEF IsChain
<1> QED
  BY <1>6

LEMMA ChainExists ==
  ASSUME NEW S, NEW e \in S, NEW N \in Nat, NEW T \in [1..N -> [S -> S]]
  PROVE  \E f : IsChain(f, T, e, N, S)
<1> DEFINE A == {n \in Nat : n <= N => \E f : IsChain(f, T, e, n, S)}
<1>1. 0 \in A
  <2>1. IsChain([i \in 0..0 |-> e], T, e, 0, S)
    BY DEF IsChain
  <2> QED
    BY <2>1
<1>2. ASSUME NEW n \in Nat, n \in A PROVE n + 1 \in A
  <2>1. ASSUME n + 1 <= N PROVE \E f : IsChain(f, T, e, n + 1, S)
    <3>1. PICK f : IsChain(f, T, e, n, S)
      BY <1>2, <2>1
    <3>2. T[n + 1] \in [S -> S]
      BY <2>1
    <3> QED
      BY <3>1, <3>2, ChainOneMore
  <2> QED
    BY <2>1
<1>3. Nat \subseteq A
  <2> HIDE DEF A
  <2> QED
    BY <1>1, <1>2, InductionBySet
<1>4. N \in A
  <2> HIDE DEF A
  <2> QED
    BY <1>3
<1> QED
  BY <1>4

SameSteps(f, g, T, U, S, n) ==
  /\ f[n] = T[n][f[n - 1]]
  /\ g[n] = U[n][g[n - 1]]
  /\ \A s \in S : T[n][s] = U[n][s]

Together(f, g, T, U, S, a, b) ==
  /\ a \in Nat /\ b \in Nat /\ a <= b
  /\ f[a] = g[a]
  /\ \A n \in a..b : f[n] \in S
  /\ \A n \in (a + 1)..b : SameSteps(f, g, T, U, S, n)

Meet(f, g, n) == f[n] = g[n]

\* Two chains that meet at a and take the same steps up to b meet at b.
LEMMA ChainsAgree ==
  ASSUME NEW S, NEW a, NEW b, NEW f, NEW g, NEW T, NEW U, Together(f, g, T, U, S, a, b)
  PROVE  Meet(f, g, b)
<1>0. /\ a \in Nat /\ b \in Nat /\ a <= b
      /\ f[a] = g[a]
      /\ \A n \in a..b : f[n] \in S
      /\ \A n \in (a + 1)..b : SameSteps(f, g, T, U, S, n)
  BY DEF Together
<1> DEFINE A == {n \in Nat : a + n <= b => f[a + n] = g[a + n]}
<1>1. 0 \in A
  BY <1>0
<1>2. ASSUME NEW n \in Nat, n \in A PROVE n + 1 \in A
  <2>1. ASSUME a + (n + 1) <= b PROVE f[a + (n + 1)] = g[a + (n + 1)]
    <3> DEFINE m == a + (n + 1)
    <3>1. m \in (a + 1)..b /\ m - 1 = a + n /\ a + n \in a..b
      BY <1>0, <2>1
    <3>2. f[m - 1] = g[m - 1] /\ f[m - 1] \in S
      BY <1>0, <1>2, <2>1, <3>1
    <3> HIDE DEF m, A
    <3>3. f[m] = T[m][f[m - 1]] /\ g[m] = U[m][g[m - 1]] /\ T[m][f[m - 1]] = U[m][f[m - 1]]
      BY <1>0, <3>1, <3>2 DEF SameSteps
    <3>4. f[m] = g[m]
      BY <3>2, <3>3
    <3> QED
      BY <3>4 DEF m
  <2> QED
    BY <2>1
<1>3. Nat \subseteq A
  <2> HIDE DEF A
  <2> QED
    BY <1>1, <1>2, InductionBySet
<1>4. b - a \in Nat /\ a + (b - a) = b
  BY <1>0
<1>5. b - a \in A
  <2> HIDE DEF A
  <2> QED
    BY <1>3, <1>4
<1> QED
  BY <1>0, <1>4, <1>5 DEF Meet
-----------------------------------------------------------------------------
(***************************************************************************)
(* Closures: what some of a set of steps, in some order, lead to.          *)
(***************************************************************************)
\* f[W]: what some steps of W, in some order, make of e.
ClosureAt(f, T, e, W) == {e} \cup UNION {{T[c][s] : s \in f[W \ {c}]} : c \in W}
IsClosure(f, T, e, C) == f = [W \in SUBSET C |-> ClosureAt(f, T, e, W)]

InClosure(f, T, e, W, s) == s = e \/ \E c \in W : \E r \in f[W \ {c}] : s = T[c][r]

LEMMA ClosureMembers ==
  ASSUME NEW f, NEW T, NEW e, NEW W, NEW s
  PROVE  s \in ClosureAt(f, T, e, W) <=> InClosure(f, T, e, W, s)
BY DEF ClosureAt, InClosure

\* There is such a function, finite or not: the least one that is closed.
LEMMA ClosureExists ==
  ASSUME NEW S, NEW e \in S, NEW C, NEW T \in [C -> [S -> S]]
  PROVE  \E f \in [SUBSET C -> SUBSET S] : IsClosure(f, T, e, C)
<1> DEFINE Fs == [SUBSET C -> SUBSET S]
           Closed(g) == \A W \in SUBSET C : \A s \in S : InClosure(g, T, e, W, s) => s \in g[W]
           least == [W \in SUBSET C |-> {s \in S : \A g \in Fs : Closed(g) => s \in g[W]}]
           next == [W \in SUBSET C |-> {s \in S : InClosure(least, T, e, W, s)}]
<1>1. least \in Fs /\ next \in Fs
  OBVIOUS
<1>2. \A W \in SUBSET C, c \in C : W \ {c} \in SUBSET C
  OBVIOUS
<1>3. \A c \in C, s \in S : T[c][s] \in S
  OBVIOUS
<1>4. ASSUME NEW W \in SUBSET C, NEW s
      PROVE  s \in least[W] <=> s \in S /\ \A g \in Fs : Closed(g) => s \in g[W]
  OBVIOUS
<1>5. ASSUME NEW W \in SUBSET C, NEW s
      PROVE  s \in next[W] <=> s \in S /\ InClosure(least, T, e, W, s)
  OBVIOUS
<1> HIDE DEF Fs, least, next
<1>6. Closed(least)
  <2> SUFFICES ASSUME NEW W \in SUBSET C, NEW s \in S, InClosure(least, T, e, W, s),
                      NEW g \in Fs, Closed(g)
               PROVE  s \in g[W]
    BY <1>4
  <2>1. InClosure(g, T, e, W, s)
    <3>1. \A c \in W : W \ {c} \in SUBSET C
      BY <1>2
    <3>2. \A c \in W : \A r \in least[W \ {c}] : r \in g[W \ {c}]
      BY <1>4, <3>1
    <3> QED
      BY <3>2 DEF InClosure
  <2> QED
    BY <2>1
<1>7. Closed(next)
  <2> SUFFICES ASSUME NEW W \in SUBSET C, NEW s \in S, InClosure(next, T, e, W, s)
               PROVE  InClosure(least, T, e, W, s)
    BY <1>5
  <2>1. \A c \in W : W \ {c} \in SUBSET C
    BY <1>2
  <2>2. \A c \in W : \A r \in next[W \ {c}] : r \in least[W \ {c}]
    BY <1>5, <1>6, <2>1
  <2> QED
    BY <2>2 DEF InClosure
<1>8. ASSUME NEW W \in SUBSET C PROVE least[W] = ClosureAt(least, T, e, W)
  <2>1. ASSUME NEW s \in least[W] PROVE InClosure(least, T, e, W, s)
    <3>1. s \in next[W]
      BY <1>1, <1>4, <1>7, <2>1
    <3> QED
      BY <1>5, <3>1
  <2>2. ASSUME NEW s, InClosure(least, T, e, W, s) PROVE s \in least[W]
    <3>1. s \in S
      <4>1. \A c \in W : \A r \in least[W \ {c}] : c \in C /\ r \in S
        BY <1>2, <1>4
      <4> QED
        BY <1>3, <2>2, <4>1 DEF InClosure
    <3> QED
      BY <1>6, <2>2, <3>1
  <2> QED
    BY <2>1, <2>2, ClosureMembers
<1>9. IsClosure(least, T, e, C)
  <2>1. least = [W \in SUBSET C |-> least[W]]
    BY <1>1 DEF Fs
  <2> QED
    BY <1>8, <2>1 DEF IsClosure
<1> QED
  BY <1>1, <1>9 DEF Fs
=============================================================================
