---------------------------- MODULE SequenceFacts ----------------------------
(* Facts about sequences, their prefixes and numbers that the proofs share. *)
EXTENDS Integers, Sequences, WellFoundedInduction, TLAPS

\* A prefix has its length, and the elements of the sequence.
LEMMA Prefix ==
  ASSUME NEW S, NEW s \in Seq(S), NEW n \in 0 .. Len(s)
  PROVE  /\ SubSeq(s, 1, n) \in Seq(S)
         /\ Len(SubSeq(s, 1, n)) = n
         /\ \A i \in 1 .. n : SubSeq(s, 1, n)[i] = s[i]
         /\ \A m \in 0 .. n : SubSeq(SubSeq(s, 1, n), 1, m) = SubSeq(s, 1, m)
OBVIOUS

\* So has any other piece of it.
LEMMA Piecewise ==
  ASSUME NEW S, NEW s \in Seq(S), NEW a \in 0 .. Len(s), NEW b \in a .. Len(s)
  PROVE  /\ SubSeq(s, a + 1, b) \in Seq(S)
         /\ Len(SubSeq(s, a + 1, b)) = b - a
         /\ \A i \in 1 .. b - a : SubSeq(s, a + 1, b)[i] = s[a + i]
OBVIOUS

\* Sequences that agree up to n have the same prefix of that length.
LEMMA SamePrefix ==
  ASSUME NEW S, NEW s \in Seq(S), NEW t \in Seq(S),
         NEW n \in Nat, n <= Len(s), n <= Len(t),
         \A i \in 1 .. n : s[i] = t[i]
  PROVE  SubSeq(s, 1, n) = SubSeq(t, 1, n)
OBVIOUS

\* Pieces with the same elements are the same.
LEMMA SamePiece ==
  ASSUME NEW S, NEW s \in Seq(S), NEW t \in Seq(S),
         NEW a \in Nat, NEW b \in Nat, a <= b, b <= Len(s), b <= Len(t),
         \A i \in a + 1 .. b : s[i] = t[i]
  PROVE  SubSeq(s, a + 1, b) = SubSeq(t, a + 1, b)
OBVIOUS

\* Sequences with the same elements are the same.
LEMMA SameSeq ==
  ASSUME NEW S, NEW s \in Seq(S), NEW t \in Seq(S), Len(s) = Len(t),
         \A i \in 1 .. Len(s) : s[i] = t[i]
  PROVE  s = t
OBVIOUS

\* A function on 1 .. n is a sequence of length n.
LEMMA FunctionIsSeq ==
  ASSUME NEW S, NEW n \in Nat, NEW f \in [1 .. n -> S]
  PROVE  f \in Seq(S) /\ Len(f) = n
OBVIOUS

\* A concatenation holds the elements of both.
LEMMA ConcatHas ==
  ASSUME NEW S, NEW s \in Seq(S), NEW t \in Seq(S)
  PROVE  /\ s \o t \in Seq(S) /\ Len(s \o t) = Len(s) + Len(t)
         /\ \A i \in 1 .. Len(s) : (s \o t)[i] = s[i]
         /\ \A i \in 1 .. Len(t) : (s \o t)[Len(s) + i] = t[i]
OBVIOUS

\* A concatenation is determined by its elements.
LEMMA ConcatIs ==
  ASSUME NEW S, NEW s \in Seq(S), NEW t \in Seq(S), NEW u \in Seq(S),
         Len(u) = Len(s) + Len(t),
         \A i \in 1 .. Len(s) : s[i] = u[i],
         \A i \in 1 .. Len(t) : t[i] = u[Len(s) + i]
  PROVE  s \o t = u
<1>1. s \o t \in Seq(S) /\ Len(s \o t) = Len(u)
  OBVIOUS
<1>2. ASSUME NEW i \in 1 .. Len(u)
      PROVE  (s \o t)[i] = u[i]
  <2>1. CASE i <= Len(s)
    BY <2>1
  <2>2. CASE i > Len(s)
    BY <2>2, t[i - Len(s)] = u[Len(s) + (i - Len(s))]
  <2> QED
    BY <2>1, <2>2
<1> QED
  BY <1>1, <1>2

\* A prefix and the piece that follows it make the longer prefix.
LEMMA Join ==
  ASSUME NEW S, NEW s \in Seq(S), NEW a \in 0 .. Len(s), NEW b \in a .. Len(s)
  PROVE  SubSeq(s, 1, a) \o SubSeq(s, a + 1, b) = SubSeq(s, 1, b)
<1>1. /\ SubSeq(s, 1, a) \in Seq(S) /\ Len(SubSeq(s, 1, a)) = a
      /\ \A i \in 1 .. a : SubSeq(s, 1, a)[i] = s[i]
  BY Prefix
<1>2. /\ SubSeq(s, 1, b) \in Seq(S) /\ Len(SubSeq(s, 1, b)) = b
      /\ \A i \in 1 .. b : SubSeq(s, 1, b)[i] = s[i]
  BY Prefix
<1>3. /\ SubSeq(s, a + 1, b) \in Seq(S) /\ Len(SubSeq(s, a + 1, b)) = b - a
      /\ \A i \in 1 .. b - a : SubSeq(s, a + 1, b)[i] = s[a + i]
  BY Piecewise
<1>4. a \in Nat /\ b \in Nat /\ a <= b /\ b = a + (b - a)
  OBVIOUS
<1> QED
  BY <1>1, <1>2, <1>3, <1>4, ConcatIs

\* What is appended does not change a prefix.
LEMMA Extend ==
  ASSUME NEW S, NEW s \in Seq(S), NEW t \in Seq(S)
  PROVE  /\ s \o t \in Seq(S) /\ Len(s \o t) = Len(s) + Len(t)
         /\ \A i \in 1 .. Len(s) : (s \o t)[i] = s[i]
         /\ \A n \in 0 .. Len(s) : SubSeq(s \o t, 1, n) = SubSeq(s, 1, n)
<1>1. /\ s \o t \in Seq(S) /\ Len(s \o t) = Len(s) + Len(t)
      /\ \A i \in 1 .. Len(s) : (s \o t)[i] = s[i]
  OBVIOUS
<1>2. ASSUME NEW n \in 0 .. Len(s)
      PROVE  SubSeq(s \o t, 1, n) = SubSeq(s, 1, n)
  <2>1. /\ SubSeq(s, 1, n) \in Seq(S) /\ Len(SubSeq(s, 1, n)) = n
        /\ \A i \in 1 .. n : SubSeq(s, 1, n)[i] = s[i]
    BY Prefix
  <2>2. /\ SubSeq(s \o t, 1, n) \in Seq(S) /\ Len(SubSeq(s \o t, 1, n)) = n
        /\ \A i \in 1 .. n : SubSeq(s \o t, 1, n)[i] = (s \o t)[i]
    BY <1>1, Prefix
  <2> QED
    BY <1>1, <2>1, <2>2, SameSeq
<1> QED
  BY <1>1, <1>2

-----------------------------------------------------------------------------
(* Numbers                                                                 *)

\* A non-empty set of numbers has a least element.
LEMMA Least ==
  ASSUME NEW P \in SUBSET Nat, P # {}
  PROVE  \E p \in P : \A q \in P : p <= q
<1>1. PICK p \in P : \A q \in P : ~(<<q, p>> \in OpToRel(<, Nat))
  BY NatLessThanWellFounded, WFMin
<1>2. ASSUME NEW q \in P
      PROVE  p <= q
  <2>1. q < p => <<q, p>> \in OpToRel(<, Nat)
    BY DEF OpToRel
  <2>2. ~(q < p)
    BY <1>1, <2>1
  <2> QED
    BY <2>2
<1> QED
  BY <1>2

\* A non-empty set of numbers with a bound has a greatest element.
LEMMA Greatest ==
  ASSUME NEW P \in SUBSET Nat, P # {}, NEW n \in Nat, \A p \in P : p <= n
  PROVE  \E p \in P : \A q \in P : q <= p
<1> DEFINE D == {n - p : p \in P}
<1>1. D \in SUBSET Nat /\ D # {}
  <2>1. \A p \in P : p \in Nat /\ p <= n
    OBVIOUS
  <2>2. \A e \in D : e \in Nat
    BY <2>1
  <2> QED
    BY <2>2
<1>2. PICK d \in D : \A e \in D : d <= e
  BY <1>1, Least
<1>3. PICK p \in P : d = n - p
  BY <1>2
<1>4. ASSUME NEW q \in P
      PROVE  q <= p
  <2>1. d <= n - q /\ p \in Nat /\ q \in Nat
    BY <1>4, <1>2
  <2> QED
    BY <2>1, <1>3
<1> QED
  BY <1>4

\* What holds of 0, and of n + 1 if it holds of n, holds of every number: the
\* set of the numbers it holds of takes the place of the predicate.
LEMMA Induction ==
  ASSUME NEW S, 0 \in S, \A n \in Nat : n \in S => n + 1 \in S
  PROVE  Nat \subseteq S
<1>1. SUFFICES ASSUME Nat \ S # {}
               PROVE  FALSE
  OBVIOUS
<1>2. PICK n \in Nat \ S : \A m \in Nat \ S : n <= m
  BY <1>1, Least
<1>3. n # 0 /\ n - 1 \in Nat /\ (n - 1) + 1 = n
  BY <1>2
<1> QED
  BY <1>2, <1>3

\* What holds of n if it holds of all below n holds of every number.
LEMMA StrongInduction ==
  ASSUME NEW S, \A n \in Nat : 0 .. n - 1 \subseteq S => n \in S
  PROVE  Nat \subseteq S
<1>1. SUFFICES ASSUME Nat \ S # {}
               PROVE  FALSE
  OBVIOUS
<1>2. PICK n \in Nat \ S : \A m \in Nat \ S : n <= m
  BY <1>1, Least
<1>3. 0 .. n - 1 \subseteq S
  BY <1>2
<1> QED
  BY <1>2, <1>3

Iterates(f, V, v0, step) ==
  f \in [Nat -> V] /\ f[0] = v0 /\ \A n \in Nat : f[n + 1] = step[n][f[n]]

IteratesTo(f, n, V, v0, step) ==
  /\ f \in [0 .. n -> V] /\ f[0] = v0
  /\ \A i \in 1 .. n : f[i] = step[i][f[i - 1]]

\* A step, given as a function, can be taken any number of times.
LEMMA Iterate ==
  ASSUME NEW V, NEW v0 \in V, NEW step \in [Nat -> [V -> V]]
  PROVE  \E f : Iterates(f, V, v0, step)
<1> DEFINE Runs(n, f) == /\ f \in [0 .. n -> V] /\ f[0] = v0
                         /\ \A i \in 0 .. n - 1 : f[i + 1] = step[i][f[i]]
<1> DEFINE S == {n \in Nat : \E f \in [0 .. n -> V] : Runs(n, f)}
<1>1. Nat \subseteq S
  <2>1. 0 \in S
    <3>1. Runs(0, [i \in 0 .. 0 |-> v0])
      OBVIOUS
    <3> QED
      BY <3>1
  <2>2. ASSUME NEW n \in Nat, n \in S
        PROVE  n + 1 \in S
    <3>1. PICK f \in [0 .. n -> V] : Runs(n, f)
      BY <2>2
    <3> DEFINE g == [i \in 0 .. n + 1 |-> IF i = n + 1 THEN step[n][f[n]] ELSE f[i]]
    <3>2. step[n][f[n]] \in V
      BY <3>1
    <3>3. g \in [0 .. n + 1 -> V] /\ g[0] = v0
      BY <3>1, <3>2
    <3>4. ASSUME NEW i \in 0 .. n
          PROVE  g[i + 1] = step[i][g[i]]
      <4>1. g[i] = f[i]
        BY <3>1
      <4> i \in Nat /\ i + 1 \in 0 .. n + 1
        BY <3>4
      <4>2. CASE i = n
        <5>1. g[i + 1] = step[n][f[n]]
          BY <4>2
        <5> QED
          BY <4>1, <4>2, <5>1
      <4>3. CASE i < n
        <5>1. g[i + 1] = f[i + 1] /\ i \in 0 .. n - 1
          BY <4>3
        <5> QED
          BY <4>1, <5>1, <3>1
      <4> QED
        BY <4>2, <4>3, <3>4
    <3>5. Runs(n + 1, g)
      <4> HIDE DEF g
      <4> QED
        BY <3>3, <3>4
    <3> HIDE DEF g, Runs
    <3> QED
      BY <3>3, <3>5
  <2> HIDE DEF S
  <2> QED
    BY <2>1, <2>2, Induction
<1> DEFINE F == [n \in Nat |-> CHOOSE f \in [0 .. n -> V] : Runs(n, f)]
<1>2. ASSUME NEW n \in Nat
      PROVE  Runs(n, F[n])
  BY <1>1
<1> HIDE DEF F
<1>3. ASSUME NEW n \in Nat, NEW i \in Nat, i <= n
      PROVE  F[n][i] = F[i][i]
  <2> DEFINE T == {k \in Nat : k <= n => \A m \in k .. n : F[m][k] = F[k][k]}
  <2>1. 0 \in T
    BY <1>2
  <2>2. ASSUME NEW k \in Nat, k \in T
        PROVE  k + 1 \in T
    <3>1. SUFFICES ASSUME k + 1 <= n, NEW m \in k + 1 .. n
                   PROVE  F[m][k + 1] = F[k + 1][k + 1]
      OBVIOUS
    <3>2. m \in Nat /\ m \in k .. n /\ k + 1 \in k .. n /\ k \in 0 .. m - 1 /\ k \in 0 .. (k + 1) - 1
      BY <3>1
    <3>3. F[m][k + 1] = step[k][F[m][k]]
      BY <3>2, <1>2
    <3>4. F[k + 1][k + 1] = step[k][F[k + 1][k]]
      BY <3>2, <1>2
    <3>5. F[m][k] = F[k][k] /\ F[k + 1][k] = F[k][k]
      BY <2>2, <3>1, <3>2
    <3> QED
      BY <3>3, <3>4, <3>5
  <2> HIDE DEF T
  <2>3. i \in T
    BY <2>1, <2>2, Induction
  <2> QED
    BY <2>3, <1>3 DEF T
<1> DEFINE h == [n \in Nat |-> F[n][n]]
<1>4. h \in [Nat -> V] /\ h[0] = v0
  BY <1>2
<1>5. ASSUME NEW n \in Nat
      PROVE  h[n + 1] = step[n][h[n]]
  <2>1. F[n + 1][n + 1] = step[n][F[n + 1][n]]
    BY <1>2
  <2>2. F[n + 1][n] = F[n][n]
    BY <1>3
  <2> QED
    BY <2>1, <2>2
<1> QED
  <2> HIDE DEF h
  <2>1. Iterates(h, V, v0, step)
    BY <1>4, <1>5 DEF Iterates
  <2> QED
    BY <2>1

\* The same for a recursion over 1 .. n: it has a solution.
LEMMA IterateTo ==
  ASSUME NEW V, NEW v0 \in V, NEW n \in Nat, NEW step \in [1 .. n -> [V -> V]]
  PROVE  \E f : IteratesTo(f, n, V, v0, step)
<1> DEFINE Step == [i \in Nat |-> IF i + 1 \in 1 .. n THEN step[i + 1]
                                  ELSE [v \in V |-> v0]]
<1>1. Step \in [Nat -> [V -> V]]
  OBVIOUS
<1> HIDE DEF Step
<1> PICK f : Iterates(f, V, v0, Step)
  BY <1>1, Iterate
<1>2. f \in [Nat -> V] /\ f[0] = v0 /\ \A i \in Nat : f[i + 1] = Step[i][f[i]]
  BY DEF Iterates
<1> DEFINE g == [i \in 0 .. n |-> f[i]]
<1>3. g \in [0 .. n -> V] /\ g[0] = v0
  BY <1>2
<1>4. ASSUME NEW i \in 1 .. n
      PROVE  g[i] = step[i][g[i - 1]]
  <2>1. i - 1 \in Nat /\ (i - 1) + 1 = i /\ i - 1 \in 0 .. n /\ i \in 0 .. n
    OBVIOUS
  <2>2. f[i] = Step[i - 1][f[i - 1]] /\ f[i - 1] \in V
    BY <1>2, <2>1
  <2>3. Step[i - 1][f[i - 1]] = step[i][f[i - 1]]
    BY <2>1, <2>2 DEF Step
  <2> QED
    BY <2>1, <2>2, <2>3
<1> QED
  <2> HIDE DEF g
  <2>1. IteratesTo(g, n, V, v0, step)
    BY <1>3, <1>4 DEF IteratesTo
  <2> QED
    BY <2>1

StepsAgree(f, g, n) == \A i \in 1 .. n : f[i - 1] = g[i - 1] => f[i] = g[i]

\* Two functions that agree at 0, and at i if they do at i - 1, agree.
LEMMA SameRecursion ==
  ASSUME NEW n \in Nat, NEW f, NEW g, f[0] = g[0], StepsAgree(f, g, n)
  PROVE  \A i \in 0 .. n : f[i] = g[i]
<1> DEFINE S == {i \in Nat : i <= n => f[i] = g[i]}
<1>1. 0 \in S
  OBVIOUS
<1>2. ASSUME NEW i \in Nat, i \in S
      PROVE  i + 1 \in S
  <2>1. SUFFICES ASSUME i + 1 <= n
                 PROVE  f[i + 1] = g[i + 1]
    OBVIOUS
  <2>2. f[i] = g[i] /\ i + 1 \in 1 .. n /\ (i + 1) - 1 = i
    BY <1>2, <2>1
  <2> QED
    BY <2>2 DEF StepsAgree
<1>3. Nat \subseteq S
  <2> HIDE DEF S
  <2> QED
    BY <1>1, <1>2, Induction
<1> QED
  BY <1>3
=============================================================================
