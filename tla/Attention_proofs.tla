--------------------------- MODULE Attention_proofs ---------------------------
(***************************************************************************)
(* That every attention kernel leaves in every row the softmax of its own  *)
(* query over each of the keys up to its position, summed in the order of  *)
(* the kernel it stands for: for every number of heads, positions, splits, *)
(* warps, tile and group size, and in every order of the CTAs and          *)
(* interleaving of their warps.  The facts about numbers, stores and the   *)
(* other kernels are those of the delta rule's proof.                      *)
(***************************************************************************)
EXTENDS GatedDelta_proofs, FiniteSetTheorems

-----------------------------------------------------------------------------
(* Numbers in order                                                        *)

Increasing(f, n) == \A i, j \in 1 .. n : i < j => f[i] < f[j]

\* The only way to number 1 .. n in order is the obvious one.
LEMMA OnlyIdentity ==
  ASSUME NEW n \in Nat, NEW k \in [1 .. n -> 1 .. n], Increasing(k, n)
  PROVE  \A i \in 1 .. n : k[i] = i
<1>1. \A i, j \in 1 .. n : i < j => k[i] < k[j]
  BY DEF Increasing
<1>2. \A i \in 1 .. n : k[i] \in Nat /\ k[i] >= 1 /\ k[i] <= n
  OBVIOUS
<1> DEFINE Up == {m \in Nat : m \in 1 .. n => k[m] >= m}
           Down == {m \in Nat : m < n => k[n - m] <= n - m}
<1>3. Nat \subseteq Up
  <2>1. 0 \in Up
    OBVIOUS
  <2>2. ASSUME NEW m \in Nat, m \in Up
        PROVE  m + 1 \in Up
    <3>1. CASE m = 0
      BY <1>2, <3>1
    <3>2. CASE m # 0 /\ m + 1 \in 1 .. n
      <4>1. m \in 1 .. n /\ k[m] < k[m + 1] /\ k[m] >= m
        BY <1>1, <2>2, <3>2
      <4> QED
        BY <1>2, <3>2, <4>1
    <3> QED
      BY <3>1, <3>2
  <2> HIDE DEF Up
  <2> QED
    BY <2>1, <2>2, Induction
<1>4. Nat \subseteq Down
  <2>1. 0 \in Down
    BY <1>2
  <2>2. ASSUME NEW m \in Nat, m \in Down
        PROVE  m + 1 \in Down
    <3>1. SUFFICES ASSUME m + 1 < n
                   PROVE  k[n - (m + 1)] <= n - (m + 1)
      OBVIOUS
    <3>2. n - m \in 1 .. n /\ n - (m + 1) \in 1 .. n /\ n - (m + 1) < n - m
      BY <3>1
    <3>3. k[n - (m + 1)] < k[n - m] /\ k[n - m] <= n - m
      BY <1>1, <2>2, <3>1, <3>2
    <3> QED
      BY <1>2, <3>2, <3>3
  <2> HIDE DEF Down
  <2> QED
    BY <2>1, <2>2, Induction
<1>5. ASSUME NEW i \in 1 .. n
      PROVE  k[i] = i
  <2>1. i \in Nat /\ n - i \in Nat /\ n - i < n /\ n - (n - i) = i
    OBVIOUS
  <2>2. k[i] >= i
    BY <1>3, <2>1
  <2>3. k[n - (n - i)] <= n - (n - i)
    BY <1>4, <2>1
  <2> QED
    BY <1>2, <2>1, <2>2, <2>3
<1> QED
  BY <1>5

\* Numbers that are in order are their set, the least first.
LEMMA AscendingIs ==
  ASSUME NEW n \in Nat, NEW f \in [1 .. n -> Nat], Increasing(f, n)
  PROVE  Ascending({f[i] : i \in 1 .. n}) = f
<1> DEFINE S == {f[i] : i \in 1 .. n}
           sorted(g) == \A i, j \in DOMAIN g : i < j => g[i] < g[j]
<1>1. \A i, j \in 1 .. n : i < j => f[i] < f[j]
  BY DEF Increasing
<1>2. \A i, j \in 1 .. n : f[i] = f[j] => i = j
  <2>1. \A i \in 1 .. n : f[i] \in Nat
    OBVIOUS
  <2> QED
    BY <1>1, <2>1
<1>3. Cardinality(S) = n
  <2>1. f \in Bijection(1 .. n, S)
    BY <1>2 DEF Bijection, Injection, Surjection, IsInjective
  <2>2. ExistsBijection(1 .. n, S)
    BY <2>1 DEF ExistsBijection
  <2> HIDE DEF S
  <2> QED
    BY <2>2, FS_CountingElements
<1>4. f \in [1 .. n -> S] /\ sorted(f)
  BY <1>1
<1>5. ASSUME NEW g \in [1 .. n -> S], sorted(g)
      PROVE  g = f
  <2> DEFINE k == [i \in 1 .. n |-> CHOOSE j \in 1 .. n : f[j] = g[i]]
  <2>1. \A i \in 1 .. n : k[i] \in 1 .. n /\ f[k[i]] = g[i]
    OBVIOUS
  <2>2. k \in [1 .. n -> 1 .. n]
    BY <2>1
  <2> HIDE DEF k
  <2>3. ASSUME NEW i \in 1 .. n, NEW j \in 1 .. n, i < j
        PROVE  k[i] < k[j]
    <3>1. f[k[i]] < f[k[j]]
      <4>1. DOMAIN g = 1 .. n /\ g[i] < g[j]
        BY <1>5, <2>3
      <4> QED
        BY <2>1, <4>1
    <3> DEFINE a == k[i]
               b == k[j]
    <3>2. a \in 1 .. n /\ b \in 1 .. n /\ f[a] < f[b]
      BY <2>1, <3>1
    <3> HIDE DEF a, b
    <3>3. a \in Nat /\ b \in Nat /\ f[a] \in Nat /\ f[b] \in Nat
      BY <3>2
    <3>4. b < a => f[b] < f[a]
      BY <1>1, <3>2
    <3>5. f[a] < f[b] => ~(f[b] < f[a]) /\ f[a] # f[b]
      BY <3>3
    <3>6. ~(b < a) /\ a # b
      BY <3>2, <3>4, <3>5
    <3>7. a < b
      BY <3>3, <3>6
    <3> QED
      BY <3>7 DEF a, b
  <2>4. Increasing(k, n)
    BY <2>3 DEF Increasing
  <2>5. \A i \in 1 .. n : k[i] = i
    BY <2>2, <2>4, OnlyIdentity
  <2>6. \A i \in 1 .. n : g[i] = f[i]
    BY <2>1, <2>5
  <2>7. g = [i \in 1 .. n |-> g[i]] /\ f = [i \in 1 .. n |-> f[i]]
    OBVIOUS
  <2> QED
    BY <2>6, <2>7
<1>6. Ascending(S) = CHOOSE g \in [1 .. n -> S] : sorted(g)
  BY <1>3 DEF Ascending
<1> HIDE DEF S, sorted
<1>7. Ascending(S) = f
  BY <1>4, <1>5, <1>6
<1> QED
  BY <1>7 DEF S

\* The strided walk of a warp visits, in order, the keys that are its own.
LEMMA WalkIs ==
  ASSUME NEW step \in Nat \ {0}, NEW first \in 0 .. step - 1, NEW last \in Nat
  PROVE  /\ Ascending({k \in 0 .. last : k % step = first}) = Walk(first, step, last)
         /\ Walk(first, step, last) \in Seq(Nat)
         /\ ToSet(Walk(first, step, last)) = {k \in 0 .. last : k % step = first}
<1> DEFINE n == IF first > last THEN 0 ELSE (last - first) \div step + 1
           f == [i \in 1 .. n |-> first + (i - 1) * step]
<1>1. first \in Nat /\ n \in Nat
  <2>1. CASE first > last
    BY <2>1
  <2>2. CASE ~(first > last)
    <3>1. last - first \in Nat
      BY <2>2
    <3>2. (last - first) \div step \in Nat
      BY <3>1, Division
    <3> QED
      BY <2>2, <3>2
  <2> QED
    BY <2>1, <2>2
<1>2. ASSUME NEW i \in 1 .. n
      PROVE  /\ i - 1 \in Nat /\ (i - 1) * step \in Nat /\ f[i] = first + (i - 1) * step /\ f[i] \in Nat
             /\ f[i] <= last
  <2>1. ~(first > last) /\ i - 1 \in Nat
    BY <1>1
  <2> DEFINE q == (last - first) \div step
             r == (last - first) % step
  <2>2. q \in Nat /\ r \in Nat /\ last - first = q * step + r
    <3>1. last - first \in Nat
      BY <1>1, <2>1
    <3> QED
      BY <3>1, Division
  <2>3. i - 1 <= q
    BY <2>1, <2>2
  <2> HIDE DEF q, r
  <2>4. PICK e \in Nat : q = (i - 1) + e
    <3>1. q - (i - 1) \in Nat /\ q = (i - 1) + (q - (i - 1))
      BY <2>1, <2>2, <2>3
    <3> QED
      BY <3>1
  <2>5. q * step = (i - 1) * step + e * step /\ e * step \in Nat /\ (i - 1) * step \in Nat
    BY <2>1, <2>4
  <2>6. f[i] = first + (i - 1) * step
    OBVIOUS
  <2> HIDE DEF f, n
  <2> DEFINE x == (i - 1) * step
             y == e * step
  <2>7. x \in Nat /\ y \in Nat /\ last - first = x + y + r /\ f[i] = first + x
    BY <2>2, <2>5, <2>6
  <2>8. i - 1 \in Nat
    BY <2>1
  <2> HIDE DEF x, y
  <2>9. f[i] \in Nat /\ f[i] <= last
    BY <1>1, <2>2, <2>7
  <2> QED
    BY <2>5, <2>6, <2>8, <2>9
<1>3. ASSUME NEW i \in 1 .. n, NEW j \in 1 .. n, i < j
      PROVE  f[i] < f[j]
  <2>1. PICK e \in Nat : j - 1 = (i - 1) + 1 + e
    <3>1. j - i - 1 \in Nat /\ j - 1 = (i - 1) + 1 + (j - i - 1)
      BY <1>1, <1>3
    <3> QED
      BY <3>1
  <2> DEFINE a == i - 1
             b == j - 1
  <2>2. a \in Nat /\ b = a + 1 + e /\ f[i] = first + a * step /\ f[j] = first + b * step
    BY <1>1, <1>2, <2>1
  <2> HIDE DEF a, b, f
  <2>3. b * step = a * step + step + e * step /\ a * step \in Nat /\ e * step \in Nat
    BY <2>2
  <2> QED
    BY <1>1, <2>2, <2>3
<1>4. {k \in 0 .. last : k % step = first} = {f[i] : i \in 1 .. n}
  <2>1. ASSUME NEW i \in 1 .. n
        PROVE  f[i] \in 0 .. last /\ f[i] % step = first
    <3>1. i - 1 \in Nat /\ f[i] = (i - 1) * step + first /\ f[i] \in Nat /\ f[i] <= last
      BY <1>1, <1>2
    <3>2. ((i - 1) * step + first) % step = first
      BY <3>1, Quotient
    <3> HIDE DEF f, n
    <3>3. f[i] \in 0 .. last
      BY <3>1
    <3> QED
      BY <3>1, <3>2, <3>3
  <2>2. ASSUME NEW k \in 0 .. last, k % step = first
        PROVE  \E i \in 1 .. n : k = f[i]
    <3> DEFINE q == k \div step
    <3>1. q \in Nat /\ k = q * step + first
      BY <2>2, Division
    <3> HIDE DEF q
    <3>2. last - first \in Nat /\ first <= last
      BY <1>1, <3>1
    <3> DEFINE u == (last - first) \div step
               r == (last - first) % step
    <3>3. u \in Nat /\ r \in 0 .. step - 1 /\ last - first = u * step + r
      BY <3>2, Division
    <3>4. n = u + 1
      BY <1>1, <3>2
    <3> HIDE DEF u, r, n, f
    <3>5. q <= u
      <4>1. ASSUME q > u
            PROVE  FALSE
        <5>1. PICK e \in Nat : q = u + 1 + e
          <6>1. q - u - 1 \in Nat /\ q = u + 1 + (q - u - 1)
            BY <3>1, <3>3, <4>1
          <6> QED
            BY <6>1
        <5>2. q * step = u * step + step + e * step /\ u * step \in Nat /\ e * step \in Nat
          BY <3>3, <5>1
        <5>3. q * step <= u * step + r
          BY <3>1, <3>2, <3>3
        <5> QED
          BY <3>3, <5>2, <5>3
      <4> QED
        BY <3>1, <3>3, <4>1
    <3>6. q + 1 \in 1 .. n /\ (q + 1) - 1 = q
      BY <3>1, <3>3, <3>4, <3>5
    <3>7. f[q + 1] = first + q * step
      BY <1>2, <3>6
    <3> QED
      BY <1>1, <3>1, <3>6, <3>7
  <2> HIDE DEF f, n
  <2> QED
    BY <2>1, <2>2
<1>5. f \in [1 .. n -> Nat]
  BY <1>2
<1>6. Walk(first, step, last) = f
  BY DEF Walk
<1> HIDE DEF f, n
<1>7. Increasing(f, n)
  BY <1>3 DEF Increasing
<1>8. f \in Seq(Nat) /\ DOMAIN f = 1 .. n
  BY <1>1, <1>5
<1>9. ToSet(f) = {f[i] : i \in 1 .. n}
  BY <1>8 DEF ToSet
<1>10. Ascending({f[i] : i \in 1 .. n}) = f
  BY <1>1, <1>5, <1>7, AscendingIs
<1> QED
  BY <1>4, <1>6, <1>8, <1>9, <1>10

-----------------------------------------------------------------------------
(* Sequences of sequences                                                  *)

\* The function of FlattenSeq.
FlatBody(ss, f) == [i \in 1 .. Len(ss) |-> IF i = 1 THEN ss[i] ELSE f[i - 1] \o ss[i]]
Flat(ss) == CHOOSE f : f = FlatBody(ss, f)

LEMMA FlatIs ==
  ASSUME NEW S, NEW ss \in Seq(Seq(S))
  PROVE  Flat(ss) = FlatBody(ss, Flat(ss))
<1> DEFINE n == Len(ss)
           step == [i \in 1 .. n |-> [v \in Seq(S) |-> v \o ss[i]]]
<1>1. n \in Nat /\ <<>> \in Seq(S) /\ \A i \in 1 .. n : ss[i] \in Seq(S)
  OBVIOUS
<1>2. step \in [1 .. n -> [Seq(S) -> Seq(S)]]
  BY <1>1, ConcatHas
<1> HIDE DEF step
<1>3. PICK f : IteratesTo(f, n, Seq(S), <<>>, step)
  BY <1>1, <1>2, IterateTo
<1>4. /\ f \in [0 .. n -> Seq(S)] /\ f[0] = <<>>
      /\ \A i \in 1 .. n : f[i] = step[i][f[i - 1]]
  BY <1>3 DEF IteratesTo
<1> HIDE DEF n
<1> DEFINE g == [i \in 1 .. n |-> f[i]]
<1>5. ASSUME NEW i \in 1 .. n
      PROVE  g[i] = IF i = 1 THEN ss[i] ELSE g[i - 1] \o ss[i]
  <2>1. i - 1 \in 0 .. n /\ f[i - 1] \in Seq(S)
    BY <1>1, <1>4
  <2>2. f[i] = f[i - 1] \o ss[i]
    BY <1>4, <2>1 DEF step
  <2>3. CASE i = 1
    <3>1. <<>> \o ss[i] = ss[i]
      BY <1>1
    <3>2. f[i - 1] = <<>> /\ g[i] = f[i]
      BY <1>4, <2>3
    <3> QED
      BY <2>2, <2>3, <3>1, <3>2
  <2>4. CASE i # 1
    <3>1. i - 1 \in 1 .. n
      BY <1>1, <2>4
    <3> QED
      BY <2>2, <2>4, <3>1
  <2> QED
    BY <2>3, <2>4
<1>6. g = [i \in 1 .. n |-> g[i]]
  OBVIOUS
<1> HIDE DEF g
<1>7. g = FlatBody(ss, g)
  BY <1>5, <1>6 DEF FlatBody, n
<1> QED
  BY <1>7 DEF Flat

\* The elements of a concatenation.
LEMMA BothSets ==
  ASSUME NEW S, NEW s \in Seq(S), NEW t \in Seq(S)
  PROVE  ToSet(s \o t) = ToSet(s) \cup ToSet(t)
<1>1. /\ s \o t \in Seq(S) /\ Len(s \o t) = Len(s) + Len(t)
      /\ \A i \in 1 .. Len(s) : (s \o t)[i] = s[i]
      /\ \A i \in 1 .. Len(t) : (s \o t)[Len(s) + i] = t[i]
  BY ConcatHas
<1> DEFINE u == s \o t
           m == Len(s)
           n == Len(t)
<1>2. /\ DOMAIN u = 1 .. m + n /\ DOMAIN s = 1 .. m /\ DOMAIN t = 1 .. n /\ m \in Nat /\ n \in Nat
      /\ \A i \in 1 .. m : u[i] = s[i]
      /\ \A i \in 1 .. n : u[m + i] = t[i]
  BY <1>1
<1> HIDE DEF u, m, n
<1>3. ASSUME NEW i \in 1 .. m + n
      PROVE  u[i] \in ToSet(s) \cup ToSet(t)
  <2>1. CASE i <= m
    <3>1. i \in 1 .. m
      BY <1>2, <2>1
    <3> QED
      BY <1>2, <3>1 DEF ToSet
  <2>2. CASE i > m
    <3>1. i - m \in 1 .. n /\ m + (i - m) = i
      BY <1>2, <2>2
    <3>2. u[i] = t[i - m]
      BY <1>2, <3>1
    <3> QED
      BY <1>2, <3>1, <3>2 DEF ToSet
  <2> QED
    BY <1>2, <2>1, <2>2
<1>4. ASSUME NEW i \in 1 .. m
      PROVE  s[i] \in ToSet(u)
  BY <1>2 DEF ToSet
<1>5. ASSUME NEW i \in 1 .. n
      PROVE  t[i] \in ToSet(u)
  <2>1. m + i \in 1 .. m + n /\ u[m + i] = t[i]
    BY <1>2
  <2> QED
    BY <1>2, <2>1 DEF ToSet
<1>6. ToSet(u) = ToSet(s) \cup ToSet(t)
  BY <1>2, <1>3, <1>4, <1>5 DEF ToSet
<1> QED
  BY <1>6 DEF u

\* Flattened, sequences have the elements they have.
LEMMA Flattened ==
  ASSUME NEW S, NEW ss \in Seq(Seq(S))
  PROVE  /\ FlattenSeq(ss) \in Seq(S)
         /\ ToSet(FlattenSeq(ss)) = UNION {ToSet(ss[i]) : i \in 1 .. Len(ss)}
<1> DEFINE n == Len(ss)
           f == Flat(ss)
           all(k) == UNION {ToSet(ss[i]) : i \in 1 .. k}
<1>1. n \in Nat /\ \A i \in 1 .. n : ss[i] \in Seq(S)
  OBVIOUS
<1>2. f = FlatBody(ss, f)
  BY FlatIs
<1> HIDE DEF f
<1>3. \A i \in 1 .. n : f[i] = IF i = 1 THEN ss[i] ELSE f[i - 1] \o ss[i]
  BY <1>2 DEF FlatBody
<1> DEFINE I == {i \in Nat : i \in 1 .. n => f[i] \in Seq(S) /\ ToSet(f[i]) = all(i)}
<1>4. 0 \in I
  OBVIOUS
<1>5. ASSUME NEW i \in Nat, i \in I
      PROVE  i + 1 \in I
  <2>1. SUFFICES ASSUME i + 1 \in 1 .. n
                 PROVE  f[i + 1] \in Seq(S) /\ ToSet(f[i + 1]) = all(i + 1)
    OBVIOUS
  <2>2. CASE i = 0
    <3>1. f[1] = ss[1] /\ i + 1 = 1 /\ ss[1] \in Seq(S)
      BY <1>1, <1>3, <2>1, <2>2
    <3>2. all(1) = ToSet(ss[1])
      <4>1. 1 .. 1 = {1}
        OBVIOUS
      <4> QED
        BY <4>1
    <3> QED
      BY <3>1, <3>2
  <2>3. CASE i # 0
    <3>1. i \in 1 .. n /\ (i + 1) - 1 = i /\ i + 1 # 1
      BY <1>1, <2>1, <2>3
    <3>2. f[i + 1] = f[i] \o ss[i + 1]
      BY <1>3, <2>1, <3>1
    <3>3. f[i] \in Seq(S) /\ ToSet(f[i]) = all(i) /\ ss[i + 1] \in Seq(S)
      BY <1>1, <1>5, <2>1, <3>1
    <3>4. ToSet(f[i] \o ss[i + 1]) = ToSet(f[i]) \cup ToSet(ss[i + 1])
      BY <3>3, BothSets
    <3>5. all(i + 1) = all(i) \cup ToSet(ss[i + 1])
      <4>1. 1 .. i + 1 = (1 .. i) \cup {i + 1}
        BY <3>1
      <4> QED
        BY <4>1
    <3>6. f[i] \o ss[i + 1] \in Seq(S)
      BY <3>3, ConcatHas
    <3> HIDE DEF all
    <3> QED
      BY <3>2, <3>3, <3>4, <3>5, <3>6
  <2> QED
    BY <2>2, <2>3
<1>6. \A i \in 1 .. n : f[i] \in Seq(S) /\ ToSet(f[i]) = all(i)
  <2> HIDE DEF I
  <2>1. Nat \subseteq I
    BY <1>4, <1>5, Induction
  <2>2. \A i \in 1 .. n : i \in I
    BY <2>1
  <2> HIDE DEF n, all
  <2> QED
    BY <2>2 DEF I
<1>7. FlattenSeq(ss) = IF n = 0 THEN ss ELSE f[n]
  BY DEF FlattenSeq, f, Flat, FlatBody
<1>8. CASE n = 0
  <2>1. ss = <<>> /\ FlattenSeq(ss) = <<>>
    BY <1>7, <1>8
  <2>2. ToSet(<<>>) = {} /\ all(n) = {}
    BY <1>8 DEF ToSet
  <2>3. <<>> \in Seq(S)
    OBVIOUS
  <2> HIDE DEF n, all
  <2>4. FlattenSeq(ss) \in Seq(S) /\ ToSet(FlattenSeq(ss)) = all(n)
    BY <2>1, <2>2, <2>3
  <2> QED
    BY <2>4 DEF all, n
<1>9. CASE n # 0
  <2>1. n \in 1 .. n
    BY <1>1, <1>9
  <2> QED
    BY <1>6, <1>7, <1>9, <2>1
<1> QED
  BY <1>8, <1>9

\* The keys that warp w of split s walks, and all of them.
WarpKeys(p, splits, warps, s, w) == Walk((w - 1) + warps * (s - 1), splits * warps, p)
Congruent(p, n, r) == {k \in 0 .. p : k % n = r}
Dealt(order, p, splits, warps) ==
  /\ order \in [1 .. splits -> [1 .. warps -> Seq(Nat)]]
  /\ \A s \in 1 .. splits, w \in 1 .. warps : order[s][w] = WarpKeys(p, splits, warps, s, w)

LEMMA DealtOnce ==
  ASSUME NEW p \in Nat, NEW splits \in Nat \ {0}, NEW warps \in Nat \ {0}
  PROVE  /\ \A s \in 1 .. splits, w \in 1 .. warps :
              /\ (w - 1) + warps * (s - 1) \in 0 .. splits * warps - 1
              /\ WarpKeys(p, splits, warps, s, w) \in Seq(Nat)
              /\ ToSet(WarpKeys(p, splits, warps, s, w)) =
                   Congruent(p, splits * warps, (w - 1) + warps * (s - 1))
         /\ Dealt(SingleOrder(p, splits, warps), p, splits, warps)
<1> DEFINE n == splits * warps
           first(s, w) == (w - 1) + warps * (s - 1)
           keys(s, w) == {k \in 0 .. p : k % n = first(s, w)}
<1>1. n \in Nat \ {0}
  <2>1. PICK a \in Nat : splits = a + 1
    <3>1. splits - 1 \in Nat /\ splits = (splits - 1) + 1
      OBVIOUS
    <3> QED
      BY <3>1
  <2>2. splits * warps = a * warps + warps /\ a * warps \in Nat
    BY <2>1
  <2> QED
    BY <2>2
<1>2. ASSUME NEW s \in 1 .. splits, NEW w \in 1 .. warps
      PROVE  first(s, w) \in 0 .. n - 1
  <2>1. PICK e \in Nat : splits = (s - 1) + 1 + e
    <3>1. splits - s \in Nat /\ splits = (s - 1) + 1 + (splits - s)
      OBVIOUS
    <3> QED
      BY <3>1
  <2> DEFINE a == s - 1
  <2>2. a \in Nat /\ splits = a + 1 + e
    BY <2>1
  <2> HIDE DEF a
  <2>3. splits * warps = warps * a + warps + e * warps /\ warps * a \in Nat /\ e * warps \in Nat
    BY <2>2
  <2>4. first(s, w) = (w - 1) + warps * a
    BY DEF a
  <2> HIDE DEF first
  <2> QED
    BY <2>3, <2>4
<1> HIDE DEF n, first
<1>3. ASSUME NEW s \in 1 .. splits, NEW w \in 1 .. warps
      PROVE  /\ Ascending(keys(s, w)) = Walk(first(s, w), n, p)
             /\ Walk(first(s, w), n, p) \in Seq(Nat)
             /\ ToSet(Walk(first(s, w), n, p)) = keys(s, w)
  <2>1. first(s, w) \in 0 .. n - 1
    BY <1>2
  <2> QED
    BY <1>1, <2>1, WalkIs
<1>4. SingleOrder(p, splits, warps) = [s \in 1 .. splits |-> [w \in 1 .. warps |-> Ascending(keys(s, w))]]
  BY DEF SingleOrder, first, n
<1>5. \A s, w : WarpKeys(p, splits, warps, s, w) = Walk(first(s, w), n, p)
  BY DEF WarpKeys, first, n
<1> HIDE DEF keys
<1>6. SingleOrder(p, splits, warps) \in [1 .. splits -> [1 .. warps -> Seq(Nat)]]
  BY <1>3, <1>4
<1>7. \A s \in 1 .. splits, w \in 1 .. warps :
        /\ first(s, w) \in 0 .. n - 1
        /\ SingleOrder(p, splits, warps)[s][w] = WarpKeys(p, splits, warps, s, w)
        /\ WarpKeys(p, splits, warps, s, w) \in Seq(Nat)
        /\ ToSet(WarpKeys(p, splits, warps, s, w)) = keys(s, w)
  BY <1>2, <1>3, <1>4, <1>5
<1>8. Dealt(SingleOrder(p, splits, warps), p, splits, warps)
  BY <1>6, <1>7 DEF Dealt
<1> QED
  BY <1>7, <1>8 DEF keys, first, n, Congruent

\* Dealt to the warps of the splits, every key up to p is dealt, and no other.
LEMMA DealtAll ==
  ASSUME NEW p \in Nat, NEW splits \in Nat \ {0}, NEW warps \in Nat \ {0}
  PROVE  ToSet(FlattenSeq(FlattenSeq(SingleOrder(p, splits, warps)))) = 0 .. p
<1> DEFINE order == SingleOrder(p, splits, warps)
           rows == FlattenSeq(order)
           n == splits * warps
<1>1. /\ \A s \in 1 .. splits, w \in 1 .. warps :
           ToSet(order[s][w]) = Congruent(p, n, (w - 1) + warps * (s - 1))
      /\ order \in [1 .. splits -> [1 .. warps -> Seq(Nat)]]
  <2>0. Dealt(order, p, splits, warps)
    BY DealtOnce
  <2>1. ASSUME NEW s \in 1 .. splits, NEW w \in 1 .. warps
        PROVE  ToSet(order[s][w]) = Congruent(p, n, (w - 1) + warps * (s - 1))
    <3>1. order[s][w] = WarpKeys(p, splits, warps, s, w)
      BY <2>0 DEF Dealt
    <3>2. ToSet(WarpKeys(p, splits, warps, s, w)) = Congruent(p, n, (w - 1) + warps * (s - 1))
      BY DealtOnce
    <3> QED
      BY <3>1, <3>2
  <2>2. order \in [1 .. splits -> [1 .. warps -> Seq(Nat)]]
    BY <2>0 DEF Dealt
  <2> QED
    BY <2>1, <2>2
<1> HIDE DEF order
<1>2. order \in Seq(Seq(Seq(Nat))) /\ Len(order) = splits /\ DOMAIN order = 1 .. splits
  <2>1. \A s \in 1 .. splits : order[s] \in [1 .. warps -> Seq(Nat)]
    BY <1>1
  <2>2. \A s \in 1 .. splits : order[s] \in Seq(Seq(Nat))
    BY <2>1, FunctionIsSeq
  <2>3. order = [s \in 1 .. splits |-> order[s]]
    BY <1>1
  <2>4. order \in [1 .. splits -> Seq(Seq(Nat))]
    BY <2>2, <2>3
  <2> QED
    BY <2>4, FunctionIsSeq
<1>3. /\ rows \in Seq(Seq(Nat))
      /\ ToSet(rows) = UNION {ToSet(order[s]) : s \in 1 .. splits}
  BY <1>2, Flattened
<1> HIDE DEF rows
<1>4. ToSet(FlattenSeq(rows)) = UNION {ToSet(rows[i]) : i \in 1 .. Len(rows)}
  BY <1>3, Flattened
<1>5. \A s \in 1 .. splits : ToSet(order[s]) = {order[s][w] : w \in 1 .. warps}
  BY <1>1 DEF ToSet
<1>6. ASSUME NEW k, k \in ToSet(FlattenSeq(rows))
      PROVE  k \in 0 .. p
  <2>1. PICK i \in 1 .. Len(rows) : k \in ToSet(rows[i])
    BY <1>4, <1>6
  <2>2. rows[i] \in ToSet(rows)
    BY <1>3 DEF ToSet
  <2>3. PICK s \in 1 .. splits : rows[i] \in ToSet(order[s])
    BY <1>3, <2>2
  <2>4. PICK w \in 1 .. warps : rows[i] = order[s][w]
    BY <1>5, <2>3
  <2> QED
    BY <1>1, <2>1, <2>4 DEF Congruent
<1>7. ASSUME NEW k \in 0 .. p
      PROVE  k \in ToSet(FlattenSeq(rows))
  <2> DEFINE r == k % n
             a == r \div warps
             b == r % warps
  <2>1. n \in Nat \ {0} /\ \A s \in 1 .. splits, w \in 1 .. warps : (w - 1) + warps * (s - 1) \in 0 .. n - 1
    <3>1. 1 \in 1 .. splits /\ 1 \in 1 .. warps
      OBVIOUS
    <3>2. n \in Int
      OBVIOUS
    <3>3. \A s \in 1 .. splits, w \in 1 .. warps : (w - 1) + warps * (s - 1) \in 0 .. n - 1
      BY DealtOnce
    <3> HIDE DEF n
    <3>4. 0 .. n - 1 # {}
      BY <3>1, <3>3
    <3> QED
      BY <3>2, <3>3, <3>4
  <2> HIDE DEF n
  <2>2. r \in 0 .. n - 1
    BY <2>1, Division
  <2> HIDE DEF r
  <2>3. a \in Nat /\ b \in 0 .. warps - 1 /\ r = a * warps + b
    <3>1. r \in Nat
      BY <2>1, <2>2
    <3> QED
      BY <3>1, Division
  <2> HIDE DEF a, b
  <2>4. a < splits
    <3>1. ASSUME a >= splits
          PROVE  FALSE
      <4>1. PICK e \in Nat : a = splits + e
        <5>1. a - splits \in Nat /\ a = splits + (a - splits)
          BY <2>3, <3>1
        <5> QED
          BY <5>1
      <4>2. a * warps = splits * warps + e * warps /\ e * warps \in Nat /\ splits * warps \in Nat
        BY <4>1
      <4>3. r < splits * warps
        BY <2>1, <2>2 DEF n
      <4> QED
        BY <2>3, <4>2, <4>3
    <3> QED
      BY <2>3, <3>1
  <2>5. /\ a + 1 \in 1 .. splits /\ b + 1 \in 1 .. warps
        /\ ((b + 1) - 1) + warps * ((a + 1) - 1) = r
    BY <2>3, <2>4
  <2>6. k \in ToSet(order[a + 1][b + 1])
    BY ZenonT(60), <1>1, <2>5 DEF r, Congruent
  <2>7. order[a + 1][b + 1] \in ToSet(rows)
    BY <1>3, <1>5, <2>5
  <2>8. PICK i \in 1 .. Len(rows) : rows[i] = order[a + 1][b + 1]
    <3>1. DOMAIN rows = 1 .. Len(rows)
      BY <1>3
    <3> QED
      BY <2>7, <3>1 DEF ToSet
  <2> QED
    BY <1>4, <2>6, <2>8
<1>8. ToSet(FlattenSeq(rows)) = 0 .. p
  BY <1>6, <1>7
<1> QED
  BY <1>8 DEF rows, order

\* The keys in order are all of them too.
LEMMA InOrder ==
  ASSUME NEW p \in Nat
  PROVE  ToSet(FlattenSeq(FlattenSeq(<<<<[i \in 1 .. p + 1 |-> i - 1]>>>>))) = 0 .. p
<1> DEFINE keys == [i \in 1 .. p + 1 |-> i - 1]
<1>1. keys \in Seq(Nat) /\ DOMAIN keys = 1 .. p + 1
  OBVIOUS
<1>2. ToSet(keys) = 0 .. p
  <2>1. \A i \in 1 .. p + 1 : keys[i] \in 0 .. p
    OBVIOUS
  <2>2. \A k \in 0 .. p : k + 1 \in 1 .. p + 1 /\ keys[k + 1] = k
    OBVIOUS
  <2> HIDE DEF keys
  <2> QED
    BY <1>1, <2>1, <2>2 DEF ToSet
<1> HIDE DEF keys
<1>3. /\ <<keys>> \in Seq(Seq(Nat)) /\ Len(<<keys>>) = 1 /\ <<keys>>[1] = keys
      /\ <<<<keys>>>> \in Seq(Seq(Seq(Nat))) /\ Len(<<<<keys>>>>) = 1 /\ <<<<keys>>>>[1] = <<keys>>
  BY <1>1
<1> DEFINE rows == FlattenSeq(<<<<keys>>>>)
<1>4. 1 .. 1 = {1}
  OBVIOUS
<1>5. ToSet(<<keys>>) = {keys}
  BY <1>4 DEF ToSet
<1>6. rows \in Seq(Seq(Nat)) /\ ToSet(rows) = {keys}
  <2>1. /\ rows \in Seq(Seq(Nat))
        /\ ToSet(rows) = UNION {ToSet(<<<<keys>>>>[i]) : i \in 1 .. Len(<<<<keys>>>>)}
    BY <1>3, Flattened
  <2>2. {ToSet(<<<<keys>>>>[i]) : i \in 1 .. Len(<<<<keys>>>>)} = {ToSet(<<keys>>)}
    BY <1>3, <1>4
  <2> QED
    BY <1>5, <2>1, <2>2
<1> HIDE DEF rows
<1>7. ToSet(FlattenSeq(rows)) = UNION {ToSet(rows[i]) : i \in 1 .. Len(rows)}
  BY <1>6, Flattened
<1>8. DOMAIN rows = 1 .. Len(rows) /\ \A i \in 1 .. Len(rows) : rows[i] = keys
  <2>1. DOMAIN rows = 1 .. Len(rows)
    BY <1>6
  <2>2. \A i \in DOMAIN rows : rows[i] \in ToSet(rows)
    BY DEF ToSet
  <2> QED
    BY <1>6, <2>1, <2>2
<1>9. \E i \in 1 .. Len(rows) : TRUE
  BY <1>6, <1>8 DEF ToSet
<1>10. ToSet(FlattenSeq(rows)) = 0 .. p
  BY <1>2, <1>7, <1>8, <1>9
<1> QED
  BY <1>10 DEF rows, keys
-----------------------------------------------------------------------------
(* The launches                                                            *)

OneOps == {"attn_launch", "attn_batch_launch"}
SplitOps == {"attn_launch_split", "attn_launch_split_wpb", "attn_split_batch_launch"}
TiledOp == "fa2_prefill_launch"

\* The launches of an attention kernel that are made.
AttnMade ==
  {J \in AttnJobs :
    /\ J.op \in OneOps \cup SplitOps \cup {TiledOp}
    /\ J.op \in SplitOps => J.splits >= 1
    /\ J.op = TiledOp =>
         J.dim = FaDim /\ J.heads \div J.kv = FaGroup /\ J.heads % J.kv = 0 /\ Len(J.pos) >= 1}

WarpsOf(J) ==
  IF J.op \in OneOps THEN Warps
  ELSE IF J.op = TiledOp THEN FaQueries
  ELSE IF J.op = "attn_launch_split_wpb" THEN J.wpb ELSE SplitWarps(J.splits)
HeadsOf(J) == 0 .. J.heads - 1
TokensOf(J) == 0 .. Len(J.pos) - 1
DimsOf(J) == 0 .. J.dim - 1

\* The grid that reads the cache, and the one that merges what a split left.
FirstGrid(J) ==
  IF J.op \in OneOps THEN Grid("attn", Warps, J.heads, Len(J.pos), 1)
  ELSE IF J.op = TiledOp THEN Grid("fa2", FaQueries, J.kv, Blocks(Len(J.pos), FaQueries), 1)
  ELSE Grid("split", WarpsOf(J), J.heads, J.splits, Len(J.pos))
MergeGrid(J) == IF J.op \in SplitOps THEN Grid("merge", 1, J.heads, Len(J.pos), 1) ELSE {}
LastGrid(J) == IF J.op \in SplitOps THEN MergeGrid(J) ELSE FirstGrid(J)

\* The passes of the tiled kernel over its heads.
GroupOf(J) == J.heads \div J.kv
TilesOf(J) == (J.kmax + FaTile) \div FaTile
LengthOf(J) == 2 * TilesOf(J) + 1
PassesOf(J) == Blocks(GroupOf(J), J.hp)

PhasesOf(J, kernel) ==
  {End} \cup (CASE kernel = "attn" -> {0, 1}
                [] kernel = "split" -> 0 .. 3
                [] kernel = "merge" -> {0}
                [] kernel = "fa2" -> 0 .. PassesOf(J) * LengthOf(J) - 1)

\* The CTA that works for a row of the output.
CtaOf(kernel, warps, x, y, z) == [kernel |-> kernel, warps |-> warps, x |-> x, y |-> y, z |-> z]
OneCta(t, h) == CtaOf("attn", Warps, h, t, 0)
SplitCta(J, t, h, s) == CtaOf("split", WarpsOf(J), h, s, t)
MergeCta(t, h) == CtaOf("merge", 1, h, t, 0)
TileCta(J, t, h) == CtaOf("fa2", FaQueries, h \div GroupOf(J), t \div FaQueries, 0)

-----------------------------------------------------------------------------
(* What the cells must hold                                                *)

RowAt(J, t, h) == (t * J.heads + h) * J.dim
XCell(J, t, h, d) == <<"x", RowAt(J, t, h) + d>>
SlotAt(J, t, h, s) == ((t * J.heads + h) * J.splits + s) * (2 + J.dim)
PartCell(J, t, h, s, o) == <<"part", SlotAt(J, t, h, s) + o>>
LastKey(J, t) == J.pos[t + 1]

\* The slice of a warp's keys, and what a split leaves of its warps' slices.
SliceBy(J, t, h, keys, d) == Slice(<<t, h>>, h \div (J.heads \div J.kv), keys, d)
KeysOf(J, t, s, w) == Walk(w + WarpsOf(J) * s, WarpsOf(J) * J.splits, LastKey(J, t))
SlicesOf(J, t, h, s, d) == [i \in 1 .. WarpsOf(J) |-> SliceBy(J, t, h, KeysOf(J, t, s, i - 1), d)]
MaxOf(J, t, h, s) == [op |-> "max", of |-> SlicesOf(J, t, h, s, -1)]
WeightOf(J, t, h, s, i) == Weight(SliceBy(J, t, h, KeysOf(J, t, s, i), -1), MaxOf(J, t, h, s))
DotOf(J, t, h, s, d) ==
  [op |-> "dot", wts |-> [i \in 1 .. WarpsOf(J) |-> WeightOf(J, t, h, s, i - 1)],
   of |-> SlicesOf(J, t, h, s, d)]
PartOf(J, t, h, s, o) == IF o = 0 THEN MaxOf(J, t, h, s) ELSE DotOf(J, t, h, s, o - 2)

\* The first n keys, and those a query has seen after k tiles.
FirstKeys(n) == [i \in 1 .. n |-> i - 1]
SeenAfter(J, t, k) == IF LastKey(J, t) + 1 <= FaTile * k THEN LastKey(J, t) + 1 ELSE FaTile * k

\* The row of the output.
WarpSlices(J, t, h, d) == [i \in 1 .. Warps |-> SliceBy(J, t, h, Walk(i - 1, Warps, LastKey(J, t)), d)]
Parts(J, t, h, o) == [i \in 1 .. J.splits |-> PartOf(J, t, h, i - 1, o)]
WholeSlice(J, t, h, d) == <<SliceBy(J, t, h, FirstKeys(LastKey(J, t) + 1), d)>>
Result(J, t, h, d) ==
  IF J.op \in OneOps THEN Merged(WarpSlices(J, t, h, -1), WarpSlices(J, t, h, d))
  ELSE IF J.op = TiledOp THEN Merged(WholeSlice(J, t, h, -1), WholeSlice(J, t, h, d))
  ELSE Merged(Parts(J, t, h, 0), Parts(J, t, h, 2 + d))

-----------------------------------------------------------------------------
(* The invariant                                                           *)

\* The CTAs that wait, and the phase that a warp of a CTA is in.
Waits(s) == UNION {s[i] : i \in DOMAIN s}
PhaseIn(s, c, a, g, w) == IF g \in Waits(s) THEN 0 ELSE IF c = g THEN a[w] ELSE End

\* The CTAs of a launch run one by one, those that merge when the others are done.
Scheduled(J, s, c, a, r) ==
  /\ \/ s = <<>>
     \/ \E A \in SUBSET LastGrid(J) : s = <<A>>
     \/ J.op \in SplitOps /\ \E A \in SUBSET FirstGrid(J) : s = <<A, MergeGrid(J)>>
  /\ \/ c = Idle
     \/ /\ c \in (FirstGrid(J) \cup MergeGrid(J)) \ Waits(s)
        /\ a \in [0 .. c.warps - 1 -> PhasesOf(J, c.kernel)]
        /\ DOMAIN r = 0 .. c.warps - 1
  /\ c \in FirstGrid(J) => MergeGrid(J) \subseteq Waits(s)

\* A row of the output is the query until it is the result.
RowIs(J, m, t, h, done) ==
  \A d \in DimsOf(J) : Read(m, XCell(J, t, h, d)) = IF done THEN Result(J, t, h, d) ELSE Raw(XCell(J, t, h, d))
Passed(p, q) == p = End \/ p >= q

\* attn_kernel: every warp writes the whole row, when all have their slices.
OneMem(J, s, c, a, m) ==
  \A t \in TokensOf(J), h \in HeadsOf(J) :
    RowIs(J, m, t, h, \E w \in 0 .. Warps - 1 : PhaseIn(s, c, a, OneCta(t, h), w) = End)
OneLocal(J, c, a, l) ==
  /\ \A v \in 0 .. Warps - 1 : a[v] # 0 =>
       \A d \in DimsOf(J) \cup {-1} :
         Read(l, <<"slice", v, d>>) = SliceBy(J, c.y, c.x, Walk(v, Warps, LastKey(J, c.y)), d)
  /\ (\E v \in 0 .. Warps - 1 : a[v] = End) => \A v \in 0 .. Warps - 1 : a[v] # 0

\* attn_split_kernel and attn_merge_kernel: the warp that writes place o of a part,
\* and what is in the LDS of the phases that the warps have passed.
PartWarp(J, o) == IF o < 2 THEN 0 ELSE ((o - 2) % (WarpsOf(J) * Lanes)) \div Lanes
SplitMem(J, s, c, a, m) ==
  /\ \A t \in TokensOf(J), h \in HeadsOf(J) :
       RowIs(J, m, t, h, PhaseIn(s, c, a, MergeCta(t, h), 0) = End)
  /\ \A t \in TokensOf(J), h \in HeadsOf(J), i \in 0 .. J.splits - 1, o \in 0 .. J.dim + 1 :
       PhaseIn(s, c, a, SplitCta(J, t, h, i), PartWarp(J, o)) = End =>
         Read(m, PartCell(J, t, h, i, o)) = PartOf(J, t, h, i, o)
SplitLocal(J, c, a, l) ==
  /\ \A v \in 0 .. WarpsOf(J) - 1 : Passed(a[v], 1) =>
       \A d \in DimsOf(J) \cup {-1} :
         Read(l, <<"slice", v, d>>) = SliceBy(J, c.z, c.x, KeysOf(J, c.z, c.y, v), d)
  /\ Passed(a[0], 2) => Read(l, <<"cmax">>) = MaxOf(J, c.z, c.x, c.y)
  /\ \A v \in 0 .. WarpsOf(J) - 1 : Passed(a[v \div Lanes], 3) =>
       Read(l, <<"wts", v>>) = WeightOf(J, c.z, c.x, c.y, v)

\* attn_fa2_prefill_kernel: a query's heads of a pass are done when the pass is, what a
\* warp has seen, what the rows of the tile it loads hold, and how far it may be ahead.
PassOf(J, h) == (h % GroupOf(J)) \div J.hp
PassDone(J, p, i) == Passed(p, (i + 1) * LengthOf(J))
TileMem(J, s, c, a, m) ==
  \A t \in TokensOf(J), h \in HeadsOf(J) :
    RowIs(J, m, t, h, PassDone(J, PhaseIn(s, c, a, TileCta(J, t, h), t % FaQueries), PassOf(J, h)))
HeadsIn(J, i) == i * J.hp .. (IF (i + 1) * J.hp < GroupOf(J) THEN (i + 1) * J.hp ELSE GroupOf(J)) - 1
InPass(J, p) == IF p = End THEN 0 ELSE p % LengthOf(J)
KeysSeen(J, c, w, p) ==
  LET t == c.y * FaQueries + w
  IN  [hh \in HeadsIn(J, p \div LengthOf(J)) |->
        Slice(<<t, c.x * GroupOf(J) + hh>>, c.x, FirstKeys(SeenAfter(J, t, InPass(J, p) \div 2)), 0)]
Rank(J, p) == IF p = End THEN PassesOf(J) * LengthOf(J) ELSE p
Slack(J, p) == IF InPass(J, p) = 2 * TilesOf(J) THEN 2 ELSE 1
SeenSoFar(J, c, a, r) ==
  \A v \in 0 .. FaQueries - 1 :
    InPass(J, a[v]) # 0 /\ c.y * FaQueries + v \in TokensOf(J) => r[v] = KeysSeen(J, c, v, a[v])
KeyAt(J, p, j) == FaTile * ((InPass(J, p) - 1) \div 2) + j
CacheRow(c, b, key) == [op |-> "row", cache |-> b, key |-> key, kv |-> c.x]
TileIn(J, c, a, l) ==
  \A v \in 0 .. FaQueries - 1, j \in 0 .. FaTile - 1, b \in {"k", "v"} :
    j % FaQueries = v /\ InPass(J, a[v]) # 0 /\ KeyAt(J, a[v], j) < J.keys =>
      Read(l, <<b, j>>) = CacheRow(c, b, KeyAt(J, a[v], j))
Near(J, a) == \A v, w \in 0 .. FaQueries - 1 : Rank(J, a[v]) <= Rank(J, a[w]) + Slack(J, a[w])
TileLocal(J, c, a, r, l) == SeenSoFar(J, c, a, r) /\ TileIn(J, c, a, l) /\ Near(J, a)

Memory(J, s, c, a, m) ==
  /\ J.op \in OneOps => OneMem(J, s, c, a, m)
  /\ J.op \in SplitOps => SplitMem(J, s, c, a, m)
  /\ J.op = TiledOp => TileMem(J, s, c, a, m)
Local(J, c, a, r, l) ==
  /\ c.kernel = "attn" => OneLocal(J, c, a, l)
  /\ c.kernel = "split" => SplitLocal(J, c, a, l)
  /\ c.kernel = "fa2" => TileLocal(J, c, a, r, l)

AttnInv ==
  /\ job \in AttnMade
  /\ Scheduled(job, stream, cta, at, regs)
  /\ Memory(job, stream, cta, at, mem)
  /\ Local(job, cta, at, regs, lds)

LaunchInv ==
  /\ job = None => stream = <<>> /\ cta = Idle /\ mem = <<>>
  /\ "kv" \in DOMAIN job => AttnInv

-----------------------------------------------------------------------------
(* The launches and their grids                                            *)

\* What is known of the arguments of a launch.
LEMMA MadeFacts ==
  ASSUME NEW J \in AttnMade
  PROVE  /\ "kv" \in DOMAIN J /\ J.op \in OneOps \cup SplitOps \cup {TiledOp}
         /\ J.heads \in Nat /\ J.dim \in Nat /\ J.pos \in Seq(Nat) /\ Len(J.pos) \in Nat
         /\ \A t \in TokensOf(J) : LastKey(J, t) \in Nat
         /\ WarpsOf(J) \in Nat \ {0}
         /\ J.op \in SplitOps => J.splits \in Nat \ {0}
<1>1. /\ J \in AttnJobs /\ J.op \in OneOps \cup SplitOps \cup {TiledOp}
      /\ J.op \in SplitOps => J.splits >= 1
  BY DEF AttnMade
<1>2. /\ "kv" \in DOMAIN J
      /\ J.heads \in Nat /\ J.dim \in Nat /\ J.pos \in Seq(Nat)
      /\ J.op \in SplitOps => J.splits \in Nat
      /\ J.op = "attn_launch_split_wpb" => J.wpb \in Nat \ {0}
  BY <1>1, AttnJobsAssumption DEF SplitOps
<1>3. Len(J.pos) \in Nat /\ \A t \in TokensOf(J) : LastKey(J, t) \in Nat
  <2>1. Len(J.pos) \in Nat /\ \A i \in 1 .. Len(J.pos) : J.pos[i] \in Nat
    BY <1>2
  <2> QED
    BY <2>1 DEF TokensOf, LastKey
<1>4. WarpsOf(J) \in Nat \ {0}
  BY <1>2, AttnAssumption DEF WarpsOf, SplitWarps
<1>5. J.op \in SplitOps => J.splits \in Nat \ {0}
  BY <1>1, <1>2
<1> QED
  BY <1>1, <1>2, <1>3, <1>4, <1>5

\* The tiled kernel's passes, tiles and keys.
LEMMA TiledFacts ==
  ASSUME NEW J \in AttnMade, J.op = TiledOp
  PROVE  /\ J.kv \in Nat \ {0} /\ J.hp \in Nat \ {0} /\ J.keys \in Nat
         /\ GroupOf(J) \in Nat \ {0} /\ J.heads = J.kv * GroupOf(J)
         /\ TilesOf(J) \in Nat \ {0} /\ LengthOf(J) = 2 * TilesOf(J) + 1 /\ LengthOf(J) \in Nat \ {0}
         /\ PassesOf(J) \in Nat \ {0}
         /\ \A t \in TokensOf(J) : LastKey(J, t) < J.keys /\ LastKey(J, t) + 1 <= FaTile * TilesOf(J)
<1>1. /\ J \in AttnJobs /\ J.heads \div J.kv = FaGroup /\ J.heads % J.kv = 0
  BY DEF AttnMade
<1>2. /\ J.kv \in Nat \ {0} /\ J.hp \in Nat \ {0} /\ J.kmax \in Nat /\ J.keys \in Nat
      /\ J.kmax < J.keys /\ \A i \in 1 .. Len(J.pos) : J.pos[i] <= J.kmax
  BY <1>1, AttnJobsAssumption DEF TiledOp
<1>3. GroupOf(J) \in Nat \ {0} /\ J.heads = J.kv * GroupOf(J)
  <2> DEFINE h == J.heads
             k == J.kv
             g == J.heads \div J.kv
  <2>1. h \in Nat /\ k \in Nat \ {0} /\ g \in Nat \ {0} /\ h % k = 0
    BY <1>1, <1>2, MadeFacts, AttnAssumption
  <2>2. h = (h \div k) * k + (h % k)
    BY <2>1, Division
  <2>3. g = h \div k
    OBVIOUS
  <2> HIDE DEF h, k, g
  <2>4. h = k * g
    BY <2>1, <2>2, <2>3
  <2> QED
    BY <2>1, <2>4 DEF GroupOf, h, k, g
<1>4. TilesOf(J) \in Nat \ {0} /\ J.kmax + 1 <= FaTile * TilesOf(J)
  <2> DEFINE k == J.kmax
             x == k + FaTile
             q == x \div FaTile
             r == x % FaTile
  <2>1. k \in Nat /\ FaTile \in Nat \ {0} /\ x \in Nat
    BY <1>2, AttnAssumption
  <2>2. q \in Nat /\ r \in 0 .. FaTile - 1 /\ x = q * FaTile + r
    BY <2>1, Division
  <2>3. TilesOf(J) = q
    BY DEF TilesOf
  <2> HIDE DEF q, r
  <2>4. q # 0
    <3>1. q = 0 => q * FaTile = 0
      BY <2>1, <2>2
    <3> QED
      BY <2>1, <2>2, <3>1
  <2>5. FaTile * q = q * FaTile /\ q * FaTile \in Nat
    BY <2>1, <2>2
  <2>6. k + 1 <= FaTile * q
    BY <2>1, <2>2, <2>5
  <2> QED
    BY <2>2, <2>3, <2>4, <2>6
<1>5. LengthOf(J) = 2 * TilesOf(J) + 1 /\ LengthOf(J) \in Nat \ {0}
  BY <1>4 DEF LengthOf
<1>6. PassesOf(J) \in Nat \ {0}
  <2>1. 0 \in 0 .. GroupOf(J) - 1
    BY <1>3
  <2>2. Blocks(GroupOf(J), J.hp) \in Nat /\ 0 \div J.hp \in 0 .. Blocks(GroupOf(J), J.hp) - 1
    BY <1>2, <1>3, <2>1, Covered
  <2> QED
    BY <2>2 DEF PassesOf
<1>7. ASSUME NEW t \in TokensOf(J)
      PROVE  LastKey(J, t) < J.keys /\ LastKey(J, t) + 1 <= FaTile * TilesOf(J)
  <2>1. t + 1 \in 1 .. Len(J.pos) /\ LastKey(J, t) \in Nat
    BY MadeFacts DEF TokensOf
  <2>2. LastKey(J, t) <= J.kmax
    BY <1>2, <2>1 DEF LastKey
  <2>3. FaTile * TilesOf(J) \in Nat
    BY <1>4, AttnAssumption
  <2> QED
    BY <1>2, <1>4, <2>1, <2>2, <2>3
<1> QED
  BY <1>2, <1>3, <1>4, <1>5, <1>6, <1>7

\* A grid has a CTA for every place in it.
LEMMA InGrid ==
  ASSUME NEW kernel, NEW warps, NEW xs, NEW ys, NEW zs
  PROVE  /\ \A c \in Grid(kernel, warps, xs, ys, zs) :
              /\ c = CtaOf(kernel, warps, c.x, c.y, c.z) /\ c.kernel = kernel /\ c.warps = warps
              /\ c.x \in 0 .. xs - 1 /\ c.y \in 0 .. ys - 1 /\ c.z \in 0 .. zs - 1
         /\ \A x \in 0 .. xs - 1, y \in 0 .. ys - 1, z \in 0 .. zs - 1 :
              CtaOf(kernel, warps, x, y, z) \in Grid(kernel, warps, xs, ys, zs)
<1>1. Grid(kernel, warps, xs, ys, zs) =
        {CtaOf(kernel, warps, x, y, z) : x \in 0 .. xs - 1, y \in 0 .. ys - 1, z \in 0 .. zs - 1}
  BY DEF Grid, CtaOf
<1>2. \A x, y, z : LET c == CtaOf(kernel, warps, x, y, z)
                   IN  c.kernel = kernel /\ c.warps = warps /\ c.x = x /\ c.y = y /\ c.z = z
  BY DEF CtaOf
<1> QED
  BY <1>1, <1>2

\* The CTAs of a launch.
LEMMA FirstCtas ==
  ASSUME NEW J \in AttnMade, NEW c \in FirstGrid(J)
  PROVE  /\ c.warps = WarpsOf(J) /\ c # Idle
         /\ J.op \in OneOps =>
              c.kernel = "attn" /\ c = OneCta(c.y, c.x) /\ c.x \in HeadsOf(J) /\ c.y \in TokensOf(J)
         /\ J.op \in SplitOps =>
              /\ c.kernel = "split" /\ c = SplitCta(J, c.z, c.x, c.y)
              /\ c.x \in HeadsOf(J) /\ c.y \in 0 .. J.splits - 1 /\ c.z \in TokensOf(J)
         /\ J.op = TiledOp =>
              c.kernel = "fa2" /\ c = CtaOf("fa2", FaQueries, c.x, c.y, 0) /\ c.x \in 0 .. J.kv - 1 /\ c.y \in Nat
<1>1. Idle.kernel = "idle"
  BY DEF Idle
<1>2. CASE J.op \in OneOps
  <2>1. J.op # TiledOp /\ J.op \notin SplitOps
    BY <1>2 DEF OneOps, TiledOp, SplitOps
  <2>2. FirstGrid(J) = Grid("attn", Warps, J.heads, Len(J.pos), 1) /\ WarpsOf(J) = Warps
    BY <1>2 DEF FirstGrid, WarpsOf
  <2>3. /\ c = CtaOf("attn", Warps, c.x, c.y, c.z) /\ c.kernel = "attn" /\ c.warps = Warps
        /\ c.x \in 0 .. J.heads - 1 /\ c.y \in 0 .. Len(J.pos) - 1 /\ c.z \in 0 .. 1 - 1
    BY <2>2, InGrid
  <2>4. c.z = 0
    BY <2>3
  <2> QED
    BY <1>1, <2>1, <2>2, <2>3, <2>4 DEF OneCta, HeadsOf, TokensOf
<1>3. CASE J.op \in SplitOps
  <2>1. J.op # TiledOp /\ J.op \notin OneOps
    BY <1>3 DEF OneOps, TiledOp, SplitOps
  <2>2. FirstGrid(J) = Grid("split", WarpsOf(J), J.heads, J.splits, Len(J.pos))
    BY <2>1 DEF FirstGrid
  <2>3. /\ c = CtaOf("split", WarpsOf(J), c.x, c.y, c.z) /\ c.kernel = "split" /\ c.warps = WarpsOf(J)
        /\ c.x \in 0 .. J.heads - 1 /\ c.y \in 0 .. J.splits - 1 /\ c.z \in 0 .. Len(J.pos) - 1
    BY <2>2, InGrid
  <2> QED
    BY <1>1, <2>1, <2>3 DEF SplitCta, HeadsOf, TokensOf
<1>4. CASE J.op = TiledOp
  <2>1. J.op \notin OneOps /\ J.op \notin SplitOps
    BY <1>4 DEF OneOps, TiledOp, SplitOps
  <2>2. /\ FirstGrid(J) = Grid("fa2", FaQueries, J.kv, Blocks(Len(J.pos), FaQueries), 1)
        /\ WarpsOf(J) = FaQueries
    BY <1>4, <2>1 DEF FirstGrid, WarpsOf
  <2>3. /\ c = CtaOf("fa2", FaQueries, c.x, c.y, c.z) /\ c.kernel = "fa2" /\ c.warps = FaQueries
        /\ c.x \in 0 .. J.kv - 1 /\ c.y \in 0 .. Blocks(Len(J.pos), FaQueries) - 1 /\ c.z \in 0 .. 1 - 1
    BY <2>2, InGrid
  <2>4. c.z = 0 /\ c.y \in Nat
    BY <2>3
  <2> QED
    BY <1>1, <2>1, <2>2, <2>3, <2>4
<1> QED
  BY <1>2, <1>3, <1>4, MadeFacts

LEMMA MergeCtas ==
  ASSUME NEW J \in AttnMade, NEW c \in MergeGrid(J)
  PROVE  /\ J.op \in SplitOps /\ c.kernel = "merge" /\ c.warps = 1 /\ c # Idle
         /\ c = MergeCta(c.y, c.x) /\ c.x \in HeadsOf(J) /\ c.y \in TokensOf(J)
         /\ c \notin FirstGrid(J)
<1>1. J.op \in SplitOps /\ MergeGrid(J) = Grid("merge", 1, J.heads, Len(J.pos), 1)
  BY DEF MergeGrid
<1>2. /\ c = CtaOf("merge", 1, c.x, c.y, c.z) /\ c.kernel = "merge" /\ c.warps = 1
      /\ c.x \in 0 .. J.heads - 1 /\ c.y \in 0 .. Len(J.pos) - 1 /\ c.z \in 0 .. 1 - 1
  BY <1>1, InGrid
<1>3. c.z = 0
  BY <1>2
<1>4. c # Idle
  BY <1>2 DEF Idle
<1>5. c \notin FirstGrid(J)
  BY <1>1, <1>2, FirstCtas
<1> QED
  BY <1>1, <1>2, <1>3, <1>4, <1>5 DEF MergeCta, HeadsOf, TokensOf

\* The CTAs that work for a row are of the launch.
LEMMA RowCtas ==
  ASSUME NEW J \in AttnMade, NEW t \in TokensOf(J), NEW h \in HeadsOf(J)
  PROVE  /\ J.op \in OneOps => OneCta(t, h) \in FirstGrid(J)
         /\ J.op \in SplitOps =>
              /\ MergeCta(t, h) \in MergeGrid(J)
              /\ \A i \in 0 .. J.splits - 1 : SplitCta(J, t, h, i) \in FirstGrid(J)
         /\ J.op = TiledOp =>
              TileCta(J, t, h) \in FirstGrid(J) /\ t % FaQueries \in 0 .. FaQueries - 1
<1>1. t \in 0 .. Len(J.pos) - 1 /\ h \in 0 .. J.heads - 1 /\ 0 \in 0 .. 1 - 1
  BY DEF TokensOf, HeadsOf
<1>2. CASE J.op \in OneOps
  <2>1. J.op # TiledOp /\ J.op \notin SplitOps
    BY <1>2 DEF OneOps, TiledOp, SplitOps
  <2>2. FirstGrid(J) = Grid("attn", Warps, J.heads, Len(J.pos), 1)
    BY <1>2 DEF FirstGrid
  <2>3. CtaOf("attn", Warps, h, t, 0) \in Grid("attn", Warps, J.heads, Len(J.pos), 1)
    BY <1>1, InGrid
  <2> QED
    BY <2>1, <2>2, <2>3 DEF OneCta
<1>3. CASE J.op \in SplitOps
  <2>1. J.op # TiledOp /\ J.op \notin OneOps
    BY <1>3 DEF OneOps, TiledOp, SplitOps
  <2>2. /\ FirstGrid(J) = Grid("split", WarpsOf(J), J.heads, J.splits, Len(J.pos))
        /\ MergeGrid(J) = Grid("merge", 1, J.heads, Len(J.pos), 1)
    BY <1>3, <2>1 DEF FirstGrid, MergeGrid
  <2>3. \A i \in 0 .. J.splits - 1 :
          CtaOf("split", WarpsOf(J), h, i, t) \in Grid("split", WarpsOf(J), J.heads, J.splits, Len(J.pos))
    BY <1>1, InGrid
  <2>4. CtaOf("merge", 1, h, t, 0) \in Grid("merge", 1, J.heads, Len(J.pos), 1)
    BY <1>1, InGrid
  <2> QED
    BY <2>1, <2>2, <2>3, <2>4 DEF MergeCta, SplitCta
<1>4. CASE J.op = TiledOp
  <2>1. J.op \notin OneOps /\ J.op \notin SplitOps
    BY <1>4 DEF OneOps, TiledOp, SplitOps
  <2>2. FirstGrid(J) = Grid("fa2", FaQueries, J.kv, Blocks(Len(J.pos), FaQueries), 1)
    BY <1>4, <2>1 DEF FirstGrid
  <2>3. t \div FaQueries \in 0 .. Blocks(Len(J.pos), FaQueries) - 1 /\ t % FaQueries \in 0 .. FaQueries - 1
    <3>1. t \in Nat /\ FaQueries \in Nat \ {0}
      BY <1>1, AttnAssumption
    <3> QED
      BY <1>1, <3>1, MadeFacts, Covered, Division
  <2>4. h \div GroupOf(J) \in 0 .. J.kv - 1
    <3> DEFINE g == GroupOf(J)
               k == J.kv
               q == h \div g
               r == h % g
    <3>1. g \in Nat \ {0} /\ k \in Nat \ {0} /\ h \in Nat /\ h < k * g
      BY <1>1, <1>4, TiledFacts
    <3> HIDE DEF g, k
    <3>2. q \in Nat /\ r \in 0 .. g - 1 /\ h = q * g + r
      BY <3>1, Division
    <3> HIDE DEF q, r
    <3>3. ~(q >= k)
      <4>1. ASSUME q >= k
            PROVE  FALSE
        <5>1. PICK e \in Nat : q = k + e
          <6>1. q - k \in Nat /\ q = k + (q - k)
            BY <3>1, <3>2, <4>1
          <6> QED
            BY <6>1
        <5>2. q * g = k * g + e * g /\ k * g \in Nat /\ e * g \in Nat
          BY <3>1, <5>1
        <5> QED
          BY <3>1, <3>2, <5>2
      <4> QED
        BY <4>1
    <3>4. q \in 0 .. k - 1
      BY <3>1, <3>2, <3>3
    <3> QED
      BY <3>4 DEF q, k, g
  <2>5. CtaOf("fa2", FaQueries, h \div GroupOf(J), t \div FaQueries, 0)
          \in Grid("fa2", FaQueries, J.kv, Blocks(Len(J.pos), FaQueries), 1)
    BY <1>1, <2>3, <2>4, InGrid
  <2> QED
    BY <2>1, <2>2, <2>3, <2>5 DEF TileCta
<1> QED
  BY <1>2, <1>3, <1>4, MadeFacts


\* A head is in the pass of the heads that it is among.
LEMMA PassOfIs ==
  ASSUME NEW J \in AttnMade, J.op = TiledOp, NEW h \in HeadsOf(J)
  PROVE  /\ h \div GroupOf(J) \in Nat /\ h % GroupOf(J) \in 0 .. GroupOf(J) - 1
         /\ h = (h \div GroupOf(J)) * GroupOf(J) + (h % GroupOf(J))
         /\ PassOf(J, h) \in 0 .. PassesOf(J) - 1
         /\ h % GroupOf(J) \in HeadsIn(J, PassOf(J, h))
<1> DEFINE g == GroupOf(J)
           n == J.hp
           i == h % g
           q == i \div n
           r == i % n
<1>1. g \in Nat \ {0} /\ n \in Nat \ {0} /\ h \in Nat
  BY TiledFacts, MadeFacts DEF HeadsOf
<1>2. h \div g \in Nat /\ i \in 0 .. g - 1 /\ h = (h \div g) * g + i
  BY <1>1, Division
<1>3. q \in 0 .. Blocks(g, n) - 1
  BY <1>1, <1>2, Covered
<1>4. i \in Nat
  BY <1>1, <1>2
<1> HIDE DEF i
<1>5. q \in Nat /\ r \in 0 .. n - 1 /\ i = q * n + r
  BY <1>1, <1>4, Division
<1>6. i \in HeadsIn(J, q)
  <2> HIDE DEF q, r, g
  <2>1. (q + 1) * n = q * n + n /\ q * n \in Nat
    BY <1>1, <1>5
  <2>2. i >= q * n /\ i < (q + 1) * n /\ i < g /\ i >= 0
    BY <1>1, <1>2, <1>5, <2>1
  <2> QED
    BY <1>1, <1>4, <2>1, <2>2 DEF HeadsIn, g, n
<1>7. PassOf(J, h) = q /\ PassesOf(J) = Blocks(g, n)
  BY DEF PassOf, PassesOf, i
<1> QED
  BY <1>2, <1>3, <1>6, <1>7 DEF i

-----------------------------------------------------------------------------
(* One CTA after the other                                                 *)

\* The phases of all warps are what they were.
SamePhases(J, s, c, a, s2, c2, a2) ==
  \A g \in FirstGrid(J) \cup MergeGrid(J) : \A w \in 0 .. g.warps - 1 :
    PhaseIn(s2, c2, a2, g, w) = PhaseIn(s, c, a, g, w)

LEMMA PartWarpIn ==
  ASSUME NEW J \in AttnMade, NEW o \in 0 .. J.dim + 1
  PROVE  PartWarp(J, o) \in 0 .. WarpsOf(J) - 1
<1>1. WarpsOf(J) \in Nat \ {0} /\ Lanes \in Nat \ {0} /\ J.dim \in Nat
  BY MadeFacts, LanesAssumption
<1>2. CASE o < 2
  BY <1>1, <1>2 DEF PartWarp
<1>3. CASE ~(o < 2)
  <2> DEFINE n == WarpsOf(J)
             t == (o - 2) % (n * Lanes)
  <2>1. n * Lanes \in Nat \ {0}
    <3>1. PICK k \in Nat : n = k + 1
      <4>1. n - 1 \in Nat /\ n = (n - 1) + 1
        BY <1>1
      <4> QED
        BY <4>1
    <3> HIDE DEF n
    <3>2. n * Lanes = k * Lanes + Lanes /\ k * Lanes \in Nat
      BY <1>1, <3>1
    <3> QED
      BY <1>1, <3>2
  <2>2. o - 2 \in Nat
    BY <1>1, <1>3
  <2> HIDE DEF n
  <2>3. t \in 0 .. n * Lanes - 1
    BY <2>1, <2>2, Division
  <2> HIDE DEF t
  <2>4. t \div Lanes \in 0 .. n - 1
    <3>1. t \in Nat /\ t \div Lanes \in Nat /\ t % Lanes \in 0 .. Lanes - 1
          /\ t = (t \div Lanes) * Lanes + (t % Lanes)
      <4>1. t \in Nat
        BY <2>1, <2>3
      <4> QED
        BY <1>1, <4>1, Division
    <3> DEFINE q == t \div Lanes
    <3>2. q \in Nat /\ n \in Nat
      BY <1>1, <3>1 DEF n
    <3>3. q * Lanes <= t
      BY <1>1, <3>1
    <3> HIDE DEF q
    <3>4. ~(q >= n)
      <4>1. ASSUME q >= n
            PROVE  FALSE
        <5>1. PICK e \in Nat : q = n + e
          <6>1. q - n \in Nat /\ q = n + (q - n)
            BY <3>2, <4>1
          <6> QED
            BY <6>1
        <5>2. q * Lanes = n * Lanes + e * Lanes /\ e * Lanes \in Nat /\ n * Lanes \in Nat
          BY <1>1, <3>2, <5>1
        <5> QED
          BY <2>3, <3>1, <3>3, <5>2
      <4> QED
        BY <4>1
    <3> QED
      BY <3>2, <3>4 DEF q
  <2>5. PartWarp(J, o) = t \div Lanes
    BY <1>3 DEF PartWarp, t, n
  <2> QED
    BY <2>4, <2>5 DEF n
<1> QED
  BY <1>2, <1>3

LEMMA MemoryKept ==
  ASSUME NEW J \in AttnMade, NEW s, NEW c, NEW a, NEW s2, NEW c2, NEW a2, NEW m,
         SamePhases(J, s, c, a, s2, c2, a2), Memory(J, s, c, a, m)
  PROVE  Memory(J, s2, c2, a2, m)
<1>1. \A g \in FirstGrid(J) \cup MergeGrid(J) : \A w \in 0 .. g.warps - 1 :
        PhaseIn(s2, c2, a2, g, w) = PhaseIn(s, c, a, g, w)
  BY DEF SamePhases
<1>2. CASE J.op \in OneOps
  <2>1. J.op # TiledOp /\ J.op \notin SplitOps
    BY <1>2 DEF OneOps, TiledOp, SplitOps
  <2>2. ASSUME NEW t \in TokensOf(J), NEW h \in HeadsOf(J), NEW w \in 0 .. Warps - 1
        PROVE  PhaseIn(s2, c2, a2, OneCta(t, h), w) = PhaseIn(s, c, a, OneCta(t, h), w)
    <3>1. OneCta(t, h) \in FirstGrid(J) /\ OneCta(t, h).warps = Warps
      BY <1>2, RowCtas DEF OneCta, CtaOf
    <3> QED
      BY <1>1, <3>1
  <2>3. OneMem(J, s, c, a, m)
    BY <1>2 DEF Memory
  <2>4. OneMem(J, s2, c2, a2, m)
    BY ZenonT(60), <2>2, <2>3 DEF OneMem
  <2> QED
    BY <2>1, <2>4 DEF Memory
<1>3. CASE J.op \in SplitOps
  <2>1. J.op # TiledOp /\ J.op \notin OneOps
    BY <1>3 DEF OneOps, TiledOp, SplitOps
  <2>2. ASSUME NEW t \in TokensOf(J), NEW h \in HeadsOf(J)
        PROVE  PhaseIn(s2, c2, a2, MergeCta(t, h), 0) = PhaseIn(s, c, a, MergeCta(t, h), 0)
    <3>1. MergeCta(t, h) \in MergeGrid(J) /\ MergeCta(t, h).warps = 1
      BY <1>3, RowCtas DEF MergeCta, CtaOf
    <3>2. 0 \in 0 .. 1 - 1
      OBVIOUS
    <3> QED
      BY <1>1, <3>1, <3>2
  <2>3. ASSUME NEW t \in TokensOf(J), NEW h \in HeadsOf(J), NEW i \in 0 .. J.splits - 1,
               NEW o \in 0 .. J.dim + 1
        PROVE  PhaseIn(s2, c2, a2, SplitCta(J, t, h, i), PartWarp(J, o)) =
                 PhaseIn(s, c, a, SplitCta(J, t, h, i), PartWarp(J, o))
    <3>1. SplitCta(J, t, h, i) \in FirstGrid(J) /\ SplitCta(J, t, h, i).warps = WarpsOf(J)
      BY <1>3, RowCtas DEF SplitCta, CtaOf
    <3> QED
      BY <1>1, <3>1, PartWarpIn
  <2>4. SplitMem(J, s, c, a, m)
    BY <1>3 DEF Memory
  <2>5. SplitMem(J, s2, c2, a2, m)
    BY <2>2, <2>3, <2>4 DEF SplitMem
  <2> QED
    BY <2>1, <2>5 DEF Memory
<1>4. CASE J.op = TiledOp
  <2>1. J.op \notin OneOps /\ J.op \notin SplitOps
    BY <1>4 DEF OneOps, TiledOp, SplitOps
  <2>2. ASSUME NEW t \in TokensOf(J), NEW h \in HeadsOf(J)
        PROVE  PhaseIn(s2, c2, a2, TileCta(J, t, h), t % FaQueries) =
                 PhaseIn(s, c, a, TileCta(J, t, h), t % FaQueries)
    <3>1. /\ TileCta(J, t, h) \in FirstGrid(J) /\ TileCta(J, t, h).warps = FaQueries
          /\ t % FaQueries \in 0 .. FaQueries - 1
      BY <1>4, RowCtas DEF TileCta, CtaOf
    <3> QED
      BY <1>1, <3>1
  <2>3. TileMem(J, s, c, a, m)
    BY <1>4 DEF Memory
  <2>4. TileMem(J, s2, c2, a2, m)
    BY <2>2, <2>3 DEF TileMem
  <2> QED
    BY <2>1, <2>4 DEF Memory
<1> QED
  BY <1>2, <1>3, <1>4, MadeFacts

\* The CTAs of a stream.
LEMMA WaitsOf ==
  /\ Waits(<<>>) = {}
  /\ \A A : Waits(<<A>>) = A
  /\ \A A, B : Waits(<<A, B>>) = A \cup B
<1>1. Waits(<<>>) = {}
  BY DEF Waits
<1>2. ASSUME NEW A
      PROVE  Waits(<<A>>) = A
  <2>1. DOMAIN <<A>> = {1} /\ <<A>>[1] = A
    OBVIOUS
  <2> QED
    BY <2>1 DEF Waits
<1>3. ASSUME NEW A, NEW B
      PROVE  Waits(<<A, B>>) = A \cup B
  <2>1. DOMAIN <<A, B>> = {1, 2} /\ <<A, B>>[1] = A /\ <<A, B>>[2] = B
    OBVIOUS
  <2> QED
    BY <2>1 DEF Waits
<1> QED
  BY <1>1, <1>2, <1>3

\* A CTA starts: it no longer waits, and no warp of it has done anything.
LEMMA TakeCta ==
  ASSUME NEW J \in AttnMade, NEW s, NEW a, NEW r, Scheduled(J, s, Idle, a, r), s # <<>>,
         NEW c \in Head(s), NEW s2, s2 = IF Head(s) = {c} THEN Tail(s) ELSE [s EXCEPT ![1] = @ \ {c}],
         NEW a2, a2 = [w \in 0 .. c.warps - 1 |-> 0],
         NEW r2, r2 = [w \in 0 .. c.warps - 1 |-> <<>>]
  PROVE  /\ Scheduled(J, s2, c, a2, r2)
         /\ SamePhases(J, s, Idle, a, s2, c, a2)
<1>1. /\ c \in Waits(s) /\ Waits(s2) = Waits(s) \ {c}
      /\ c \in FirstGrid(J) \cup MergeGrid(J)
      /\ \/ s2 = <<>>
         \/ \E A \in SUBSET LastGrid(J) : s2 = <<A>>
         \/ J.op \in SplitOps /\ \E A \in SUBSET FirstGrid(J) : s2 = <<A, MergeGrid(J)>>
      /\ c \in FirstGrid(J) => MergeGrid(J) \subseteq Waits(s2)
  <2>1. CASE \E A \in SUBSET LastGrid(J) : s = <<A>>
    <3>1. PICK A \in SUBSET LastGrid(J) : s = <<A>>
      BY <2>1
    <3>2. Head(s) = A /\ Tail(s) = <<>> /\ [s EXCEPT ![1] = @ \ {c}] = <<A \ {c}>>
      BY <3>1
    <3>3. Waits(s) = A
      BY <3>1, WaitsOf
    <3>4. Waits(s2) = A \ {c}
      <4>1. CASE A = {c}
        BY <3>2, <4>1, WaitsOf
      <4>2. CASE A # {c}
        BY <3>2, <4>2, WaitsOf
      <4> QED
        BY <4>1, <4>2
    <3>5. s2 = <<>> \/ \E B \in SUBSET LastGrid(J) : s2 = <<B>>
      BY <3>1, <3>2
    <3>6. c \in FirstGrid(J) => MergeGrid(J) = {}
      <4>1. c \in LastGrid(J)
        BY <3>1, <3>2
      <4> QED
        BY <4>1, MergeCtas DEF LastGrid, MergeGrid
    <3>7. c \in FirstGrid(J) \cup MergeGrid(J)
      BY <3>1, <3>2 DEF LastGrid
    <3> QED
      BY <3>2, <3>3, <3>4, <3>5, <3>6, <3>7
  <2>2. CASE J.op \in SplitOps /\ \E A \in SUBSET FirstGrid(J) : s = <<A, MergeGrid(J)>>
    <3> DEFINE M == MergeGrid(J)
    <3>1. PICK A \in SUBSET FirstGrid(J) : s = <<A, M>>
      BY <2>2
    <3>2. LastGrid(J) = M /\ A \cap M = {}
      BY <2>2, MergeCtas DEF LastGrid
    <3> HIDE DEF M
    <3>3. Head(s) = A /\ Tail(s) = <<M>> /\ [s EXCEPT ![1] = @ \ {c}] = <<A \ {c}, M>>
      BY <3>1
    <3>4. Waits(s) = A \cup M
      BY <3>1, WaitsOf
    <3>5. Waits(s2) = (A \ {c}) \cup M
      <4>1. CASE A = {c}
        BY <3>3, <4>1, WaitsOf
      <4>2. CASE A # {c}
        BY <3>3, <4>2, WaitsOf
      <4> QED
        BY <4>1, <4>2
    <3>6. c \in A /\ c \notin M
      BY <3>2, <3>3
    <3>7. Waits(s2) = Waits(s) \ {c}
      BY <3>4, <3>5, <3>6
    <3>8. \/ \E B \in SUBSET LastGrid(J) : s2 = <<B>>
          \/ \E B \in SUBSET FirstGrid(J) : s2 = <<B, M>>
      BY <3>1, <3>2, <3>3
    <3> QED
      BY <2>2, <3>1, <3>4, <3>5, <3>6, <3>7, <3>8 DEF M
  <2> QED
    BY <2>1, <2>2 DEF Scheduled
<1>2. 0 \in PhasesOf(J, c.kernel)
  <2>1. c \in FirstGrid(J) => c.kernel \in {"attn", "split", "fa2"} /\ (c.kernel = "fa2" => J.op = TiledOp)
    BY FirstCtas, MadeFacts DEF OneOps, SplitOps, TiledOp
  <2>2. c \in MergeGrid(J) => c.kernel = "merge"
    BY MergeCtas
  <2>3. ASSUME J.op = TiledOp
        PROVE  0 \in 0 .. PassesOf(J) * LengthOf(J) - 1
    <3> DEFINE x == PassesOf(J)
               y == LengthOf(J)
    <3>1. x \in Nat \ {0} /\ y \in Nat \ {0}
      BY <2>3, TiledFacts
    <3> HIDE DEF x, y
    <3>2. PICK k \in Nat : x = k + 1
      <4>1. x - 1 \in Nat /\ x = (x - 1) + 1
        BY <3>1
      <4> QED
        BY <4>1
    <3>3. x * y = k * y + y /\ k * y \in Nat
      BY <3>1, <3>2
    <3>4. 0 \in 0 .. x * y - 1
      BY <3>1, <3>3
    <3> QED
      BY <3>4 DEF x, y
  <2> QED
    BY <1>1, <2>1, <2>2, <2>3 DEF PhasesOf
<1>3. a2 \in [0 .. c.warps - 1 -> PhasesOf(J, c.kernel)] /\ DOMAIN r2 = 0 .. c.warps - 1
  BY <1>2
<1>4. Scheduled(J, s2, c, a2, r2)
  BY <1>1, <1>3 DEF Scheduled
<1>5. SamePhases(J, s, Idle, a, s2, c, a2)
  <2> SUFFICES ASSUME NEW g \in FirstGrid(J) \cup MergeGrid(J), NEW w \in 0 .. g.warps - 1
               PROVE  PhaseIn(s2, c, a2, g, w) = PhaseIn(s, Idle, a, g, w)
    BY DEF SamePhases
  <2>1. g # Idle
    BY FirstCtas, MergeCtas
  <2>2. CASE g = c
    <3>1. PhaseIn(s, Idle, a, g, w) = 0
      BY <1>1, <2>2 DEF PhaseIn
    <3>2. PhaseIn(s2, c, a2, g, w) = 0
      BY <1>1, <2>2 DEF PhaseIn
    <3> QED
      BY <3>1, <3>2
  <2>3. CASE g # c
    <3>1. g \in Waits(s2) <=> g \in Waits(s)
      BY <1>1, <2>3
    <3> QED
      BY <2>1, <2>3, <3>1 DEF PhaseIn
  <2> QED
    BY <2>2, <2>3
<1> QED
  BY <1>4, <1>5

\* A CTA ends: all its warps have returned.
LEMMA EndCta ==
  ASSUME NEW J \in AttnMade, NEW s, NEW c, NEW a, NEW r, Scheduled(J, s, c, a, r), c # Idle,
         \A w \in DOMAIN a : a[w] = End
  PROVE  /\ Scheduled(J, s, Idle, <<>>, <<>>)
         /\ SamePhases(J, s, c, a, s, Idle, <<>>)
<1>1. DOMAIN a = 0 .. c.warps - 1
  BY DEF Scheduled
<1>2. Idle \notin FirstGrid(J) \cup MergeGrid(J)
  BY FirstCtas, MergeCtas
<1>3. Scheduled(J, s, Idle, <<>>, <<>>)
  BY <1>2 DEF Scheduled
<1>4. ASSUME NEW g \in FirstGrid(J) \cup MergeGrid(J), NEW w \in 0 .. g.warps - 1
      PROVE  PhaseIn(s, Idle, <<>>, g, w) = PhaseIn(s, c, a, g, w)
  BY <1>1, <1>2 DEF PhaseIn
<1> QED
  BY <1>3, <1>4 DEF SamePhases

\* Warp w of c is in phase q now, and the others are where they were.
Moves(J, s, c, a, b, w, q) ==
  \A g \in FirstGrid(J) \cup MergeGrid(J) : \A v \in 0 .. g.warps - 1 :
    PhaseIn(s, c, b, g, v) = IF g = c /\ v = w THEN q ELSE PhaseIn(s, c, a, g, v)

LEMMA GoesTo ==
  ASSUME NEW J \in AttnMade, NEW s, NEW c, NEW a, NEW r, Scheduled(J, s, c, a, r), c # Idle,
         NEW w \in DOMAIN a, NEW q \in PhasesOf(J, c.kernel), NEW r2, DOMAIN r2 = DOMAIN r
  PROVE  /\ Scheduled(J, s, c, [a EXCEPT ![w] = q], r2)
         /\ Moves(J, s, c, a, [a EXCEPT ![w] = q], w, q)
<1>1. /\ c \notin Waits(s) /\ a \in [0 .. c.warps - 1 -> PhasesOf(J, c.kernel)]
      /\ DOMAIN r = 0 .. c.warps - 1
  BY DEF Scheduled
<1> DEFINE b == [a EXCEPT ![w] = q]
<1>2. b \in [0 .. c.warps - 1 -> PhasesOf(J, c.kernel)]
  BY <1>1
<1>3. \A v \in 0 .. c.warps - 1 : b[v] = IF v = w THEN q ELSE a[v]
  BY <1>1
<1> HIDE DEF b
<1>4. Scheduled(J, s, c, b, r2)
  BY <1>1, <1>2 DEF Scheduled
<1>5. Moves(J, s, c, a, b, w, q)
  BY <1>1, <1>3 DEF PhaseIn, Moves
<1> QED
  BY <1>4, <1>5 DEF b

\* The CTA that runs, and the phases of its warps.
LEMMA NowRunning ==
  ASSUME NEW J \in AttnMade, NEW s, NEW c, NEW a, NEW r, Scheduled(J, s, c, a, r), c # Idle
  PROVE  /\ c \in FirstGrid(J) \cup MergeGrid(J) /\ c \notin Waits(s)
         /\ a \in [0 .. c.warps - 1 -> PhasesOf(J, c.kernel)] /\ DOMAIN r = 0 .. c.warps - 1
         /\ \A v \in 0 .. c.warps - 1 : PhaseIn(s, c, a, c, v) = a[v]
<1>1. /\ c \in FirstGrid(J) \cup MergeGrid(J) /\ c \notin Waits(s)
      /\ a \in [0 .. c.warps - 1 -> PhasesOf(J, c.kernel)] /\ DOMAIN r = 0 .. c.warps - 1
  BY DEF Scheduled
<1>2. \A v \in 0 .. c.warps - 1 : PhaseIn(s, c, a, c, v) = a[v]
  BY <1>1 DEF PhaseIn
<1> QED
  BY <1>1, <1>2

\* A phase that ends without a store to memory leaves the memory as it must be.
LEMMA MemoryStays ==
  ASSUME NEW J \in AttnMade, NEW s, NEW c \in FirstGrid(J) \cup MergeGrid(J), NEW a, NEW b, NEW m,
         NEW w \in 0 .. c.warps - 1, NEW q, Moves(J, s, c, a, b, w, q), Memory(J, s, c, a, m),
         PhaseIn(s, c, a, c, w) # End, q # End,
         c.kernel = "fa2" => \A i \in Nat : PassDone(J, q, i) <=> PassDone(J, PhaseIn(s, c, a, c, w), i)
  PROVE  Memory(J, s, c, b, m)
<1>1. \A g \in FirstGrid(J) \cup MergeGrid(J) : \A v \in 0 .. g.warps - 1 :
        /\ PhaseIn(s, c, b, g, v) = End <=> PhaseIn(s, c, a, g, v) = End
        /\ g.kernel = "fa2" => \A i \in Nat : PassDone(J, PhaseIn(s, c, b, g, v), i)
                                 <=> PassDone(J, PhaseIn(s, c, a, g, v), i)
  BY DEF Moves
<1>2. CASE J.op \in OneOps
  <2>1. J.op # TiledOp /\ J.op \notin SplitOps
    BY <1>2 DEF OneOps, TiledOp, SplitOps
  <2>2. ASSUME NEW t \in TokensOf(J), NEW h \in HeadsOf(J), NEW v \in 0 .. Warps - 1
        PROVE  PhaseIn(s, c, b, OneCta(t, h), v) = End <=> PhaseIn(s, c, a, OneCta(t, h), v) = End
    <3>1. OneCta(t, h) \in FirstGrid(J) /\ OneCta(t, h).warps = Warps
      BY <1>2, RowCtas DEF OneCta, CtaOf
    <3> QED
      BY <1>1, <3>1
  <2>3. OneMem(J, s, c, a, m)
    BY <1>2 DEF Memory
  <2>4. OneMem(J, s, c, b, m)
    BY <2>2, <2>3 DEF OneMem, RowIs
  <2> QED
    BY <2>1, <2>4 DEF Memory
<1>3. CASE J.op \in SplitOps
  <2>1. J.op # TiledOp /\ J.op \notin OneOps
    BY <1>3 DEF OneOps, TiledOp, SplitOps
  <2>2. ASSUME NEW t \in TokensOf(J), NEW h \in HeadsOf(J)
        PROVE  PhaseIn(s, c, b, MergeCta(t, h), 0) = End <=> PhaseIn(s, c, a, MergeCta(t, h), 0) = End
    <3>1. MergeCta(t, h) \in MergeGrid(J) /\ MergeCta(t, h).warps = 1
      BY <1>3, RowCtas DEF MergeCta, CtaOf
    <3>2. 0 \in 0 .. 1 - 1
      OBVIOUS
    <3> QED
      BY <1>1, <3>1, <3>2
  <2>3. ASSUME NEW t \in TokensOf(J), NEW h \in HeadsOf(J), NEW i \in 0 .. J.splits - 1,
               NEW o \in 0 .. J.dim + 1
        PROVE  PhaseIn(s, c, b, SplitCta(J, t, h, i), PartWarp(J, o)) = End <=>
                 PhaseIn(s, c, a, SplitCta(J, t, h, i), PartWarp(J, o)) = End
    <3>1. SplitCta(J, t, h, i) \in FirstGrid(J) /\ SplitCta(J, t, h, i).warps = WarpsOf(J)
      BY <1>3, RowCtas DEF SplitCta, CtaOf
    <3> QED
      BY <1>1, <3>1, PartWarpIn
  <2>4. SplitMem(J, s, c, a, m)
    BY <1>3 DEF Memory
  <2>5. SplitMem(J, s, c, b, m)
    BY <2>2, <2>3, <2>4 DEF SplitMem, RowIs
  <2> QED
    BY <2>1, <2>5 DEF Memory
<1>4. CASE J.op = TiledOp
  <2>1. J.op \notin OneOps /\ J.op \notin SplitOps
    BY <1>4 DEF OneOps, TiledOp, SplitOps
  <2>2. ASSUME NEW t \in TokensOf(J), NEW h \in HeadsOf(J)
        PROVE  PassDone(J, PhaseIn(s, c, b, TileCta(J, t, h), t % FaQueries), PassOf(J, h)) <=>
                 PassDone(J, PhaseIn(s, c, a, TileCta(J, t, h), t % FaQueries), PassOf(J, h))
    <3>1. /\ TileCta(J, t, h) \in FirstGrid(J) /\ TileCta(J, t, h).warps = FaQueries
          /\ TileCta(J, t, h).kernel = "fa2" /\ t % FaQueries \in 0 .. FaQueries - 1
      BY <1>4, RowCtas DEF TileCta, CtaOf
    <3>2. PassOf(J, h) \in Nat
      BY <1>4, PassOfIs
    <3> QED
      BY <1>1, <3>1, <3>2
  <2>3. TileMem(J, s, c, a, m)
    BY <1>4 DEF Memory
  <2>4. TileMem(J, s, c, b, m)
    BY <2>2, <2>3 DEF TileMem, RowIs
  <2> QED
    BY <2>1, <2>4 DEF Memory
<1> QED
  BY <1>2, <1>3, <1>4, MadeFacts

-----------------------------------------------------------------------------
(* The cells of the rows and of the parts                                  *)

\* A cell belongs to one row, and to one part.
LEMMA XCellsApart ==
  ASSUME NEW J \in AttnMade, NEW t1 \in TokensOf(J), NEW t2 \in TokensOf(J),
         NEW h1 \in HeadsOf(J), NEW h2 \in HeadsOf(J), NEW d1 \in DimsOf(J), NEW d2 \in DimsOf(J),
         XCell(J, t1, h1, d1) = XCell(J, t2, h2, d2)
  PROVE  t1 = t2 /\ h1 = h2 /\ d1 = d2
<1>1. /\ t1 \in Nat /\ t2 \in Nat /\ J.heads \in Nat /\ J.dim \in Nat
      /\ h1 \in 0 .. J.heads - 1 /\ h2 \in 0 .. J.heads - 1
      /\ d1 \in 0 .. J.dim - 1 /\ d2 \in 0 .. J.dim - 1
  <2>1. J.heads \in Nat /\ J.dim \in Nat /\ Len(J.pos) \in Nat
    BY MadeFacts
  <2> QED
    BY <2>1 DEF TokensOf, HeadsOf, DimsOf
<1> DEFINE a1 == t1 * J.heads + h1
           a2 == t2 * J.heads + h2
<1>2. a1 \in Nat /\ a2 \in Nat
  BY <1>1
<1>3. a1 * J.dim + d1 = a2 * J.dim + d2
  BY DEF XCell, RowAt
<1>4. a1 = a2 /\ d1 = d2
  <2> HIDE DEF a1, a2
  <2> QED
    BY <1>1, <1>2, <1>3, OneAnswer
<1>5. t1 = t2 /\ h1 = h2
  BY <1>1, <1>4, OneAnswer
<1> QED
  BY <1>4, <1>5

LEMMA PartCellsApart ==
  ASSUME NEW J \in AttnMade, J.op \in SplitOps, NEW t1 \in TokensOf(J), NEW t2 \in TokensOf(J),
         NEW h1 \in HeadsOf(J), NEW h2 \in HeadsOf(J),
         NEW s1 \in 0 .. J.splits - 1, NEW s2 \in 0 .. J.splits - 1,
         NEW o1 \in 0 .. J.dim + 1, NEW o2 \in 0 .. J.dim + 1,
         PartCell(J, t1, h1, s1, o1) = PartCell(J, t2, h2, s2, o2)
  PROVE  t1 = t2 /\ h1 = h2 /\ s1 = s2 /\ o1 = o2
<1>1. /\ t1 \in Nat /\ t2 \in Nat /\ J.heads \in Nat /\ J.dim \in Nat /\ J.splits \in Nat
      /\ h1 \in 0 .. J.heads - 1 /\ h2 \in 0 .. J.heads - 1
      /\ 2 + J.dim \in Nat /\ o1 \in 0 .. (2 + J.dim) - 1 /\ o2 \in 0 .. (2 + J.dim) - 1
  <2>1. J.heads \in Nat /\ J.dim \in Nat /\ Len(J.pos) \in Nat /\ J.splits \in Nat
    BY MadeFacts
  <2>2. J.dim + 1 = (2 + J.dim) - 1 /\ 2 + J.dim \in Nat
    BY <2>1
  <2>3. o1 \in 0 .. (2 + J.dim) - 1 /\ o2 \in 0 .. (2 + J.dim) - 1
    BY <2>2
  <2>4. t1 \in Nat /\ t2 \in Nat /\ h1 \in 0 .. J.heads - 1 /\ h2 \in 0 .. J.heads - 1
    BY <2>1 DEF TokensOf, HeadsOf
  <2> QED
    BY <2>1, <2>2, <2>3, <2>4
<1> DEFINE a1 == t1 * J.heads + h1
           a2 == t2 * J.heads + h2
           b1 == a1 * J.splits + s1
           b2 == a2 * J.splits + s2
<1>2. a1 \in Nat /\ a2 \in Nat
  BY <1>1
<1>3. b1 \in Nat /\ b2 \in Nat
  <2> HIDE DEF a1, a2
  <2> QED
    BY <1>1, <1>2
<1>4. b1 * (2 + J.dim) + o1 = b2 * (2 + J.dim) + o2
  BY DEF PartCell, SlotAt
<1>5. b1 = b2 /\ o1 = o2
  <2> HIDE DEF b1, b2
  <2> QED
    BY <1>1, <1>3, <1>4, OneAnswer
<1>6. a1 = a2 /\ s1 = s2
  <2> HIDE DEF a1, a2
  <2> QED
    BY <1>1, <1>2, <1>5, OneAnswer
<1>7. t1 = t2 /\ h1 = h2
  BY <1>1, <1>6, OneAnswer
<1> QED
  BY <1>5, <1>6, <1>7

\* Results stored in the rows of some heads of a token leave the other rows.
ResultsOf(J, t0, H, cells) ==
  /\ DOMAIN cells = {XCell(J, t0, h, d) : h \in H, d \in DimsOf(J)}
  /\ \A h \in H : \A d \in DimsOf(J) : cells[XCell(J, t0, h, d)] = Result(J, t0, h, d)

LEMMA RowsWritten ==
  ASSUME NEW J \in AttnMade, NEW t0 \in TokensOf(J), NEW H \in SUBSET HeadsOf(J), NEW cells,
         ResultsOf(J, t0, H, cells), NEW m, NEW t \in TokensOf(J), NEW h \in HeadsOf(J),
         NEW old, NEW new, RowIs(J, m, t, h, old), t = t0 /\ h \in H => new,
         ~(t = t0 /\ h \in H) => (new <=> old)
  PROVE  RowIs(J, Write(m, cells), t, h, new)
<1> SUFFICES ASSUME NEW d \in DimsOf(J)
             PROVE  Read(Write(m, cells), XCell(J, t, h, d)) =
                      IF new THEN Result(J, t, h, d) ELSE Raw(XCell(J, t, h, d))
  BY DEF RowIs
<1> DEFINE c == XCell(J, t, h, d)
<1>1. /\ DOMAIN cells = {XCell(J, t0, g, e) : g \in H, e \in DimsOf(J)}
      /\ \A g \in H : \A e \in DimsOf(J) : cells[XCell(J, t0, g, e)] = Result(J, t0, g, e)
  BY DEF ResultsOf
<1>2. Read(Write(m, cells), c) = IF c \in DOMAIN cells THEN cells[c] ELSE Read(m, c)
  BY ZenonT(60), ReadWrite
<1>3. CASE t = t0 /\ h \in H
  <2>1. c \in DOMAIN cells /\ cells[c] = Result(J, t, h, d)
    BY <1>1, <1>3
  <2> QED
    BY <1>2, <1>3, <2>1
<1>4. CASE ~(t = t0 /\ h \in H)
  <2>1. c \notin DOMAIN cells
    <3>1. ASSUME c \in DOMAIN cells
          PROVE  FALSE
      <4>1. PICK g \in H, e \in DimsOf(J) : c = XCell(J, t0, g, e)
        BY <1>1, <3>1
      <4> QED
        BY <1>4, <4>1, XCellsApart
    <3> QED
      BY <3>1
  <2>2. Read(m, c) = IF old THEN Result(J, t, h, d) ELSE Raw(c)
    BY DEF RowIs
  <2> QED
    BY <1>2, <1>4, <2>1, <2>2
<1> QED
  BY <1>3, <1>4

-----------------------------------------------------------------------------
(* The actions                                                             *)

Good(J) ==
  /\ Scheduled(J, stream, cta, at, regs)
  /\ Memory(J, stream, cta, at, mem)
  /\ Local(J, cta, at, regs, lds)

\* The cells of a row, and its query while it holds one.
LEMMA OwnQueryIs ==
  ASSUME NEW J \in AttnMade, job = J, NEW t, NEW h
  PROVE  /\ Row(t, h) = RowAt(J, t, h) /\ Dims = DimsOf(J)
         /\ \A d : X(t, h, d) = XCell(J, t, h, d)
         /\ RowIs(J, mem, t, h, FALSE) => Query(t, h) = <<t, h>>
<1>1. Row(t, h) = RowAt(J, t, h) /\ Dims = DimsOf(J)
  BY DEF Row, RowAt, Dims, DimsOf
<1>2. \A d : X(t, h, d) = XCell(J, t, h, d)
  BY <1>1 DEF X, XCell
<1>3. RowIs(J, mem, t, h, FALSE) => Query(t, h) = <<t, h>>
  BY <1>1, <1>2 DEF RowIs, Query
<1> QED
  BY <1>1, <1>2, <1>3

\* What runs when a CTA of a kernel does.
LEMMA AtWork ==
  ASSUME NEW J \in AttnMade, Good(J), cta.kernel \in AttnKernels
  PROVE  /\ cta # Idle /\ cta \in FirstGrid(J) \cup MergeGrid(J) /\ cta \notin Waits(stream)
         /\ cta.kernel = "attn" => J.op \in OneOps /\ cta \in FirstGrid(J)
         /\ cta.kernel = "split" => J.op \in SplitOps /\ cta \in FirstGrid(J)
         /\ cta.kernel = "merge" => J.op \in SplitOps /\ cta \in MergeGrid(J)
         /\ cta.kernel = "fa2" => J.op = TiledOp /\ cta \in FirstGrid(J)
         /\ DOMAIN at = 0 .. cta.warps - 1 /\ DOMAIN regs = 0 .. cta.warps - 1
         /\ \A v \in 0 .. cta.warps - 1 :
              at[v] \in PhasesOf(J, cta.kernel) /\ PhaseIn(stream, cta, at, cta, v) = at[v]
<1>1. cta # Idle
  BY DEF AttnKernels, Idle
<1>2. /\ cta \in FirstGrid(J) \cup MergeGrid(J) /\ cta \notin Waits(stream)
      /\ at \in [0 .. cta.warps - 1 -> PhasesOf(J, cta.kernel)] /\ DOMAIN regs = 0 .. cta.warps - 1
      /\ \A v \in 0 .. cta.warps - 1 : PhaseIn(stream, cta, at, cta, v) = at[v]
  BY <1>1, NowRunning DEF Good
<1>3. cta \in FirstGrid(J) =>
        /\ J.op \in OneOps => cta.kernel = "attn"
        /\ J.op \in SplitOps => cta.kernel = "split"
        /\ J.op = TiledOp => cta.kernel = "fa2"
  BY FirstCtas
<1>4. cta \in MergeGrid(J) => cta.kernel = "merge" /\ J.op \in SplitOps
  BY MergeCtas
<1>5. J.op \in OneOps \cup SplitOps \cup {TiledOp}
  BY MadeFacts
<1> QED
  BY <1>1, <1>2, <1>3, <1>4, <1>5

\* attn_kernel: a warp keeps the slice of its keys.
LEMMA ScanStep ==
  ASSUME NEW J \in AttnMade, job = J, Good(J), NEW w, Scan(w)
  PROVE  Good(J)'
<1> DEFINE t == cta.y
           h == cta.x
           keys == Walk(w, Warps, J.pos[t + 1])
           cells == [c \in {<<"slice", w, d>> : d \in Dims \cup {-1}} |->
                      Slice(Query(t, h), KvHead(h), keys, c[3])]
<1>1. /\ cta.kernel = "attn" /\ w \in DOMAIN at /\ at[w] = 0
      /\ regs' = regs /\ lds' = Write(lds, cells) /\ mem' = mem
      /\ at' = [at EXCEPT ![w] = 1] /\ stream' = stream /\ cta' = cta
  BY DEF Scan, Phase, Keep, Goto, Still
<1>2. /\ cta # Idle /\ cta \in FirstGrid(J) /\ J.op \in OneOps /\ DOMAIN at = 0 .. cta.warps - 1
      /\ \A v \in 0 .. cta.warps - 1 : PhaseIn(stream, cta, at, cta, v) = at[v]
  BY <1>1, AtWork DEF AttnKernels
<1>3. /\ cta.warps = Warps /\ cta = OneCta(t, h) /\ h \in HeadsOf(J) /\ t \in TokensOf(J)
  BY <1>2, FirstCtas DEF WarpsOf
<1>4. OneLocal(J, cta, at, lds) /\ OneMem(J, stream, cta, at, mem)
  BY <1>1, <1>2 DEF Good, Local, Memory
<1>5. \A v \in 0 .. Warps - 1 : at[v] # End
  BY <1>1, <1>2, <1>3, <1>4 DEF OneLocal
<1>6. Query(t, h) = <<t, h>> /\ Dims = DimsOf(J)
  <2>1. RowIs(J, mem, t, h, \E v \in 0 .. Warps - 1 : PhaseIn(stream, cta, at, cta, v) = End)
    BY <1>3, <1>4 DEF OneMem
  <2>2. RowIs(J, mem, t, h, FALSE)
    BY <1>2, <1>3, <1>5, <2>1 DEF RowIs
  <2> QED
    BY <2>2, OwnQueryIs
<1>7. \A d \in DimsOf(J) \cup {-1} :
        /\ <<"slice", w, d>> \in DOMAIN cells
        /\ cells[<<"slice", w, d>>] = SliceBy(J, t, h, Walk(w, Warps, LastKey(J, t)), d)
  <2> SUFFICES ASSUME NEW d \in DimsOf(J) \cup {-1}
               PROVE  /\ <<"slice", w, d>> \in DOMAIN cells
                      /\ cells[<<"slice", w, d>>] = SliceBy(J, t, h, Walk(w, Warps, LastKey(J, t)), d)
    OBVIOUS
  <2>1. <<"slice", w, d>> \in DOMAIN cells
    BY <1>6
  <2>2. cells[<<"slice", w, d>>] = Slice(Query(t, h), KvHead(h), keys, d)
    BY <2>1
  <2>3. KvHead(h) = h \div (J.heads \div J.kv)
    BY DEF KvHead
  <2>4. keys = Walk(w, Warps, LastKey(J, t))
    BY DEF LastKey
  <2> HIDE DEF keys
  <2> QED
    BY <1>6, <2>1, <2>2, <2>3, <2>4 DEF SliceBy
<1>8. \A v \in 0 .. Warps - 1 : \A d \in DimsOf(J) \cup {-1} :
        v # w => <<"slice", v, d>> \notin DOMAIN cells
  OBVIOUS
<1> HIDE DEF cells
<1>9. 1 \in PhasesOf(J, cta.kernel) /\ 1 # End
  BY <1>1 DEF PhasesOf, End
<1>10. /\ Scheduled(J, stream, cta, at', regs')
       /\ Moves(J, stream, cta, at, at', w, 1)
  BY <1>1, <1>2, <1>9, GoesTo DEF Good
<1>11. Memory(J, stream, cta, at', mem)
  <2>1. /\ Memory(J, stream, cta, at, mem) /\ PhaseIn(stream, cta, at, cta, w) # End
        /\ w \in 0 .. cta.warps - 1 /\ cta \in FirstGrid(J) \cup MergeGrid(J) /\ cta.kernel # "fa2"
    BY <1>1, <1>2, <1>3, <1>5 DEF Good
  <2> QED
    BY <1>9, <1>10, <2>1, MemoryStays
<1>12. OneLocal(J, cta, at', lds')
  <2>1. \A v \in 0 .. Warps - 1 : at'[v] = IF v = w THEN 1 ELSE at[v]
    BY <1>1, <1>2, <1>3
  <2>2. ASSUME NEW v \in 0 .. Warps - 1, at'[v] # 0, NEW d \in DimsOf(J) \cup {-1}
        PROVE  Read(lds', <<"slice", v, d>>) = SliceBy(J, t, h, Walk(v, Warps, LastKey(J, t)), d)
    <3>1. CASE v = w
      BY <1>1, <1>7, <3>1, ReadWrite
    <3>2. CASE v # w
      <4>1. at[v] # 0
        BY <2>1, <2>2, <3>2
      <4>2. Read(lds, <<"slice", v, d>>) = SliceBy(J, t, h, Walk(v, Warps, LastKey(J, t)), d)
        BY <1>4, <2>2, <4>1 DEF OneLocal
      <4>3. Read(lds', <<"slice", v, d>>) = Read(lds, <<"slice", v, d>>)
        <5>1. <<"slice", v, d>> \notin DOMAIN cells
          BY <1>8, <2>2, <3>2
        <5> DEFINE k == <<"slice", v, d>>
        <5>2. Read(Write(lds, cells), k) = IF k \in DOMAIN cells THEN cells[k] ELSE Read(lds, k)
          BY ZenonT(60), ReadWrite
        <5> QED
          BY <1>1, <5>1, <5>2
      <4> QED
        BY <4>2, <4>3
    <3> QED
      BY <3>1, <3>2
  <2>3. \A v \in 0 .. Warps - 1 : at'[v] # End
    BY <1>5, <1>9, <2>1
  <2> QED
    BY <2>2, <2>3 DEF OneLocal
<1> QED
  BY <1>1, <1>10, <1>11, <1>12 DEF Good, Local

\* attn_kernel: a warp writes the row from the slices of all of them.
LEMMA MergeSlicesStep ==
  ASSUME NEW J \in AttnMade, job = J, Good(J), NEW w, MergeSlices(w)
  PROVE  Good(J)'
<1> DEFINE t == cta.y
           h == cta.x
           of(d) == [i \in 1 .. Warps |-> Read(lds, <<"slice", i - 1, d>>)]
           cells == [c \in {X(t, h, d) : d \in Dims} |-> Merged(of(-1), of(c[2] - Row(t, h)))]
<1>1. /\ cta.kernel = "attn" /\ w \in DOMAIN at /\ at[w] = 1 /\ Synced(1)
      /\ regs' = regs /\ lds' = lds /\ mem' = Write(mem, cells)
      /\ at' = [at EXCEPT ![w] = End] /\ stream' = stream /\ cta' = cta
  BY DEF MergeSlices, Phase, Put, Goto, Still
<1>2. /\ cta # Idle /\ cta \in FirstGrid(J) /\ J.op \in OneOps /\ DOMAIN at = 0 .. cta.warps - 1
      /\ \A v \in 0 .. cta.warps - 1 :
           at[v] \in PhasesOf(J, cta.kernel) /\ PhaseIn(stream, cta, at, cta, v) = at[v]
  BY <1>1, AtWork DEF AttnKernels
<1>3. /\ cta.warps = Warps /\ cta = OneCta(t, h) /\ h \in HeadsOf(J) /\ t \in TokensOf(J)
  BY <1>2, FirstCtas DEF WarpsOf
<1>4. OneLocal(J, cta, at, lds) /\ OneMem(J, stream, cta, at, mem)
  BY <1>1, <1>2 DEF Good, Local, Memory
<1>5. \A v \in 0 .. Warps - 1 : at[v] # 0
  BY <1>1, <1>2, <1>3 DEF Synced, End
<1>6. \A d \in DimsOf(J) \cup {-1} : of(d) = WarpSlices(J, t, h, d)
  <2> SUFFICES ASSUME NEW d \in DimsOf(J) \cup {-1}, NEW i \in 1 .. Warps
               PROVE  of(d)[i] = WarpSlices(J, t, h, d)[i]
    BY DEF WarpSlices
  <2>1. i - 1 \in 0 .. Warps - 1
    BY AttnAssumption
  <2>2. Read(lds, <<"slice", i - 1, d>>) = SliceBy(J, t, h, Walk(i - 1, Warps, LastKey(J, t)), d)
    BY <1>4, <1>5, <2>1 DEF OneLocal
  <2> QED
    BY <2>2 DEF WarpSlices
<1>7. ResultsOf(J, t, {h}, cells)
  <2>1. /\ Row(t, h) = RowAt(J, t, h) /\ Dims = DimsOf(J) /\ \A d : X(t, h, d) = XCell(J, t, h, d)
    BY OwnQueryIs
  <2>2. DOMAIN cells = {XCell(J, t, g, d) : g \in {h}, d \in DimsOf(J)}
    BY <2>1
  <2>3. ASSUME NEW d \in DimsOf(J)
        PROVE  cells[XCell(J, t, h, d)] = Result(J, t, h, d)
    <3>1. cells[XCell(J, t, h, d)] = Merged(of(-1), of(XCell(J, t, h, d)[2] - Row(t, h)))
      BY <2>2, <2>3
    <3>2. XCell(J, t, h, d)[2] - Row(t, h) = d
      <4>1. RowAt(J, t, h) \in Int /\ d \in Int
        BY <1>3, MadeFacts DEF RowAt, DimsOf, HeadsOf, TokensOf
      <4>2. XCell(J, t, h, d)[2] = RowAt(J, t, h) + d
        BY DEF XCell
      <4> QED
        BY <2>1, <4>1, <4>2
    <3>3. cells[XCell(J, t, h, d)] = Merged(of(-1), of(d))
      BY <3>1, <3>2
    <3> HIDE DEF of, cells
    <3> QED
      BY <1>2, <1>6, <3>3 DEF Result
  <2> HIDE DEF cells
  <2> QED
    BY <2>2, <2>3 DEF ResultsOf
<1> HIDE DEF cells, of
<1>8. End \in PhasesOf(J, cta.kernel)
  BY DEF PhasesOf
<1>9. /\ Scheduled(J, stream, cta, at', regs')
      /\ Moves(J, stream, cta, at, at', w, End)
  BY <1>1, <1>2, <1>8, GoesTo DEF Good
<1>10. OneMem(J, stream, cta, at', mem')
  <2> SUFFICES ASSUME NEW u \in TokensOf(J), NEW g \in HeadsOf(J)
               PROVE  RowIs(J, mem', u, g, \E v \in 0 .. Warps - 1 :
                              PhaseIn(stream, cta, at', OneCta(u, g), v) = End)
    BY DEF OneMem
  <2> DEFINE old == \E v \in 0 .. Warps - 1 : PhaseIn(stream, cta, at, OneCta(u, g), v) = End
             new == \E v \in 0 .. Warps - 1 : PhaseIn(stream, cta, at', OneCta(u, g), v) = End
  <2>1. RowIs(J, mem, u, g, old)
    BY <1>4 DEF OneMem
  <2>2. OneCta(u, g) \in FirstGrid(J) /\ OneCta(u, g).warps = Warps
    BY <1>2, RowCtas DEF OneCta, CtaOf
  <2>3. OneCta(u, g) = cta <=> u = t /\ g = h
    <3>1. OneCta(u, g).x = g /\ OneCta(u, g).y = u
      BY DEF OneCta, CtaOf
    <3> QED
      BY <1>3, <3>1
  <2>4. \A v \in 0 .. Warps - 1 : PhaseIn(stream, cta, at', OneCta(u, g), v) =
          IF OneCta(u, g) = cta /\ v = w THEN End ELSE PhaseIn(stream, cta, at, OneCta(u, g), v)
    BY <1>9, <2>2 DEF Moves
  <2>5. u = t /\ g \in {h} => new
    BY <1>1, <1>2, <1>3, <2>3, <2>4
  <2>6. ~(u = t /\ g \in {h}) => (new <=> old)
    BY <2>3, <2>4
  <2> HIDE DEF old, new
  <2>7. RowIs(J, Write(mem, cells), u, g, new)
    BY <1>3, <1>7, <2>1, <2>5, <2>6, RowsWritten
  <2> QED
    BY <1>1, <2>7 DEF new
<1>11. OneLocal(J, cta, at', lds)
  <2>1. \A v \in 0 .. Warps - 1 : at'[v] = IF v = w THEN End ELSE at[v]
    BY <1>1, <1>2, <1>3
  <2> QED
    BY <1>4, <1>5, <2>1 DEF OneLocal, End
<1>12. Memory(J, stream, cta, at', mem') /\ J.op \notin SplitOps /\ J.op # TiledOp
  BY <1>2, <1>10 DEF Memory, OneOps, SplitOps, TiledOp
<1> QED
  BY <1>1, <1>9, <1>11, <1>12 DEF Good, Local

\* The threads below a number of warps are in these warps.
LEMMA WarpOfThread ==
  ASSUME NEW n \in Nat, NEW v \in 0 .. n - 1
  PROVE  v \div Lanes \in 0 .. n - 1
<1> DEFINE q == v \div Lanes
           r == v % Lanes
<1>1. v \in Nat /\ Lanes \in Nat \ {0}
  BY LanesAssumption
<1>2. q \in Nat /\ r \in 0 .. Lanes - 1 /\ v = q * Lanes + r
  BY <1>1, Division
<1> HIDE DEF q, r
<1>3. PICK k \in Nat : Lanes = k + 1
  <2>1. Lanes - 1 \in Nat /\ Lanes = (Lanes - 1) + 1
    BY <1>1
  <2> QED
    BY <2>1
<1>4. q * Lanes = q * k + q /\ q * k \in Nat
  BY <1>2, <1>3
<1>5. q \in 0 .. n - 1
  BY <1>1, <1>2, <1>4
<1> QED
  BY <1>5 DEF q

\* A CTA that starts has nothing in the LDS that it relies on.
LEMMA AttnRunCta ==
  ASSUME NEW J \in AttnMade, job = J, Good(J), RunCta
  PROVE  Good(J)'
<1>1. PICK c \in Head(stream) :
        /\ cta = Idle /\ stream # <<>> /\ cta' = c
        /\ at' = [w \in 0 .. c.warps - 1 |-> 0]
        /\ regs' = [w \in 0 .. c.warps - 1 |-> <<>>]
        /\ stream' = IF Head(stream) = {c} THEN Tail(stream) ELSE [stream EXCEPT ![1] = @ \ {c}]
        /\ lds' = lds /\ mem' = mem
  BY DEF RunCta
<1>2. Scheduled(J, stream, Idle, at, regs) /\ Memory(J, stream, Idle, at, mem)
  BY <1>1 DEF Good
<1>3. /\ Scheduled(J, stream', c, at', regs')
      /\ SamePhases(J, stream, Idle, at, stream', c, at')
  <2>1. \A s2, a2, r2 :
          /\ s2 = IF Head(stream) = {c} THEN Tail(stream) ELSE [stream EXCEPT ![1] = @ \ {c}]
          /\ a2 = [w \in 0 .. c.warps - 1 |-> 0] /\ r2 = [w \in 0 .. c.warps - 1 |-> <<>>]
          => /\ Scheduled(J, s2, c, a2, r2)
             /\ SamePhases(J, stream, Idle, at, s2, c, a2)
    BY <1>1, <1>2, TakeCta
  <2> QED
    BY <1>1, <2>1
<1>4. Memory(J, stream', c, at', mem)
  BY <1>2, <1>3, MemoryKept
<1>5. Local(J, c, at', regs', lds)
  <2>1. c # Idle => c \in FirstGrid(J) \cup MergeGrid(J)
    BY <1>3, NowRunning
  <2>2. c.kernel \in {"attn", "split", "fa2"} =>
          c \in FirstGrid(J) /\ c.warps = WarpsOf(J)
    <3>1. c.kernel \in {"attn", "split", "fa2"} => c # Idle
      BY DEF Idle
    <3>2. c \in MergeGrid(J) => c.kernel = "merge"
      BY MergeCtas
    <3> QED
      BY <2>1, <3>1, <3>2, FirstCtas
  <2>3. c.kernel \in {"attn", "split", "fa2"} => \A v \in 0 .. WarpsOf(J) - 1 : at'[v] = 0
    BY <1>1, <2>2
  <2>4. ASSUME c.kernel = "attn"
        PROVE  OneLocal(J, c, at', lds)
    <3>1. J.op \in OneOps
      BY <2>2, <2>4, FirstCtas, MadeFacts
    <3>2. \A v \in 0 .. Warps - 1 : at'[v] = 0
      BY <2>3, <2>4, <3>1 DEF WarpsOf
    <3> QED
      BY <3>2 DEF OneLocal, End
  <2>5. ASSUME c.kernel = "split"
        PROVE  SplitLocal(J, c, at', lds)
    <3>1. WarpsOf(J) \in Nat \ {0}
      BY MadeFacts
    <3>2. \A v \in 0 .. WarpsOf(J) - 1 : at'[v] = 0 /\ at'[v \div Lanes] = 0
      BY <2>3, <2>5, <3>1, WarpOfThread
    <3>3. at'[0] = 0
      BY <3>1, <3>2
    <3> QED
      BY <3>2, <3>3 DEF SplitLocal, Passed, End
  <2>6. ASSUME c.kernel = "fa2"
        PROVE  TileLocal(J, c, at', regs', lds)
    <3>1. J.op = TiledOp
      BY <2>2, <2>6, FirstCtas, MadeFacts
    <3>2. WarpsOf(J) = FaQueries
      BY <3>1 DEF WarpsOf, TiledOp, OneOps
    <3>3. \A v \in 0 .. FaQueries - 1 : at'[v] = 0
      BY <2>3, <2>6, <3>2
    <3>4. InPass(J, 0) = 0
      <4>1. LengthOf(J) \in Nat \ {0}
        BY <3>1, TiledFacts
      <4>2. (0 * LengthOf(J) + 0) % LengthOf(J) = 0 /\ 0 * LengthOf(J) + 0 = 0
        BY <4>1, Quotient
      <4> QED
        BY <4>2 DEF InPass, End
    <3>5. Rank(J, 0) = 0 /\ Slack(J, 0) \in Nat
      BY DEF Rank, Slack, End
    <3> QED
      BY <3>3, <3>4, <3>5 DEF TileLocal, SeenSoFar, TileIn, Near
  <2> QED
    BY <2>4, <2>5, <2>6 DEF Local
<1> QED
  BY <1>1, <1>3, <1>4, <1>5 DEF Good

LEMMA AttnRetireCta ==
  ASSUME NEW J \in AttnMade, job = J, Good(J), RetireCta
  PROVE  Good(J)'
<1>1. /\ cta # Idle /\ \A w \in DOMAIN at : at[w] = End
      /\ cta' = Idle /\ at' = <<>> /\ regs' = <<>> /\ stream' = stream /\ lds' = lds /\ mem' = mem
  BY DEF RetireCta
<1>2. /\ Scheduled(J, stream, Idle, <<>>, <<>>)
      /\ SamePhases(J, stream, cta, at, stream, Idle, <<>>)
  BY <1>1, EndCta DEF Good
<1>3. Memory(J, stream, Idle, <<>>, mem)
  BY <1>2, MemoryKept DEF Good
<1>4. Local(J, Idle, <<>>, <<>>, lds)
  BY DEF Local, Idle
<1> QED
  BY <1>1, <1>2, <1>3, <1>4 DEF Good

\* What is known while a warp of attn_split_kernel runs.
SplitAt(J, w) ==
  /\ cta # Idle /\ cta \in FirstGrid(J) /\ cta \in FirstGrid(J) \cup MergeGrid(J) /\ cta \notin MergeGrid(J)
  /\ J.op \in SplitOps /\ J.op \notin OneOps /\ J.op # TiledOp
  /\ cta.warps = WarpsOf(J) /\ cta = SplitCta(J, cta.z, cta.x, cta.y)
  /\ cta.x \in HeadsOf(J) /\ cta.y \in 0 .. J.splits - 1 /\ cta.z \in TokensOf(J)
  /\ w \in 0 .. WarpsOf(J) - 1 /\ WarpsOf(J) \in Nat \ {0} /\ 0 \in 0 .. WarpsOf(J) - 1
  /\ DOMAIN at = 0 .. WarpsOf(J) - 1
  /\ \A v \in 0 .. WarpsOf(J) - 1 :
       at[v] \in {End, 0, 1, 2, 3} /\ PhaseIn(stream, cta, at, cta, v) = at[v]
  /\ SplitLocal(J, cta, at, lds) /\ SplitMem(J, stream, cta, at, mem)

LEMMA SplitAtWork ==
  ASSUME NEW J \in AttnMade, Good(J), NEW w, NEW p, Phase({"split"}, w, p)
  PROVE  SplitAt(J, w) /\ cta.kernel = "split" /\ at[w] = p /\ p # End
<1>1. cta.kernel = "split" /\ w \in DOMAIN at /\ at[w] = p /\ p # End
  BY DEF Phase
<1>2. /\ cta # Idle /\ cta \in FirstGrid(J) /\ J.op \in SplitOps /\ DOMAIN at = 0 .. cta.warps - 1
      /\ \A v \in 0 .. cta.warps - 1 :
           at[v] \in PhasesOf(J, cta.kernel) /\ PhaseIn(stream, cta, at, cta, v) = at[v]
  BY <1>1, AtWork DEF AttnKernels
<1>3. /\ cta.warps = WarpsOf(J) /\ cta = SplitCta(J, cta.z, cta.x, cta.y)
      /\ cta.x \in HeadsOf(J) /\ cta.y \in 0 .. J.splits - 1 /\ cta.z \in TokensOf(J)
  BY <1>2, FirstCtas
<1>4. J.op \notin OneOps /\ J.op # TiledOp
  BY <1>2 DEF OneOps, SplitOps, TiledOp
<1>5. PhasesOf(J, cta.kernel) = {End, 0, 1, 2, 3}
  BY <1>1 DEF PhasesOf
<1>6. SplitLocal(J, cta, at, lds) /\ SplitMem(J, stream, cta, at, mem)
  BY <1>1, <1>2 DEF Good, Local, Memory
<1>7. WarpsOf(J) \in Nat \ {0}
  BY MadeFacts
<1>8. 0 \in 0 .. WarpsOf(J) - 1
  BY <1>7
<1>9. cta \notin MergeGrid(J)
  BY <1>2, MergeCtas
<1> QED
  BY <1>1, <1>2, <1>3, <1>4, <1>5, <1>6, <1>7, <1>8, <1>9 DEF SplitAt

\* A phase of attn_split_kernel that keeps something in the LDS.
LEMMA SplitGoesOn ==
  ASSUME NEW J \in AttnMade, Good(J), NEW w, NEW p \in 0 .. 2, Phase({"split"}, w, p),
         regs' = regs, mem' = mem, at' = [at EXCEPT ![w] = p + 1], stream' = stream, cta' = cta,
         SplitLocal(J, cta, at', lds')
  PROVE  Good(J)'
<1>1. SplitAt(J, w) /\ cta.kernel = "split" /\ at[w] = p /\ p # End
  BY SplitAtWork
<1>2. p + 1 \in PhasesOf(J, cta.kernel) /\ p + 1 # End
  BY <1>1 DEF PhasesOf, End
<1>3. cta \in FirstGrid(J) \cup MergeGrid(J) /\ cta # Idle /\ w \in DOMAIN at /\ w \in 0 .. cta.warps - 1
  BY <1>1 DEF SplitAt
<1>4. /\ Scheduled(J, stream, cta, at', regs')
      /\ Moves(J, stream, cta, at, at', w, p + 1)
  BY <1>2, <1>3, GoesTo DEF Good
<1>5. Memory(J, stream, cta, at', mem)
  <2>1. PhaseIn(stream, cta, at, cta, w) # End /\ Memory(J, stream, cta, at, mem) /\ cta.kernel # "fa2"
    BY <1>1 DEF SplitAt, Good
  <2> QED
    BY <1>2, <1>3, <1>4, <2>1, MemoryStays
<1>6. Local(J, cta, at', regs', lds')
  BY <1>1 DEF Local
<1> QED
  BY <1>4, <1>5, <1>6 DEF Good

\* attn_split_kernel: a warp keeps the slice of its keys of the split.
LEMMA ScanSplitStep ==
  ASSUME NEW J \in AttnMade, job = J, Good(J), NEW w, ScanSplit(w)
  PROVE  Good(J)'
<1> DEFINE t == cta.z
           h == cta.x
           keys == Walk(w + cta.warps * cta.y, cta.warps * J.splits, J.pos[t + 1])
           cells == [c \in {<<"slice", w, d>> : d \in Dims \cup {-1}} |->
                      Slice(Query(t, h), KvHead(h), keys, c[3])]
<1>1. /\ Phase({"split"}, w, 0)
      /\ regs' = regs /\ lds' = Write(lds, cells) /\ mem' = mem
      /\ at' = [at EXCEPT ![w] = 1] /\ stream' = stream /\ cta' = cta
  BY DEF ScanSplit, OwnQuery, Keep, Goto, Still
<1>2. SplitAt(J, w) /\ cta.kernel = "split" /\ at[w] = 0
  BY <1>1, SplitAtWork
<1>3. Query(t, h) = <<t, h>> /\ Dims = DimsOf(J)
  <2>1. MergeCta(t, h) \in Waits(stream)
    BY <1>2, RowCtas DEF SplitAt, Good, Scheduled
  <2>2. PhaseIn(stream, cta, at, MergeCta(t, h), 0) # End
    BY <2>1 DEF PhaseIn, End
  <2>3. RowIs(J, mem, t, h, PhaseIn(stream, cta, at, MergeCta(t, h), 0) = End)
    BY <1>2 DEF SplitAt, SplitMem
  <2>4. RowIs(J, mem, t, h, FALSE)
    BY <2>2, <2>3 DEF RowIs
  <2> QED
    BY <2>4, OwnQueryIs
<1>4. \A d \in DimsOf(J) \cup {-1} :
        /\ <<"slice", w, d>> \in DOMAIN cells
        /\ cells[<<"slice", w, d>>] = SliceBy(J, t, h, KeysOf(J, t, cta.y, w), d)
  <2> SUFFICES ASSUME NEW d \in DimsOf(J) \cup {-1}
               PROVE  /\ <<"slice", w, d>> \in DOMAIN cells
                      /\ cells[<<"slice", w, d>>] = SliceBy(J, t, h, KeysOf(J, t, cta.y, w), d)
    OBVIOUS
  <2>1. <<"slice", w, d>> \in DOMAIN cells
    BY <1>3
  <2>2. cells[<<"slice", w, d>>] = Slice(Query(t, h), KvHead(h), keys, d)
    BY <2>1
  <2>3. KvHead(h) = h \div (J.heads \div J.kv)
    BY DEF KvHead
  <2>4. keys = KeysOf(J, t, cta.y, w)
    BY <1>2 DEF LastKey, KeysOf, SplitAt
  <2> HIDE DEF keys
  <2> QED
    BY <1>3, <2>1, <2>2, <2>3, <2>4 DEF SliceBy
<1>5. /\ \A v \in 0 .. WarpsOf(J) - 1 : \A d \in DimsOf(J) \cup {-1} :
           v # w => <<"slice", v, d>> \notin DOMAIN cells
      /\ <<"cmax">> \notin DOMAIN cells
      /\ \A v \in 0 .. WarpsOf(J) - 1 : <<"wts", v>> \notin DOMAIN cells
  <2>1. \A k \in DOMAIN cells : k[1] = "slice" /\ k[2] = w
    OBVIOUS
  <2> HIDE DEF cells
  <2>2. /\ \A v, d : <<"slice", v, d>>[2] = v
        /\ <<"cmax">>[1] # "slice" /\ \A v : <<"wts", v>>[1] # "slice"
    OBVIOUS
  <2> QED
    BY <2>1, <2>2
<1> HIDE DEF cells
<1>6. \A k : Read(lds', k) = IF k \in DOMAIN cells THEN cells[k] ELSE Read(lds, k)
  <2>1. \A k : Read(Write(lds, cells), k) = IF k \in DOMAIN cells THEN cells[k] ELSE Read(lds, k)
    BY ReadWrite
  <2> QED
    BY <1>1, <2>1
<1>7. \A v \in 0 .. WarpsOf(J) - 1 : at'[v] = IF v = w THEN 1 ELSE at[v]
  BY <1>1, <1>2 DEF SplitAt
<1>8. SplitLocal(J, cta, at', lds')
  <2>1. ASSUME NEW v \in 0 .. WarpsOf(J) - 1, Passed(at'[v], 1), NEW d \in DimsOf(J) \cup {-1}
        PROVE  Read(lds', <<"slice", v, d>>) = SliceBy(J, t, h, KeysOf(J, t, cta.y, v), d)
    <3>1. CASE v = w
      BY <1>4, <1>6, <3>1
    <3>2. CASE v # w
      <4>1. Read(lds', <<"slice", v, d>>) = Read(lds, <<"slice", v, d>>)
        BY <1>5, <1>6, <2>1, <3>2
      <4>2. Passed(at[v], 1)
        BY <1>7, <2>1, <3>2
      <4> QED
        BY <1>2, <2>1, <4>1, <4>2 DEF SplitAt, SplitLocal
    <3> QED
      BY <3>1, <3>2
  <2>2. ASSUME Passed(at'[0], 2)
        PROVE  Read(lds', <<"cmax">>) = MaxOf(J, t, h, cta.y)
    <3>1. Passed(at[0], 2)
      BY <1>2, <1>7, <2>2 DEF SplitAt, Passed, End
    <3> QED
      BY <1>2, <1>5, <1>6, <3>1 DEF SplitAt, SplitLocal
  <2>3. ASSUME NEW v \in 0 .. WarpsOf(J) - 1, Passed(at'[v \div Lanes], 3)
        PROVE  Read(lds', <<"wts", v>>) = WeightOf(J, t, h, cta.y, v)
    <3>1. v \div Lanes \in 0 .. WarpsOf(J) - 1
      BY <1>2, WarpOfThread DEF SplitAt
    <3>2. Passed(at[v \div Lanes], 3)
      BY <1>2, <1>7, <2>3, <3>1 DEF SplitAt, Passed, End
    <3>3. Read(lds', <<"wts", v>>) = Read(lds, <<"wts", v>>)
      BY <1>5, <1>6, <2>3
    <3> QED
      BY <1>2, <2>3, <3>2, <3>3 DEF SplitAt, SplitLocal
  <2> QED
    BY <2>1, <2>2, <2>3 DEF SplitLocal
<1>9. 1 = 0 + 1 /\ 0 \in 0 .. 2
  OBVIOUS
<1> QED
  BY <1>1, <1>8, <1>9, SplitGoesOn

\* Behind a barrier every warp has passed its phase.
LEMMA AllPassed ==
  ASSUME NEW J \in AttnMade, NEW w, SplitAt(J, w), NEW p \in Int, Synced(p)
  PROVE  \A v \in 0 .. WarpsOf(J) - 1 : Passed(at[v], p)
BY DEF SplitAt, Synced, Passed

\* The slices of a split, once they are all in the LDS.
LEMMA SlicesRead ==
  ASSUME NEW J \in AttnMade, NEW w, SplitAt(J, w),
         \A v \in 0 .. WarpsOf(J) - 1 : Passed(at[v], 1), NEW d \in DimsOf(J) \cup {-1}
  PROVE  /\ \A v \in 0 .. WarpsOf(J) - 1 :
              Read(lds, <<"slice", v, d>>) = SliceBy(J, cta.z, cta.x, KeysOf(J, cta.z, cta.y, v), d)
         /\ [i \in 1 .. cta.warps |-> Read(lds, <<"slice", i - 1, d>>)] = SlicesOf(J, cta.z, cta.x, cta.y, d)
<1>1. \A v \in 0 .. WarpsOf(J) - 1 :
        Read(lds, <<"slice", v, d>>) = SliceBy(J, cta.z, cta.x, KeysOf(J, cta.z, cta.y, v), d)
  BY DEF SplitAt, SplitLocal
<1>2. cta.warps = WarpsOf(J) /\ WarpsOf(J) \in Nat \ {0}
  BY DEF SplitAt
<1>3. \A i \in 1 .. WarpsOf(J) : i - 1 \in 0 .. WarpsOf(J) - 1
  BY <1>2
<1> QED
  BY <1>1, <1>2, <1>3 DEF SlicesOf

\* attn_split_kernel: the first thread keeps the maximum of the slices.
LEMMA SplitMaxStep ==
  ASSUME NEW J \in AttnMade, job = J, Good(J), NEW w, SplitMax(w)
  PROVE  Good(J)'
<1> DEFINE t == cta.z
           h == cta.x
           most == [op |-> "max", of |-> [i \in 1 .. cta.warps |-> Read(lds, <<"slice", i - 1, -1>>)]]
           cells == [c \in {<<"cmax">>} |-> most]
<1>1. /\ Phase({"split"}, w, 1) /\ Synced(1)
      /\ regs' = regs /\ lds' = (IF w = 0 THEN Write(lds, cells) ELSE lds) /\ mem' = mem
      /\ at' = [at EXCEPT ![w] = 2] /\ stream' = stream /\ cta' = cta
  BY DEF SplitMax, Keep, Goto, Still
<1>2. SplitAt(J, w) /\ cta.kernel = "split" /\ at[w] = 1
  BY <1>1, SplitAtWork
<1>3. \A v \in 0 .. WarpsOf(J) - 1 : Passed(at[v], 1)
  BY <1>1, <1>2, AllPassed
<1>4. most = MaxOf(J, t, h, cta.y)
  <2>1. -1 \in DimsOf(J) \cup {-1}
    OBVIOUS
  <2>2. [i \in 1 .. cta.warps |-> Read(lds, <<"slice", i - 1, -1>>)] = SlicesOf(J, t, h, cta.y, -1)
    BY <1>2, <1>3, <2>1, SlicesRead
  <2> QED
    BY <2>2 DEF MaxOf
<1>5. /\ DOMAIN cells = {<<"cmax">>} /\ cells[<<"cmax">>] = most
      /\ \A v, d : <<"slice", v, d>> \notin DOMAIN cells
      /\ \A v : <<"wts", v>> \notin DOMAIN cells
  <2>1. DOMAIN cells = {<<"cmax">>} /\ cells[<<"cmax">>] = most
    OBVIOUS
  <2>2. /\ \A v, d : <<"slice", v, d>>[1] = "slice"
        /\ \A v : <<"wts", v>>[1] = "wts" /\ <<"cmax">>[1] = "cmax"
    OBVIOUS
  <2> HIDE DEF cells
  <2> QED
    BY <2>1, <2>2
<1> HIDE DEF cells, most
<1>6. \A k : k \notin DOMAIN cells => Read(lds', k) = Read(lds, k)
  <2>1. \A k : Read(Write(lds, cells), k) = IF k \in DOMAIN cells THEN cells[k] ELSE Read(lds, k)
    BY ReadWrite
  <2> QED
    BY <1>1, <2>1
<1>7. \A v \in 0 .. WarpsOf(J) - 1 : at'[v] = IF v = w THEN 2 ELSE at[v]
  BY <1>1, <1>2 DEF SplitAt
<1>8. SplitLocal(J, cta, at', lds')
  <2>1. ASSUME NEW v \in 0 .. WarpsOf(J) - 1, NEW d \in DimsOf(J) \cup {-1}
        PROVE  Read(lds', <<"slice", v, d>>) = SliceBy(J, t, h, KeysOf(J, t, cta.y, v), d)
    BY <1>2, <1>3, <1>5, <1>6, SlicesRead
  <2>2. ASSUME Passed(at'[0], 2)
        PROVE  Read(lds', <<"cmax">>) = MaxOf(J, t, h, cta.y)
    <3>1. CASE w = 0
      <4>1. Read(Write(lds, cells), <<"cmax">>) =
              IF <<"cmax">> \in DOMAIN cells THEN cells[<<"cmax">>] ELSE Read(lds, <<"cmax">>)
        BY ZenonT(60), ReadWrite
      <4> QED
        BY <1>1, <1>4, <1>5, <3>1, <4>1
    <3>2. CASE w # 0
      <4>1. Passed(at[0], 2)
        BY <1>2, <1>7, <2>2, <3>2 DEF SplitAt
      <4> QED
        BY <1>1, <1>2, <3>2, <4>1 DEF SplitAt, SplitLocal
    <3> QED
      BY <3>1, <3>2
  <2>3. ASSUME NEW v \in 0 .. WarpsOf(J) - 1, Passed(at'[v \div Lanes], 3)
        PROVE  Read(lds', <<"wts", v>>) = WeightOf(J, t, h, cta.y, v)
    <3>1. v \div Lanes \in 0 .. WarpsOf(J) - 1
      BY <1>2, WarpOfThread DEF SplitAt
    <3>2. Passed(at[v \div Lanes], 3)
      BY <1>2, <1>7, <2>3, <3>1 DEF SplitAt, Passed, End
    <3>3. Read(lds', <<"wts", v>>) = Read(lds, <<"wts", v>>)
      BY <1>5, <1>6
    <3> QED
      BY <1>2, <2>3, <3>2, <3>3 DEF SplitAt, SplitLocal
  <2> QED
    BY <2>1, <2>2, <2>3 DEF SplitLocal
<1>9. 2 = 1 + 1 /\ 1 \in 0 .. 2
  OBVIOUS
<1> QED
  BY <1>1, <1>8, <1>9, SplitGoesOn

\* attn_split_kernel: the first threads keep the weights of the slices.
LEMMA SplitWeightsStep ==
  ASSUME NEW J \in AttnMade, job = J, Good(J), NEW w, SplitWeights(w)
  PROVE  Good(J)'
<1> DEFINE t == cta.z
           h == cta.x
           mine == {v \in 0 .. cta.warps - 1 : v \div Lanes = w}
           cells == [c \in {<<"wts", v>> : v \in mine} |->
                      Weight(Read(lds, <<"slice", c[2], -1>>), Read(lds, <<"cmax">>))]
<1>1. /\ Phase({"split"}, w, 2) /\ Synced(2)
      /\ regs' = regs /\ lds' = Write(lds, cells) /\ mem' = mem
      /\ at' = [at EXCEPT ![w] = 3] /\ stream' = stream /\ cta' = cta
  BY DEF SplitWeights, Keep, Goto, Still
<1>2. SplitAt(J, w) /\ cta.kernel = "split" /\ at[w] = 2
  BY <1>1, SplitAtWork
<1>3. \A v \in 0 .. WarpsOf(J) - 1 : Passed(at[v], 2) /\ Passed(at[v], 1)
  <2>1. \A v \in 0 .. WarpsOf(J) - 1 : Passed(at[v], 2)
    BY <1>1, <1>2, AllPassed
  <2>2. \A v \in 0 .. WarpsOf(J) - 1 : at[v] \in {End, 0, 1, 2, 3}
    BY <1>2 DEF SplitAt
  <2> QED
    BY <2>1, <2>2 DEF Passed, End
<1>4. Read(lds, <<"cmax">>) = MaxOf(J, t, h, cta.y)
  BY <1>2, <1>3 DEF SplitAt, SplitLocal
<1>5. \A v \in 0 .. WarpsOf(J) - 1 :
        Read(lds, <<"slice", v, -1>>) = SliceBy(J, t, h, KeysOf(J, t, cta.y, v), -1)
  <2>1. -1 \in DimsOf(J) \cup {-1}
    OBVIOUS
  <2> QED
    BY <1>2, <1>3, <2>1, SlicesRead
<1>6. /\ \A v \in 0 .. WarpsOf(J) - 1 : v \div Lanes = w =>
           <<"wts", v>> \in DOMAIN cells /\ cells[<<"wts", v>>] = WeightOf(J, t, h, cta.y, v)
      /\ \A v \in 0 .. WarpsOf(J) - 1 : v \div Lanes # w => <<"wts", v>> \notin DOMAIN cells
      /\ \A v, d : <<"slice", v, d>> \notin DOMAIN cells
      /\ <<"cmax">> \notin DOMAIN cells
  <2>1. \A k \in DOMAIN cells : k[1] = "wts" /\ k[2] \in mine
    OBVIOUS
  <2>2. \A v \in mine : <<"wts", v>> \in DOMAIN cells /\ cells[<<"wts", v>>] =
          Weight(Read(lds, <<"slice", v, -1>>), Read(lds, <<"cmax">>))
    OBVIOUS
  <2> HIDE DEF cells
  <2>3. cta.warps = WarpsOf(J)
    BY <1>2 DEF SplitAt
  <2>4. /\ \A v, d : <<"slice", v, d>>[1] = "slice"
        /\ \A v : <<"wts", v>>[2] = v /\ <<"cmax">>[1] = "cmax"
    OBVIOUS
  <2>5. ASSUME NEW v \in 0 .. WarpsOf(J) - 1, v \div Lanes = w
        PROVE  <<"wts", v>> \in DOMAIN cells /\ cells[<<"wts", v>>] = WeightOf(J, t, h, cta.y, v)
    <3>1. v \in mine
      BY <2>3, <2>5
    <3> QED
      BY <1>4, <1>5, <2>2, <3>1 DEF WeightOf
  <2>6. ASSUME NEW v \in 0 .. WarpsOf(J) - 1, v \div Lanes # w
        PROVE  <<"wts", v>> \notin DOMAIN cells
    BY <2>1, <2>4, <2>6
  <2>7. \A v, d : <<"slice", v, d>> \notin DOMAIN cells
    BY <2>1, <2>4
  <2>8. <<"cmax">> \notin DOMAIN cells
    BY <2>1, <2>4
  <2> QED
    BY <2>5, <2>6, <2>7, <2>8
<1> HIDE DEF cells
<1>7. \A k : Read(lds', k) = IF k \in DOMAIN cells THEN cells[k] ELSE Read(lds, k)
  <2>1. \A k : Read(Write(lds, cells), k) = IF k \in DOMAIN cells THEN cells[k] ELSE Read(lds, k)
    BY ReadWrite
  <2> QED
    BY <1>1, <2>1
<1>8. \A v \in 0 .. WarpsOf(J) - 1 : at'[v] = IF v = w THEN 3 ELSE at[v]
  BY <1>1, <1>2 DEF SplitAt
<1>9. SplitLocal(J, cta, at', lds')
  <2>1. ASSUME NEW v \in 0 .. WarpsOf(J) - 1, NEW d \in DimsOf(J) \cup {-1}
        PROVE  Read(lds', <<"slice", v, d>>) = SliceBy(J, t, h, KeysOf(J, t, cta.y, v), d)
    <3>1. Read(lds', <<"slice", v, d>>) = Read(lds, <<"slice", v, d>>)
      BY <1>6, <1>7
    <3> QED
      BY <1>2, <1>3, <3>1, SlicesRead
  <2>2. Read(lds', <<"cmax">>) = MaxOf(J, t, h, cta.y)
    BY <1>4, <1>6, <1>7
  <2>3. ASSUME NEW v \in 0 .. WarpsOf(J) - 1, Passed(at'[v \div Lanes], 3)
        PROVE  Read(lds', <<"wts", v>>) = WeightOf(J, t, h, cta.y, v)
    <3>1. v \div Lanes \in 0 .. WarpsOf(J) - 1
      BY <1>2, WarpOfThread DEF SplitAt
    <3>2. CASE v \div Lanes = w
      BY <1>6, <1>7, <3>2
    <3>3. CASE v \div Lanes # w
      <4>1. Passed(at[v \div Lanes], 3)
        BY <1>8, <2>3, <3>1, <3>3
      <4>2. Read(lds', <<"wts", v>>) = Read(lds, <<"wts", v>>)
        BY <1>6, <1>7, <3>3
      <4> QED
        BY <1>2, <2>3, <4>1, <4>2 DEF SplitAt, SplitLocal
    <3> QED
      BY <3>2, <3>3
  <2> QED
    BY <2>1, <2>2, <2>3 DEF SplitLocal
<1>10. 3 = 2 + 1 /\ 2 \in 0 .. 2
  OBVIOUS
<1> QED
  BY <1>1, <1>9, <1>10, SplitGoesOn

\* The places of a part that a warp writes.
LEMMA OwnPlaces ==
  ASSUME NEW J \in AttnMade, job = J, NEW w, SplitAt(J, w)
  PROVE  {2 + d : d \in UNION {Strided(v) : v \in Threads(w)}} \cup (IF w = 0 THEN {0, 1} ELSE {}) =
           {o \in 0 .. J.dim + 1 : PartWarp(J, o) = w}
<1> DEFINE n == WarpsOf(J) * Lanes
           own == UNION {Strided(v) : v \in Threads(w)}
           off == {2 + d : d \in own} \cup (IF w = 0 THEN {0, 1} ELSE {})
<1>1. cta.warps = WarpsOf(J) /\ WarpsOf(J) \in Nat \ {0} /\ Lanes \in Nat \ {0} /\ J.dim \in Nat
  BY LanesAssumption, MadeFacts DEF SplitAt
<1>2. n \in Nat \ {0}
  <2> DEFINE k == WarpsOf(J) - 1
  <2>1. k \in Nat /\ WarpsOf(J) = k + 1
    BY <1>1
  <2> HIDE DEF k
  <2>2. n = k * Lanes + Lanes /\ k * Lanes \in Nat
    BY <1>1, <2>1
  <2> HIDE DEF n
  <2> QED
    BY <1>1, <2>2
<1>3. \A d : d \in own <=> d \in 0 .. J.dim - 1 /\ (d % n) \in ThreadsOf(w, n)
  BY <1>1 DEF Strided, Threads, Dims
<1> HIDE DEF own, n
<1>4. \A d \in 0 .. J.dim - 1 : (d % n) \in ThreadsOf(w, n) <=> (d % n) \div Lanes = w
  <2>1. \A d \in 0 .. J.dim - 1 : (d % n) \in 0 .. n - 1
    BY <1>1, <1>2, Division
  <2> QED
    BY <2>1 DEF ThreadsOf
<1>5. \A o \in 0 .. J.dim + 1 : o >= 2 => PartWarp(J, o) = ((o - 2) % n) \div Lanes
  BY <1>1 DEF PartWarp, n
<1>6. PartWarp(J, 0) = 0 /\ PartWarp(J, 1) = 0
  BY DEF PartWarp
<1>7. ASSUME NEW o
      PROVE  o \in off <=> o \in 0 .. J.dim + 1 /\ PartWarp(J, o) = w
  <2>1. CASE o \in 0 .. J.dim + 1 /\ o >= 2
    <3>1. o - 2 \in 0 .. J.dim - 1 /\ o = 2 + (o - 2)
      BY <1>1, <2>1
    <3>2. o \in off <=> o - 2 \in own
      <4>1. ASSUME o - 2 \in own
            PROVE  o \in off
        BY <3>1, <4>1
      <4>2. ASSUME o \in off
            PROVE  o - 2 \in own
        <5>1. PICK d \in own : o = 2 + d
          BY <2>1, <4>2
        <5>2. o - 2 = d
          BY <1>3, <5>1
        <5> QED
          BY <5>1, <5>2
      <4> QED
        BY <4>1, <4>2
    <3> QED
      BY <1>3, <1>4, <1>5, <2>1, <3>1, <3>2
  <2>2. CASE o \in {0, 1}
    <3>1. ~(\E d \in own : o = 2 + d)
      BY <1>3, <2>2
    <3> QED
      BY <1>1, <1>6, <2>2, <3>1
  <2>3. CASE o \notin 0 .. J.dim + 1
    <3>1. ~(\E d \in own : o = 2 + d)
      BY <1>1, <1>3, <2>3
    <3>2. o \notin {0, 1}
      BY <1>1, <2>3
    <3> QED
      BY <2>3, <3>1, <3>2
  <2> QED
    BY <1>1, <2>1, <2>2, <2>3
<1>8. off = {o \in 0 .. J.dim + 1 : PartWarp(J, o) = w}
  BY <1>7
<1> QED
  BY <1>8 DEF own

\* The sum under the weights that are in this LDS.
DotIn(l, warps, d) ==
  [op |-> "dot", wts |-> [i \in 1 .. warps |-> Read(l, <<"wts", i - 1>>)],
   of |-> [i \in 1 .. warps |-> Read(l, <<"slice", i - 1, d>>)]]

\* attn_split_kernel: what the threads of a warp write is in place.
LEMMA WritePartialStep ==
  ASSUME NEW J \in AttnMade, job = J, Good(J), NEW w, WritePartial(w)
  PROVE  Good(J)'
<1> DEFINE t == cta.z
           h == cta.x
           y == cta.y
           base == Slot(t, h, y)
           off == {2 + d : d \in UNION {Strided(v) : v \in Threads(w)}} \cup (IF w = 0 THEN {0, 1} ELSE {})
           cells == [c \in {<<"part", base + o>> : o \in off} |->
                      IF c[2] = base THEN Read(lds, <<"cmax">>) ELSE DotIn(lds, cta.warps, c[2] - base - 2)]
<1>1. /\ Phase({"split"}, w, 3) /\ Synced(3)
      /\ regs' = regs /\ lds' = lds /\ mem' = Write(mem, cells)
      /\ at' = [at EXCEPT ![w] = End] /\ stream' = stream /\ cta' = cta
  BY DEF WritePartial, Put, Goto, Still, Dot, DotIn
<1>2. SplitAt(J, w) /\ cta.kernel = "split" /\ at[w] = 3
  BY <1>1, SplitAtWork
<1>3. /\ t \in TokensOf(J) /\ h \in HeadsOf(J) /\ y \in 0 .. J.splits - 1
      /\ cta = SplitCta(J, t, h, y) /\ J.op \in SplitOps /\ J.op \notin OneOps /\ J.op # TiledOp
      /\ cta.warps = WarpsOf(J) /\ J.dim \in Nat
  BY <1>2, MadeFacts DEF SplitAt
<1>4. \A v \in 0 .. WarpsOf(J) - 1 : Passed(at[v], 3) /\ Passed(at[v], 2) /\ Passed(at[v], 1)
  <2>1. \A v \in 0 .. WarpsOf(J) - 1 : Passed(at[v], 3)
    BY <1>1, <1>2, AllPassed
  <2>2. \A v \in 0 .. WarpsOf(J) - 1 : at[v] \in {End, 0, 1, 2, 3}
    BY <1>2 DEF SplitAt
  <2> QED
    BY <2>1, <2>2 DEF Passed, End
<1>5. Read(lds, <<"cmax">>) = MaxOf(J, t, h, y)
  BY <1>2, <1>4 DEF SplitAt, SplitLocal
<1>6. \A d \in DimsOf(J) \cup {-1} : DotIn(lds, cta.warps, d) = DotOf(J, t, h, y, d)
  <2> SUFFICES ASSUME NEW d \in DimsOf(J) \cup {-1}
               PROVE  DotIn(lds, cta.warps, d) = DotOf(J, t, h, y, d)
    OBVIOUS
  <2>1. [i \in 1 .. cta.warps |-> Read(lds, <<"slice", i - 1, d>>)] = SlicesOf(J, t, h, y, d)
    BY <1>2, <1>4, SlicesRead
  <2>2. \A i \in 1 .. WarpsOf(J) : Read(lds, <<"wts", i - 1>>) = WeightOf(J, t, h, y, i - 1)
    <3> SUFFICES ASSUME NEW i \in 1 .. WarpsOf(J)
                 PROVE  Read(lds, <<"wts", i - 1>>) = WeightOf(J, t, h, y, i - 1)
      OBVIOUS
    <3>1. WarpsOf(J) \in Nat /\ i - 1 \in 0 .. WarpsOf(J) - 1
      BY <1>2 DEF SplitAt
    <3>2. Passed(at[(i - 1) \div Lanes], 3)
      BY <1>4, <3>1, WarpOfThread
    <3> QED
      BY <1>2, <3>1, <3>2 DEF SplitAt, SplitLocal
  <2>3. [i \in 1 .. cta.warps |-> Read(lds, <<"wts", i - 1>>)] =
          [i \in 1 .. WarpsOf(J) |-> WeightOf(J, t, h, y, i - 1)]
    BY <1>3, <2>2
  <2> QED
    BY <2>1, <2>3 DEF DotIn, DotOf
<1>7. off = {o \in 0 .. J.dim + 1 : PartWarp(J, o) = w}
  BY <1>2, OwnPlaces
<1> HIDE DEF off
<1>8. base = SlotAt(J, t, h, y) /\ base \in Int
  <2>1. base = SlotAt(J, t, h, y)
    BY DEF Slot, SlotAt
  <2>2. t \in Nat /\ h \in Nat /\ y \in Nat /\ J.heads \in Nat /\ J.splits \in Nat /\ 2 + J.dim \in Nat
    <3>1. Len(J.pos) \in Nat /\ J.heads \in Nat /\ J.splits \in Nat
      BY <1>3, MadeFacts
    <3> QED
      BY <1>3, <3>1 DEF TokensOf, HeadsOf
  <2>3. t * J.heads + h \in Nat
    BY <2>2
  <2>4. (t * J.heads + h) * J.splits + y \in Nat
    BY <2>2, <2>3
  <2>5. SlotAt(J, t, h, y) \in Nat
    BY <2>2, <2>4 DEF SlotAt
  <2> QED
    BY <2>1, <2>5
<1>9. /\ DOMAIN cells = {PartCell(J, t, h, y, o) : o \in off}
      /\ \A o \in off : cells[PartCell(J, t, h, y, o)] = PartOf(J, t, h, y, o)
  <2>1. \A o : PartCell(J, t, h, y, o) = <<"part", base + o>>
    BY <1>8 DEF PartCell
  <2> HIDE DEF base
  <2>2. DOMAIN cells = {PartCell(J, t, h, y, o) : o \in off}
    BY <2>1
  <2>3. ASSUME NEW o \in off
        PROVE  cells[PartCell(J, t, h, y, o)] = PartOf(J, t, h, y, o)
    <3>1. <<"part", base + o>> \in DOMAIN cells /\ <<"part", base + o>>[2] = base + o
      OBVIOUS
    <3> DEFINE k == <<"part", base + o>>
    <3>2. k \in DOMAIN cells /\ k[2] = base + o /\ PartCell(J, t, h, y, o) = k
      BY <2>1, <3>1
    <3> HIDE DEF k
    <3>3. cells[k] = IF k[2] = base THEN Read(lds, <<"cmax">>) ELSE DotIn(lds, cta.warps, k[2] - base - 2)
      BY <3>2
    <3>4. o \in 0 .. J.dim + 1
      BY <1>7
    <3> HIDE DEF cells
    <3>5. CASE o = 0
      <4>1. k[2] = base
        BY <1>8, <3>2, <3>5
      <4> QED
        BY <1>5, <3>2, <3>3, <3>5, <4>1 DEF PartOf
    <3>6. CASE o # 0
      <4>1. k[2] # base /\ k[2] - base - 2 = o - 2 /\ o - 2 \in DimsOf(J) \cup {-1}
        BY <1>3, <1>8, <3>2, <3>4, <3>6 DEF DimsOf
      <4> QED
        BY <1>6, <3>2, <3>3, <3>6, <4>1 DEF PartOf
    <3> QED
      BY <3>5, <3>6
  <2> QED
    BY <2>2, <2>3
<1> HIDE DEF cells, base
<1>10. /\ Scheduled(J, stream, cta, at', regs')
       /\ Moves(J, stream, cta, at, at', w, End)
  <2>1. cta # Idle /\ w \in DOMAIN at /\ End \in PhasesOf(J, cta.kernel)
    BY <1>2 DEF SplitAt, PhasesOf
  <2> QED
    BY <1>1, <2>1, GoesTo DEF Good
<1>11. \A k : Read(mem', k) = IF k \in DOMAIN cells THEN cells[k] ELSE Read(mem, k)
  <2>1. \A k : Read(Write(mem, cells), k) = IF k \in DOMAIN cells THEN cells[k] ELSE Read(mem, k)
    BY ReadWrite
  <2> QED
    BY <1>1, <2>1
<1>12. ASSUME NEW u \in TokensOf(J), NEW g \in HeadsOf(J)
       PROVE  RowIs(J, mem', u, g, PhaseIn(stream, cta, at', MergeCta(u, g), 0) = End)
  <2>1. MergeCta(u, g) \in MergeGrid(J) /\ MergeCta(u, g).warps = 1 /\ MergeCta(u, g) # cta
    BY <1>2, <1>3, RowCtas DEF MergeCta, CtaOf, SplitAt
  <2>2. 0 \in 0 .. 1 - 1
    OBVIOUS
  <2>3. PhaseIn(stream, cta, at', MergeCta(u, g), 0) = PhaseIn(stream, cta, at, MergeCta(u, g), 0)
    BY <1>10, <2>1, <2>2 DEF Moves
  <2>4. \A d : XCell(J, u, g, d) \notin DOMAIN cells
    <3>1. \A d : XCell(J, u, g, d)[1] = "x"
      BY DEF XCell
    <3>2. \A o : PartCell(J, t, h, y, o)[1] = "part"
      BY DEF PartCell
    <3> QED
      BY <1>9, <3>1, <3>2
  <2>5. RowIs(J, mem, u, g, PhaseIn(stream, cta, at, MergeCta(u, g), 0) = End)
    BY <1>2 DEF SplitAt, SplitMem
  <2> QED
    BY <1>11, <2>3, <2>4, <2>5 DEF RowIs
<1>13. ASSUME NEW u \in TokensOf(J), NEW g \in HeadsOf(J), NEW i \in 0 .. J.splits - 1,
              NEW o \in 0 .. J.dim + 1,
              PhaseIn(stream, cta, at', SplitCta(J, u, g, i), PartWarp(J, o)) = End
       PROVE  Read(mem', PartCell(J, u, g, i, o)) = PartOf(J, u, g, i, o)
  <2>1. /\ SplitCta(J, u, g, i) \in FirstGrid(J) /\ SplitCta(J, u, g, i).warps = WarpsOf(J)
        /\ PartWarp(J, o) \in 0 .. WarpsOf(J) - 1
    BY <1>3, RowCtas, PartWarpIn DEF SplitCta, CtaOf
  <2>2. PhaseIn(stream, cta, at', SplitCta(J, u, g, i), PartWarp(J, o)) =
          IF SplitCta(J, u, g, i) = cta /\ PartWarp(J, o) = w THEN End
          ELSE PhaseIn(stream, cta, at, SplitCta(J, u, g, i), PartWarp(J, o))
    BY <1>10, <2>1 DEF Moves
  <2>3. SplitCta(J, u, g, i) = cta <=> u = t /\ g = h /\ i = y
    <3>1. SplitCta(J, u, g, i).x = g /\ SplitCta(J, u, g, i).y = i /\ SplitCta(J, u, g, i).z = u
      BY DEF SplitCta, CtaOf
    <3> QED
      BY <1>3, <3>1
  <2>4. CASE u = t /\ g = h /\ i = y /\ PartWarp(J, o) = w
    <3>1. o \in off
      BY <1>7, <2>4
    <3> QED
      BY <1>9, <1>11, <2>4, <3>1
  <2>5. CASE ~(u = t /\ g = h /\ i = y /\ PartWarp(J, o) = w)
    <3>1. PhaseIn(stream, cta, at, SplitCta(J, u, g, i), PartWarp(J, o)) = End
      BY <1>13, <2>2, <2>3, <2>5
    <3>2. Read(mem, PartCell(J, u, g, i, o)) = PartOf(J, u, g, i, o)
      BY <1>2, <3>1 DEF SplitAt, SplitMem
    <3>3. PartCell(J, u, g, i, o) \notin DOMAIN cells
      <4>1. ASSUME PartCell(J, u, g, i, o) \in DOMAIN cells
            PROVE  FALSE
        <5>1. PICK q \in off : PartCell(J, u, g, i, o) = PartCell(J, t, h, y, q)
          BY <1>9, <4>1
        <5>2. q \in 0 .. J.dim + 1 /\ PartWarp(J, q) = w
          BY <1>7
        <5>3. u = t /\ g = h /\ i = y /\ o = q
          BY <1>3, <5>1, <5>2, PartCellsApart
        <5> QED
          BY <2>5, <5>2, <5>3
      <4> QED
        BY <4>1
    <3> QED
      BY <1>11, <3>2, <3>3
  <2> QED
    BY <2>4, <2>5
<1>14. Memory(J, stream, cta, at', mem')
  BY <1>3, <1>12, <1>13 DEF Memory, SplitMem
<1>15. SplitLocal(J, cta, at', lds)
  <2>1. \A v \in 0 .. WarpsOf(J) - 1 : at'[v] = IF v = w THEN End ELSE at[v]
    BY <1>1, <1>2 DEF SplitAt
  <2>2. \A v \in 0 .. WarpsOf(J) - 1 : Passed(at[v \div Lanes], 3)
    BY <1>2, <1>4, WarpOfThread DEF SplitAt
  <2>3. 0 \in 0 .. WarpsOf(J) - 1
    BY <1>2 DEF SplitAt
  <2> QED
    BY <1>2, <1>4, <2>2, <2>3 DEF SplitAt, SplitLocal
<1> QED
  BY <1>1, <1>2, <1>10, <1>14, <1>15 DEF Good, Local


\* attn_merge_kernel: when it runs, every split has left its part.
LEMMA MergeSplitsStep ==
  ASSUME NEW J \in AttnMade, job = J, Good(J), NEW w, MergeSplits(w)
  PROVE  Good(J)'
<1> DEFINE t == cta.y
           h == cta.x
           of(o) == [i \in 1 .. J.splits |-> Read(mem, <<"part", Slot(t, h, i - 1) + o>>)]
           cells == [c \in {X(t, h, d) : d \in Dims} |-> Merged(of(0), of(2 + c[2] - Row(t, h)))]
<1>1. /\ cta.kernel = "merge" /\ w \in DOMAIN at /\ at[w] = 0
      /\ regs' = regs /\ lds' = lds /\ mem' = Write(mem, cells)
      /\ at' = [at EXCEPT ![w] = End] /\ stream' = stream /\ cta' = cta
  BY DEF MergeSplits, Phase, Put, Goto, Still
<1>2. /\ cta # Idle /\ cta \in MergeGrid(J) /\ J.op \in SplitOps /\ DOMAIN at = 0 .. cta.warps - 1
      /\ cta \notin Waits(stream)
      /\ \A v \in 0 .. cta.warps - 1 : PhaseIn(stream, cta, at, cta, v) = at[v]
  BY <1>1, AtWork DEF AttnKernels
<1>3. /\ cta.warps = 1 /\ cta = MergeCta(t, h) /\ h \in HeadsOf(J) /\ t \in TokensOf(J)
      /\ cta \notin FirstGrid(J) /\ J.op \notin OneOps /\ J.op # TiledOp
  BY <1>2, MergeCtas DEF OneOps, SplitOps, TiledOp
<1>4. w = 0 /\ J.splits \in Nat /\ J.dim \in Nat
  <2>1. w \in 0 .. 1 - 1
    BY <1>1, <1>2, <1>3
  <2> QED
    BY <1>2, <2>1, MadeFacts
<1>5. SplitMem(J, stream, cta, at, mem)
  BY <1>2 DEF Good, Memory
<1>6. Waits(stream) \cap FirstGrid(J) = {}
  <2>1. \/ stream = <<>>
        \/ \E A \in SUBSET MergeGrid(J) : stream = <<A>>
        \/ \E A \in SUBSET FirstGrid(J) : stream = <<A, MergeGrid(J)>>
    BY <1>2 DEF Good, Scheduled, LastGrid
  <2>2. ~\E A \in SUBSET FirstGrid(J) : stream = <<A, MergeGrid(J)>>
    <3>1. ASSUME NEW A \in SUBSET FirstGrid(J), stream = <<A, MergeGrid(J)>>
          PROVE  FALSE
      <4>1. Waits(stream) = A \cup MergeGrid(J)
        BY <3>1, WaitsOf
      <4> QED
        BY <1>2, <4>1
    <3> QED
      BY <3>1
  <2>3. Waits(stream) \subseteq MergeGrid(J)
    BY <2>1, <2>2, WaitsOf
  <2> QED
    BY <2>3, MergeCtas
<1>7. \A o \in 0 .. J.dim + 1 : of(o) = Parts(J, t, h, o)
  <2> SUFFICES ASSUME NEW o \in 0 .. J.dim + 1, NEW i \in 1 .. J.splits
               PROVE  of(o)[i] = Parts(J, t, h, o)[i]
    BY DEF Parts
  <2>1. i - 1 \in 0 .. J.splits - 1
    BY <1>4
  <2>2. SplitCta(J, t, h, i - 1) \in FirstGrid(J)
    BY <1>2, <1>3, <2>1, RowCtas
  <2>3. PhaseIn(stream, cta, at, SplitCta(J, t, h, i - 1), PartWarp(J, o)) = End
    BY <1>3, <1>6, <2>2 DEF PhaseIn
  <2>4. Read(mem, PartCell(J, t, h, i - 1, o)) = PartOf(J, t, h, i - 1, o)
    BY <1>3, <1>5, <2>1, <2>3 DEF SplitMem
  <2>5. PartCell(J, t, h, i - 1, o) = <<"part", Slot(t, h, i - 1) + o>>
    BY DEF PartCell, SlotAt, Slot
  <2> QED
    BY <2>4, <2>5 DEF Parts
<1>8. ResultsOf(J, t, {h}, cells)
  <2>1. /\ Row(t, h) = RowAt(J, t, h) /\ Dims = DimsOf(J) /\ \A d : X(t, h, d) = XCell(J, t, h, d)
    BY OwnQueryIs
  <2>2. DOMAIN cells = {XCell(J, t, g, d) : g \in {h}, d \in DimsOf(J)}
    BY <2>1
  <2>3. ASSUME NEW d \in DimsOf(J)
        PROVE  cells[XCell(J, t, h, d)] = Result(J, t, h, d)
    <3>1. cells[XCell(J, t, h, d)] = Merged(of(0), of(2 + XCell(J, t, h, d)[2] - Row(t, h)))
      BY <2>2, <2>3
    <3>2. 2 + XCell(J, t, h, d)[2] - Row(t, h) = 2 + d
      <4>1. RowAt(J, t, h) \in Int /\ d \in Int
        BY <1>3, MadeFacts DEF RowAt, DimsOf, HeadsOf, TokensOf
      <4>2. XCell(J, t, h, d)[2] = RowAt(J, t, h) + d
        BY DEF XCell
      <4> QED
        BY <2>1, <4>1, <4>2
    <3>3. cells[XCell(J, t, h, d)] = Merged(of(0), of(2 + d))
      BY <3>1, <3>2
    <3>4. 0 \in 0 .. J.dim + 1 /\ 2 + d \in 0 .. J.dim + 1
      BY <1>4 DEF DimsOf
    <3> HIDE DEF of, cells
    <3> QED
      BY <1>3, <1>7, <3>3, <3>4 DEF Result
  <2> HIDE DEF cells
  <2> QED
    BY <2>2, <2>3 DEF ResultsOf
<1> HIDE DEF cells, of
<1>9. /\ Scheduled(J, stream, cta, at', regs')
      /\ Moves(J, stream, cta, at, at', w, End)
  <2>1. End \in PhasesOf(J, cta.kernel)
    BY DEF PhasesOf
  <2> QED
    BY <1>1, <1>2, <2>1, GoesTo DEF Good
<1>10. ASSUME NEW u \in TokensOf(J), NEW g \in HeadsOf(J)
       PROVE  RowIs(J, mem', u, g, PhaseIn(stream, cta, at', MergeCta(u, g), 0) = End)
  <2> DEFINE old == PhaseIn(stream, cta, at, MergeCta(u, g), 0) = End
             new == PhaseIn(stream, cta, at', MergeCta(u, g), 0) = End
  <2>1. RowIs(J, mem, u, g, old)
    BY <1>5 DEF SplitMem
  <2>2. MergeCta(u, g) \in MergeGrid(J) /\ MergeCta(u, g).warps = 1 /\ 0 \in 0 .. 1 - 1
    BY <1>2, RowCtas DEF MergeCta, CtaOf
  <2>3. MergeCta(u, g) = cta <=> u = t /\ g = h
    <3>1. MergeCta(u, g).x = g /\ MergeCta(u, g).y = u
      BY DEF MergeCta, CtaOf
    <3> QED
      BY <1>3, <3>1
  <2>4. PhaseIn(stream, cta, at', MergeCta(u, g), 0) =
          IF MergeCta(u, g) = cta THEN End ELSE PhaseIn(stream, cta, at, MergeCta(u, g), 0)
    BY <1>4, <1>9, <2>2 DEF Moves
  <2>5. u = t /\ g \in {h} => new
    BY <2>3, <2>4
  <2>6. ~(u = t /\ g \in {h}) => (new <=> old)
    BY <2>3, <2>4
  <2>7. {h} \in SUBSET HeadsOf(J)
    BY <1>3
  <2> HIDE DEF old, new
  <2>8. RowIs(J, Write(mem, cells), u, g, new)
    BY <1>3, <1>8, <2>1, <2>5, <2>6, <2>7, RowsWritten
  <2> QED
    BY <1>1, <2>8 DEF new
<1>11. ASSUME NEW u \in TokensOf(J), NEW g \in HeadsOf(J), NEW i \in 0 .. J.splits - 1,
              NEW o \in 0 .. J.dim + 1,
              PhaseIn(stream, cta, at', SplitCta(J, u, g, i), PartWarp(J, o)) = End
       PROVE  Read(mem', PartCell(J, u, g, i, o)) = PartOf(J, u, g, i, o)
  <2>1. /\ SplitCta(J, u, g, i) \in FirstGrid(J) /\ SplitCta(J, u, g, i).warps = WarpsOf(J)
        /\ PartWarp(J, o) \in 0 .. WarpsOf(J) - 1
    BY <1>2, RowCtas, PartWarpIn DEF SplitCta, CtaOf
  <2>2. PhaseIn(stream, cta, at, SplitCta(J, u, g, i), PartWarp(J, o)) = End
    BY <1>3, <1>6, <2>1 DEF PhaseIn
  <2>3. Read(mem, PartCell(J, u, g, i, o)) = PartOf(J, u, g, i, o)
    BY <1>5, <2>2 DEF SplitMem
  <2>4. PartCell(J, u, g, i, o) \notin DOMAIN cells
    <3>1. \A d : XCell(J, t, h, d)[1] = "x"
      BY DEF XCell
    <3>2. PartCell(J, u, g, i, o)[1] = "part"
      BY DEF PartCell
    <3> QED
      BY <1>8, <3>1, <3>2 DEF ResultsOf
  <2>5. \A k : Read(Write(mem, cells), k) = IF k \in DOMAIN cells THEN cells[k] ELSE Read(mem, k)
    BY ReadWrite
  <2> QED
    BY <1>1, <2>3, <2>4, <2>5
<1>12. Memory(J, stream, cta, at', mem')
  BY <1>3, <1>10, <1>11 DEF Memory, SplitMem
<1>13. Local(J, cta, at', regs', lds)
  BY <1>1 DEF Local
<1> QED
  BY <1>1, <1>9, <1>12, <1>13 DEF Good

-----------------------------------------------------------------------------
(* The phases of the tiled kernel                                          *)

\* A phase is a place in a pass; the phases of a pass that read the cache are
\* the even ones, whatever the number of the pass.
LEMMA PhaseParts ==
  ASSUME NEW J \in AttnMade, J.op = TiledOp, NEW p \in 0 .. PassesOf(J) * LengthOf(J) - 1
  PROVE  /\ p \in Nat /\ p # End /\ p \div LengthOf(J) \in 0 .. PassesOf(J) - 1
         /\ InPass(J, p) \in 0 .. 2 * TilesOf(J)
         /\ p = (p \div LengthOf(J)) * LengthOf(J) + InPass(J, p) /\ InPass(J, p) = p % LengthOf(J)
         /\ p % 2 = (p \div LengthOf(J)) % 2 <=> InPass(J, p) % 2 = 0
<1> DEFINE n == LengthOf(J)
           k == TilesOf(J)
           q == p \div n
           r == p % n
<1>1. /\ n \in Nat \ {0} /\ k \in Nat /\ n = 2 * k + 1 /\ PassesOf(J) \in Nat
  BY TiledFacts
<1>2. PassesOf(J) * n \in Nat
  <2> HIDE DEF n
  <2> QED
    BY <1>1
<1>3. p \in Nat /\ p < PassesOf(J) * n /\ p # End
  BY <1>2 DEF End
<1>4. q \in Nat /\ r \in 0 .. n - 1 /\ p = q * n + r
  <2> HIDE DEF n
  <2> QED
    BY <1>1, <1>3, Division
<1>5. InPass(J, p) = r
  BY <1>3 DEF InPass
<1> HIDE DEF n, k, q, r
<1>6. ~(q >= PassesOf(J))
  <2>1. ASSUME q >= PassesOf(J)
        PROVE  FALSE
    <3>1. PICK e \in Nat : q = PassesOf(J) + e
      <4>1. q - PassesOf(J) \in Nat /\ q = PassesOf(J) + (q - PassesOf(J))
        BY <1>1, <1>4, <2>1
      <4> QED
        BY <4>1
    <3>2. q * n = PassesOf(J) * n + e * n /\ e * n \in Nat /\ q * n \in Nat
      BY <1>1, <1>4, <3>1
    <3> QED
      BY <1>2, <1>3, <1>4, <3>2
  <2> QED
    BY <2>1
<1>7. p % 2 = q % 2 <=> r % 2 = 0
  <2>1. q * n = 2 * (q * k) + q /\ q * k \in Nat
    BY <1>1, <1>4
  <2> DEFINE m == q * k
  <2>2. m \in Nat /\ p = 2 * m + q + r /\ r \in Nat
    BY <1>1, <1>4, <2>1
  <2> HIDE DEF m
  <2> QED
    BY <1>4, <2>2
<1>8. q \in 0 .. PassesOf(J) - 1 /\ r \in 0 .. 2 * k
  BY <1>1, <1>4, <1>6
<1> QED
  BY <1>3, <1>4, <1>5, <1>7, <1>8 DEF n, k, q, r

LEMMA PhaseCount ==
  ASSUME NEW J \in AttnMade, J.op = TiledOp
  PROVE  PassesOf(J) * LengthOf(J) \in Nat
<1> DEFINE x == PassesOf(J)
           y == LengthOf(J)
<1>1. x \in Nat /\ y \in Nat
  BY TiledFacts
<1> HIDE DEF x, y
<1>2. x * y \in Nat
  BY <1>1
<1> QED
  BY <1>2 DEF x, y

\* The phase that comes next: in the same pass, or the first of another.
LEMMA PhaseNext ==
  ASSUME NEW J \in AttnMade, J.op = TiledOp, NEW p \in 0 .. PassesOf(J) * LengthOf(J) - 1
  PROVE  /\ p + 1 # End
         /\ InPass(J, p) < 2 * TilesOf(J) =>
              /\ p + 1 \in 0 .. PassesOf(J) * LengthOf(J) - 1
              /\ InPass(J, p + 1) = InPass(J, p) + 1
              /\ (p + 1) \div LengthOf(J) = p \div LengthOf(J)
         /\ InPass(J, p) = 2 * TilesOf(J) =>
              /\ InPass(J, p + 1) = 0 /\ p + 1 = (p \div LengthOf(J) + 1) * LengthOf(J)
              /\ IF p \div LengthOf(J) = PassesOf(J) - 1
                 THEN p + 1 = PassesOf(J) * LengthOf(J)
                 ELSE p + 1 \in 0 .. PassesOf(J) * LengthOf(J) - 1
<1> DEFINE n == LengthOf(J)
           k == TilesOf(J)
           P == PassesOf(J)
           q == p \div n
           r == InPass(J, p)
<1>1. n \in Nat \ {0} /\ k \in Nat /\ n = 2 * k + 1 /\ P \in Nat \ {0}
  BY TiledFacts
<1>2. p \in Nat /\ q \in 0 .. P - 1 /\ r \in 0 .. 2 * k /\ p = q * n + r
  BY PhaseParts
<1>3. p + 1 # End /\ InPass(J, p + 1) = (p + 1) % n
  BY <1>2 DEF InPass, End
<1> HIDE DEF n, k, P, q, r
<1>4. P * n \in Nat /\ q * n \in Nat /\ (q + 1) * n = q * n + n
  BY <1>1, <1>2
<1>5. (q + 1) * n <= P * n /\ (q # P - 1 => (q + 1) * n + n <= P * n)
  <2>1. PICK e \in Nat : P = q + 1 + e
    <3>1. P - q - 1 \in Nat /\ P = q + 1 + (P - q - 1)
      BY <1>1, <1>2
    <3> QED
      BY <3>1
  <2>2. P * n = (q + 1) * n + e * n /\ e * n \in Nat
    BY <1>1, <1>2, <2>1
  <2>3. CASE e = 0
    BY <1>1, <1>2, <1>4, <2>1, <2>2, <2>3
  <2>4. CASE e # 0
    <3>1. PICK f \in Nat : e = f + 1
      <4>1. e - 1 \in Nat /\ e = (e - 1) + 1
        BY <2>4
      <4> QED
        BY <4>1
    <3>2. e * n = f * n + n /\ f * n \in Nat
      BY <1>1, <3>1
    <3> QED
      BY <1>1, <1>4, <2>2, <3>2
  <2> QED
    BY <2>3, <2>4
<1>6. ASSUME r < 2 * k
      PROVE  p + 1 \in 0 .. P * n - 1 /\ (p + 1) % n = r + 1 /\ (p + 1) \div n = q
  <2>1. r + 1 \in 0 .. n - 1 /\ q \in Nat
    BY <1>1, <1>2, <1>6
  <2>2. (q * n + (r + 1)) \div n = q /\ (q * n + (r + 1)) % n = r + 1
    BY <1>1, <2>1, Quotient
  <2>3. p + 1 = q * n + (r + 1)
    BY <1>1, <1>2, <1>4
  <2> QED
    BY <1>1, <1>2, <1>4, <1>5, <2>1, <2>2, <2>3
<1>7. ASSUME r = 2 * k
      PROVE  /\ (p + 1) % n = 0 /\ p + 1 = (q + 1) * n
             /\ IF q = P - 1 THEN p + 1 = P * n ELSE p + 1 \in 0 .. P * n - 1
  <2>1. 0 \in 0 .. n - 1 /\ q + 1 \in Nat
    BY <1>1, <1>2
  <2>2. ((q + 1) * n + 0) % n = 0
    BY <1>1, <2>1, Quotient
  <2>3. p + 1 = (q + 1) * n /\ (q + 1) * n + 0 = (q + 1) * n
    BY <1>1, <1>2, <1>4, <1>7
  <2>4. q = P - 1 => q + 1 = P
    BY <1>1, <1>2
  <2>5. q # P - 1 => p + 1 \in 0 .. P * n - 1
    BY <1>1, <1>2, <1>4, <1>5, <2>3
  <2> QED
    BY <2>2, <2>3, <2>4, <2>5
<1> QED
  BY <1>3, <1>6, <1>7 DEF n, k, P, q, r

\* A step within a pass ends no pass; its last step ends that pass and no other.
LEMMA PassesDone ==
  ASSUME NEW J \in AttnMade, J.op = TiledOp, NEW p \in 0 .. PassesOf(J) * LengthOf(J) - 1,
         NEW i \in Nat
  PROVE  /\ PassDone(J, p, i) <=> p \div LengthOf(J) > i
         /\ InPass(J, p) < 2 * TilesOf(J) => (PassDone(J, p + 1, i) <=> PassDone(J, p, i))
         /\ InPass(J, p) = 2 * TilesOf(J) => (PassDone(J, p + 1, i) <=> p \div LengthOf(J) >= i)
         /\ PassDone(J, End, i)
<1> DEFINE n == LengthOf(J)
           q == p \div n
           r == InPass(J, p)
<1>1. n \in Nat \ {0} /\ n = 2 * TilesOf(J) + 1 /\ TilesOf(J) \in Nat
  BY TiledFacts
<1>2. p \in Nat /\ p # End /\ p + 1 # End /\ q \in Nat /\ r \in 0 .. n - 1 /\ p = q * n + r
  BY <1>1, PhaseParts, PhaseNext
<1>3. /\ PassDone(J, p, i) <=> p >= (i + 1) * n
      /\ PassDone(J, p + 1, i) <=> p + 1 >= (i + 1) * n
      /\ PassDone(J, End, i)
  BY <1>2 DEF PassDone, Passed
<1> HIDE DEF n, q, r
<1>4. CASE q > i
  <2>1. PICK e \in Nat : q = i + 1 + e
    <3>1. q - i - 1 \in Nat /\ q = i + 1 + (q - i - 1)
      BY <1>2, <1>4
    <3> QED
      BY <3>1
  <2>2. q * n = (i + 1) * n + e * n /\ e * n \in Nat /\ (i + 1) * n \in Nat
    BY <1>1, <2>1
  <2>3. p >= (i + 1) * n
    BY <1>1, <1>2, <2>2
  <2> QED
    BY <1>2, <1>3, <1>4, <2>2, <2>3 DEF n, q, r
<1>5. CASE q <= i
  <2>1. PICK e \in Nat : i = q + e
    <3>1. i - q \in Nat /\ i = q + (i - q)
      BY <1>2, <1>5
    <3> QED
      BY <3>1
  <2>2. (i + 1) * n = q * n + n + e * n /\ e * n \in Nat /\ q * n \in Nat
    BY <1>1, <1>2, <2>1
  <2>3. e # 0 => e * n >= n
    <3>1. ASSUME e # 0
          PROVE  e * n >= n
      <4>1. PICK f \in Nat : e = f + 1
        <5>1. e - 1 \in Nat /\ e = (e - 1) + 1
          BY <3>1
        <5> QED
          BY <5>1
      <4>2. e * n = f * n + n /\ f * n \in Nat
        BY <1>1, <4>1
      <4> QED
        BY <1>1, <4>2
    <3> QED
      BY <3>1
  <2>4. e = 0 => e * n = 0
    BY <1>1
  <2>5. ~(p >= (i + 1) * n)
    BY <1>1, <1>2, <2>2
  <2>6. p + 1 >= (i + 1) * n <=> r = n - 1 /\ q = i
    <3> DEFINE a == q * n
               b == e * n
               c == (i + 1) * n
    <3>1. /\ a \in Nat /\ b \in Nat /\ c = a + n + b /\ p = a + r
          /\ n \in Nat /\ r \in Nat /\ r <= n - 1
      BY <1>1, <1>2, <2>2
    <3>2. (b = 0 <=> e = 0) /\ (e = 0 <=> q = i)
      BY <1>1, <1>2, <2>1, <2>3, <2>4
    <3> HIDE DEF a, b, c
    <3>3. p + 1 >= c <=> r = n - 1 /\ b = 0
      BY <3>1
    <3> QED
      BY <3>2, <3>3 DEF c
  <2>7. r = n - 1 <=> r = 2 * TilesOf(J)
    BY <1>1, <1>2
  <2>8. ~(q > i) /\ (q >= i <=> q = i)
    BY <1>2, <1>5
  <2>9. PassDone(J, p, i) <=> q > i
    BY <1>3, <2>5, <2>8
  <2>10. r < 2 * TilesOf(J) => (PassDone(J, p + 1, i) <=> PassDone(J, p, i))
    BY <1>1, <1>2, <1>3, <2>5, <2>6, <2>7
  <2>11. r = 2 * TilesOf(J) => (PassDone(J, p + 1, i) <=> q >= i)
    BY <1>3, <2>6, <2>7, <2>8
  <2> QED
    BY <1>3, <2>9, <2>10, <2>11 DEF n, q, r
<1> QED
  BY <1>2, <1>4, <1>5

\* What is known while warp w of attn_fa2_prefill_kernel is in phase p.
TileAt(J, w, p) ==
  /\ cta # Idle /\ cta \in FirstGrid(J) /\ cta \in FirstGrid(J) \cup MergeGrid(J)
  /\ J.op = TiledOp /\ J.op \notin OneOps /\ J.op \notin SplitOps /\ cta.kernel = "fa2"
  /\ cta.warps = FaQueries /\ cta = CtaOf("fa2", FaQueries, cta.x, cta.y, 0)
  /\ cta.x \in 0 .. J.kv - 1 /\ cta.y \in Nat
  /\ w \in 0 .. FaQueries - 1 /\ at[w] = p /\ p \in 0 .. PassesOf(J) * LengthOf(J) - 1
  /\ DOMAIN at = 0 .. FaQueries - 1 /\ DOMAIN regs = 0 .. FaQueries - 1
  /\ \A v \in 0 .. FaQueries - 1 :
       /\ at[v] = End \/ at[v] \in 0 .. PassesOf(J) * LengthOf(J) - 1
       /\ PhaseIn(stream, cta, at, cta, v) = at[v]
  /\ SeenSoFar(J, cta, at, regs) /\ TileIn(J, cta, at, lds) /\ Near(J, at)
  /\ TileMem(J, stream, cta, at, mem)

LEMMA TileAtWork ==
  ASSUME NEW J \in AttnMade, Good(J), NEW w, NEW p, Phase({"fa2"}, w, p)
  PROVE  TileAt(J, w, p)
<1>1. cta.kernel = "fa2" /\ w \in DOMAIN at /\ at[w] = p /\ p # End
  BY DEF Phase
<1>2. /\ cta # Idle /\ cta \in FirstGrid(J) /\ J.op = TiledOp
      /\ DOMAIN at = 0 .. cta.warps - 1 /\ DOMAIN regs = 0 .. cta.warps - 1
      /\ \A v \in 0 .. cta.warps - 1 :
           at[v] \in PhasesOf(J, cta.kernel) /\ PhaseIn(stream, cta, at, cta, v) = at[v]
  BY <1>1, AtWork DEF AttnKernels
<1>3. J.op \notin OneOps /\ J.op \notin SplitOps /\ WarpsOf(J) = FaQueries
  BY <1>2 DEF OneOps, SplitOps, TiledOp, WarpsOf
<1>4. /\ cta.warps = FaQueries /\ cta = CtaOf("fa2", FaQueries, cta.x, cta.y, 0)
      /\ cta.x \in 0 .. J.kv - 1 /\ cta.y \in Nat
  BY <1>2, <1>3, FirstCtas
<1>5. PhasesOf(J, cta.kernel) = {End} \cup 0 .. PassesOf(J) * LengthOf(J) - 1
  BY <1>1 DEF PhasesOf
<1>6. TileLocal(J, cta, at, regs, lds) /\ TileMem(J, stream, cta, at, mem)
  BY <1>1, <1>2 DEF Good, Local, Memory
<1> QED
  BY <1>1, <1>2, <1>3, <1>4, <1>5, <1>6 DEF TileAt, TileLocal

\* A phase of attn_fa2_prefill_kernel that stores nothing to memory.
LEMMA TileGoesOn ==
  ASSUME NEW J \in AttnMade, Good(J), NEW w, NEW p, TileAt(J, w, p), InPass(J, p) < 2 * TilesOf(J),
         mem' = mem, at' = [at EXCEPT ![w] = p + 1], stream' = stream, cta' = cta,
         DOMAIN regs' = DOMAIN regs, TileLocal(J, cta, at', regs', lds')
  PROVE  Good(J)'
<1>1. J.op = TiledOp /\ p \in 0 .. PassesOf(J) * LengthOf(J) - 1 /\ cta.kernel = "fa2"
  BY DEF TileAt
<1>2. p + 1 \in PhasesOf(J, cta.kernel) /\ p + 1 # End /\ p # End
  BY <1>1, PhaseNext, PhaseParts DEF PhasesOf
<1>3. /\ cta \in FirstGrid(J) \cup MergeGrid(J) /\ cta # Idle /\ w \in DOMAIN at /\ w \in 0 .. cta.warps - 1
      /\ PhaseIn(stream, cta, at, cta, w) = p
  BY DEF TileAt
<1>4. /\ Scheduled(J, stream, cta, at', regs')
      /\ Moves(J, stream, cta, at, at', w, p + 1)
  BY <1>2, <1>3, GoesTo DEF Good
<1>5. \A i \in Nat : PassDone(J, p + 1, i) <=> PassDone(J, p, i)
  BY <1>1, PassesDone
<1>6. Memory(J, stream, cta, at', mem)
  <2>1. Memory(J, stream, cta, at, mem)
    BY DEF Good
  <2> QED
    BY <1>2, <1>3, <1>4, <1>5, <2>1, MemoryStays
<1>7. Local(J, cta, at', regs', lds')
  BY <1>1 DEF Local
<1> QED
  BY <1>4, <1>6, <1>7 DEF Good

\* The barriers keep the warps within a phase of one another, and within two
\* across the end of a pass.
LEMMA StaysNear ==
  ASSUME NEW J \in AttnMade, NEW w, NEW p, TileAt(J, w, p), NEW q,
         q = p + 1 \/ (q = End /\ p + 1 = PassesOf(J) * LengthOf(J)),
         Synced(p) \/ (InPass(J, p) = 0 /\ Synced(p - 1)), at' = [at EXCEPT ![w] = q]
  PROVE  Near(J, at')
<1> DEFINE n == PassesOf(J) * LengthOf(J)
<1>1. /\ J.op = TiledOp /\ p \in 0 .. n - 1 /\ w \in 0 .. FaQueries - 1 /\ at[w] = p
      /\ DOMAIN at = 0 .. FaQueries - 1 /\ Near(J, at)
      /\ \A v \in 0 .. FaQueries - 1 : at[v] = End \/ at[v] \in 0 .. n - 1
  BY DEF TileAt
<1>2. n \in Nat
  BY <1>1, PhaseCount
<1> HIDE DEF n
<1>3. \A z \in 0 .. n - 1 : Rank(J, z) = z /\ z # End
  BY <1>2 DEF Rank, End
<1>4. Rank(J, End) = n
  BY DEF Rank, n
<1>5. \A z : Slack(J, z) \in {1, 2} /\ (InPass(J, z) = 2 * TilesOf(J) => Slack(J, z) = 2)
  BY DEF Slack
<1>6. Rank(J, q) = p + 1
  BY <1>1, <1>2, <1>4 DEF Rank, End, n
<1>7. \A v \in 0 .. FaQueries - 1 : Rank(J, at[v]) \in Nat /\ Rank(J, at[v]) <= n
  BY <1>1, <1>2, <1>3, <1>4
<1>8. \A v \in 0 .. FaQueries - 1 : Rank(J, at[v]) <= p + 2 /\ (Slack(J, p) = 1 => Rank(J, at[v]) <= p + 1)
  <2>1. \A v \in 0 .. FaQueries - 1 : Rank(J, at[v]) <= Rank(J, p) + Slack(J, p)
    BY <1>1 DEF Near
  <2> QED
    BY <1>1, <1>2, <1>3, <1>5, <1>7, <2>1
<1>9. ASSUME NEW v \in 0 .. FaQueries - 1
      PROVE  p + 1 <= Rank(J, at[v]) + Slack(J, at[v])
  <2>1. CASE at[v] = End
    BY <1>1, <1>2, <1>4, <1>5, <2>1
  <2>2. CASE at[v] # End /\ at[v] >= p
    <3>1. at[v] \in 0 .. n - 1
      BY <1>1, <2>2
    <3> QED
      BY <1>1, <1>2, <1>3, <1>5, <2>2, <3>1
  <2>3. CASE at[v] # End /\ ~(at[v] >= p)
    <3>1. InPass(J, p) = 0 /\ at[v] >= p - 1 /\ at[v] \in 0 .. n - 1
      BY <1>1, <2>3 DEF Synced
    <3>2. at[v] + 1 = p
      BY <1>1, <1>2, <2>3, <3>1
    <3>3. InPass(J, at[v]) = 2 * TilesOf(J)
      <4>1. InPass(J, at[v]) \in 0 .. 2 * TilesOf(J) /\ TilesOf(J) \in Nat
        BY <1>1, <3>1, PhaseParts, TiledFacts DEF n
      <4>2. ~(InPass(J, at[v]) < 2 * TilesOf(J))
        <5>1. InPass(J, at[v]) < 2 * TilesOf(J) => InPass(J, at[v] + 1) = InPass(J, at[v]) + 1
          BY <1>1, <3>1, PhaseNext DEF n
        <5> QED
          BY <3>1, <3>2, <4>1, <5>1
      <4> QED
        BY <4>1, <4>2
    <3> QED
      BY <1>1, <1>2, <1>3, <1>5, <3>1, <3>2, <3>3
  <2> QED
    BY <2>1, <2>2, <2>3
<1>10. Slack(J, p) = 2 => Slack(J, q) \in {1, 2}
  BY <1>5
<1>11. \A v \in 0 .. FaQueries - 1 : at'[v] = IF v = w THEN q ELSE at[v]
  BY <1>1
<1> SUFFICES ASSUME NEW v \in 0 .. FaQueries - 1, NEW u \in 0 .. FaQueries - 1
             PROVE  Rank(J, at'[v]) <= Rank(J, at'[u]) + Slack(J, at'[u])
  BY DEF Near
<1>12. CASE v = w /\ u = w
  BY <1>1, <1>2, <1>5, <1>6, <1>11, <1>12
<1>13. CASE v = w /\ u # w
  BY <1>6, <1>9, <1>11, <1>13
<1>14. CASE v # w /\ u = w
  <2>1. Slack(J, q) \in {1, 2} /\ Rank(J, at[v]) <= p + 2 /\ Rank(J, at[v]) \in Nat /\ p \in Nat
    BY <1>1, <1>2, <1>5, <1>7, <1>8
  <2> QED
    BY <1>6, <1>11, <1>14, <2>1
<1>15. CASE v # w /\ u # w
  <2>1. Rank(J, at[v]) <= Rank(J, at[u]) + Slack(J, at[u])
    BY <1>1 DEF Near
  <2> QED
    BY <1>11, <1>15, <2>1
<1> QED
  BY <1>12, <1>13, <1>14, <1>15

\* The heads of a pass, and the row of a query.
LEMMA PassHead ==
  ASSUME NEW J \in AttnMade, J.op = TiledOp, NEW x \in 0 .. J.kv - 1, NEW i \in 0 .. PassesOf(J) - 1,
         NEW hh \in HeadsIn(J, i)
  PROVE  LET h == x * GroupOf(J) + hh
         IN  /\ h \in HeadsOf(J) /\ h \div GroupOf(J) = x /\ h % GroupOf(J) = hh /\ PassOf(J, h) = i
             /\ hh \in 0 .. GroupOf(J) - 1
<1> DEFINE g == GroupOf(J)
           n == J.hp
           k == J.kv
           h == x * g + hh
           r == hh - i * n
<1>1. g \in Nat \ {0} /\ n \in Nat \ {0} /\ k \in Nat \ {0} /\ J.heads = k * g /\ PassesOf(J) \in Nat
  BY TiledFacts
<1>2. x \in Nat /\ x < k /\ i \in Nat
  BY <1>1
<1>3. hh \in i * n .. (IF (i + 1) * n < g THEN (i + 1) * n ELSE g) - 1
  BY DEF HeadsIn
<1> HIDE DEF g, n, k
<1>4. i * n \in Nat /\ (i + 1) * n = i * n + n
  BY <1>1, <1>2
<1>5. hh \in 0 .. g - 1 /\ r \in 0 .. n - 1 /\ hh = i * n + r
  BY <1>1, <1>3, <1>4
<1>6. h \div g = x /\ h % g = hh
  BY <1>1, <1>2, <1>5, Quotient
<1>7. hh \div n = i
  <2> HIDE DEF r
  <2> QED
    BY <1>1, <1>2, <1>5, Quotient
<1>8. h \in 0 .. k * g - 1
  <2>1. PICK e \in Nat : k = x + 1 + e
    <3>1. k - x - 1 \in Nat /\ k = x + 1 + (k - x - 1)
      BY <1>1, <1>2
    <3> QED
      BY <3>1
  <2>2. k * g = x * g + g + e * g /\ x * g \in Nat /\ e * g \in Nat
    BY <1>1, <1>2, <2>1
  <2> QED
    BY <1>1, <1>5, <2>2
<1>9. h \in HeadsOf(J) /\ PassOf(J, h) = i
  BY <1>1, <1>6, <1>7, <1>8 DEF HeadsOf, PassOf, g, n, k
<1> QED
  BY <1>5, <1>6, <1>9 DEF g

LEMMA OwnRow ==
  ASSUME NEW J \in AttnMade, NEW w, NEW p, TileAt(J, w, p), NEW t \in TokensOf(J), NEW h \in HeadsOf(J)
  PROVE  TileCta(J, t, h) = cta /\ t % FaQueries = w <=>
           t = cta.y * FaQueries + w /\ h \div GroupOf(J) = cta.x
<1>1. /\ cta = CtaOf("fa2", FaQueries, cta.x, cta.y, 0) /\ cta.y \in Nat /\ w \in 0 .. FaQueries - 1
  BY DEF TileAt
<1>2. FaQueries \in Nat \ {0} /\ t \in Nat
  BY AttnAssumption, MadeFacts DEF TokensOf
<1>3. /\ t \div FaQueries \in Nat /\ t % FaQueries \in 0 .. FaQueries - 1
      /\ t = (t \div FaQueries) * FaQueries + (t % FaQueries)
  BY <1>2, Division
<1>4. TileCta(J, t, h) = cta <=> h \div GroupOf(J) = cta.x /\ t \div FaQueries = cta.y
  <2>1. \A x, y : CtaOf("fa2", FaQueries, x, y, 0).x = x /\ CtaOf("fa2", FaQueries, x, y, 0).y = y
    BY DEF CtaOf
  <2> QED
    BY <1>1, <2>1 DEF TileCta
<1>5. t = cta.y * FaQueries + w => t \div FaQueries = cta.y /\ t % FaQueries = w
  BY <1>1, <1>2, Quotient
<1> QED
  BY <1>3, <1>4, <1>5

\* The row of a query, if this memory still holds it.
QueryIn(J, m, t, h) ==
  IF \A d \in DimsOf(J) : Read(m, XCell(J, t, h, d)) = Raw(XCell(J, t, h, d))
  THEN <<t, h>> ELSE <<"overwritten", "overwritten">>

\* attn_fa2_prefill_kernel: a warp loads its rows of the tile, and at the first tile
\* of a pass takes the queries of its heads.
LEMMA LoadTileStep ==
  ASSUME NEW J \in AttnMade, job = J, Good(J), NEW w, NEW p, LoadTile(w, p)
  PROVE  Good(J)'
<1> DEFINE n == LengthOf(J)
           i == p \div n
           k == (p % n) \div 2
           t == cta.y * FaQueries + w
           x == cta.x
           rows == {j \in 0 .. FaTile - 1 : FaTile * k + j < J.keys /\ j % FaQueries = w}
           fresh == [hh \in HeadsIn(J, i) |-> Slice(QueryIn(J, mem, t, x * GroupOf(J) + hh), x, <<>>, 0)]
           cells == [c \in {"k", "v"} \X rows |->
                      [op |-> "row", cache |-> c[1], key |-> FaTile * k + c[2], kv |-> x]]
<1>1. /\ Phase({"fa2"}, w, p) /\ p % n < 2 * TilesOf(J) /\ p % 2 = i % 2
      /\ IF p % n = 0 THEN Synced(p - 1) ELSE Synced(p)
      /\ mem' = mem /\ at' = [at EXCEPT ![w] = p + 1] /\ stream' = stream /\ cta' = cta
  BY DEF LoadTile, TileFree, PassLength, Tiles, Pass, Keep, Goto, Still, LengthOf, TilesOf
<1>2. regs' = IF k = 0 /\ t < Len(J.pos) THEN [regs EXCEPT ![w] = fresh] ELSE regs
  BY DEF LoadTile, PassLength, Tiles, Pass, Tile, PassHeads, HeadOf, MyQuery, Active, Tokens, Group, Keep,
         Query, X, Row, Dims, LengthOf, TilesOf, GroupOf, HeadsIn, QueryIn, XCell, RowAt, DimsOf
<1>3. lds' = Write(lds, cells)
  BY DEF LoadTile, PassLength, Tiles, Tile, Keep, LengthOf, TilesOf
<1>4. TileAt(J, w, p)
  BY <1>1, TileAtWork
<1>5. /\ J.op = TiledOp /\ p \in 0 .. PassesOf(J) * n - 1 /\ w \in 0 .. FaQueries - 1
      /\ DOMAIN at = 0 .. FaQueries - 1 /\ DOMAIN regs = 0 .. FaQueries - 1
      /\ x \in 0 .. J.kv - 1 /\ cta.y \in Nat /\ at[w] = p
  BY <1>4 DEF TileAt
<1>6. FaTile \in Nat \ {0} /\ FaQueries \in Nat \ {0} /\ J.keys \in Nat /\ TilesOf(J) \in Nat
  BY <1>5, AttnAssumption, TiledFacts
<1>7. /\ p # End /\ p + 1 # End /\ InPass(J, p) = p % n /\ InPass(J, p) < 2 * TilesOf(J)
      /\ k \in Nat /\ InPass(J, p) = 2 * k /\ InPass(J, p + 1) = 2 * k + 1
      /\ i \in 0 .. PassesOf(J) - 1 /\ (p + 1) \div n = i
  <2> DEFINE r == p % n
  <2>1. /\ p # End /\ p + 1 # End /\ i \in 0 .. PassesOf(J) - 1 /\ InPass(J, p) = r
        /\ r \in 0 .. 2 * TilesOf(J) /\ r < 2 * TilesOf(J) /\ r % 2 = 0
    BY <1>1, <1>5, PhaseParts, PhaseNext
  <2>2. InPass(J, p + 1) = r + 1 /\ (p + 1) \div n = i
    BY <1>1, <1>5, <2>1, PhaseNext
  <2> HIDE DEF r
  <2>3. r = 2 * (r \div 2) /\ r \div 2 \in Nat
    BY <1>6, <2>1
  <2> QED
    BY <2>1, <2>2, <2>3 DEF r
<1>8. \A v \in 0 .. FaQueries - 1 : at'[v] = IF v = w THEN p + 1 ELSE at[v]
  BY <1>1, <1>5
<1>9. t < Len(J.pos) <=> t \in TokensOf(J)
  <2>1. t \in Nat /\ Len(J.pos) \in Nat
    <3>1. cta.y * FaQueries \in Nat /\ w \in Nat
      BY <1>5, <1>6
    <3> QED
      BY <3>1, MadeFacts
  <2> HIDE DEF t
  <2> QED
    BY <2>1 DEF TokensOf
<1>10. ASSUME t \in TokensOf(J), k = 0
       PROVE  fresh = KeysSeen(J, cta, w, p + 1)
  <2>1. FirstKeys(SeenAfter(J, t, InPass(J, p + 1) \div 2)) = <<>>
    <3> HIDE DEF k, t
    <3>1. InPass(J, p + 1) \div 2 = 0 /\ FaTile * 0 = 0 /\ LastKey(J, t) \in Nat
      <4>1. InPass(J, p + 1) = 1 /\ 1 \div 2 = 0
        BY <1>7, <1>10
      <4>2. LastKey(J, t) \in Nat
        BY <1>10, MadeFacts
      <4> QED
        BY <1>6, <4>1, <4>2
    <3>2. SeenAfter(J, t, 0) = 0
      BY <3>1 DEF SeenAfter
    <3>3. FirstKeys(0) = <<>>
      BY DEF FirstKeys
    <3> QED
      BY <3>1, <3>2, <3>3
  <2>2. ASSUME NEW hh \in HeadsIn(J, i)
        PROVE  QueryIn(J, mem, t, x * GroupOf(J) + hh) = <<t, x * GroupOf(J) + hh>>
    <3> DEFINE h == x * GroupOf(J) + hh
    <3>1. h \in HeadsOf(J) /\ h \div GroupOf(J) = x /\ PassOf(J, h) = i
      BY <1>5, <1>7, <2>2, PassHead
    <3> HIDE DEF h
    <3>2. TileCta(J, t, h) = cta /\ t % FaQueries = w
      BY <1>4, <1>10, <3>1, OwnRow
    <3>3. ~PassDone(J, p, i)
      <4>1. i \in Nat
        BY <1>7
      <4>2. ~(i > i)
        BY <4>1
      <4> QED
        BY <1>5, <4>1, <4>2, PassesDone
    <3>4. PhaseIn(stream, cta, at, cta, w) = p
      BY <1>4 DEF TileAt
    <3>5. RowIs(J, mem, t, h, PassDone(J, PhaseIn(stream, cta, at, TileCta(J, t, h), t % FaQueries), PassOf(J, h)))
      BY <1>4, <1>10, <3>1 DEF TileAt, TileMem
    <3>6. RowIs(J, mem, t, h, PassDone(J, p, i))
      BY <3>1, <3>2, <3>4, <3>5
    <3>7. QueryIn(J, mem, t, h) = <<t, h>>
      BY <3>3, <3>6 DEF RowIs, QueryIn
    <3> QED
      BY <3>7 DEF h
  <2>3. KeysSeen(J, cta, w, p + 1) = [hh \in HeadsIn(J, i) |-> Slice(<<t, x * GroupOf(J) + hh>>, x, <<>>, 0)]
    BY <1>7, <2>1 DEF KeysSeen
  <2> QED
    BY <2>2, <2>3
<1>11. SeenSoFar(J, cta, at', regs')
  <2> SUFFICES ASSUME NEW v \in 0 .. FaQueries - 1, InPass(J, at'[v]) # 0,
                      cta.y * FaQueries + v \in TokensOf(J)
               PROVE  regs'[v] = KeysSeen(J, cta, v, at'[v])
    BY DEF SeenSoFar
  <2>1. CASE v = w /\ k = 0
    <3>1. t \in TokensOf(J)
      BY <2>1
    <3>2. fresh = KeysSeen(J, cta, w, p + 1) /\ t < Len(J.pos)
      BY <1>9, <1>10, <2>1, <3>1
    <3> HIDE DEF fresh, t
    <3>3. regs'[w] = fresh
      BY <1>2, <1>5, <2>1, <3>2
    <3> QED
      BY <1>8, <2>1, <3>2, <3>3
  <2>2. CASE v = w /\ k # 0
    <3> HIDE DEF k
    <3>1. InPass(J, p) # 0 /\ InPass(J, p + 1) \div 2 = InPass(J, p) \div 2
      BY <1>7, <2>2
    <3>2. regs[w] = KeysSeen(J, cta, w, p)
      BY <1>4, <1>5, <2>2, <3>1 DEF TileAt, SeenSoFar
    <3>3. KeysSeen(J, cta, w, p + 1) = KeysSeen(J, cta, w, p)
      BY <1>7, <3>1 DEF KeysSeen
    <3>4. regs' = regs
      BY <1>2, <2>2
    <3> QED
      BY <1>5, <1>8, <2>2, <3>2, <3>3, <3>4
  <2>3. CASE v # w
    <3>1. at'[v] = at[v]
      BY <1>8, <2>3
    <3> HIDE DEF fresh, k, t
    <3>2. regs'[v] = regs[v]
      BY <1>2, <1>5, <2>3
    <3> QED
      BY <1>4, <3>1, <3>2 DEF TileAt, SeenSoFar
  <2> QED
    BY <2>1, <2>2, <2>3
<1>12. TileIn(J, cta, at', lds')
  <2> SUFFICES ASSUME NEW v \in 0 .. FaQueries - 1, NEW j \in 0 .. FaTile - 1, NEW b \in {"k", "v"},
                      j % FaQueries = v, InPass(J, at'[v]) # 0, KeyAt(J, at'[v], j) < J.keys
               PROVE  Read(lds', <<b, j>>) = CacheRow(cta, b, KeyAt(J, at'[v], j))
    BY DEF TileIn
  <2>1. Read(Write(lds, cells), <<b, j>>) =
          IF <<b, j>> \in DOMAIN cells THEN cells[<<b, j>>] ELSE Read(lds, <<b, j>>)
    <3> HIDE DEF cells
    <3>1. \A c : Read(Write(lds, cells), c) = IF c \in DOMAIN cells THEN cells[c] ELSE Read(lds, c)
      BY ReadWrite
    <3> QED
      BY <3>1
  <2>2. CASE v = w
    <3>1. KeyAt(J, at'[v], j) = FaTile * k + j
      <4>1. at'[v] = p + 1
        BY <1>8, <2>2
      <4> HIDE DEF k
      <4>2. (InPass(J, p + 1) - 1) \div 2 = k
        BY <1>7
      <4> QED
        BY <4>1, <4>2 DEF KeyAt
    <3>2. j \in rows
      BY <2>2, <3>1
    <3>3. /\ <<b, j>> \in DOMAIN cells
          /\ cells[<<b, j>>] = [op |-> "row", cache |-> b, key |-> FaTile * k + j, kv |-> x]
      <4> HIDE DEF k, rows
      <4> QED
        BY <3>2
    <3> HIDE DEF cells, k
    <3> QED
      BY <1>3, <2>1, <3>1, <3>3 DEF CacheRow
  <2>3. CASE v # w
    <3>1. j \notin rows
      BY <2>3
    <3>2. <<b, j>> \notin DOMAIN cells
      <4> HIDE DEF rows
      <4> QED
        BY <3>1
    <3>3. at'[v] = at[v]
      BY <1>8, <2>3
    <3>4. Read(lds, <<b, j>>) = CacheRow(cta, b, KeyAt(J, at[v], j))
      BY <1>4, <3>3 DEF TileAt, TileIn
    <3> HIDE DEF cells
    <3> QED
      BY <1>3, <2>1, <3>2, <3>3, <3>4
  <2> QED
    BY <2>2, <2>3
<1>13. Near(J, at')
  BY <1>1, <1>4, <1>7, StaysNear
<1>14. DOMAIN regs' = DOMAIN regs
  <2> HIDE DEF fresh, k, t
  <2> QED
    BY <1>2
<1> QED
  BY <1>1, <1>4, <1>7, <1>11, <1>12, <1>13, <1>14, TileGoesOn DEF TileLocal

\* The keys of tile k that a query sees, as the LDS has them.
KeyIn(c, l, j) ==
  LET k == Read(l, <<"k", j>>) v == Read(l, <<"v", j>>)
  IN  IF k.op = "row" /\ v.op = "row" /\ k.key = v.key /\ k.cache = "k" /\ v.cache = "v"
         /\ k.kv = c.x /\ v.kv = c.x
      THEN k.key ELSE -1
KeysUpTo(J, t, k) == {j \in 0 .. FaTile - 1 : FaTile * k + j <= J.pos[t + 1]}
SeenIn(J, c, l, t, k) == [j \in 1 .. Cardinality(KeysUpTo(J, t, k)) |-> KeyIn(c, l, j - 1)]

\* They are as many as are still to be seen of it, and go on from those before.
LEMMA TileKeys ==
  ASSUME NEW J \in AttnMade, J.op = TiledOp, NEW t \in TokensOf(J), NEW k \in Nat
  PROVE  LET n == Cardinality(KeysUpTo(J, t, k))
         IN  /\ n \in Nat /\ SeenAfter(J, t, k) \in Nat
             /\ SeenAfter(J, t, k + 1) = SeenAfter(J, t, k) + n
             /\ n # 0 => SeenAfter(J, t, k) = FaTile * k
             /\ \A j \in 1 .. n : j - 1 \in 0 .. FaTile - 1 /\ FaTile * k + (j - 1) <= LastKey(J, t)
<1> DEFINE last == LastKey(J, t)
           f == FaTile
           b == f * k
           n == Cardinality(KeysUpTo(J, t, k))
<1>1. last \in Nat /\ f \in Nat \ {0}
  BY MadeFacts, AttnAssumption
<1> HIDE DEF last, f
<1>2. b \in Nat /\ f * (k + 1) = b + f
  BY <1>1
<1>3. KeysUpTo(J, t, k) = {j \in 0 .. f - 1 : b + j <= last}
  BY DEF KeysUpTo, LastKey, last, f
<1>4. /\ SeenAfter(J, t, k) = IF last + 1 <= b THEN last + 1 ELSE b
      /\ SeenAfter(J, t, k + 1) = IF last + 1 <= b + f THEN last + 1 ELSE b + f
  BY <1>2 DEF SeenAfter, last, f
<1> HIDE DEF b
<1>5. CASE last + 1 <= b
  <2>1. KeysUpTo(J, t, k) = {}
    BY <1>1, <1>2, <1>3, <1>5
  <2>2. n = 0
    BY <2>1, FS_EmptySet
  <2> HIDE DEF n
  <2> QED
    BY <1>1, <1>2, <1>4, <1>5, <2>2 DEF n
<1>6. CASE last + 1 > b /\ last + 1 <= b + f
  <2>1. KeysUpTo(J, t, k) = 0 .. last - b
    BY <1>1, <1>2, <1>3, <1>6
  <2>2. Cardinality(0 .. last - b) = IF 0 > last - b THEN 0 ELSE (last - b) - 0 + 1
    BY <1>1, <1>2, FS_Interval
  <2>3. n = last - b + 1
    BY <1>1, <1>2, <1>6, <2>1, <2>2
  <2> HIDE DEF n
  <2>4. /\ n \in Nat /\ SeenAfter(J, t, k) = b /\ SeenAfter(J, t, k + 1) = b + n
        /\ \A j \in 1 .. n : j - 1 \in 0 .. f - 1 /\ b + (j - 1) <= last
    BY <1>1, <1>2, <1>4, <1>6, <2>3
  <2> QED
    BY <1>2, <2>4 DEF n, b, f, last
<1>7. CASE last + 1 > b + f
  <2>1. KeysUpTo(J, t, k) = 0 .. f - 1
    BY <1>1, <1>2, <1>3, <1>7
  <2>2. Cardinality(0 .. f - 1) = IF 0 > f - 1 THEN 0 ELSE (f - 1) - 0 + 1
    BY <1>1, <1>2, FS_Interval
  <2>3. n = f
    BY <1>1, <2>1, <2>2
  <2> HIDE DEF n
  <2>4. /\ n \in Nat /\ SeenAfter(J, t, k) = b /\ SeenAfter(J, t, k + 1) = b + n
        /\ \A j \in 1 .. n : j - 1 \in 0 .. f - 1 /\ b + (j - 1) <= last
    BY <1>1, <1>2, <1>4, <1>7, <2>3
  <2> QED
    BY <1>2, <2>4 DEF n, b, f, last
<1>8. last + 1 <= b \/ (last + 1 > b /\ last + 1 <= b + f) \/ last + 1 > b + f
  BY <1>1, <1>2
<1> QED
  BY <1>5, <1>6, <1>7, <1>8

LEMMA JoinIs ==
  ASSUME NEW f \in Seq(Nat), NEW s \in Seq(Nat)
  PROVE  /\ f \o s \in Seq(Nat) /\ Len(f \o s) = Len(f) + Len(s)
         /\ \A i \in 1 .. Len(f) + Len(s) : (f \o s)[i] = IF i <= Len(f) THEN f[i] ELSE s[i - Len(f)]
OBVIOUS

LEMMA KeysGoOn ==
  ASSUME NEW a \in Nat, NEW n \in Nat, NEW s, s = [j \in 1 .. n |-> a + (j - 1)]
  PROVE  FirstKeys(a) \o s = FirstKeys(a + n)
<1> DEFINE f == FirstKeys(a)
<1>1. f \in Seq(Nat) /\ Len(f) = a /\ \A i \in 1 .. a : f[i] = i - 1
  BY DEF FirstKeys
<1>2. s \in Seq(Nat) /\ Len(s) = n /\ \A i \in 1 .. n : s[i] = a + (i - 1)
  OBVIOUS
<1> HIDE DEF f
<1>3. f \o s \in Seq(Nat) /\ Len(f \o s) = a + n
  BY <1>1, <1>2, JoinIs
<1>4. DOMAIN (f \o s) = 1 .. a + n
  BY <1>3
<1>5. \A i \in 1 .. a + n : (f \o s)[i] = i - 1
  <2> SUFFICES ASSUME NEW i \in 1 .. a + n
               PROVE  (f \o s)[i] = i - 1
    OBVIOUS
  <2>1. (f \o s)[i] = IF i <= Len(f) THEN f[i] ELSE s[i - Len(f)]
    BY <1>1, <1>2, JoinIs
  <2>2. CASE i <= a
    BY <1>1, <2>1, <2>2
  <2>3. CASE ~(i <= a)
    <3>1. i - a \in 1 .. n
      BY <2>3
    <3> QED
      BY <1>1, <1>2, <2>1, <2>3, <3>1
  <2> QED
    BY <2>2, <2>3
<1>6. f \o s = [i \in 1 .. a + n |-> i - 1]
  BY SMTT(30), <1>3, <1>4, <1>5
<1> QED
  BY <1>6 DEF FirstKeys, f

\* While a warp consumes a tile, the others have loaded theirs of it and no other.
LEMMA InTile ==
  ASSUME NEW J \in AttnMade, NEW w, NEW p, TileAt(J, w, p), Synced(p), NEW k \in Nat,
         InPass(J, p) = 2 * k + 1, InPass(J, p) < 2 * TilesOf(J), NEW v \in 0 .. FaQueries - 1
  PROVE  InPass(J, at[v]) # 0 /\ (InPass(J, at[v]) - 1) \div 2 = k
<1> DEFINE n == PassesOf(J) * LengthOf(J)
<1>1. /\ J.op = TiledOp /\ p \in 0 .. n - 1 /\ w \in 0 .. FaQueries - 1 /\ at[w] = p
      /\ DOMAIN at = 0 .. FaQueries - 1 /\ (at[v] = End \/ at[v] \in 0 .. n - 1)
      /\ Rank(J, at[v]) <= Rank(J, p) + Slack(J, p)
  BY DEF TileAt, Near
<1>2. /\ p \in Nat /\ p # End /\ p + 1 \in 0 .. n - 1 /\ InPass(J, p + 1) = 2 * k + 2
  <2>1. InPass(J, p + 1) = InPass(J, p) + 1
    BY <1>1, PhaseNext
  <2> QED
    BY <1>1, <2>1, PhaseParts, PhaseNext
<1> HIDE DEF n
<1>3. Rank(J, p) = p /\ Slack(J, p) = 1
  <2>1. InPass(J, p) # 2 * TilesOf(J) /\ TilesOf(J) \in Nat
    BY <1>1, TiledFacts
  <2> QED
    BY <1>2, <2>1 DEF Rank, Slack
<1>4. at[v] # End
  <2>1. ASSUME at[v] = End
        PROVE  FALSE
    <3>1. Rank(J, at[v]) = n
      BY <2>1 DEF Rank, n
    <3>2. n \in Nat
      BY <1>1, PhaseCount DEF n
    <3> QED
      BY <1>1, <1>2, <1>3, <3>1, <3>2
  <2> QED
    BY <2>1
<1>5. at[v] >= p /\ at[v] \in Nat
  BY <1>1, <1>2, <1>4 DEF Synced
<1>6. at[v] = p \/ at[v] = p + 1
  BY <1>1, <1>2, <1>3, <1>4, <1>5 DEF Rank
<1>7. InPass(J, at[v]) = 2 * k + 1 \/ InPass(J, at[v]) = 2 * k + 2
  BY <1>2, <1>6
<1>8. ((2 * k + 1) - 1) \div 2 = k /\ ((2 * k + 2) - 1) \div 2 = k /\ 2 * k + 1 # 0 /\ 2 * k + 2 # 0
  OBVIOUS
<1> QED
  BY <1>7, <1>8

\* A slice with other keys, or at another place.
LEMMA SliceParts ==
  \A q, kv, keys, d :
    /\ Slice(q, kv, keys, d).keys = keys
    /\ \A new : [Slice(q, kv, keys, d) EXCEPT !.keys = new] = Slice(q, kv, new, d)
    /\ \A e : [Slice(q, kv, keys, d) EXCEPT !.d = e] = Slice(q, kv, keys, e)
BY DEF Slice

\* attn_fa2_prefill_kernel: a warp goes on to the keys of the tile, from its own kv head.
LEMMA ConsumeTileStep ==
  ASSUME NEW J \in AttnMade, job = J, Good(J), NEW w, NEW p, ConsumeTile(w, p)
  PROVE  Good(J)'
<1> DEFINE n == LengthOf(J)
           i == p \div n
           k == (p % n) \div 2
           t == cta.y * FaQueries + w
           x == cta.x
           seen == SeenIn(J, cta, lds, t, k)
           on(old) == [hh \in DOMAIN old |-> [old[hh] EXCEPT !.keys = old[hh].keys \o seen]]
<1>1. /\ Phase({"fa2"}, w, p) /\ p % n < 2 * TilesOf(J) /\ p % 2 # i % 2 /\ Synced(p)
      /\ mem' = mem /\ at' = [at EXCEPT ![w] = p + 1] /\ stream' = stream /\ cta' = cta
  BY DEF ConsumeTile, PassLength, Tiles, Pass, Keep, Goto, Still, LengthOf, TilesOf
<1>2. regs' = IF t < Len(J.pos) THEN [regs EXCEPT ![w] = on(regs[w])] ELSE regs
  <2>1. Seen(w, p) = seen
    BY DEF Seen, Tile, PassLength, Tiles, MyQuery, LengthOf, TilesOf, SeenIn, KeyIn, KeysUpTo
  <2>2. Active(w) <=> t < Len(J.pos)
    <3>1. MyQuery(w) = t
      BY DEF MyQuery
    <3> HIDE DEF t
    <3> QED
      BY <3>1 DEF Active, Tokens
  <2>3. regs' = IF Active(w)
                THEN [regs EXCEPT ![w] = [hh \in DOMAIN regs[w] |->
                       [regs[w][hh] EXCEPT !.keys = regs[w][hh].keys \o Seen(w, p)]]]
                ELSE regs
    BY DEF ConsumeTile, Keep
  <2> HIDE DEF seen, t
  <2> QED
    BY <2>1, <2>2, <2>3
<1>3. lds' = IF t < Len(J.pos) THEN Write(lds, <<>>) ELSE lds
  BY DEF ConsumeTile, MyQuery, Active, Tokens, Keep
<1>4. TileAt(J, w, p)
  BY <1>1, TileAtWork
<1>5. /\ J.op = TiledOp /\ p \in 0 .. PassesOf(J) * n - 1 /\ w \in 0 .. FaQueries - 1
      /\ DOMAIN at = 0 .. FaQueries - 1 /\ DOMAIN regs = 0 .. FaQueries - 1
      /\ x \in 0 .. J.kv - 1 /\ cta.y \in Nat /\ at[w] = p
  BY <1>4 DEF TileAt
<1>6. FaTile \in Nat \ {0} /\ FaQueries \in Nat \ {0} /\ J.keys \in Nat /\ TilesOf(J) \in Nat
  BY <1>5, AttnAssumption, TiledFacts
<1>7. /\ p # End /\ p + 1 # End /\ InPass(J, p) = p % n /\ InPass(J, p) < 2 * TilesOf(J)
      /\ k \in Nat /\ InPass(J, p) = 2 * k + 1 /\ InPass(J, p + 1) = 2 * k + 2
      /\ i \in 0 .. PassesOf(J) - 1 /\ (p + 1) \div n = i
  <2> DEFINE r == p % n
  <2>1. /\ p # End /\ p + 1 # End /\ i \in 0 .. PassesOf(J) - 1 /\ InPass(J, p) = r
        /\ r \in 0 .. 2 * TilesOf(J) /\ r < 2 * TilesOf(J) /\ r % 2 # 0
    BY <1>1, <1>5, PhaseParts, PhaseNext
  <2>2. InPass(J, p + 1) = r + 1 /\ (p + 1) \div n = i
    BY <1>1, <1>5, <2>1, PhaseNext
  <2> HIDE DEF r
  <2>3. r = 2 * (r \div 2) + 1 /\ r \div 2 \in Nat
    BY <1>6, <2>1
  <2> QED
    BY <2>1, <2>2, <2>3 DEF r
<1>8. \A v \in 0 .. FaQueries - 1 : at'[v] = IF v = w THEN p + 1 ELSE at[v]
  BY <1>1, <1>5
<1>9. t < Len(J.pos) <=> t \in TokensOf(J)
  <2>1. t \in Nat /\ Len(J.pos) \in Nat
    <3>1. cta.y * FaQueries \in Nat /\ w \in Nat
      BY <1>5, <1>6
    <3> QED
      BY <3>1, MadeFacts
  <2> HIDE DEF t
  <2> QED
    BY <2>1 DEF TokensOf
<1>10. \A c : Read(lds', c) = Read(lds, c)
  <2>1. \A c : Read(Write(lds, <<>>), c) = Read(lds, c)
    <3>1. \A c : Read(Write(lds, <<>>), c) = IF c \in DOMAIN <<>> THEN <<>>[c] ELSE Read(lds, c)
      BY ReadWrite
    <3>2. DOMAIN <<>> = {}
      OBVIOUS
    <3> QED
      BY <3>1, <3>2
  <2> QED
    BY <1>3, <2>1
<1> HIDE DEF k, n, i
<1>11. ASSUME t \in TokensOf(J)
       PROVE  FirstKeys(SeenAfter(J, t, k)) \o seen = FirstKeys(SeenAfter(J, t, k + 1))
  <2> DEFINE m == Cardinality(KeysUpTo(J, t, k))
             a == SeenAfter(J, t, k)
  <2>1. /\ m \in Nat /\ a \in Nat /\ SeenAfter(J, t, k + 1) = a + m /\ (m # 0 => a = FaTile * k)
        /\ \A j \in 1 .. m : j - 1 \in 0 .. FaTile - 1 /\ FaTile * k + (j - 1) <= LastKey(J, t)
    BY <1>5, <1>7, <1>11, TileKeys
  <2>2. ASSUME NEW j \in 1 .. m
        PROVE  KeyIn(cta, lds, j - 1) = a + (j - 1)
    <3> DEFINE e == j - 1
               v == e % FaQueries
               key == FaTile * k + e
    <3>1. e \in 0 .. FaTile - 1 /\ e \in Nat /\ key <= LastKey(J, t) /\ key \in Nat
      <4>1. e \in 0 .. FaTile - 1 /\ e \in Nat /\ key <= LastKey(J, t)
        BY <1>6, <2>1
      <4>2. FaTile * k \in Nat
        BY <1>6, <1>7
      <4> QED
        BY <4>1, <4>2
    <3>2. key < J.keys
      <4>1. LastKey(J, t) < J.keys /\ LastKey(J, t) \in Nat
        BY <1>5, <1>11, TiledFacts, MadeFacts
      <4> HIDE DEF key
      <4> QED
        BY <1>6, <3>1, <4>1
    <3>3. a + e = key
      <4>1. m # 0
        BY <2>1
      <4> QED
        BY <2>1, <4>1
    <3>4. v \in 0 .. FaQueries - 1
      BY <1>6, <3>1, Division
    <3>5. InPass(J, at[v]) # 0 /\ (InPass(J, at[v]) - 1) \div 2 = k
      <4> HIDE DEF v
      <4> QED
        BY <1>1, <1>4, <1>7, <3>4, InTile
    <3>6. KeyAt(J, at[v], e) = key
      BY <3>5 DEF KeyAt
    <3> HIDE DEF key, a
    <3>7. \A b \in {"k", "v"} : Read(lds, <<b, e>>) = CacheRow(cta, b, key)
      BY <1>4, <3>1, <3>2, <3>4, <3>5, <3>6 DEF TileAt, TileIn
    <3> HIDE DEF e
    <3>8. Read(lds, <<"k", e>>) = CacheRow(cta, "k", key) /\ Read(lds, <<"v", e>>) = CacheRow(cta, "v", key)
      BY <3>7
    <3>9. KeyIn(cta, lds, e) = key
      BY <3>8 DEF KeyIn, CacheRow
    <3> QED
      BY <3>3, <3>9 DEF e
  <2>3. seen = [j \in 1 .. m |-> a + (j - 1)]
    BY <2>2 DEF SeenIn
  <2> HIDE DEF seen, m, a
  <2>4. FirstKeys(a) \o seen = FirstKeys(a + m)
    BY <2>1, <2>3, KeysGoOn
  <2> QED
    BY <2>1, <2>4 DEF a
<1> HIDE DEF seen
<1>12. ASSUME t \in TokensOf(J)
       PROVE  on(regs[w]) = KeysSeen(J, cta, w, p + 1)
  <2>1. InPass(J, p) # 0 /\ InPass(J, p) \div 2 = k /\ InPass(J, p + 1) \div 2 = k + 1
    BY <1>7
  <2>2. regs[w] = KeysSeen(J, cta, w, p)
    BY <1>4, <1>5, <1>12, <2>1 DEF TileAt, SeenSoFar
  <2>3. regs[w] = [hh \in HeadsIn(J, i) |->
                    Slice(<<t, x * GroupOf(J) + hh>>, x, FirstKeys(SeenAfter(J, t, k)), 0)]
    BY <2>1, <2>2 DEF KeysSeen, i, n
  <2>4. KeysSeen(J, cta, w, p + 1) = [hh \in HeadsIn(J, i) |->
          Slice(<<t, x * GroupOf(J) + hh>>, x, FirstKeys(SeenAfter(J, t, k + 1)), 0)]
    BY <1>7, <2>1 DEF KeysSeen, n
  <2> HIDE DEF t
  <2>5. DOMAIN regs[w] = HeadsIn(J, i) /\ DOMAIN on(regs[w]) = HeadsIn(J, i)
    BY <2>3
  <2>6. ASSUME NEW hh \in HeadsIn(J, i)
        PROVE  on(regs[w])[hh] = KeysSeen(J, cta, w, p + 1)[hh]
    <3>1. regs[w][hh] = Slice(<<t, x * GroupOf(J) + hh>>, x, FirstKeys(SeenAfter(J, t, k)), 0)
      BY <2>3, <2>6
    <3>2. [regs[w][hh] EXCEPT !.keys = regs[w][hh].keys \o seen] =
            Slice(<<t, x * GroupOf(J) + hh>>, x, FirstKeys(SeenAfter(J, t, k)) \o seen, 0)
      <4> DEFINE q == <<t, x * GroupOf(J) + hh>>
                 keys == FirstKeys(SeenAfter(J, t, k))
      <4> HIDE DEF q, keys
      <4>1. regs[w][hh] = Slice(q, x, keys, 0) /\ regs[w][hh].keys = keys
        BY <3>1, SliceParts DEF q, keys
      <4>2. [Slice(q, x, keys, 0) EXCEPT !.keys = keys \o seen] = Slice(q, x, keys \o seen, 0)
        BY DEF Slice
      <4>3. [regs[w][hh] EXCEPT !.keys = regs[w][hh].keys \o seen] = Slice(q, x, keys \o seen, 0)
        BY <4>1, <4>2
      <4> QED
        BY <4>3 DEF q, keys
    <3>3. on(regs[w])[hh] = [regs[w][hh] EXCEPT !.keys = regs[w][hh].keys \o seen]
      BY <2>5, <2>6
    <3>4. FirstKeys(SeenAfter(J, t, k)) \o seen = FirstKeys(SeenAfter(J, t, k + 1))
      BY <1>11, <1>12
    <3> QED
      BY <2>4, <2>6, <3>2, <3>3, <3>4
  <2> QED
    BY <2>4, <2>5, <2>6
<1> HIDE DEF on
<1>13. SeenSoFar(J, cta, at', regs')
  <2> SUFFICES ASSUME NEW v \in 0 .. FaQueries - 1, InPass(J, at'[v]) # 0,
                      cta.y * FaQueries + v \in TokensOf(J)
               PROVE  regs'[v] = KeysSeen(J, cta, v, at'[v])
    BY DEF SeenSoFar
  <2>1. CASE v = w
    <3>1. t \in TokensOf(J)
      BY <2>1
    <3>2. on(regs[w]) = KeysSeen(J, cta, w, p + 1) /\ t < Len(J.pos)
      BY <1>9, <1>12, <3>1
    <3> HIDE DEF t
    <3>3. regs'[w] = on(regs[w])
      BY <1>2, <1>5, <3>2
    <3> QED
      BY <1>8, <2>1, <3>2, <3>3
  <2>2. CASE v # w
    <3>1. at'[v] = at[v]
      BY <1>8, <2>2
    <3> HIDE DEF t
    <3>2. regs'[v] = regs[v]
      BY <1>2, <1>5, <2>2
    <3> QED
      BY <1>4, <3>1, <3>2 DEF TileAt, SeenSoFar
  <2> QED
    BY <2>1, <2>2
<1>14. TileIn(J, cta, at', lds')
  <2> SUFFICES ASSUME NEW v \in 0 .. FaQueries - 1, NEW j \in 0 .. FaTile - 1, NEW b \in {"k", "v"},
                      j % FaQueries = v, InPass(J, at'[v]) # 0, KeyAt(J, at'[v], j) < J.keys
               PROVE  Read(lds', <<b, j>>) = CacheRow(cta, b, KeyAt(J, at'[v], j))
    BY DEF TileIn
  <2>1. InPass(J, at[v]) # 0 /\ KeyAt(J, at'[v], j) = KeyAt(J, at[v], j)
    <3>1. CASE v = w
      <4>1. at'[v] = p + 1 /\ at[v] = p
        BY <1>5, <1>8, <3>1
      <4>2. InPass(J, p) # 0 /\ (InPass(J, p) - 1) \div 2 = k /\ (InPass(J, p + 1) - 1) \div 2 = k
        BY <1>7
      <4> QED
        BY <4>1, <4>2 DEF KeyAt
    <3>2. CASE v # w
      BY <1>8, <3>2
    <3> QED
      BY <3>1, <3>2
  <2>2. Read(lds, <<b, j>>) = CacheRow(cta, b, KeyAt(J, at[v], j))
    BY <1>4, <2>1 DEF TileAt, TileIn
  <2> QED
    BY <1>10, <2>1, <2>2
<1>15. Near(J, at')
  BY <1>1, <1>4, StaysNear
<1>16. DOMAIN regs' = DOMAIN regs
  <2> HIDE DEF t
  <2> QED
    BY <1>2
<1> QED
  BY <1>1, <1>4, <1>7, <1>13, <1>14, <1>15, <1>16, TileGoesOn DEF TileLocal

\* attn_fa2_prefill_kernel: at the end of a pass a warp writes the rows of its heads.
LEMMA WriteRowsStep ==
  ASSUME NEW J \in AttnMade, job = J, Good(J), NEW w, NEW p, WriteRows(w, p)
  PROVE  Good(J)'
<1> DEFINE n == LengthOf(J)
           g == GroupOf(J)
           i == p \div n
           t == cta.y * FaQueries + w
           x == cta.x
           q == IF i = PassesOf(J) - 1 THEN End ELSE p + 1
           at0 == RowAt(J, t, x * g)
           head(c) == (c[2] - at0) \div J.dim
           dim(c) == (c[2] - at0) % J.dim
           val(c) == Merged(<<[regs[w][head(c)] EXCEPT !.d = -1]>>,
                            <<[regs[w][head(c)] EXCEPT !.d = dim(c)]>>)
           places == {XCell(J, t, x * g + hh, d) : hh \in HeadsIn(J, i), d \in DimsOf(J)}
           cells == [c \in places |-> val(c)]
           H == {x * g + hh : hh \in HeadsIn(J, i)}
<1>1. /\ Phase({"fa2"}, w, p) /\ p % n = 2 * TilesOf(J) /\ Synced(p)
      /\ regs' = regs /\ lds' = lds /\ at' = [at EXCEPT ![w] = q] /\ stream' = stream /\ cta' = cta
  BY DEF WriteRows, PassLength, Tiles, Pass, Passes, Group, Put, Goto, Still, LengthOf, TilesOf,
         PassesOf, GroupOf, Blocks
<1>2. mem' = IF t < Len(J.pos) THEN Write(mem, cells) ELSE mem
  <2>1. Active(w) <=> t < Len(J.pos)
    <3>1. MyQuery(w) = t
      BY DEF MyQuery
    <3> HIDE DEF t
    <3> QED
      BY <3>1 DEF Active, Tokens
  <2>2. ASSUME Active(w)
        PROVE  mem' = Write(mem, cells)
    <3> DEFINE from == Row(MyQuery(w), cta.x * Group)
               mine == {X(MyQuery(w), HeadOf(hh), d) : hh \in PassHeads(Pass(p)), d \in Dims}
               now(c) == LET sl == regs[w][(c[2] - from) \div job.dim]
                             d == (c[2] - from) % job.dim
                         IN  Merged(<<[sl EXCEPT !.d = -1]>>, <<[sl EXCEPT !.d = d]>>)
    <3>1. mem' = Write(mem, [c \in mine |-> now(c)])
      BY <2>2 DEF WriteRows, Put
    <3>2. PassHeads(Pass(p)) = HeadsIn(J, i) /\ Dims = DimsOf(J) /\ from = at0
      BY DEF PassHeads, Pass, PassLength, Tiles, Group, HeadsIn, LengthOf, TilesOf, GroupOf, Dims, DimsOf,
             Row, RowAt, MyQuery
    <3>3. mine = places
      <4>1. mine = {<<"x", ((cta.y * FaQueries + w) * job.heads
                              + (cta.x * (job.heads \div job.kv) + hh)) * job.dim + d>> :
                      hh \in PassHeads(Pass(p)), d \in Dims}
        BY DEF X, Row, HeadOf, MyQuery, Group
      <4>2. places = {<<"x", ((cta.y * FaQueries + w) * J.heads
                                + (cta.x * (J.heads \div J.kv) + hh)) * J.dim + d>> :
                        hh \in HeadsIn(J, i), d \in DimsOf(J)}
        BY DEF XCell, RowAt, GroupOf
      <4> HIDE DEF mine, places, i
      <4> QED
        BY <3>2, <4>1, <4>2
    <3>4. \A c : now(c) = val(c)
      <4> HIDE DEF from, at0
      <4> QED
        BY <3>2
    <3> HIDE DEF mine, places, from, at0, i, t
    <3> QED
      BY <3>1, <3>3, <3>4 DEF cells
  <2>3. ~Active(w) => mem' = mem
    BY DEF WriteRows
  <2> QED
    BY SMTT(30), <2>1, <2>2, <2>3
<1> HIDE DEF cells
<1>3. TileAt(J, w, p)
  BY <1>1, TileAtWork
<1>4. /\ J.op = TiledOp /\ p \in 0 .. PassesOf(J) * n - 1 /\ w \in 0 .. FaQueries - 1
      /\ J.op \notin OneOps /\ J.op \notin SplitOps /\ cta.kernel = "fa2" /\ cta.warps = FaQueries
      /\ DOMAIN at = 0 .. FaQueries - 1 /\ DOMAIN regs = 0 .. FaQueries - 1
      /\ cta # Idle /\ cta \in FirstGrid(J) \cup MergeGrid(J)
      /\ x \in 0 .. J.kv - 1 /\ cta.y \in Nat /\ at[w] = p
      /\ SeenSoFar(J, cta, at, regs) /\ TileIn(J, cta, at, lds) /\ TileMem(J, stream, cta, at, mem)
      /\ \A v \in 0 .. FaQueries - 1 : PhaseIn(stream, cta, at, cta, v) = at[v]
  BY <1>3 DEF TileAt
<1>5. /\ p # End /\ p + 1 # End /\ i \in 0 .. PassesOf(J) - 1 /\ InPass(J, p) = 2 * TilesOf(J)
      /\ q \in PhasesOf(J, cta.kernel) /\ InPass(J, q) = 0
      /\ q = p + 1 \/ (q = End /\ p + 1 = PassesOf(J) * n)
  <2>1. /\ p # End /\ p + 1 # End /\ i \in 0 .. PassesOf(J) - 1 /\ InPass(J, p) = 2 * TilesOf(J)
    BY <1>1, <1>4, PhaseParts, PhaseNext
  <2>2. /\ InPass(J, p + 1) = 0
        /\ IF i = PassesOf(J) - 1 THEN p + 1 = PassesOf(J) * n ELSE p + 1 \in 0 .. PassesOf(J) * n - 1
    BY <1>4, <2>1, PhaseNext
  <2>3. PhasesOf(J, cta.kernel) = {End} \cup 0 .. PassesOf(J) * n - 1
    BY <1>4 DEF PhasesOf
  <2>4. InPass(J, End) = 0
    BY DEF InPass
  <2> HIDE DEF i, n
  <2> QED
    BY <2>1, <2>2, <2>3, <2>4
<1>6. t < Len(J.pos) <=> t \in TokensOf(J)
  <2>1. t \in Nat /\ Len(J.pos) \in Nat
    <3>1. cta.y * FaQueries \in Nat /\ w \in Nat
      BY <1>4, AttnAssumption
    <3> QED
      BY <3>1, MadeFacts
  <2> HIDE DEF t
  <2> QED
    BY <2>1 DEF TokensOf
<1>7. \A hh \in HeadsIn(J, i) :
        /\ x * g + hh \in HeadsOf(J) /\ (x * g + hh) \div g = x /\ PassOf(J, x * g + hh) = i
        /\ hh \in 0 .. g - 1
  BY <1>4, <1>5, PassHead
<1>8. \A h \in HeadsOf(J) : h \in H <=> h \div g = x /\ PassOf(J, h) = i
  <2> SUFFICES ASSUME NEW h \in HeadsOf(J), h \div g = x, PassOf(J, h) = i
               PROVE  h \in H
    BY <1>7
  <2>1. h = x * g + (h % g) /\ h % g \in HeadsIn(J, i)
    BY <1>4, PassOfIs
  <2> QED
    BY <2>1
<1>9. ASSUME t \in TokensOf(J)
      PROVE  ResultsOf(J, t, H, cells)
  <2>1. DOMAIN cells = {XCell(J, t, h, d) : h \in H, d \in DimsOf(J)}
    <3>1. DOMAIN cells = places
      BY DEF cells
    <3> HIDE DEF t
    <3> QED
      BY <3>1
  <2>2. ASSUME NEW hh \in HeadsIn(J, i), NEW d \in DimsOf(J)
        PROVE  cells[XCell(J, t, x * g + hh, d)] = Result(J, t, x * g + hh, d)
    <3> DEFINE h == x * g + hh
               c == XCell(J, t, h, d)
    <3>1. cells[c] = val(c)
      <4> HIDE DEF t
      <4>1. c \in places
        OBVIOUS
      <4> HIDE DEF c, places
      <4> QED
        BY <4>1 DEF cells
    <3>2. c[2] - at0 = hh * J.dim + d /\ hh \in Nat /\ d \in 0 .. J.dim - 1 /\ J.dim \in Nat \ {0}
      <4>1. /\ J.dim \in Nat \ {0} /\ d \in 0 .. J.dim - 1 /\ J.heads \in Nat /\ t \in Nat
            /\ x \in Nat /\ g \in Nat /\ hh \in Nat
        <5>1. J.dim \in Nat /\ J.heads \in Nat /\ Len(J.pos) \in Nat /\ g \in Nat
          BY <1>4, MadeFacts, TiledFacts
        <5>2. hh \in 0 .. g - 1
          BY <1>7
        <5> HIDE DEF t, g
        <5> QED
          BY <1>4, <1>9, <5>1, <5>2 DEF DimsOf, TokensOf
      <4>2. c[2] = (t * J.heads + (x * g + hh)) * J.dim + d
        BY DEF XCell, RowAt
      <4>3. at0 = (t * J.heads + x * g) * J.dim
        BY DEF RowAt
      <4> DEFINE a == t * J.heads
                 b == x * g
      <4>4. a \in Nat /\ b \in Nat
        BY <4>1
      <4> HIDE DEF a, b, c, at0
      <4>5. (a + (b + hh)) * J.dim = (a + b) * J.dim + hh * J.dim /\ (a + b) * J.dim \in Nat
            /\ hh * J.dim \in Nat
        BY <4>1, <4>4
      <4>6. c[2] = (a + (b + hh)) * J.dim + d /\ at0 = (a + b) * J.dim
        BY <4>2, <4>3 DEF a, b
      <4> QED
        BY <4>1, <4>5, <4>6
    <3>3. head(c) = hh /\ dim(c) = d
      <4> HIDE DEF c, at0
      <4>1. (hh * J.dim + d) \div J.dim = hh /\ (hh * J.dim + d) % J.dim = d
        BY <3>2, Quotient
      <4> QED
        BY <3>2, <4>1
    <3>4. regs[w][hh] = Slice(<<t, h>>, x, FirstKeys(LastKey(J, t) + 1), 0)
      <4>1. regs[w] = KeysSeen(J, cta, w, p)
        <5>1. InPass(J, p) # 0
          BY <1>4, <1>5, TiledFacts
        <5> QED
          BY <1>4, <1>9, <5>1 DEF SeenSoFar
      <4>2. InPass(J, p) \div 2 = TilesOf(J)
        <5>1. TilesOf(J) \in Nat
          BY <1>4, TiledFacts
        <5>2. (2 * TilesOf(J)) \div 2 = TilesOf(J)
          BY <5>1
        <5> QED
          BY <1>5, <5>2
      <4>3. SeenAfter(J, t, TilesOf(J)) = LastKey(J, t) + 1
        BY <1>4, <1>9, TiledFacts DEF SeenAfter
      <4>4. regs[w] = [e \in HeadsIn(J, i) |-> Slice(<<t, x * g + e>>, x, FirstKeys(LastKey(J, t) + 1), 0)]
        BY <4>1, <4>2, <4>3 DEF KeysSeen
      <4> HIDE DEF t, i
      <4> QED
        BY <4>4
    <3> DEFINE keys == FirstKeys(LastKey(J, t) + 1)
    <3>5. [regs[w][hh] EXCEPT !.d = -1] = Slice(<<t, h>>, x, keys, -1)
      <4> HIDE DEF t, h, keys
      <4>1. [Slice(<<t, h>>, x, keys, 0) EXCEPT !.d = -1] = Slice(<<t, h>>, x, keys, -1)
        BY DEF Slice
      <4>2. regs[w][hh] = Slice(<<t, h>>, x, keys, 0)
        BY <3>4 DEF keys, h
      <4> QED
        BY <4>1, <4>2
    <3>6. [regs[w][hh] EXCEPT !.d = d] = Slice(<<t, h>>, x, keys, d)
      <4> HIDE DEF t, h, keys
      <4>1. [Slice(<<t, h>>, x, keys, 0) EXCEPT !.d = d] = Slice(<<t, h>>, x, keys, d)
        BY SMTT(30) DEF Slice
      <4>2. regs[w][hh] = Slice(<<t, h>>, x, keys, 0)
        BY <3>4 DEF keys, h
      <4> QED
        BY <4>1, <4>2
    <3>7. val(c) = Merged(<<Slice(<<t, h>>, x, keys, -1)>>, <<Slice(<<t, h>>, x, keys, d)>>)
      <4>1. val(c) = Merged(<<[regs[w][hh] EXCEPT !.d = -1]>>, <<[regs[w][hh] EXCEPT !.d = d]>>)
        BY <3>3
      <4> QED
        BY ZenonT(60), <3>5, <3>6, <4>1
    <3>8. h \div (J.heads \div J.kv) = x
      BY <1>7 DEF GroupOf
    <3>9. \A e : <<Slice(<<t, h>>, x, keys, e)>> = WholeSlice(J, t, h, e)
      BY <3>8 DEF WholeSlice, SliceBy
    <3>10. Result(J, t, h, d) = Merged(WholeSlice(J, t, h, -1), WholeSlice(J, t, h, d))
      BY <1>4 DEF Result
    <3> HIDE DEF t, h, keys, val, c
    <3>11. cells[c] = Result(J, t, h, d)
      BY <3>1, <3>7, <3>9, <3>10
    <3> QED
      BY <3>11 DEF c, h
  <2> HIDE DEF cells, t
  <2>3. \A h \in H : \A d \in DimsOf(J) : cells[XCell(J, t, h, d)] = Result(J, t, h, d)
    BY <2>2
  <2> QED
    BY <2>1, <2>3 DEF ResultsOf
<1>10. /\ Scheduled(J, stream, cta, at', regs')
       /\ Moves(J, stream, cta, at, at', w, q)
  BY <1>1, <1>4, <1>5, GoesTo DEF Good
<1>11. \A k \in 0 .. PassesOf(J) - 1 :
         /\ k = i => PassDone(J, q, k)
         /\ k # i => (PassDone(J, q, k) <=> PassDone(J, p, k))
  <2> SUFFICES ASSUME NEW k \in 0 .. PassesOf(J) - 1
               PROVE  /\ k = i => PassDone(J, q, k)
                      /\ k # i => (PassDone(J, q, k) <=> PassDone(J, p, k))
    OBVIOUS
  <2>1. k \in Nat /\ PassesOf(J) \in Nat
    BY <1>4, TiledFacts
  <2>2. /\ PassDone(J, p, k) <=> i > k
        /\ PassDone(J, p + 1, k) <=> i >= k
        /\ PassDone(J, End, k)
    BY <1>4, <1>5, <2>1, PassesDone
  <2> HIDE DEF i
  <2> QED
    BY <1>5, <2>1, <2>2
<1> HIDE DEF q, H
<1>12. TileMem(J, stream, cta, at', mem')
  <2> SUFFICES ASSUME NEW u \in TokensOf(J), NEW h \in HeadsOf(J)
               PROVE  RowIs(J, mem', u, h,
                        PassDone(J, PhaseIn(stream, cta, at', TileCta(J, u, h), u % FaQueries), PassOf(J, h)))
    BY DEF TileMem
  <2> DEFINE old == PassDone(J, PhaseIn(stream, cta, at, TileCta(J, u, h), u % FaQueries), PassOf(J, h))
             new == PassDone(J, PhaseIn(stream, cta, at', TileCta(J, u, h), u % FaQueries), PassOf(J, h))
             mine == u = t /\ h \div g = x
  <2>1. RowIs(J, mem, u, h, old)
    BY <1>4 DEF TileMem
  <2>2. /\ TileCta(J, u, h) \in FirstGrid(J) /\ TileCta(J, u, h).warps = FaQueries
        /\ u % FaQueries \in 0 .. FaQueries - 1
    BY <1>4, RowCtas DEF TileCta, CtaOf
  <2>3. TileCta(J, u, h) = cta /\ u % FaQueries = w <=> mine
    BY <1>3, OwnRow
  <2>4. PhaseIn(stream, cta, at', TileCta(J, u, h), u % FaQueries) =
          IF mine THEN q ELSE PhaseIn(stream, cta, at, TileCta(J, u, h), u % FaQueries)
    BY <1>10, <2>2, <2>3 DEF Moves
  <2>5. mine => PhaseIn(stream, cta, at, TileCta(J, u, h), u % FaQueries) = p
    BY <1>4, <2>3
  <2>6. PassOf(J, h) \in 0 .. PassesOf(J) - 1
    BY <1>4, PassOfIs
  <2>7. u = t /\ h \in H <=> mine /\ PassOf(J, h) = i
    BY <1>8
  <2> HIDE DEF i, t
  <2>8. u = t /\ h \in H => new
    BY <1>11, <2>4, <2>6, <2>7
  <2>9. ~(u = t /\ h \in H) => (new <=> old)
    <3>1. CASE mine
      BY <1>11, <2>4, <2>5, <2>6, <2>7, <3>1
    <3>2. CASE ~mine
      BY <2>4, <3>2
    <3> QED
      BY <3>1, <3>2
  <2>10. H \in SUBSET HeadsOf(J)
    BY <1>7 DEF H
  <2> HIDE DEF old, new
  <2>11. CASE t \in TokensOf(J)
    <3>1. RowIs(J, Write(mem, cells), u, h, new)
      BY <1>9, <2>1, <2>8, <2>9, <2>10, <2>11, RowsWritten
    <3> QED
      BY <1>2, <1>6, <2>11, <3>1 DEF new
  <2>12. CASE t \notin TokensOf(J)
    <3>1. new <=> old
      BY <2>9, <2>12
    <3>2. RowIs(J, mem, u, h, new)
      BY <2>1, <3>1 DEF RowIs
    <3> QED
      BY <1>2, <1>6, <2>12, <3>2 DEF new
  <2> QED
    BY <2>11, <2>12
<1>13. \A v \in 0 .. FaQueries - 1 : at'[v] = IF v = w THEN q ELSE at[v]
  BY <1>1, <1>4
<1>14. SeenSoFar(J, cta, at', regs)
  <2> SUFFICES ASSUME NEW v \in 0 .. FaQueries - 1, InPass(J, at'[v]) # 0,
                      cta.y * FaQueries + v \in TokensOf(J)
               PROVE  regs[v] = KeysSeen(J, cta, v, at'[v])
    BY DEF SeenSoFar
  <2>1. at'[v] = at[v]
    BY <1>5, <1>13
  <2> QED
    BY <1>4, <2>1 DEF SeenSoFar
<1>15. TileIn(J, cta, at', lds)
  <2> SUFFICES ASSUME NEW v \in 0 .. FaQueries - 1, NEW j \in 0 .. FaTile - 1, NEW b \in {"k", "v"},
                      j % FaQueries = v, InPass(J, at'[v]) # 0, KeyAt(J, at'[v], j) < J.keys
               PROVE  Read(lds, <<b, j>>) = CacheRow(cta, b, KeyAt(J, at'[v], j))
    BY DEF TileIn
  <2>1. at'[v] = at[v]
    BY <1>5, <1>13
  <2> QED
    BY <1>4, <2>1 DEF TileIn
<1>16. Near(J, at')
  BY <1>1, <1>3, <1>5, StaysNear
<1>17. Memory(J, stream, cta, at', mem')
  BY <1>4, <1>12 DEF Memory
<1>18. Local(J, cta, at', regs', lds')
  BY <1>1, <1>4, <1>14, <1>15, <1>16 DEF Local, TileLocal
<1> QED
  BY <1>1, <1>10, <1>17, <1>18 DEF Good

-----------------------------------------------------------------------------
(* The launches                                                            *)

\* While every CTA waits, no row is written.
LEMMA AllRaw ==
  ASSUME NEW J \in AttnMade, NEW s, FirstGrid(J) \cup MergeGrid(J) \subseteq Waits(s), NEW a
  PROVE  Memory(J, s, Idle, a, <<>>)
<1>1. \A g \in FirstGrid(J) \cup MergeGrid(J) : \A w : PhaseIn(s, Idle, a, g, w) = 0
  BY DEF PhaseIn
<1>2. \A t, h : RowIs(J, <<>>, t, h, FALSE)
  <2>1. \A k : Read(<<>>, k) = Raw(k)
    BY DEF Read
  <2> QED
    BY <2>1 DEF RowIs
<1>3. 0 # End
  BY DEF End
<1>4. CASE J.op \in OneOps
  <2>1. J.op # TiledOp /\ J.op \notin SplitOps
    BY <1>4 DEF OneOps, TiledOp, SplitOps
  <2>2. ASSUME NEW t \in TokensOf(J), NEW h \in HeadsOf(J)
        PROVE  \A w \in 0 .. Warps - 1 : PhaseIn(s, Idle, a, OneCta(t, h), w) # End
    BY <1>1, <1>3, <1>4, RowCtas
  <2>3. OneMem(J, s, Idle, a, <<>>)
    BY <1>2, <2>2 DEF OneMem, RowIs
  <2> QED
    BY <2>1, <2>3 DEF Memory
<1>5. CASE J.op \in SplitOps
  <2>1. J.op # TiledOp /\ J.op \notin OneOps
    BY <1>5 DEF OneOps, TiledOp, SplitOps
  <2>2. ASSUME NEW t \in TokensOf(J), NEW h \in HeadsOf(J)
        PROVE  /\ PhaseIn(s, Idle, a, MergeCta(t, h), 0) # End
               /\ \A i \in 0 .. J.splits - 1 : \A w : PhaseIn(s, Idle, a, SplitCta(J, t, h, i), w) # End
    BY <1>1, <1>3, <1>5, RowCtas
  <2>3. SplitMem(J, s, Idle, a, <<>>)
    BY <1>2, <2>2 DEF SplitMem, RowIs
  <2> QED
    BY <2>1, <2>3 DEF Memory
<1>6. CASE J.op = TiledOp
  <2>1. J.op \notin OneOps /\ J.op \notin SplitOps
    BY <1>6 DEF OneOps, TiledOp, SplitOps
  <2>2. \A i \in Nat : ~PassDone(J, 0, i)
    <3> SUFFICES ASSUME NEW i \in Nat
                 PROVE  ~(0 >= (i + 1) * LengthOf(J))
      BY <1>3 DEF PassDone, Passed
    <3>1. LengthOf(J) \in Nat \ {0}
      BY <1>6, TiledFacts
    <3>2. (i + 1) * LengthOf(J) = i * LengthOf(J) + LengthOf(J) /\ i * LengthOf(J) \in Nat
      BY <3>1
    <3> QED
      BY <3>1, <3>2
  <2>3. ASSUME NEW t \in TokensOf(J), NEW h \in HeadsOf(J)
        PROVE  ~PassDone(J, PhaseIn(s, Idle, a, TileCta(J, t, h), t % FaQueries), PassOf(J, h))
    <3>1. PassOf(J, h) \in Nat
      BY <1>6, PassOfIs
    <3>2. PhaseIn(s, Idle, a, TileCta(J, t, h), t % FaQueries) = 0
      BY <1>1, <1>6, RowCtas
    <3> QED
      BY <2>2, <3>1, <3>2
  <2>4. TileMem(J, s, Idle, a, <<>>)
    BY <1>2, <2>3 DEF TileMem, RowIs
  <2> QED
    BY <2>1, <2>4 DEF Memory
<1> QED
  BY <1>4, <1>5, <1>6, MadeFacts

\* The invariant, of the launch that runs.
LEMMA StaysGood ==
  ASSUME NEW J \in AttnMade, job' = J, Good(J)'
  PROVE  LaunchInv'
<1>1. "kv" \in DOMAIN J
  BY MadeFacts
<1>2. J # None
  <2>1. DOMAIN None = {"op"}
    BY DEF None
  <2> QED
    BY <1>1, <2>1
<1> QED
  BY <1>1, <1>2 DEF Good, LaunchInv, AttnInv

\* A launch of an attention kernel puts its grids on the stream.
Grids(J) == IF J.op \in SplitOps THEN <<FirstGrid(J), MergeGrid(J)>> ELSE <<FirstGrid(J)>>

LEMMA AttnStart ==
  ASSUME LaunchInv, NEW J \in AttnMade, Start(J, Grids(J))
  PROVE  LaunchInv'
<1>1. /\ cta = Idle /\ mem = <<>> /\ job' = J /\ stream' = Grids(J)
      /\ cta' = Idle /\ mem' = <<>>
  BY DEF LaunchInv, Start
<1>2. Idle \notin FirstGrid(J)
  BY FirstCtas
<1>3. Waits(Grids(J)) = FirstGrid(J) \cup MergeGrid(J)
  BY WaitsOf DEF Grids, MergeGrid
<1>4. Scheduled(J, Grids(J), Idle, at', regs')
  <2>1. CASE J.op \in SplitOps
    BY <1>2, <2>1 DEF Grids, Scheduled
  <2>2. CASE J.op \notin SplitOps
    BY <1>2, <2>2 DEF Grids, Scheduled, LastGrid
  <2> QED
    BY <2>1, <2>2
<1>5. Memory(J, Grids(J), Idle, at', <<>>)
  BY <1>3, AllRaw
<1>6. Local(J, Idle, at', regs', lds')
  BY DEF Local, Idle
<1>7. Good(J)'
  BY <1>1, <1>4, <1>5, <1>6 DEF Good
<1> QED
  BY <1>1, <1>7, StaysGood

\* The six launches.
AttnLaunches ==
  \/ AttnLaunch \/ AttnBatchLaunch \/ AttnLaunchSplit \/ AttnLaunchSplitWpb
  \/ AttnSplitBatchLaunch \/ Fa2PrefillLaunch

LEMMA AttnLaunchesStep ==
  ASSUME LaunchInv, AttnLaunches
  PROVE  LaunchInv'
<1>1. \A j \in AttnJobs :
        /\ j.op \in OneOps => j \in AttnMade
        /\ j.op \in SplitOps /\ j.splits >= 1 => j \in AttnMade
        /\ j.op = TiledOp /\ j.dim = FaDim /\ j.heads \div j.kv = FaGroup /\ j.heads % j.kv = 0
             /\ Len(j.pos) >= 1 => j \in AttnMade
  BY DEF AttnMade, OneOps, SplitOps, TiledOp
<1>2. \A j \in AttnJobs :
        j.op \in {"attn_launch", "attn_launch_split", "attn_launch_split_wpb"} => Len(j.pos) = 1
  BY AttnJobsAssumption
<1>3. \A j : j.op \in OneOps => Grids(j) = <<Grid("attn", Warps, j.heads, Len(j.pos), 1)>>
  BY DEF Grids, FirstGrid, OneOps, SplitOps
<1>4. \A j : j.op \in SplitOps => Grids(j) = SplitGrids(j, Len(j.pos), WarpsOf(j))
  BY DEF Grids, FirstGrid, MergeGrid, SplitGrids, OneOps, SplitOps, TiledOp
<1>5. CASE AttnLaunch
  <2>1. PICK j \in AttnJobs : j.op = "attn_launch" /\ Start(j, <<Grid("attn", Warps, j.heads, 1, 1)>>)
    BY <1>5 DEF AttnLaunch
  <2>2. j \in AttnMade /\ j.op \in OneOps
    BY <1>1, <2>1 DEF OneOps
  <2>3. Grids(j) = <<Grid("attn", Warps, j.heads, 1, 1)>>
    BY <1>2, <1>3, <2>1, <2>2
  <2>4. Start(j, Grids(j))
    BY <2>1, <2>3
  <2> QED
    BY <2>2, <2>4, AttnStart
<1>6. CASE AttnBatchLaunch
  <2>1. PICK j \in AttnJobs :
          j.op = "attn_batch_launch" /\ Start(j, <<Grid("attn", Warps, j.heads, Len(j.pos), 1)>>)
    BY <1>6 DEF AttnBatchLaunch
  <2>2. j \in AttnMade /\ Start(j, Grids(j))
    BY <1>1, <1>3, <2>1 DEF OneOps
  <2> QED
    BY <2>2, AttnStart
<1>7. CASE AttnLaunchSplit
  <2>1. PICK j \in AttnJobs :
          j.op = "attn_launch_split" /\ j.splits >= 1 /\ Start(j, SplitGrids(j, 1, SplitWarps(j.splits)))
    BY <1>7 DEF AttnLaunchSplit
  <2>2. j \in AttnMade /\ j.op \in SplitOps /\ WarpsOf(j) = SplitWarps(j.splits)
    BY <1>1, <2>1 DEF SplitOps, OneOps, TiledOp, WarpsOf
  <2>3. Grids(j) = SplitGrids(j, 1, SplitWarps(j.splits))
    BY <1>2, <1>4, <2>1, <2>2
  <2>4. Start(j, Grids(j))
    BY <2>1, <2>3
  <2> QED
    BY <2>2, <2>4, AttnStart
<1>8. CASE AttnLaunchSplitWpb
  <2>1. PICK j \in AttnJobs :
          j.op = "attn_launch_split_wpb" /\ j.splits >= 1 /\ Start(j, SplitGrids(j, 1, j.wpb))
    BY <1>8 DEF AttnLaunchSplitWpb
  <2>2. j \in AttnMade /\ j.op \in SplitOps /\ WarpsOf(j) = j.wpb
    BY <1>1, <2>1 DEF SplitOps, OneOps, TiledOp, WarpsOf
  <2>3. Grids(j) = SplitGrids(j, 1, j.wpb)
    BY <1>2, <1>4, <2>1, <2>2
  <2>4. Start(j, Grids(j))
    BY <2>1, <2>3
  <2> QED
    BY <2>2, <2>4, AttnStart
<1>9. CASE AttnSplitBatchLaunch
  <2>1. PICK j \in AttnJobs :
          /\ j.op = "attn_split_batch_launch" /\ j.splits >= 1
          /\ Start(j, SplitGrids(j, Len(j.pos), SplitWarps(j.splits)))
    BY <1>9 DEF AttnSplitBatchLaunch
  <2>2. j \in AttnMade /\ WarpsOf(j) = SplitWarps(j.splits)
    BY <1>1, <2>1 DEF SplitOps, OneOps, TiledOp, WarpsOf
  <2>3. Start(j, Grids(j))
    BY <1>4, <2>1, <2>2 DEF SplitOps
  <2> QED
    BY <2>2, <2>3, AttnStart
<1>10. CASE Fa2PrefillLaunch
  <2>1. PICK j \in AttnJobs :
          /\ j.op = TiledOp /\ j.dim = FaDim /\ j.heads \div j.kv = FaGroup /\ j.heads % j.kv = 0
          /\ Len(j.pos) >= 1
          /\ Start(j, <<Grid("fa2", FaQueries, j.kv, Blocks(Len(j.pos), FaQueries), 1)>>)
    BY <1>10 DEF Fa2PrefillLaunch, TiledOp, Blocks
  <2>2. j \in AttnMade
    BY <1>1, <2>1
  <2>3. Grids(j) = <<Grid("fa2", FaQueries, j.kv, Blocks(Len(j.pos), FaQueries), 1)>>
    BY <2>1 DEF Grids, FirstGrid, OneOps, SplitOps, TiledOp
  <2>4. Start(j, Grids(j))
    BY <2>1, <2>3
  <2> QED
    BY <2>2, <2>4, AttnStart
<1> QED
  BY <1>5, <1>6, <1>7, <1>8, <1>9, <1>10 DEF AttnLaunches

-----------------------------------------------------------------------------
(* All steps                                                               *)

\* The phases of the warps.
AttnPhase(w) ==
  \/ Scan(w) \/ MergeSlices(w)
  \/ ScanSplit(w) \/ SplitMax(w) \/ SplitWeights(w) \/ WritePartial(w) \/ MergeSplits(w)
  \/ \E p \in {at[w]} : LoadTile(w, p) \/ ConsumeTile(w, p) \/ WriteRows(w, p)

\* What else a launch that is running needs for its steps to keep the invariant.
LEMMA LaunchGoesOn ==
  ASSUME LaunchInv, job # None, job' = job, \A J \in AttnMade : job = J /\ Good(J) => Good(J)'
  PROVE  LaunchInv'
<1>1. CASE "kv" \in DOMAIN job
  <2>1. PICK J \in AttnMade : job = J /\ Good(J)
    BY <1>1 DEF LaunchInv, AttnInv, Good
  <2> QED
    BY <2>1, StaysGood
<1>2. CASE "kv" \notin DOMAIN job
  BY <1>2 DEF LaunchInv
<1> QED
  BY <1>1, <1>2

LEMMA AttnPhaseStep ==
  ASSUME LaunchInv, NEW w, AttnPhase(w)
  PROVE  LaunchInv'
<1>1. cta.kernel \in AttnKernels /\ job' = job
  <2>1. CASE Scan(w)
    BY <2>1 DEF Scan, Phase, Still, AttnKernels
  <2>2. CASE MergeSlices(w)
    BY <2>2 DEF MergeSlices, Phase, Still, AttnKernels
  <2>3. CASE ScanSplit(w)
    BY <2>3 DEF ScanSplit, Phase, Still, AttnKernels
  <2>4. CASE SplitMax(w)
    BY <2>4 DEF SplitMax, Phase, Still, AttnKernels
  <2>5. CASE SplitWeights(w)
    BY <2>5 DEF SplitWeights, Phase, Still, AttnKernels
  <2>6. CASE WritePartial(w)
    BY <2>6 DEF WritePartial, Phase, Still, AttnKernels
  <2>7. CASE MergeSplits(w)
    BY <2>7 DEF MergeSplits, Phase, Still, AttnKernels
  <2>8. ASSUME NEW p, LoadTile(w, p) \/ ConsumeTile(w, p) \/ WriteRows(w, p)
        PROVE  cta.kernel \in AttnKernels /\ job' = job
    BY <2>8 DEF LoadTile, ConsumeTile, WriteRows, Phase, Still, AttnKernels
  <2> QED
    BY <2>1, <2>2, <2>3, <2>4, <2>5, <2>6, <2>7, <2>8 DEF AttnPhase
<1>2. job # None
  <2>1. cta # Idle
    BY <1>1 DEF AttnKernels, Idle
  <2> QED
    BY <2>1 DEF LaunchInv
<1>3. ASSUME NEW J \in AttnMade, job = J, Good(J)
      PROVE  Good(J)'
  <2>1. CASE Scan(w)
    BY <1>3, <2>1, ScanStep
  <2>2. CASE MergeSlices(w)
    BY <1>3, <2>2, MergeSlicesStep
  <2>3. CASE ScanSplit(w)
    BY <1>3, <2>3, ScanSplitStep
  <2>4. CASE SplitMax(w)
    BY <1>3, <2>4, SplitMaxStep
  <2>5. CASE SplitWeights(w)
    BY <1>3, <2>5, SplitWeightsStep
  <2>6. CASE WritePartial(w)
    BY <1>3, <2>6, WritePartialStep
  <2>7. CASE MergeSplits(w)
    BY <1>3, <2>7, MergeSplitsStep
  <2>8. ASSUME NEW p, LoadTile(w, p) \/ ConsumeTile(w, p) \/ WriteRows(w, p)
        PROVE  Good(J)'
    BY <1>3, <2>8, LoadTileStep, ConsumeTileStep, WriteRowsStep
  <2> QED
    BY <2>1, <2>2, <2>3, <2>4, <2>5, <2>6, <2>7, <2>8 DEF AttnPhase
<1> QED
  BY <1>1, <1>2, <1>3, LaunchGoesOn

\* The other kernels are launched without kv heads and run in CTAs of their own.
LEMMA OthersKeepLaunch ==
  ASSUME LaunchInv, Apart("kv", AttnKernels)
  PROVE  LaunchInv'
<1>1. CASE job = None /\ job' # None /\ "kv" \notin DOMAIN job'
  BY <1>1 DEF LaunchInv
<1>2. CASE job' = job /\ cta.kernel \notin AttnKernels /\ cta.kernel # "idle"
  <2>1. cta # Idle
    BY <1>2 DEF Idle
  <2>2. job # None
    BY <2>1 DEF LaunchInv
  <2>3. ASSUME "kv" \in DOMAIN job
        PROVE  FALSE
    <3>1. PICK J \in AttnMade : job = J /\ Good(J)
      BY <2>3 DEF LaunchInv, AttnInv, Good
    <3>2. cta \in FirstGrid(J) \cup MergeGrid(J)
      BY <2>1, <3>1 DEF Good, Scheduled
    <3> QED
      BY <1>2, <3>1, <3>2, FirstCtas, MergeCtas, MadeFacts DEF AttnKernels
  <2> QED
    BY <1>2, <2>2, <2>3 DEF LaunchInv
<1> QED
  BY <1>1, <1>2 DEF Apart

LEMMA DeltaStepApart ==
  ASSUME DeltaStep
  PROVE  Apart("kv", AttnKernels)
<1> USE HeadsAssumption DEF Apart, AttnKernels
<1>1. CASE DeltaRuleLaunch
  BY <1>1 DEF DeltaRuleLaunch, Start, None
<1>2. CASE DeltaRuleLaunchScalar
  BY <1>2 DEF DeltaRuleLaunchScalar, Start, None
<1>3. CASE DeltaRuleLaunchIlp
  BY <1>3 DEF DeltaRuleLaunchIlp, Start, None
<1>4. CASE DeltaRuleBatchLaunch
  BY <1>4 DEF DeltaRuleBatchLaunch, Start, None
<1>5. CASE DeltaRuleBatchResidentLaunch
  BY <1>5 DEF DeltaRuleBatchResidentLaunch, Start, None
<1>6. ASSUME NEW w \in DOMAIN at, DeltaRow(w) \/ DeltaRowsIlp(w) \/ LoadRows(w) \/ StoreRows(w)
      PROVE  Apart("kv", AttnKernels)
  BY <1>6 DEF DeltaRow, DeltaRowsIlp, LoadRows, StoreRows, Phase, Still
<1>7. ASSUME NEW w \in DOMAIN at, NEW p, DeltaToken(w, p) \/ TwoPassToken(w, p) \/ FusedToken(w, p)
      PROVE  Apart("kv", AttnKernels)
  BY <1>7 DEF DeltaToken, TwoPassToken, FusedToken, Phase, Still
<1> QED
  BY <1>1, <1>2, <1>3, <1>4, <1>5, <1>6, <1>7 DEF DeltaStep, DeltaLaunch

LEMMA LaunchInvStep ==
  ASSUME LaunchInv, [KernelsNext]_vars
  PROVE  LaunchInv'
<1>1. CASE RunCta
  <2>1. job # None /\ job' = job
    BY <1>1 DEF RunCta, LaunchInv
  <2> QED
    BY <1>1, <2>1, AttnRunCta, LaunchGoesOn
<1>2. CASE RetireCta
  <2>1. job # None /\ job' = job
    BY <1>2 DEF RetireCta, LaunchInv
  <2> QED
    BY <1>2, <2>1, AttnRetireCta, LaunchGoesOn
<1>3. CASE Collect
  <2>1. stream = <<>> /\ cta = Idle /\ job' = None /\ mem' = <<>> /\ stream' = stream /\ cta' = cta
    BY <1>3 DEF Collect, Finished
  <2>2. "kv" \notin DOMAIN None
    BY DEF None
  <2> QED
    BY <2>1, <2>2 DEF LaunchInv
<1>4. CASE AttentionNext
  BY <1>4, AttnLaunchesStep, AttnPhaseStep DEF AttentionNext, AttnLaunches, AttnPhase
<1>5. CASE ElementwiseNext \/ NormsNext \/ MatvecNext \/ GemmNext
  BY <1>5, ElementwiseElsewhere, NormsElsewhere, MatvecElsewhere, GemmElsewhere, OthersKeepLaunch
     DEF Elsewhere
<1>6. CASE GatedDeltaNext
  BY <1>6, GatedDeltaElsewhere, DeltaStepApart, OthersKeepLaunch DEF Elsewhere
<1>7. CASE UNCHANGED vars
  BY <1>7 DEF vars, LaunchInv, AttnInv
<1> QED
  BY <1>1, <1>2, <1>3, <1>4, <1>5, <1>6, <1>7 DEF KernelsNext

-----------------------------------------------------------------------------
(* The theorem                                                             *)

\* What a split leaves is the merge of the slices of its warps.
LEMMA PartialIs ==
  ASSUME NEW J \in AttnMade, job = J, NEW t, NEW h, NEW s, NEW keys,
         DOMAIN keys = 1 .. WarpsOf(J), \A w \in 1 .. WarpsOf(J) : keys[w] = KeysOf(J, t, s, w - 1)
  PROVE  /\ PartialOf(t, h, keys, -1) = PartOf(J, t, h, s, 0)
         /\ \A d \in DimsOf(J) : PartialOf(t, h, keys, d) = PartOf(J, t, h, s, 2 + d)
<1> DEFINE sl(d) == [w \in 1 .. WarpsOf(J) |-> SliceBy(J, t, h, keys[w], d)]
           cmax == [op |-> "max", of |-> sl(-1)]
           wts == [w \in 1 .. WarpsOf(J) |->
                    IF \A k \in 1 .. WarpsOf(J) : keys[k] = <<>> THEN Nought
                    ELSE [op |-> "exp", m |-> sl(-1)[w], less |-> cmax]]
<1>1. \A d : sl(d) = SlicesOf(J, t, h, s, d)
  BY DEF SlicesOf
<1>2. PartialOf(t, h, keys, -1) = cmax
  BY DEF PartialOf, SliceOf, SliceBy
<1>3. \A d : d # -1 => PartialOf(t, h, keys, d) = [op |-> "dot", of |-> sl(d), wts |-> wts]
  BY DEF PartialOf, SliceOf, SliceBy
<1>4. cmax = MaxOf(J, t, h, s)
  BY <1>1 DEF MaxOf
<1>5. Empty(cmax) <=> \A k \in 1 .. WarpsOf(J) : keys[k] = <<>>
  <2>1. \A k \in 1 .. WarpsOf(J) : sl(-1)[k].op = "slice" /\ sl(-1)[k].keys = keys[k]
    BY DEF SliceBy, Slice
  <2>2. cmax.op = "max" /\ cmax.of = sl(-1) /\ DOMAIN sl(-1) = 1 .. WarpsOf(J)
    OBVIOUS
  <2> HIDE DEF sl, cmax
  <2> QED
    BY <2>1, <2>2 DEF Empty
<1>6. wts = [w \in 1 .. WarpsOf(J) |-> WeightOf(J, t, h, s, w - 1)]
  <2> SUFFICES ASSUME NEW w \in 1 .. WarpsOf(J)
               PROVE  wts[w] = WeightOf(J, t, h, s, w - 1)
    OBVIOUS
  <2>1. sl(-1)[w] = SliceBy(J, t, h, KeysOf(J, t, s, w - 1), -1)
    OBVIOUS
  <2>2. wts[w] = IF Empty(cmax) THEN Nought ELSE [op |-> "exp", m |-> sl(-1)[w], less |-> cmax]
    BY <1>5
  <2> HIDE DEF wts, cmax, sl
  <2> QED
    BY <1>4, <2>1, <2>2 DEF WeightOf, Weight
<1>7. \A d \in DimsOf(J) : d # -1 /\ 2 + d # 0 /\ (2 + d) - 2 = d
  BY MadeFacts DEF DimsOf
<1> HIDE DEF sl, cmax, wts
<1>8. ASSUME NEW d \in DimsOf(J)
      PROVE  PartialOf(t, h, keys, d) = PartOf(J, t, h, s, 2 + d)
  <2>1. PartOf(J, t, h, s, 2 + d) = DotOf(J, t, h, s, d)
    BY <1>7 DEF PartOf
  <2>2. DotOf(J, t, h, s, d) = [op |-> "dot", of |-> sl(d), wts |-> wts]
    BY <1>1, <1>6 DEF DotOf
  <2> QED
    BY <1>3, <1>7, <2>1, <2>2
<1> QED
  BY <1>2, <1>4, <1>8 DEF PartOf

\* The rows are those of the reference, in the order of the reference, and every
\* key up to the position is in them once.
LEMMA ResultIs ==
  ASSUME NEW J \in AttnMade, job = J, NEW t \in TokensOf(J), NEW h \in HeadsOf(J)
  PROVE  /\ \A d \in DimsOf(J) : AttentionOf(t, h, d, JobOrder(LastKey(J, t))) = Result(J, t, h, d)
         /\ ToSet(FlattenSeq(FlattenSeq(JobOrder(LastKey(J, t))))) = 0 .. LastKey(J, t)
<1> DEFINE p == LastKey(J, t)
           order == JobOrder(p)
<1>1. p \in Nat /\ WarpsOf(J) \in Nat \ {0}
  BY MadeFacts
<1> HIDE DEF p
<1>2. CASE J.op \in OneOps
  <2>1. order = SingleOrder(p, 1, Warps)
    BY <1>2 DEF JobOrder, OneOps
  <2>2. Warps \in Nat \ {0} /\ 1 \in Nat \ {0}
    BY AttnAssumption
  <2>3. Dealt(order, p, 1, Warps)
    BY <1>1, <2>1, <2>2, DealtOnce
  <2>4. /\ DOMAIN order[1] = 1 .. Warps
        /\ \A w \in 1 .. Warps : order[1][w] = Walk(w - 1, Warps, p)
    <3>1. 1 \in 1 .. 1 /\ order \in [1 .. 1 -> [1 .. Warps -> Seq(Nat)]]
      BY <2>3 DEF Dealt
    <3>2. \A w \in 1 .. Warps : order[1][w] = WarpKeys(p, 1, Warps, 1, w)
      BY <2>3, <3>1 DEF Dealt
    <3>3. \A w \in 1 .. Warps : (w - 1) + Warps * (1 - 1) = w - 1 /\ 1 * Warps = Warps
      BY <2>2
    <3> HIDE DEF order
    <3> QED
      BY <3>1, <3>2, <3>3 DEF WarpKeys
  <2> HIDE DEF order
  <2>5. \A d : [i \in DOMAIN order[1] |-> SliceOf(t, h, order[1][i], d)] = WarpSlices(J, t, h, d)
    BY <2>4 DEF SliceOf, WarpSlices, SliceBy, p
  <2>6. \A d : AttentionOf(t, h, d, order) =
                 Merged([i \in DOMAIN order[1] |-> SliceOf(t, h, order[1][i], -1)],
                        [i \in DOMAIN order[1] |-> SliceOf(t, h, order[1][i], d)])
    BY <1>2 DEF AttentionOf, OneOps
  <2>7. \A d : Result(J, t, h, d) = Merged(WarpSlices(J, t, h, -1), WarpSlices(J, t, h, d))
    BY <1>2 DEF Result
  <2>8. ToSet(FlattenSeq(FlattenSeq(order))) = 0 .. p
    BY <1>1, <2>1, <2>2, DealtAll
  <2> QED
    BY <2>5, <2>6, <2>7, <2>8 DEF order, p
<1>3. CASE J.op \in SplitOps
  <2> DEFINE n == WarpsOf(J)
  <2>1. order = SingleOrder(p, J.splits, n)
    BY <1>3 DEF JobOrder, SplitOps, OneOps, TiledOp, WarpsOf
  <2>2. J.splits \in Nat \ {0}
    BY <1>3, MadeFacts
  <2>3. Dealt(order, p, J.splits, n)
    BY <1>1, <2>1, <2>2, DealtOnce
  <2> HIDE DEF n
  <2>4. /\ DOMAIN order = 1 .. J.splits
        /\ \A i \in 1 .. J.splits :
             DOMAIN order[i] = 1 .. n /\ \A w \in 1 .. n : order[i][w] = KeysOf(J, t, i - 1, w - 1)
    <3>1. order \in [1 .. J.splits -> [1 .. n -> Seq(Nat)]]
      BY <2>3 DEF Dealt
    <3>2. ASSUME NEW i \in 1 .. J.splits, NEW w \in 1 .. n
          PROVE  order[i][w] = KeysOf(J, t, i - 1, w - 1)
      <4>1. order[i][w] = Walk((w - 1) + n * (i - 1), J.splits * n, p)
        BY <2>3, <3>2 DEF Dealt, WarpKeys
      <4>2. J.splits * n = n * J.splits
        BY <1>1, <2>2 DEF n
      <4> HIDE DEF order
      <4> QED
        BY <4>1, <4>2 DEF KeysOf, n, p
    <3> HIDE DEF order
    <3> QED
      BY <3>1, <3>2
  <2> HIDE DEF order
  <2>5. ASSUME NEW i \in 1 .. J.splits
        PROVE  /\ PartialOf(t, h, order[i], -1) = PartOf(J, t, h, i - 1, 0)
               /\ \A d \in DimsOf(J) : PartialOf(t, h, order[i], d) = PartOf(J, t, h, i - 1, 2 + d)
    BY <2>4, <2>5, PartialIs DEF n
  <2>6. [i \in DOMAIN order |-> PartialOf(t, h, order[i], -1)] = Parts(J, t, h, 0)
    BY <2>4, <2>5 DEF Parts
  <2>7. \A d \in DimsOf(J) : [i \in DOMAIN order |-> PartialOf(t, h, order[i], d)] = Parts(J, t, h, 2 + d)
    BY <2>4, <2>5 DEF Parts
  <2>8. \A d : AttentionOf(t, h, d, order) =
                 Merged([i \in DOMAIN order |-> PartialOf(t, h, order[i], -1)],
                        [i \in DOMAIN order |-> PartialOf(t, h, order[i], d)])
    BY <1>3 DEF AttentionOf, SplitOps
  <2>9. \A d : Result(J, t, h, d) = Merged(Parts(J, t, h, 0), Parts(J, t, h, 2 + d))
    BY <1>3 DEF Result, OneOps, SplitOps, TiledOp
  <2>10. ToSet(FlattenSeq(FlattenSeq(order))) = 0 .. p
    BY <1>1, <2>1, <2>2, DealtAll DEF n
  <2> QED
    BY ZenonT(60), <2>6, <2>7, <2>8, <2>9, <2>10 DEF order, p
<1>4. CASE J.op = TiledOp
  <2>1. order = <<<<FirstKeys(p + 1)>>>>
    BY <1>4 DEF JobOrder, TiledOp, FirstKeys
  <2> HIDE DEF order
  <2>2. \A d : [i \in DOMAIN order[1] |-> SliceOf(t, h, order[1][i], d)] = WholeSlice(J, t, h, d)
    <3>1. order[1] = <<FirstKeys(p + 1)>>
      BY <2>1
    <3>2. \A d : SliceOf(t, h, FirstKeys(p + 1), d) = SliceBy(J, t, h, FirstKeys(p + 1), d)
      BY DEF SliceOf, SliceBy
    <3>3. DOMAIN order[1] = {1} /\ order[1][1] = FirstKeys(p + 1)
      BY <3>1
    <3>4. \A d : [i \in DOMAIN order[1] |-> SliceOf(t, h, order[1][i], d)] =
                   [i \in {1} |-> SliceBy(J, t, h, FirstKeys(p + 1), d)]
      BY <3>3 DEF SliceOf, SliceBy
    <3>5. \A e : [i \in {1} |-> e] = <<e>>
      OBVIOUS
    <3> QED
      BY <3>4, <3>5 DEF WholeSlice, p
  <2>3. \A d : AttentionOf(t, h, d, order) =
                 Merged([i \in DOMAIN order[1] |-> SliceOf(t, h, order[1][i], -1)],
                        [i \in DOMAIN order[1] |-> SliceOf(t, h, order[1][i], d)])
    BY <1>4 DEF AttentionOf, TiledOp
  <2>4. \A d : Result(J, t, h, d) = Merged(WholeSlice(J, t, h, -1), WholeSlice(J, t, h, d))
    BY <1>4 DEF Result, OneOps, TiledOp
  <2>5. ToSet(FlattenSeq(FlattenSeq(order))) = 0 .. p
    BY <1>1, <2>1, InOrder DEF FirstKeys
  <2> QED
    BY <2>2, <2>3, <2>4, <2>5 DEF order, p
<1> QED
  BY <1>2, <1>3, <1>4, MadeFacts

\* When a launch has finished every row is its result.
LEMMA FinishedAttention ==
  ASSUME NEW J \in AttnMade, Good(J), stream = <<>>, cta = Idle,
         NEW t \in TokensOf(J), NEW h \in HeadsOf(J)
  PROVE  RowIs(J, mem, t, h, TRUE)
<1>1. Waits(stream) = {}
  BY WaitsOf
<1>2. \A g \in FirstGrid(J) \cup MergeGrid(J) : \A w : PhaseIn(stream, cta, at, g, w) = End
  <2>1. \A g \in FirstGrid(J) \cup MergeGrid(J) : g # Idle
    BY FirstCtas, MergeCtas
  <2> QED
    BY <1>1, <2>1 DEF PhaseIn
<1>3. CASE J.op \in OneOps
  <2>1. OneMem(J, stream, cta, at, mem)
    BY <1>3 DEF Good, Memory
  <2>2. 0 \in 0 .. Warps - 1 /\ PhaseIn(stream, cta, at, OneCta(t, h), 0) = End
    BY <1>2, <1>3, RowCtas, AttnAssumption
  <2> QED
    BY <2>1, <2>2 DEF OneMem, RowIs
<1>4. CASE J.op \in SplitOps
  <2>1. SplitMem(J, stream, cta, at, mem)
    BY <1>4 DEF Good, Memory
  <2>2. PhaseIn(stream, cta, at, MergeCta(t, h), 0) = End
    BY <1>2, <1>4, RowCtas
  <2> QED
    BY <2>1, <2>2 DEF SplitMem, RowIs
<1>5. CASE J.op = TiledOp
  <2>1. TileMem(J, stream, cta, at, mem)
    BY <1>5 DEF Good, Memory
  <2>2. PhaseIn(stream, cta, at, TileCta(J, t, h), t % FaQueries) = End
    BY <1>2, <1>5, RowCtas
  <2>3. PassDone(J, End, PassOf(J, h))
    BY DEF PassDone, Passed
  <2> QED
    BY <2>1, <2>2, <2>3 DEF TileMem, RowIs
<1> QED
  BY <1>3, <1>4, <1>5, MadeFacts

LEMMA LaunchesExact ==
  ASSUME LaunchInv
  PROVE  AttentionExact
<1> SUFFICES ASSUME Finished, "kv" \in DOMAIN job,
                    NEW t \in 1 .. Len(job.pos), NEW h \in 0 .. job.heads - 1
             PROVE  /\ \A d \in Dims : Read(mem, X(t - 1, h, d)) =
                         AttentionOf(t - 1, h, d, JobOrder(job.pos[t]))
                    /\ ToSet(FlattenSeq(FlattenSeq(JobOrder(job.pos[t])))) = 0 .. job.pos[t]
  BY DEF AttentionExact
<1>1. PICK J \in AttnMade : job = J /\ Good(J)
  BY DEF LaunchInv, AttnInv, Good
<1>2. stream = <<>> /\ cta = Idle
  BY DEF Finished
<1>3. t - 1 \in TokensOf(J) /\ h \in HeadsOf(J) /\ job.pos[t] = LastKey(J, t - 1)
  <2>1. Len(J.pos) \in Nat /\ (t - 1) + 1 = t
    BY <1>1, MadeFacts
  <2> QED
    BY <1>1, <2>1 DEF TokensOf, HeadsOf, LastKey
<1>4. RowIs(J, mem, t - 1, h, TRUE)
  BY <1>1, <1>2, <1>3, FinishedAttention
<1>5. /\ \A d \in DimsOf(J) : AttentionOf(t - 1, h, d, JobOrder(LastKey(J, t - 1))) = Result(J, t - 1, h, d)
      /\ ToSet(FlattenSeq(FlattenSeq(JobOrder(LastKey(J, t - 1))))) = 0 .. LastKey(J, t - 1)
  BY <1>1, <1>3, ResultIs
<1>6. Dims = DimsOf(J) /\ \A d : X(t - 1, h, d) = XCell(J, t - 1, h, d)
  BY <1>1, OwnQueryIs
<1>7. \A d \in Dims : Read(mem, X(t - 1, h, d)) = Result(J, t - 1, h, d)
  BY <1>4, <1>6 DEF RowIs
<1> QED
  BY <1>3, <1>5, <1>6, <1>7

\* Whichever kernel serves a launch, and in whatever order its CTAs and warps run,
\* every row of the output is the softmax of its own query over the keys up to its
\* position, each of them once, summed as the launch of one token sums it.
THEOREM AttentionHolds == KernelsSpec => []AttentionExact
<1>1. KernelsInit => LaunchInv
  <2>1. "kv" \notin DOMAIN None
    BY DEF None
  <2> QED
    BY <2>1 DEF KernelsInit, CtaInit, LaunchInv
<1>2. LaunchInv /\ [KernelsNext]_vars => LaunchInv'
  BY LaunchInvStep
<1>3. LaunchInv => AttentionExact
  BY LaunchesExact
<1> QED
  BY <1>1, <1>2, <1>3, PTL DEF KernelsSpec
=============================================================================
