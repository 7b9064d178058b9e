------------------------- MODULE PrefillPlan_proofs -------------------------
(***************************************************************************)
(* That the plan of prefill_plan takes every token once, in chunks the     *)
(* batched path accepts, larger first, and that no plan has fewer chunks   *)
(* or as many with fewer single tokens: for every cap, every set of        *)
(* compiled sizes and every prompt.                                        *)
(***************************************************************************)
EXTENDS PrefillPlanProps, SequenceFacts, FiniteSetTheorems

Costs == [chunks : Nat, ones : Nat]

\* What is in the table up to m tokens is the cheapest of the ways there are.
Solved(c, m) ==
  /\ c[0] = [chunks |-> 0, ones |-> 0]
  /\ \A n \in 1 .. m : /\ c[n] \in Vias(c, n)
                       /\ \A w \in Vias(c, n) : ~Cheaper(w, c[n])

\* No plan for n tokens costs less than the table says.
Lowest(c, n) ==
  /\ c[n].ones <= c[n].chunks
  /\ \A k \in 0 .. c[n].chunks - 1 : n \notin Sums(Candidates, k)
  /\ \A j \in 0 .. c[n].ones - 1 :
       n - j \notin Sums(Candidates \ {1}, c[n].chunks - j)

-----------------------------------------------------------------------------
(* The operators of the planner                                            *)

\* The sizes of the plan are numbers, one token among them, and forward_batch
\* accepts each but that.
LEMMA Sizes ==
  /\ 1 \in Candidates
  /\ \A p \in Candidates : p \in Nat /\ p >= 1 /\ (p = 1 \/ ChunkOk(p))
<1>1. ASSUME NEW p \in ChunkSizes, ChunkOk(p)
      PROVE  p \in Nat /\ p >= 1
  <2>1. p \in Int
    <3>1. BatchMax \in Nat /\ \A n \in BatchNs : n \in Nat
      BY PlanAssumption
    <3>2. \A d \in Nat \ {0} : BatchMax \div d \in Int
      BY <3>1
    <3>3. \A n \in Halvings : n \in Int
      BY <3>2 DEF Halvings
    <3> QED
      BY <3>1, <3>3, <1>1 DEF ChunkSizes
  <2> QED
    BY <2>1, <1>1 DEF ChunkOk
<1> QED
  BY <1>1 DEF Candidates

\* A sum of k sizes: none for k = 0, and one size more for k + 1.
LEMMA SumsOf ==
  ASSUME NEW S \in SUBSET Nat
  PROVE  /\ Sums(S, 0) = {0}
         /\ \A k \in Nat :
              /\ Sums(S, k) \in SUBSET Nat
              /\ \A a \in Sums(S, k), b \in S : a + b \in Sums(S, k + 1)
              /\ \A x \in Sums(S, k + 1) :
                   \E a \in Sums(S, k), b \in S : x = a + b
<1> DEFINE more == [X \in SUBSET Nat |-> {a + b : a \in X, b \in S}]
<1> DEFINE step == [i \in Nat |-> more]
<1> DEFINE body(f, i) == IF i = 0 THEN {0} ELSE {a + b : a \in f[i - 1], b \in S}
<1>1. step \in [Nat -> [SUBSET Nat -> SUBSET Nat]]
  <2>1. more \in [SUBSET Nat -> SUBSET Nat]
    OBVIOUS
  <2> HIDE DEF more
  <2> QED
    BY <2>1
<1>2. \A i \in Nat : \A X \in SUBSET Nat :
        step[i][X] = {a + b : a \in X, b \in S}
  OBVIOUS
<1> HIDE DEF step, more
<1> {0} \in SUBSET Nat
  OBVIOUS
<1>3. PICK f : Iterates(f, SUBSET Nat, {0}, step)
  BY <1>1, Iterate
<1>4. f = [i \in Nat |-> body(f, i)]
  <2>1. f \in [Nat -> SUBSET Nat] /\ f[0] = {0} /\ \A n \in Nat : f[n + 1] = step[n][f[n]]
    BY <1>3 DEF Iterates
  <2>2. ASSUME NEW i \in Nat
        PROVE  f[i] = body(f, i)
    <3>1. CASE i = 0
      BY <3>1, <2>1
    <3>2. CASE i # 0
      <4>1. i - 1 \in Nat /\ (i - 1) + 1 = i
        BY <3>2
      <4>2. f[i] = step[i - 1][f[i - 1]] /\ f[i - 1] \in SUBSET Nat
        BY <4>1, <2>1
      <4> QED
        BY <4>1, <4>2, <3>2, <1>2
    <3> QED
      BY <3>1, <3>2
  <2> HIDE DEF body
  <2> QED
    BY <2>1, <2>2
<1> DEFINE sums == CHOOSE g : g = [i \in Nat |-> body(g, i)]
<1>5. sums = [i \in Nat |-> body(sums, i)]
  <2> HIDE DEF body
  <2> QED
    BY <1>4
<1>6. \A k \in Nat : Sums(S, k) = sums[k]
  BY DEF Sums
<1> HIDE DEF sums
<1>7. sums[0] = {0} /\ \A k \in Nat : sums[k + 1] = {a + b : a \in sums[k], b \in S}
  <2>1. sums[0] = {0}
    BY <1>5
  <2>2. ASSUME NEW k \in Nat
        PROVE  sums[k + 1] = {a + b : a \in sums[k], b \in S}
    <3>1. k + 1 \in Nat /\ k + 1 # 0 /\ (k + 1) - 1 = k
      OBVIOUS
    <3>2. sums[k + 1] = body(sums, k + 1)
      <4> HIDE DEF body
      <4> QED
        BY <1>5, <3>1
    <3> QED
      BY <3>1, <3>2
  <2> QED
    BY <2>1, <2>2
<1> DEFINE T == {k \in Nat : sums[k] \in SUBSET Nat}
<1>8. Nat \subseteq T
  <2>1. 0 \in T
    BY <1>7
  <2>2. ASSUME NEW k \in Nat, k \in T
        PROVE  k + 1 \in T
    BY <2>2, <1>7
  <2> HIDE DEF T
  <2> QED
    BY <2>1, <2>2, Induction
<1>9. ASSUME NEW k \in Nat
      PROVE  /\ \A a \in sums[k], b \in S : a + b \in sums[k + 1]
             /\ \A x \in sums[k + 1] : \E a \in sums[k], b \in S : x = a + b
  BY <1>7
<1> QED
  BY <1>6, <1>7, <1>8, <1>9

\* A sum of k sizes without 1, and j single tokens, is a sum of k + j sizes.
LEMMA WithSingles ==
  ASSUME NEW S \in SUBSET Nat, 1 \in S, NEW k \in Nat, NEW j \in Nat,
         NEW x \in Sums(S \ {1}, k)
  PROVE  x + j \in Sums(S, k + j)
<1>1. \A i \in Nat : \A a \in Sums(S, i), b \in S : a + b \in Sums(S, i + 1)
  BY SumsOf
<1>2. Sums(S, 0) = {0} /\ \A i \in Nat : Sums(S, i) \in SUBSET Nat
  BY SumsOf
<1>3. \A i \in Nat : \A y \in Sums(S \ {1}, i + 1) :
        \E a \in Sums(S \ {1}, i), b \in S \ {1} : y = a + b
  <2>1. S \ {1} \in SUBSET Nat
    OBVIOUS
  <2> QED
    BY <2>1, SumsOf
<1>4. Sums(S \ {1}, 0) = {0} /\ \A i \in Nat : Sums(S \ {1}, i) \in SUBSET Nat
  <2>1. S \ {1} \in SUBSET Nat
    OBVIOUS
  <2> QED
    BY <2>1, SumsOf
<1> DEFINE A == {i \in Nat : Sums(S \ {1}, i) \subseteq Sums(S, i)}
<1>5. Nat \subseteq A
  <2>1. 0 \in A
    BY <1>2, <1>4
  <2>2. ASSUME NEW i \in Nat, i \in A
        PROVE  i + 1 \in A
    <3>1. Sums(S \ {1}, i) \subseteq Sums(S, i)
      BY <2>2
    <3>2. ASSUME NEW y \in Sums(S \ {1}, i + 1)
          PROVE  y \in Sums(S, i + 1)
      <4>1. PICK a \in Sums(S \ {1}, i), b \in S \ {1} : y = a + b
        BY <1>3
      <4> QED
        BY <4>1, <3>1, <1>1
    <3> QED
      BY <3>2
  <2> HIDE DEF A
  <2> QED
    BY <2>1, <2>2, Induction
<1> DEFINE B == {i \in Nat : x + i \in Sums(S, k + i)}
<1>6. Nat \subseteq B
  <2> x \in Nat
    BY <1>4
  <2>1. 0 \in B
    BY <1>5
  <2>2. ASSUME NEW i \in Nat, i \in B
        PROVE  i + 1 \in B
    <3>1. x + i \in Sums(S, k + i) /\ k + i \in Nat
      BY <2>2
    <3>2. (x + i) + 1 \in Sums(S, (k + i) + 1)
      BY <3>1, <1>1
    <3>3. (x + i) + 1 = x + (i + 1) /\ (k + i) + 1 = k + (i + 1)
      OBVIOUS
    <3> QED
      BY <3>2, <3>3
  <2> HIDE DEF B
  <2> QED
    BY <2>1, <2>2, Induction
<1> QED
  BY <1>6

\* Of some costs one is such that none is cheaper.
LEMMA CheapestExists ==
  ASSUME NEW V \in SUBSET Costs, V # {}
  PROVE  \E v \in V : \A w \in V : ~Cheaper(w, v)
<1> DEFINE C == {v.chunks : v \in V}
<1>1. C \in SUBSET Nat /\ C # {}
  BY DEF Costs
<1>2. PICK c \in C : \A d \in C : c <= d
  BY <1>1, Least
<1> DEFINE O == {v.ones : v \in {w \in V : w.chunks = c}}
<1>3. O \in SUBSET Nat /\ O # {}
  <2>1. O \in SUBSET Nat
    BY DEF Costs
  <2>2. \E v \in V : v.chunks = c
    BY <1>2
  <2> QED
    BY <2>1, <2>2
<1>4. PICK o \in O : \A d \in O : o <= d
  BY <1>3, Least
<1>5. PICK v \in V : v.chunks = c /\ v.ones = o
  BY <1>4
<1>6. ASSUME NEW w \in V
      PROVE  ~Cheaper(w, v)
  <2>1. c <= w.chunks /\ w.chunks \in Nat /\ c \in Nat
    BY <1>2, <1>6 DEF Costs
  <2>2. w.chunks = c => o <= w.ones
    BY <1>4, <1>6
  <2>3. w.ones \in Nat /\ o \in Nat
    BY <1>4, <1>6 DEF Costs
  <2> QED
    BY <2>1, <2>2, <2>3, <1>5 DEF Cheaper
<1> QED
  BY <1>6

\* The ways there are for n > 0 tokens: their costs are costs, and there is one.
LEMMA Ways ==
  ASSUME NEW t \in Nat, NEW c \in [0 .. t -> Costs], NEW n \in 1 .. t
  PROVE  /\ Vias(c, n) \in SUBSET Costs /\ Vias(c, n) # {}
         /\ Cheapest(c, n) \in Vias(c, n)
         /\ \A w \in Vias(c, n) : ~Cheaper(w, Cheapest(c, n))
<1>1. ASSUME NEW p \in Candidates, p <= n
      PROVE  Via(c, n, p) \in Costs
  <2>1. p \in Nat /\ p >= 1
    BY Sizes
  <2>2. c[n - p] \in Costs
    BY <2>1, <1>1
  <2>3. c[n - p].chunks + 1 \in Nat /\ c[n - p].ones + (IF p = 1 THEN 1 ELSE 0) \in Nat
    <3>1. c[n - p].chunks \in Nat /\ c[n - p].ones \in Nat
      BY <2>2 DEF Costs
    <3> QED
      BY <3>1
  <2> QED
    BY <2>3 DEF Via, Costs
<1>2. Vias(c, n) \in SUBSET Costs
  BY <1>1 DEF Vias
<1>3. Via(c, n, 1) \in Vias(c, n)
  BY Sizes DEF Vias
<1>4. \E v \in Vias(c, n) : \A w \in Vias(c, n) : ~Cheaper(w, v)
  BY <1>2, <1>3, CheapestExists
<1> QED
  BY <1>2, <1>3, <1>4 DEF Cheapest

\* Where the table is solved, no plan costs less than it says.
LEMMA SolvedIsLowest ==
  ASSUME NEW t \in Nat, NEW c \in [0 .. t -> Costs], Solved(c, t)
  PROVE  \A n \in 0 .. t : Lowest(c, n)
<1> DEFINE S == {n \in Nat : n <= t => Lowest(c, n)}
<1> DEFINE C1 == Candidates \ {1}
<1>s. /\ Sums(Candidates, 0) = {0} /\ Sums(C1, 0) = {0}
      /\ \A k \in Nat : /\ Sums(Candidates, k) \in SUBSET Nat
                        /\ Sums(C1, k) \in SUBSET Nat
      /\ \A k \in Nat :
           /\ \A x \in Sums(Candidates, k + 1) :
                \E a \in Sums(Candidates, k), b \in Candidates : x = a + b
           /\ \A x \in Sums(C1, k + 1) : \E a \in Sums(C1, k), b \in C1 : x = a + b
  <2>1. Candidates \in SUBSET Nat /\ C1 \in SUBSET Nat
    BY Sizes
  <2> HIDE DEF C1
  <2> QED
    BY <2>1, SumsOf
<1>1. ASSUME NEW n \in Nat, 0 .. n - 1 \subseteq S
      PROVE  n \in S
  <2>1. SUFFICES ASSUME n <= t
                 PROVE  Lowest(c, n)
    OBVIOUS
  <2>2. \A m \in 0 .. n - 1 : Lowest(c, m)
    BY <1>1, <2>1
  <2>3. CASE n = 0
    <3>1. c[n].chunks = 0 /\ c[n].ones = 0
      BY <2>3 DEF Solved
    <3> QED
      BY <3>1 DEF Lowest
  <2>4. CASE n # 0
    <3> n \in 1 .. t
      BY <2>1, <2>4
    <3> DEFINE ch == c[n].chunks
               on == c[n].ones
    <3>1. c[n] \in Vias(c, n) /\ \A w \in Vias(c, n) : ~Cheaper(w, c[n])
      BY DEF Solved
    <3>2. ch \in Nat /\ on \in Nat
      BY DEF Costs
    <3>3. ASSUME NEW p \in Candidates, p <= n
          PROVE  /\ n - p \in 0 .. n - 1 /\ Lowest(c, n - p)
                 /\ c[n - p].chunks \in Nat /\ c[n - p].ones \in Nat
                 /\ ch <= c[n - p].chunks + 1
                 /\ ch = c[n - p].chunks + 1 =>
                      on <= c[n - p].ones + (IF p = 1 THEN 1 ELSE 0)
      <4>1. p \in Nat /\ p >= 1
        BY Sizes
      <4>2. n - p \in 0 .. n - 1 /\ n - p \in 0 .. t
        BY <4>1, <3>3, <2>1
      <4>3. c[n - p].chunks \in Nat /\ c[n - p].ones \in Nat
        BY <4>2 DEF Costs
      <4>4. ~Cheaper(Via(c, n, p), c[n])
        BY <3>1, <3>3 DEF Vias
      <4>5. ~Cheaper([chunks |-> c[n - p].chunks + 1,
                      ones   |-> c[n - p].ones + (IF p = 1 THEN 1 ELSE 0)], c[n])
        BY <4>4 DEF Via
      <4>6. /\ ~(c[n - p].chunks + 1 < ch)
            /\ c[n - p].chunks + 1 = ch => ~(c[n - p].ones + (IF p = 1 THEN 1 ELSE 0) < on)
        BY <4>5 DEF Cheaper
      <4> HIDE DEF ch, on
      <4> QED
        BY <4>2, <4>3, <4>6, <2>2, <3>2
    <3>4. on <= ch /\ ch # 0
      <4>1. PICK p \in Candidates : p <= n /\ c[n] = Via(c, n, p)
        BY <3>1 DEF Vias
      <4>2. /\ ch = c[n - p].chunks + 1
            /\ on = c[n - p].ones + (IF p = 1 THEN 1 ELSE 0)
        BY <4>1 DEF Via
      <4>3. c[n - p].ones <= c[n - p].chunks /\ c[n - p].chunks \in Nat /\ c[n - p].ones \in Nat
        BY <4>1, <3>3 DEF Lowest
      <4> HIDE DEF ch, on
      <4> QED
        BY <4>2, <4>3
    <3> HIDE DEF ch, on
    <3>5. ASSUME NEW k \in 0 .. ch - 1
          PROVE  n \notin Sums(Candidates, k)
      <4>1. SUFFICES ASSUME n \in Sums(Candidates, k)
                     PROVE  FALSE
        OBVIOUS
      <4>2. k # 0 /\ k - 1 \in Nat /\ (k - 1) + 1 = k
        BY <4>1, <1>s, <2>4, <3>2
      <4>3. PICK a \in Sums(Candidates, k - 1), b \in Candidates : n = a + b
        BY <4>1, <4>2, <1>s
      <4>4. a \in Nat /\ b \in Nat /\ b <= n /\ a = n - b
        BY <4>2, <4>3, <1>s, Sizes
      <4>5. /\ Lowest(c, n - b) /\ c[n - b].chunks \in Nat
            /\ ch <= c[n - b].chunks + 1
        BY <4>4, <3>3
      <4>6. k - 1 \in 0 .. c[n - b].chunks - 1
        BY <4>2, <4>5, <3>2
      <4> QED
        BY <4>3, <4>4, <4>5, <4>6 DEF Lowest
    <3>6. ASSUME NEW j \in 0 .. on - 1
          PROVE  n - j \notin Sums(C1, ch - j)
      <4>1. SUFFICES ASSUME n - j \in Sums(C1, ch - j)
                     PROVE  FALSE
        OBVIOUS
      <4>2. /\ j \in Nat /\ ch - j \in Nat /\ (ch - j) - 1 \in Nat
            /\ ((ch - j) - 1) + 1 = ch - j /\ ((ch - j) - 1) + j = ch - 1
        BY <3>2, <3>4
      <4> DEFINE m == (ch - j) - 1
      <4>3. PICK a \in Sums(C1, m), b \in C1 : n - j = a + b
        <5>1. n - j \in Sums(C1, m + 1) /\ m \in Nat
          BY <4>1, <4>2
        <5> HIDE DEF m, C1
        <5> QED
          BY <5>1, <1>s
      <4>4. b \in Candidates /\ b # 1 /\ a \in Nat /\ b \in Nat /\ a = (n - b) - j /\ b <= n
        <5>1. b \in Candidates /\ b # 1 /\ b \in Nat
          BY <4>3, Sizes
        <5>2. a \in Nat
          <6>1. m \in Nat
            BY <4>2
          <6> HIDE DEF m, C1
          <6> QED
            BY <6>1, <4>3, <1>s
        <5> QED
          BY <5>1, <5>2, <4>2, <4>3
      <4>5. /\ Lowest(c, n - b) /\ n - b \in 0 .. n - 1
            /\ c[n - b].chunks \in Nat /\ c[n - b].ones \in Nat
            /\ ch <= c[n - b].chunks + 1
            /\ ch = c[n - b].chunks + 1 => on <= c[n - b].ones
        BY <4>4, <3>3
      <4>6. a + j \in Sums(Candidates, m + j)
        <5>1. Candidates \in SUBSET Nat /\ 1 \in Candidates
          BY Sizes
        <5> QED
          BY <5>1, <4>2, <4>3, WithSingles
      <4>7. a + j = n - b /\ m + j = ch - 1
        BY <4>2, <4>4, <4>5
      <4>8. c[n - b].chunks = ch - 1
        <5>1. SUFFICES ASSUME c[n - b].chunks # ch - 1
                       PROVE  FALSE
          OBVIOUS
        <5>2. ch - 1 \in 0 .. c[n - b].chunks - 1
          BY <5>1, <4>5, <3>2, <3>4
        <5> QED
          BY <5>2, <4>5, <4>6, <4>7 DEF Lowest
      <4>9. j \in 0 .. c[n - b].ones - 1
        BY <4>2, <4>5, <4>8, <3>2
      <4>10. (n - b) - j \notin Sums(C1, c[n - b].chunks - j)
        BY <4>9, <4>5 DEF Lowest
      <4>11. c[n - b].chunks - j = m
        BY <4>8, <4>2, <3>2
      <4> QED
        BY <4>3, <4>4, <4>10, <4>11
    <3> QED
      BY <3>4, <3>5, <3>6 DEF Lowest, ch, on
  <2> QED
    BY <2>3, <2>4
<1>2. Nat \subseteq S
  <2> HIDE DEF S
  <2> QED
    BY <1>1, StrongInduction
<1> QED
  BY <1>2

\* A best plan has a first chunk, and Take is the largest of those.
LEMMA TakeIs ==
  ASSUME NEW t \in Nat, NEW c \in [0 .. t -> Costs], Solved(c, t), NEW n \in 1 .. t
  PROVE  /\ Take(c, n) \in Candidates /\ Take(c, n) <= n
         /\ Via(c, n, Take(c, n)) = c[n]
         /\ \A q \in Candidates : q <= n /\ Via(c, n, q) = c[n] => q <= Take(c, n)
<1> DEFINE takes == {p \in Candidates : p <= n /\ Via(c, n, p) = c[n]}
<1>1. takes \in SUBSET Nat /\ takes # {} /\ \A p \in takes : p <= n
  <2>1. c[n] \in Vias(c, n)
    BY DEF Solved
  <2> QED
    BY <2>1, Sizes DEF Vias
<1>2. \E p \in takes : \A q \in takes : q <= p
  <2> n \in Nat
    OBVIOUS
  <2> HIDE DEF takes
  <2> QED
    BY <1>1, Greatest
<1>3. Take(c, n) \in takes /\ \A q \in takes : q <= Take(c, n)
  <2>1. Take(c, n) = CHOOSE p \in takes : \A q \in takes : q <= p
    BY <1>1 DEF Take
  <2> HIDE DEF takes
  <2> QED
    BY <1>2, <2>1
<1> QED
  BY <1>3

\* A chunk larger than the one just taken would have been taken instead: it
\* could have come first, and the plan would cost no more.
LEMMA NextIsSmaller ==
  ASSUME NEW t \in Nat, NEW c \in [0 .. t -> Costs], Solved(c, t),
         NEW n \in 1 .. t, n - Take(c, n) \in 1 .. t
  PROVE  Take(c, n - Take(c, n)) <= Take(c, n)
<1> DEFINE p == Take(c, n)
           m == n - p
           q == Take(c, m)
<1>1. p \in Candidates /\ p <= n /\ Via(c, n, p) = c[n]
  BY TakeIs
<1>2. q \in Candidates /\ q <= m /\ Via(c, m, q) = c[m]
  BY TakeIs
<1>3. \A x \in Candidates : x <= n /\ Via(c, n, x) = c[n] => x <= p
  BY TakeIs
<1> HIDE DEF p, q
<1>4. SUFFICES ASSUME q > p
               PROVE  FALSE
  BY <1>1, <1>2, Sizes DEF p, q
<1>5. /\ p \in Nat /\ q \in Nat /\ p >= 1 /\ q >= 1
      /\ n - q \in 1 .. t /\ (n - q) - p \in 0 .. t /\ (n - p) - q = (n - q) - p
      /\ n - p \in 1 .. t
  BY <1>1, <1>2, <1>4, Sizes DEF p
<1> DEFINE one(x) == IF x = 1 THEN 1 ELSE 0
           z == c[(n - q) - p]
           u == c[n - q]
<1>6. /\ z.chunks \in Nat /\ z.ones \in Nat /\ u.chunks \in Nat /\ u.ones \in Nat
      /\ c[n].chunks \in Nat /\ c[n].ones \in Nat /\ c[n] \in Costs
  BY <1>5 DEF Costs
<1>7. /\ c[n].chunks = c[n - p].chunks + 1 /\ c[n].ones = c[n - p].ones + one(p)
      /\ c[n - p].chunks = z.chunks + 1 /\ c[n - p].ones = z.ones + one(q)
  BY <1>1, <1>2, <1>5 DEF Via
<1>8. ~Cheaper(Via(c, n - q, p), u)
  <2>1. Via(c, n - q, p) \in Vias(c, n - q)
    BY <1>1, <1>5 DEF Vias
  <2> QED
    BY <2>1, <1>5 DEF Solved
<1>9. ~Cheaper(Via(c, n, q), c[n])
  <2>1. Via(c, n, q) \in Vias(c, n)
    BY <1>2, <1>5, <1>1 DEF Vias
  <2> QED
    BY <2>1 DEF Solved
<1>10. /\ ~(z.chunks + 1 < u.chunks)
       /\ z.chunks + 1 = u.chunks => ~(z.ones + one(p) < u.ones)
  BY <1>8 DEF Cheaper, Via
<1>11. /\ ~(u.chunks + 1 < c[n].chunks)
       /\ u.chunks + 1 = c[n].chunks => ~(u.ones + one(q) < c[n].ones)
  BY <1>9 DEF Cheaper, Via
<1>12. u.chunks + 1 = c[n].chunks /\ u.ones + one(q) = c[n].ones
  <2>1. one(p) \in Nat /\ one(q) \in Nat
    OBVIOUS
  <2>2. c[n].chunks = (z.chunks + 1) + 1 /\ c[n].ones = (z.ones + one(q)) + one(p)
    BY <1>7
  <2> HIDE DEF z, u, one
  <2>3. u.chunks = z.chunks + 1
    BY <2>2, <1>6, <1>10, <1>11
  <2>4. ~(z.ones + one(p) < u.ones) /\ ~(u.ones + one(q) < (z.ones + one(q)) + one(p))
    BY <2>2, <2>3, <1>10, <1>11
  <2>5. u.ones = z.ones + one(p)
    <3>1. \A a, b, i, j \in Nat : ~(a + i < b) /\ ~(b + j < (a + j) + i) => b = a + i
      OBVIOUS
    <3> QED
      BY <2>1, <2>4, <1>6, <3>1
  <2> QED
    BY <2>1, <2>2, <2>3, <2>5, <1>6
<1>13. Via(c, n, q) = c[n]
  <2>1. c[n] = [chunks |-> c[n].chunks, ones |-> c[n].ones]
    BY <1>6 DEF Costs
  <2> QED
    BY <2>1, <1>12 DEF Via
<1> QED
  BY <1>13, <1>3, <1>2, <1>4, <1>5

\* The tokens of a plan: none in an empty one, and those of a further chunk.
LEMMA TotalOf ==
  /\ Total(<<>>) = 0
  /\ \A p \in Seq(Nat), n \in Nat : Total(p) \in Nat /\ Total(Append(p, n)) = Total(p) + n
<1> DEFINE body(p, f, i) == IF i = 0 THEN 0 ELSE f[i - 1] + p[i]
           sum(p) == CHOOSE g : g = [i \in 0 .. Len(p) |-> body(p, g, i)]
<1>1. ASSUME NEW p \in Seq(Nat)
      PROVE  /\ Total(p) = sum(p)[Len(p)]
             /\ sum(p)[0] = 0
             /\ \A i \in 1 .. Len(p) : sum(p)[i] = sum(p)[i - 1] + p[i]
             /\ \A i \in 0 .. Len(p) : sum(p)[i] \in Nat
  <2> DEFINE n == Len(p)
             step == [i \in 1 .. n |-> [a \in Nat |-> a + p[i]]]
  <2>1. n \in Nat /\ \A i \in 1 .. n : p[i] \in Nat
    OBVIOUS
  <2>2. step \in [1 .. n -> [Nat -> Nat]] /\ \A i \in 1 .. n : \A a \in Nat : step[i][a] = a + p[i]
    BY <2>1
  <2> HIDE DEF step
  <2>3. PICK f : IteratesTo(f, n, Nat, 0, step)
    BY <2>1, <2>2, IterateTo
  <2>4. /\ f \in [0 .. n -> Nat] /\ f[0] = 0
        /\ \A i \in 1 .. n : f[i] = step[i][f[i - 1]]
    BY <2>3 DEF IteratesTo
  <2>5. ASSUME NEW i \in 0 .. n
        PROVE  f[i] = body(p, f, i)
    <3>1. CASE i = 0
      BY <3>1, <2>4
    <3>2. CASE i # 0
      <4>1. i \in 1 .. n /\ i - 1 \in 0 .. n
        BY <3>2, <2>1
      <4> QED
        BY <4>1, <3>2, <2>2, <2>4
    <3> QED
      BY <3>1, <3>2
  <2>6. f = [i \in 0 .. n |-> body(p, f, i)]
    <3> HIDE DEF body, n
    <3> QED
      BY <2>4, <2>5
  <2>7. sum(p) = [i \in 0 .. n |-> body(p, sum(p), i)]
    <3> HIDE DEF body
    <3> QED
      BY <2>6
  <2> HIDE DEF sum
  <2>8. sum(p)[0] = 0
    BY <2>7, <2>1
  <2>9. ASSUME NEW i \in 1 .. n
        PROVE  sum(p)[i] = sum(p)[i - 1] + p[i]
    <3>1. i \in 0 .. n /\ i # 0
      BY <2>1
    <3>2. sum(p)[i] = body(p, sum(p), i)
      <4> HIDE DEF body, n
      <4> QED
        BY <2>7, <3>1
    <3> QED
      BY <3>1, <3>2
  <2>10. \A i \in 0 .. n : sum(p)[i] = f[i]
    <3>1. ASSUME NEW i \in 1 .. n, sum(p)[i - 1] = f[i - 1]
          PROVE  sum(p)[i] = f[i]
      <4>1. i - 1 \in 0 .. n
        BY <2>1
      <4>2. f[i - 1] \in Nat /\ f[i] = step[i][f[i - 1]]
        BY <4>1, <2>4
      <4>3. f[i] = f[i - 1] + p[i]
        BY <4>2, <2>2
      <4> QED
        BY <4>3, <2>9, <3>1
    <3>2. StepsAgree(sum(p), f, n)
      BY <3>1 DEF StepsAgree
    <3>3. sum(p)[0] = f[0] /\ n \in Nat
      BY <2>1, <2>4, <2>8
    <3> HIDE DEF n
    <3> QED
      BY <3>2, <3>3, SameRecursion
  <2>11. Total(p) = sum(p)[n]
    BY DEF Total, sum
  <2> QED
    BY <2>4, <2>8, <2>9, <2>10, <2>11
<1> HIDE DEF sum
<1>2. Total(<<>>) = 0
  <2>1. <<>> \in Seq(Nat) /\ Len(<<>>) = 0
    OBVIOUS
  <2> QED
    BY <2>1, <1>1
<1>3. ASSUME NEW p \in Seq(Nat), NEW n \in Nat
      PROVE  Total(p) \in Nat /\ Total(Append(p, n)) = Total(p) + n
  <2> DEFINE q == Append(p, n)
             k == Len(p)
  <2>1. /\ q \in Seq(Nat) /\ k \in Nat /\ Len(q) = k + 1 /\ q[k + 1] = n
        /\ \A i \in 1 .. k : q[i] = p[i]
    OBVIOUS
  <2> HIDE DEF q, k
  <2>2. \A i \in 0 .. k : sum(q)[i] = sum(p)[i]
    <3>1. sum(q)[0] = sum(p)[0]
      BY <1>1, <2>1
    <3>2. ASSUME NEW i \in 1 .. k, sum(q)[i - 1] = sum(p)[i - 1]
          PROVE  sum(q)[i] = sum(p)[i]
      <4>1. i \in 1 .. Len(q) /\ i \in 1 .. Len(p)
        BY <2>1 DEF k
      <4> QED
        BY <4>1, <1>1, <2>1, <3>2
    <3>3. StepsAgree(sum(q), sum(p), k)
      BY <3>2 DEF StepsAgree
    <3> QED
      BY <3>1, <3>3, <2>1, SameRecursion
  <2>3. Total(p) = sum(p)[k] /\ sum(p)[k] \in Nat
    <3>1. k \in 0 .. Len(p)
      BY <2>1 DEF k
    <3> QED
      BY <3>1, <1>1 DEF k
  <2>4. Total(q) = sum(q)[k + 1] /\ sum(q)[k + 1] = sum(q)[k] + q[k + 1]
    <3>1. k + 1 \in 1 .. Len(q) /\ (k + 1) - 1 = k
      BY <2>1
    <3> QED
      BY <3>1, <1>1, <2>1
  <2> QED
    BY <2>1, <2>2, <2>3, <2>4 DEF q
<1> QED
  BY <1>2, <1>3

\* The single tokens of a plan, and of a plan with one more chunk.
LEMMA SinglesOf ==
  /\ Cardinality(Singles(<<>>)) = 0
  /\ \A p \in Seq(Nat), n \in Nat :
       /\ Cardinality(Singles(p)) \in Nat
       /\ Cardinality(Singles(Append(p, n))) =
            Cardinality(Singles(p)) + (IF n = 1 THEN 1 ELSE 0)
<1>1. Cardinality(Singles(<<>>)) = 0
  <2>1. Singles(<<>>) = {}
    BY DEF Singles
  <2> QED
    BY <2>1, FS_EmptySet
<1>2. ASSUME NEW p \in Seq(Nat), NEW n \in Nat
      PROVE  /\ Cardinality(Singles(p)) \in Nat
             /\ Cardinality(Singles(Append(p, n))) =
                  Cardinality(Singles(p)) + (IF n = 1 THEN 1 ELSE 0)
  <2> DEFINE k == Len(p)
             q == Append(p, n)
  <2>1. /\ k \in Nat /\ DOMAIN p = 1 .. k /\ DOMAIN q = 1 .. k + 1
        /\ q[k + 1] = n /\ \A i \in 1 .. k : q[i] = p[i]
    OBVIOUS
  <2>2. IsFiniteSet(Singles(p))
    <3>1. IsFiniteSet(1 .. k)
      BY <2>1, FS_Interval
    <3>2. Singles(p) \in SUBSET (1 .. k)
      BY <2>1 DEF Singles
    <3> QED
      BY <3>1, <3>2, FS_Subset
  <2>3. k + 1 \notin Singles(p)
    BY <2>1 DEF Singles
  <2>4. Singles(q) = IF n = 1 THEN Singles(p) \cup {k + 1} ELSE Singles(p)
    <3> HIDE DEF k, q
    <3>1. ASSUME NEW i \in 1 .. k + 1
          PROVE  i \in Singles(q) <=> \/ i \in Singles(p)
                                      \/ i = k + 1 /\ n = 1
      <4>1. CASE i \in 1 .. k
        BY <4>1, <2>1 DEF Singles
      <4>2. CASE i = k + 1
        BY <4>2, <2>1 DEF Singles
      <4> QED
        BY <4>1, <4>2, <2>1
    <3>2. Singles(q) \subseteq 1 .. k + 1 /\ Singles(p) \subseteq 1 .. k + 1 /\ k + 1 \in 1 .. k + 1
      BY <2>1 DEF Singles
    <3> QED
      BY <3>1, <3>2
  <2> HIDE DEF k, q
  <2>5. Cardinality(Singles(p)) \in Nat
    BY <2>2, FS_CardinalityType
  <2>6. Cardinality(Singles(p) \cup {k + 1}) = Cardinality(Singles(p)) + 1
    BY <2>2, <2>3, FS_AddElement
  <2> QED
    BY <2>4, <2>5, <2>6 DEF q
<1> QED
  BY <1>1, <1>2

-----------------------------------------------------------------------------
(* The loops                                                               *)

TypeOK ==
  /\ total \in 1 .. MaxTotal
  /\ cost \in [0 .. total -> Costs]
  /\ next \in 1 .. total + 1
  /\ left \in 0 .. total
  /\ plan \in Seq(Candidates)

\* The plan is written down once the table is worked out.
TableFirst == next <= total => left = total /\ plan = <<>>

\* What is planned and what is left cost what the whole prompt does.
Balance ==
  next > total =>
    /\ cost[total].chunks = cost[left].chunks + Len(plan)
    /\ cost[total].ones = cost[left].ones + Cardinality(Singles(plan))

\* The last chunk is the one taken with what is left now and it.
LastTaken ==
  plan # <<>> =>
    LET n == plan[Len(plan)]
    IN left + n \in 1 .. total /\ n = Take(cost, left + n)

\* The inductive invariant.
PlanInv ==
  /\ TypeOK /\ Solved(cost, next - 1) /\ TableFirst /\ Balance /\ LastTaken
  /\ PlanCovers /\ LargerFirst

\* A plan is a sequence of numbers.
LEMMA PlanIsNumbers == \A p \in Seq(Candidates) : p \in Seq(Nat)
  BY Sizes

\* Before the first loop nothing is worked out and nothing planned.
LEMMA PlanInit == Init => PlanInv
<1> SUFFICES ASSUME Init
             PROVE  PlanInv
  OBVIOUS
<1>0. total \in Nat /\ total >= 1 /\ total \in 1 .. MaxTotal
  BY PlanAssumption DEF Init
<1>1. cost \in [0 .. total -> Costs] /\ cost[0] = [chunks |-> 0, ones |-> 0]
  BY <1>0 DEF Init, Unplanned, Costs
<1>2. TypeOK
  BY <1>0, <1>1 DEF TypeOK, Init
<1>3. Solved(cost, next - 1)
  BY <1>0, <1>1 DEF Solved, Init
<1>4. PlanCovers
  BY <1>0, TotalOf DEF PlanCovers, Init
<1> QED
  BY <1>0, <1>2, <1>3, <1>4
     DEF PlanInv, Init, TableFirst, Balance, LastTaken, LargerFirst

\* A table that is solved below n and has the cheapest way at n is solved to n.
LEMMA WorkedOut ==
  ASSUME NEW t \in Nat, NEW c \in [0 .. t -> Costs], NEW n \in 1 .. t, Solved(c, n - 1),
         NEW d \in [0 .. t -> Costs], d[n] = Cheapest(c, n),
         \A i \in 0 .. n - 1 : d[i] = c[i]
  PROVE  Solved(d, n)
<1>0. n \in Nat /\ n >= 1
  OBVIOUS
<1>1. /\ Cheapest(c, n) \in Vias(c, n)
      /\ \A w \in Vias(c, n) : ~Cheaper(w, Cheapest(c, n))
  BY Ways
<1>2. \A i \in 1 .. n : Vias(d, i) = Vias(c, i)
  <2> TAKE i \in 1 .. n
  <2>1. ASSUME NEW p \in Candidates, p <= i
        PROVE  Via(d, i, p) = Via(c, i, p)
    <3>1. i - p \in 0 .. n - 1
      BY <2>1, Sizes
    <3> QED
      BY <3>1 DEF Via
  <2> QED
    BY <2>1 DEF Vias
<1>3. d[0] = [chunks |-> 0, ones |-> 0]
  BY <1>0 DEF Solved
<1>4. ASSUME NEW i \in 1 .. n
      PROVE  d[i] \in Vias(d, i) /\ \A w \in Vias(d, i) : ~Cheaper(w, d[i])
  <2>1. CASE i = n
    BY <2>1, <1>1, <1>2
  <2>2. CASE i # n
    <3>1. i \in 1 .. n - 1 /\ i \in 0 .. n - 1
      BY <2>2, <1>0
    <3>2. c[i] \in Vias(c, i) /\ \A w \in Vias(c, i) : ~Cheaper(w, c[i])
      BY <3>1 DEF Solved
    <3> QED
      BY <3>1, <3>2, <1>2
  <2> QED
    BY <2>1, <2>2
<1> QED
  BY <1>3, <1>4 DEF Solved

\* A turn of the first loop fills the next entry of the table with the least
\* of the ways there are, all of which the table already knows.
LEMMA WorkOutKeeps == PlanInv /\ WorkOut => PlanInv'
<1> SUFFICES ASSUME PlanInv, WorkOut
             PROVE  PlanInv'
  OBVIOUS
<1>0. /\ total \in Nat /\ total >= 1 /\ next \in 1 .. total /\ next \in Nat
      /\ cost \in [0 .. total -> Costs] /\ plan \in Seq(Candidates)
      /\ Solved(cost, next - 1)
      /\ left = total /\ plan = <<>>
  BY PlanAssumption DEF PlanInv, TypeOK, WorkOut, TableFirst
<1>1. /\ total' = total /\ left' = left /\ plan' = plan /\ next' = next + 1
      /\ cost' = [cost EXCEPT ![next] = Cheapest(cost, next)]
  BY DEF WorkOut
<1>2. Cheapest(cost, next) \in Costs
  <2>1. Vias(cost, next) \in SUBSET Costs /\ Cheapest(cost, next) \in Vias(cost, next)
    BY <1>0, Ways
  <2> QED
    BY <2>1
<1>3. /\ cost' \in [0 .. total -> Costs] /\ cost'[next] = Cheapest(cost, next)
      /\ \A n \in 0 .. next - 1 : cost'[n] = cost[n]
  BY <1>0, <1>1, <1>2
<1>5. Solved(cost', next)
  BY <1>0, <1>3, WorkedOut
<1>6. Solved(cost, next - 1)' <=> Solved(cost', next)
  BY <1>0, <1>1 DEF Solved
<1>7. TypeOK'
  BY <1>0, <1>1, <1>3 DEF TypeOK, PlanInv
<1>8. Balance'
  <2>1. \A c \in Costs : c.chunks = c.chunks + 0 /\ c.ones = c.ones + 0
    BY DEF Costs
  <2>2. cost'[total] \in Costs
    BY <1>0, <1>3
  <2>3. Len(<<>>) = 0 /\ Cardinality(Singles(<<>>)) = 0
    BY SinglesOf
  <2> QED
    BY <2>1, <2>2, <2>3, <1>0, <1>1 DEF Balance
<1>9. TableFirst' /\ LastTaken' /\ LargerFirst'
  BY <1>0, <1>1 DEF TableFirst, LastTaken, LargerFirst
<1>10. PlanCovers'
  BY <1>1 DEF PlanInv, PlanCovers
<1> QED
  BY <1>5, <1>6, <1>7, <1>8, <1>9, <1>10 DEF PlanInv

\* A turn of the second loop moves a best first chunk from what is left to the
\* plan.
LEMMA PlanChunkKeeps == PlanInv /\ PlanChunk => PlanInv'
<1> SUFFICES ASSUME PlanInv, PlanChunk
             PROVE  PlanInv'
  OBVIOUS
<1> DEFINE n == Take(cost, left)
<1>0. /\ total \in Nat /\ total >= 1 /\ total \in 1 .. MaxTotal
      /\ next = total + 1 /\ left \in 1 .. total /\ left \in Nat
      /\ cost \in [0 .. total -> Costs] /\ plan \in Seq(Candidates)
      /\ Solved(cost, total)
  <2>1. next = total + 1 /\ total \in Nat /\ next - 1 = total
    BY PlanAssumption DEF PlanInv, TypeOK, PlanChunk
  <2> QED
    BY <2>1 DEF PlanInv, TypeOK, PlanChunk
<1>1. /\ total' = total /\ cost' = cost /\ next' = next
      /\ plan' = Append(plan, n) /\ left' = left - n
  BY DEF PlanChunk
<1>2. /\ n \in Candidates /\ n <= left /\ Via(cost, left, n) = cost[left]
      /\ n \in Nat /\ n >= 1 /\ (n = 1 \/ ChunkOk(n))
  <2>1. n \in Candidates /\ n <= left /\ Via(cost, left, n) = cost[left]
    BY <1>0, TakeIs
  <2> QED
    BY <2>1, Sizes
<1> DEFINE k == Len(plan)
<1>3. /\ k \in Nat /\ DOMAIN plan = 1 .. k
      /\ plan' \in Seq(Candidates) /\ Len(plan') = k + 1 /\ DOMAIN plan' = 1 .. k + 1
      /\ plan'[k + 1] = n /\ \A i \in 1 .. k : plan'[i] = plan[i]
      /\ plan' # <<>> /\ (k # 0 => plan # <<>>)
  BY <1>0, <1>1, <1>2
<1>4. plan \in Seq(Nat)
  BY <1>0, PlanIsNumbers
<1> HIDE DEF n, k
<1>5. TypeOK'
  BY <1>0, <1>1, <1>2, <1>3 DEF TypeOK
<1>6. Solved(cost, next - 1)'
  BY <1>1 DEF PlanInv, Solved
<1>7. TableFirst'
  BY <1>0, <1>1 DEF TableFirst
<1>8. Balance'
  <2>1. /\ cost[left].chunks = cost[left - n].chunks + 1
        /\ cost[left].ones = cost[left - n].ones + (IF n = 1 THEN 1 ELSE 0)
    BY <1>2 DEF Via
  <2>2. /\ cost[total].chunks = cost[left].chunks + k
        /\ cost[total].ones = cost[left].ones + Cardinality(Singles(plan))
    BY <1>0 DEF PlanInv, Balance, k
  <2>3. cost[left - n].chunks \in Nat /\ cost[left - n].ones \in Nat
    <3>1. left - n \in 0 .. total
      BY <1>0, <1>2
    <3>2. cost[left - n] \in Costs
      BY <3>1, <1>0
    <3> QED
      BY <3>2 DEF Costs
  <2>4. /\ Cardinality(Singles(plan)) \in Nat
        /\ Cardinality(Singles(plan')) =
             Cardinality(Singles(plan)) + (IF n = 1 THEN 1 ELSE 0)
    BY <1>1, <1>2, <1>4, SinglesOf
  <2>5. /\ cost[total].chunks = cost[left - n].chunks + (k + 1)
        /\ cost[total].ones = cost[left - n].ones + Cardinality(Singles(plan'))
    <3>1. \A a, b, i \in Nat : (a + i) + b = a + (b + i)
      OBVIOUS
    <3>2. (IF n = 1 THEN 1 ELSE 0) \in Nat
      OBVIOUS
    <3>3. cost[total].chunks = (cost[left - n].chunks + 1) + k
      BY <2>1, <2>2
    <3>4. cost[total].ones =
            (cost[left - n].ones + (IF n = 1 THEN 1 ELSE 0)) + Cardinality(Singles(plan))
      BY <2>1, <2>2
    <3> QED
      BY <2>3, <2>4, <1>3, <3>1, <3>2, <3>3, <3>4
  <2> QED
    BY <2>5, <1>1, <1>3 DEF Balance
<1>9. LastTaken'
  <2>1. left' + n = left
    BY <1>0, <1>1, <1>2
  <2> QED
    BY <2>1, <1>0, <1>1, <1>3 DEF LastTaken, n
<1>10. PlanCovers'
  <2>1. Total(plan) \in Nat /\ Total(plan') = Total(plan) + n /\ Total(plan) + left = total
    BY <1>1, <1>2, <1>4, TotalOf DEF PlanInv, PlanCovers
  <2>2. Total(plan') + left' = total'
    BY <2>1, <1>0, <1>1, <1>2
  <2>3. ASSUME NEW i \in 1 .. k + 1
        PROVE  plan'[i] = 1 \/ ChunkOk(plan'[i])
    <3>1. CASE i = k + 1
      BY <3>1, <1>2, <1>3
    <3>2. CASE i # k + 1
      <4>1. i \in 1 .. k
        BY <3>2, <1>3
      <4> QED
        BY <4>1, <1>3 DEF PlanInv, PlanCovers
    <3> QED
      BY <3>1, <3>2
  <2> QED
    BY <2>2, <2>3, <1>3 DEF PlanCovers
<1>11. LargerFirst'
  <2>1. ASSUME NEW i \in 1 .. k
        PROVE  plan'[i] >= plan'[i + 1]
    <3>1. CASE i = k
      <4>1. plan # <<>> /\ plan[k] \in Nat
        BY <3>1, <1>3, <1>4
      <4> DEFINE m == left + plan[k]
      <4>2. m \in 1 .. total /\ plan[k] = Take(cost, m)
        BY <4>1 DEF PlanInv, LastTaken, k
      <4>3. m - plan[k] = left
        BY <4>1, <1>0
      <4>4. n <= plan[k]
        <5>1. m - Take(cost, m) \in 1 .. total
          BY <4>2, <4>3, <1>0
        <5> HIDE DEF m
        <5>2. Take(cost, m - Take(cost, m)) <= Take(cost, m)
          BY <5>1, <4>2, <1>0, NextIsSmaller
        <5> QED
          BY <5>2, <4>2, <4>3 DEF n
      <4> QED
        BY <4>1, <4>4, <3>1, <1>2, <1>3
    <3>2. CASE i # k
      <4>1. i \in 1 .. k - 1 /\ i + 1 \in 1 .. k
        BY <3>2, <1>3
      <4>2. plan[i] >= plan[i + 1]
        BY <4>1 DEF PlanInv, LargerFirst, k
      <4> QED
        BY <4>1, <4>2, <1>3
    <3> QED
      BY <3>1, <3>2
  <2>2. Len(plan') - 1 = k
    BY <1>3
  <2> QED
    BY <2>1, <2>2 DEF LargerFirst
<1> QED
  BY <1>5, <1>6, <1>7, <1>8, <1>9, <1>10, <1>11 DEF PlanInv

\* The invariant holds throughout.
THEOREM PlanStays == Spec => []PlanInv
<1>1. PlanInv /\ UNCHANGED vars => PlanInv'
  BY DEF PlanInv, TypeOK, TableFirst, Balance, LastTaken, PlanCovers,
         LargerFirst, vars
<1>2. PlanInv /\ [WorkOut \/ PlanChunk \/ Planned]_vars => PlanInv'
  BY <1>1, WorkOutKeeps, PlanChunkKeeps DEF Planned
<1> QED
  BY <1>2, PlanInit, PTL DEF Spec

\* The finished plan is a best one: its cost is what the table says of the
\* whole prompt, and no plan costs less than that.
LEMMA FinishedIsBest == PlanInv => PlanIsBest
<1> SUFFICES ASSUME PlanInv, left = 0
             PROVE  LET chunks == Len(plan)
                        ones   == Cardinality(Singles(plan))
                    IN /\ \A k \in 0 .. chunks - 1 : total \notin Sums(Candidates, k)
                       /\ \A j \in 0 .. ones - 1 :
                            total - j \notin Sums(Candidates \ {1}, chunks - j)
  BY DEF PlanIsBest
<1>1. /\ total \in Nat /\ total >= 1 /\ next = total + 1
      /\ cost \in [0 .. total -> Costs] /\ Solved(cost, total)
      /\ plan \in Seq(Nat)
  <2>1. total \in Nat /\ total >= 1 /\ next \in 1 .. total + 1
    BY PlanAssumption DEF PlanInv, TypeOK
  <2>2. next = total + 1
    BY <2>1 DEF PlanInv, TableFirst
  <2>3. next - 1 = total
    BY <2>1, <2>2
  <2> QED
    BY <2>1, <2>2, <2>3, PlanIsNumbers DEF PlanInv, TypeOK
<1>2. Lowest(cost, total)
  BY <1>1, SolvedIsLowest
<1>3. cost[total].chunks = Len(plan) /\ cost[total].ones = Cardinality(Singles(plan))
  <2>1. cost[0].chunks = 0 /\ cost[0].ones = 0
    BY <1>1 DEF Solved
  <2>2. Len(plan) \in Nat /\ Cardinality(Singles(plan)) \in Nat
    BY <1>1, SinglesOf
  <2>3. /\ cost[total].chunks = 0 + Len(plan)
        /\ cost[total].ones = 0 + Cardinality(Singles(plan))
    BY <1>1, <2>1 DEF PlanInv, Balance
  <2> QED
    BY <2>2, <2>3
<1> QED
  BY <1>2, <1>3 DEF Lowest

\* The plan takes every token once, and forward_batch accepts every chunk.
THEOREM PlanCoversThePrompt == Spec => []PlanCovers
  BY PlanStays, PTL DEF PlanInv

\* Chunks come larger first, so that the tail of a prompt is at its end.
THEOREM PlanIsLargerFirst == Spec => []LargerFirst
  BY PlanStays, PTL DEF PlanInv

\* No sizes the batched path accepts make up the prompt in fewer chunks, or in
\* as many with fewer single tokens.
THEOREM PlanIsOptimal == Spec => []PlanIsBest
  BY PlanStays, FinishedIsBest, PTL

-----------------------------------------------------------------------------
(* The plan of the trunk                                                   *)

\* Tables that are solved to m agree to m: the least cost is one.
LEMMA SolvedOnce ==
  ASSUME NEW t \in Nat, NEW c \in [0 .. t -> Costs], NEW u \in Nat, NEW d \in [0 .. u -> Costs],
         NEW m \in 0 .. t, m <= u, Solved(c, m), Solved(d, m)
  PROVE  \A n \in 0 .. m : c[n] = d[n]
<1> DEFINE S == {n \in Nat : n <= m => c[n] = d[n]}
<1>1. ASSUME NEW n \in Nat, 0 .. n - 1 \subseteq S
      PROVE  n \in S
  <2>1. SUFFICES ASSUME n <= m PROVE c[n] = d[n]
    OBVIOUS
  <2>2. CASE n = 0
    BY <2>2 DEF Solved
  <2>3. CASE n # 0
    <3>1. n \in 1 .. m /\ n \in 1 .. t /\ n \in 1 .. u
      BY <2>1, <2>3
    <3>2. ASSUME NEW p \in Candidates, p <= n
          PROVE  Via(c, n, p) = Via(d, n, p)
      <4>1. n - p \in 0 .. n - 1 /\ n - p <= m
        BY <3>1, <3>2, Sizes
      <4>2. c[n - p] = d[n - p]
        BY <4>1, <1>1
      <4> QED
        BY <4>2 DEF Via
    <3>3. Vias(c, n) = Vias(d, n)
      BY <3>2 DEF Vias
    <3>4. ~Cheaper(c[n], d[n]) /\ ~Cheaper(d[n], c[n])
      BY <3>1, <3>3 DEF Solved
    <3>5. c[n] \in Costs /\ d[n] \in Costs
      BY <3>1
    <3> DEFINE a == c[n]
               b == d[n]
    <3>6. /\ a = [chunks |-> a.chunks, ones |-> a.ones] /\ a.chunks \in Nat /\ a.ones \in Nat
          /\ b = [chunks |-> b.chunks, ones |-> b.ones] /\ b.chunks \in Nat /\ b.ones \in Nat
      <4> HIDE DEF a, b
      <4>1. \A v \in Costs : v = [chunks |-> v.chunks, ones |-> v.ones] /\ v.chunks \in Nat /\ v.ones \in Nat
        BY DEF Costs
      <4> QED
        BY <3>5, <4>1 DEF a, b
    <3>7. a.chunks = b.chunks /\ a.ones = b.ones
      BY <3>4, <3>6 DEF Cheaper
    <3> QED
      BY <3>6, <3>7
  <2> QED
    BY <2>2, <2>3
<1>2. Nat \subseteq S
  <2> HIDE DEF S
  <2> QED
    BY <1>1, StrongInduction
<1> QED
  BY <1>2

\* The table that Trunk takes its chunks by is solved.
LEMMA CostIsSolved == Cost \in [0 .. MaxTotal -> Costs] /\ Solved(Cost, MaxTotal)
<1> DEFINE N == MaxTotal
           V == [0 .. N -> Costs]
           step == [i \in 1 .. N |-> [c \in V |-> [c EXCEPT ![i] = Cheapest(c, i)]]]
           body(f, r) == IF r = 0 THEN Unplanned(N)
                         ELSE [f[r - 1] EXCEPT ![r] = Cheapest(f[r - 1], r)]
<1>0. N \in Nat
  BY PlanAssumption
<1>1. Unplanned(N) \in V /\ Unplanned(N)[0] = [chunks |-> 0, ones |-> 0]
  BY <1>0 DEF Unplanned, Costs
<1>2. ASSUME NEW i \in 1 .. N, NEW c \in V
      PROVE  [c EXCEPT ![i] = Cheapest(c, i)] \in V
  <2>1. Vias(c, i) \in SUBSET Costs /\ Cheapest(c, i) \in Vias(c, i)
    BY <1>0, Ways
  <2> QED
    BY <2>1
<1>3. /\ step \in [1 .. N -> [V -> V]]
      /\ \A i \in 1 .. N : \A c \in V : step[i][c] = [c EXCEPT ![i] = Cheapest(c, i)]
  <2> HIDE DEF V
  <2> QED
    BY <1>2
<1> HIDE DEF step
<1>4. PICK f : IteratesTo(f, N, V, Unplanned(N), step)
  <2> HIDE DEF V, N
  <2> QED
    BY <1>0, <1>1, <1>3, IterateTo
<1>5. /\ f \in [0 .. N -> V] /\ f[0] = Unplanned(N)
      /\ \A i \in 1 .. N : f[i] = step[i][f[i - 1]]
  BY <1>4 DEF IteratesTo
<1>6. f = [r \in 0 .. N |-> body(f, r)]
  <2>1. ASSUME NEW r \in 0 .. N
        PROVE  f[r] = body(f, r)
    <3>1. CASE r = 0
      BY <3>1, <1>5
    <3>2. CASE r # 0
      <4>1. r \in 1 .. N /\ r - 1 \in 0 .. N
        BY <3>2, <1>0
      <4>2. f[r] = step[r][f[r - 1]] /\ f[r - 1] \in V
        BY <4>1, <1>5
      <4> HIDE DEF V
      <4> QED
        BY <4>1, <4>2, <3>2, <1>3
    <3> QED
      BY <3>1, <3>2
  <2> HIDE DEF body, V, N
  <2> QED
    BY <1>5, <2>1
<1> DEFINE after == CHOOSE g : g = [r \in 0 .. N |-> body(g, r)]
<1>7. after = [r \in 0 .. N |-> body(after, r)]
  <2> HIDE DEF body, N
  <2> QED
    BY <1>6
<1>8. Cost = after[N]
  BY DEF Cost
<1> HIDE DEF after
<1> DEFINE S == {r \in Nat : r <= N => after[r] \in V /\ Solved(after[r], r)}
<1>9. 0 \in S
  <2>1. after[0] = Unplanned(N)
    BY <1>7, <1>0
  <2>2. Solved(Unplanned(N), 0)
    BY <1>1 DEF Solved
  <2> HIDE DEF V, N
  <2> QED
    BY <2>1, <2>2, <1>1
<1>10. ASSUME NEW n \in Nat, n \in S
       PROVE  n + 1 \in S
  <2> DEFINE r == n + 1
  <2>1. SUFFICES ASSUME r <= N PROVE after[r] \in V /\ Solved(after[r], r)
    OBVIOUS
  <2>2. r \in 1 .. N /\ r \in 0 .. N /\ r # 0 /\ r - 1 = n /\ after[n] \in V /\ Solved(after[n], r - 1)
    BY <2>1, <1>10, <1>0
  <2>3. after[r] = [after[n] EXCEPT ![r] = Cheapest(after[n], r)]
    <3>1. after[r] = body(after, r)
      <4> HIDE DEF body, r, N
      <4> QED
        BY <1>7, <2>2
    <3> QED
      BY <3>1, <2>2
  <2> HIDE DEF r
  <2>4. after[r] \in V
    <3> HIDE DEF V
    <3> QED
      BY <2>2, <2>3, <1>2
  <2>5. after[r][r] = Cheapest(after[n], r) /\ \A i \in 0 .. r - 1 : after[r][i] = after[n][i]
    <3>1. \A c \in V : \A v :
            /\ [c EXCEPT ![r] = v][r] = v
            /\ \A i \in 0 .. r - 1 : [c EXCEPT ![r] = v][i] = c[i]
      BY <1>0, <2>2
    <3> HIDE DEF V
    <3>2. after[n] \in V
      BY <2>2
    <3> QED
      BY <2>3, <3>1, <3>2
  <2>6. Solved(after[r], r)
    <3> HIDE DEF N
    <3> QED
      BY <1>0, <2>2, <2>4, <2>5, WorkedOut
  <2> QED
    BY <2>4, <2>6
<1>11. Nat \subseteq S
  <2> HIDE DEF S
  <2> QED
    BY <1>9, <1>10, Induction
<1> QED
  BY <1>0, <1>8, <1>11

\* Once the table is worked out, the next chunk is the one that Trunk's prefill
\* takes with as many tokens left.
TrunkTakesIt == next > total /\ left > 0 => Take(cost, left) = Take(Cost, left)

\* The chunks that Trunk's prefill takes are those of the best plan.
THEOREM TrunkFollowsThePlan == Spec => []TrunkTakesIt
<1>1. ASSUME PlanInv, next > total, left > 0
      PROVE  Take(cost, left) = Take(Cost, left)
  <2>1. /\ total \in Nat /\ total <= MaxTotal /\ MaxTotal \in Nat /\ left \in 1 .. total
        /\ cost \in [0 .. total -> Costs] /\ Solved(cost, total)
    <3>1. total \in 1 .. MaxTotal /\ next \in 1 .. total + 1 /\ left \in 0 .. total
          /\ cost \in [0 .. total -> Costs]
      BY <1>1 DEF PlanInv, TypeOK
    <3>2. next - 1 = total
      BY <3>1, <1>1, PlanAssumption
    <3> QED
      BY <3>1, <3>2, <1>1, PlanAssumption DEF PlanInv
  <2>2. Solved(Cost, total) /\ Cost \in [0 .. MaxTotal -> Costs]
    BY <2>1, CostIsSolved DEF Solved
  <2>3. \A n \in 0 .. total : cost[n] = Cost[n]
    BY <2>1, <2>2, SolvedOnce
  <2>4. ASSUME NEW p \in Candidates, p <= left
        PROVE  Via(cost, left, p) = Via(Cost, left, p)
    <3>1. left - p \in 0 .. total
      BY <2>1, <2>4, Sizes
    <3> QED
      BY <3>1, <2>3 DEF Via
  <2>5. cost[left] = Cost[left]
    BY <2>1, <2>3
  <2> DEFINE takes(c) == {p \in Candidates : p <= left /\ Via(c, left, p) = c[left]}
  <2>6. takes(cost) = takes(Cost)
    BY <2>4, <2>5
  <2>7. \A c : Take(c, left) = IF takes(c) = {} THEN 1
                             ELSE CHOOSE p \in takes(c) : \A q \in takes(c) : q <= p
    BY DEF Take
  <2> HIDE DEF takes
  <2> QED
    BY <2>6, <2>7
<1>2. PlanInv => TrunkTakesIt
  BY <1>1 DEF TrunkTakesIt
<1> QED
  BY <1>2, PlanStays, PTL

\* With the default cap of 512 (device.h:251) and the compiled sizes, every
\* size the plan may use can be launched, whatever gemm_launch covers: the
\* chunk that cannot be, of the run prefill_chunk, takes another cap.
THEOREM DefaultCapRuns ==
  BatchMax = 512 /\ BatchCap = 16 /\ BatchNs = {2, 3, 4, 8, 16} =>
    (Spec => []ChunksRun)
<1> SUFFICES ASSUME BatchMax = 512, BatchCap = 16, BatchNs = {2, 3, 4, 8, 16}
             PROVE  Spec => []ChunksRun
  OBVIOUS
<1>1. Halvings \subseteq {512, 256, 128, 64, 32, 16, 8, 4, 2}
  <2>1. /\ 512 \div 1 = 512 /\ 512 \div 2 = 256 /\ 512 \div 4 = 128
        /\ 512 \div 8 = 64 /\ 512 \div 16 = 32 /\ 512 \div 32 = 16
        /\ 512 \div 64 = 8 /\ 512 \div 128 = 4 /\ 512 \div 256 = 2
        /\ 512 \div 512 = 1
    OBVIOUS
  <2> QED
    BY <2>1 DEF Halvings
<1>2. ASSUME NEW p \in Candidates, p > 1
      PROVE  Launchable(p)
  <2>1. p \in {512, 256, 128, 64, 32, 16, 8, 4, 3, 2}
    BY <1>1, <1>2 DEF Candidates, ChunkSizes
  <2>2. 512 % 16 = 0 /\ 256 % 16 = 0 /\ 128 % 16 = 0 /\ 64 % 16 = 0 /\ 32 % 16 = 0
    OBVIOUS
  <2> QED
    BY <2>1, <2>2 DEF Launchable
<1>3. PlanInv => ChunksRun
  BY <1>2 DEF PlanInv, TypeOK, ChunksRun
<1> QED
  BY <1>3, PlanStays, PTL
=============================================================================
