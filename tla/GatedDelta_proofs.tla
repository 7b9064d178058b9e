-------------------------- MODULE GatedDelta_proofs --------------------------
(***************************************************************************)
(* That every kernel of the delta rule leaves the state and the outputs of *)
(* the recurrence, one token after the other: for every number of heads,   *)
(* row size, length of the chunk, size of a warp and of a block of rows,   *)
(* and in every order of the CTAs and interleaving of their warps.         *)
(***************************************************************************)
EXTENDS KernelProps, SequenceFacts

-----------------------------------------------------------------------------
(* The launches                                                            *)

SingleOps == {"delta_rule_launch", "delta_rule_launch_scalar", "delta_rule_launch_ilp"}
BatchOps == {"delta_rule_batch_launch", "delta_rule_batch_resident_launch"}
BatchKernels == {"delta_rows", "twopass", "fused"}

\* The launches of the delta rule that are made.
DeltaJobs ==
  {J \in GdnJobs :
    /\ "shape" \in DOMAIN J
    /\ J.op = "delta_rule_launch_ilp" => J.s = WideSize /\ J.shape \in DeltaShapes}

KernelOf(J) ==
  IF \/ J.op = "delta_rule_launch_scalar"
     \/ J.op = "delta_rule_launch" /\ ~(J.s = WideSize /\ J.nvh > 0)
  THEN "delta"
  ELSE IF J.op \in SingleOps THEN "delta_ilp"
  ELSE IF J.op = "delta_rule_batch_launch" \/ J.s > WideSize \/ J.nvh <= 0 THEN "delta_rows"
  ELSE IF J.fused THEN "fused" ELSE "twopass"

ShapeOf(J) == IF J.op = "delta_rule_launch" THEN <<WideSize, 1, TRUE>> ELSE J.shape

\* The threads of a CTA, which each have the rows equal to them modulo it.
ThreadsIn(J) ==
  IF KernelOf(J) = "delta" THEN J.s
  ELSE IF KernelOf(J) = "delta_ilp" THEN ShapeOf(J)[1]
  ELSE DeltaRows

\* The block of rows and the warp that row j is in.
BlockAt(J, j) == IF KernelOf(J) \in BatchKernels THEN j \div DeltaRows ELSE 0
WarpAt(J, j) == (j % ThreadsIn(J)) \div Lanes

WarpsIn(J) == Blocks(ThreadsIn(J), Lanes)
TheGrid(J) ==
  Grid(KernelOf(J), WarpsIn(J), J.nvh,
       IF KernelOf(J) \in BatchKernels THEN Blocks(J.s, DeltaRows) ELSE 1, 1)
OwnerOf(J, h, j) ==
  [kernel |-> KernelOf(J), warps |-> WarpsIn(J), x |-> h, y |-> BlockAt(J, j), z |-> 0]
MyRows(J, c, w) == {j \in 0 .. J.s - 1 : BlockAt(J, j) = c.y /\ WarpAt(J, j) = w}

-----------------------------------------------------------------------------
(* Numbers                                                                 *)

\* Division with a remainder.
LEMMA Division ==
  ASSUME NEW x \in Nat, NEW n \in Nat \ {0}
  PROVE  /\ x \div n \in Nat /\ x % n \in 0 .. n - 1
         /\ x = (x \div n) * n + (x % n)
OBVIOUS

\* It has one answer.
LEMMA OneAnswer ==
  ASSUME NEW n \in Nat, NEW a \in Nat, NEW c \in Nat, NEW b \in 0 .. n - 1, NEW d \in 0 .. n - 1,
         a * n + b = c * n + d
  PROVE  a = c /\ b = d
<1>1. ASSUME NEW x \in Nat, NEW y \in Nat, x < y
      PROVE  x * n + n <= y * n
  <2>1. PICK k \in Nat : y = x + 1 + k
    <3>1. y - x - 1 \in Nat /\ y = x + 1 + (y - x - 1)
      BY <1>1
    <3> QED
      BY <3>1
  <2>2. y * n = x * n + n + k * n
    BY <2>1
  <2>3. k * n \in Nat /\ x * n \in Nat
    OBVIOUS
  <2> QED
    BY <2>2, <2>3
<1>2. a * n \in Nat /\ c * n \in Nat
  OBVIOUS
<1>3. ~(a < c)
  BY <1>1, <1>2
<1>4. ~(c < a)
  BY <1>1, <1>2
<1>5. a = c
  BY <1>3, <1>4
<1> QED
  BY <1>2, <1>5

\* The quotient and the remainder of a number given by them.
LEMMA Quotient ==
  ASSUME NEW n \in Nat \ {0}, NEW q \in Nat, NEW r \in 0 .. n - 1
  PROVE  (q * n + r) \div n = q /\ (q * n + r) % n = r
<1>1. q * n + r \in Nat
  OBVIOUS
<1> DEFINE x == q * n + r
<1>2. /\ x \div n \in Nat /\ x % n \in 0 .. n - 1
      /\ x = (x \div n) * n + (x % n)
  BY <1>1, Division
<1> QED
  BY <1>2, OneAnswer

\* Blocks of a size that cover x reach the block x - 1 is in.
LEMMA Covered ==
  ASSUME NEW x \in Nat, NEW n \in Nat \ {0}, NEW i \in 0 .. x - 1
  PROVE  Blocks(x, n) \in Nat /\ i \div n \in 0 .. Blocks(x, n) - 1
<1> DEFINE y == x + n - 1
<1>1. y \in Nat /\ i \in Nat
  OBVIOUS
<1>2. /\ y \div n \in Nat /\ y % n \in 0 .. n - 1 /\ y = (y \div n) * n + (y % n)
      /\ i \div n \in Nat /\ i % n \in 0 .. n - 1 /\ i = (i \div n) * n + (i % n)
  BY <1>1, Division
<1>3. i + n <= y
  OBVIOUS
<1>4. ~(y \div n <= i \div n)
  <2>1. ASSUME y \div n <= i \div n
        PROVE  FALSE
    <3>1. (y \div n) * n <= (i \div n) * n
      BY <2>1, <1>2
    <3> HIDE DEF y
    <3> QED
      BY <3>1, <1>1, <1>2, <1>3
  <2> QED
    BY <2>1
<1> QED
  BY <1>2, <1>4 DEF Blocks

-----------------------------------------------------------------------------
(* The grid of a launch                                                    *)

\* What is known of the arguments of a launch.
LEMMA JobFacts ==
  ASSUME NEW J \in DeltaJobs
  PROVE  /\ J.nvh \in Nat /\ J.nkh \in Nat \ {0} /\ J.s \in Nat \ {0}
         /\ J.tokens \in Nat /\ J.tokens >= 1
         /\ KernelOf(J) \in {"delta", "delta_ilp"} \cup BatchKernels
         /\ KernelOf(J) \in {"delta", "delta_ilp"} => J.tokens = 1
         /\ KernelOf(J) = "delta_ilp" =>
              /\ J.s = WideSize
              /\ ShapeOf(J)[1] \in Nat \ {0} /\ ShapeOf(J)[2] \in Nat \ {0}
              /\ ShapeOf(J)[1] * ShapeOf(J)[2] = J.s
         /\ ThreadsIn(J) \in Nat \ {0}
<1>1. /\ J.nvh \in Nat /\ J.nkh \in Nat \ {0} /\ J.s \in Nat \ {0}
      /\ J.tokens \in Nat \ {0}
      /\ J.op \in BatchOps \/ (J.op \in SingleOps /\ J.tokens = 1)
      /\ J.op = "delta_rule_launch_ilp" => J.s = WideSize /\ J.shape \in DeltaShapes
  <2>1. /\ J \in GdnJobs /\ "shape" \in DOMAIN J
        /\ J.op = "delta_rule_launch_ilp" => J.s = WideSize /\ J.shape \in DeltaShapes
    BY DEF DeltaJobs
  <2>2. /\ J.nvh \in Nat /\ J.nkh \in Nat \ {0} /\ J.s \in Nat \ {0}
        /\ J.tokens \in Nat \ {0}
        /\ J.op \in BatchOps \/ (J.op \in SingleOps /\ J.tokens = 1)
    BY <2>1, DeltaJobsAssumption DEF BatchOps, SingleOps
  <2> QED
    BY <2>1, <2>2
<1>2. J.tokens \in Nat /\ J.tokens >= 1
  BY <1>1
<1>3. /\ KernelOf(J) \in {"delta", "delta_ilp"} \cup BatchKernels
      /\ KernelOf(J) \in {"delta", "delta_ilp"} => J.tokens = 1
      /\ KernelOf(J) = "delta_ilp" =>
           \/ J.op = "delta_rule_launch" /\ J.s = WideSize
           \/ J.op = "delta_rule_launch_ilp"
  BY <1>1 DEF KernelOf, BatchKernels, BatchOps, SingleOps
<1>4. KernelOf(J) = "delta_ilp" =>
        /\ J.s = WideSize
        /\ ShapeOf(J)[1] \in Nat \ {0} /\ ShapeOf(J)[2] \in Nat \ {0}
        /\ ShapeOf(J)[1] * ShapeOf(J)[2] = J.s
  BY <1>1, <1>3, DeltaAssumption DEF ShapeOf
<1>5. ThreadsIn(J) \in Nat \ {0}
  BY <1>1, <1>4, DeltaAssumption DEF ThreadsIn
<1> QED
  BY <1>1, <1>2, <1>3, <1>4, <1>5

\* A CTA of the grid, and the CTA that has a row.
LEMMA GridFacts ==
  ASSUME NEW J \in DeltaJobs
  PROVE  /\ \A c \in TheGrid(J) : /\ c.kernel = KernelOf(J) /\ c.warps = WarpsIn(J)
                                /\ c.x \in 0 .. J.nvh - 1
         /\ \A h \in 0 .. J.nvh - 1, j \in 0 .. J.s - 1 :
              /\ OwnerOf(J, h, j) \in TheGrid(J)
              /\ WarpAt(J, j) \in 0 .. WarpsIn(J) - 1
              /\ \A c \in TheGrid(J) :
                   OwnerOf(J, h, j) = c <=> c.x = h /\ j \in MyRows(J, c, WarpAt(J, j))
         /\ Idle \notin TheGrid(J)
<1> USE JobFacts
<1> DEFINE ys == IF KernelOf(J) \in BatchKernels THEN Blocks(J.s, DeltaRows) ELSE 1
<1>1. TheGrid(J) = {[kernel |-> KernelOf(J), warps |-> WarpsIn(J), x |-> x, y |-> y, z |-> z] :
                      x \in 0 .. J.nvh - 1, y \in 0 .. ys - 1, z \in 0 .. 1 - 1}
  BY DEF TheGrid, Grid
<1> HIDE DEF ys
<1>2. ASSUME NEW c \in TheGrid(J)
      PROVE  /\ c = [kernel |-> KernelOf(J), warps |-> WarpsIn(J), x |-> c.x, y |-> c.y, z |-> 0]
             /\ c.kernel = KernelOf(J) /\ c.warps = WarpsIn(J)
             /\ c.x \in 0 .. J.nvh - 1
  BY <1>1
<1>3. ASSUME NEW h \in 0 .. J.nvh - 1, NEW j \in 0 .. J.s - 1
      PROVE  /\ OwnerOf(J, h, j) \in TheGrid(J)
             /\ WarpAt(J, j) \in 0 .. WarpsIn(J) - 1
             /\ \A c \in TheGrid(J) :
                  OwnerOf(J, h, j) = c <=> c.x = h /\ j \in MyRows(J, c, WarpAt(J, j))
  <2>1. BlockAt(J, j) \in 0 .. ys - 1
    <3>1. CASE KernelOf(J) \in BatchKernels
      BY <3>1, Covered, DeltaAssumption DEF BlockAt, ys
    <3>2. CASE KernelOf(J) \notin BatchKernels
      BY <3>2 DEF BlockAt, ys
    <3> QED
      BY <3>1, <3>2
  <2>2. WarpAt(J, j) \in 0 .. WarpsIn(J) - 1
    <3>1. j % ThreadsIn(J) \in 0 .. ThreadsIn(J) - 1
      BY Division
    <3> QED
      BY <3>1, Covered, LanesAssumption DEF WarpAt, WarpsIn
  <2>3. OwnerOf(J, h, j) \in TheGrid(J)
    BY <1>1, <2>1 DEF OwnerOf
  <2>4. ASSUME NEW c \in TheGrid(J)
        PROVE  OwnerOf(J, h, j) = c <=> c.x = h /\ j \in MyRows(J, c, WarpAt(J, j))
    <3>1. OwnerOf(J, h, j).x = h /\ OwnerOf(J, h, j).y = BlockAt(J, j)
      BY DEF OwnerOf
    <3>2. c.x = h /\ BlockAt(J, j) = c.y => OwnerOf(J, h, j) = c
      BY <1>2 DEF OwnerOf
    <3>3. j \in MyRows(J, c, WarpAt(J, j)) <=> BlockAt(J, j) = c.y
      BY DEF MyRows
    <3> QED
      BY <3>1, <3>2, <3>3
  <2> QED
    BY <2>2, <2>3, <2>4
<1>4. Idle \notin TheGrid(J)
  <2>1. Idle.kernel = "idle"
    BY DEF Idle
  <2>2. KernelOf(J) # "idle"
    BY DEF BatchKernels
  <2> QED
    BY <1>2, <2>1, <2>2
<1> QED
  BY <1>2, <1>3, <1>4

-----------------------------------------------------------------------------
(* The rows each warp has                                                  *)

\* The rows of the scalar kernel's warp w.
LEMMA ScalarRows ==
  ASSUME NEW J \in DeltaJobs, KernelOf(J) = "delta", NEW c \in TheGrid(J), NEW w \in Nat
  PROVE  ThreadsOf(w, J.s) = MyRows(J, c, w)
<1>1. J.s \in Nat \ {0} /\ ThreadsIn(J) = J.s /\ KernelOf(J) \notin BatchKernels
  BY JobFacts DEF ThreadsIn, BatchKernels
<1>2. c.y = 0
  BY <1>1 DEF TheGrid, Grid
<1>3. ASSUME NEW j \in 0 .. J.s - 1
      PROVE  j % J.s = j
  <2>1. 0 \in Nat /\ J.s \in Nat \ {0} /\ j \in 0 .. J.s - 1
    BY <1>1
  <2>2. (0 * J.s + j) % J.s = j
    BY <2>1, Quotient
  <2>3. 0 * J.s + j = j
    BY <2>1
  <2> QED
    BY <2>2, <2>3
<1>4. ASSUME NEW j \in 0 .. J.s - 1
      PROVE  BlockAt(J, j) = c.y /\ WarpAt(J, j) = j \div Lanes
  BY <1>1, <1>2, <1>3 DEF BlockAt, WarpAt
<1> QED
  BY <1>4 DEF ThreadsOf, MyRows

\* The rows of the vector kernel's warp w, several to a thread.
LEMMA VectorRows ==
  ASSUME NEW J \in DeltaJobs, KernelOf(J) = "delta_ilp", NEW c \in TheGrid(J), NEW w \in Nat
  PROVE  {t + r * ShapeOf(J)[1] : t \in ThreadsOf(w, ShapeOf(J)[1]), r \in 0 .. ShapeOf(J)[2] - 1}
           = MyRows(J, c, w)
<1> DEFINE T == ShapeOf(J)[1]
           R == ShapeOf(J)[2]
<1>1. /\ J.s \in Nat \ {0} /\ ThreadsIn(J) = T /\ KernelOf(J) \notin BatchKernels
      /\ T \in Nat \ {0} /\ R \in Nat \ {0} /\ T * R = J.s
  BY JobFacts DEF ThreadsIn, BatchKernels
<1>2. c.y = 0
  BY <1>1 DEF TheGrid, Grid
<1> HIDE DEF T, R
<1>3. ASSUME NEW t \in ThreadsOf(w, T), NEW r \in 0 .. R - 1
      PROVE  t + r * T \in MyRows(J, c, w)
  <2>1. t \in 0 .. T - 1 /\ t \div Lanes = w
    BY DEF ThreadsOf
  <2>2. (r * T + t) % T = t
    <3>1. r \in Nat /\ T \in Nat \ {0}
      BY <1>1
    <3> QED
      BY <2>1, <3>1, Quotient
  <2>3. r * T + t \in 0 .. J.s - 1
    <3>1. r * T \in Nat /\ r * T <= (R - 1) * T
      BY <1>1
    <3>2. (R - 1) * T = J.s - T
      BY <1>1
    <3> QED
      BY <3>1, <3>2, <1>1, <2>1
  <2>4. t + r * T = r * T + t
    BY <1>1, <2>1
  <2> QED
    BY <1>1, <1>2, <2>1, <2>2, <2>3, <2>4 DEF MyRows, BlockAt, WarpAt
<1>4. ASSUME NEW j \in MyRows(J, c, w)
      PROVE  \E t \in ThreadsOf(w, T), r \in 0 .. R - 1 : j = t + r * T
  <2>1. j \in 0 .. J.s - 1 /\ (j % T) \div Lanes = w
    BY <1>1 DEF MyRows, WarpAt
  <2>2. j \div T \in Nat /\ j % T \in 0 .. T - 1 /\ j = (j \div T) * T + (j % T)
    <3>1. j \in Nat /\ T \in Nat \ {0}
      BY <1>1, <2>1
    <3> QED
      BY <3>1, Division
  <2>3. j \div T <= R - 1
    <3>1. CASE j \div T >= R
      <4> DEFINE q == j \div T
      <4>1. q * T >= R * T
        <5>1. q - R \in Nat /\ q \in Nat /\ q = R + (q - R)
          BY <1>1, <2>2, <3>1
        <5> HIDE DEF q
        <5>2. (q - R) * T \in Nat
          BY <1>1, <5>1
        <5>3. q * T = R * T + (q - R) * T
          BY <1>1, <5>1
        <5>4. R * T \in Nat
          BY <1>1
        <5> QED
          BY <5>2, <5>3, <5>4
      <4>2. R * T = J.s
        BY <1>1
      <4> QED
        BY <4>1, <4>2, <1>1, <2>1, <2>2
    <3> QED
      BY <3>1, <1>1, <2>2
  <2>4. j % T \in ThreadsOf(w, T) /\ j \div T \in 0 .. R - 1
    BY <1>1, <2>1, <2>2, <2>3 DEF ThreadsOf
  <2>5. j = (j % T) + (j \div T) * T
    BY <1>1, <2>1, <2>2
  <2> QED
    BY <2>4, <2>5
<1>5. {t + r * T : t \in ThreadsOf(w, T), r \in 0 .. R - 1} = MyRows(J, c, w)
  BY <1>3, <1>4
<1> QED
  BY <1>5 DEF T, R

\* The rows of a warp of a block of rows.
LEMMA BlockRows ==
  ASSUME NEW J \in DeltaJobs, KernelOf(J) \in BatchKernels, NEW c \in TheGrid(J), NEW w \in Nat
  PROVE  {j \in {c.y * DeltaRows + t : t \in ThreadsOf(w, DeltaRows)} : j < J.s} = MyRows(J, c, w)
<1>1. /\ J.s \in Nat \ {0} /\ DeltaRows \in Nat \ {0} /\ ThreadsIn(J) = DeltaRows
      /\ Lanes \in Nat \ {0}
  BY JobFacts, DeltaAssumption, LanesAssumption DEF ThreadsIn, BatchKernels
<1>2. c.y \in Nat
  BY <1>1 DEF TheGrid, Grid
<1>3. ASSUME NEW t \in ThreadsOf(w, DeltaRows), c.y * DeltaRows + t < J.s
      PROVE  c.y * DeltaRows + t \in MyRows(J, c, w)
  <2>1. t \in 0 .. DeltaRows - 1 /\ t \div Lanes = w
    BY DEF ThreadsOf
  <2>2. /\ (c.y * DeltaRows + t) \div DeltaRows = c.y
        /\ (c.y * DeltaRows + t) % DeltaRows = t
    BY <1>1, <1>2, <2>1, Quotient
  <2>3. c.y * DeltaRows + t \in 0 .. J.s - 1
    BY <1>1, <1>2, <1>3, <2>1
  <2> QED
    BY <1>1, <2>1, <2>2, <2>3 DEF MyRows, BlockAt, WarpAt
<1>4. ASSUME NEW j \in MyRows(J, c, w)
      PROVE  j < J.s /\ \E t \in ThreadsOf(w, DeltaRows) : j = c.y * DeltaRows + t
  <2>1. j \in 0 .. J.s - 1 /\ (j % DeltaRows) \div Lanes = w /\ j \div DeltaRows = c.y
    BY <1>1 DEF MyRows, WarpAt, BlockAt
  <2>2. j % DeltaRows \in 0 .. DeltaRows - 1 /\ j = (j \div DeltaRows) * DeltaRows + (j % DeltaRows)
    <3>1. j \in Nat
      BY <1>1, <2>1
    <3> QED
      BY <1>1, <3>1, Division
  <2>3. j < J.s
    BY <1>1, <2>1
  <2>4. j % DeltaRows \in ThreadsOf(w, DeltaRows)
    BY <2>1, <2>2 DEF ThreadsOf
  <2>5. j = c.y * DeltaRows + (j % DeltaRows)
    BY <2>1, <2>2
  <2> QED
    BY <2>3, <2>4, <2>5
<1> QED
  BY <1>3, <1>4

\* The order in which the vector loop and its tail visit the elements is the
\* order of the scalar loop when the row is a multiple of four.
LEMMA VectorIsScalar ==
  ASSUME NEW J \in DeltaJobs, job = J, J.s % 4 = 0
  PROVE  Vector = Scalar /\ VectorTail = Scalar
<1>1. J.s \in Nat /\ 4 * (J.s \div 4) = J.s
  BY JobFacts
<1>2. Vector = Scalar
  BY <1>1 DEF Vector, Scalar
<1>3. [i \in 1 .. J.s % 4 |-> 4 * (J.s \div 4) + i - 1] = <<>>
  OBVIOUS
<1>4. Vector \in Seq(Int)
  BY <1>1 DEF Vector
<1>5. Vector \o <<>> = Vector
  BY <1>4
<1> QED
  BY <1>2, <1>3, <1>5 DEF VectorTail

-----------------------------------------------------------------------------
(* Stores                                                                  *)

\* The cells that row j of head h is in: its state and its outputs.
SCell(J, h, j) == <<"state", h * J.s + j>>
OCell(J, t, h, j) == <<"v", t * J.nvh * J.s + h * J.s + j>>
RowCells(J, h, j) == {SCell(J, h, j)} \cup {OCell(J, t, h, j) : t \in 0 .. J.tokens - 1}

\* The outputs of a row are as many cells as there are tokens, none is its
\* state, and no other row has one of its cells.
LEMMA CellsApart ==
  ASSUME NEW J \in DeltaJobs, NEW h \in 0 .. J.nvh - 1, NEW j \in 0 .. J.s - 1
  PROVE  /\ \A t \in Nat : SCell(J, h, j) # OCell(J, t, h, j)
         /\ \A t, u \in Nat : OCell(J, t, h, j) = OCell(J, u, h, j) => t = u
         /\ \A g \in 0 .. J.nvh - 1, i \in 0 .. J.s - 1 :
              RowCells(J, h, j) \cap RowCells(J, g, i) # {} => g = h /\ i = j
         /\ \A c \in RowCells(J, h, j) : c[1] \in {"state", "v"}
<1>1. J.nvh \in Nat /\ J.s \in Nat \ {0} /\ h \in Nat /\ j \in 0 .. J.s - 1
  BY JobFacts
<1>2. ASSUME NEW g \in 0 .. J.nvh - 1, NEW i \in 0 .. J.s - 1, NEW t \in Nat, NEW u \in Nat,
             OCell(J, t, h, j) = OCell(J, u, g, i)
      PROVE  t = u /\ h = g /\ j = i
  <2> DEFINE n == J.nvh
             s == J.s
  <2>1. n \in Nat /\ s \in Nat \ {0} /\ h \in 0 .. n - 1 /\ g \in 0 .. n - 1
        /\ j \in 0 .. s - 1 /\ i \in 0 .. s - 1
    BY <1>1
  <2>2. t * n * s + h * s + j = u * n * s + g * s + i
    BY <1>2 DEF OCell
  <2> HIDE DEF n, s
  <2>3. (t * n + h) * s + j = (u * n + g) * s + i
    BY <2>1, <2>2
  <2>4. t * n + h \in Nat /\ u * n + g \in Nat
    BY <2>1
  <2>5. t * n + h = u * n + g /\ j = i
    BY <2>1, <2>3, <2>4, OneAnswer
  <2>6. t = u /\ h = g
    BY <2>1, <2>5, OneAnswer
  <2> QED
    BY <2>5, <2>6
<1>3. ASSUME NEW g \in 0 .. J.nvh - 1, NEW i \in 0 .. J.s - 1, SCell(J, h, j) = SCell(J, g, i)
      PROVE  h = g /\ j = i
  <2> DEFINE s == J.s
  <2>1. h \in Nat /\ g \in Nat /\ s \in Nat /\ j \in 0 .. s - 1 /\ i \in 0 .. s - 1
    BY <1>1
  <2>2. h * s + j = g * s + i
    BY <1>3 DEF SCell
  <2> HIDE DEF s
  <2> QED
    BY <2>1, <2>2, OneAnswer
<1>4. \A g, i, t : SCell(J, g, i) # OCell(J, t, h, j) /\ SCell(J, h, j) # OCell(J, t, g, i)
  BY DEF SCell, OCell
<1>5. ASSUME NEW g \in 0 .. J.nvh - 1, NEW i \in 0 .. J.s - 1, NEW c,
             c \in RowCells(J, h, j), c \in RowCells(J, g, i)
      PROVE  g = h /\ i = j
  <2>1. CASE c = SCell(J, h, j)
    <3>1. c = SCell(J, g, i)
      BY <1>4, <1>5, <2>1 DEF RowCells
    <3> QED
      BY <1>3, <2>1, <3>1
  <2>2. CASE c # SCell(J, h, j)
    <3>1. PICK t \in 0 .. J.tokens - 1 : c = OCell(J, t, h, j)
      BY <1>5, <2>2 DEF RowCells
    <3>2. PICK u \in 0 .. J.tokens - 1 : c = OCell(J, u, g, i)
      BY <1>4, <1>5, <3>1 DEF RowCells
    <3>3. t \in Nat /\ u \in Nat
      OBVIOUS
    <3>4. OCell(J, t, h, j) = OCell(J, u, g, i)
      BY <3>1, <3>2
    <3> QED
      BY <1>2, <3>3, <3>4
  <2> QED
    BY <2>1, <2>2
<1>6. ASSUME NEW c \in RowCells(J, h, j)
      PROVE  c[1] \in {"state", "v"}
  BY DEF RowCells, SCell, OCell
<1>7. \A t, u \in Nat : OCell(J, t, h, j) = OCell(J, u, h, j) => t = u
  BY <1>2
<1> QED
  BY <1>4, <1>5, <1>6, <1>7

\* What is read where something was written.
LEMMA ReadWrite ==
  ASSUME NEW m, NEW cells, NEW c
  PROVE  /\ Read(Write(m, cells), c) = IF c \in DOMAIN cells THEN cells[c] ELSE Read(m, c)
         /\ DOMAIN Write(m, cells) = DOMAIN m \cup DOMAIN cells
BY DEF Read, Write

\* Of stores that share no cell each cell gets the one that has it.
Stores(R, F) == {F[j] : j \in R}
EachItsOwn(R, F, all) ==
  /\ \A c : (\A j \in R : c \notin DOMAIN F[j]) => c \notin DOMAIN all
  /\ \A j \in R : \A c \in DOMAIN F[j] :
       (\A i \in R : c \in DOMAIN F[i] => i = j) => c \in DOMAIN all /\ all[c] = F[j][c]

LEMMA TogetherIs ==
  ASSUME NEW R, NEW F
  PROVE  EachItsOwn(R, F, Together(Stores(R, F)))
<1> DEFINE S == {F[j] : j \in R}
           cells == UNION {DOMAIN f : f \in S}
           value(c) == (CHOOSE f \in S : c \in DOMAIN f)[c]
<1>1. Together(S) = [c \in cells |-> value(c)]
  BY DEF Together
<1>2. \A c : c \in cells <=> \E j \in R : c \in DOMAIN F[j]
  OBVIOUS
<1>3. ASSUME NEW j \in R, NEW c \in DOMAIN F[j], \A i \in R : c \in DOMAIN F[i] => i = j
      PROVE  value(c) = F[j][c]
  <2>1. F[j] \in S /\ \A f \in S : c \in DOMAIN f => f = F[j]
    BY <1>3
  <2> QED
    BY <2>1
<1> HIDE DEF cells, value, S
<1>4. /\ \A c : (\A j \in R : c \notin DOMAIN F[j]) => c \notin DOMAIN Together(S)
      /\ \A j \in R : \A c \in DOMAIN F[j] :
           (\A i \in R : c \in DOMAIN F[i] => i = j) =>
             c \in DOMAIN Together(S) /\ Together(S)[c] = F[j][c]
  BY <1>1, <1>2, <1>3
<1> QED
  BY <1>4 DEF S, Stores, EachItsOwn

\* Rows R of head h store together: each row gets what it stores, and no other
\* cell of a row changes.
LEMMA StoredApart ==
  ASSUME NEW J \in DeltaJobs, NEW m, NEW h \in 0 .. J.nvh - 1, NEW R \in SUBSET (0 .. J.s - 1), NEW F,
         \A j \in R : DOMAIN F[j] \subseteq RowCells(J, h, j)
  PROVE  LET after == Write(m, Together(Stores(R, F)))
         IN  /\ \A j \in R : \A c \in RowCells(J, h, j) :
                  Read(after, c) = IF c \in DOMAIN F[j] THEN F[j][c] ELSE Read(m, c)
             /\ \A g \in 0 .. J.nvh - 1, i \in 0 .. J.s - 1 : ~(g = h /\ i \in R) =>
                  \A c \in RowCells(J, g, i) : Read(after, c) = Read(m, c)
             /\ (\A c \in DOMAIN m : c[1] \in {"state", "v"}) =>
                  \A c \in DOMAIN after : c[1] \in {"state", "v"}
<1> DEFINE all == Together(Stores(R, F))
           after == Write(m, all)
<1>0. EachItsOwn(R, F, all)
  BY TogetherIs
<1> HIDE DEF all
<1>1. /\ \A c : (\A j \in R : c \notin DOMAIN F[j]) => c \notin DOMAIN all
      /\ \A j \in R : \A c \in DOMAIN F[j] :
           (\A i \in R : c \in DOMAIN F[i] => i = j) => c \in DOMAIN all /\ all[c] = F[j][c]
  BY <1>0 DEF EachItsOwn
<1>2. /\ \A c : Read(after, c) = IF c \in DOMAIN all THEN all[c] ELSE Read(m, c)
      /\ DOMAIN after = DOMAIN m \cup DOMAIN all
  BY ReadWrite
<1> HIDE DEF after
<1>3. ASSUME NEW j \in R, NEW c \in RowCells(J, h, j), NEW i \in R, c \in DOMAIN F[i]
      PROVE  i = j
  <2>1. j \in 0 .. J.s - 1 /\ i \in 0 .. J.s - 1 /\ c \in RowCells(J, h, i)
    BY <1>3
  <2> QED
    BY <1>3, <2>1, CellsApart
<1>4. ASSUME NEW j \in R, NEW c \in RowCells(J, h, j)
      PROVE  Read(after, c) = IF c \in DOMAIN F[j] THEN F[j][c] ELSE Read(m, c)
  BY <1>1, <1>2, <1>3
<1>5. ASSUME NEW g \in 0 .. J.nvh - 1, NEW i \in 0 .. J.s - 1, ~(g = h /\ i \in R),
             NEW c \in RowCells(J, g, i)
      PROVE  Read(after, c) = Read(m, c)
  <2>1. ASSUME NEW j \in R
        PROVE  c \notin DOMAIN F[j]
    <3>1. j \in 0 .. J.s - 1
      OBVIOUS
    <3>2. c \in RowCells(J, h, j) => g = h /\ i = j
      BY <3>1, CellsApart
    <3> QED
      BY <1>5, <3>2
  <2> QED
    BY <1>1, <1>2, <2>1
<1>6. ASSUME NEW c \in DOMAIN all
      PROVE  c[1] \in {"state", "v"}
  <2>1. PICK j \in R : c \in DOMAIN F[j]
    BY <1>1
  <2>2. j \in 0 .. J.s - 1 /\ c \in RowCells(J, h, j)
    BY <2>1
  <2> QED
    BY <2>2, CellsApart
<1>7. (\A c \in DOMAIN m : c[1] \in {"state", "v"}) => \A c \in DOMAIN after : c[1] \in {"state", "v"}
  BY <1>2, <1>6
<1> QED
  BY <1>4, <1>5, <1>7 DEF after, all

\* The same of the tile: each row gets its own.
TileCells(R, v) == {[c \in {TileRow(j)} |-> v[j]] : j \in R}

LEMMA TilesApart ==
  ASSUME NEW l, NEW R, NEW v
  PROVE  LET after == Write(l, Together(TileCells(R, v)))
         IN  /\ \A j \in R : Read(after, TileRow(j)) = v[j]
             /\ \A j : j \notin R => Read(after, TileRow(j)) = Read(l, TileRow(j))
<1> DEFINE F == [j \in R |-> [c \in {TileRow(j)} |-> v[j]]]
           all == Together(Stores(R, F))
<1>1. TileCells(R, v) = Stores(R, F)
  BY DEF Stores, TileCells
<1>2. \A j \in R : DOMAIN F[j] = {TileRow(j)} /\ F[j][TileRow(j)] = v[j]
  OBVIOUS
<1>3. \A i, j : TileRow(i) = TileRow(j) => i = j
  BY DEF TileRow
<1> HIDE DEF F
<1>4. EachItsOwn(R, F, all)
  BY TogetherIs
<1> HIDE DEF all
<1>5. \A j \in R : TileRow(j) \in DOMAIN all /\ all[TileRow(j)] = v[j]
  BY <1>2, <1>3, <1>4 DEF EachItsOwn
<1>6. \A j : j \notin R => TileRow(j) \notin DOMAIN all
  BY <1>2, <1>3, <1>4 DEF EachItsOwn
<1> QED
  BY <1>1, <1>5, <1>6, ReadWrite DEF all

-----------------------------------------------------------------------------
(* The recurrence                                                          *)

ScalarOf(J) == [i \in 1 .. J.s |-> i - 1]
KeyOf(J, t, h) == Raw(<<"qk", t * (2 * J.nkh * J.s) + (J.nkh + (h % J.nkh)) * J.s>>)
QueryOf(J, t, h) == Raw(<<"qk", t * (2 * J.nkh * J.s) + (h % J.nkh) * J.s>>)
GateOf(J, t, h) == Raw(<<"gate", t * J.nvh + h>>)
BetaOf(J, t, h) == Raw(<<"beta", t * J.nvh + h>>)

\* The first pass of token t over a row: the row, and the delta.
Decayed(J, row, t, h) == Times(row, GateOf(J, t, h))
DeltaOf(J, row, t, h, j) ==
  Delta(Raw(OCell(J, t, h, j)), DotRow(Decayed(J, row, t, h), KeyOf(J, t, h), ScalarOf(J)), BetaOf(J, t, h))

\* Both passes: the row after the token, and its output.
RowAfter(J, row, t, h, j) == Plus(Decayed(J, row, t, h), KeyOf(J, t, h), DeltaOf(J, row, t, h, j))
OutAfter(J, row, t, h, j) == DotRow(RowAfter(J, row, t, h, j), QueryOf(J, t, h), ScalarOf(J))

\* StateAfter of the launch J.
AfterBody(J, h, j, f) ==
  [t \in 0 .. J.tokens |->
    IF t = 0 THEN [row |-> Raw(SCell(J, h, j)), out |-> None]
    ELSE [row |-> RowAfter(J, f[t - 1].row, t - 1, h, j), out |-> OutAfter(J, f[t - 1].row, t - 1, h, j)]]
After(J, h, j) == CHOOSE f : f = AfterBody(J, h, j, f)

\* The recurrence starts from the state, and takes the tokens one by one.
LEMMA AfterIs ==
  ASSUME NEW J \in DeltaJobs, NEW h, NEW j
  PROVE  /\ After(J, h, j)[0].row = Raw(SCell(J, h, j))
         /\ \A t \in 0 .. J.tokens - 1 :
              /\ After(J, h, j)[t + 1].row = RowAfter(J, After(J, h, j)[t].row, t, h, j)
              /\ After(J, h, j)[t + 1].out = OutAfter(J, After(J, h, j)[t].row, t, h, j)
<1> DEFINE first == [row |-> Raw(SCell(J, h, j)), out |-> None]
           next(v, t) == [row |-> RowAfter(J, v.row, t, h, j), out |-> OutAfter(J, v.row, t, h, j)]
           body(f, n) == [t \in 0 .. n |-> IF t = 0 THEN first ELSE next(f[t - 1], t - 1)]
           S == {n \in Nat : \E f : f = body(f, n)}
<1>0. J.tokens \in Nat
  BY JobFacts
<1>1. \A f : AfterBody(J, h, j, f) = body(f, J.tokens)
  BY DEF AfterBody
<1> HIDE DEF first, next
<1>2. 0 \in S
  <2> DEFINE f == [t \in 0 .. 0 |-> first]
  <2>1. f = body(f, 0)
    OBVIOUS
  <2> QED
    BY <2>1
<1>3. ASSUME NEW n \in Nat, n \in S
      PROVE  n + 1 \in S
  <2>1. PICK f : f = body(f, n)
    BY <1>3
  <2> DEFINE g == [t \in 0 .. n + 1 |-> IF t = n + 1 THEN next(f[n], n) ELSE f[t]]
  <2>2. ASSUME NEW t \in 0 .. n + 1
        PROVE  g[t] = IF t = 0 THEN first ELSE next(g[t - 1], t - 1)
    <3>1. CASE t = 0
      <4>1. g[0] = f[0] /\ 0 \in 0 .. n
        OBVIOUS
      <4>2. f[0] = first
        BY <2>1, <4>1
      <4> QED
        BY <3>1, <4>1, <4>2
    <3>2. CASE t = n + 1
      <4>1. g[t] = next(f[n], n) /\ t - 1 = n /\ t # 0
        BY <3>2
      <4>2. g[n] = f[n]
        OBVIOUS
      <4> HIDE DEF g
      <4> QED
        BY <4>1, <4>2
    <3>3. CASE t # 0 /\ t # n + 1
      <4>1. t \in 0 .. n /\ t - 1 \in 0 .. n
        BY <3>3
      <4>2. g[t] = f[t] /\ g[t - 1] = f[t - 1]
        BY <4>1
      <4>3. f[t] = next(f[t - 1], t - 1)
        BY <2>1, <3>3, <4>1
      <4> HIDE DEF g
      <4> QED
        BY <3>3, <4>2, <4>3
    <3> QED
      BY <3>1, <3>2, <3>3
  <2>3. g = [t \in 0 .. n + 1 |-> g[t]]
    OBVIOUS
  <2> HIDE DEF g
  <2>4. g = body(g, n + 1)
    BY <2>2, <2>3
  <2> QED
    BY <2>4
<1>4. J.tokens \in S
  <2> HIDE DEF S
  <2>1. Nat \subseteq S
    BY <1>2, <1>3, Induction
  <2> QED
    BY <1>0, <2>1
<1> DEFINE after == After(J, h, j)
<1>5. after = body(after, J.tokens)
  <2>1. \E f : f = AfterBody(J, h, j, f)
    <3>1. PICK f : f = body(f, J.tokens)
      BY <1>4
    <3> HIDE DEF body
    <3>2. f = AfterBody(J, h, j, f)
      BY <1>1, <3>1
    <3> QED
      BY <3>2
  <2>2. after = AfterBody(J, h, j, after)
    BY <2>1 DEF After
  <2> HIDE DEF after
  <2> QED
    BY <1>1, <2>2
<1> HIDE DEF after
<1>6. after[0] = first
  BY <1>0, <1>5
<1>7. ASSUME NEW t \in 0 .. J.tokens - 1
      PROVE  after[t + 1] = next(after[t], t)
  <2>1. t + 1 \in 0 .. J.tokens /\ t + 1 # 0 /\ (t + 1) - 1 = t
    BY <1>0
  <2> QED
    BY <1>5, <2>1
<1>8. after[0].row = Raw(SCell(J, h, j))
  BY <1>6 DEF first
<1>9. ASSUME NEW t \in 0 .. J.tokens - 1
      PROVE  /\ after[t + 1].row = RowAfter(J, after[t].row, t, h, j)
             /\ after[t + 1].out = OutAfter(J, after[t].row, t, h, j)
  <2>1. after[t + 1] = next(after[t], t)
    BY <1>7
  <2> QED
    BY <2>1 DEF next
<1> QED
  BY <1>8, <1>9 DEF after

\* It is the reference of RecurrenceExact.
LEMMA AfterIsReference ==
  ASSUME NEW h, NEW j
  PROVE  StateAfter(h, j) = After(job, h, j)
BY DEF StateAfter, Ruled, After, AfterBody, RowAfter, OutAfter, Decayed, DeltaOf, KeyOf, QueryOf, GateOf, BetaOf,
       ScalarOf, Scalar, SCell, OCell, StateRow, VOut, KeyRows

\* In a memory that only has rows, the inputs of token t are what they were.
LEMMA InputsAre ==
  ASSUME NEW J \in DeltaJobs, job = J, \A c \in DOMAIN mem : c[1] \in {"state", "v"},
         NEW t \in Nat, NEW h \in Nat
  PROVE  /\ Gate(t, h) = GateOf(J, t, h) /\ Beta(t, h) = BetaOf(J, t, h)
         /\ KIn(t, h) = KeyOf(J, t, h) /\ QIn(t, h) = QueryOf(J, t, h)
         /\ Scalar = ScalarOf(J)
<1>1. \A b \in {"gate", "beta", "qk"} : \A i : In(b, i) = Raw(<<b, i>>)
  <2> SUFFICES ASSUME NEW b \in {"gate", "beta", "qk"}, NEW i
               PROVE  <<b, i>> \notin DOMAIN mem
    BY DEF In, Read
  <2>1. <<b, i>>[1] \notin {"state", "v"}
    OBVIOUS
  <2> QED
    BY <2>1
<1>2. J.nkh \in Nat \ {0} /\ J.s \in Nat
  BY JobFacts
<1>3. h % J.nkh \in Nat
  BY <1>2
<1>4. /\ t * 2 * J.nkh * J.s + J.nkh * J.s + (h % J.nkh) * J.s
           = t * (2 * J.nkh * J.s) + (J.nkh + (h % J.nkh)) * J.s
      /\ t * 2 * J.nkh * J.s + (h % J.nkh) * J.s = t * (2 * J.nkh * J.s) + (h % J.nkh) * J.s
  <2> DEFINE n == J.nkh
             s == J.s
             k == h % J.nkh
  <2>1. n \in Nat /\ s \in Nat /\ k \in Nat
    BY <1>2, <1>3
  <2> HIDE DEF n, s, k
  <2>2. /\ t * 2 * n * s + n * s + k * s = t * (2 * n * s) + (n + k) * s
        /\ t * 2 * n * s + k * s = t * (2 * n * s) + k * s
    BY <2>1
  <2> QED
    BY <2>2 DEF n, s, k
<1>5. KIn(t, h) = KeyOf(J, t, h) /\ QIn(t, h) = QueryOf(J, t, h)
  BY <1>1, <1>4 DEF KIn, QIn, KeyOf, QueryOf, KeyHead
<1>6. Gate(t, h) = GateOf(J, t, h) /\ Beta(t, h) = BetaOf(J, t, h)
  BY <1>1 DEF Gate, Beta, GateOf, BetaOf
<1> QED
  BY <1>5, <1>6 DEF Scalar, ScalarOf

\* Stepped is one token of the recurrence.
LEMMA SteppedIs ==
  ASSUME NEW J \in DeltaJobs, job = J, \A c \in DOMAIN mem : c[1] \in {"state", "v"},
         NEW t \in Nat, NEW h \in Nat, NEW j, NEW row, NEW order, order = Scalar,
         Read(mem, OCell(J, t, h, j)) = Raw(OCell(J, t, h, j))
  PROVE  /\ Stepped(row, t, h, j, order).row = RowAfter(J, row, t, h, j)
         /\ Stepped(row, t, h, j, order).out = OutAfter(J, row, t, h, j)
<1>1. /\ Gate(t, h) = GateOf(J, t, h) /\ Beta(t, h) = BetaOf(J, t, h)
      /\ KIn(t, h) = KeyOf(J, t, h) /\ QIn(t, h) = QueryOf(J, t, h)
      /\ order = ScalarOf(J)
  BY InputsAre
<1>2. VIn(t, h, j) = Raw(OCell(J, t, h, j))
  BY DEF VIn, VOut, OCell
<1> QED
  BY <1>1, <1>2 DEF Stepped, RowAfter, OutAfter, DeltaOf, Decayed

-----------------------------------------------------------------------------
(* The invariant: a row has the state and the outputs of as many tokens as *)
(* its warp has stored.                                                    *)

\* The phases of a warp, and how many tokens the state of a row (its outputs)
\* in memory has when its warp is in phase p.
Phases(J) ==
  {End} \cup
  (IF KernelOf(J) = "twopass" THEN 0 .. J.tokens + 1
   ELSE IF KernelOf(J) = "fused" THEN 0 .. J.tokens + 2
   ELSE 0 .. J.tokens - 1)
Stored(J, p) ==
  IF p = End THEN J.tokens
  ELSE IF KernelOf(J) \in {"twopass", "fused"} THEN 0 ELSE p
Taken(J, p) ==
  IF p = End THEN J.tokens
  ELSE IF KernelOf(J) = "twopass" THEN IF p = 0 THEN 0 ELSE p - 1
  ELSE IF KernelOf(J) = "fused" THEN IF p <= 1 THEN 0 ELSE p - 2
  ELSE p

\* The memory m has the state after n tokens of row j, and k outputs.
RowHas(J, h, j, m, n, k) ==
  /\ Read(m, SCell(J, h, j)) = After(J, h, j)[n].row
  /\ \A t \in 0 .. J.tokens - 1 :
       Read(m, OCell(J, t, h, j)) =
         IF t < k THEN After(J, h, j)[t + 1].out ELSE Raw(OCell(J, t, h, j))

\* What the tile l, and the registers r of its warp, have of row j in phase p.
TileHas(J, h, j, l, r, p) ==
  /\ KernelOf(J) = "twopass" /\ p \in 1 .. J.tokens + 1 =>
       Read(l, TileRow(j)) = After(J, h, j)[p - 1].row
  /\ KernelOf(J) = "fused" /\ p = 1 => Read(l, TileRow(j)) = After(J, h, j)[0].row
  /\ KernelOf(J) = "fused" /\ p \in 2 .. J.tokens + 1 =>
       /\ Read(l, TileRow(j)) = Decayed(J, After(J, h, j)[p - 2].row, p - 2, h)
       /\ r[j] = DeltaOf(J, After(J, h, j)[p - 2].row, p - 2, h, j)
  /\ KernelOf(J) = "fused" /\ p = J.tokens + 2 => Read(l, TileRow(j)) = After(J, h, j)[J.tokens].row

\* The CTAs that wait, and the phase of a row.
Waiting(s) == IF s = <<>> THEN {} ELSE s[1]
Place(J, s, c, a, h, j) ==
  IF OwnerOf(J, h, j) \in Waiting(s) THEN 0
  ELSE IF c = OwnerOf(J, h, j) THEN a[WarpAt(J, j)] ELSE End

\* The CTAs of the launch J run one by one.
Running(J, s, c, a, r) ==
  /\ s = <<>> \/ \E G \in SUBSET TheGrid(J) : s = <<G>>
  /\ c = Idle \/ /\ c \in TheGrid(J) \ Waiting(s)
                 /\ a \in [0 .. WarpsIn(J) - 1 -> Phases(J)]
                 /\ DOMAIN r = 0 .. WarpsIn(J) - 1

RowFine(J, s, c, a, r, l, m, h, j) ==
  /\ RowHas(J, h, j, m, Stored(J, Place(J, s, c, a, h, j)), Taken(J, Place(J, s, c, a, h, j)))
  /\ c = OwnerOf(J, h, j) => TileHas(J, h, j, l, r[WarpAt(J, j)], a[WarpAt(J, j)])
AllRows(J, s, c, a, r, l, m) ==
  \A h \in 0 .. J.nvh - 1, j \in 0 .. J.s - 1 : RowFine(J, s, c, a, r, l, m, h, j)
OnlyRows(m) == \A c \in DOMAIN m : c[1] \in {"state", "v"}

DeltaInv ==
  /\ job \in DeltaJobs
  /\ Running(job, stream, cta, at, regs)
  /\ OnlyRows(mem)
  /\ AllRows(job, stream, cta, at, regs, lds, mem)

KernelsInv ==
  /\ job = None => stream = <<>> /\ cta = Idle /\ mem = <<>>
  /\ "shape" \in DOMAIN job => DeltaInv

-----------------------------------------------------------------------------
(* A step of a warp                                                        *)

\* Rows R of head h that had n tokens in their state and k outputs store what
\* takes them to n2 and k2; and then have these, and the other rows what they had.
TakeTo(J, h, R, m, F, n, n2, k, k2) ==
  \A j \in R :
    /\ RowHas(J, h, j, m, n, k)
    /\ DOMAIN F[j] \subseteq RowCells(J, h, j) \cap {SCell(J, h, j), OCell(J, k, h, j)}
    /\ IF SCell(J, h, j) \in DOMAIN F[j]
       THEN F[j][SCell(J, h, j)] = After(J, h, j)[n2].row ELSE n2 = n
    /\ IF OCell(J, k, h, j) \in DOMAIN F[j]
       THEN k2 = k + 1 /\ F[j][OCell(J, k, h, j)] = After(J, h, j)[k + 1].out ELSE k2 = k
Took(J, h, R, m, mm, n, k) ==
  /\ \A j \in R : RowHas(J, h, j, mm, n, k)
  /\ \A g \in 0 .. J.nvh - 1, i \in 0 .. J.s - 1 : ~(g = h /\ i \in R) =>
       \A c \in RowCells(J, g, i) : Read(mm, c) = Read(m, c)
  /\ OnlyRows(mm)

\* A row whose cells are as they were has what it had.
LEMMA RowKept ==
  ASSUME NEW J, NEW h, NEW j, NEW m, NEW mm, NEW n, NEW k, RowHas(J, h, j, m, n, k),
         \A c \in RowCells(J, h, j) : Read(mm, c) = Read(m, c)
  PROVE  RowHas(J, h, j, mm, n, k)
BY DEF RowHas, RowCells

\* A warp that has seen to its rows, and left the others alone, goes on.
LEMMA WarpGoesOn ==
  ASSUME NEW J \in DeltaJobs, NEW s, NEW c \in TheGrid(J), NEW a, NEW r, NEW l, NEW m,
         Running(J, s, c, a, r), AllRows(J, s, c, a, r, l, m),
         NEW w \in 0 .. WarpsIn(J) - 1, NEW q \in Phases(J), NEW rr, NEW ll, NEW mm,
         DOMAIN rr = DOMAIN r, \A v \in DOMAIN r : v # w => rr[v] = r[v],
         \A j \in 0 .. J.s - 1 : j \notin MyRows(J, c, w) => Read(ll, TileRow(j)) = Read(l, TileRow(j)),
         \A g \in 0 .. J.nvh - 1, i \in 0 .. J.s - 1 : ~(g = c.x /\ i \in MyRows(J, c, w)) =>
           \A x \in RowCells(J, g, i) : Read(mm, x) = Read(m, x),
         \A j \in MyRows(J, c, w) : /\ RowHas(J, c.x, j, mm, Stored(J, q), Taken(J, q))
                                  /\ TileHas(J, c.x, j, ll, rr[w], q)
  PROVE  /\ Running(J, s, c, [a EXCEPT ![w] = q], rr)
         /\ AllRows(J, s, c, [a EXCEPT ![w] = q], rr, ll, mm)
<1> DEFINE b == [a EXCEPT ![w] = q]
<1>1. c # Idle /\ c \notin Waiting(s) /\ a \in [0 .. WarpsIn(J) - 1 -> Phases(J)]
      /\ DOMAIN r = 0 .. WarpsIn(J) - 1
  BY GridFacts DEF Running
<1>2. b \in [0 .. WarpsIn(J) - 1 -> Phases(J)] /\ b[w] = q
      /\ \A v \in 0 .. WarpsIn(J) - 1 : v # w => b[v] = a[v]
  BY <1>1
<1> HIDE DEF b
<1>3. Running(J, s, c, b, rr)
  BY <1>1, <1>2 DEF Running
<1>4. ASSUME NEW h \in 0 .. J.nvh - 1, NEW j \in 0 .. J.s - 1
      PROVE  RowFine(J, s, c, b, rr, ll, mm, h, j)
  <2>1. /\ WarpAt(J, j) \in 0 .. WarpsIn(J) - 1
        /\ OwnerOf(J, h, j) = c <=> c.x = h /\ j \in MyRows(J, c, WarpAt(J, j))
    BY GridFacts
  <2>2. /\ RowHas(J, h, j, m, Stored(J, Place(J, s, c, a, h, j)), Taken(J, Place(J, s, c, a, h, j)))
        /\ c = OwnerOf(J, h, j) => TileHas(J, h, j, l, r[WarpAt(J, j)], a[WarpAt(J, j)])
    BY DEF AllRows, RowFine
  <2>3. j \in MyRows(J, c, w) => WarpAt(J, j) = w
    BY DEF MyRows
  <2>4. CASE c = OwnerOf(J, h, j) /\ WarpAt(J, j) = w
    <3>1. c.x = h /\ j \in MyRows(J, c, w)
      BY <2>1, <2>4
    <3>2. Place(J, s, c, b, h, j) = q
      BY <1>1, <1>2, <2>4 DEF Place
    <3> QED
      BY <1>2, <2>4, <3>1, <3>2 DEF RowFine
  <2>5. CASE ~(c = OwnerOf(J, h, j) /\ WarpAt(J, j) = w)
    <3>1. ~(h = c.x /\ j \in MyRows(J, c, w))
      BY <2>1, <2>3, <2>5
    <3>2. Place(J, s, c, b, h, j) = Place(J, s, c, a, h, j)
      BY <1>2, <2>1, <2>5 DEF Place
    <3>3. RowHas(J, h, j, mm, Stored(J, Place(J, s, c, b, h, j)), Taken(J, Place(J, s, c, b, h, j)))
      BY <2>2, <3>1, <3>2, RowKept
    <3>4. ASSUME c = OwnerOf(J, h, j)
          PROVE  TileHas(J, h, j, ll, rr[WarpAt(J, j)], b[WarpAt(J, j)])
      <4>1. WarpAt(J, j) # w /\ j \notin MyRows(J, c, w)
        BY <2>3, <2>5, <3>4
      <4>2. /\ rr[WarpAt(J, j)] = r[WarpAt(J, j)] /\ b[WarpAt(J, j)] = a[WarpAt(J, j)]
            /\ Read(ll, TileRow(j)) = Read(l, TileRow(j))
        BY <1>1, <1>2, <2>1, <4>1
      <4> QED
        BY <2>2, <3>4, <4>2 DEF TileHas
    <3> QED
      BY <3>3, <3>4 DEF RowFine
  <2> QED
    BY <2>4, <2>5
<1> QED
  BY <1>3, <1>4 DEF AllRows, b

\* What a warp that is about to run a phase of the rule finds.
Ready(w, p, K) ==
  /\ job \in DeltaJobs /\ cta \in TheGrid(job) /\ KernelOf(job) \in K
  /\ w \in 0 .. WarpsIn(job) - 1 /\ at[w] = p /\ p \in Phases(job) \ {End}
  /\ DOMAIN at = 0 .. WarpsIn(job) - 1 /\ DOMAIN regs = 0 .. WarpsIn(job) - 1
  /\ cta.x \in 0 .. job.nvh - 1 /\ MyRows(job, cta, w) \in SUBSET (0 .. job.s - 1)
  /\ \A j \in MyRows(job, cta, w) :
       /\ RowHas(job, cta.x, j, mem, Stored(job, p), Taken(job, p))
       /\ TileHas(job, cta.x, j, lds, regs[w], p)

LEMMA PhaseReady ==
  ASSUME DeltaInv, NEW K, "idle" \notin K, NEW w, NEW p, Phase(K, w, p)
  PROVE  Ready(w, p, K)
<1>1. job \in DeltaJobs /\ Running(job, stream, cta, at, regs)
      /\ AllRows(job, stream, cta, at, regs, lds, mem)
  BY DEF DeltaInv
<1>2. cta.kernel \in K /\ w \in DOMAIN at /\ at[w] = p /\ p # End
  BY DEF Phase
<1>3. cta # Idle
  BY <1>2 DEF Idle
<1>4. /\ cta \in TheGrid(job) /\ cta \notin Waiting(stream)
      /\ at \in [0 .. WarpsIn(job) - 1 -> Phases(job)]
      /\ DOMAIN regs = 0 .. WarpsIn(job) - 1
  BY <1>1, <1>3 DEF Running
<1>5. KernelOf(job) \in K /\ cta.x \in 0 .. job.nvh - 1
  BY <1>1, <1>2, <1>4, GridFacts
<1>6. w \in 0 .. WarpsIn(job) - 1 /\ p \in Phases(job) \ {End} /\ DOMAIN at = 0 .. WarpsIn(job) - 1
  BY <1>2, <1>4
<1>7. MyRows(job, cta, w) \in SUBSET (0 .. job.s - 1)
  BY DEF MyRows
<1>8. ASSUME NEW j \in MyRows(job, cta, w)
      PROVE  /\ RowHas(job, cta.x, j, mem, Stored(job, p), Taken(job, p))
             /\ TileHas(job, cta.x, j, lds, regs[w], p)
  <2>1. j \in 0 .. job.s - 1 /\ WarpAt(job, j) = w
    BY DEF MyRows
  <2>2. OwnerOf(job, cta.x, j) = cta
    BY <1>1, <1>4, <1>5, <2>1, GridFacts
  <2>3. RowFine(job, stream, cta, at, regs, lds, mem, cta.x, j)
    BY <1>1, <1>5, <2>1 DEF AllRows
  <2>4. Place(job, stream, cta, at, cta.x, j) = p
    BY <1>2, <1>4, <2>1, <2>2 DEF Place
  <2> QED
    BY <1>2, <2>1, <2>2, <2>3, <2>4 DEF RowFine
<1> QED
  BY <1>1, <1>2, <1>4, <1>5, <1>6, <1>7, <1>8 DEF Ready

\* WarpGoesOn, of the program's own state.
LEMMA WarpStep ==
  ASSUME DeltaInv, NEW w, NEW p, NEW K, Ready(w, p, K), NEW q \in Phases(job), Goto(w, q), Still,
         DOMAIN regs' = DOMAIN regs, \A v \in DOMAIN regs : v # w => regs'[v] = regs[v],
         \A j \in 0 .. job.s - 1 : j \notin MyRows(job, cta, w) =>
           Read(lds', TileRow(j)) = Read(lds, TileRow(j)),
         Took(job, cta.x, MyRows(job, cta, w), mem, mem', Stored(job, q), Taken(job, q)),
         \A j \in MyRows(job, cta, w) : TileHas(job, cta.x, j, lds', regs'[w], q)
  PROVE  DeltaInv'
<1>1. /\ job \in DeltaJobs /\ Running(job, stream, cta, at, regs)
      /\ AllRows(job, stream, cta, at, regs, lds, mem)
  BY DEF DeltaInv
<1>2. cta \in TheGrid(job) /\ w \in 0 .. WarpsIn(job) - 1
  BY DEF Ready
<1>3. /\ job' = job /\ stream' = stream /\ cta' = cta /\ at' = [at EXCEPT ![w] = q]
  BY DEF Goto, Still
<1>4. /\ Running(job, stream, cta, [at EXCEPT ![w] = q], regs')
      /\ AllRows(job, stream, cta, [at EXCEPT ![w] = q], regs', lds', mem')
  BY <1>1, <1>2, WarpGoesOn DEF Took
<1>5. /\ job' \in DeltaJobs /\ Running(job', stream', cta', at', regs') /\ OnlyRows(mem')
      /\ AllRows(job', stream', cta', at', regs', lds', mem')
  BY <1>1, <1>3, <1>4 DEF Took
<1> QED
  BY <1>5 DEF DeltaInv

\* What rows store is what they take.
LEMMA RowsStored ==
  ASSUME NEW J \in DeltaJobs, NEW m, NEW h \in 0 .. J.nvh - 1, NEW R \in SUBSET (0 .. J.s - 1), NEW F,
         NEW n, NEW n2, NEW k \in Nat, NEW k2,
         TakeTo(J, h, R, m, F, n, n2, k, k2), OnlyRows(m)
  PROVE  Took(J, h, R, m, Write(m, Together(Stores(R, F))), n2, k2)
<1> DEFINE after == Write(m, Together(Stores(R, F)))
<1>1. \A j \in R : DOMAIN F[j] \subseteq RowCells(J, h, j)
  BY DEF TakeTo
<1>2. /\ \A j \in R : \A c \in RowCells(J, h, j) :
           Read(after, c) = IF c \in DOMAIN F[j] THEN F[j][c] ELSE Read(m, c)
      /\ \A g \in 0 .. J.nvh - 1, i \in 0 .. J.s - 1 : ~(g = h /\ i \in R) =>
           \A c \in RowCells(J, g, i) : Read(after, c) = Read(m, c)
      /\ (\A c \in DOMAIN m : c[1] \in {"state", "v"}) => \A c \in DOMAIN after : c[1] \in {"state", "v"}
  BY <1>1, StoredApart
<1> HIDE DEF after
<1>3. ASSUME NEW j \in R
      PROVE  RowHas(J, h, j, after, n2, k2)
  <2>1. j \in 0 .. J.s - 1
    OBVIOUS
  <2>2. /\ \A t \in Nat : SCell(J, h, j) # OCell(J, t, h, j)
        /\ \A t, u \in Nat : OCell(J, t, h, j) = OCell(J, u, h, j) => t = u
    BY <2>1, CellsApart
  <2>0. /\ RowHas(J, h, j, m, n, k)
        /\ DOMAIN F[j] \subseteq RowCells(J, h, j) \cap {SCell(J, h, j), OCell(J, k, h, j)}
        /\ IF SCell(J, h, j) \in DOMAIN F[j]
           THEN F[j][SCell(J, h, j)] = After(J, h, j)[n2].row ELSE n2 = n
        /\ IF OCell(J, k, h, j) \in DOMAIN F[j]
           THEN k2 = k + 1 /\ F[j][OCell(J, k, h, j)] = After(J, h, j)[k + 1].out ELSE k2 = k
    BY DEF TakeTo
  <2>3. /\ Read(m, SCell(J, h, j)) = After(J, h, j)[n].row
        /\ \A t \in 0 .. J.tokens - 1 :
             Read(m, OCell(J, t, h, j)) =
               IF t < k THEN After(J, h, j)[t + 1].out ELSE Raw(OCell(J, t, h, j))
    BY <2>0 DEF RowHas
  <2>4. Read(after, SCell(J, h, j)) = After(J, h, j)[n2].row
    <3>1. SCell(J, h, j) \in RowCells(J, h, j)
      BY DEF RowCells
    <3> QED
      BY <1>2, <2>0, <2>3, <3>1
  <2>5. ASSUME NEW t \in 0 .. J.tokens - 1
        PROVE  Read(after, OCell(J, t, h, j)) =
                 IF t < k2 THEN After(J, h, j)[t + 1].out ELSE Raw(OCell(J, t, h, j))
    <3>1. OCell(J, t, h, j) \in RowCells(J, h, j) /\ t \in Nat
      BY JobFacts DEF RowCells
    <3>2. Read(after, OCell(J, t, h, j)) =
            IF OCell(J, t, h, j) \in DOMAIN F[j] THEN F[j][OCell(J, t, h, j)]
            ELSE Read(m, OCell(J, t, h, j))
      BY <1>2, <3>1
    <3>3. CASE OCell(J, t, h, j) \in DOMAIN F[j]
      <4>1. t = k
        BY <2>0, <2>2, <3>1, <3>3
      <4> QED
        BY <2>0, <3>2, <3>3, <4>1
    <3>4. CASE OCell(J, t, h, j) \notin DOMAIN F[j]
      <4>1. t = k => k2 = k
        BY <2>0, <3>4
      <4>2. k2 = k \/ k2 = k + 1
        BY <2>0
      <4>3. t < k2 <=> t < k
        BY <3>1, <4>1, <4>2
      <4> QED
        BY <2>3, <3>2, <3>4, <4>3
    <3> QED
      BY <3>3, <3>4
  <2> QED
    BY <2>4, <2>5 DEF RowHas
<1> QED
  BY <1>2, <1>3 DEF after, OnlyRows, Took

\* The kernels that store the state and the output of token t together.
StoredOf(R, t, h, order) == {RowStores(t, h, j, order) : j \in R}

LEMMA TokenStored ==
  ASSUME NEW J \in DeltaJobs, job = J, NEW h \in 0 .. J.nvh - 1, NEW R \in SUBSET (0 .. J.s - 1),
         NEW t \in 0 .. J.tokens - 1, NEW order, order = Scalar, OnlyRows(mem),
         \A j \in R : RowHas(J, h, j, mem, t, t)
  PROVE  Took(J, h, R, mem, Write(mem, Together(StoredOf(R, t, h, order))), t + 1, t + 1)
<1> DEFINE F == [j \in R |-> RowStores(t, h, j, order)]
<1>1. StoredOf(R, t, h, order) = Stores(R, F)
  BY DEF StoredOf, Stores
<1>2. t \in Nat /\ h \in Nat /\ J.tokens \in Nat
  BY JobFacts
<1>3. ASSUME NEW j \in R
      PROVE  /\ DOMAIN F[j] = {SCell(J, h, j), OCell(J, t, h, j)}
             /\ F[j][SCell(J, h, j)] = After(J, h, j)[t + 1].row
             /\ F[j][OCell(J, t, h, j)] = After(J, h, j)[t + 1].out
  <2>1. StateRow(h, j) = SCell(J, h, j) /\ VOut(t, h, j) = OCell(J, t, h, j)
    BY DEF StateRow, VOut, SCell, OCell
  <2>2. SCell(J, h, j) # OCell(J, t, h, j)
    BY DEF SCell, OCell
  <2>3. /\ Read(mem, SCell(J, h, j)) = After(J, h, j)[t].row
        /\ Read(mem, OCell(J, t, h, j)) = Raw(OCell(J, t, h, j))
    BY <1>2 DEF RowHas
  <2> DEFINE row == After(J, h, j)[t].row
             r == Stepped(row, t, h, j, order)
  <2>4. F[j] = Write([c \in {SCell(J, h, j)} |-> r.row], [c \in {OCell(J, t, h, j)} |-> r.out])
    BY <2>1, <2>3 DEF RowStores
  <2>5. /\ r.row = RowAfter(J, row, t, h, j) /\ r.out = OutAfter(J, row, t, h, j)
    BY <1>2, <2>3, SteppedIs DEF OnlyRows
  <2>6. /\ After(J, h, j)[t + 1].row = RowAfter(J, row, t, h, j)
        /\ After(J, h, j)[t + 1].out = OutAfter(J, row, t, h, j)
    BY AfterIs
  <2> HIDE DEF F, r, row
  <2> QED
    BY <2>2, <2>4, <2>5, <2>6 DEF Write
<1>4. \A j \in R : {SCell(J, h, j), OCell(J, t, h, j)} \subseteq RowCells(J, h, j)
  BY DEF RowCells
<1> HIDE DEF F
<1>5. TakeTo(J, h, R, mem, F, t, t + 1, t, t + 1)
  BY <1>3, <1>4 DEF TakeTo
<1>6. Took(J, h, R, mem, Write(mem, Together(Stores(R, F))), t + 1, t + 1)
  BY <1>2, <1>5, RowsStored
<1> QED
  BY <1>1, <1>6

-----------------------------------------------------------------------------
(* The actions                                                             *)

\* A warp that stores token t, state and output, and goes to the next.
LEMMA TokenStep ==
  ASSUME DeltaInv, NEW w, NEW t, NEW K, Ready(w, t, K), K \cap {"twopass", "fused"} = {},
         NEW order, order = Scalar,
         Put(Together(StoredOf(MyRows(job, cta, w), t, cta.x, order))),
         Goto(w, IF t + 1 < job.tokens THEN t + 1 ELSE End), Still
  PROVE  DeltaInv'
<1> DEFINE R == MyRows(job, cta, w)
           q == IF t + 1 < job.tokens THEN t + 1 ELSE End
<1>1. /\ job \in DeltaJobs /\ KernelOf(job) \notin {"twopass", "fused"}
      /\ t \in Phases(job) \ {End} /\ cta.x \in 0 .. job.nvh - 1 /\ R \in SUBSET (0 .. job.s - 1)
      /\ \A j \in R : RowHas(job, cta.x, j, mem, Stored(job, t), Taken(job, t))
      /\ OnlyRows(mem)
  BY DEF Ready, DeltaInv
<1>2. job.tokens \in Nat /\ job.tokens >= 1
  BY <1>1, JobFacts
<1>3. t \in 0 .. job.tokens - 1 /\ Stored(job, t) = t /\ Taken(job, t) = t
  BY <1>1 DEF Phases, Stored, Taken
<1>4. q \in Phases(job) /\ Stored(job, q) = t + 1 /\ Taken(job, q) = t + 1
  BY <1>1, <1>2, <1>3 DEF Phases, Stored, Taken, End
<1>5. /\ mem' = Write(mem, Together(StoredOf(R, t, cta.x, order))) /\ regs' = regs /\ lds' = lds
  BY DEF Put
<1> HIDE DEF R
<1>6. Took(job, cta.x, R, mem, mem', t + 1, t + 1)
  BY <1>1, <1>3, <1>5, TokenStored
<1>7. \A j \in R : TileHas(job, cta.x, j, lds', regs'[w], q)
  BY <1>1 DEF TileHas
<1> HIDE DEF q
<1>8. Goto(w, q)
  BY DEF q
<1> QED
  BY <1>4, <1>5, <1>6, <1>7, <1>8, WarpStep DEF R

\* The scalar kernel.
LEMMA DeltaRowStep ==
  ASSUME DeltaInv, NEW w, DeltaRow(w)
  PROVE  DeltaInv'
<1>1. Ready(w, 0, {"delta"})
  BY PhaseReady DEF DeltaRow
<1>2. /\ job \in DeltaJobs /\ KernelOf(job) = "delta" /\ cta \in TheGrid(job) /\ w \in Nat
  BY <1>1 DEF Ready
<1>3. ThreadsOf(w, job.s) = MyRows(job, cta, w) /\ job.tokens = 1
  BY <1>2, ScalarRows, JobFacts
<1>4. /\ Put(Together(StoredOf(MyRows(job, cta, w), 0, cta.x, Scalar)))
      /\ Goto(w, IF 0 + 1 < job.tokens THEN 0 + 1 ELSE End) /\ Still
  BY <1>3 DEF DeltaRow, StoredOf
<1> QED
  BY <1>1, <1>4, TokenStep

\* The vector kernel, whose rows are a multiple of four.
LEMMA DeltaRowsIlpStep ==
  ASSUME DeltaInv, NEW w, DeltaRowsIlp(w)
  PROVE  DeltaInv'
<1>1. Ready(w, 0, {"delta_ilp"})
  BY PhaseReady DEF DeltaRowsIlp
<1>2. /\ job \in DeltaJobs /\ KernelOf(job) = "delta_ilp" /\ cta \in TheGrid(job) /\ w \in Nat
  BY <1>1 DEF Ready
<1>3. job.tokens = 1 /\ job.s = WideSize /\ WideSize % 4 = 0
  BY <1>2, JobFacts, DeltaAssumption
<1>4. DeltaShape = ShapeOf(job)
  BY DEF DeltaShape, ShapeOf
<1> DEFINE rows == {t + r * DeltaShape[1] : t \in ThreadsOf(w, DeltaShape[1]), r \in 0 .. DeltaShape[2] - 1}
           order == IF DeltaShape[3] THEN Vector ELSE Scalar
<1>5. rows = MyRows(job, cta, w)
  BY <1>2, <1>4, VectorRows
<1>6. order = Scalar
  BY <1>2, <1>3, VectorIsScalar
<1>7. /\ Put(Together({RowStores(0, cta.x, j, order) : j \in rows}))
      /\ Goto(w, End) /\ Still
  BY DEF DeltaRowsIlp
<1> HIDE DEF rows, order
<1>8. /\ Put(Together(StoredOf(MyRows(job, cta, w), 0, cta.x, order)))
      /\ Goto(w, IF 0 + 1 < job.tokens THEN 0 + 1 ELSE End) /\ Still
  BY <1>3, <1>5, <1>7 DEF StoredOf
<1> QED
  BY <1>1, <1>6, <1>8, TokenStep

\* The kernel of a chunk, a token at a time.
LEMMA DeltaTokenStep ==
  ASSUME DeltaInv, NEW w, NEW t, DeltaToken(w, t)
  PROVE  DeltaInv'
<1>1. Ready(w, t, {"delta_rows"})
  BY PhaseReady DEF DeltaToken
<1>2. /\ job \in DeltaJobs /\ KernelOf(job) \in BatchKernels /\ cta \in TheGrid(job) /\ w \in Nat
  BY <1>1 DEF Ready, BatchKernels
<1>3. RowsOf(w) = MyRows(job, cta, w)
  BY <1>2, BlockRows DEF RowsOf
<1> DEFINE order == IF job.s % 4 = 0 THEN VectorTail ELSE Scalar
<1>4. order = Scalar
  BY <1>2, VectorIsScalar
<1>5. /\ Put(Together({RowStores(t, cta.x, j, order) : j \in RowsOf(w)}))
      /\ Goto(w, IF t + 1 < job.tokens THEN t + 1 ELSE End) /\ Still
  BY DEF DeltaToken
<1> HIDE DEF order
<1>6. Put(Together(StoredOf(MyRows(job, cta, w), t, cta.x, order)))
  BY <1>3, <1>5 DEF StoredOf
<1> QED
  BY <1>1, <1>4, <1>5, <1>6, TokenStep

-----------------------------------------------------------------------------
(* The actions of the resident kernels                                     *)

\* Rows that store an output.
Outputs(J, t, h, R, v) == {[c \in {OCell(J, t, h, j)} |-> v[j]] : j \in R}

LEMMA OutputsStored ==
  ASSUME NEW J \in DeltaJobs, NEW m, NEW h \in 0 .. J.nvh - 1, NEW R \in SUBSET (0 .. J.s - 1), NEW v,
         NEW n, NEW t \in 0 .. J.tokens - 1, OnlyRows(m),
         \A j \in R : RowHas(J, h, j, m, n, t) /\ v[j] = After(J, h, j)[t + 1].out
  PROVE  Took(J, h, R, m, Write(m, Together(Outputs(J, t, h, R, v))), n, t + 1)
<1> DEFINE F == [j \in R |-> [c \in {OCell(J, t, h, j)} |-> v[j]]]
<1>1. Outputs(J, t, h, R, v) = Stores(R, F)
  BY DEF Stores, Outputs
<1>2. \A j \in R : DOMAIN F[j] = {OCell(J, t, h, j)} /\ F[j][OCell(J, t, h, j)] = After(J, h, j)[t + 1].out
  OBVIOUS
<1>3. \A j : SCell(J, h, j) # OCell(J, t, h, j)
  BY DEF SCell, OCell
<1>4. \A j \in R : OCell(J, t, h, j) \in RowCells(J, h, j)
  BY DEF RowCells
<1> HIDE DEF F
<1>5. t \in Nat
  BY JobFacts
<1>6. TakeTo(J, h, R, m, F, n, n, t, t + 1)
  BY <1>2, <1>3, <1>4 DEF TakeTo
<1>7. Took(J, h, R, m, Write(m, Together(Stores(R, F))), n, t + 1)
  BY <1>5, <1>6, RowsStored
<1> QED
  BY <1>1, <1>7

\* Rows that store their last state.
States(J, h, R, v) == {[c \in {SCell(J, h, j)} |-> v[j]] : j \in R}

LEMMA StatesStored ==
  ASSUME NEW J \in DeltaJobs, NEW m, NEW h \in 0 .. J.nvh - 1, NEW R \in SUBSET (0 .. J.s - 1), NEW v,
         NEW n, OnlyRows(m),
         \A j \in R : RowHas(J, h, j, m, n, J.tokens) /\ v[j] = After(J, h, j)[J.tokens].row
  PROVE  Took(J, h, R, m, Write(m, Together(States(J, h, R, v))), J.tokens, J.tokens)
<1> DEFINE F == [j \in R |-> [c \in {SCell(J, h, j)} |-> v[j]]]
<1>1. States(J, h, R, v) = Stores(R, F)
  BY DEF Stores, States
<1>2. \A j \in R : DOMAIN F[j] = {SCell(J, h, j)} /\ F[j][SCell(J, h, j)] = After(J, h, j)[J.tokens].row
  OBVIOUS
<1>3. \A j : SCell(J, h, j) # OCell(J, J.tokens, h, j)
  BY DEF SCell, OCell
<1>4. \A j \in R : SCell(J, h, j) \in RowCells(J, h, j)
  BY DEF RowCells
<1> HIDE DEF F
<1>5. J.tokens \in Nat
  BY JobFacts
<1>6. TakeTo(J, h, R, m, F, n, J.tokens, J.tokens, J.tokens)
  BY <1>2, <1>3, <1>4 DEF TakeTo
<1>7. Took(J, h, R, m, Write(m, Together(Stores(R, F))), J.tokens, J.tokens)
  BY <1>5, <1>6, RowsStored
<1> QED
  BY <1>1, <1>7

\* What a warp of a resident kernel finds.
LEMMA ResidentReady ==
  ASSUME DeltaInv, NEW w, NEW p, NEW K, K \subseteq {"twopass", "fused"}, Ready(w, p, K)
  PROVE  /\ job \in DeltaJobs /\ KernelOf(job) \in K /\ OnlyRows(mem)
         /\ RowsOf(w) = MyRows(job, cta, w) /\ RowsOf(w) \in SUBSET (0 .. job.s - 1)
         /\ cta.x \in 0 .. job.nvh - 1 /\ cta.x \in Nat
         /\ job.tokens \in Nat /\ job.tokens >= 1 /\ p \in Nat /\ p # End
         /\ \A j \in RowsOf(w) : /\ RowHas(job, cta.x, j, mem, 0, Taken(job, p))
                               /\ TileHas(job, cta.x, j, lds, regs[w], p)
<1>1. /\ job \in DeltaJobs /\ KernelOf(job) \in K /\ OnlyRows(mem) /\ cta \in TheGrid(job)
      /\ w \in Nat /\ cta.x \in 0 .. job.nvh - 1 /\ p \in Phases(job) \ {End}
      /\ MyRows(job, cta, w) \in SUBSET (0 .. job.s - 1)
      /\ \A j \in MyRows(job, cta, w) :
           /\ RowHas(job, cta.x, j, mem, Stored(job, p), Taken(job, p))
           /\ TileHas(job, cta.x, j, lds, regs[w], p)
  BY DEF Ready, DeltaInv
<1>2. KernelOf(job) \in BatchKernels
  BY <1>1 DEF BatchKernels
<1>3. RowsOf(w) = MyRows(job, cta, w)
  BY <1>1, <1>2, BlockRows DEF RowsOf
<1>4. job.tokens \in Nat /\ job.tokens >= 1 /\ job.nvh \in Nat
  BY <1>1, JobFacts
<1>5. p \in Nat /\ p # End
  BY <1>1, <1>4 DEF Phases
<1>6. Stored(job, p) = 0
  BY <1>1, <1>5 DEF Stored
<1> QED
  BY <1>1, <1>3, <1>4, <1>5, <1>6

\* The rows go from memory to the tile.
LEMMA LoadRowsStep ==
  ASSUME DeltaInv, NEW w, LoadRows(w)
  PROVE  DeltaInv'
<1>1. Ready(w, 0, {"twopass", "fused"})
  BY PhaseReady DEF LoadRows
<1> DEFINE R == RowsOf(w)
           v == [j \in R |-> Read(mem, SCell(job, cta.x, j))]
<1>2. /\ job \in DeltaJobs /\ KernelOf(job) \in {"twopass", "fused"} /\ OnlyRows(mem)
      /\ R = MyRows(job, cta, w)
      /\ job.tokens \in Nat /\ job.tokens >= 1
      /\ \A j \in R : RowHas(job, cta.x, j, mem, 0, Taken(job, 0))
  BY <1>1, ResidentReady
<1>3. /\ Taken(job, 0) = 0 /\ Taken(job, 1) = 0 /\ Stored(job, 1) = 0 /\ 1 \in Phases(job)
  BY <1>2 DEF Taken, Stored, Phases, End
<1>4. /\ regs' = regs /\ mem' = mem /\ Goto(w, 1) /\ Still
      /\ lds' = Write(lds, Together({[c \in {TileRow(j)} |-> Read(mem, StateRow(cta.x, j))] : j \in R}))
  BY DEF LoadRows, Keep
<1>5. \A j : StateRow(cta.x, j) = SCell(job, cta.x, j)
  BY DEF StateRow, SCell
<1>6. \A j \in R : v[j] = After(job, cta.x, j)[0].row /\ v[j] = Read(mem, StateRow(cta.x, j))
  BY <1>2, <1>5 DEF RowHas
<1> HIDE DEF v
<1>7. {[c \in {TileRow(j)} |-> Read(mem, StateRow(cta.x, j))] : j \in R} = TileCells(R, v)
  <2>1. \A j \in R : Read(mem, StateRow(cta.x, j)) = v[j]
    BY <1>6
  <2> HIDE DEF R
  <2> QED
    BY <2>1, Zenon DEF TileCells
<1> HIDE DEF R
<1>8. /\ \A j \in R : Read(lds', TileRow(j)) = v[j]
      /\ \A j : j \notin R => Read(lds', TileRow(j)) = Read(lds, TileRow(j))
  <2>1. lds' = Write(lds, Together(TileCells(R, v)))
    BY <1>4, <1>7
  <2> QED
    BY <2>1, TilesApart
<1>9. Took(job, cta.x, R, mem, mem', 0, 0)
  BY <1>2, <1>3, <1>4 DEF Took
<1>10. \A j \in R : TileHas(job, cta.x, j, lds', regs'[w], 1)
  BY <1>2, <1>6, <1>8 DEF TileHas
<1> QED
  BY <1>1, <1>2, <1>3, <1>4, <1>8, <1>9, <1>10, WarpStep

\* Both passes of a token over the tile.
LEMMA TwoPassTokenStep ==
  ASSUME DeltaInv, NEW w, NEW p, TwoPassToken(w, p)
  PROVE  DeltaInv'
<1>1. Ready(w, p, {"twopass"})
  BY PhaseReady DEF TwoPassToken
<1> DEFINE R == RowsOf(w)
           t == p - 1
           step == [j \in R |-> Stepped(Kept(j), t, cta.x, j, Scalar)]
           row == [j \in R |-> step[j].row]
           out == [j \in R |-> step[j].out]
<1>2. /\ job \in DeltaJobs /\ KernelOf(job) = "twopass" /\ OnlyRows(mem)
      /\ R = MyRows(job, cta, w) /\ R \in SUBSET (0 .. job.s - 1)
      /\ cta.x \in 0 .. job.nvh - 1 /\ cta.x \in Nat
      /\ job.tokens \in Nat /\ job.tokens >= 1 /\ p \in Nat /\ p # End
      /\ \A j \in R : /\ RowHas(job, cta.x, j, mem, 0, Taken(job, p))
                    /\ TileHas(job, cta.x, j, lds, regs[w], p)
  BY <1>1, ResidentReady
<1>3. p \in 1 .. job.tokens
  BY DEF TwoPassToken
<1>4. /\ t \in 0 .. job.tokens - 1 /\ t + 1 = p /\ t \in Nat
      /\ Taken(job, p) = t /\ Taken(job, p + 1) = t + 1 /\ Stored(job, p + 1) = 0
      /\ p + 1 \in Phases(job)
  BY <1>2, <1>3 DEF Taken, Stored, Phases, End
<1>5. ASSUME NEW j \in R
      PROVE  /\ RowHas(job, cta.x, j, mem, 0, t)
             /\ row[j] = After(job, cta.x, j)[t + 1].row /\ out[j] = After(job, cta.x, j)[t + 1].out
  <2> HIDE DEF t
  <2>1. RowHas(job, cta.x, j, mem, 0, t) /\ Kept(j) = After(job, cta.x, j)[t].row
    BY <1>2, <1>3, <1>4 DEF TileHas, Kept
  <2>2. Read(mem, OCell(job, t, cta.x, j)) = Raw(OCell(job, t, cta.x, j))
    BY <1>4, <2>1 DEF RowHas
  <2>3. /\ Stepped(Kept(j), t, cta.x, j, Scalar).row = RowAfter(job, Kept(j), t, cta.x, j)
        /\ Stepped(Kept(j), t, cta.x, j, Scalar).out = OutAfter(job, Kept(j), t, cta.x, j)
    BY <1>2, <1>4, <2>2, SteppedIs DEF OnlyRows
  <2>4. /\ After(job, cta.x, j)[t + 1].row = RowAfter(job, After(job, cta.x, j)[t].row, t, cta.x, j)
        /\ After(job, cta.x, j)[t + 1].out = OutAfter(job, After(job, cta.x, j)[t].row, t, cta.x, j)
    BY <1>2, <1>4, AfterIs
  <2> QED
    BY <2>1, <2>3, <2>4
<1>6. /\ lds' = Write(lds, Together({[c \in {TileRow(j)} |-> step[j].row] : j \in R}))
      /\ mem' = Write(mem, Together({[c \in {VOut(t, cta.x, j)} |-> step[j].out] : j \in R}))
      /\ regs' = regs /\ Goto(w, p + 1) /\ Still
  BY DEF TwoPassToken
<1>7. \A j \in R : row[j] = step[j].row /\ out[j] = step[j].out
  OBVIOUS
<1> HIDE DEF step, row, out, t, R
<1>8. /\ lds' = Write(lds, Together(TileCells(R, row)))
      /\ mem' = Write(mem, Together(Outputs(job, t, cta.x, R, out)))
  <2>1. \A j \in R : row[j] = step[j].row
    BY <1>7
  <2>2. \A j \in R : out[j] = step[j].out
    BY <1>7
  <2>3. {[c \in {TileRow(j)} |-> step[j].row] : j \in R} = TileCells(R, row)
    BY <2>1, Zenon DEF TileCells
  <2>4. {[c \in {VOut(t, cta.x, j)} |-> step[j].out] : j \in R}
          = {[c \in {VOut(t, cta.x, j)} |-> out[j]] : j \in R}
    <3>1. ASSUME NEW j \in R
          PROVE  [c \in {VOut(t, cta.x, j)} |-> step[j].out] = [c \in {VOut(t, cta.x, j)} |-> out[j]]
      BY <2>2
    <3> QED
      BY <3>1, Zenon
  <2>5. {[c \in {VOut(t, cta.x, j)} |-> out[j]] : j \in R} = Outputs(job, t, cta.x, R, out)
    BY DEF Outputs, VOut, OCell
  <2> QED
    BY <1>6, <2>3, <2>4, <2>5
<1>9. /\ \A j \in R : Read(lds', TileRow(j)) = row[j]
      /\ \A j : j \notin R => Read(lds', TileRow(j)) = Read(lds, TileRow(j))
  BY <1>8, TilesApart
<1>10. Took(job, cta.x, R, mem, mem', 0, t + 1)
  BY <1>2, <1>4, <1>5, <1>8, OutputsStored
<1>11. \A j \in R : TileHas(job, cta.x, j, lds', regs'[w], p + 1)
  BY <1>2, <1>4, <1>5, <1>9 DEF TileHas
<1>12. regs' = regs /\ Goto(w, p + 1) /\ Still
  BY <1>6
<1> QED
  BY <1>1, <1>2, <1>4, <1>9, <1>10, <1>11, <1>12, WarpStep

\* The first pass of a token over a row, in the fused kernel.
LEMMA FirstPassIs ==
  ASSUME DeltaInv, cta.x \in Nat, NEW t \in Nat, NEW j, NEW row,
         Read(mem, OCell(job, t, cta.x, j)) = Raw(OCell(job, t, cta.x, j))
  PROVE  /\ FirstPass(row, t, j).row = Decayed(job, row, t, cta.x)
         /\ FirstPass(row, t, j).delta = DeltaOf(job, row, t, cta.x, j)
<1>1. /\ Gate(t, cta.x) = GateOf(job, t, cta.x) /\ Beta(t, cta.x) = BetaOf(job, t, cta.x)
      /\ KIn(t, cta.x) = KeyOf(job, t, cta.x) /\ Scalar = ScalarOf(job)
  BY InputsAre DEF DeltaInv, OnlyRows
<1>2. VIn(t, cta.x, j) = Raw(OCell(job, t, cta.x, j))
  BY DEF VIn, VOut, OCell
<1> QED
  BY <1>1, <1>2 DEF FirstPass, DeltaOf, Decayed

\* The second, and the output.
LEMMA SecondPassIs ==
  ASSUME DeltaInv, cta.x \in Nat, NEW w, NEW t \in Nat, NEW j, NEW row,
         Kept(j) = Decayed(job, row, t, cta.x), regs[w][j] = DeltaOf(job, row, t, cta.x, j)
  PROVE  /\ SecondPass(w, t, j) = RowAfter(job, row, t, cta.x, j)
         /\ DotRow(SecondPass(w, t, j), QIn(t, cta.x), Scalar) = OutAfter(job, row, t, cta.x, j)
<1>1. /\ QIn(t, cta.x) = QueryOf(job, t, cta.x)
      /\ KIn(t, cta.x) = KeyOf(job, t, cta.x) /\ Scalar = ScalarOf(job)
  BY InputsAre DEF DeltaInv, OnlyRows
<1>2. SecondPass(w, t, j) = RowAfter(job, row, t, cta.x, j)
  BY <1>1 DEF SecondPass, RowAfter
<1> QED
  BY <1>1, <1>2 DEF OutAfter

\* The last pass of a token and the first of the next in one.
LEMMA FusedTokenStep ==
  ASSUME DeltaInv, NEW w, NEW p, FusedToken(w, p)
  PROVE  DeltaInv'
<1>1. Ready(w, p, {"fused"})
  BY PhaseReady DEF FusedToken
<1> DEFINE R == RowsOf(w)
           ends == p > 1
           begins == p <= job.tokens
           before == [j \in R |-> IF ends THEN SecondPass(w, p - 2, j) ELSE Kept(j)]
           after == [j \in R |-> IF begins THEN FirstPass(before[j], Following(p - 2), j)
                                 ELSE [row |-> before[j], delta |-> None]]
           row == [j \in R |-> after[j].row]
           delta == [j \in R |-> after[j].delta]
           out == [j \in R |-> DotRow(before[j], QIn(p - 2, cta.x), Scalar)]
<1>2. /\ job \in DeltaJobs /\ KernelOf(job) = "fused" /\ OnlyRows(mem)
      /\ R = MyRows(job, cta, w) /\ R \in SUBSET (0 .. job.s - 1)
      /\ cta.x \in 0 .. job.nvh - 1 /\ cta.x \in Nat
      /\ job.tokens \in Nat /\ job.tokens >= 1 /\ p \in Nat /\ p # End
      /\ \A j \in R : /\ RowHas(job, cta.x, j, mem, 0, Taken(job, p))
                    /\ TileHas(job, cta.x, j, lds, regs[w], p)
  BY <1>1, ResidentReady
<1>3. p \in 1 .. job.tokens + 1
  BY DEF FusedToken
<1>4. /\ lds' = Write(lds, Together({[c \in {TileRow(j)} |-> after[j].row] : j \in R}))
      /\ regs' = [regs EXCEPT ![w] = [j \in R |-> after[j].delta]]
      /\ mem' = IF ends
                THEN Write(mem, Together({[c \in {VOut(p - 2, cta.x, j)} |->
                       DotRow(before[j], QIn(p - 2, cta.x), Scalar)] : j \in R}))
                ELSE mem
      /\ Goto(w, p + 1) /\ Still
  BY DEF FusedToken
<1>5. /\ p - 1 \in 0 .. job.tokens /\ p + 1 \in Phases(job) /\ Stored(job, p + 1) = 0
      /\ Taken(job, p + 1) = p - 1 /\ Taken(job, p) = IF ends THEN p - 2 ELSE 0
  BY <1>2, <1>3 DEF Taken, Stored, Phases, End
<1>6. ASSUME NEW j \in R, ends
      PROVE  /\ before[j] = After(job, cta.x, j)[p - 1].row
             /\ out[j] = After(job, cta.x, j)[p - 1].out
  <2> DEFINE t == p - 2
  <2>1. t \in 0 .. job.tokens - 1 /\ t \in Nat /\ t + 1 = p - 1 /\ p \in 2 .. job.tokens + 1
    BY <1>2, <1>3, <1>6
  <2>2. /\ Kept(j) = Decayed(job, After(job, cta.x, j)[t].row, t, cta.x)
        /\ regs[w][j] = DeltaOf(job, After(job, cta.x, j)[t].row, t, cta.x, j)
    BY <1>2, <2>1 DEF TileHas, Kept
  <2>3. before[j] = SecondPass(w, t, j) /\ out[j] = DotRow(before[j], QIn(t, cta.x), Scalar)
    BY <1>6
  <2> HIDE DEF t, before, out
  <2>4. /\ SecondPass(w, t, j) = RowAfter(job, After(job, cta.x, j)[t].row, t, cta.x, j)
        /\ DotRow(SecondPass(w, t, j), QIn(t, cta.x), Scalar)
             = OutAfter(job, After(job, cta.x, j)[t].row, t, cta.x, j)
    BY <1>2, <2>1, <2>2, SecondPassIs
  <2>5. /\ After(job, cta.x, j)[t + 1].row = RowAfter(job, After(job, cta.x, j)[t].row, t, cta.x, j)
        /\ After(job, cta.x, j)[t + 1].out = OutAfter(job, After(job, cta.x, j)[t].row, t, cta.x, j)
    BY <1>2, <2>1, AfterIs
  <2> QED
    BY <2>1, <2>3, <2>4, <2>5
<1>7. ASSUME NEW j \in R
      PROVE  before[j] = After(job, cta.x, j)[p - 1].row
  <2>1. CASE ends
    BY <1>6, <2>1
  <2>2. CASE ~ends
    <3>1. p = 1 /\ before[j] = Kept(j)
      BY <1>3, <2>2
    <3> HIDE DEF before
    <3>2. Kept(j) = After(job, cta.x, j)[0].row
      BY <1>2, <3>1 DEF TileHas, Kept
    <3> QED
      BY <3>1, <3>2
  <2> QED
    BY <2>1, <2>2
<1>8. ASSUME NEW j \in R, begins
      PROVE  /\ row[j] = Decayed(job, After(job, cta.x, j)[p - 1].row, p - 1, cta.x)
             /\ delta[j] = DeltaOf(job, After(job, cta.x, j)[p - 1].row, p - 1, cta.x, j)
  <2>1. Following(p - 2) = p - 1 /\ p - 1 \in Nat /\ p - 1 \in 0 .. job.tokens - 1
    BY <1>2, <1>3, <1>8 DEF Following
  <2>2. Read(mem, OCell(job, p - 1, cta.x, j)) = Raw(OCell(job, p - 1, cta.x, j))
    <3>1. RowHas(job, cta.x, j, mem, 0, Taken(job, p)) /\ ~(p - 1 < Taken(job, p))
      BY <1>2, <1>3, <1>5
    <3> QED
      BY <2>1, <3>1 DEF RowHas
  <2>3. /\ row[j] = FirstPass(before[j], p - 1, j).row
        /\ delta[j] = FirstPass(before[j], p - 1, j).delta
    BY <1>8, <2>1
  <2> HIDE DEF before, row, delta
  <2>4. /\ FirstPass(before[j], p - 1, j).row = Decayed(job, before[j], p - 1, cta.x)
        /\ FirstPass(before[j], p - 1, j).delta = DeltaOf(job, before[j], p - 1, cta.x, j)
    BY <1>2, <2>1, <2>2, FirstPassIs
  <2> QED
    BY <1>7, <2>3, <2>4
<1>9. ASSUME NEW j \in R, ~begins
      PROVE  row[j] = After(job, cta.x, j)[job.tokens].row
  <2>1. row[j] = before[j]
    BY <1>9
  <2>2. p - 1 = job.tokens
    BY <1>2, <1>3, <1>9
  <2> HIDE DEF before, row
  <2> QED
    BY <1>7, <2>1, <2>2
<1>10. /\ lds' = Write(lds, Together(TileCells(R, row)))
       /\ mem' = IF ends THEN Write(mem, Together(Outputs(job, p - 2, cta.x, R, out))) ELSE mem
       /\ regs' = [regs EXCEPT ![w] = delta]
  <2>0. \A j \in R : row[j] = after[j].row
    OBVIOUS
  <2>1. \A j \in R : out[j] = DotRow(before[j], QIn(p - 2, cta.x), Scalar)
    OBVIOUS
  <2>2. [j \in R |-> after[j].delta] = delta
    OBVIOUS
  <2> HIDE DEF row, out, delta, after, before, R, ends
  <2>3. {[c \in {TileRow(j)} |-> after[j].row] : j \in R} = TileCells(R, row)
    BY <2>0, Zenon DEF TileCells
  <2>4. {[c \in {VOut(p - 2, cta.x, j)} |-> DotRow(before[j], QIn(p - 2, cta.x), Scalar)] : j \in R}
          = {[c \in {VOut(p - 2, cta.x, j)} |-> out[j]] : j \in R}
    BY <2>1, Zenon
  <2>5. {[c \in {VOut(p - 2, cta.x, j)} |-> out[j]] : j \in R} = Outputs(job, p - 2, cta.x, R, out)
    BY DEF Outputs, VOut, OCell
  <2> QED
    BY <1>4, <2>2, <2>3, <2>4, <2>5
<1> HIDE DEF row, out, delta, after, before, R
<1>11. /\ \A j \in R : Read(lds', TileRow(j)) = row[j]
       /\ \A j : j \notin R => Read(lds', TileRow(j)) = Read(lds, TileRow(j))
  BY <1>10, TilesApart
<1>12. Took(job, cta.x, R, mem, mem', 0, p - 1)
  <2>1. CASE ends
    <3>1. p - 2 \in 0 .. job.tokens - 1 /\ (p - 2) + 1 = p - 1 /\ Taken(job, p) = p - 2
      BY <1>2, <1>3, <1>5, <2>1
    <3>2. \A j \in R : /\ RowHas(job, cta.x, j, mem, 0, p - 2)
                     /\ out[j] = After(job, cta.x, j)[(p - 2) + 1].out
      BY <1>2, <1>6, <2>1, <3>1
    <3>3. Took(job, cta.x, R, mem, Write(mem, Together(Outputs(job, p - 2, cta.x, R, out))), 0, (p - 2) + 1)
      BY <1>2, <3>1, <3>2, OutputsStored
    <3> QED
      BY <1>10, <2>1, <3>1, <3>3
  <2>2. CASE ~ends
    <3>1. p - 1 = 0 /\ Taken(job, p) = 0 /\ mem' = mem
      BY <1>3, <1>5, <1>10, <2>2
    <3> QED
      BY <1>2, <3>1 DEF Took
  <2> QED
    BY <2>1, <2>2
<1>13. /\ DOMAIN regs' = DOMAIN regs /\ regs'[w] = delta
       /\ \A v \in DOMAIN regs : v # w => regs'[v] = regs[v]
  BY <1>1, <1>10 DEF Ready
<1>14. ASSUME NEW j \in R
       PROVE  TileHas(job, cta.x, j, lds', regs'[w], p + 1)
  <2>1. (p + 1) - 2 = p - 1 /\ p + 1 # 1
    BY <1>2, <1>3
  <2>2. CASE begins
    <3>1. p + 1 # job.tokens + 2
      BY <1>2, <2>2
    <3> QED
      BY <1>2, <1>8, <1>11, <1>13, <2>1, <2>2, <3>1 DEF TileHas
  <2>3. CASE ~begins
    <3>1. p + 1 \notin 2 .. job.tokens + 1
      BY <1>2, <2>3
    <3> QED
      BY <1>2, <1>9, <1>11, <2>1, <2>3, <3>1 DEF TileHas
  <2> QED
    BY <2>2, <2>3
<1> QED
  BY <1>1, <1>2, <1>4, <1>5, <1>11, <1>12, <1>13, <1>14, WarpStep

\* The rows go from the tile to memory.
LEMMA StoreRowsStep ==
  ASSUME DeltaInv, NEW w, StoreRows(w)
  PROVE  DeltaInv'
<1> DEFINE R == RowsOf(w)
           v == [j \in R |-> Kept(j)]
<1>1. PICK p : \/ Phase({"twopass"}, w, p) /\ p = job.tokens + 1
               \/ Phase({"fused"}, w, p) /\ p = job.tokens + 2
  BY DEF StoreRows
<1>2. \/ Ready(w, p, {"twopass"}) /\ p = job.tokens + 1
      \/ Ready(w, p, {"fused"}) /\ p = job.tokens + 2
  <2>1. CASE Phase({"twopass"}, w, p) /\ p = job.tokens + 1
    <3>1. Ready(w, p, {"twopass"})
      BY <2>1, PhaseReady
    <3> QED
      BY <2>1, <3>1
  <2>2. CASE Phase({"fused"}, w, p) /\ p = job.tokens + 2
    <3>1. Ready(w, p, {"fused"})
      BY <2>2, PhaseReady
    <3> QED
      BY <2>2, <3>1
  <2> QED
    BY <1>1, <2>1, <2>2
<1>3. Ready(w, p, {"twopass", "fused"})
  BY <1>2 DEF Ready
<1>4. /\ job \in DeltaJobs /\ KernelOf(job) \in {"twopass", "fused"} /\ OnlyRows(mem)
      /\ R = MyRows(job, cta, w) /\ R \in SUBSET (0 .. job.s - 1)
      /\ cta.x \in 0 .. job.nvh - 1
      /\ job.tokens \in Nat /\ job.tokens >= 1 /\ p \in Nat /\ p # End
      /\ \A j \in R : /\ RowHas(job, cta.x, j, mem, 0, Taken(job, p))
                    /\ TileHas(job, cta.x, j, lds, regs[w], p)
  BY <1>3, ResidentReady
<1>5. \/ KernelOf(job) = "twopass" /\ p = job.tokens + 1
      \/ KernelOf(job) = "fused" /\ p = job.tokens + 2
  BY <1>2 DEF Ready
<1>6. /\ Taken(job, p) = job.tokens
      /\ End \in Phases(job) /\ Stored(job, End) = job.tokens /\ Taken(job, End) = job.tokens
  BY <1>4, <1>5 DEF Taken, Stored, Phases
<1>7. /\ mem' = Write(mem, Together({[c \in {StateRow(cta.x, j)} |-> Kept(j)] : j \in R}))
      /\ regs' = regs /\ lds' = lds /\ Goto(w, End) /\ Still
  BY DEF StoreRows, Put
<1>8. ASSUME NEW j \in R
      PROVE  v[j] = After(job, cta.x, j)[job.tokens].row
  <2>1. Kept(j) = After(job, cta.x, j)[job.tokens].row
    BY <1>4, <1>5 DEF TileHas, Kept
  <2> QED
    BY <2>1
<1>9. mem' = Write(mem, Together(States(job, cta.x, R, v)))
  <2>1. \A j \in R : v[j] = Kept(j)
    OBVIOUS
  <2> HIDE DEF v, R
  <2>2. {[c \in {StateRow(cta.x, j)} |-> Kept(j)] : j \in R} = {[c \in {StateRow(cta.x, j)} |-> v[j]] : j \in R}
    BY <2>1, Zenon
  <2>3. {[c \in {StateRow(cta.x, j)} |-> v[j]] : j \in R} = States(job, cta.x, R, v)
    BY DEF States, StateRow, SCell
  <2> QED
    BY <1>7, <2>2, <2>3
<1> HIDE DEF v, R
<1>10. Took(job, cta.x, R, mem, mem', job.tokens, job.tokens)
  BY <1>4, <1>6, <1>8, <1>9, StatesStored
<1>11. \A j \in R : TileHas(job, cta.x, j, lds', regs'[w], End)
  BY <1>4 DEF TileHas, End
<1> QED
  BY <1>3, <1>4, <1>6, <1>7, <1>10, <1>11, WarpStep

-----------------------------------------------------------------------------
(* The CTAs                                                                *)

\* A CTA that waited starts with the rows it has not begun.
LEMMA RunCtaStep ==
  ASSUME DeltaInv, RunCta
  PROVE  DeltaInv'
<1>1. /\ job \in DeltaJobs /\ Running(job, stream, cta, at, regs) /\ OnlyRows(mem)
      /\ AllRows(job, stream, cta, at, regs, lds, mem)
  BY DEF DeltaInv
<1>2. PICK c \in Head(stream) :
        /\ cta = Idle /\ stream # <<>> /\ cta' = c
        /\ at' = [w \in 0 .. c.warps - 1 |-> 0]
        /\ regs' = [w \in 0 .. c.warps - 1 |-> <<>>]
        /\ stream' = IF Head(stream) = {c} THEN Tail(stream) ELSE [stream EXCEPT ![1] = @ \ {c}]
        /\ job' = job /\ lds' = lds /\ mem' = mem
  BY DEF RunCta
<1>3. PICK G \in SUBSET TheGrid(job) : stream = <<G>>
  BY <1>1, <1>2 DEF Running
<1>4. c \in G /\ Waiting(stream) = G
  BY <1>2, <1>3 DEF Waiting
<1>5. stream' = IF G = {c} THEN <<>> ELSE <<G \ {c}>>
  <2>1. Head(<<G>>) = G /\ Tail(<<G>>) = <<>>
    OBVIOUS
  <2>2. [<<G>> EXCEPT ![1] = @ \ {c}] = <<G \ {c}>>
    OBVIOUS
  <2> QED
    BY <1>2, <1>3, <2>1, <2>2
<1>6. Waiting(stream') = G \ {c}
  BY <1>4, <1>5 DEF Waiting
<1>7. /\ c \in TheGrid(job) /\ c # Idle /\ c.warps = WarpsIn(job)
  BY <1>1, <1>4, GridFacts
<1>8. 0 \in Phases(job) /\ 0 # End
  BY <1>1, JobFacts DEF Phases, End
<1>9. Running(job', stream', cta', at', regs')
  <2>1. stream' = <<>> \/ \E H \in SUBSET TheGrid(job) : stream' = <<H>>
    BY <1>5
  <2>2. at' \in [0 .. WarpsIn(job) - 1 -> Phases(job)] /\ DOMAIN regs' = 0 .. WarpsIn(job) - 1
    BY <1>2, <1>7, <1>8
  <2> QED
    BY <1>2, <1>6, <1>7, <2>1, <2>2 DEF Running
<1>10. ASSUME NEW h \in 0 .. job.nvh - 1, NEW j \in 0 .. job.s - 1
       PROVE  RowFine(job, stream', c, at', regs', lds, mem, h, j)
  <2>1. /\ OwnerOf(job, h, j) \in TheGrid(job) /\ WarpAt(job, j) \in 0 .. WarpsIn(job) - 1
        /\ OwnerOf(job, h, j) # Idle
    BY <1>1, GridFacts
  <2>2. RowHas(job, h, j, mem, Stored(job, Place(job, stream, cta, at, h, j)),
               Taken(job, Place(job, stream, cta, at, h, j)))
    BY <1>1 DEF AllRows, RowFine
  <2>3. Place(job, stream', c, at', h, j) = Place(job, stream, cta, at, h, j)
    BY <1>2, <1>4, <1>6, <1>7, <2>1 DEF Place
  <2>4. at'[WarpAt(job, j)] = 0
    BY <1>2, <1>7, <2>1
  <2>5. TileHas(job, h, j, lds, regs'[WarpAt(job, j)], 0)
    <3>1. job.tokens \in Nat
      BY <1>1, JobFacts
    <3> QED
      BY <3>1 DEF TileHas
  <2> QED
    BY <2>2, <2>3, <2>4, <2>5 DEF RowFine
<1>11. AllRows(job', stream', cta', at', regs', lds', mem')
  BY <1>2, <1>10 DEF AllRows
<1> QED
  BY <1>1, <1>2, <1>9, <1>11 DEF DeltaInv

\* A CTA whose warps have ended has all its rows in memory.
LEMMA RetireCtaStep ==
  ASSUME DeltaInv, RetireCta
  PROVE  DeltaInv'
<1>1. /\ job \in DeltaJobs /\ Running(job, stream, cta, at, regs) /\ OnlyRows(mem)
      /\ AllRows(job, stream, cta, at, regs, lds, mem)
  BY DEF DeltaInv
<1>2. /\ cta # Idle /\ \A w \in DOMAIN at : at[w] = End
      /\ cta' = Idle /\ job' = job /\ stream' = stream /\ lds' = lds /\ mem' = mem
  BY DEF RetireCta
<1>3. DOMAIN at = 0 .. WarpsIn(job) - 1
  BY <1>1, <1>2 DEF Running
<1>4. Running(job', stream', cta', at', regs')
  BY <1>1, <1>2 DEF Running
<1>5. ASSUME NEW h \in 0 .. job.nvh - 1, NEW j \in 0 .. job.s - 1
      PROVE  RowFine(job, stream, Idle, at', regs', lds, mem, h, j)
  <2>1. /\ WarpAt(job, j) \in 0 .. WarpsIn(job) - 1 /\ OwnerOf(job, h, j) # Idle
    BY <1>1, GridFacts
  <2>2. RowHas(job, h, j, mem, Stored(job, Place(job, stream, cta, at, h, j)),
               Taken(job, Place(job, stream, cta, at, h, j)))
    BY <1>1 DEF AllRows, RowFine
  <2>3. Place(job, stream, Idle, at', h, j) = Place(job, stream, cta, at, h, j)
    BY <1>2, <1>3, <2>1 DEF Place
  <2> QED
    BY <2>1, <2>2, <2>3 DEF RowFine
<1>6. AllRows(job', stream', cta', at', regs', lds', mem')
  BY <1>2, <1>5 DEF AllRows
<1> QED
  BY <1>1, <1>2, <1>4, <1>6 DEF DeltaInv

-----------------------------------------------------------------------------
(* The launches                                                            *)

\* A launch of the delta rule puts its grid on the stream, and its rows are
\* what they were.
LEMMA LaunchStep ==
  ASSUME KernelsInv, NEW j \in DeltaJobs, Start(j, <<TheGrid(j)>>)
  PROVE  KernelsInv'
<1>1. /\ job = None /\ cta = Idle /\ mem = <<>> /\ job' = j /\ stream' = <<TheGrid(j)>>
      /\ cta' = Idle /\ mem' = <<>>
  BY DEF KernelsInv, Start
<1>2. "shape" \in DOMAIN j /\ j # None
  BY DEF DeltaJobs, None
<1>3. Running(j, stream', cta', at', regs')
  BY <1>1 DEF Running
<1>4. OnlyRows(mem')
  BY <1>1 DEF OnlyRows
<1>5. ASSUME NEW h \in 0 .. j.nvh - 1, NEW i \in 0 .. j.s - 1
      PROVE  RowFine(j, stream', Idle, at', regs', lds', <<>>, h, i)
  <2>1. OwnerOf(j, h, i) \in TheGrid(j) /\ OwnerOf(j, h, i) # Idle
    BY GridFacts
  <2>2. Place(j, stream', Idle, at', h, i) = 0
    BY <1>1, <2>1 DEF Place, Waiting
  <2>3. Stored(j, 0) = 0 /\ Taken(j, 0) = 0
    BY DEF Stored, Taken, End
  <2>4. \A c : Read(<<>>, c) = Raw(c)
    BY DEF Read
  <2>5. RowHas(j, h, i, <<>>, 0, 0)
    BY <2>4, AfterIs, JobFacts DEF RowHas
  <2> QED
    BY <2>1, <2>2, <2>3, <2>5 DEF RowFine
<1>6. AllRows(j, stream', cta', at', regs', lds', mem')
  BY <1>1, <1>5 DEF AllRows
<1> QED
  BY <1>1, <1>2, <1>3, <1>4, <1>6 DEF KernelsInv, DeltaInv

\* The five launches.
DeltaLaunch ==
  \/ DeltaRuleLaunch \/ DeltaRuleLaunchScalar \/ DeltaRuleLaunchIlp
  \/ DeltaRuleBatchLaunch \/ DeltaRuleBatchResidentLaunch

LEMMA DeltaLaunchStep ==
  ASSUME KernelsInv, DeltaLaunch
  PROVE  KernelsInv'
<1>1. Blocks(WideSize, Lanes) = WideSize \div Lanes
  <2> DEFINE q == WideSize \div Lanes
  <2>1. WideSize \in Nat /\ Lanes \in Nat \ {0} /\ WideSize % Lanes = 0
    BY DeltaAssumption, LanesAssumption
  <2>2. q \in Nat /\ WideSize = q * Lanes + 0
    BY <2>1, Division
  <2> HIDE DEF q
  <2>3. Lanes - 1 \in 0 .. Lanes - 1 /\ WideSize + Lanes - 1 = q * Lanes + (Lanes - 1)
    BY <2>1, <2>2
  <2>4. (q * Lanes + (Lanes - 1)) \div Lanes = q
    BY <2>1, <2>2, <2>3, Quotient
  <2> QED
    BY <2>3, <2>4 DEF Blocks, q
<1>2. \A j \in GdnJobs :
        j.op \in SingleOps \cup BatchOps /\ (j.op = "delta_rule_launch_ilp" => j.s = WideSize /\ j.shape \in DeltaShapes)
          => j \in DeltaJobs
  BY DeltaJobsAssumption DEF DeltaJobs, SingleOps, BatchOps
<1>3. CASE DeltaRuleLaunch
  <2>1. PICK j \in GdnJobs :
          /\ j.op = "delta_rule_launch"
          /\ Start(j, <<IF j.s = WideSize /\ j.nvh > 0
                        THEN Grid("delta_ilp", WideSize \div Lanes, j.nvh, 1, 1)
                        ELSE ScalarGrid(j)>>)
    BY <1>3 DEF DeltaRuleLaunch
  <2>2. j \in DeltaJobs
    BY <1>2, <2>1 DEF SingleOps
  <2>3. CASE j.s = WideSize /\ j.nvh > 0
    <3>1. KernelOf(j) = "delta_ilp" /\ ThreadsIn(j) = WideSize
      BY <2>1, <2>3 DEF KernelOf, ThreadsIn, ShapeOf, SingleOps
    <3>2. TheGrid(j) = Grid("delta_ilp", WideSize \div Lanes, j.nvh, 1, 1)
      BY <1>1, <3>1 DEF TheGrid, WarpsIn, BatchKernels
    <3> QED
      BY <2>1, <2>2, <2>3, <3>2, LaunchStep
  <2>4. CASE ~(j.s = WideSize /\ j.nvh > 0)
    <3>1. KernelOf(j) = "delta" /\ ThreadsIn(j) = j.s
      BY <2>1, <2>4 DEF KernelOf, ThreadsIn
    <3>2. TheGrid(j) = ScalarGrid(j)
      BY <3>1 DEF TheGrid, WarpsIn, BatchKernels, ScalarGrid
    <3> QED
      BY <2>1, <2>2, <2>4, <3>2, LaunchStep
  <2> QED
    BY <2>3, <2>4
<1>4. CASE DeltaRuleLaunchScalar
  <2>1. PICK j \in GdnJobs : j.op = "delta_rule_launch_scalar" /\ Start(j, <<ScalarGrid(j)>>)
    BY <1>4 DEF DeltaRuleLaunchScalar
  <2>2. j \in DeltaJobs
    BY <1>2, <2>1 DEF SingleOps
  <2>3. KernelOf(j) = "delta" /\ ThreadsIn(j) = j.s
    BY <2>1 DEF KernelOf, ThreadsIn
  <2>4. TheGrid(j) = ScalarGrid(j)
    BY <2>3 DEF TheGrid, WarpsIn, BatchKernels, ScalarGrid
  <2> QED
    BY <2>1, <2>2, <2>4, LaunchStep
<1>5. CASE DeltaRuleLaunchIlp
  <2>1. PICK j \in GdnJobs :
          /\ j.op = "delta_rule_launch_ilp" /\ j.s = WideSize /\ j.shape \in DeltaShapes
          /\ Start(j, <<Grid("delta_ilp", Blocks(j.shape[1], Lanes), j.nvh, 1, 1)>>)
    BY <1>5 DEF DeltaRuleLaunchIlp
  <2>2. j \in DeltaJobs
    BY <1>2, <2>1 DEF SingleOps
  <2>3. KernelOf(j) = "delta_ilp" /\ ThreadsIn(j) = j.shape[1]
    BY <2>1 DEF KernelOf, ThreadsIn, ShapeOf, SingleOps
  <2>4. TheGrid(j) = Grid("delta_ilp", Blocks(j.shape[1], Lanes), j.nvh, 1, 1)
    BY <2>3 DEF TheGrid, WarpsIn, BatchKernels
  <2> QED
    BY <2>1, <2>2, <2>4, LaunchStep
<1>6. ASSUME NEW j \in DeltaJobs, KernelOf(j) \in BatchKernels
      PROVE  TheGrid(j) = BatchGrid(KernelOf(j), j)
  BY <1>6 DEF TheGrid, WarpsIn, ThreadsIn, BatchKernels, BatchGrid
<1>7. CASE DeltaRuleBatchLaunch
  <2>1. PICK j \in GdnJobs : j.op = "delta_rule_batch_launch" /\ Start(j, <<BatchGrid("delta_rows", j)>>)
    BY <1>7 DEF DeltaRuleBatchLaunch
  <2>2. j \in DeltaJobs
    BY <1>2, <2>1 DEF BatchOps
  <2>3. KernelOf(j) = "delta_rows"
    BY <2>1 DEF KernelOf, SingleOps
  <2> QED
    BY <1>6, <2>1, <2>2, <2>3, LaunchStep DEF BatchKernels
<1>8. CASE DeltaRuleBatchResidentLaunch
  <2>1. PICK j \in GdnJobs :
          /\ j.op = "delta_rule_batch_resident_launch"
          /\ Start(j, <<BatchGrid(IF j.s <= 0 \/ j.s > WideSize \/ j.nvh <= 0 THEN "delta_rows"
                                  ELSE IF j.fused THEN "fused" ELSE "twopass", j)>>)
    BY <1>8 DEF DeltaRuleBatchResidentLaunch
  <2>2. j \in DeltaJobs
    BY <1>2, <2>1 DEF BatchOps
  <2>3. ~(j.s <= 0)
    BY <2>2, JobFacts
  <2>4. /\ KernelOf(j) = IF j.s <= 0 \/ j.s > WideSize \/ j.nvh <= 0 THEN "delta_rows"
                         ELSE IF j.fused THEN "fused" ELSE "twopass"
        /\ KernelOf(j) \in BatchKernels
    BY <2>1, <2>3 DEF KernelOf, SingleOps, BatchKernels
  <2> QED
    BY <1>6, <2>1, <2>2, <2>4, LaunchStep
<1> QED
  BY <1>3, <1>4, <1>5, <1>7, <1>8 DEF DeltaLaunch

-----------------------------------------------------------------------------
(* The other kernels                                                       *)

DeltaKernels == {"delta", "delta_ilp"} \cup BatchKernels
AttnKernels == {"attn", "split", "merge", "fa2"}

\* They are launched without the field that a launch of these kernels has, and
\* run in CTAs of their own.
Apart(field, kernels) ==
  \/ job = None /\ job' # None /\ field \notin DOMAIN job'
  \/ job' = job /\ cta.kernel \notin kernels /\ cta.kernel # "idle"
FromDelta == Apart("shape", DeltaKernels)
Elsewhere == FromDelta /\ Apart("kv", AttnKernels)

\* Those of attn.cuh.
LEMMA AttentionApart ==
  ASSUME AttentionNext
  PROVE  FromDelta
<1> USE ShapeAssumption DEF FromDelta, Apart, DeltaKernels, BatchKernels
<1>1. CASE AttnLaunch
  BY <1>1 DEF AttnLaunch, Start, None
<1>2. CASE AttnBatchLaunch
  BY <1>2 DEF AttnBatchLaunch, Start, None
<1>3. CASE AttnLaunchSplit
  BY <1>3 DEF AttnLaunchSplit, Start, None
<1>4. CASE AttnLaunchSplitWpb
  BY <1>4 DEF AttnLaunchSplitWpb, Start, None
<1>5. CASE AttnSplitBatchLaunch
  BY <1>5 DEF AttnSplitBatchLaunch, Start, None
<1>6. CASE Fa2PrefillLaunch
  BY <1>6 DEF Fa2PrefillLaunch, Start, None
<1>7. ASSUME NEW w \in DOMAIN at, Scan(w)
      PROVE  FromDelta
  BY <1>7 DEF Scan, Phase, Still
<1>8. ASSUME NEW w \in DOMAIN at, MergeSlices(w)
      PROVE  FromDelta
  BY <1>8 DEF MergeSlices, Phase, Still
<1>9. ASSUME NEW w \in DOMAIN at, ScanSplit(w)
      PROVE  FromDelta
  BY <1>9 DEF ScanSplit, Phase, Still
<1>10. ASSUME NEW w \in DOMAIN at, SplitMax(w)
      PROVE  FromDelta
  BY <1>10 DEF SplitMax, Phase, Still
<1>11. ASSUME NEW w \in DOMAIN at, SplitWeights(w)
      PROVE  FromDelta
  BY <1>11 DEF SplitWeights, Phase, Still
<1>12. ASSUME NEW w \in DOMAIN at, WritePartial(w)
      PROVE  FromDelta
  BY <1>12 DEF WritePartial, Phase, Still
<1>13. ASSUME NEW w \in DOMAIN at, MergeSplits(w)
      PROVE  FromDelta
  BY <1>13 DEF MergeSplits, Phase, Still
<1>14. ASSUME NEW w \in DOMAIN at, NEW p, LoadTile(w, p)
      PROVE  FromDelta
  BY <1>14 DEF LoadTile, Phase, Still
<1>15. ASSUME NEW w \in DOMAIN at, NEW p, ConsumeTile(w, p)
      PROVE  FromDelta
  BY <1>15 DEF ConsumeTile, Phase, Still
<1>16. ASSUME NEW w \in DOMAIN at, NEW p, WriteRows(w, p)
      PROVE  FromDelta
  BY <1>16 DEF WriteRows, Phase, Still
<1> QED
  BY <1>1, <1>2, <1>3, <1>4, <1>5, <1>6, <1>7, <1>8, <1>9, <1>10, <1>11, <1>12, <1>13, <1>14, <1>15,
     <1>16 DEF AttentionNext

\* Those of nn.cuh on every element.
LEMMA ElementwiseElsewhere ==
  ASSUME ElementwiseNext
  PROVE  Elsewhere
<1> USE ShapeAssumption, HeadsAssumption DEF Elsewhere, FromDelta, Apart, DeltaKernels, AttnKernels, BatchKernels
<1>1. CASE UnaryLaunch
  BY <1>1 DEF UnaryLaunch, EachLaunch, Start, None
<1>2. CASE MulLaunch
  BY <1>2 DEF MulLaunch, EachLaunch, Start, None
<1>3. CASE AddLaunch
  BY <1>3 DEF AddLaunch, EachLaunch, Start, None
<1>4. CASE ScaleLaunch
  BY <1>4 DEF ScaleLaunch, EachLaunch, Start, None
<1>5. CASE AddBcastLaunch
  BY <1>5 DEF AddBcastLaunch, EachLaunch, Start, None
<1>6. CASE MulBcastLaunch
  BY <1>6 DEF MulBcastLaunch, EachLaunch, Start, None
<1>7. CASE SiluGateLaunch
  BY <1>7 DEF SiluGateLaunch, EachLaunch, Start, None
<1>8. CASE SigmoidGateLaunch
  BY <1>8 DEF SigmoidGateLaunch, EachLaunch, Start, None
<1>9. CASE GdnScalarsLaunch
  BY <1>9 DEF GdnScalarsLaunch, EachLaunch, Start, None
<1>10. CASE DeinterleaveLaunch
  BY <1>10 DEF DeinterleaveLaunch, EachLaunch, Start, None
<1>11. CASE DeinterleaveBatchLaunch
  BY <1>11 DEF DeinterleaveBatchLaunch, EachLaunch, Start, None
<1>12. CASE RopeLaunch
  BY <1>12 DEF RopeLaunch, EachLaunch, Start, None
<1>13. ASSUME NEW w \in DOMAIN at, EachElement(w)
      PROVE  Elsewhere
  BY <1>13 DEF EachElement, Phase, Still, EachKernels
<1> QED
  BY <1>1, <1>2, <1>3, <1>4, <1>5, <1>6, <1>7, <1>8, <1>9, <1>10, <1>11, <1>12, <1>13 DEF ElementwiseNext

\* Those of nn.cuh on a row.
LEMMA NormsElsewhere ==
  ASSUME NormsNext
  PROVE  Elsewhere
<1> USE ShapeAssumption, HeadsAssumption DEF Elsewhere, FromDelta, Apart, DeltaKernels, AttnKernels, BatchKernels
<1>1. CASE RmsNormLaunch
  BY <1>1 DEF RmsNormLaunch, Start, None
<1>2. CASE L2NormLaunch
  BY <1>2 DEF L2NormLaunch, Start, None
<1>3. CASE AddRmsFusedLaunch
  BY <1>3 DEF AddRmsFusedLaunch, Start, None
<1>4. CASE ArgmaxLaunch
  BY <1>4 DEF ArgmaxLaunch, Start, None
<1>5. ASSUME NEW w \in DOMAIN at, SumSquares(w)
      PROVE  Elsewhere
  BY <1>5 DEF SumSquares, Phase, Still
<1>6. ASSUME NEW w \in DOMAIN at, AddAndSum(w)
      PROVE  Elsewhere
  BY <1>6 DEF AddAndSum, Phase, Still
<1>7. ASSUME NEW w \in DOMAIN at, FoldHalf(w)
      PROVE  Elsewhere
  BY <1>7 DEF FoldHalf, Phase, Still, TreeKernels
<1>8. ASSUME NEW w \in DOMAIN at, ScaleRow(w)
      PROVE  Elsewhere
  BY <1>8 DEF ScaleRow, Phase, Still
<1>9. ASSUME NEW w \in DOMAIN at, ScaleKept(w)
      PROVE  Elsewhere
  BY <1>9 DEF ScaleKept, Phase, Still
<1>10. ASSUME NEW w \in DOMAIN at, ScanLogits(w)
      PROVE  Elsewhere
  BY <1>10 DEF ScanLogits, Phase, Still
<1>11. ASSUME NEW w \in DOMAIN at, FoldBest(w)
      PROVE  Elsewhere
  BY <1>11 DEF FoldBest, Phase, Still
<1>12. ASSUME NEW w \in DOMAIN at, StoreBest(w)
      PROVE  Elsewhere
  BY <1>12 DEF StoreBest, Phase, Still
<1> QED
  BY <1>1, <1>2, <1>3, <1>4, <1>5, <1>6, <1>7, <1>8, <1>9, <1>10, <1>11, <1>12 DEF NormsNext

\* A launch whose arguments say what serves it.
LEMMA ServedElsewhere ==
  ASSUME NEW j, "shape" \notin DOMAIN j, "kv" \notin DOMAIN j,
         NEW r, "by" \in DOMAIN r, "shape" \notin DOMAIN r, "kv" \notin DOMAIN r,
         NEW grids, Start(With(j, r), grids)
  PROVE  Elsewhere
<1> USE DEF Elsewhere, FromDelta, Apart
<1>1. DOMAIN With(j, r) = DOMAIN j \cup DOMAIN r
  BY DEF With
<1>2. DOMAIN None = {"op"}
  BY DEF None
<1>3. job = None /\ job' = With(j, r)
  BY DEF Start
<1> QED
  BY <1>1, <1>2, <1>3

LEMMA RunElsewhere ==
  ASSUME NEW j \in MatvecJobs, NEW cfg, NEW grids, Run(j, cfg, grids)
  PROVE  Elsewhere
BY ServedElsewhere, ShapeAssumption, HeadsAssumption DEF Run

LEMMA RunGemmElsewhere ==
  ASSUME NEW j \in GemmJobs, NEW dbuf, NEW grids, RunGemm(j, grids, dbuf)
  PROVE  Elsewhere
BY ServedElsewhere, ShapeAssumption, HeadsAssumption DEF RunGemm

\* Those of matvec.cuh.
LEMMA MatvecElsewhere ==
  ASSUME MatvecNext
  PROVE  Elsewhere
<1> USE ShapeAssumption, HeadsAssumption DEF Elsewhere, FromDelta, Apart, DeltaKernels, AttnKernels, BatchKernels
<1>1. CASE Proj
  BY <1>1, RunElsewhere DEF Proj, Jobs
<1>2. CASE ProjQq
  BY <1>2, RunElsewhere DEF ProjQq, Jobs
<1>3. CASE MatvecLaunchRows
  BY <1>3, RunElsewhere DEF MatvecLaunchRows, Jobs
<1>4. CASE MatvecLaunchTuned
  BY <1>4, RunElsewhere DEF MatvecLaunchTuned, Jobs
<1>5. CASE MatvecLaunchUnroll
  BY <1>5, RunElsewhere DEF MatvecLaunchUnroll, Jobs
<1>6. CASE MatvecLaunchMinb
  BY <1>6, RunElsewhere DEF MatvecLaunchMinb, Jobs
<1>7. CASE MatvecLaunchVariant
  BY <1>7, RunElsewhere DEF MatvecLaunchVariant, Jobs
<1>8. CASE MatvecLaunchLutLds
  BY <1>8, RunElsewhere DEF MatvecLaunchLutLds, Jobs
<1>9. CASE MatvecLaunchLutLdsUnroll
  BY <1>9, RunElsewhere DEF MatvecLaunchLutLdsUnroll, Jobs
<1>10. CASE MatvecLaunchBatchUnroll
  BY <1>10, RunElsewhere DEF MatvecLaunchBatchUnroll, Jobs
<1>11. ASSUME NEW w \in DOMAIN at, QuantizeRow(w)
      PROVE  Elsewhere
  BY <1>11 DEF QuantizeRow, Phase, Still
<1>12. ASSUME NEW w \in DOMAIN at, QuantizeBatch(w)
      PROVE  Elsewhere
  BY <1>12 DEF QuantizeBatch, Phase, Still
<1>13. ASSUME NEW w \in DOMAIN at, CopyLut(w)
      PROVE  Elsewhere
  BY <1>13 DEF CopyLut, Phase, Still
<1>14. ASSUME NEW w \in DOMAIN at, RowSums(w)
      PROVE  Elsewhere
  BY <1>14 DEF RowSums, Phase, Still
<1>15. ASSUME NEW w \in DOMAIN at, StoreRow(w)
      PROVE  Elsewhere
  BY <1>15 DEF StoreRow, Phase, Still
<1>16. ASSUME NEW w \in DOMAIN at, BatchSums(w)
      PROVE  Elsewhere
  BY <1>16 DEF BatchSums, Phase, Still
<1>17. ASSUME NEW w \in DOMAIN at, StoreBatch(w)
      PROVE  Elsewhere
  BY <1>17 DEF StoreBatch, Phase, Still
<1> QED
  BY <1>1, <1>2, <1>3, <1>4, <1>5, <1>6, <1>7, <1>8, <1>9, <1>10, <1>11, <1>12, <1>13, <1>14, <1>15,
     <1>16, <1>17 DEF MatvecNext

\* Those of gemm.cuh.
LEMMA GemmElsewhere ==
  ASSUME GemmNext
  PROVE  Elsewhere
<1> USE ShapeAssumption, HeadsAssumption DEF Elsewhere, FromDelta, Apart, DeltaKernels, AttnKernels, BatchKernels
<1>1. CASE GemmLaunchCfg
  BY <1>1, RunGemmElsewhere DEF GemmLaunchCfg, Calls
<1>2. CASE ProjBatch
  BY <1>2, RunGemmElsewhere, ServedElsewhere DEF ProjBatch, Calls
<1>3. ASSUME NEW w \in DOMAIN at, Prologue(w)
      PROVE  Elsewhere
  BY <1>3 DEF Prologue, Phase, Still
<1>4. ASSUME NEW w \in DOMAIN at, Epilogue(w)
      PROVE  Elsewhere
  BY <1>4 DEF Epilogue, Phase, Still
<1>5. ASSUME NEW w \in DOMAIN at, WmmaPrologue(w)
      PROVE  Elsewhere
  BY <1>5 DEF WmmaPrologue, Phase, Still
<1>6. ASSUME NEW w \in DOMAIN at, WmmaEpilogue(w)
      PROVE  Elsewhere
  BY <1>6 DEF WmmaEpilogue, Phase, Still
<1>7. ASSUME NEW w \in DOMAIN at, NEW p, Window(w, p)
      PROVE  Elsewhere
  BY <1>7 DEF Window, Phase, Still
<1>8. ASSUME NEW w \in DOMAIN at, NEW p, StageWindow(w, p)
      PROVE  Elsewhere
  BY <1>8 DEF StageWindow, Phase, Still
<1>9. ASSUME NEW w \in DOMAIN at, NEW p, ConsumeWindow(w, p)
      PROVE  Elsewhere
  BY <1>9 DEF ConsumeWindow, Phase, Still
<1>10. ASSUME NEW w \in DOMAIN at, NEW p, WmmaWindow(w, p)
      PROVE  Elsewhere
  BY <1>10 DEF WmmaWindow, Phase, Still
<1> QED
  BY <1>1, <1>2, <1>3, <1>4, <1>5, <1>6, <1>7, <1>8, <1>9, <1>10 DEF GemmNext


\* The actions of the delta rule; the others of gdn.cuh.
DeltaStep ==
  \/ DeltaLaunch
  \/ \E w \in DOMAIN at :
       \/ DeltaRow(w) \/ DeltaRowsIlp(w) \/ LoadRows(w) \/ StoreRows(w)
       \/ \E p \in {at[w]} : DeltaToken(w, p) \/ TwoPassToken(w, p) \/ FusedToken(w, p)

LEMMA GatedDeltaElsewhere ==
  ASSUME GatedDeltaNext
  PROVE  DeltaStep \/ Elsewhere
<1> USE DEF Elsewhere, FromDelta, Apart, DeltaKernels, AttnKernels, BatchKernels
<1>1. CASE Conv1dStateLaunch
  BY <1>1, DeltaJobsAssumption, HeadsAssumption DEF Conv1dStateLaunch, Start, None
<1>2. CASE GdnConvFuseLaunch
  BY <1>2, DeltaJobsAssumption, HeadsAssumption DEF GdnConvFuseLaunch, Start, None
<1>3. CASE Conv1dStateBatchLaunch
  BY <1>3, DeltaJobsAssumption, HeadsAssumption DEF Conv1dStateBatchLaunch, Start, None
<1>4. ASSUME NEW w \in DOMAIN at, ConvChannel(w)
      PROVE  Elsewhere
  BY <1>4 DEF ConvChannel, Phase, Still
<1>5. ASSUME NEW w \in DOMAIN at, ConvRow(w)
      PROVE  Elsewhere
  BY <1>5 DEF ConvRow, Phase, Still
<1>6. ASSUME NEW w \in DOMAIN at, NormRow(w)
      PROVE  Elsewhere
  BY <1>6 DEF NormRow, Phase, Still
<1>7. ASSUME NEW w \in DOMAIN at, PassValue(w)
      PROVE  Elsewhere
  BY <1>7 DEF PassValue, Phase, Still
<1>8. ASSUME NEW w \in DOMAIN at, NEW p, ConvToken(w, p)
      PROVE  Elsewhere
  BY <1>8 DEF ConvToken, Phase, Still
<1> QED
  BY <1>1, <1>2, <1>3, <1>4, <1>5, <1>6, <1>7, <1>8 DEF GatedDeltaNext, DeltaStep, DeltaLaunch

\* They leave the invariant alone.
LEMMA ElsewhereStep ==
  ASSUME KernelsInv, FromDelta
  PROVE  KernelsInv'
<1>1. CASE job = None /\ job' # None /\ "shape" \notin DOMAIN job'
  BY <1>1 DEF KernelsInv
<1>2. CASE job' = job /\ cta.kernel \notin DeltaKernels /\ cta.kernel # "idle"
  <2>1. cta # Idle
    BY <1>2 DEF Idle
  <2>2. job # None
    BY <2>1 DEF KernelsInv
  <2>3. ASSUME "shape" \in DOMAIN job
        PROVE  FALSE
    <3>1. job \in DeltaJobs /\ cta \in TheGrid(job)
      BY <2>1, <2>3 DEF KernelsInv, DeltaInv, Running
    <3> QED
      BY <1>2, <3>1, GridFacts, JobFacts DEF DeltaKernels
  <2> QED
    BY <1>2, <2>2, <2>3 DEF KernelsInv
<1> QED
  BY <1>1, <1>2 DEF FromDelta, Apart

-----------------------------------------------------------------------------
(* The theorem                                                             *)

\* A step of the launch that is running.
LEMMA SameJob ==
  ASSUME job # None, job' = job, DeltaInv => DeltaInv', KernelsInv
  PROVE  KernelsInv'
BY DEF KernelsInv

LEMMA DeltaStepKeeps ==
  ASSUME KernelsInv, DeltaStep
  PROVE  KernelsInv'
<1>1. CASE DeltaLaunch
  BY <1>1, DeltaLaunchStep
<1>2. ASSUME NEW w \in DOMAIN at, DeltaRow(w) \/ DeltaRowsIlp(w) \/ LoadRows(w) \/ StoreRows(w)
      PROVE  KernelsInv'
  <2>1. cta.kernel \in DeltaKernels /\ job' = job
    BY <1>2 DEF DeltaKernels, BatchKernels, DeltaRow, DeltaRowsIlp, LoadRows, StoreRows, Phase, Still
  <2>2. cta # Idle
    BY <2>1 DEF Idle, DeltaKernels, BatchKernels
  <2>3. job # None
    BY <2>2 DEF KernelsInv
  <2>4. DeltaInv => DeltaInv'
    BY <1>2, DeltaRowStep, DeltaRowsIlpStep, LoadRowsStep, StoreRowsStep
  <2> QED
    BY <2>1, <2>3, <2>4, SameJob
<1>3. ASSUME NEW w \in DOMAIN at, NEW p, DeltaToken(w, p) \/ TwoPassToken(w, p) \/ FusedToken(w, p)
      PROVE  KernelsInv'
  <2>1. cta.kernel \in DeltaKernels /\ job' = job
    BY <1>3 DEF DeltaKernels, BatchKernels, DeltaToken, TwoPassToken, FusedToken, Phase, Still
  <2>2. cta # Idle
    BY <2>1 DEF Idle, DeltaKernels, BatchKernels
  <2>3. job # None
    BY <2>2 DEF KernelsInv
  <2>4. DeltaInv => DeltaInv'
    BY <1>3, DeltaTokenStep, TwoPassTokenStep, FusedTokenStep
  <2> QED
    BY <2>1, <2>3, <2>4, SameJob
<1> QED
  BY <1>1, <1>2, <1>3 DEF DeltaStep

LEMMA KernelsStep ==
  ASSUME KernelsInv, [KernelsNext]_vars
  PROVE  KernelsInv'
<1>1. CASE RunCta
  <2>1. job # None /\ job' = job
    BY <1>1 DEF RunCta, KernelsInv
  <2> QED
    BY <1>1, <2>1, RunCtaStep, SameJob
<1>2. CASE RetireCta
  <2>1. job # None /\ job' = job
    BY <1>2 DEF RetireCta, KernelsInv
  <2> QED
    BY <1>2, <2>1, RetireCtaStep, SameJob
<1>3. CASE Collect
  <2>1. stream = <<>> /\ cta = Idle /\ job' = None /\ mem' = <<>> /\ stream' = stream /\ cta' = cta
    BY <1>3 DEF Collect, Finished
  <2>2. "shape" \notin DOMAIN None
    BY DEF None
  <2> QED
    BY <2>1, <2>2 DEF KernelsInv
<1>4. CASE AttentionNext \/ ElementwiseNext \/ NormsNext \/ MatvecNext \/ GemmNext
  BY <1>4, AttentionApart, ElementwiseElsewhere, NormsElsewhere, MatvecElsewhere, GemmElsewhere,
     ElsewhereStep DEF Elsewhere
<1>5. CASE GatedDeltaNext
  BY <1>5, GatedDeltaElsewhere, DeltaStepKeeps, ElsewhereStep DEF Elsewhere
<1>6. CASE UNCHANGED vars
  BY <1>6 DEF vars, KernelsInv, DeltaInv
<1> QED
  BY <1>1, <1>2, <1>3, <1>4, <1>5, <1>6 DEF KernelsNext

\* When a launch has finished every warp has stored its rows.
LEMMA FinishedRows ==
  ASSUME KernelsInv
  PROVE  RecurrenceExact
<1> SUFFICES ASSUME Finished, "shape" \in DOMAIN job,
                    NEW h \in 0 .. job.nvh - 1, NEW j \in 0 .. job.s - 1
             PROVE  /\ Read(mem, StateRow(h, j)) = StateAfter(h, j)[job.tokens].row
                    /\ \A t \in 1 .. job.tokens :
                         Read(mem, VOut(t - 1, h, j)) = StateAfter(h, j)[t].out
  BY DEF RecurrenceExact
<1>1. /\ stream = <<>> /\ cta = Idle /\ job \in DeltaJobs
      /\ AllRows(job, stream, cta, at, regs, lds, mem)
  BY DEF Finished, KernelsInv, DeltaInv
<1>2. Place(job, stream, cta, at, h, j) = End
  <2>1. OwnerOf(job, h, j) # Idle
    BY <1>1, GridFacts
  <2> QED
    BY <1>1, <2>1 DEF Place, Waiting
<1>3. RowHas(job, h, j, mem, job.tokens, job.tokens)
  BY <1>1, <1>2 DEF AllRows, RowFine, Stored, Taken
<1>4. StateAfter(h, j) = After(job, h, j)
  BY AfterIsReference
<1>5. StateRow(h, j) = SCell(job, h, j)
  BY DEF StateRow, SCell
<1>6. ASSUME NEW t \in 1 .. job.tokens
      PROVE  Read(mem, VOut(t - 1, h, j)) = StateAfter(h, j)[t].out
  <2>1. VOut(t - 1, h, j) = OCell(job, t - 1, h, j)
    BY DEF VOut, OCell
  <2>2. t - 1 \in 0 .. job.tokens - 1 /\ (t - 1) + 1 = t /\ t - 1 < job.tokens
    BY <1>1, JobFacts
  <2>3. Read(mem, OCell(job, t - 1, h, j)) = After(job, h, j)[(t - 1) + 1].out
    BY <1>3, <2>2 DEF RowHas
  <2> QED
    BY <1>4, <2>1, <2>2, <2>3
<1> QED
  BY <1>3, <1>4, <1>5, <1>6 DEF RowHas

\* Whatever kernel walks a chunk, and in whatever order its CTAs and warps run,
\* the launch leaves the state and the outputs of the recurrence.
THEOREM RecurrenceHolds == KernelsSpec => []RecurrenceExact
<1>1. KernelsInit => KernelsInv
  <2>1. "shape" \notin DOMAIN None
    BY DEF None
  <2> QED
    BY <2>1 DEF KernelsInit, CtaInit, KernelsInv
<1>2. KernelsInv /\ [KernelsNext]_vars => KernelsInv'
  BY KernelsStep
<1>3. KernelsInv => RecurrenceExact
  BY FinishedRows
<1> QED
  BY <1>1, <1>2, <1>3, PTL DEF KernelsSpec
=============================================================================
