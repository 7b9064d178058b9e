------------------------------- MODULE Matvec -------------------------------
(***************************************************************************)
(* The quantised matrix-vector product (matvec.cuh).  A row of weights is  *)
(* shared by WPR warps; each lane walks every so many blocks of it, in one *)
(* or several accumulators, and the lanes of a warp, then the warps of the *)
(* row, are summed.  The batched kernel reads the weights once for all its *)
(* tokens.  The product of a block with its activations is one value (what *)
(* is inside is module VecDot's); the table it decodes with is part of it. *)
(***************************************************************************)
EXTENDS Cta, TLC

CONSTANTS Slots,        \* qi / vdr, the lanes that share a block, by type
          ActBlocks,    \* qk / 32, the activation blocks of a weight block
          BlockWords,   \* the size of a weight block
          LutWords,     \* the size of the type's table, 0 if it has no LDS kernel
          BatchNs,      \* the numbers of tokens the batched kernel is compiled for
          UnrollNs,     \* those its unrolled form is
          MaxWarps,     \* 32, the warps of the largest CTA
          MatvecJobs    \* the launches to make

Types == 1..14
kMtRows == <<2, 2, 1, 8, 4, 1, 1, 1, 2, 1, 8, 8, 2, 8>>
kMtWpr == <<1, 1, 8, 1, 1, 4, 1, 2, 1, 4, 1, 1, 1, 1>>
kMtIlp == <<4, 2, 2, 2, 2, 2, 2, 4, 1, 1, 1, 1, 1, 2>>
kMtUnroll == <<1, 1, 1, 1, 1, 1, 1, 1, 2, 1, 2, 2, 2, 1>>

ASSUME TablesValid ==
  \A dt \in Types :
    /\ kMtRows[dt] \in 1..16 /\ kMtWpr[dt] \in 1..8 /\ kMtRows[dt] * kMtWpr[dt] <= 32
    /\ kMtIlp[dt] \in 1..4 /\ kMtUnroll[dt] \in 1..4
    /\ kMtIlp[dt] = 1 \/ kMtUnroll[dt] = 1

ASSUME SlotsFit ==
  \A dt \in Types : Slots[dt] \in 1..Lanes /\ Lanes % Slots[dt] = 0

Config(dt) ==
  [rows |-> kMtRows[dt], wpr |-> kMtWpr[dt], ilp |-> kMtIlp[dt], unroll |-> kMtUnroll[dt],
   lut |-> FALSE]
-----------------------------------------------------------------------------
(* Activations: a warp turns 32 floats into one block.                     *)
Quantized(x) == Ap1("q8", x)
QuantizeRow(w) ==
  /\ Phase({"q8"}, w, 0)
  /\ LET b == cta.x * 4 + w
     IN  IF b < job.cols THEN Put(Store("q8", b, Quantized(In("x", b))))
         ELSE UNCHANGED <<regs, lds, mem>>
  /\ Goto(w, End) /\ Still

(* quantize_q8_1_batch_kernel: block blk of token t.                       *)
QuantizeBatch(w) ==
  /\ Phase({"q8_batch"}, w, 0)
  /\ LET b == cta.x * 4 + w
         t == b \div job.cols
         blk == b % job.cols
     IN  IF b < job.n * job.cols
         THEN Put(Store("q8", b, Quantized(In("x", t * job.xstride + blk))))
         ELSE UNCHANGED <<regs, lds, mem>>
  /\ Goto(w, End) /\ Still

QuantizeRowGrid(j) == Grid("q8", 4, Blocks(j.cols, 4), 1, 1)
QuantizeBatchGrid(j) == Grid("q8_batch", 4, Blocks(j.n * j.cols, 4), 1, 1)
-----------------------------------------------------------------------------
(* Where warp w of a CTA is: its row, its place in it, and its token n.    *)
RowOf(w) == cta.x * cta.cfg.rows + (w \div cta.cfg.wpr)
ActiveRow(w) == RowOf(w) < job.nrows
RowRead(w) == IF ActiveRow(w) THEN RowOf(w) ELSE 0
InGroup(w) == w % cta.cfg.wpr
Token(n) == cta.from + n
Cell(n, w) == <<"dst", Token(n) * job.nrows + RowOf(w)>>

BlocksPerRow(j) == j.cols \div ActBlocks[j.dt]
Acts(n, k) ==
  [i \in 1..ActBlocks[job.dt] |->
    In("q8", Token(n) * job.stride + k * ActBlocks[job.dt] + i - 1)]

(* The blocks a slot walks, one sequence for each accumulator: groups of   *)
(* ILP or UNROLL blocks while a whole group is left, then one by one.      *)
WholeGroups(slot, step, s, blocks) ==
  Cardinality({i \in 0..blocks : slot + (i * s + s - 1) * step < blocks})
Chains(slot, step, blocks) ==
  LET s == IF cta.cfg.unroll = 1 THEN cta.cfg.ilp ELSE cta.cfg.unroll
      full == WholeGroups(slot, step, s, blocks)
      rest == Cardinality({i \in 0..blocks : slot + i * step < blocks}) - full * s
      walk(first, by, n) == [i \in 1..n |-> first + (i - 1) * by]
      tail == walk(slot + full * s * step, step, rest)
  IN  IF cta.cfg.unroll = 1
      THEN [u \in 0 .. s - 1 |->
             walk(slot + u * step, s * step, full) \o (IF u = 0 THEN tail ELSE <<>>)]
      ELSE [u \in {0} |-> walk(slot, step, full * s) \o tail]

(* The table the blocks are decoded with, from the LDS or device memory.   *)
Table == [i \in 1..LutWords[job.dt] |-> Raw(<<"grid", i>>)]
TableSeen == IF cta.cfg.lut THEN [i \in DOMAIN Table |-> Read(lds, <<"lut", i>>)] ELSE Table

LaneSum(w, n, tg) ==
  LET slots == Slots[job.dt]
      acc == Chains(tg \div slots, (cta.cfg.wpr * Lanes) \div slots, BlocksPerRow(job))
  IN  [kqs |-> tg % slots,
       acc |-> [u \in DOMAIN acc |-> [i \in DOMAIN acc[u] |-> <<acc[u][i], Acts(n, acc[u][i])>>]]]
WarpSum(w, n) ==
  [op |-> "shuffle", row |-> RowRead(w), table |-> TableSeen,
   of |-> [l \in 0 .. Lanes - 1 |-> LaneSum(w, n, InGroup(w) * Lanes + l)]]
RowSum(parts) == [op |-> "row", of |-> parts]

Part(w, n) == <<"part", w \div cta.cfg.wpr, InGroup(w), n>>
Counted == 0 .. cta.count - 1

(* The warp's sums: straight to memory, or to the LDS for the row.         *)
Sums(w) ==
  IF cta.cfg.wpr > 1
  THEN /\ Keep(regs, [p \in {Part(w, n) : n \in Counted} |-> WarpSum(w, p[4])])
       /\ Goto(w, 2)
  ELSE /\ IF ActiveRow(w)
          THEN Put(Together({[c \in {Cell(n, w)} |-> RowSum(<<WarpSum(w, n)>>)] : n \in Counted}))
          ELSE UNCHANGED <<regs, lds, mem>>
       /\ Goto(w, End)

(* The first warp of the row adds what its warps left.                     *)
AddParts(w) ==
  /\ IF ActiveRow(w) /\ InGroup(w) = 0
     THEN Put(Together({[c \in {Cell(n, w)} |->
            RowSum([i \in 1..cta.cfg.wpr |-> Read(lds, Part(w + i - 1, n))])] : n \in Counted}))
     ELSE UNCHANGED <<regs, lds, mem>>
  /\ Goto(w, End)
-----------------------------------------------------------------------------
(* matvec_kernel_gen                                                       *)
AnyTime(p) == \A v \in DOMAIN at : at[v] >= 0 \/ at[v] = End
AllCopied(p) == Synced(p)

CopyLut(w) ==
  /\ Phase({"gen"}, w, 0) /\ cta.cfg.lut
  /\ LET threads == cta.warps * Lanes
         mine == {i \in DOMAIN Table : ((i - 1) % threads) \div Lanes = w}
     IN  Keep(regs, [c \in {<<"lut", i>> : i \in mine} |-> Table[c[2]]])
  /\ Goto(w, 1) /\ Still

RowSums(w) ==
  /\ Phase({"gen"}, w, IF cta.cfg.lut THEN 1 ELSE 0)
  /\ cta.cfg.lut => AllCopied(1)
  /\ Sums(w) /\ Still

StoreRow(w) ==
  /\ Phase({"gen"}, w, 2) /\ Synced(2)
  /\ AddParts(w) /\ Still

(* matvec_kernel_batch                                                     *)
BatchSums(w) == Phase({"batch"}, w, 0) /\ Sums(w) /\ Still
StoreBatch(w) ==
  /\ Phase({"batch"}, w, 2) /\ Synced(2)
  /\ AddParts(w) /\ Still
-----------------------------------------------------------------------------
(* launch_gen and matvec_launch_batch_n: the tokens from .. from+count-1.  *)
MatvecGrid(kernel, j, cfg, from, count) ==
  {g @@ [cfg |-> cfg, from |-> from, count |-> count] :
    g \in Grid(kernel, cfg.rows * cfg.wpr, Blocks(j.nrows, cfg.rows), 1, 1)}
GenGrid(j, cfg) == MatvecGrid("gen", j, cfg, 0, 1)

matvec_lut_lds_ok(j) ==
  /\ LutWords[j.dt] > 0 /\ j.nrows > 0
  /\ Config(j.dt).rows * BlocksPerRow(j) * BlockWords[j.dt] >= 2 * LutWords[j.dt]
LutLdsConfig(j) == [Config(j.dt) EXCEPT !.lut = LutWords[j.dt] > 0]
Shipped(j) == IF matvec_lut_lds_ok(j) THEN LutLdsConfig(j) ELSE Config(j.dt)

(* The batched kernel keeps the ILP of the type and never unrolls.         *)
BatchConfig(dt) == [Config(dt) EXCEPT !.unroll = 1]

Run(j, cfg, grids) == Start(With(j, [cfg |-> cfg, by |-> "matvec", ok |-> TRUE]), grids)
Jobs(op) == {j \in MatvecJobs : j.op = op}

(* Graph::proj, and Graph::proj_qq on the row it quantised.                *)
Proj ==
  \E j \in Jobs("proj") :
    Run(j, Shipped(j), <<QuantizeRowGrid(j), GenGrid(j, Shipped(j))>>)
ProjQq == \E j \in Jobs("proj_qq") : Run(j, Shipped(j), <<GenGrid(j, Shipped(j))>>)

(* The launches of the benches: forced rows, accumulators, unroll, table.  *)
MatvecLaunchRows ==
  \E j \in Jobs("matvec_launch_rows") :
    LET most == MaxWarps \div Config(j.dt).wpr
        rows == IF j.rows > most THEN most ELSE j.rows
        cfg == [Config(j.dt) EXCEPT !.rows = rows, !.unroll = 1]
    IN  rows \in {1, 2, 4, 8, 16} /\ Run(j, cfg, <<GenGrid(j, cfg)>>)

MatvecLaunchTuned ==
  \E j \in Jobs("matvec_launch_tuned") :
    LET cfg == [Config(j.dt) EXCEPT !.ilp = j.ilp, !.unroll = 1]
    IN  j.ilp \in {1, 2, 4} /\ Run(j, cfg, <<GenGrid(j, cfg)>>)

(* Unroll 1 is only there to prefetch, and keeps the accumulators.         *)
MatvecLaunchUnroll ==
  \E j \in Jobs("matvec_launch_unroll") :
    LET cfg == IF j.unroll = 1 THEN [Config(j.dt) EXCEPT !.unroll = 1]
               ELSE [Config(j.dt) EXCEPT !.ilp = 1, !.unroll = j.unroll]
    IN  j.unroll \in {1, 2, 4} /\ Run(j, cfg, <<GenGrid(j, cfg)>>)

MatvecLaunchMinb ==
  \E j \in Jobs("matvec_launch_minb") :
    LET cfg == [Config(j.dt) EXCEPT !.unroll = 1]
    IN  j.minb \in {0, 2, 3, 4, 6} /\ Run(j, cfg, <<GenGrid(j, cfg)>>)

MatvecLaunchVariant ==
  \E j \in Jobs("matvec_launch_variant") :
    LET cfg == [Config(j.dt) EXCEPT !.unroll = 1]
    IN  j.dt \in {7, 8, 9, 12, 13} /\ Run(j, cfg, <<GenGrid(j, cfg)>>)

MatvecLaunchLutLds ==
  \E j \in Jobs("matvec_launch_lut_lds") :
    LET cfg == IF LutWords[j.dt] > 0 THEN LutLdsConfig(j) ELSE Shipped(j)
    IN  Run(j, cfg, <<GenGrid(j, cfg)>>)

MatvecLaunchLutLdsUnroll ==
  \E j \in Jobs("matvec_launch_lut_lds_unroll") :
    LET cfg == IF LutWords[j.dt] > 0
               THEN [LutLdsConfig(j) EXCEPT !.ilp = 1, !.unroll = j.unroll]
               ELSE Shipped(j)
    IN  j.unroll \in {1, 2, 4} /\ Run(j, cfg, <<GenGrid(j, cfg)>>)

MatvecLaunchBatchUnroll ==
  \E j \in Jobs("matvec_launch_batch_unroll") :
    LET cfg == [Config(j.dt) EXCEPT !.ilp = 1, !.unroll = j.unroll]
    IN  /\ j.n \in UnrollNs /\ j.unroll \in {1, 2, 4} /\ j.dt \in {9, 12, 13}
        /\ Run(j, cfg, <<MatvecGrid("batch", j, cfg, 0, j.n)>>)

MatvecNext ==
  \/ Proj \/ ProjQq \/ MatvecLaunchRows \/ MatvecLaunchTuned \/ MatvecLaunchUnroll \/ MatvecLaunchMinb
  \/ MatvecLaunchVariant \/ MatvecLaunchLutLds \/ MatvecLaunchLutLdsUnroll
  \/ MatvecLaunchBatchUnroll
  \/ \E w \in DOMAIN at :
       \/ QuantizeRow(w) \/ QuantizeBatch(w) \/ CopyLut(w)
       \/ RowSums(w) \/ StoreRow(w) \/ BatchSums(w) \/ StoreBatch(w)
=============================================================================
