-------------------------------- MODULE Gemm --------------------------------
(***************************************************************************)
(* The tiled products of the prefill (gemm.cuh), and how a chunk of tokens *)
(* chooses between them and the batched matrix-vector product.  A CTA      *)
(* stages a window of two blocks of every weight row of its tile in the    *)
(* LDS while its threads multiply the window before; the WMMA kernel also  *)
(* stages the scales of the activations and holds the tile transposed.     *)
(***************************************************************************)
EXTENDS Matvec

CONSTANTS BigTile,       \* the tile of 64 tokens or more: [bm, bn, rm, rn]
          SmallTile,     \* the tile below that
          BenchTile,     \* BM128, the tile of the A/B variants
          BigBatch,      \* 64, the tokens from which the big tile is used
          SubBatch,      \* 16, the most tokens of a batched product
          WmmaWarps,     \* 4, the warps of a WMMA CTA along the tokens
          WmmaOn,        \* whether the environment leaves WMMA on
          GemmJobs       \* the launches to make

(* The solvers of gemm.cuh are a block decoded and multiplied (GemmSolver). *)
Block(n, ka) == Raw(<<"W", n, ka>>)
Decoded(b) == Ap1("decode", b)
Mac(w, a, scale) == [op |-> "mac", w |-> w, a |-> a, scale |-> scale]
Act(m, ka) == In("q8", m * job.stride + ka)
ScaleOf(a) == Ap1("d", a)

(* A thread past the last row or token repeats the last one.               *)
Within(i, n) == IF i < n THEN i ELSE n - 1
Windows == job.cols \div 2
NextWindow(i) == i + 1

M0 == cta.y * cta.tile.bm
N0 == cta.x * cta.tile.bn
GemmThreads(t) == (t.bm \div t.rm) * (t.bn \div t.rn)
Mine(w) == {t \in 0 .. cta.warps * Lanes - 1 : t \div Lanes = w}

(* pf_load and pf_store: the tasks of the warp, a block of a row each.     *)
Staged(w, buf, i) ==
  LET tasks == {k \in 0 .. 2 * cta.tile.bn - 1 : (k % (cta.warps * Lanes)) \div Lanes = w}
      value(k) == Block(Within(N0 + k \div 2, job.nrows), 2 * i + (k % 2))
  IN  Together({[c \in {<<"w", buf, k \div 2, k % 2>>} |->
        IF cta.tile.raw THEN value(k) ELSE Decoded(value(k))] : k \in tasks})

(* The blocks of window i, by the threads of the warp, and their sums.     *)
Column(t, c) == (t % (cta.tile.bn \div cta.tile.rn)) + c * (cta.tile.bn \div cta.tile.rn)
TokenRow(t, r) == M0 + t \div (cta.tile.bn \div cta.tile.rn) + r * (cta.tile.bm \div cta.tile.rm)
Multiplied(w, buf, i) ==
  LET weight(n, kb) ==
        LET v == Read(lds, <<"w", buf, n, kb>>) IN IF cta.tile.raw THEN Decoded(v) ELSE v
      mac(x, kb) ==
        LET a == Act(Within(TokenRow(x[1], x[2]), job.n), 2 * i + kb)
        IN  Mac(weight(Column(x[1], x[3]), kb), a, ScaleOf(a))
  IN  [x \in Mine(w) \X (0 .. cta.tile.rm - 1) \X (0 .. cta.tile.rn - 1) |->
        (IF i = 0 THEN <<>> ELSE regs[w][x]) \o <<mac(x, 0), mac(x, 1)>>]
-----------------------------------------------------------------------------
(* gemm_i8_kernel with two buffers: phase i + 1 is window i.               *)
Prologue(w) ==
  /\ Phase({"gemm"}, w, 0)
  /\ IF cta.tile.dbuf THEN Keep(regs, Staged(w, 0, 0)) ELSE UNCHANGED <<regs, lds, mem>>
  /\ Goto(w, 1) /\ Still

SameBuffer(buf) == buf
Other(buf) == 1 - buf
Window(w, i) ==
  /\ Phase({"gemm"}, w, i + 1) /\ Synced(i + 1) /\ cta.tile.dbuf /\ i < Windows
  /\ regs' = IF cta.tile.stage THEN regs ELSE [regs EXCEPT ![w] = Multiplied(w, i % 2, i)]
  /\ lds' = IF NextWindow(i) < Windows
            THEN Write(lds, Staged(w, Other(i % 2), NextWindow(i))) ELSE lds
  /\ UNCHANGED mem
  /\ Goto(w, NextWindow(i) + 1) /\ Still

(* With one buffer a window is staged, then multiplied: phases 2i + 1 and  *)
(* 2i + 2.  The first one is not staged, neither here nor in the prologue. *)
StageWindow(w, i) ==
  /\ Phase({"gemm"}, w, 2 * i + 1) /\ Synced(2 * i + 1) /\ ~cta.tile.dbuf /\ i < Windows
  /\ IF i > 0 THEN Keep(regs, Staged(w, 0, i)) ELSE UNCHANGED <<regs, lds, mem>>
  /\ Goto(w, 2 * i + 2) /\ Still

ConsumeWindow(w, i) ==
  /\ Phase({"gemm"}, w, 2 * i + 2) /\ (i > 0 => Synced(2 * i + 2)) /\ ~cta.tile.dbuf
  /\ regs' = [regs EXCEPT ![w] = Multiplied(w, 0, i)]
  /\ UNCHANGED <<lds, mem>>
  /\ Goto(w, 2 * i + 3) /\ Still

LastPhase == IF cta.tile.dbuf THEN Windows + 1 ELSE 2 * Windows + 1
Epilogue(w) ==
  /\ Phase({"gemm"}, w, LastPhase) /\ Synced(LastPhase)
  /\ LET out == {x \in DOMAIN regs[w] :
                   TokenRow(x[1], x[2]) < job.n /\ N0 + Column(x[1], x[3]) < job.nrows}
         cell(x) == <<"dst", TokenRow(x[1], x[2]) * job.nrows + N0 + Column(x[1], x[3])>>
     IN  Put(Together({[c \in {cell(x)} |-> regs[w][x]] : x \in out}))
  /\ Goto(w, End) /\ Still
-----------------------------------------------------------------------------
(* gemm_wmma_kernel: the lanes of a warp hold a square of Frag by Frag,    *)
(* lane L the rows of half L \div Frag in column L % Frag.                 *)
Frag == Lanes \div 2
Depth == Frag \div 2
WmmaM(w) == (w % WmmaWarps) * Frag
WmmaN(w) == (w \div WmmaWarps) * WmmaWarps * Frag
WmmaTile == [bm |-> WmmaWarps * Frag, bn |-> 2 * WmmaWarps * Frag, rm |-> 1, rn |-> 1,
             dbuf |-> TRUE, raw |-> FALSE, stage |-> FALSE]

StagedScales(w, buf, i) ==
  LET bm == cta.tile.bm
      tasks == {k \in 0 .. 2 * bm - 1 : (k % (cta.warps * Lanes)) \div Lanes = w}
  IN  Together({[c \in {<<"da", buf, k % 2, k \div 2>>} |->
        ScaleOf(Act(Within(M0 + k \div 2, job.n), 2 * i + (k % 2)))] : k \in tasks})
StagedBoth(w, buf, i) == Write(Staged(w, buf, i), StagedScales(w, buf, i))

(* Slot j of lane l of square t: a row of the tile and one of its columns. *)
SquareSlots(w) == (0 .. Lanes - 1) \X (0 .. WmmaWarps - 1) \X (0 .. Depth - 1)
SquareRow(w, x) == WmmaM(w) + (x[1] \div Frag) * Depth + x[3]
SquareColumn(w, x) == WmmaN(w) + Frag * x[2] + (x[1] % Frag)
Fragments(w, buf, i) ==
  LET mac(x, kb) ==
        Mac(Read(lds, <<"w", buf, SquareColumn(w, x), kb>>),
            Act(Within(M0 + SquareRow(w, x), job.n), 2 * i + kb),
            Read(lds, <<"da", buf, kb, SquareRow(w, x)>>))
  IN  [x \in SquareSlots(w) |->
        (IF i = 0 THEN <<>> ELSE regs[w][x]) \o <<mac(x, 0), mac(x, 1)>>]

WmmaPrologue(w) ==
  /\ Phase({"wmma"}, w, 0)
  /\ Keep(regs, StagedBoth(w, 0, 0))
  /\ Goto(w, 1) /\ Still

WmmaWindow(w, i) ==
  /\ Phase({"wmma"}, w, i + 1) /\ Synced(i + 1) /\ i < Windows
  /\ Keep([regs EXCEPT ![w] = Fragments(w, i % 2, i)],
          IF NextWindow(i) < Windows THEN StagedBoth(w, Other(i % 2), NextWindow(i)) ELSE <<>>)
  /\ Goto(w, NextWindow(i) + 1) /\ Still

WmmaEpilogue(w) ==
  /\ Phase({"wmma"}, w, Windows + 1) /\ Synced(Windows + 1)
  /\ LET out == {x \in SquareSlots(w) :
                   M0 + SquareRow(w, x) < job.n /\ N0 + SquareColumn(w, x) < job.nrows}
         cell(x) == <<"dst", (M0 + SquareRow(w, x)) * job.nrows + N0 + SquareColumn(w, x)>>
     IN  Put(Together({[c \in {cell(x)} |-> regs[w][x]] : x \in out}))
  /\ Goto(w, End) /\ Still
-----------------------------------------------------------------------------
(* gemm_launch_t and the launches of the WMMA kernel.                      *)
Production(t) == t @@ [dbuf |-> TRUE, raw |-> FALSE, stage |-> FALSE]
TileGrid(kernel, j, t, threads) ==
  {g @@ [tile |-> t] :
    g \in Grid(kernel, threads \div Lanes, Blocks(j.nrows, t.bn), Blocks(j.n, t.bm), 1)}
GemmGrid(j, t) == TileGrid("gemm", j, t, GemmThreads(t))
WmmaGrid(j) == TileGrid("wmma", j, WmmaTile, 2 * WmmaWarps * Lanes)

gemm_use_wmma(n) == WmmaOn /\ n >= BigBatch
gemm_pick_bm(n) == IF n >= BigBatch THEN BigTile ELSE SmallTile

(* The types with a solver; iq2_xxs only on the big tile.                  *)
GemmCovers(j) ==
  /\ j.nrows > 0 /\ j.cols > 0 /\ j.n > 0 /\ j.stride >= j.cols
  /\ j.cols % ActBlocks[j.dt] = 0 /\ j.cols % 2 = 0
  /\ j.dt \in {2, 3, 4, 5, 6, 7, 8, 9, 12, 13, 14}
  /\ j.dt = 7 => j.n >= BigBatch
gemm_launch(j) ==
  IF j.dt \in {12, 14} /\ gemm_use_wmma(j.n) THEN WmmaGrid(j)
  ELSE GemmGrid(j, Production(gemm_pick_bm(j.n)))

RunGemm(j, grids, dbuf) == Start(With(j, [by |-> "gemm", ok |-> TRUE, dbuf |-> dbuf]), grids)
Calls(op) == {j \in GemmJobs : j.op = op}

(* gemm_launch_cfg: the variants of the benches.                           *)
GemmVariant(cfg) ==
  CASE cfg \in {1, 3, 4, 6, 7, 8} -> Production(BenchTile)
    [] cfg = 2 -> [Production(BenchTile) EXCEPT !.dbuf = FALSE]
    [] cfg = 5 -> Production(BigTile)
    [] cfg \in {9, 12} -> [Production(BigTile) EXCEPT !.raw = TRUE, !.stage = cfg = 12]
    [] cfg = 10 -> [Production(SmallTile) EXCEPT !.raw = TRUE]
    [] cfg = 11 -> [Production(BigTile) EXCEPT !.stage = TRUE]
GemmLaunchCfg ==
  \E j \in Calls("gemm_launch_cfg") :
    /\ GemmCovers(j)
    /\ j.dt \in (IF j.cfg \in {9, 10} THEN {9, 12, 14} ELSE {12})
    /\ LET t == GemmVariant(j.cfg) IN RunGemm(j, <<GemmGrid(j, t)>>, t.dbuf)

(* Graph::proj_batch.  A batch the batched kernel is compiled for goes to  *)
(* it, what the tiles cover goes to them, the rest goes in sub-batches and *)
(* fails at one the batched kernel is not compiled for.                    *)
SubBatches(j) ==
  LET from == {t \in 0 .. j.n - 1 : t % SubBatch = 0}
      count(t) == IF j.n - t < SubBatch THEN j.n - t ELSE SubBatch
      done(t) == count(t) = 1 \/ count(t) \in BatchNs
      all == [i \in 1 .. Cardinality(from) |-> (i - 1) * SubBatch]
      grid(t) == IF count(t) = 1 THEN MatvecGrid("gen", j, Shipped(j), t, 1)
                 ELSE MatvecGrid("batch", j, BatchConfig(j.dt), t, count(t))
      ok == SelectSeq(all, done)
  IN  [grids |-> [i \in DOMAIN ok |-> grid(ok[i])], ok |-> \A t \in from : done(t)]

ProjBatch ==
  \E j \in Calls("proj_batch") :
    LET quantize == IF j.ready THEN <<>> ELSE <<QuantizeBatchGrid(j)>>
        asMatvec(sub) ==
          Start(With(j, [cfg |-> BatchConfig(j.dt), by |-> "matvec", ok |-> sub.ok]),
                quantize \o sub.grids)
    IN  CASE j.n <= SubBatch /\ j.n \in BatchNs ->
               asMatvec([grids |-> <<MatvecGrid("batch", j, BatchConfig(j.dt), 0, j.n)>>,
                         ok |-> TRUE])
          [] ~(j.n <= SubBatch /\ j.n \in BatchNs) /\ GemmCovers(j) ->
               RunGemm(j, quantize \o <<gemm_launch(j)>>, TRUE)
          [] OTHER -> asMatvec(SubBatches(j))

GemmNext ==
  \/ GemmLaunchCfg \/ ProjBatch
  \/ \E w \in DOMAIN at :
       \/ Prologue(w) \/ Epilogue(w) \/ WmmaPrologue(w) \/ WmmaEpilogue(w)
       \/ /\ at[w] # End
          /\ \E i \in 0 .. at[w] :
               Window(w, i) \/ StageWindow(w, i) \/ ConsumeWindow(w, i) \/ WmmaWindow(w, i)
=============================================================================
