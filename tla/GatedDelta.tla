----------------------------- MODULE GatedDelta -----------------------------
(***************************************************************************)
(* The gated delta net kernels (gdn.cuh): the causal convolution with its  *)
(* rolling window, the same fused with the norm of the query and key rows, *)
(* and the delta rule, a token or a chunk at a time.  A row of the         *)
(* recurrent state is one value: every kernel does the same to each of its *)
(* elements, and the order in which a sum visits them is in the sum.       *)
(***************************************************************************)
EXTENDS Norms

CONSTANTS DeltaRows,     \* kRows, the state rows of a CTA of a chunk
          WideSize,      \* 128, the row size of the vector kernel, and the most the LDS tile holds
          DeltaShapes,   \* the (threads, rows a thread, vector) compiled for it
          GdnJobs        \* the launches to make

(* The threads of the vector kernel have the whole row between them (each  *)
(* instance that RD_DELTA compiles is for 128 rows), in loads of four.     *)
ASSUME DeltaAssumption ==
  /\ DeltaRows \in Nat \ {0}
  /\ WideSize \in Nat \ {0} /\ WideSize % 4 = 0 /\ WideSize % Lanes = 0
  /\ \A shape \in DeltaShapes :
       /\ shape[1] \in Nat \ {0} /\ shape[2] \in Nat \ {0}
       /\ shape[1] * shape[2] = WideSize

(* The launches of the delta rule have a shape, if only the vector one     *)
(* obeys it; the three single ones are of one token.                       *)
ASSUME DeltaJobsAssumption ==
  \A j \in GdnJobs :
    /\ "shape" \in DOMAIN j <=>
         j.op \in {"delta_rule_launch", "delta_rule_launch_scalar", "delta_rule_launch_ilp",
                   "delta_rule_batch_launch", "delta_rule_batch_resident_launch"}
    /\ "shape" \in DOMAIN j =>
         /\ j.nvh \in Nat /\ j.nkh \in Nat \ {0} /\ j.s \in Nat \ {0}
         /\ j.tokens \in Nat \ {0}
         /\ j.tokens = 1 \/ j.op \in {"delta_rule_batch_launch", "delta_rule_batch_resident_launch"}

Silu(x) == Ap1("silu", x)

(* The taps of channel c: the K - 1 inputs before this one, and this one.  *)
Tap(k, c) == In("conv_state", k * job.channels + c)
Convolved(c, x) ==
  Silu([op |-> "conv", c |-> c, of |-> [k \in 1..job.k |-> IF k < job.k THEN Tap(k - 1, c) ELSE x]])
Shifted(c, x) ==
  [cell \in {<<"conv_state", k * job.channels + c>> : k \in 0 .. job.k - 2} |->
    LET k == cell[2] \div job.channels
    IN  IF k = job.k - 2 THEN x ELSE Tap(k + 1, c)]
ChannelsOf(w, first) == {first + t : t \in {t \in ThreadsOf(w, NormThreads) : first + t < job.channels}}
Conv(c, x, cell) == Write(Shifted(c, x), [y \in {cell} |-> Convolved(c, x)])
-----------------------------------------------------------------------------
(* conv1d_state_kernel                                                     *)
ConvChannel(w) ==
  /\ Phase({"conv"}, w, 0)
  /\ LET cs == ChannelsOf(w, cta.x * NormThreads)
     IN  Put(Together({Conv(c, In("qkv", c), <<"conv", c>>) : c \in cs}))
  /\ Goto(w, End) /\ Still

(* conv1d_state_batch_kernel: the tokens in order, q and k apart from v.   *)
ConvToken(w, t) ==
  /\ Phase({"conv_batch"}, w, t)
  /\ LET cs == ChannelsOf(w, cta.x * NormThreads)
         kd2 == 2 * job.nkh * job.s
         to(c) == IF c >= kd2 THEN <<"v", t * (job.channels - kd2) + c - kd2>>
                  ELSE <<"qk", t * kd2 + c>>
     IN  Put(Together({Conv(c, In("qkv", t * job.channels + c), to(c)) : c \in cs}))
  /\ Goto(w, IF t + 1 < job.tokens THEN t + 1 ELSE End) /\ Still

(* gdn_conv_silu_l2_fused_kernel: the first CTAs are rows of q and k,      *)
(* normed by the tree of the norms; the others pass v.                     *)
RowBase == cta.x * job.s
ConvRow(w) ==
  /\ Phase({"conv_l2"}, w, 0) /\ cta.x < 2 * job.nkh
  /\ LET mine == ThreadsOf(w, NormThreads)
         live == {t \in mine : t < job.s}
         c(t) == RowBase + t
         val == [t \in live |-> Convolved(c(t), In("qkv", c(t)))]
     IN  /\ mem' = Write(mem, Together({Shifted(c(t), In("qkv", c(t))) : t \in live}))
         /\ regs' = [regs EXCEPT ![w] = val]
         /\ lds' = Write(lds, [p \in {Partial(t) : t \in mine} |->
                      Squares(IF p[2] < job.s THEN <<val[p[2]]>> ELSE <<>>)])
  /\ Goto(w, 1) /\ Still

NormRow(w) ==
  /\ Phase({"conv_l2"}, w, NormLevels + 1) /\ TreeReady(NormLevels + 1)
  /\ LET by == Rsqrt(Read(lds, Partial(0)), 1)
     IN  Put(Together({Store("conv", RowBase + t, Scaled(regs[w][t], by)) : t \in DOMAIN regs[w]}))
  /\ Goto(w, End) /\ Still

PassValue(w) ==
  /\ Phase({"conv_l2"}, w, 0) /\ cta.x >= 2 * job.nkh
  /\ LET cs == ChannelsOf(w, 2 * job.nkh * job.s + (cta.x - 2 * job.nkh) * NormThreads)
     IN  Put(Together({Conv(c, In("qkv", c), <<"conv", c>>) : c \in cs}))
  /\ Goto(w, End) /\ Still
-----------------------------------------------------------------------------
(* The delta rule of value head h on a row of its state.                   *)

Times(row, g) == [op |-> "times", row |-> row, g |-> g]
Plus(row, k, delta) == [op |-> "plus", row |-> row, k |-> k, delta |-> delta]
DotRow(row, with, order) == [op |-> "dot", row |-> row, with |-> with, order |-> order]
Delta(v, sum, beta) == [op |-> "delta", v |-> v, sum |-> sum, beta |-> beta]

(* The elements as the scalar loop and as the vector loop and its tail     *)
(* visit them.                                                             *)
Scalar == [i \in 1..job.s |-> i - 1]
Vector == [i \in 1 .. 4 * (job.s \div 4) |-> i - 1]
VectorTail == Vector \o [i \in 1 .. job.s % 4 |-> 4 * (job.s \div 4) + i - 1]

(* The inputs of token t: the head of a key row serves every value head    *)
(* that is equal to it modulo the key heads.                               *)
KeyHead(h) == h % job.nkh
QIn(t, h) == In("qk", t * 2 * job.nkh * job.s + KeyHead(h) * job.s)
KIn(t, h) == In("qk", t * 2 * job.nkh * job.s + job.nkh * job.s + KeyHead(h) * job.s)
Gate(t, h) == In("gate", t * job.nvh + h)
Beta(t, h) == In("beta", t * job.nvh + h)
VOut(t, h, j) == <<"v", t * job.nvh * job.s + h * job.s + j>>
StateRow(h, j) == <<"state", h * job.s + j>>
VIn(t, h, j) == Read(mem, VOut(t, h, j))

(* One token on one row: the row after it, and its output.                 *)
Stepped(row, t, h, j, order) ==
  LET s == Times(row, Gate(t, h))
      delta == Delta(VIn(t, h, j), DotRow(s, KIn(t, h), order), Beta(t, h))
      u == Plus(s, KIn(t, h), delta)
  IN  [row |-> u, out |-> DotRow(u, QIn(t, h), order)]

RowStores(t, h, j, order) ==
  LET r == Stepped(Read(mem, StateRow(h, j)), t, h, j, order)
  IN  Write([c \in {StateRow(h, j)} |-> r.row], [c \in {VOut(t, h, j)} |-> r.out])
-----------------------------------------------------------------------------
(* delta_rule_kernel, and delta_rule_kernel_ilp with its rows a thread.    *)
DeltaRow(w) ==
  /\ Phase({"delta"}, w, 0)
  /\ Put(Together({RowStores(0, cta.x, j, Scalar) : j \in ThreadsOf(w, job.s)}))
  /\ Goto(w, End) /\ Still

DeltaShape == IF job.op = "delta_rule_launch" THEN <<WideSize, 1, TRUE>> ELSE job.shape
DeltaRowsIlp(w) ==
  /\ Phase({"delta_ilp"}, w, 0)
  /\ LET rows == {t + r * DeltaShape[1] : t \in ThreadsOf(w, DeltaShape[1]), r \in 0 .. DeltaShape[2] - 1}
         order == IF DeltaShape[3] THEN Vector ELSE Scalar
     IN  Put(Together({RowStores(0, cta.x, j, order) : j \in rows}))
  /\ Goto(w, End) /\ Still

(* delta_rule_batch_rows_kernel: CTA (value head x, block of rows y), the  *)
(* tokens of the chunk in order.                                           *)
RowsOf(w) == {j \in {cta.y * DeltaRows + t : t \in ThreadsOf(w, DeltaRows)} : j < job.s}
DeltaToken(w, t) ==
  /\ Phase({"delta_rows"}, w, t)
  /\ LET order == IF job.s % 4 = 0 THEN VectorTail ELSE Scalar
     IN  Put(Together({RowStores(t, cta.x, j, order) : j \in RowsOf(w)}))
  /\ Goto(w, IF t + 1 < job.tokens THEN t + 1 ELSE End) /\ Still
-----------------------------------------------------------------------------
(* The resident kernels keep the rows of the CTA in the LDS for the chunk. *)

TileRow(j) == <<"tile", j>>
Kept(j) == Read(lds, TileRow(j))
LoadRows(w) ==
  /\ Phase({"twopass", "fused"}, w, 0)
  /\ Keep(regs, Together({[c \in {TileRow(j)} |-> Read(mem, StateRow(cta.x, j))] : j \in RowsOf(w)}))
  /\ Goto(w, 1) /\ Still

(* Each token's two passes over a row.                                     *)
TwoPassToken(w, p) ==
  /\ Phase({"twopass"}, w, p) /\ p \in 1..job.tokens /\ Synced(1)
  /\ LET step == [j \in RowsOf(w) |-> Stepped(Kept(j), p - 1, cta.x, j, Scalar)]
     IN  /\ lds' = Write(lds, Together({[c \in {TileRow(j)} |-> step[j].row] : j \in DOMAIN step}))
         /\ mem' = Write(mem, Together({[c \in {VOut(p - 1, cta.x, j)} |-> step[j].out] : j \in DOMAIN step}))
         /\ UNCHANGED regs
  /\ Goto(w, p + 1) /\ Still

(* The second pass of token t and the first of the next in one; the deltas *)
(* are carried in registers.                                               *)
Same(t) == t
Following(t) == t + 1
FirstPass(row, t, j) ==
  LET s == Times(row, Gate(t, cta.x))
  IN  [row |-> s, delta |-> Delta(VIn(t, cta.x, j), DotRow(s, KIn(t, cta.x), Scalar), Beta(t, cta.x))]
SecondPass(w, t, j) == Plus(Kept(j), KIn(t, cta.x), regs[w][j])

FusedToken(w, p) ==
  /\ Phase({"fused"}, w, p) /\ p \in 1 .. job.tokens + 1 /\ Synced(1)
  /\ LET rows == RowsOf(w)
         ends == p > 1
         begins == p <= job.tokens
         before == [j \in rows |-> IF ends THEN SecondPass(w, p - 2, j) ELSE Kept(j)]
         after == [j \in rows |-> IF begins THEN FirstPass(before[j], Following(p - 2), j)
                                  ELSE [row |-> before[j], delta |-> None]]
     IN  /\ lds' = Write(lds, Together({[c \in {TileRow(j)} |-> after[j].row] : j \in rows}))
         /\ regs' = [regs EXCEPT ![w] = [j \in rows |-> after[j].delta]]
         /\ mem' = IF ends
                   THEN Write(mem, Together({[c \in {VOut(p - 2, cta.x, j)} |->
                          DotRow(before[j], QIn(p - 2, cta.x), Scalar)] : j \in rows}))
                   ELSE mem
  /\ Goto(w, p + 1) /\ Still

StoreRows(w) ==
  /\ \/ Phase({"twopass"}, w, job.tokens + 1)
     \/ Phase({"fused"}, w, job.tokens + 2)
  /\ Put(Together({[c \in {StateRow(cta.x, j)} |-> Kept(j)] : j \in RowsOf(w)}))
  /\ Goto(w, End) /\ Still
-----------------------------------------------------------------------------
Conv1dStateLaunch ==
  \E j \in GdnJobs :
    /\ j.op = "conv1d_state_launch"
    /\ Start(j, <<Grid("conv", NormWarps, Blocks(j.channels, NormThreads), 1, 1)>>)

GdnConvFuseLaunch ==
  \E j \in GdnJobs :
    /\ j.op = "gdn_conv_fuse_launch"
    /\ j.s \in 1..NormThreads /\ j.k >= 2 /\ j.nkh > 0 /\ j.nvh >= 0
    /\ Start(j, <<Grid("conv_l2", NormWarps, 2 * j.nkh + Blocks(j.nvh * j.s, NormThreads), 1, 1)>>)

Conv1dStateBatchLaunch ==
  \E j \in GdnJobs :
    /\ j.op = "conv1d_state_batch_launch"
    /\ Start(j, <<Grid("conv_batch", NormWarps, Blocks(j.channels, NormThreads), 1, 1)>>)

ScalarGrid(j) == Grid("delta", Blocks(j.s, Lanes), j.nvh, 1, 1)
DeltaRuleLaunch ==
  \E j \in GdnJobs :
    /\ j.op = "delta_rule_launch"
    /\ Start(j, <<IF j.s = WideSize /\ j.nvh > 0
                  THEN Grid("delta_ilp", WideSize \div Lanes, j.nvh, 1, 1)
                  ELSE ScalarGrid(j)>>)

DeltaRuleLaunchScalar ==
  \E j \in GdnJobs : j.op = "delta_rule_launch_scalar" /\ Start(j, <<ScalarGrid(j)>>)

DeltaRuleLaunchIlp ==
  \E j \in GdnJobs :
    /\ j.op = "delta_rule_launch_ilp" /\ j.s = WideSize /\ j.shape \in DeltaShapes
    /\ Start(j, <<Grid("delta_ilp", Blocks(j.shape[1], Lanes), j.nvh, 1, 1)>>)

BatchGrid(kernel, j) == Grid(kernel, Blocks(DeltaRows, Lanes), j.nvh, Blocks(j.s, DeltaRows), 1)
DeltaRuleBatchLaunch ==
  \E j \in GdnJobs :
    /\ j.op = "delta_rule_batch_launch"
    /\ Start(j, <<BatchGrid("delta_rows", j)>>)

(* j.fused is RD_GDN_FUSED.                                                *)
DeltaRuleBatchResidentLaunch ==
  \E j \in GdnJobs :
    /\ j.op = "delta_rule_batch_resident_launch"
    /\ Start(j, <<BatchGrid(IF j.s <= 0 \/ j.s > WideSize \/ j.nvh <= 0 THEN "delta_rows"
                            ELSE IF j.fused THEN "fused" ELSE "twopass", j)>>)

GatedDeltaNext ==
  \/ Conv1dStateLaunch \/ GdnConvFuseLaunch \/ Conv1dStateBatchLaunch
  \/ DeltaRuleLaunch \/ DeltaRuleLaunchScalar \/ DeltaRuleLaunchIlp
  \/ DeltaRuleBatchLaunch \/ DeltaRuleBatchResidentLaunch
  \/ \E w \in DOMAIN at :
       \/ ConvChannel(w) \/ ConvRow(w) \/ NormRow(w) \/ PassValue(w)
       \/ DeltaRow(w) \/ DeltaRowsIlp(w) \/ LoadRows(w) \/ StoreRows(w)
       \/ \E p \in {at[w]} :
            ConvToken(w, p) \/ DeltaToken(w, p) \/ TwoPassToken(w, p) \/ FusedToken(w, p)
=============================================================================
