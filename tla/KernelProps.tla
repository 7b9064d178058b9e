---------------------------- MODULE KernelProps ----------------------------
(***************************************************************************)
(* What the kernels must have left in memory when a launch has finished.   *)
(***************************************************************************)
EXTENDS Attention, Elementwise, GatedDelta, Gemm, SequencesExt

(* Only a launch of the delta rule has a shape, only one of the attention  *)
(* kernels has kv heads.                                                   *)
ASSUME ShapeAssumption ==
  \A j \in AttnJobs \cup EachJobs \cup NormJobs \cup MatvecJobs \cup GemmJobs : "shape" \notin DOMAIN j
ASSUME HeadsAssumption ==
  \A j \in EachJobs \cup NormJobs \cup GdnJobs \cup MatvecJobs \cup GemmJobs : "kv" \notin DOMAIN j

KernelsInit == CtaInit
KernelsNext ==
  \/ RunCta \/ RetireCta \/ Collect
  \/ AttentionNext \/ ElementwiseNext \/ NormsNext \/ GatedDeltaNext \/ MatvecNext \/ GemmNext
KernelsSpec == KernelsInit /\ [][KernelsNext]_vars
-----------------------------------------------------------------------------
(* The numbers of a set, the least first.                                  *)
Ascending(S) ==
  CHOOSE f \in [1 .. Cardinality(S) -> S] : \A i, j \in DOMAIN f : i < j => f[i] < f[j]

(* The order in which attn_kernel (one split) and attn_split_kernel sum    *)
(* the keys 0..p of a token, split by split and warp by warp.              *)
SingleOrder(p, splits, warps) ==
  [s \in 1..splits |-> [w \in 1..warps |->
    Ascending({k \in 0..p : k % (splits * warps) = (w - 1) + warps * (s - 1)})]]

JobOrder(p) ==
  CASE job.op \in {"attn_launch", "attn_batch_launch"} -> SingleOrder(p, 1, Warps)
    [] job.op = "attn_launch_split_wpb" -> SingleOrder(p, job.splits, job.wpb)
    [] job.op \in {"attn_launch_split", "attn_split_batch_launch"} ->
         SingleOrder(p, job.splits, SplitWarps(job.splits))
    [] job.op = "fa2_prefill_launch" -> <<<<[i \in 1 .. p + 1 |-> i - 1]>>>>

(* What a slice of these keys, and a merge of two levels of slices, are.   *)
SliceOf(qt, h, keys, d) == Slice(<<qt, h>>, h \div (job.heads \div job.kv), keys, d)
PartialOf(qt, h, keys, d) ==
  LET sl(dd) == [i \in DOMAIN keys |-> SliceOf(qt, h, keys[i], dd)]
      cmax == [op |-> "max", of |-> sl(-1)]
  IN  IF d = -1 THEN cmax
      ELSE [op |-> "dot", of |-> sl(d),
            wts |-> [i \in DOMAIN keys |->
              IF \A k \in DOMAIN keys : keys[k] = <<>> THEN Nought
              ELSE [op |-> "exp", m |-> sl(-1)[i], less |-> cmax]]]

AttentionOf(qt, h, d, order) ==
  IF job.op \in {"attn_launch", "attn_batch_launch", "fa2_prefill_launch"}
  THEN Merged([i \in DOMAIN order[1] |-> SliceOf(qt, h, order[1][i], -1)],
              [i \in DOMAIN order[1] |-> SliceOf(qt, h, order[1][i], d)])
  ELSE Merged([i \in DOMAIN order |-> PartialOf(qt, h, order[i], -1)],
              [i \in DOMAIN order |-> PartialOf(qt, h, order[i], d)])

(* The output row of every token and head is the softmax of its own query  *)
(* over each of the keys up to its position once, from its kv head, and    *)
(* is summed in the order the single-token launch with as many splits      *)
(* sums it: a chunk is bit for bit the tokens one by one (attn.cuh:258,    *)
(* "exactly what the per-token launch computed").                          *)
AttentionExact ==
  Finished /\ "kv" \in DOMAIN job =>
    \A t \in 1..Len(job.pos), h \in 0 .. job.heads - 1 :
      LET order == JobOrder(job.pos[t])
      IN  /\ \A d \in Dims : Read(mem, X(t - 1, h, d)) = AttentionOf(t - 1, h, d, order)
          /\ ToSet(FlattenSeq(FlattenSeq(order))) = 0 .. job.pos[t]
-----------------------------------------------------------------------------
(* The plain launches: a whole array at a time.                            *)

Array(f, a, b, y) == [f |-> f, a |-> a, b |-> b, y |-> y]
Apply(m, s) ==
  Write(m, [c \in {s.y} \X (0 .. job.n - 1) |->
    LET x == Read(m, <<s.a, c[2]>>)
    IN  IF s.b = "" THEN Ap1(s.f, x) ELSE Ap2(s.f, x, Read(m, <<s.b, c[2]>>))])

(* The norm of a row of values: thread t of a power of two sums the        *)
(* squares of every T-th, and the sums are folded in half.                 *)
RowNormed(vals, cols, over) ==
  LET T == NormThreads
      tree[l \in 0..NormLevels, t \in 0 .. T - 1] ==
        IF l = 0
        THEN LET is == SetToSortSeq({i \in 0 .. cols - 1 : i % T = t}, <)
             IN  Squares([k \in DOMAIN is |-> vals[is[k]]])
        ELSE Add(tree[l - 1, t], tree[l - 1, t + T \div 2 ^ l])
      by == Rsqrt(tree[NormLevels, 0], over)
  IN  [i \in 0 .. cols - 1 |-> Scaled(vals[i], by)]

(* What the window of the convolution has seen at token t of a chunk.      *)
History(c) ==
  [i \in 1 .. job.k - 1 + job.tokens |->
    IF i < job.k THEN Raw(<<"conv_state", (i - 1) * job.channels + c>>)
    ELSE Raw(<<"qkv", (i - job.k) * job.channels + c>>)]
ConvOf(t, c) == Silu([op |-> "conv", c |-> c, of |-> SubSeq(History(c), t + 1, t + job.k)])
ConvStateAfter ==
  [cell \in {"conv_state"} \X (0 .. (job.k - 1) * job.channels - 1) |->
    History(cell[2] % job.channels)[job.tokens + cell[2] \div job.channels + 1]]

NormedRows ==
  [c \in {job.y} \X (0 .. job.rows * job.cols - 1) |->
    LET r == c[2] \div job.cols
        i == c[2] % job.cols
        vals == [k \in 0 .. job.cols - 1 |->
                  LET x == Raw(<<"x", r * job.cols + k>>)
                  IN  IF job.op = "add_rms_fused_launch" THEN Add(Raw(<<"src", k>>), x) ELSE x]
        n == RowNormed(vals, job.cols, IF job.op = "l2_norm_launch" THEN 1 ELSE job.cols)
    IN  IF job.weighted THEN Scaled(n[i], Raw(<<"w", i>>)) ELSE n[i]]

KeyRows == 2 * job.nkh * job.s
FusedConv ==
  [c \in {"conv"} \X (0 .. job.channels - 1) |->
    IF c[2] >= KeyRows THEN ConvOf(0, c[2])
    ELSE LET row == c[2] \div job.s
         IN  RowNormed([i \in 0 .. job.s - 1 |-> ConvOf(0, row * job.s + i)], job.s, 1)[c[2] % job.s]]

(* The same, row by row, of the chunk: q and k apart from v.               *)
ChunkConv ==
  LET t(i, width) == i \div width
  IN  Write([c \in {"qk"} \X (0 .. job.tokens * KeyRows - 1) |-> ConvOf(t(c[2], KeyRows), c[2] % KeyRows)],
            LET width == job.channels - KeyRows
            IN  [c \in {"v"} \X (0 .. job.tokens * width - 1) |-> ConvOf(t(c[2], width), KeyRows + (c[2] % width))])

Halves(buffer, gate) ==
  [c \in {buffer} \X (0 .. job.n - 1) |->
    Raw(<<"yq", 2 * job.dim * (c[2] \div job.dim) + gate * job.dim + (c[2] % job.dim)>>)]

(* Dimension d of a head turns with its other half; the rest stay.         *)
Turned ==
  LET half == job.nrot \div 2
      x(base, d) == Raw(<<"x", base + d>>)
  IN  [c \in {"x"} \X (0 .. job.rows * job.heads * job.dim - 1) |->
        LET d == c[2] % job.dim
            base == c[2] - d
            t == base \div (job.dim * job.heads)
            by == [op |-> "theta", pos |-> t, pair |-> d % half]
        IN  IF d >= job.nrot THEN x(base, d)
            ELSE [op |-> IF d < half THEN "rot0" ELSE "rot1", x0 |-> x(base, d % half),
                  x1 |-> x(base, half + (d % half)), by |-> by]]

Plain(steps) == FoldLeft(Apply, <<>>, steps)
Broadcast ==
  [c \in {job.y} \X (0 .. job.n - 1) |->
    Ap2(job.f, Raw(<<job.a, c[2]>>), Raw(<<job.b, c[2] - job.nb * (c[2] \div job.nb)>>))]

RowsOps == {"rms_norm_launch", "l2_norm_launch"}
Expected ==
  CASE job.op \in {"unary_launch", "scale_launch"} -> Plain(<<Array(job.f, job.a, "", job.y)>>)
    [] job.op \in {"mul_launch", "add_launch"} -> Plain(<<Array(job.f, job.a, job.b, job.y)>>)
    [] job.op \in {"add_bcast_launch", "mul_bcast_launch"} -> Broadcast
    [] job.op = "silu_gate_launch" ->
         Plain(<<Array("silu", job.a, "", job.a), Array("mul", job.a, job.b, job.y)>>)
    [] job.op = "sigmoid_gate_launch" ->
         Plain(<<Array("sigmoid", job.a, "", job.a), Array("mul", job.y, job.a, job.y)>>)
    [] job.op = "gdn_scalars_launch" ->
         LET four == Plain(<<Array("sigmoid", "beta", "", "beta"), Array("add", "alpha", "dt", "alpha"),
                             Array("softplus", "alpha", "", "gate"), Array("mul", "gate", "A", "gate")>>)
         IN  Apply(four, Array("softplus", "alpha", "", "alpha"))
    [] job.op \in {"deinterleave_q_gate_launch", "deinterleave_q_gate_batch_launch"} ->
         Write(Halves("q", 0), Halves("gate", 1))
    [] job.op = "rope_launch" -> Turned
    [] job.op \in RowsOps -> NormedRows
    [] job.op = "add_rms_fused_launch" ->
         Write([c \in {"x"} \X (0 .. job.cols - 1) |-> Add(Raw(<<"src", c[2]>>), Raw(c))], NormedRows)
    [] job.op = "conv1d_state_launch" ->
         Write([c \in {"conv"} \X (0 .. job.channels - 1) |-> ConvOf(0, c[2])], ConvStateAfter)
    [] job.op = "gdn_conv_fuse_launch" -> Write(FusedConv, ConvStateAfter)
    [] job.op = "conv1d_state_batch_launch" -> Write(ChunkConv, ConvStateAfter)

(* Sampler::filter with temp <= 0: the first strict maximum in id order.   *)
HostArgmax ==
  FoldLeft(LAMBDA best, i : IF Greater(job.logits[i], job.logits[best]) THEN i ELSE best,
           0, [i \in 1 .. job.cols - 1 |-> i])

(* The device's choice is the host scan's, in every case: "identical to    *)
(* the host argmax and not merely equivalent to it: ties keep the lower    *)
(* id, both inside a thread's stride and when combining partial results"   *)
(* (nn.cuh:176-178).                                                       *)
GreedyIsHostScan ==
  Finished /\ "logits" \in DOMAIN job => finish_argmax = HostArgmax

(* The fold of a CTA (nn.cuh:213-221) compares values only, so of equal    *)
(* candidates the last halving keeps that of an even thread, the one       *)
(* before it that of a multiple of four, and so on: the lower residue by   *)
(* the first power of two that tells the threads apart.                    *)
FoldPrefers(t, u) ==
  \E l \in 0 .. NormLevels - 1 :
    t % 2 ^ l = u % 2 ^ l /\ t % 2 ^ (l + 1) < u % 2 ^ (l + 1)

(* The host's choice loses to an equal logit of a greater id in its CTA.   *)
Overtaken ==
  LET share(id) == (id \div NormThreads) % ArgmaxBlocks
      first == HostArgmax
  IN  \E id \in first + 1 .. job.cols - 1 :
        /\ job.logits[id] = job.logits[first] /\ share(id) = share(first)
        /\ FoldPrefers(id % NormThreads, first % NormThreads)

(* What does hold of the choice of the greedy path: whatever the other     *)
(* logits, NaN in front and ties within a thread, between threads or CTAs  *)
(* included, it is the host scan's id, unless that one is overtaken; and   *)
(* then it still is an id of the same value.                               *)
GreedyAgrees ==
  /\ job.logits[finish_argmax] = job.logits[HostArgmax]
  /\ finish_argmax = HostArgmax <=> ~Overtaken

(* A fused, batched or device-side launch leaves in memory what the        *)
(* launches it replaces leave, and writes nothing else: the order of every *)
(* sum, the buffers that are both read and written, the shifted window of  *)
(* the convolution (nn.cuh:385, "the fused launch stores exactly what the  *)
(* two launches stored"; gdn.cuh:57, "Bit-identico ao trio").  The GDN     *)
(* scalars also leave their softplus where alpha was, which nobody reads   *)
(* again.  The device's argmax agrees with the host scan in every case but *)
(* the one GreedyAgrees names.                                             *)
FusedExact ==
  /\ Finished /\ "y" \in DOMAIN job =>
       /\ \A c \in DOMAIN Expected : Read(mem, c) = Expected[c]
       /\ DOMAIN mem \subseteq DOMAIN Expected
  /\ Finished /\ "logits" \in DOMAIN job => GreedyAgrees

(* The rule on a row of a head's state for one token: the row, its output. *)
Ruled(row, t, h, j) ==
  LET q == Raw(<<"qk", t * KeyRows + (h % job.nkh) * job.s>>)
      k == Raw(<<"qk", t * KeyRows + (job.nkh + (h % job.nkh)) * job.s>>)
      s == Times(row, Raw(<<"gate", t * job.nvh + h>>))
      delta == Delta(Raw(VOut(t, h, j)), DotRow(s, k, Scalar), Raw(<<"beta", t * job.nvh + h>>))
  IN  [row |-> Plus(s, k, delta), out |-> DotRow(Plus(s, k, delta), q, Scalar)]

(* The row of a head's state and its output after each token of a chunk.   *)
StateAfter(h, j) ==
  LET after[t \in 0 .. job.tokens] ==
        IF t = 0 THEN [row |-> Raw(StateRow(h, j)), out |-> None]
        ELSE Ruled(after[t - 1].row, t - 1, h, j)
  IN  after

(* The state a launch leaves and the outputs of its tokens are those of    *)
(* the recurrence applied to one token after the other, whatever kernel    *)
(* walks the chunk and wherever it keeps the rows: gate, delta and update  *)
(* of one token never mix with those of the next (gdn.cuh:665).            *)
RecurrenceExact ==
  Finished /\ "shape" \in DOMAIN job =>
    \A h \in 0 .. job.nvh - 1, j \in 0 .. job.s - 1 :
      LET after == StateAfter(h, j)
      IN  /\ Read(mem, StateRow(h, j)) = after[job.tokens].row
          /\ \A t \in 1 .. job.tokens : Read(mem, VOut(t - 1, h, j)) = after[t].out
-----------------------------------------------------------------------------
(* The activation block b of token n, quantised by this job or before it.  *)
Activation(n, b) ==
  IF job.op = "proj" THEN Quantized(Raw(<<"x", b>>))
  ELSE IF job.op = "proj_batch" /\ ~job.ready THEN Quantized(Raw(<<"x", n * job.xstride + b>>))
  ELSE Raw(<<"q8", n * job.stride + b>>)

(* A lane of matvec_kernel_gen takes the blocks of its slot in order, by   *)
(* turns in its accumulators; what does not fill a turn goes in the first. *)
LaneOf(n, tg) ==
  LET slots == Slots[job.dt]
      accs == IF job.cfg.unroll = 1 THEN job.cfg.ilp ELSE 1
      ks == SelectSeq([k \in 1..BlocksPerRow(job) |-> k - 1],
              LAMBDA k : k % ((job.cfg.wpr * Lanes) \div slots) = tg \div slots)
      turns == (Len(ks) \div accs) * accs
      in(u) == SelectSeq([i \in DOMAIN ks |-> i],
                 LAMBDA i : IF i <= turns THEN (i - 1) % accs = u ELSE u = 0)
      a == ActBlocks[job.dt]
      term(k) == <<k, [b \in 1..a |-> Activation(n, k * a + b - 1)]>>
  IN  [kqs |-> tg % slots,
       acc |-> [u \in 0 .. accs - 1 |-> [i \in DOMAIN in(u) |-> term(ks[in(u)[i]])]]]

MatvecOf(n, r) ==
  RowSum([i \in 1..job.cfg.wpr |->
    [op |-> "shuffle", row |-> r, table |-> Table,
     of |-> [l \in 0 .. Lanes - 1 |-> LaneOf(n, (i - 1) * Lanes + l)]]])
ReadOnce(sum) ==
  LET at4 == {x \in (DOMAIN sum.of) \X (0 .. Lanes - 1) \X (0..3) \X (1..job.cols) :
                /\ x[3] \in DOMAIN sum.of[x[1]].of[x[2]].acc
                /\ x[4] \in DOMAIN sum.of[x[1]].of[x[2]].acc[x[3]]}
      seen == {<<sum.of[x[1]].of[x[2]].acc[x[3]][x[4]][1], sum.of[x[1]].of[x[2]].kqs>> : x \in at4}
      all == (0 .. BlocksPerRow(job) - 1) \X (0 .. Slots[job.dt] - 1)
  IN  seen = all /\ Cardinality(at4) = Cardinality(all)

GemmOf(n, r) ==
  [i \in 1..job.cols |->
    LET a == Activation(n, i - 1) IN Mac(Decoded(Block(r, i - 1)), a, ScaleOf(a))]

Staging == job.op = "gemm_launch_cfg" /\ job.cfg \in {11, 12}
Product(n, r) == Read(mem, <<"dst", n * job.nrows + r>>)

(* Every token has in every row the sum over each block of the row once,   *)
(* of its own activations, read through a table and a tile staged whole.   *)
(* A batch sums a token in the order matvec_launch sums it alone, in       *)
(* whatever sub-batch it went (matvec.cuh:424, "each output element equals *)
(* what N separate GEMV calls produce"); the tiles sum the blocks in       *)
(* order, whatever the tile.  Nothing else is written.  The single-buffer  *)
(* bench variant never stages its first window, so of it only the blocks   *)
(* after that window are claimed.                                          *)
ProductExact ==
  Finished /\ "dt" \in DOMAIN job =>
    /\ \A c \in DOMAIN mem : c[1] = "q8" \/ (c[1] = "dst" /\ c[2] \in 0 .. job.n * job.nrows - 1)
    /\ job.ok => \A n \in 0 .. job.n - 1, r \in 0 .. job.nrows - 1 :
         CASE job.by = "matvec" -> Product(n, r) = MatvecOf(n, r) /\ ReadOnce(Product(n, r))
           [] job.by = "gemm" /\ Staging -> <<"dst", n * job.nrows + r>> \notin DOMAIN mem
           [] job.by = "gemm" /\ ~Staging ->
                LET from == IF job.dbuf THEN 1 ELSE 3
                IN  /\ Len(Product(n, r)) = job.cols
                    /\ SubSeq(Product(n, r), from, job.cols) = SubSeq(GemmOf(n, r), from, job.cols)
=============================================================================
