------------------------------- MODULE Norms -------------------------------
(***************************************************************************)
(* The kernels of nn.cuh that reduce a row in one CTA: rms_norm, l2_norm   *)
(* and the fused residual add and rms_norm.  Every thread sums squares     *)
(* with a stride of the CTA, the CTA folds the partial sums in half with   *)
(* a barrier at each step, and every thread scales what it visited.  The   *)
(* graph norms in place.  The argmax of the greedy path reduces the same   *)
(* way, in every CTA the logits of its stride; the host ends it.           *)
(***************************************************************************)
EXTENDS Cta, SequencesExt

CONSTANTS NormThreads,   \* kRmsNormThreads
          FusedColumns,  \* 5120, what the registers of the fused kernel hold
          ArgmaxBlocks,  \* kArgmaxBlocks
          NormJobs       \* the launches to make

NormLevels == CHOOSE l \in 0..8 : 2 ^ l = NormThreads
ASSUME PowerOfTwo == \E l \in 0..8 : 2 ^ l = NormThreads

Partial(t) == <<"partial", t>>
Squares(of) == [op |-> "squares", of |-> of]
Add(a, b) == Ap2("add", a, b)
Scaled(v, by) == [op |-> "scaled", v |-> v, by |-> by]
Rsqrt(sum, over) == [op |-> "rsqrt", sum |-> sum, over |-> over]

(* The columns thread t visits: by fours while four are left, then one by  *)
(* one.                                                                    *)
Visited(t, ncols) ==
  LET T == NormThreads
      fours == IF t + 3 * T < ncols THEN (ncols - 3 * T - t - 1) \div (4 * T) + 1 ELSE 0
      from == t + fours * 4 * T
      rest == IF from < ncols THEN (ncols - from - 1) \div T + 1 ELSE 0
  IN  [k \in 1 .. 4 * fours |-> t + (k - 1) * T] \o [k \in 1..rest |-> from + (k - 1) * T]

Element(i) == In("x", cta.x * job.cols + i)
-----------------------------------------------------------------------------
(* rms_norm_kernel and l2_norm_kernel: CTA (row x).                        *)

SumSquares(w) ==
  /\ Phase({"rms", "l2"}, w, 0)
  /\ LET of(t) == LET v == Visited(t, job.cols) IN [k \in DOMAIN v |-> Element(v[k])]
     IN  Keep(regs, [c \in {Partial(t) : t \in ThreadsOf(w, NormThreads)} |->
                      Squares(of(c[2]))])
  /\ Goto(w, 1) /\ Still

(* add_rms_fused_kernel keeps the sums it writes to dst_io in registers.   *)
AddAndSum(w) ==
  /\ Phase({"add_rms"}, w, 0)
  /\ LET mine == ThreadsOf(w, NormThreads)
         sum(i) == Add(Raw(<<"src", i>>), Element(i))
         tmp == [t \in mine |-> LET v == Visited(t, job.cols) IN [k \in DOMAIN v |-> sum(v[k])]]
         cols == UNION {{Visited(t, job.cols)[k] : k \in DOMAIN tmp[t]} : t \in mine}
     IN  /\ mem' = Write(mem, [c \in {<<"x", i>> : i \in cols} |-> sum(c[2])])
         /\ regs' = [regs EXCEPT ![w] = tmp]
         /\ lds' = Write(lds, [c \in {Partial(t) : t \in mine} |-> Squares(tmp[c[2]])])
  /\ Goto(w, 1) /\ Still

(* One halving of the partial sums, behind the barrier of the one before.  *)
TreeKernels == {"rms", "l2", "add_rms", "conv_l2"}
TreeEarly(p) == TRUE
TreeReady(p) == Synced(p)

FoldHalf(w) ==
  \E p \in 1..NormLevels :
    /\ Phase(TreeKernels, w, p) /\ TreeReady(p)
    /\ LET stride == NormThreads \div 2 ^ p
           low == {t \in ThreadsOf(w, NormThreads) : t < stride}
       IN  Keep(regs, [c \in {Partial(t) : t \in low} |->
                        Add(Read(lds, c), Read(lds, Partial(c[2] + stride)))])
    /\ Goto(w, p + 1) /\ Still

ScaleRow(w) ==
  /\ Phase({"rms", "l2"}, w, NormLevels + 1) /\ TreeReady(NormLevels + 1)
  /\ LET by == Rsqrt(Read(lds, Partial(0)), IF cta.kernel = "rms" THEN job.cols ELSE 1)
         base == cta.x * job.cols
         cols == UNION {{Visited(t, job.cols)[k] : k \in DOMAIN Visited(t, job.cols)} :
                          t \in ThreadsOf(w, NormThreads)}
         val(i) == LET v == Scaled(Element(i), by)
                   IN  IF job.weighted THEN Scaled(v, Raw(<<"w", i>>)) ELSE v
     IN  Put([c \in {<<job.y, base + i>> : i \in cols} |-> val(c[2] - base)])
  /\ Goto(w, End) /\ Still

(* The k-th register goes to the k-th column from t on, T apart.           *)
ScaleKept(w) ==
  /\ Phase({"add_rms"}, w, NormLevels + 1) /\ TreeReady(NormLevels + 1)
  /\ LET by == Rsqrt(Read(lds, Partial(0)), job.cols)
         cols == {i \in 0 .. job.cols - 1 : i % NormThreads \in ThreadsOf(w, NormThreads)}
         kept(i) == regs[w][i % NormThreads][i \div NormThreads + 1]
     IN  Put([c \in {<<job.y, i>> : i \in cols} |-> Scaled(Scaled(kept(c[2]), by), Raw(<<"w", c[2]>>))])
  /\ Goto(w, End) /\ Still
-----------------------------------------------------------------------------
(* argmax_kernel, of as many threads: CTA (share x of the logits).  Logits *)
(* are small integers here; NaN compares with none and NegInf is below all.*)
NaN == 99
NegInf == -1
Greater(a, b) == a # NaN /\ b # NaN /\ a > b

Best(t) == <<"best", t>>
Candidate(id) == [v |-> job.logits[id], i |-> id]
Nobody == [v |-> NegInf, i |-> -1]

(* Variant: the later of two equal logits stays.                           *)
BetterOrEqual(kept, c) ==
  IF c.v # NaN /\ kept.v # NaN /\ (c.v >= kept.v \/ kept.i < 0) THEN c ELSE kept

(* The first logit of a thread that no later one of its stride exceeds.    *)
Better(kept, c) ==
  IF Greater(c.v, kept.v) \/ (kept.i < 0 /\ c.v # NaN) THEN c ELSE kept
BestOf(t) ==
  LET first == cta.x * NormThreads + t
      stride == ArgmaxBlocks * NormThreads
      count == IF first < job.cols THEN (job.cols - first - 1) \div stride + 1 ELSE 0
  IN  FoldLeft(Better, IF first = 0 THEN Candidate(0) ELSE Nobody,
               [k \in 1..count |-> Candidate(first + (k - 1) * stride)])

ScanLogits(w) ==
  /\ Phase({"argmax"}, w, 0)
  /\ Keep(regs, [c \in {Best(t) : t \in ThreadsOf(w, NormThreads)} |-> BestOf(c[2])])
  /\ Goto(w, 1) /\ Still

(* The upper half's candidate needs a greater value to replace the lower's. *)
FoldBest(w) ==
  \E p \in 1..NormLevels :
    /\ Phase({"argmax"}, w, p) /\ Synced(p)
    /\ LET off == NormThreads \div 2 ^ p
           of(t) == LET mine == Read(lds, Best(t))
                        other == Read(lds, Best(t + off))
                    IN  IF Greater(other.v, mine.v) \/ (mine.i < 0 /\ other.i >= 0)
                        THEN other ELSE mine
       IN  Keep(regs, [c \in {Best(t) : t \in {u \in ThreadsOf(w, NormThreads) : u < off}} |-> of(c[2])])
    /\ Goto(w, p + 1) /\ Still

(* A CTA that saw no number stores nothing.                                *)
StoreBest(w) ==
  /\ Phase({"argmax"}, w, NormLevels + 1) /\ Synced(NormLevels + 1)
  /\ LET best == Read(lds, Best(0))
     IN  Put([c \in {<<"candidate", cta.x>> : t \in {u \in ThreadsOf(w, 1) : best.i >= 0}} |-> best])
  /\ Goto(w, End) /\ Still

(* Variant: the host, too, compares values only.                           *)
PreferredByValue(kept, c) ==
  IF kept.i < 0 \/ Greater(c.v, kept.v) THEN c ELSE kept

(* Graph::finish_argmax: what the host makes of the candidates, those an   *)
(* earlier call left where a CTA stored none; here the lower id wins ties. *)
Preferred(kept, c) ==
  IF kept.i < 0 \/ Greater(c.v, kept.v) \/ (c.v # NaN /\ c.v = kept.v /\ c.i < kept.i)
  THEN c ELSE kept

finish_argmax ==
  LET of(b) == IF <<"candidate", b>> \in DOMAIN mem THEN mem[<<"candidate", b>>]
               ELSE job.before[b + 1]
      last == FoldLeft(Preferred, Nobody,
                SelectSeq([b \in 1..ArgmaxBlocks |-> of(b - 1)], LAMBDA c : c.i >= 0))
  IN  IF last.i < 0 THEN 0 ELSE last.i
-----------------------------------------------------------------------------
NormWarps == NormThreads \div Lanes

RmsNormLaunch ==
  \E j \in NormJobs :
    /\ j.op = "rms_norm_launch"
    /\ Start(j, <<Grid("rms", NormWarps, j.rows, 1, 1)>>)

L2NormLaunch ==
  \E j \in NormJobs :
    /\ j.op = "l2_norm_launch"
    /\ Start(j, <<Grid("l2", NormWarps, j.rows, 1, 1)>>)

AddRmsFusedLaunch ==
  \E j \in NormJobs :
    /\ j.op = "add_rms_fused_launch" /\ j.cols \in 1..FusedColumns
    /\ Start(j, <<Grid("add_rms", NormWarps, 1, 1, 1)>>)

ArgmaxLaunch ==
  \E j \in NormJobs :
    /\ j.op = "argmax_launch"
    /\ Start(j, <<Grid("argmax", NormWarps, ArgmaxBlocks, 1, 1)>>)

NormsNext ==
  \/ RmsNormLaunch \/ L2NormLaunch \/ AddRmsFusedLaunch \/ ArgmaxLaunch
  \/ \E w \in DOMAIN at :
       \/ SumSquares(w) \/ AddAndSum(w) \/ FoldHalf(w) \/ ScaleRow(w) \/ ScaleKept(w)
       \/ ScanLogits(w) \/ FoldBest(w) \/ StoreBest(w)
=============================================================================
