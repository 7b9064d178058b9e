---------------------------- MODULE PrefillPlan ----------------------------
(***************************************************************************)
(* How a prompt is cut into chunks (include/rdna4/graph.cuh): which chunk  *)
(* sizes the batched path takes, and the dynamic programme of              *)
(* Graph::prefill_plan, whose plan has the fewest chunks and, of those,    *)
(* the fewest single tokens.                                               *)
(***************************************************************************)
EXTENDS Integers, Sequences

CONSTANTS
  BatchNs,    \* tuned::kBatchNs, the sizes the batched matvec is compiled for
  BatchCap,   \* tuned::kBatchCap, the largest of them
  BatchMax,   \* batch_max_: RD_PREFILL_CHUNK, from kMaxBatch to kMaxChunkHost
  GemmCovers, \* gemm_launch takes every weight type of the model
  MaxTotal    \* bound on the length of a prompt

ASSUME PlanAssumption ==
  /\ BatchNs \subseteq Nat \ {0, 1} /\ BatchCap \in BatchNs
  /\ \A n \in BatchNs : n <= BatchCap
  /\ BatchMax \in Nat /\ BatchCap <= BatchMax
  /\ GemmCovers \in BOOLEAN /\ MaxTotal \in Nat

ChunkOk(n) ==
  /\ n >= 2 /\ n <= BatchMax
  /\ n <= BatchCap => n \in BatchNs

\* proj_batch carries out n rows: in one launch, by the tiled matrix product,
\* or in sub-batches of BatchCap rows and one for the rest.
Launchable(n) ==
  \/ n \in BatchNs
  \/ GemmCovers
  \/ n % BatchCap \in BatchNs \cup {0, 1}

\* prefill_chunk_sizes: BatchMax, its halvings, and the compiled sizes.
Halvings ==
  {BatchMax \div d : d \in {1, 2, 4, 8, 16, 32, 64, 128, 256, 512}} \ {0, 1}
ChunkSizes == IF BatchMax > BatchCap THEN Halvings \cup BatchNs ELSE BatchNs

\* The sizes the plan may use; a single token goes the per-token way.
Candidates == {1} \cup {n \in ChunkSizes : ChunkOk(n)}

Cheaper(a, b) ==
  \/ a.chunks < b.chunks
  \/ a.chunks = b.chunks /\ a.ones < b.ones

\* What a plan for r tokens costs that takes p first, cost[n] being what n
\* tokens cost.
Via(cost, r, p) ==
  [chunks |-> cost[r - p].chunks + 1,
   ones   |-> cost[r - p].ones + (IF p = 1 THEN 1 ELSE 0)]

Vias(cost, r) == {Via(cost, r, p) : p \in {c \in Candidates : c <= r}}

\* cost and ones start at INF but for no tokens.
Unplanned(total) ==
  [r \in 0 .. total |-> IF r = 0 THEN [chunks |-> 0, ones |-> 0]
                        ELSE [chunks |-> total + 1000, ones |-> total + 1000]]

\* cost and ones of r tokens, once those of fewer tokens are known.
Cheapest(cost, r) ==
  CHOOSE v \in Vias(cost, r) : \A w \in Vias(cost, r) : ~Cheaper(w, v)

\* The table when the first loop of prefill_plan has worked out every entry
\* (module PrefillPlanProps takes it one entry at a time).
Cost ==
  LET after[r \in 0 .. MaxTotal] ==
        IF r = 0 THEN Unplanned(MaxTotal)
        ELSE [after[r - 1] EXCEPT ![r] = Cheapest(after[r - 1], r)]
  IN after[MaxTotal]

\* Variant: the largest chunk that fits, as before the dynamic programme.
TakeLargest(cost, r) ==
  CHOOSE p \in Candidates :
    p <= r /\ \A q \in Candidates : q <= r => q <= p

\* Variant: the smallest chunk of a best plan.
TakeSmallest(cost, r) ==
  LET takes == {p \in Candidates : p <= r /\ Via(cost, r, p) = cost[r]}
  IN CHOOSE p \in takes : \A q \in takes : p <= q

\* Variant: also sizes the batched path refuses.
TakeAnySize(cost, r) ==
  LET takes == {p \in ChunkSizes : p <= r}
  IN IF takes = {} THEN 1 ELSE CHOOSE p \in takes : \A q \in takes : q <= p

\* The next chunk when r tokens are left: the largest one a best plan may take.
Take(cost, r) ==
  LET takes == {p \in Candidates : p <= r /\ Via(cost, r, p) = cost[r]}
  IN IF takes = {} THEN 1 ELSE CHOOSE p \in takes : \A q \in takes : q <= p
=============================================================================
