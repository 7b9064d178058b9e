----------------------------- MODULE Attention -----------------------------
(***************************************************************************)
(* The attention kernels (attn.cuh, attn_fa2.cuh) over the rows of the KV  *)
(* cache: a token's query against the keys up to its position, the keys    *)
(* dealt to warps, and in the split form to CTAs, whose online softmaxes   *)
(* are merged; and the tiled prefill kernel.  The query rows are           *)
(* overwritten with the result, as graph.cuh calls them.                   *)
(*                                                                         *)
(* A slice is what a warp's online softmax has seen: a query, a kv head    *)
(* and keys in order.  Its maximum, its sum and its accumulator are the    *)
(* same slice, taken at another place (dim -1, and the dimension).         *)
(***************************************************************************)
EXTENDS Cta

CONSTANTS MaxPerLane,   \* kAttnMaxDimsPerLane
          Warps,        \* kAttnWarpsPerBlock
          WideWarps,    \* 16
          SplitLimit,   \* kAttnSplitWpbLimit
          SplitWide,    \* kAttnSplitWpbWide
          FaTile,       \* KTT
          FaQueries,    \* QT
          FaDim,        \* 256, the head dimension the tiled kernel is for
          FaGroup,      \* 6, the query heads of a kv head it is for
          AttnJobs      \* the launches to make

(* The threads below WPB are in warp 0.                                    *)
ASSUME WeightsInFirstWarp == Warps <= Lanes /\ WideWarps <= Lanes

(* Blocks and tiles have a size.                                           *)
ASSUME AttnAssumption ==
  /\ Warps \in Nat \ {0} /\ WideWarps \in Nat \ {0}
  /\ FaTile \in Nat \ {0} /\ FaQueries \in Nat \ {0} /\ FaGroup \in Nat \ {0}

(* The kernels of one token get one; the bench's are of some warps; and    *)
(* the tiled one gets a cache with a row for each key up to the last that  *)
(* a query sees (graph.cuh:1483 passes kmax = keys - 1, the last position).*)
ASSUME AttnJobsAssumption ==
  \A j \in AttnJobs :
    /\ "kv" \in DOMAIN j
    /\ j.heads \in Nat /\ j.dim \in Nat /\ j.pos \in Seq(Nat)
    /\ j.op \in {"attn_launch", "attn_launch_split", "attn_launch_split_wpb"} => Len(j.pos) = 1
    /\ j.op \in {"attn_launch_split", "attn_launch_split_wpb", "attn_split_batch_launch"} => j.splits \in Nat
    /\ j.op = "attn_launch_split_wpb" => j.wpb \in Nat \ {0}
    /\ j.op = "fa2_prefill_launch" =>
         /\ j.kv \in Nat \ {0} /\ j.hp \in Nat \ {0} /\ j.kmax \in Nat /\ j.keys \in Nat
         /\ j.kmax < j.keys /\ \A i \in 1 .. Len(j.pos) : j.pos[i] <= j.kmax

KvTypes == {"F32", "F16", "Q8_0", "Q4_0", "Q5_0", "Q4_1"}
DimsOk(dim) == dim % Lanes = 0 /\ dim \div Lanes <= MaxPerLane

(* attn_split_wpb                                                          *)
SplitWarps(splits) ==
  IF splits <= SplitLimit \/ splits >= SplitWide THEN WideWarps ELSE Warps

Tokens == Len(job.pos)
KvHead(h) == h \div (job.heads \div job.kv)
Dims == 0 .. job.dim - 1
Row(qt, h) == (qt * job.heads + h) * job.dim
X(qt, h, d) == <<"x", Row(qt, h) + d>>
Slot(qt, h, s) == ((qt * job.heads + h) * job.splits + s) * (2 + job.dim)

(* The row of a query, if nobody has written to it.                        *)
Query(qt, h) ==
  IF \A d \in Dims : Read(mem, X(qt, h, d)) = Raw(X(qt, h, d))
  THEN <<qt, h>> ELSE <<"overwritten", "overwritten">>

Slice(q, kv, keys, d) == [op |-> "slice", q |-> q, kv |-> kv, keys |-> keys, d |-> d]
Walk(first, step, last) ==
  [i \in 1 .. (IF first > last THEN 0 ELSE (last - first) \div step + 1) |->
    first + (i - 1) * step]

(* -INFINITY: a maximum of no keys.                                        *)
Empty(m) ==
  \/ m.op = "slice" /\ m.keys = <<>>
  \/ m.op = "max" /\ \A i \in DOMAIN m.of : m.of[i].op = "slice" /\ m.of[i].keys = <<>>

Nought == [op |-> "zero"]

(* The weighted sum of accumulators a under maxima m, over its weights.    *)
Merged(m, a) ==
  IF \A i \in DOMAIN m : Empty(m[i]) THEN Nought
  ELSE [op |-> "merged", m |-> m, a |-> a]
-----------------------------------------------------------------------------
(* attn_kernel and attn_batch_kernel: CTA (head x, token y).               *)

Scan(w) ==
  /\ Phase({"attn"}, w, 0)
  /\ LET q == Query(cta.y, cta.x)
         keys == Walk(w, Warps, job.pos[cta.y + 1])
         sl(d) == Slice(q, KvHead(cta.x), keys, d)
     IN  Keep(regs, [c \in {<<"slice", w, d>> : d \in Dims \cup {-1}} |-> sl(c[3])])
  /\ Goto(w, 1) /\ Still

(* Every warp merges the slices of all of them.                            *)
MergeSlices(w) ==
  /\ Phase({"attn"}, w, 1) /\ Synced(1)
  /\ LET of(d) == [i \in 1..Warps |-> Read(lds, <<"slice", i - 1, d>>)]
         at0 == Row(cta.y, cta.x)
     IN  Put([c \in {X(cta.y, cta.x, d) : d \in Dims} |-> Merged(of(-1), of(c[2] - at0))])
  /\ Goto(w, End) /\ Still
-----------------------------------------------------------------------------
(* attn_split_kernel and attn_split_batch_kernel: CTA (head x, split y,    *)
(* token z), of as many warps as the launch chose.                         *)

FirstQuery == Query(0, cta.x)
OwnQuery == Query(cta.z, cta.x)

ScanSplit(w) ==
  /\ Phase({"split"}, w, 0)
  /\ LET n == cta.warps
         q == OwnQuery
         keys == Walk(w + n * cta.y, n * job.splits, job.pos[cta.z + 1])
         sl(d) == Slice(q, KvHead(cta.x), keys, d)
     IN  Keep(regs, [c \in {<<"slice", w, d>> : d \in Dims \cup {-1}} |-> sl(c[3])])
  /\ Goto(w, 1) /\ Still

(* Thread 0 finds the maximum; the threads below WPB, which are all in     *)
(* warp 0, the weights: an empty split's are zero, not exp(-inf + inf).    *)
SplitMax(w) ==
  /\ Phase({"split"}, w, 1) /\ Synced(1)
  /\ IF w = 0
     THEN Keep(regs, [c \in {<<"cmax">>} |->
            [op |-> "max", of |-> [i \in 1..cta.warps |-> Read(lds, <<"slice", i - 1, -1>>)]]])
     ELSE UNCHANGED <<regs, lds, mem>>
  /\ Goto(w, 2) /\ Still

Weight(m, cmax) ==
  IF Empty(cmax) THEN Nought ELSE [op |-> "exp", m |-> m, less |-> cmax]

SplitWeights(w) ==
  /\ Phase({"split"}, w, 2) /\ Synced(2)
  /\ LET mine == {t \in 0 .. cta.warps - 1 : t \div Lanes = w}
     IN  Keep(regs, [c \in {<<"wts", t>> : t \in mine} |->
           Weight(Read(lds, <<"slice", c[2], -1>>), Read(lds, <<"cmax">>))])
  /\ Goto(w, 3) /\ Still

(* sum of wts[i] * the slices' values at d                                 *)
Dot(d) ==
  [op |-> "dot", wts |-> [i \in 1..cta.warps |-> Read(lds, <<"wts", i - 1>>)],
   of |-> [i \in 1..cta.warps |-> Read(lds, <<"slice", i - 1, d>>)]]

(* The threads of warp w, and the dimensions each of them writes.          *)
Threads(w) == ThreadsOf(w, cta.warps * Lanes)
FirstOnly(t) == {d \in Dims : d = t}
Strided(t) == {d \in Dims : d % (cta.warps * Lanes) = t}

WritePartial(w) ==
  /\ Phase({"split"}, w, 3) /\ Synced(3)
  /\ LET base == Slot(cta.z, cta.x, cta.y)
         own == UNION {Strided(t) : t \in Threads(w)}
         off == {2 + d : d \in own} \cup (IF w = 0 THEN {0, 1} ELSE {})
     IN  Put([c \in {<<"part", base + o>> : o \in off} |->
           IF c[2] = base THEN Read(lds, <<"cmax">>) ELSE Dot(c[2] - base - 2)])
  /\ Goto(w, End) /\ Still

(* attn_merge_kernel and attn_merge_batch_kernel: one warp for each        *)
(* (head x, token y).                                                      *)
MergeSplits(w) ==
  /\ Phase({"merge"}, w, 0)
  /\ LET ps(s, o) == Read(mem, <<"part", Slot(cta.y, cta.x, s) + o>>)
         of(o) == [i \in 1..job.splits |-> ps(i - 1, o)]
         at0 == Row(cta.y, cta.x)
     IN  Put([c \in {X(cta.y, cta.x, d) : d \in Dims} |->
           Merged(of(0), of(2 + c[2] - at0))])
  /\ Goto(w, End) /\ Still
-----------------------------------------------------------------------------
(* attn_fa2_prefill_kernel: CTA (kv head x, tile of queries y), a query a  *)
(* warp, job.hp heads of the group in a pass, keys and values through the  *)
(* LDS a tile at a time.                                                   *)

Group == job.heads \div job.kv
Tiles == (job.kmax + FaTile) \div FaTile
Passes == (Group + job.hp - 1) \div job.hp
PassLength == 2 * Tiles + 1
Pass(p) == p \div PassLength
Tile(p) == (p % PassLength) \div 2
MyQuery(w) == cta.y * FaQueries + w
Active(w) == MyQuery(w) < Tokens
PassHeads(c) == c * job.hp .. (IF (c + 1) * job.hp < Group THEN (c + 1) * job.hp ELSE Group) - 1
HeadOf(hh) == cta.x * Group + hh

(* The barrier that closes the tile before; a pass ends behind one.        *)
TileFree(p) == IF p % PassLength = 0 THEN Synced(p - 1) ELSE Synced(p)

LoadTile(w, p) ==
  /\ Phase({"fa2"}, w, p) /\ p % PassLength < 2 * Tiles /\ p % 2 = Pass(p) % 2
  /\ TileFree(p)
  /\ LET j0 == FaTile * Tile(p)
         rows == {j \in 0 .. FaTile - 1 : j0 + j < job.keys /\ j % FaQueries = w}
         fresh == [hh \in PassHeads(Pass(p)) |->
                    Slice(Query(MyQuery(w), HeadOf(hh)), cta.x, <<>>, 0)]
     IN  Keep(IF Tile(p) = 0 /\ Active(w) THEN [regs EXCEPT ![w] = fresh] ELSE regs,
              [c \in {"k", "v"} \X rows |-> [op |-> "row", cache |-> c[1], key |-> j0 + c[2], kv |-> cta.x]])
  /\ Goto(w, p + 1) /\ Still

(* The keys of the tile up to the query's position, as the LDS has them.   *)
Seen(w, p) ==
  LET j0 == FaTile * Tile(p)
      n == Cardinality({j \in 0 .. FaTile - 1 : j0 + j <= job.pos[MyQuery(w) + 1]})
      key(j) == LET k == Read(lds, <<"k", j>>) v == Read(lds, <<"v", j>>)
                IN  IF k.op = "row" /\ v.op = "row" /\ k.key = v.key /\ k.cache = "k" /\ v.cache = "v"
                         /\ k.kv = cta.x /\ v.kv = cta.x
                    THEN k.key ELSE -1
  IN  [j \in 1..n |-> key(j - 1)]

ConsumeTile(w, p) ==
  /\ Phase({"fa2"}, w, p) /\ p % PassLength < 2 * Tiles /\ p % 2 # Pass(p) % 2
  /\ Synced(p)
  /\ IF Active(w)
     THEN LET more(sl) == [sl EXCEPT !.keys = @ \o Seen(w, p)]
          IN  Keep([regs EXCEPT ![w] = [hh \in DOMAIN @ |-> more(@[hh])]], <<>>)
     ELSE UNCHANGED <<regs, lds, mem>>
  /\ Goto(w, p + 1) /\ Still

WriteRows(w, p) ==
  /\ Phase({"fa2"}, w, p) /\ p % PassLength = 2 * Tiles
  /\ Synced(p)
  /\ IF Active(w)
     THEN LET cells == {X(MyQuery(w), HeadOf(hh), d) : hh \in PassHeads(Pass(p)), d \in Dims}
              at0 == Row(MyQuery(w), cta.x * Group)
              val(c) == LET sl == regs[w][(c[2] - at0) \div job.dim]
                            d == (c[2] - at0) % job.dim
                        IN  Merged(<<[sl EXCEPT !.d = -1]>>, <<[sl EXCEPT !.d = d]>>)
          IN  Put([c \in cells |-> val(c)])
     ELSE UNCHANGED <<regs, lds, mem>>
  /\ Goto(w, IF Pass(p) = Passes - 1 THEN End ELSE p + 1) /\ Still
-----------------------------------------------------------------------------
(* The launchers.  A launch that returns false runs nothing.               *)

(* The split launches the bench makes with warps of its own choice know    *)
(* fewer pairs of types.                                                   *)
BenchPairs ==
  ({"F32", "F16", "Q8_0", "Q4_0"} \X {"F32", "F16", "Q8_0", "Q4_0"}) \cup {<<"Q5_0", "Q5_0">>, <<"Q4_1", "Q4_1">>}
TypesOk(j) ==
  IF j.op = "attn_launch_split_wpb" THEN <<j.kt, j.vt>> \in BenchPairs
  ELSE <<j.kt, j.vt>> \in KvTypes \X KvTypes

SplitGrids(j, n, warps) ==
  <<Grid("split", warps, j.heads, j.splits, n), Grid("merge", 1, j.heads, n, 1)>>

AttnLaunch ==
  \E j \in AttnJobs :
    /\ j.op = "attn_launch" /\ TypesOk(j) /\ DimsOk(j.dim)
    /\ Start(j, <<Grid("attn", Warps, j.heads, 1, 1)>>)

AttnBatchLaunch ==
  \E j \in AttnJobs :
    /\ j.op = "attn_batch_launch" /\ TypesOk(j) /\ DimsOk(j.dim)
    /\ Start(j, <<Grid("attn", Warps, j.heads, Len(j.pos), 1)>>)

AttnLaunchSplit ==
  \E j \in AttnJobs :
    /\ j.op = "attn_launch_split" /\ TypesOk(j) /\ DimsOk(j.dim) /\ j.splits >= 1
    /\ Start(j, SplitGrids(j, 1, SplitWarps(j.splits)))

AttnLaunchSplitWpb ==
  \E j \in AttnJobs :
    /\ j.op = "attn_launch_split_wpb" /\ TypesOk(j) /\ DimsOk(j.dim) /\ j.splits >= 1
    /\ Start(j, SplitGrids(j, 1, j.wpb))

AttnSplitBatchLaunch ==
  \E j \in AttnJobs :
    /\ j.op = "attn_split_batch_launch" /\ TypesOk(j) /\ DimsOk(j.dim)
    /\ j.splits >= 1 /\ Len(j.pos) >= 1
    /\ Start(j, SplitGrids(j, Len(j.pos), SplitWarps(j.splits)))

Fa2PrefillLaunch ==
  \E j \in AttnJobs :
    /\ j.op = "fa2_prefill_launch"
    /\ j.dim = FaDim /\ j.heads \div j.kv = FaGroup /\ j.heads % j.kv = 0
    /\ Len(j.pos) >= 1 /\ j.kmax >= 0 /\ j.keys > 0
    /\ Start(j, <<Grid("fa2", FaQueries, j.kv, (Len(j.pos) + FaQueries - 1) \div FaQueries, 1)>>)

AttentionNext ==
  \/ AttnLaunch \/ AttnBatchLaunch \/ AttnLaunchSplit \/ AttnLaunchSplitWpb
  \/ AttnSplitBatchLaunch \/ Fa2PrefillLaunch
  \/ \E w \in DOMAIN at :
       \/ Scan(w) \/ MergeSlices(w)
       \/ ScanSplit(w) \/ SplitMax(w) \/ SplitWeights(w) \/ WritePartial(w) \/ MergeSplits(w)
       \/ \E p \in {at[w]} : LoadTile(w, p) \/ ConsumeTile(w, p) \/ WriteRows(w, p)
=============================================================================
