----------------------------- MODULE MCKernels -----------------------------
(***************************************************************************)
(* Small launches of every kernel.                                         *)
(***************************************************************************)
EXTENDS KernelProps

AttnArgs(op, pos, heads, kv, dim, splits) ==
  [op |-> op, pos |-> pos, heads |-> heads, kv |-> kv, dim |-> dim, splits |-> splits,
   kt |-> "F16", vt |-> "Q4_0", wpb |-> 0, hp |-> 1, kmax |-> 0, keys |-> 0]
Fa2Args(pos, heads, kv, hp) ==
  [AttnArgs("fa2_prefill_launch", pos, heads, kv, 4, 0) EXCEPT
    !.hp = hp, !.kmax = pos[Len(pos)], !.keys = pos[Len(pos)] + 1]

MCAttnJobs ==
  {AttnArgs("attn_launch", <<p>>, 2, 1, 4, 1) : p \in {0, 3}}
    \cup {AttnArgs("attn_batch_launch", <<1, 2>>, 2, 2, 4, 1),
          AttnArgs("attn_batch_launch", <<4>>, 2, 2, 12, 1)}
    \cup {AttnArgs("attn_launch_split", <<0>>, 1, 1, 12, 3),
          AttnArgs("attn_launch_split", <<7>>, 2, 1, 12, 2),
          AttnArgs("attn_split_batch_launch", <<3, 4>>, 1, 1, 12, 2),
          AttnArgs("attn_split_batch_launch", <<7, 8>>, 2, 2, 4, 1),
          [AttnArgs("attn_launch_split_wpb", <<5>>, 1, 1, 12, 2) EXCEPT !.wpb = 2, !.vt = "F16"],
          [AttnArgs("attn_launch_split_wpb", <<5>>, 1, 1, 12, 2) EXCEPT !.wpb = 2, !.vt = "Q5_0"]}
    \cup {Fa2Args(<<3, 4, 5>>, 2, 1, hp) : hp \in {1, 2}}
    \cup {Fa2Args(<<1, 2>>, 4, 2, 2)}

Each(op, f, a, b, y, n) ==
  [op |-> op, f |-> f, a |-> a, b |-> b, y |-> y, n |-> n, nb |-> 3, dim |-> 0, nrot |-> 0, rows |-> 0]
MCEachJobs ==
  {Each("unary_launch", "softplus", "x", "", "z", 9), Each("unary_launch", "sigmoid", "x", "", "x", 5),
   Each("scale_launch", "scale", "x", "", "x", 8),
   Each("mul_launch", "mul", "x", "z", "x", 9), Each("add_launch", "add", "x", "z", "z", 7),
   Each("add_bcast_launch", "add", "x", "z", "x", 9), Each("mul_bcast_launch", "mul", "x", "z", "x", 6),
   Each("silu_gate_launch", "", "x", "z", "x", 9), Each("silu_gate_launch", "", "x", "z", "z", 9),
   Each("sigmoid_gate_launch", "", "x", "", "z", 10), Each("gdn_scalars_launch", "", "", "", "", 9)}
  \cup {[Each(op, "", "", "", "", 12) EXCEPT !.dim = 3] @@ [heads |-> 2] :
          op \in {"deinterleave_q_gate_launch", "deinterleave_q_gate_batch_launch"}}
  \cup {[Each("rope_launch", "", "", "", "", 8) EXCEPT !.dim = 6, !.nrot = 4, !.rows = 2] @@ [heads |-> 2]}

Norm(op, rows, cols, weighted, y) ==
  [op |-> op, rows |-> rows, cols |-> cols, weighted |-> weighted, y |-> y]
(* All logits 1 but these: one maximum, in the first or the second block,  *)
(* no number in front, and equal ones: in a thread, in two blocks, in      *)
(* threads that the fold takes in the order of their ids, and in others.   *)
MCSpecial ==
  {20 :> 3 @@ 30 :> 2, 36 :> 3 @@ 3 :> NaN @@ 19 :> NaN @@ 35 :> NaN,
   0 :> NaN @@ 9 :> 3, [i \in 1..36 |-> NegInf], [i \in 1..30 |-> NaN],
   5 :> 3 @@ 21 :> 3, 13 :> 3 @@ 20 :> 3, 4 :> 3 @@ 6 :> 3 @@ 23 :> 3,
   4 :> 3 @@ 16 :> 3, 1 :> 3 @@ 4 :> 3}
MCLogits(special) == special @@ [i \in 0..36 |-> 1]
Argmax(special) ==
  [op |-> "argmax_launch", cols |-> 37, logits |-> MCLogits(special),
   before |-> <<[v |-> 9, i |-> 3], [v |-> 9, i |-> 11]>>]
MCArgmaxJobs == {Argmax(special) : special \in MCSpecial}
MCNormJobs ==
  {Norm("rms_norm_launch", 2, 9, TRUE, "x"), Norm("rms_norm_launch", 1, 45, FALSE, "y"),
   Norm("l2_norm_launch", 1, 42, FALSE, "x"),
   Norm("add_rms_fused_launch", 1, 41, TRUE, "y"), Norm("add_rms_fused_launch", 1, 3, TRUE, "y"),
   Norm("add_rms_fused_launch", 1, 80, TRUE, "y")}
  \cup MCArgmaxJobs

Gdn(op, nvh, nkh, s, tokens) ==
  [op |-> op, nvh |-> nvh, nkh |-> nkh, s |-> s, tokens |-> tokens,
   channels |-> 2 * nkh * s + nvh * s, k |-> 4]
ConvJob(op, nvh, nkh, s, tokens) == Gdn(op, nvh, nkh, s, tokens) @@ [y |-> "conv"]
DeltaJob(op, nvh, nkh, s, tokens) ==
  Gdn(op, nvh, nkh, s, tokens) @@ [shape |-> <<4, 2, TRUE>>, fused |-> TRUE]
MCGdnJobs ==
  {ConvJob("conv1d_state_launch", 2, 1, 3, 1), ConvJob("gdn_conv_fuse_launch", 3, 1, 3, 1),
   ConvJob("gdn_conv_fuse_launch", 1, 1, 9, 1),
   ConvJob("conv1d_state_batch_launch", 2, 1, 3, 3), ConvJob("conv1d_state_batch_launch", 2, 1, 2, 6)}
  \cup {DeltaJob("delta_rule_launch", 2, 1, s, 1) : s \in {6, 8}}
  \cup {DeltaJob("delta_rule_launch_scalar", 1, 1, 8, 1)}
  \cup {[DeltaJob("delta_rule_launch_ilp", 2, 2, 8, 1) EXCEPT !.shape = shape] :
          shape \in {<<8, 1, TRUE>>, <<4, 2, TRUE>>, <<4, 2, FALSE>>, <<2, 4, TRUE>>}}
  \cup {DeltaJob("delta_rule_batch_launch", 2, 1, s, 2) : s \in {5, 8}}
  \cup {[DeltaJob("delta_rule_batch_resident_launch", 2, 1, s, 3) EXCEPT !.fused = f] :
          s \in {6, 8}, f \in BOOLEAN}
  \cup {DeltaJob("delta_rule_batch_resident_launch", 3, 2, 4, 1),
         DeltaJob("delta_rule_batch_resident_launch", 1, 1, 9, 2)}
MCDeltaShapes == {<<8, 1, TRUE>>, <<4, 2, TRUE>>, <<4, 2, FALSE>>}

(* Types 1..14 in the order of dtype.h, an eighth of their lanes a block.  *)
MCSlots == <<1, 2, 2, 2, 2, 4, 1, 1, 1, 1, 1, 1, 1, 2>>
MCActBlocks == <<1, 2, 2, 2, 2, 2, 2, 2, 2, 2, 1, 2, 2, 2>>
MCBlockWords == [dt \in 1..14 |-> 2]
MCLutWords == [dt \in 1..14 |->
  CASE dt \in {7, 9, 12} -> 6 [] dt = 8 -> 12 [] dt = 13 -> 40 [] OTHER -> 0]

Product0(op, dt, nrows, cols, n) ==
  [op |-> op, dt |-> dt, nrows |-> nrows, cols |-> cols, n |-> n, stride |-> cols,
   xstride |-> cols]
MCMatvecJobs ==
  {Product0("proj", dt, 3, 6, 1) : dt \in {1, 7}}
    \cup {Product0("proj_qq", dt, 3, 14, 1) : dt \in {1, 2, 7, 9, 13}}
    \cup {Product0("proj_qq", 3, 1, 66, 1), Product0("proj_qq", 6, 2, 28, 1),
          Product0("proj_qq", 8, 1, 40, 1)}
    \cup {Product0("proj_qq", dt, 5, 14, 1) : dt \in {4, 12, 14}}
    \cup {Product0("matvec_launch_rows", 5, 5, 10, 1) @@ [rows |-> rows] : rows \in {2, 8}}
    \cup {Product0("matvec_launch_rows", 10, 3, 34, 1) @@ [rows |-> 16]}
    \cup {Product0("matvec_launch_tuned", 2, 3, 42, 1) @@ [ilp |-> ilp] : ilp \in {1, 4}}
    \cup {Product0("matvec_launch_unroll", 9, 2, 26, 1) @@ [unroll |-> u] : u \in {1, 4}}
    \cup {Product0("matvec_launch_minb", 5, 4, 6, 1) @@ [minb |-> 4],
          Product0("matvec_launch_variant", 13, 3, 18, 1)}
    \cup {Product0("matvec_launch_lut_lds", dt, 2, 6, 1) : dt \in {1, 13}}
    \cup {Product0("matvec_launch_lut_lds_unroll", dt, 1, 20, 1) @@ [unroll |-> 2] : dt \in {7, 8}}
    \cup {Product0("matvec_launch_batch_unroll", 9, 3, 18, 4) @@ [unroll |-> 2]}

Chunk(dt, nrows, cols, n) == Product0("proj_batch", dt, nrows, cols, n) @@ [ready |-> n * cols > 20]
Variant(cfg, dt, nrows, cols, n) == Product0("gemm_launch_cfg", dt, nrows, cols, n) @@ [cfg |-> cfg]
MCGemmJobs ==
  {Chunk(dt, 3, 10, n) : dt \in {1, 2}, n \in {2, 4}} \cup {Chunk(8, 1, 6, 2)}
    \cup {Chunk(10, 2, 34, n) : n \in {4, 5, 6, 7}}
    \cup {Chunk(7, 2, 6, 5), Chunk(7, 3, 4, 6), Chunk(9, 3, 4, 3), Chunk(12, 10, 6, 5)}
    \cup {Chunk(12, 3, 6, 6), Chunk(14, 9, 4, 7), Chunk(4, 9, 4, 6)}
    \cup {Variant(cfg, 12, 3, 6, 3) : cfg \in {1, 2, 5, 9, 10, 11, 12}}
    \cup {Variant(9, 14, 9, 4, 2)}
MCBigTile == [bm |-> 4, bn |-> 8, rm |-> 2, rn |-> 2]
MCSmallTile == [bm |-> 2, bn |-> 8, rm |-> 1, rn |-> 2]
MCBenchTile == [bm |-> 8, bn |-> 4, rm |-> 2, rn |-> 2]
=============================================================================
