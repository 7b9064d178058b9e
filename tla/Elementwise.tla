---------------------------- MODULE Elementwise ----------------------------
(***************************************************************************)
(* The kernels that compute every element from the same element of their   *)
(* operands: the unary and binary kernels of nn.cuh and their fused forms, *)
(* the GDN scalars and the split of the projection into query and gate     *)
(* (gdn.cuh), RoPE (attn.cuh).  An operand may be the buffer a result goes *)
(* to, as it is in the graph.                                              *)
(***************************************************************************)
EXTENDS Cta

CONSTANTS EachThreads,   \* 256 (RoPE 128), threads of a CTA
          EachJobs       \* the launches to make


(* What thread i writes.                                                   *)

UnaryAt(i) == Store(job.y, i, Ap1(job.f, In(job.a, i)))
BinaryAt(i) == Store(job.y, i, Ap2(job.f, In(job.a, i), In(job.b, i)))
BroadcastAt(i) == Store(job.y, i, Ap2(job.f, In(job.a, i), In(job.b, i % job.nb)))

(* y = silu(a) * b, and silu(a) back to a                                  *)
SiluGateAt(i) ==
  LET s == Ap1("silu", In(job.a, i))
  IN  Write(Store(job.a, i, s), Store(job.y, i, Ap2("mul", s, In(job.b, i))))

(* y = y * sigmoid(a), and sigmoid(a) back to a                            *)
SigmoidGateAt(i) ==
  LET s == Ap1("sigmoid", In(job.a, i))
  IN  Write(Store(job.a, i, s), Store(job.y, i, Ap2("mul", In(job.y, i), s)))

GdnScalarsAt(i) ==
  LET s == Ap1("softplus", Ap2("add", In("alpha", i), In("dt", i)))
  IN  Write(Store("beta", i, Ap1("sigmoid", In("beta", i))),
            Write(Store("alpha", i, s), Store("gate", i, Ap2("mul", s, In("A", i)))))

(* A head of the projection is its query and then its gate.                *)
DeinterleaveAt(i) ==
  LET d == i % job.dim
      from == (i \div job.dim) * 2 * job.dim + d
  IN  Write(Store("q", i, In("yq", from)), Store("gate", i, In("yq", from + job.dim)))

DeinterleaveBatchAt(i) ==
  LET d == i % job.dim
      h == (i \div job.dim) % job.heads
      t == i \div (job.heads * job.dim)
      from == (t * job.heads + h) * 2 * job.dim + d
  IN  Write(Store("q", i, In("yq", from)), Store("gate", i, In("yq", from + job.dim)))

(* The pairs are the two halves of the first n_rot dimensions.             *)
RopeAt(i) ==
  LET pairs == job.nrot \div 2
      p == i % pairs
      h == (i \div pairs) % job.heads
      t == i \div (pairs * job.heads)
      base == (t * job.heads + h) * job.dim
      theta == [op |-> "theta", pos |-> t, pair |-> p]
      x0 == In("x", base + p)
      x1 == In("x", base + p + pairs)
      rot(half) == [op |-> half, x0 |-> x0, x1 |-> x1, by |-> theta]
  IN  Write(Store("x", base + p, rot("rot0")), Store("x", base + p + pairs, rot("rot1")))

EachAt(i) ==
  CASE cta.kernel = "unary" -> UnaryAt(i)
    [] cta.kernel = "binary" -> BinaryAt(i)
    [] cta.kernel = "bcast" -> BroadcastAt(i)
    [] cta.kernel = "silu_gate" -> SiluGateAt(i)
    [] cta.kernel = "sigmoid_gate" -> SigmoidGateAt(i)
    [] cta.kernel = "gdn_scalars" -> GdnScalarsAt(i)
    [] cta.kernel = "deint" -> DeinterleaveAt(i)
    [] cta.kernel = "deint_batch" -> DeinterleaveBatchAt(i)
    [] cta.kernel = "rope" -> RopeAt(i)
-----------------------------------------------------------------------------
(* One element a thread; the grid-strided loop of the batched deinterleave *)
(* runs once, for its grid covers the elements.                            *)
EachKernels == {"unary", "binary", "bcast", "silu_gate", "sigmoid_gate", "gdn_scalars",
                "deint", "deint_batch", "rope"}
EachElement(w) ==
  /\ Phase(EachKernels, w, 0)
  /\ LET first == cta.x * EachThreads
         mine == {t \in ThreadsOf(w, EachThreads) : first + t < job.n}
     IN  Put(Together({EachAt(first + t) : t \in mine}))
  /\ Goto(w, End) /\ Still

EachLaunch(op, kernel) ==
  \E j \in EachJobs :
    /\ j.op = op
    /\ Start(j, <<Grid(kernel, EachThreads \div Lanes, (j.n + EachThreads - 1) \div EachThreads, 1, 1)>>)

UnaryLaunch == EachLaunch("unary_launch", "unary")
MulLaunch == EachLaunch("mul_launch", "binary")
AddLaunch == EachLaunch("add_launch", "binary")
ScaleLaunch == EachLaunch("scale_launch", "unary")
AddBcastLaunch == EachLaunch("add_bcast_launch", "bcast")
MulBcastLaunch == EachLaunch("mul_bcast_launch", "bcast")
SiluGateLaunch == EachLaunch("silu_gate_launch", "silu_gate")
SigmoidGateLaunch == EachLaunch("sigmoid_gate_launch", "sigmoid_gate")
GdnScalarsLaunch == EachLaunch("gdn_scalars_launch", "gdn_scalars")
DeinterleaveLaunch == EachLaunch("deinterleave_q_gate_launch", "deint")
DeinterleaveBatchLaunch == EachLaunch("deinterleave_q_gate_batch_launch", "deint_batch")
RopeLaunch == EachLaunch("rope_launch", "rope")

ElementwiseNext ==
  \/ UnaryLaunch \/ MulLaunch \/ AddLaunch \/ ScaleLaunch
  \/ AddBcastLaunch \/ MulBcastLaunch
  \/ SiluGateLaunch \/ SigmoidGateLaunch \/ GdnScalarsLaunch
  \/ DeinterleaveLaunch \/ DeinterleaveBatchLaunch \/ RopeLaunch
  \/ \E w \in DOMAIN at : EachElement(w)
=============================================================================
