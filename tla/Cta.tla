-------------------------------- MODULE Cta --------------------------------
(***************************************************************************)
(* What the kernels of nn.cuh, attn.cuh, gdn.cuh, matvec.cuh and gemm.cuh  *)
(* run on.  A launch puts the CTAs of its grid on the stream; the CTAs of  *)
(* one grid run in any order, the grids one after the other.  The warps of *)
(* a CTA run phase by phase: they share the LDS, keep what they accumulate *)
(* in registers and wait for one another only at __syncthreads.  The LDS   *)
(* keeps what the CTA before left in it.  Values are the terms they were   *)
(* computed from, in order, so two results that differ in the order of a   *)
(* floating-point sum are different values.                                *)
(***************************************************************************)
EXTENDS Integers, Sequences, FiniteSets

CONSTANT Lanes     \* threads of a warp, 32

ASSUME LanesAssumption == Lanes \in Nat \ {0}

VARIABLES job,     \* the arguments of the launch, or None
          stream,  \* the grids still to run, each the set of its CTAs
          cta,     \* the CTA that is running, or Idle
          at,      \* the phase each of its warps is in
          regs,    \* what each of its warps has accumulated
          lds,     \* cells of the LDS that were written since power-on
          mem      \* cells of device memory this launch has written
vars == <<job, stream, cta, at, regs, lds, mem>>

None == [op |-> "none"]
Idle == [kernel |-> "idle"]
End == -1   \* the phase of a warp that has returned

(* A value computed from one or two others.                                *)
Ap1(f, x) == [op |-> f, x |-> x]
Ap2(f, x, y) == [op |-> f, x |-> x, y |-> y]

(* A cell nobody wrote holds what it held before.                          *)
Raw(cell) == [op |-> "raw", cell |-> cell]
Read(memory, cell) == IF cell \in DOMAIN memory THEN memory[cell] ELSE Raw(cell)
Write(memory, cells) ==
  [c \in DOMAIN memory \cup DOMAIN cells |->
    IF c \in DOMAIN cells THEN cells[c] ELSE memory[c]]

(* What several threads store together.                                    *)
Together(stores) ==
  [c \in UNION {DOMAIN f : f \in stores} |-> (CHOOSE f \in stores : c \in DOMAIN f)[c]]

(* The arguments of a launch, and what the host worked out for it.         *)
With(args, more) ==
  [f \in DOMAIN args \cup DOMAIN more |-> IF f \in DOMAIN args THEN args[f] ELSE more[f]]

(* Element i of a buffer, and a store to it.                               *)
Store(buffer, i, v) == [c \in {<<buffer, i>>} |-> v]
In(buffer, i) == Read(mem, <<buffer, i>>)

(* How many CTAs of this size cover n.                                     *)
Blocks(n, size) == (n + size - 1) \div size

Grid(kernel, warps, xs, ys, zs) ==
  {[kernel |-> kernel, warps |-> warps, x |-> x, y |-> y, z |-> z] :
    x \in 0 .. xs - 1, y \in 0 .. ys - 1, z \in 0 .. zs - 1}
-----------------------------------------------------------------------------
CtaInit ==
  /\ job = None /\ stream = <<>> /\ cta = Idle
  /\ at = <<>> /\ regs = <<>> /\ lds = <<>> /\ mem = <<>>

Start(j, grids) ==
  /\ job = None
  /\ job' = j /\ stream' = grids
  /\ UNCHANGED <<cta, at, regs, lds, mem>>

RunCta ==
  /\ cta = Idle /\ stream # <<>>
  /\ \E c \in Head(stream) :
       /\ cta' = c
       /\ at' = [w \in 0 .. c.warps - 1 |-> 0]
       /\ regs' = [w \in 0 .. c.warps - 1 |-> <<>>]
       /\ stream' = IF Head(stream) = {c} THEN Tail(stream)
                    ELSE [stream EXCEPT ![1] = @ \ {c}]
  /\ UNCHANGED <<job, lds, mem>>

RetireCta ==
  /\ cta # Idle /\ \A w \in DOMAIN at : at[w] = End
  /\ cta' = Idle /\ at' = <<>> /\ regs' = <<>>
  /\ UNCHANGED <<job, stream, lds, mem>>

Finished == job # None /\ stream = <<>> /\ cta = Idle

(* The host reads the result.                                              *)
Collect ==
  /\ Finished
  /\ job' = None /\ mem' = <<>> /\ lds' = <<>>
  /\ UNCHANGED <<stream, cta, at, regs>>
-----------------------------------------------------------------------------
(* Warp w of a CTA of one of these kernels is about to run phase p.        *)
Phase(kernels, w, p) ==
  cta.kernel \in kernels /\ w \in DOMAIN at /\ at[w] = p /\ p # End

(* __syncthreads() before phase p.                                         *)
Synced(p) == \A v \in DOMAIN at : at[v] >= p \/ at[v] = End

(* Those of the threads 0 .. n-1 that are in warp w.                       *)
ThreadsOf(w, n) == {t \in 0 .. n - 1 : t \div Lanes = w}

Goto(w, p) == at' = [at EXCEPT ![w] = p]
Keep(r, cells) == regs' = r /\ lds' = Write(lds, cells) /\ UNCHANGED mem
Put(cells) == mem' = Write(mem, cells) /\ UNCHANGED <<regs, lds>>
Still == UNCHANGED <<job, stream, cta>>
=============================================================================
