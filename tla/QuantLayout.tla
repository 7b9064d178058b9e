---------------------------- MODULE QuantLayout ----------------------------
(***************************************************************************)
(* The three readers of a quantised row at work.  A job is one reader of   *)
(* one format over one unit of weights (a super-block, or a q8_0 block):   *)
(* the threads of dequant_row's launch, the calls (kbx, iqs) that          *)
(* matvec_kernel_gen makes, or the sub-blocks a GEMM window stages.  Calls *)
(* touch nothing in common, so they are made in one order; got is what     *)
(* they have read and products how many reads that took.                   *)
(***************************************************************************)
EXTENDS GemmSolver

VARIABLES job, call, got, products
vars == <<job, call, got, products>>

None == [reader |-> "none", fmt |-> "q8_0", form |-> "none"]

Jobs ==
  [reader : {"dequant"}, fmt : Formats, form : {"vsub"}]
    \cup UNION {[reader : {"dot"}, fmt : {t}, form : DotForms(t)] : t \in Formats}
    \cup UNION {[reader : {"stage"}, fmt : {t}, form : StageForms(t)] : t \in Formats}

(* The slots of a block in matvec_kernel_gen: qi/vdr neighbouring threads  *)
(* share it, each starting vdr words further.                              *)
Slots(t) == Qi(t) \div Vdr(t)
KqsPacked(t, tg) == tg % Slots(t)
Kqs(t, tg) == Vdr(t) * (tg % Slots(t))
Kbx(t, tg) == tg \div Slots(t)

Calls(j) ==
  CASE j.reader = "dequant" -> DequantThreads(j.fmt)
    [] j.reader = "dot" -> Slots(j.fmt) * (Unit(j.fmt) \div BlockElems(j.fmt))
    [] j.reader = "stage" -> 8
    [] OTHER -> 0

Reads(j, n) ==
  CASE j.reader = "dequant" -> Dequantize(j.fmt, n)
    [] j.reader = "dot" -> VecDot(j.fmt, j.form, Kbx(j.fmt, n), Kqs(j.fmt, n))
    [] j.reader = "stage" -> Stage(j.fmt, j.form, n)
-----------------------------------------------------------------------------
Init == job = None /\ call = 0 /\ got = {} /\ products = 0

Launch ==
  /\ job = None
  /\ job' \in Jobs
  /\ UNCHANGED <<call, got, products>>

Call ==
  /\ call < Calls(job)
  /\ LET r == Reads(job, call)
     IN  got' = got \cup r /\ products' = products + Cardinality(r)
  /\ call' = call + 1
  /\ UNCHANGED job

Retire ==
  /\ job # None /\ call = Calls(job)
  /\ job' = None /\ call' = 0 /\ got' = {} /\ products' = 0

Next == Launch \/ Call \/ Retire
Spec == Init /\ [][Next]_vars
-----------------------------------------------------------------------------
(* What the unit holds, according to the dequantizers.                     *)
Reference ==
  [t \in Formats |-> UNION {Dequantize(t, tid) : tid \in 0 .. DequantThreads(t) - 1}]

Finished == job # None /\ call = Calls(job)

(* "Bit-exact" in vecdotq.cuh, matvec.cuh and gemm.cuh: whatever the bits  *)
(* of a block, the dot products, in every one of their bodies, and the     *)
(* GEMM stagings multiply an activation by the weight, signed, scaled and  *)
(* offset as the dequantizer reads it at that place of the row.            *)
SameWeight == got \subseteq Reference[job.fmt]

(* No activation of the unit is left out or multiplied twice, and the      *)
(* dequantizers write every element of it once (the comment on "indexing   *)
(* past the 32-element block", dequant_row.cuh).                           *)
EachOnce ==
  /\ Cardinality({r.y : r \in got}) = products
  /\ Finished => {r.y : r \in got} = 0 .. Unit(job.fmt) - 1

(* The bits of the code, sign, scale and minimum of a read.                *)
BitsOf(num) == UNION {p[2] : p \in num} \ One
BitsRead(r) == BitsOf(r.w.code) \cup (r.w.neg \ One) \cup BitsOf(r.scale.bits) \cup BitsOf(r.min)

(* The dequantizers stay inside the fields of the unit's blocks and use    *)
(* every bit of them; with d and dmin these are the bytes                  *)
(* dtype_block_bytes counts, which the loader and the row strides go by.   *)
EveryBitRead ==
  Finished /\ job.reader = "dequant" =>
    LET blocks == Unit(job.fmt) \div BlockElems(job.fmt)
        fields == Fields(job.fmt)
        bits == UNION {{f} \X (0 .. blocks * fields[f] - 1) \X LowByte : f \in DOMAIN fields}
    IN  /\ UNION {BitsRead(r) : r \in got} = bits
        /\ Cardinality(bits) = 8 * blocks * (BlockBytes(job.fmt) - IF HasMin(job.fmt) THEN 4 ELSE 2)
=============================================================================
