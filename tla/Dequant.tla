------------------------------ MODULE Dequant ------------------------------
(***************************************************************************)
(* The block formats (quants.h, dtype.h) and their reference reader, the   *)
(* dequantize_* device functions of dequant.cuh under the launches of      *)
(* dequant_row.cuh.  A block's bits are symbols.  What a call of a reader  *)
(* gives for one weight is a Read: the weight's place y in the row, its    *)
(* quant and the scale and minimum it is multiplied by and reduced by,     *)
(* all of them block bits.  The fp16 factors d and dmin are the same for   *)
(* every weight of a block and are left out; so are the grid tables'       *)
(* values: a grid byte is its table, its index and its lane.               *)
(***************************************************************************)
EXTENDS SymbolicWord

Formats ==
  {"q8_0", "q2_K", "q3_K", "q4_K", "q5_K", "q6_K", "iq2_xxs", "iq2_xs",
   "iq2_s", "iq3_xxs", "iq3_s", "iq1_s", "iq4_nl", "iq4_xs"}

(* The bytes of each field of a block besides d (and dmin).                *)
Fields(t) ==
  CASE t = "q8_0" -> [qs |-> 32]
    [] t = "q2_K" -> [scales |-> 16, qs |-> 64]
    [] t = "q3_K" -> [hmask |-> 32, qs |-> 64, scales |-> 12]
    [] t = "q4_K" -> [scales |-> 12, qs |-> 128]
    [] t = "q5_K" -> [scales |-> 12, qh |-> 32, qs |-> 128]
    [] t = "q6_K" -> [ql |-> 128, qh |-> 64, scales |-> 16]
    [] t = "iq2_xxs" -> [qs |-> 64]
    [] t = "iq2_xs" -> [qs |-> 64, scales |-> 8]
    [] t = "iq2_s" -> [qs |-> 64, qh |-> 8, scales |-> 8]
    [] t = "iq3_xxs" -> [qs |-> 96]
    [] t = "iq3_s" -> [qs |-> 64, qh |-> 8, signs |-> 32, scales |-> 4]
    [] t = "iq1_s" -> [qs |-> 32, qh |-> 16]
    [] t = "iq4_nl" -> [qs |-> 16]
    [] t = "iq4_xs" -> [scales_h |-> 2, scales_l |-> 4, qs |-> 128]

HasMin(t) == t \in {"q2_K", "q4_K", "q5_K"}
Unit(t) == IF t = "q8_0" THEN 32 ELSE 256
BlockElems(t) == IF t \in {"q8_0", "iq4_nl"} THEN 32 ELSE 256

(* dtype_block_bytes                                                       *)
BlockBytes(t) ==
  CASE t = "q8_0" -> 34 [] t = "q2_K" -> 84 [] t = "q3_K" -> 110
    [] t = "q4_K" -> 144 [] t = "q5_K" -> 176 [] t = "q6_K" -> 210
    [] t = "iq2_xxs" -> 66 [] t = "iq2_xs" -> 74 [] t = "iq3_xxs" -> 98
    [] t = "iq1_s" -> 50 [] t = "iq4_nl" -> 18 [] t = "iq3_s" -> 110
    [] t = "iq2_s" -> 82 [] t = "iq4_xs" -> 136
-----------------------------------------------------------------------------
(* Bytes and little-endian words of a field.  Of the formats whose storage *)
(* block is smaller than the unit read, the blocks follow one another.     *)

Byte(f, i) == [k \in Position |-> IF k < 8 THEN {<<f, i, k>>} ELSE Zero]
Word(f, i) == [k \in Position |-> {<<f, i + k \div 8, (k % 8)>>}]
Half(f, i) == Keep(Word(f, 2 * i), 0..15)

(* A weight that is a number (code - off), and one that is a lane of an    *)
(* entry of a grid; the entry is negated when the bit neg is set.          *)
Quant(code, off) ==
  [tbl |-> "none", code |-> Num(code), off |-> off, lane |-> 0, neg |-> Zero]
Entry(tbl, index, lane, neg) ==
  [tbl |-> tbl, code |-> Num(index), off |-> 0, lane |-> lane, neg |-> neg]

(* A factor (bits - off) / over, and none.                                 *)
Factor(bits, off, over) == [bits |-> Num(bits), off |-> off, over |-> over]
Unscaled == Factor(Const({0}), 0, 1)
NoMin == Const({})

(* 2s + 1, which is how (0.5 + s) and (1 + 2s) look over 2 and over 1.      *)
Odd(s) == Or(Const({0}), Shl(s, 1))

Read(y, w, scale, m) == [y |-> y, w |-> w, scale |-> scale, min |-> Num(m)]
-----------------------------------------------------------------------------
(* The reads of one call of dequantize_<format>, by its thread tid.        *)

DequantQ80(tid) ==
  {Read(2 * tid + j, Quant(Byte("qs", 2 * tid + j), 0), Unscaled, NoMin) :
    j \in 0..1}

DequantQ2K(tid) ==
  LET n == tid \div 32
      l == tid % 32
      is == 8 * n + l \div 16
      q == Byte("qs", 32 * n + l)
  IN  {Read(128 * n + l + 32 * j, Quant(Keep(Shr(q, 2 * j), 0..1), 0),
            Factor(Keep(Byte("scales", is + 2 * j), Nibble), 0, 1),
            Shr(Byte("scales", is + 2 * j), 4)) : j \in 0..3}

ScaleQ3K(is) ==
  LET s(i) == Byte("scales", i)
  IN  CASE is < 4 -> Or(Keep(s(is), Nibble), Shl(Keep(s(is + 8), 0..1), 4))
        [] is \in 4..7 ->
             Or(Keep(s(is), Nibble), Shl(Keep(Shr(s(is + 4), 2), 0..1), 4))
        [] is \in 8..11 ->
             Or(Shr(s(is - 8), 4), Shl(Keep(Shr(s(is), 4), 0..1), 4))
        [] OTHER ->
             Or(Shr(s(is - 8), 4), Shl(Keep(Shr(s(is - 4), 6), 0..1), 4))

(* (q & 3) - (hmask bit ? 0 : 4) is the number with the bit on top, less 4. *)
DequantQ3K(tid) ==
  LET r == tid \div 4
      t == r \div 2
      is0 == r % 2
      l0 == 16 * is0 + 4 * (tid % 4)
      n == t \div 4
      j == t % 4
      high(l) == Keep(Shr(Byte("hmask", l), 4 * n + j), {0})
      low(l) == Keep(Shr(Byte("qs", 32 * n + l), 2 * j), 0..1)
  IN  {Read(128 * n + 32 * j + l, Quant(Or(low(l), Shl(high(l), 2)), 4),
            Factor(ScaleQ3K(8 * n + 2 * j + is0), 32, 1), NoMin) :
        l \in l0 .. l0 + 3}

(* get_scale_min_k4                                                        *)
ScaleK4(j) ==
  LET q(i) == Byte("scales", i)
  IN  IF j < 4 THEN Keep(q(j), 0..5)
      ELSE Or(Keep(q(j + 4), Nibble), Shl(Shr(q(j - 4), 6), 4))
MinK4LowOnly(j) == Keep(IF j < 4 THEN Byte("scales", j + 4) ELSE Shr(Byte("scales", j + 4), 4), Nibble)
MinK4(j) ==
  LET q(i) == Byte("scales", i)
  IN  IF j < 4 THEN Keep(q(j + 4), 0..5)
      ELSE Or(Shr(q(j + 4), 4), Shl(Shr(q(j), 6), 4))

DequantQ4K(tid) ==
  LET il == tid \div 8
      ir == tid % 8
      q(l) == Byte("qs", 32 * il + 4 * ir + l)
  IN  {Read(64 * il + 4 * ir + l + 32 * h, Quant(Keep(Shr(q(l), 4 * h), Nibble), 0),
            Factor(ScaleK4(2 * il + h), 0, 1), MinK4(2 * il + h)) :
        l \in 0..3, h \in 0..1}

DequantQ5K(tid) ==
  LET il == tid \div 16
      ir == tid % 16
      low(l, h) == Keep(Shr(Byte("qs", 32 * il + 2 * ir + l), 4 * h), Nibble)
      high(l, h) == Keep(Shr(Byte("qh", 2 * ir + l), 2 * il + h), {0})
  IN  {Read(64 * il + 2 * ir + l + 32 * h,
            Quant(Or(low(l, h), Shl(high(l, h), 4)), 0),
            Factor(ScaleK4(2 * il + h), 0, 1), MinK4(2 * il + h)) :
        l \in 0..1, h \in 0..1}

DequantQ6K(tid) ==
  LET ip == tid \div 32
      il == tid % 32
      is == 8 * ip + il \div 16
      low(j) == Keep(Shr(Byte("ql", 64 * ip + il + 32 * (j % 2)), 4 * (j \div 2)), Nibble)
      high(j) == Keep(Shr(Byte("qh", 32 * ip + il), 2 * j), 0..1)
  IN  {Read(128 * ip + il + 32 * j, Quant(Or(low(j), Shl(high(j), 4)), 32),
            Factor(Byte("scales", is + 2 * j), 0, 1), NoMin) : j \in 0..3}
-----------------------------------------------------------------------------
(* ksigns_iq2xs: seven stored signs and the one that makes them even.      *)
Ksigns(v) == [i \in Position |-> IF i = 7 THEN ParityOf(v, 0..6) ELSE v[i]]

(* A grid entry of eight lanes, and two entries of four.                   *)
Grid8(y, tbl, index, signs, scale) ==
  {Read(y + j, Entry(tbl, index, j, signs[j]), scale, NoMin) : j \in 0..7}
Grid4(y, tbl, first, second, signs, scale) ==
  {Read(y + j, Entry(tbl, IF j < 4 THEN first ELSE second, j % 4, signs[j]),
        scale, NoMin) : j \in 0..7}

DequantIq2xxs(tid) ==
  LET il == tid \div 8
      ib == tid % 8
      aux32 == Or(Half("qs", 4 * ib + 2), Shl(Half("qs", 4 * ib + 3), 16))
  IN  Grid8(32 * ib + 8 * il, "iq2xxs_grid", Byte("qs", 8 * ib + il),
            Ksigns(Keep(Shr(aux32, 7 * il), 0..6)),
            Factor(Odd(Shr(aux32, 28)), 0, 8))

DequantIq2xs(tid) ==
  LET il == tid \div 8
      ib == tid % 8
      q2 == Half("qs", 4 * ib + il)
      s == Keep(Shr(Byte("scales", ib), 4 * (il \div 2)), Nibble)
  IN  Grid8(32 * ib + 8 * il, "iq2xs_grid", Keep(q2, 0..8), Ksigns(Shr(q2, 9)),
            Factor(Odd(s), 0, 8))

DequantIq2s(tid) ==
  LET il == tid \div 8
      ib == tid % 8
      index == Or(Byte("qs", 4 * ib + il),
                  Keep(Shl(Byte("qh", ib), 8 - 2 * il), {8, 9}))
      s == Keep(Shr(Byte("scales", ib), 4 * (il \div 2)), Nibble)
  IN  Grid8(32 * ib + 8 * il, "iq2s_grid", index, Byte("qs", 32 + 4 * ib + il),
            Factor(Odd(s), 0, 8))

DequantIq3xxs(tid) ==
  LET il == tid \div 8
      ib == tid % 8
      q3(i) == Byte("qs", 8 * ib + i)
      aux32 == Word("qs", 64 + 4 * ib)
  IN  Grid4(32 * ib + 8 * il, "iq3xxs_grid", q3(2 * il), q3(2 * il + 1),
            Ksigns(Keep(Shr(aux32, 7 * il), 0..6)),
            Factor(Odd(Shr(aux32, 28)), 0, 4))

DequantIq3s(tid) ==
  LET il == tid \div 8
      ib == tid % 8
      index(k) == Or(Byte("qs", 8 * ib + 2 * il + k),
                     Keep(Shl(Byte("qh", ib), 8 - k - 2 * il), {8}))
      s == Keep(Shr(Byte("scales", ib \div 2), 4 * (ib % 2)), Nibble)
  IN  Grid4(32 * ib + 8 * il, "iq3s_grid", index(0), index(1),
            Byte("signs", 4 * ib + il), Factor(Odd(s), 0, 1))

(* Every weight is a nibble of the entry plus delta, whose sign is a bit:  *)
(* the lane is the nibble's, and the bit is kept as the minimum.           *)
DequantIq1s(tid) ==
  LET il == tid \div 8
      ib == tid % 8
      qh == Half("qh", ib)
      index == Or(Byte("qs", 4 * ib + il), Shl(Keep(Shr(qh, 3 * il), 0..2), 8))
  IN  {Read(32 * ib + 8 * il + j, Entry("iq1s_grid_gpu", index, j, Zero),
            Factor(Odd(Keep(Shr(qh, 12), 0..2)), 0, 1), Keep(qh, {15})) :
        j \in 0..7}

DequantIq4(y, q4(_), scale) ==
  {Read(y + j + 16 * h, Entry("kvalues_iq4nl", Keep(Shr(q4(j), 4 * h), Nibble), 0, Zero),
        scale, NoMin) : j \in 0..3, h \in 0..1}

DequantIq4nl(tid) ==
  LET il == tid \div 8
      ib == tid % 8
      q4(j) == Byte("qs", 16 * ib + 4 * il + j)
  IN  DequantIq4(32 * ib + 4 * il, q4, Unscaled)

DequantIq4xs(tid) ==
  LET il == tid \div 8
      ib == tid % 8
      q4(j) == Byte("qs", 16 * ib + 4 * il + j)
      low == Keep(Shr(Byte("scales_l", ib \div 2), 4 * (ib % 2)), Nibble)
      high == Keep(Shr(Half("scales_h", 0), 2 * ib), 0..1)
  IN  DequantIq4(32 * ib + 4 * il, q4, Factor(Or(low, Shl(high, 4)), 32, 1))
-----------------------------------------------------------------------------
(* dequant_row_launch: the threads of a unit, and what each of them does.  *)
DequantThreads(t) ==
  CASE t = "q8_0" -> 16
    [] t \in {"q2_K", "q3_K", "q5_K", "q6_K"} -> 64
    [] OTHER -> 32

Dequantize(t, tid) ==
  CASE t = "q8_0" -> DequantQ80(tid)
    [] t = "q2_K" -> DequantQ2K(tid)
    [] t = "q3_K" -> DequantQ3K(tid)
    [] t = "q4_K" -> DequantQ4K(tid)
    [] t = "q5_K" -> DequantQ5K(tid)
    [] t = "q6_K" -> DequantQ6K(tid)
    [] t = "iq2_xxs" -> DequantIq2xxs(tid)
    [] t = "iq2_xs" -> DequantIq2xs(tid)
    [] t = "iq2_s" -> DequantIq2s(tid)
    [] t = "iq3_xxs" -> DequantIq3xxs(tid)
    [] t = "iq3_s" -> DequantIq3s(tid)
    [] t = "iq1_s" -> DequantIq1s(tid)
    [] t = "iq4_nl" -> DequantIq4nl(tid)
    [] t = "iq4_xs" -> DequantIq4xs(tid)
=============================================================================
