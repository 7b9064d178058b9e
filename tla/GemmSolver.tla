----------------------------- MODULE GemmSolver -----------------------------
(***************************************************************************)
(* The readers of the tiled GEMM (gemm.cuh): for a sub-block of 32 weights *)
(* a solver's load copies raw fields to registers, store unpacks them to   *)
(* eight words in the order of the weights, and the epilogue multiplies    *)
(* word i with word i of the activation block and applies the scale.  The  *)
(* "raw" staging of iq3_s, iq3_xxs and iq4_xs packs the registers to a     *)
(* record and unpacks it at the use.  A Read is a product, as in VecDot.   *)
(***************************************************************************)
EXTENDS VecDot

(* gemm_sign_mask4, and the negation (g ^ m) + (m & 0x01010101).           *)
SignMask4(bits) == Mul(LaneBits(bits), LowByte)
AddMaskBit(m, k) ==
  LET t == Keep(m, Each({0}))
  IN  IF MaskBit(m, k) = t[8 * k] THEN t[8 * k] ELSE Clash
ByteNeg(sb, h, k) == AddMaskBit(SignMask4(Keep(Shr(sb, 4 * h), Nibble)), k)

(* Eight words against the sub-block's activations; w(i, k) is lane k of   *)
(* word i, and words 0..3 and 4..7 may have scales of their own (corr2).   *)
Staged(sub, w(_, _), scale(_), m(_)) ==
  {Read(32 * sub + 4 * i + k, w(i, k), scale(i \div 4), m(i \div 4)) :
    i \in 0..7, k \in 0..3}

(* The grid words of the eight groups' halves, signed from a whole byte    *)
(* per group or from a field of seven bits.                                *)
StagedGrid(sub, g(_), neg(_, _), scale(_)) ==
  LET w(i, k) == Signed(g(i), k, neg(i, k))
      none(i) == NoMin
  IN  Staged(sub, w, scale, none)
-----------------------------------------------------------------------------
(* The registers (Pf) of the solvers that also stage them raw.             *)

LoadIq3s(sub) ==
  [qs0 |-> Word("qs", 8 * sub), qs1 |-> Word("qs", 8 * sub + 4),
   qh |-> Byte("qh", sub), sg |-> Word("signs", 4 * sub),
   dsc |-> Shl(Byte("scales", sub \div 2), 16)]
LoadIq3xxs(sub) ==
  [qs0 |-> Word("qs", 8 * sub), qs1 |-> Word("qs", 8 * sub + 4),
   aux |-> Word("qs", 64 + 4 * sub)]
LoadIq4xs(sub) ==
  [q |-> [i \in 0..3 |-> Word("qs", 16 * sub + 4 * i)],
   dsl |-> Shl(Byte("scales_l", sub \div 2), 16), sh |-> Half("scales_h", 0)]

(* raw_pack and decode_raw: the iq3_s record keeps qh in the low byte of   *)
(* its last word and pushes d and the scale up by it; the others are kept  *)
(* word for word.                                                          *)
RawRecord(t, p) ==
  IF t = "iq3_s"
  THEN <<p.qs0, p.qs1, p.sg, Or(Keep(p.qh, LowByte), Shl(p.dsc, 8))>>
  ELSE <<p>>
FromRaw(t, rec) ==
  IF t = "iq3_s"
  THEN [qs0 |-> rec[1], qs1 |-> rec[2], sg |-> rec[3],
        qh |-> Keep(rec[4], LowByte), dsc |-> Shr(rec[4], 8)]
  ELSE rec[1]

(* Byte i of the eight bytes in two registers.                             *)
ByteOf(first, second, i) == Lane(IF i < 4 THEN first ELSE second, i % 4)

StoreIq3s(p, sub) ==
  LET index(i) == Or(ByteOf(p.qs0, p.qs1, i),
                     Keep(Shl(p.qh, (8 - (i % 2)) - 2 * (i \div 2)), {8}))
      g(i) == GridWord("iq3s_grid", index(i), 0)
      neg(i, k) == ByteNeg(Lane(p.sg, i \div 2), i % 2, k)
      scale(h) == Factor(Odd(Keep(Shr(Shr(p.dsc, 16), 4 * (sub % 2)), Nibble)), 0, 1)
  IN  StagedGrid(sub, g, neg, scale)

StoreIq3xxs(p, sub) ==
  LET g(i) == GridWord("iq3xxs_grid", ByteOf(p.qs0, p.qs1, i), 0)
      neg(i, k) == ByteNeg(Even8(Keep(Shr(p.aux, 7 * (i \div 2)), LowByte)), i % 2, k)
      scale(h) == Factor(Odd(Shr(p.aux, 28)), 0, 4)
  IN  StagedGrid(sub, g, neg, scale)

(* Words 0..3 are the low nibbles of the 16 bytes, 4..7 the high ones.     *)
StoreIq4xs(p, sub) ==
  LET w(i, k) == FromTable16(p.q[i % 4], i \div 4, k)
      low == Keep(Shr(Shr(p.dsl, 16), 4 * (sub % 2)), Nibble)
      high == Shl(Keep(Shr(p.sh, 2 * sub), 0..1), 4)
      scale(h) == Factor(Or(low, high), 32, 1)
      none(h) == NoMin
  IN  Staged(sub, w, scale, none)
-----------------------------------------------------------------------------
(* The other grid solvers, load and store in one.                          *)

(* ls0 | ls1 << 16 of a byte of scales, as corr2 takes them apart.         *)
DualScale(sc) == Or(Keep(sc, Nibble), Shl(Keep(sc, 4..7), 12))
Corr2(scf, h) == Factor(Odd(Keep(Shr(scf, 16 * h), 0..15)), 0, 8)

StageIq2s(sub) ==
  LET q == Word("qs", 4 * sub)
      sg == Word("qs", 32 + 4 * sub)
      qhsc == Or(Byte("qh", sub), Shl(Byte("scales", sub), 8))
      index(il) == Or(Lane(q, il), Keep(Shl(Keep(qhsc, LowByte), 8 - 2 * il), {8, 9}))
      g(i) == GridWord("iq2s_grid", index(i \div 2), i % 2)
      neg(i, k) == ByteNeg(Lane(sg, i \div 2), i % 2, k)
      scale(h) == Corr2(DualScale(Shr(qhsc, 8)), h)
  IN  StagedGrid(sub, g, neg, scale)

StageIq2xs(sub) ==
  LET q(il) == Keep(Shr(Word("qs", 8 * sub + 4 * (il \div 2)), 16 * (il % 2)), 0..15)
      g(i) == GridWord("iq2xs_grid", Keep(q(i \div 2), 0..8), i % 2)
      neg(i, k) ==
        MaskBit(BroadcastMask(UnpackKsigns(Shr(q(i \div 2), 9)), i % 2), k)
      scale(h) == Corr2(DualScale(Byte("scales", sub)), h)
  IN  StagedGrid(sub, g, neg, scale)

StageIq2xxs(sub) ==
  LET aux8 == Word("qs", 8 * sub)
      aux32 == Word("qs", 8 * sub + 4)
      g(i) == GridWord("iq2xxs_grid", Lane(aux8, i \div 2), i % 2)
      neg(i, k) ==
        MaskBit(BroadcastMask(UnpackKsigns(Shr(aux32, 7 * (i \div 2))), i % 2), k)
      scale(h) == Factor([Shr(aux32, 27) EXCEPT ![0] = One], 0, 8)
  IN  StagedGrid(sub, g, neg, scale)
-----------------------------------------------------------------------------
(* The k-quants keep raw quants in the LDS and two scales and minima       *)
(* (KqScal), taken apart again by scm.                                     *)

StageQ2K(sub) ==
  LET q(i) == Word("qs", 32 * (sub \div 4) + 4 * i)
      w(i, k) == Quant(Lane(Keep(Shr(q(i), 2 * (sub % 4)), Each({0, 1})), k), 0)
      g(h) == Lane(Half("scales", sub), h)
      s(h) == Or(Keep(g(h), Nibble), Shl(Shr(g(h), 4), 16))
      scale(h) == Factor(Keep(s(h), 0..15), 0, 1)
      m(h) == Keep(Shr(s(h), 16), 0..15)
  IN  Staged(sub, w, scale, m)

StageQ3K(sub) ==
  LET q(i) == Word("qs", 32 * (sub \div 4) + 4 * i)
      hm(i) == Word("hmask", 4 * i)
      s4(i) == Shl(Keep(Not(Keep(Shr(hm(i), sub), Each({0}))), Each({0})), 2)
      q2(i) == Keep(Shr(q(i), 2 * (sub % 4)), Each({0, 1}))
      w(i, k) == LessFour(Lane(q2(i), k), Lane(s4(i), k))
      is == 2 * sub
      pair(at) == Or(Byte("scales", at), Shl(Byte("scales", at + 1), 8))
      sc2 == Or(pair(IF is < 8 THEN is ELSE is - 8), Shl(pair(8 + (is % 4)), 16))
      low(h) == Keep(Shr(Keep(sc2, 0..15), 8 * h + (IF is < 8 THEN 0 ELSE 4)), Nibble)
      high(h) == Shl(Keep(Shr(Shr(sc2, 16), 2 * (is \div 4) + 8 * h), 0..1), 4)
      scale(h) == Factor(Or(low(h), high(h)), 32, 1)
      none(h) == NoMin
  IN  Staged(sub, w, scale, none)

(* get_scale_min_k4 from the three words of scales: byte sub, sub + 4 and  *)
(* sub - 4 are at the same place of neighbouring words.                    *)
ScaleMinWords(sub) ==
  LET at(w) == Keep(Shr(Word("scales", 4 * w), 8 * (sub % 4)), LowByte)
      bj == at(IF sub < 4 THEN 0 ELSE 1)
      bj4 == at(IF sub < 4 THEN 1 ELSE 2)
  IN  IF sub < 4
      THEN Or(Keep(bj, 0..5), Shl(Keep(bj4, 0..5), 16))
      ELSE Or(Or(Keep(bj4, Nibble), Shl(Shr(at(0), 6), 4)),
              Shl(Or(Shr(bj4, 4), Shl(Shr(bj, 6), 4)), 16))

StagedK4(sub, v(_)) ==
  LET w(i, k) == Quant(Lane(v(i), k), 0)
      scale(h) == Factor(Keep(ScaleMinWords(sub), 0..15), 0, 1)
      m(h) == Keep(Shr(ScaleMinWords(sub), 16), 0..15)
  IN  Staged(sub, w, scale, m)

StageQ4K(sub) ==
  LET v(i) == Keep(Shr(Word("qs", 32 * (sub \div 2) + 4 * i), 4 * (sub % 2)), Each(Nibble))
  IN  StagedK4(sub, v)

StageQ5K(sub) ==
  LET low(i) == Keep(Shr(Word("qs", 32 * (sub \div 2) + 4 * i), 4 * (sub % 2)), Each(Nibble))
      high(i) == Shl(Keep(Shr(Word("qh", 4 * i), sub), Each({0})), 4)
      v(i) == Or(low(i), high(i))
  IN  StagedK4(sub, v)

StageQ6K(sub) ==
  LET n == sub \div 4
      q == sub % 2
      i2 == ((sub \div 2) % 2)
      ql(i) == Word("ql", 64 * n + 32 * q + 4 * i)
      qh(i) == Word("qh", 32 * n + 4 * i)
      v(i) == Or(Keep(Shr(ql(i), 4 * i2), Each(Nibble)),
                 Shl(Keep(Shr(qh(i), 2 * (sub % 4)), Each({0, 1})), 4))
      w(i, k) == Quant(Lane(v(i), k), 32)
      scale(h) == Factor(Byte("scales", 8 * n + 2 * q + 4 * i2 + h), 0, 1)
      none(h) == NoMin
  IN  Staged(sub, w, scale, none)
-----------------------------------------------------------------------------
(* The formats gemm_launch has a solver for, with the stagings of each.    *)
StageForms(t) ==
  CASE t \in {"iq3_s", "iq3_xxs", "iq4_xs"} -> {"packed", "raw"}
    [] t \in {"q8_0", "iq1_s", "iq4_nl"} -> {}
    [] OTHER -> {"packed"}

Register(t, form, p) == IF form = "raw" THEN FromRaw(t, RawRecord(t, p)) ELSE p

Stage(t, form, sub) ==
  CASE t = "iq3_s" -> StoreIq3s(Register(t, form, LoadIq3s(sub)), sub)
    [] t = "iq3_xxs" -> StoreIq3xxs(Register(t, form, LoadIq3xxs(sub)), sub)
    [] t = "iq4_xs" -> StoreIq4xs(Register(t, form, LoadIq4xs(sub)), sub)
    [] t = "iq2_s" -> StageIq2s(sub)
    [] t = "iq2_xs" -> StageIq2xs(sub)
    [] t = "iq2_xxs" -> StageIq2xxs(sub)
    [] t = "q2_K" -> StageQ2K(sub)
    [] t = "q3_K" -> StageQ3K(sub)
    [] t = "q4_K" -> StageQ4K(sub)
    [] t = "q5_K" -> StageQ5K(sub)
    [] t = "q6_K" -> StageQ6K(sub)
=============================================================================
