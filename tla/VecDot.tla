------------------------------- MODULE VecDot -------------------------------
(***************************************************************************)
(* The fused readers of vecdotq.cuh: a call vec_dot_<format>_q8_1 takes a  *)
(* block and an index iqs, unpacks the quants that iqs stands for four to  *)
(* a word, and multiplies each word with a word of the quantised row of    *)
(* activations (dp4a).  A Read here is one product: y is the place of the  *)
(* activation, and the rest is what it was multiplied by.  The integer     *)
(* sums are exact, so the order of the products does not matter; the       *)
(* rounding of (ls*sumi + sumi/2)/4 and the like is left out.              *)
(***************************************************************************)
EXTENDS Dequant

(* QI and VDR of quants.h and vecdotq.cuh: the calls for one block.        *)
Qi(t) ==
  CASE t \in {"q2_K", "q3_K", "iq2_xxs", "iq2_xs", "iq2_s", "iq3_xxs", "iq3_s"} -> 16
    [] t \in {"q4_K", "q5_K", "q6_K", "iq4_xs"} -> 32
    [] t \in {"q8_0", "iq1_s"} -> 8
    [] t = "iq4_nl" -> 4
Vdr(t) ==
  CASE t \in {"q2_K", "q3_K", "q6_K", "iq1_s"} -> 1
    [] t = "iq4_xs" -> 4
    [] OTHER -> 2

(* ggml_cuda_dp4a with word i of activation block b: w(k) is lane k of the *)
(* unpacked word, m its minimum.                                           *)
Dp4a(b, i, w(_), scale, m) ==
  {Read(32 * b + 4 * i + k, w(k), scale, m) : k \in 0..3}
-----------------------------------------------------------------------------
(* q8_0 and the k-quants                                                   *)

DotQ80(iqs) ==
  UNION {LET w(k) == Quant(Lane(Word("qs", 4 * (iqs + i)), k), 0)
         IN  Dp4a(0, iqs + i, w, Unscaled, NoMin) : i \in 0..1}

(* Where the scale of the group starts (scale_offset of q2_K and q3_K).    *)
ScaleAt(iqs) == (iqs - (iqs % 8)) + (iqs % 8) \div 4

DotQ2K(iqs) ==
  LET v == Word("qs", 4 * iqs)
      sc(i) == Byte("scales", ScaleAt(iqs) + 2 * i)
      spread(m) == LET two == Or(m, Shl(m, 8)) IN Or(two, Shl(two, 16))
      w(i, k) == Quant(Lane(Keep(Shr(v, 2 * i), Each({0, 1})), k), 0)
  IN  {Read(32 * (4 * (iqs \div 8) + i) + 4 * (iqs % 8) + k, w(i, k),
            Factor(Keep(sc(i), Nibble), 0, 1), Lane(spread(Shr(sc(i), 4)), k)) :
        i \in 0..3, k \in 0..3}

(* a - b for a lane a of two bits and b of the value 0 or 4.               *)
LessFour(a, b) == Quant(Or(a, Keep(Not(b), {2})), 4)

DotQ3K(iqs) ==
  LET off == 4 * (iqs \div 8)
      vl == Word("qs", 4 * iqs)
      vh == Shr(Not(Word("hmask", 4 * (iqs % 8))), off)
      vil(i) == Keep(Shr(vl, 2 * i), Each({0, 1}))
      vih(i) == Keep(Shl(Shr(vh, i), 2), Each({2}))
      isc(i) == ScaleAt(iqs) + 2 * i
      low(i) == Keep(Shr(Byte("scales", isc(i) % 8), 4 * (isc(i) \div 8)), Nibble)
      high(i) == Shl(Keep(Shr(Byte("scales", 8 + (isc(i) % 4)), 2 * (isc(i) \div 4)), 0..1), 4)
  IN  UNION {LET w(k) == LessFour(Lane(vil(i), k), Lane(vih(i), k))
             IN  Dp4a(off + i, iqs % 8, w, Factor(Or(low(i), high(i)), 32, 1), NoMin) :
              i \in 0..3}

(* The scales and minima of two neighbouring sub-blocks, from the block's  *)
(* header read as three words of scales; bytes 0 and 1 of Aux are theirs.  *)
Aux(j, part) ==
  LET s(w) == Keep(Shr(Word("scales", 4 * w), 16 * (j % 2)), 0..15)
      low == s(part)
      top == Shr(s(2), 4 * part)
      six == {0, 1, 2, 3, 4, 5, 8, 9, 10, 11, 12, 13}
      four == {0, 1, 2, 3, 8, 9, 10, 11}
      two == {6, 7, 14, 15}
  IN  IF j < 2 THEN Keep(low, six)
      ELSE Or(Keep(top, four), Shr(Keep(low, two), 2))

(* The shared shape of q4_K and q5_K: v(h, i) is the unpacked word h of    *)
(* nibble i, against words at and at + 4 of activation block off + i.      *)
DotPairs(iqs, v(_, _)) ==
  LET off == 2 * ((iqs \div 2) \div 4)
      at == ((iqs \div 2) % 4)
  IN  UNION {LET w(k) == Quant(Lane(v(h, i), k), 0)
             IN  Dp4a(off + i, at + 4 * h, w,
                      Factor(Lane(Aux(off \div 2, 0), i), 0, 1),
                      Lane(Aux(off \div 2, 1), i)) : h \in 0..1, i \in 0..1}

DotQ4K(iqs) ==
  LET q4 == 32 * ((iqs \div 2) \div 4) + 4 * ((iqs \div 2) % 4)
      v(h, i) == Keep(Shr(Word("qs", q4 + 16 * h), 4 * i), Each(Nibble))
  IN  DotPairs(iqs, v)

DotQ5K(iqs) ==
  LET off == 2 * ((iqs \div 2) \div 4)
      at == 4 * ((iqs \div 2) % 4)
      vl(h, i) == Keep(Shr(Word("qs", 16 * off + at + 16 * h), 4 * i), Each(Nibble))
      vh(h, i) == Keep(Shl(Shr(Shr(Word("qh", at + 16 * h), off), i), 4), Each({4}))
      v(h, i) == Or(vl(h, i), vh(h, i))
  IN  DotPairs(iqs, v)

DotQ6K(iqs) ==
  LET half == iqs \div 16
      off == 4 * half + (iqs % 16) \div 8
      vl == Word("ql", 4 * iqs)
      vh == Shr(Word("qh", 4 * (8 * half + (iqs % 8))), 2 * ((iqs % 16) \div 8))
      v(i) == Or(Keep(Shr(vl, 4 * i), Each(Nibble)),
                 Keep(Shl(Shr(vh, 4 * i), 4), Each({4, 5})))
      scale(i) == Byte("scales", 8 * half + (iqs % 16) \div 4 + 4 * i)
  IN  UNION {LET w(k) == Quant(Lane(v(i), k), 32)
             IN  Dp4a(off + 2 * i, iqs % 8, w, Factor(scale(i), 0, 1), NoMin) :
              i \in 0..1}
-----------------------------------------------------------------------------
(* Signs.  A grid word (four lanes of an entry) is negated lane by lane,   *)
(* and the bodies differ in how the sign bits reach the lanes.             *)

GridWord(tbl, index, part) == [tbl |-> tbl, index |-> index, part |-> part]
Signed(g, k, neg) == Entry(g.tbl, g.index, 4 * g.part + k, neg)

(* unpack_ksigns: its argument has seven sign bits and, on top, a bit of   *)
(* the next field, which the parity must cancel.                           *)
Even8StrayBit(v) ==
  [i \in Position |-> IF i = 7 THEN XorBit(v[7], ParityOf(v, 0..6)) ELSE v[i]]
Even8(v) == [i \in Position |-> IF i = 7 THEN XorBit(v[7], ParityOf(v, LowByte)) ELSE v[i]]
UnpackKsigns(w) == Mul(Even8(Keep(w, LowByte)), {0, 8, 16, 24})

(* __vcmpne4(w, 0): lanes of ones where w has its (only) sign bit set.     *)
Vcmpne4(w) ==
  [i \in Position |->
    LET on == {b \in LowByte : w[8 * (i \div 8) + b] # Zero}
    IN  IF on = {} THEN Zero
        ELSE IF Cardinality(on) = 1 THEN w[8 * (i \div 8) + (CHOOSE b \in on : TRUE)]
        ELSE Clash]

(* signs & 0x08040201 and signs & 0x80402010 of the broadcast sign byte.   *)
BroadcastMask(signs, h) ==
  Vcmpne4(Keep(signs, IF h = 0 THEN {0, 9, 18, 27} ELSE {4, 13, 22, 31}))
(* The sign byte's own bits moved to the lanes.                            *)
MovedMask(sb, h) ==
  Vcmpne4(IF h = 0 THEN Or(Shl(Keep(sb, {0, 1}), 7), Shl(Keep(sb, {2, 3}), 21))
          ELSE Or(Shl(Keep(sb, {4, 5}), 3), Shl(Keep(sb, {6, 7}), 17)))

(* A lane of a mask is all ones or all zeros: its bit.                     *)
MaskBit(m, k) ==
  IF \A b \in LowByte : m[8 * k + b] = m[8 * k] THEN m[8 * k] ELSE Clash

(* 0x03020100, and the selector that sends the lanes with a sign to the    *)
(* zero word: from a mask, and from a nibble times 0x00810204.             *)
Identity == Const({8, 17, 24, 25})
Selector(m) == Or(Keep(m, Each({2})), Identity)
NibbleSelector(sb, h) ==
  Or(Keep(Mul(Keep(Shr(sb, 4 * h), Nibble), {2, 9, 16, 23}), Each({2})), Identity)

(* __builtin_amdgcn_perm(0, g, sel) keeps lane k of g or gives zero there; *)
(* twice that less the whole word is the word with those lanes negated.    *)
PermBit(sel, k) ==
  IF \A b \in LowByte \ {2} : sel[8 * k + b] = Identity[8 * k + b]
  THEN sel[8 * k + 2] ELSE Clash

(* (g ^ (t * 0xFF)) + t for t = (nibble * 0x00204081) & 0x01010101.        *)
AddBit(t, k) ==
  IF Num(Lane(t, k)) \subseteq {<<0, t[8 * k]>>} /\ MaskBit(Mul(t, LowByte), k) = t[8 * k]
  THEN t[8 * k] ELSE Clash
LaneBits(nib) == Keep(Mul(Keep(nib, Nibble), {0, 7, 14, 21}), Each({0}))

(* The ways to the sign of lane k of half h of a group of eight: from the  *)
(* seven bits and parity of a field v, or from a whole sign byte sb.       *)
FieldByMask(v, h, k) == MaskBit(BroadcastMask(UnpackKsigns(v), h), k)
FieldByPerm(v, h, k) == PermBit(Selector(BroadcastMask(UnpackKsigns(v), h)), k)
FieldByNibble(v, h, k) == PermBit(NibbleSelector(Even8(Keep(v, LowByte)), h), k)

ByteByMask(sb, h, k) == MaskBit(MovedMask(sb, h), k)
ByteByPerm(sb, h, k) == PermBit(Selector(MovedMask(sb, h)), k)
ByteByNibble(sb, h, k) == PermBit(NibbleSelector(sb, h), k)
ByteByAdd(sb, h, k) == AddBit(LaneBits(Shr(sb, 4 * h)), k)

(* The group il of a sub-block: grid words g(0) and g(1) against words     *)
(* 2il and 2il + 1 of activation block b.                                  *)
DotGroup(b, il, g(_), neg(_, _), scale) ==
  UNION {LET w(k) == Signed(g(h), k, neg(h, k))
         IN  Dp4a(b, 2 * il + h, w, scale, NoMin) : h \in 0..1}
-----------------------------------------------------------------------------
(* The grid formats: what the bodies of a format have in common.          *)

DotIq2xxs(sign(_, _, _), iqs) ==
  LET q2 == Word("qs", 4 * iqs)
      aux32 == Word("qs", 4 * (iqs + 1))
      scale == Factor([Shr(aux32, 27) EXCEPT ![0] = One], 0, 8)
  IN  UNION {LET g(h) == GridWord("iq2xxs_grid", Lane(q2, il), h)
                 neg(h, k) == sign(Shr(aux32, 7 * il), h, k)
             IN  DotGroup(iqs \div 2, il, g, neg, scale) : il \in 0..3}

DotIq2xs(sign(_, _, _), iqs) ==
  LET q2(il) == Keep(Shr(Word("qs", 4 * (iqs + il \div 2)), 16 * (il % 2)), 0..15)
      ls(il) == Keep(Shr(Byte("scales", iqs \div 2), 4 * (il \div 2)), Nibble)
  IN  UNION {LET g(h) == GridWord("iq2xs_grid", Keep(q2(il), 0..8), h)
                 neg(h, k) == sign(Shr(q2(il), 9), h, k)
             IN  DotGroup(iqs \div 2, il, g, neg, Factor(Odd(ls(il)), 0, 8)) :
              il \in 0..3}

DotIq2s(sign(_, _, _), iqs) ==
  LET qs == Word("qs", 4 * (iqs \div 2))
      qh == Byte("qh", iqs \div 2)
      signs == Word("qs", 4 * (8 + iqs \div 2))
      ls(il) == Keep(Shr(Byte("scales", iqs \div 2), 4 * (il \div 2)), Nibble)
      index(il) == Or(Lane(qs, il), Keep(Shl(qh, 8 - 2 * il), {8, 9}))
  IN  UNION {LET g(h) == GridWord("iq2s_grid", index(il), h)
                 neg(h, k) == sign(Lane(signs, il), h, k)
             IN  DotGroup(iqs \div 2, il, g, neg, Factor(Odd(ls(il)), 0, 8)) :
              il \in 0..3}

DotIq3xxs(sign(_, _, _), iqs) ==
  LET q3(i) == Lane(Word("qs", 4 * (iqs + i \div 4)), i % 4)
      aux32 == Word("qs", 4 * (16 + iqs \div 2))
      scale == Factor(Odd(Shr(aux32, 28)), 0, 4)
  IN  UNION {LET g(h) == GridWord("iq3xxs_grid", q3(2 * il + h), 0)
                 neg(h, k) == sign(Shr(aux32, 7 * il), h, k)
             IN  DotGroup(iqs \div 2, il, g, neg, scale) : il \in 0..3}

DotIq3s(sign(_, _, _), iqs) ==
  LET qs(i) == Lane(Word("qs", 4 * (iqs + i \div 4)), i % 4)
      qh == Byte("qh", iqs \div 2)
      signs == Word("signs", 4 * (iqs \div 2))
      ls == Keep(Shr(Byte("scales", iqs \div 4), IF ((2 * iqs) % 8) >= 4 THEN 4 ELSE 0), Nibble)
      index(il, h) == Or(qs(2 * il + h), Keep(Shl(qh, 8 - h - 2 * il), {8}))
  IN  UNION {LET g(h) == GridWord("iq3s_grid", index(il, h), 0)
                 neg(h, k) == sign(Lane(signs, il), h, k)
             IN  DotGroup(iqs \div 2, il, g, neg, Factor(Odd(ls), 0, 1)) : il \in 0..3}

(* grid0 has the low nibbles of the entry's bytes and grid1 the high ones. *)
DotIq1s(iqs) ==
  LET qs == Word("qs", 4 * iqs)
      qh == Half("qh", iqs)
      index(il) == Or(Lane(qs, il), Shl(Keep(Shr(qh, 3 * il), 0..2), 8))
      scale == Factor([Keep(Shr(qh, 11), 1..3) EXCEPT ![0] = One], 0, 1)
  IN  UNION {LET w(k) == Entry("iq1s_grid_gpu", index(il), 4 * h + k, Zero)
             IN  Dp4a(iqs, 2 * il + h, w, scale, Keep(qh, {15})) :
              il \in 0..3, h \in 0..1}

(* get_int_from_table_16: lane k of half h is looked up with the low three *)
(* bits of nibble h of byte k, in the half of the table its fourth selects.*)
FromTable16(q4, h, k) ==
  LET q == Shr(q4, 4 * h)
      low == Lane(Keep(q, Each(0..2)), k)
      mask == Or(Identity, Shr(Keep(q, Each({3})), 1))
  IN  Entry("kvalues_iq4nl", [low EXCEPT ![3] = PermBit(mask, k)], 0, Zero)

DotTable(b, i, q4, scale) ==
  UNION {LET w(k) == FromTable16(q4, h, k)
         IN  Dp4a(b, i + 4 * h, w, scale, NoMin) : h \in 0..1}

(* Called block by block: kbx is the block, and the activations follow.    *)
DotIq4nl(kbx, iqs) ==
  UNION {DotTable(kbx, iqs + l, Word("qs", 16 * kbx + 4 * (iqs + l)), Unscaled) :
          l \in 0..1}

DotIq4xs(iqs) ==
  LET low == Keep(Shr(Byte("scales_l", iqs \div 8), iqs % 8), Nibble)
      high == Shl(Keep(Shr(Half("scales_h", 0), iqs \div 2), 0..1), 4)
  IN  UNION {DotTable(iqs \div 4, j, Word("qs", 4 * (iqs + j)),
                      Factor(Or(low, high), 32, 1)) : j \in 0..3}
-----------------------------------------------------------------------------
-----------------------------------------------------------------------------
(* The bodies of the formats with signs: the vendored ones, and those the  *)
(* tables of matvec.cuh ship or measure.                                   *)

Iq2xxsVendored(iqs) == DotIq2xxs(FieldByMask, iqs)
Iq2xxsPerm(iqs) == DotIq2xxs(FieldByPerm, iqs)
Iq2xxsPerm2(iqs) == DotIq2xxs(FieldByNibble, iqs)

Iq2xsVendored(iqs) == DotIq2xs(FieldByMask, iqs)
Iq2xsPerm(iqs) == DotIq2xs(FieldByPerm, iqs)
Iq2xsPerm2(iqs) == DotIq2xs(FieldByNibble, iqs)

Iq2sVendored(iqs) == DotIq2s(ByteByMask, iqs)
Iq2sPerm(iqs) == DotIq2s(ByteByPerm, iqs)
Iq2sPerm2(iqs) == DotIq2s(ByteByNibble, iqs)

Iq3xxsVendored(iqs) == DotIq3xxs(FieldByMask, iqs)
Iq3xxsPerm(iqs) == DotIq3xxs(FieldByPerm, iqs)
Iq3xxsPerm2(iqs) == DotIq3xxs(FieldByNibble, iqs)

Iq3sVendored(iqs) == DotIq3s(ByteByMask, iqs)
Iq3sLin(iqs) == DotIq3s(ByteByMask, iqs)
Iq3sPerm(iqs) == DotIq3s(ByteByNibble, iqs)
Iq3sXoradd(iqs) == DotIq3s(ByteByAdd, iqs)

(* The two-step bodies of the batched product: the eight signed grid words *)
(* of a call are kept in registers, and every token's activations are      *)
(* multiplied by them (the scale is read from the block again).            *)
PrepIq3s(iqs) ==
  LET qs(i) == Lane(Word("qs", 4 * (iqs + i \div 4)), i % 4)
      qh == Byte("qh", iqs \div 2)
      sb(i) == Lane(Word("signs", 4 * (iqs \div 2)), i \div 2)
      g(i) == GridWord("iq3s_grid", Or(qs(i), Keep(Shl(qh, 8 - i), {8})), 0)
  IN  [i \in 0..7 |-> [k \in 0..3 |-> Signed(g(i), k, ByteByNibble(sb(i), i % 2, k))]]

PrepIq3xxs(iqs) ==
  LET q3(i) == Lane(Word("qs", 4 * (iqs + i \div 4)), i % 4)
      sv(i) == Shr(Word("qs", 4 * (16 + iqs \div 2)), 7 * (i \div 2))
  IN  [i \in 0..7 |-> [k \in 0..3 |->
        Signed(GridWord("iq3xxs_grid", q3(i), 0), k, FieldByNibble(sv(i), i % 2, k))]]

DotPrep(v, iqs, scale) ==
  UNION {LET w(k) == v[i][k] IN Dp4a(iqs \div 2, i, w, scale, NoMin) : i \in 0..7}
DotPrepIq3s(v, iqs) ==
  DotPrep(v, iqs, Factor(Odd(Keep(Shr(Byte("scales", iqs \div 4),
                                      IF ((2 * iqs) % 8) >= 4 THEN 4 ELSE 0), Nibble)), 0, 1))
DotPrepIq3xxs(v, iqs) ==
  DotPrep(v, iqs, Factor(Odd(Shr(Word("qs", 4 * (16 + iqs \div 2)), 28)), 0, 4))
-----------------------------------------------------------------------------
DotForms(t) ==
  CASE t \in {"iq2_xxs", "iq2_xs", "iq2_s"} -> {"vsub", "perm", "perm2"}
    [] t = "iq3_xxs" -> {"vsub", "perm", "perm2", "prep"}
    [] t = "iq3_s" -> {"vsub", "lin", "perm", "xoradd", "prep"}
    [] OTHER -> {"vsub"}

VecDotSigned(t, form, iqs) ==
  CASE <<t, form>> = <<"iq2_xxs", "vsub">> -> Iq2xxsVendored(iqs)
    [] <<t, form>> = <<"iq2_xxs", "perm">> -> Iq2xxsPerm(iqs)
    [] <<t, form>> = <<"iq2_xxs", "perm2">> -> Iq2xxsPerm2(iqs)
    [] <<t, form>> = <<"iq2_xs", "vsub">> -> Iq2xsVendored(iqs)
    [] <<t, form>> = <<"iq2_xs", "perm">> -> Iq2xsPerm(iqs)
    [] <<t, form>> = <<"iq2_xs", "perm2">> -> Iq2xsPerm2(iqs)
    [] <<t, form>> = <<"iq2_s", "vsub">> -> Iq2sVendored(iqs)
    [] <<t, form>> = <<"iq2_s", "perm">> -> Iq2sPerm(iqs)
    [] <<t, form>> = <<"iq2_s", "perm2">> -> Iq2sPerm2(iqs)
    [] <<t, form>> = <<"iq3_xxs", "vsub">> -> Iq3xxsVendored(iqs)
    [] <<t, form>> = <<"iq3_xxs", "perm">> -> Iq3xxsPerm(iqs)
    [] <<t, form>> = <<"iq3_xxs", "perm2">> -> Iq3xxsPerm2(iqs)
    [] <<t, form>> = <<"iq3_xxs", "prep">> -> DotPrepIq3xxs(PrepIq3xxs(iqs), iqs)
    [] <<t, form>> = <<"iq3_s", "vsub">> -> Iq3sVendored(iqs)
    [] <<t, form>> = <<"iq3_s", "lin">> -> Iq3sLin(iqs)
    [] <<t, form>> = <<"iq3_s", "perm">> -> Iq3sPerm(iqs)
    [] <<t, form>> = <<"iq3_s", "xoradd">> -> Iq3sXoradd(iqs)
    [] <<t, form>> = <<"iq3_s", "prep">> -> DotPrepIq3s(PrepIq3s(iqs), iqs)

VecDot(t, form, kbx, iqs) ==
  CASE t = "q8_0" -> DotQ80(iqs)
    [] t = "q2_K" -> DotQ2K(iqs)
    [] t = "q3_K" -> DotQ3K(iqs)
    [] t = "q4_K" -> DotQ4K(iqs)
    [] t = "q5_K" -> DotQ5K(iqs)
    [] t = "q6_K" -> DotQ6K(iqs)
    [] t = "iq1_s" -> DotIq1s(iqs)
    [] t = "iq4_nl" -> DotIq4nl(kbx, iqs)
    [] t = "iq4_xs" -> DotIq4xs(iqs)
    [] OTHER -> VecDotSigned(t, form, iqs)
=============================================================================
