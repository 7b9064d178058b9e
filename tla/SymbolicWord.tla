---------------------------- MODULE SymbolicWord ----------------------------
(***************************************************************************)
(* 32-bit words whose bits are symbols: what the bit twiddling of the      *)
(* quantised readers (vecdotq.cuh, dequant.cuh, gemm.cuh) does to the bits *)
(* of a block, whatever those bits are.  A bit is the set of block bits it *)
(* is the exclusive or of, so parity and complement are exact; a word is a *)
(* function from the 32 positions to bits.  An OR or a multiplication that *)
(* would have to carry gives the bit Clash, which equals no block bit: the *)
(* code relies on its fields never overlapping.                            *)
(***************************************************************************)
EXTENDS Integers, FiniteSets

Position == 0..31

Zero == {}
One == {<<"one", 0, 0>>}
Clash == {<<"clash", 0, 0>>}

XorBit(a, b) == (a \ b) \cup (b \ a)
OrBit(a, b) == IF a = Zero THEN b ELSE IF b = Zero THEN a ELSE Clash

(* The exclusive or of the bits of w at the positions in S.                *)
ParityOf(w, S) ==
  {x \in UNION {w[i] : i \in S} : Cardinality({i \in S : x \in w[i]}) % 2 = 1}

Const(S) == [i \in Position |-> IF i \in S THEN One ELSE Zero]
Shr(w, k) == [i \in Position |-> IF i + k <= 31 THEN w[i + k] ELSE Zero]
Shl(w, k) == [i \in Position |-> IF i >= k THEN w[i - k] ELSE Zero]
Keep(w, S) == [i \in Position |-> IF i \in S THEN w[i] ELSE Zero]
Or(v, w) == [i \in Position |-> OrBit(v[i], w[i])]
Xor(v, w) == [i \in Position |-> XorBit(v[i], w[i])]
Not(w) == [i \in Position |-> XorBit(w[i], One)]

(* w times a constant whose set bits are the positions in S: the shifted   *)
(* copies must not meet.                                                   *)
Mul(w, S) ==
  [i \in Position |->
    LET from == {k \in S : k <= i /\ w[i - k] # Zero}
    IN  IF from = {} THEN Zero
        ELSE IF Cardinality(from) = 1 THEN w[i - (CHOOSE k \in from : TRUE)]
        ELSE Clash]

(* The positions b \in S of every byte, as in the mask 0x0F0F0F0F.          *)
Each(S) == {8 * k + b : k \in 0..3, b \in S}
Nibble == 0..3
LowByte == 0..7

(* The bits of byte k of w, as a word.                                     *)
Lane(w, k) == [i \in Position |-> IF i < 8 THEN w[8 * k + i] ELSE Zero]

(* The number a word stands for, up to the symbols: its nonzero bits.      *)
Num(w) == {<<i, w[i]>> : i \in {j \in Position : w[j] # Zero}}
=============================================================================
