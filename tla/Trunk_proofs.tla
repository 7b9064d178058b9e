----------------------------- MODULE Trunk_proofs -----------------------------
(***************************************************************************)
(* Proofs about Trunk, for every number and kind of layers, context and    *)
(* chunk sizes, splits of the attention and inputs: TrunkInv is inductive, *)
(* so whatever calls, rollbacks and failures came before, the caches hold  *)
(* the text the caller knows and every row returned is the one of its      *)
(* token.                                                                  *)
(***************************************************************************)
EXTENDS TrunkProps, SequenceFacts, SequenceTheorems, TLAPS

-----------------------------------------------------------------------------
(* Texts                                                                   *)

\* A token sequence that fits the context is a text, and not Stale.
LEMMA ShortIsText ==
  ASSUME NEW s \in Seq(Id), Len(s) <= MaxCtx
  PROVE  s \in Text /\ s \in Value /\ s # Stale
<1>1. s \in [1 .. Len(s) -> Id] /\ Len(s) \in 0 .. MaxCtx
  BY TrunkAssumption
<1>2. s \in Text
  BY <1>1 DEF Text
<1> QED
  BY <1>2, TrunkAssumption DEF Value

\* A text is a token sequence that fits the context.
LEMMA TextIsShort ==
  ASSUME NEW s \in Text
  PROVE  s \in Seq(Id) /\ Len(s) \in 0 .. MaxCtx /\ s \in Value /\ s # Stale
<1>1. PICK n \in 0 .. MaxCtx : s \in [1 .. n -> Id]
  BY DEF Text
<1> QED
  BY <1>1, TrunkAssumption DEF Value

\* So are its prefixes.
LEMMA PrefixIsText ==
  ASSUME NEW s \in Text, NEW n \in 0 .. Len(s)
  PROVE  /\ SubSeq(s, 1, n) \in Text /\ SubSeq(s, 1, n) \in Value
         /\ SubSeq(s, 1, n) # Stale /\ Len(SubSeq(s, 1, n)) = n
         /\ \A m \in 0 .. n : SubSeq(SubSeq(s, 1, n), 1, m) = SubSeq(s, 1, m)
<1>1. s \in Seq(Id) /\ Len(s) \in 0 .. MaxCtx
  BY TextIsShort
<1>2. /\ SubSeq(s, 1, n) \in Seq(Id) /\ Len(SubSeq(s, 1, n)) = n
      /\ \A m \in 0 .. n : SubSeq(SubSeq(s, 1, n), 1, m) = SubSeq(s, 1, m)
  BY <1>1, Prefix
<1>3. Len(SubSeq(s, 1, n)) <= MaxCtx
  BY <1>1, <1>2, TrunkAssumption
<1> QED
  BY <1>2, <1>3, ShortIsText

\* The whole of a text is a prefix of it, and nothing is another.
LEMMA WholeText ==
  ASSUME NEW s \in Text
  PROVE  SubSeq(s, 1, Len(s)) = s /\ SubSeq(s, 1, 0) = <<>> /\ <<>> \in Text
<1>1. s \in Seq(Id) /\ Len(s) \in 0 .. MaxCtx
  BY TextIsShort
<1>2. <<>> \in Text
  <2>1. SubSeq(s, 1, 0) \in Text
    BY <1>1, PrefixIsText
  <2>2. SubSeq(s, 1, 0) = <<>>
    BY <1>1
  <2> QED
    BY <2>1, <2>2
<1> QED
  BY <1>1, <1>2

-----------------------------------------------------------------------------
(* The plan                                                                *)

\* A chunk of the plan has at least one token, and no more than are left.
LEMMA TakeFits ==
  ASSUME NEW r \in Nat \ {0}
  PROVE  Take(Cost, r) \in 1 .. r
<1> DEFINE takes == {p \in Candidates : p <= r /\ Via(Cost, r, p) = Cost[r]}
<1>1. ASSUME NEW p \in Candidates
      PROVE  p \in Nat /\ p >= 1
  <2>1. ASSUME NEW d \in {1, 2, 4, 8, 16, 32, 64, 128, 256, 512}
        PROVE  BatchMax \div d \in Nat
    BY PlanAssumption
  <2>2. p \in Halvings => p \in Nat /\ p # 0
    BY <2>1 DEF Halvings
  <2>3. p \in BatchNs => p \in Nat /\ p # 0
    BY PlanAssumption
  <2>4. p = 1 \/ p \in Halvings \/ p \in BatchNs
    BY DEF Candidates, ChunkSizes
  <2> QED
    BY <2>2, <2>3, <2>4
<1>2. \A p \in takes : p \in 1 .. r
  BY <1>1
<1>3. CASE takes = {}
  BY <1>3 DEF Take
<1>4. CASE takes # {}
  <2>1. {r - p : p \in takes} \in SUBSET Nat /\ {r - p : p \in takes} # {}
    BY <1>2, <1>4
  <2>2. PICK m \in {r - p : p \in takes} : \A n \in {r - p : p \in takes} : m <= n
    BY <2>1, Least
  <2>3. PICK p \in takes : m = r - p
    BY <2>2
  <2>4. \A q \in takes : r - p <= r - q
    BY <2>2, <2>3
  <2>5. \A q \in takes : q <= p
    BY <1>2, <2>4
  <2>6. (CHOOSE c \in takes : \A q \in takes : q <= c) \in takes
    BY <2>5
  <2> QED
    BY <1>2, <1>4, <2>6 DEF Take
<1> QED
  BY <1>3, <1>4

-----------------------------------------------------------------------------
(* How the attention is split                                              *)

\* A chunk that is not split as a whole is not split at any of its tokens.
LEMMA SplitsMonotone ==
  ASSUME NEW a \in Nat, NEW b \in Nat, a <= b, ~(Splits(b) > 1)
  PROVE  Splits(a) = 1 /\ Splits(b) = 1
<1>1. /\ SplitMin \in Nat /\ SplitMin >= 1 /\ MaxSplits \in Nat /\ MaxSplits >= 1
      /\ Forced \in Nat /\ Dense \in Nat
  BY TrunkAssumption
<1>2. CASE Forced > 0
  BY <1>1, <1>2 DEF Splits
<1>3. CASE Forced = 0 /\ b < SplitMin
  BY <1>1, <1>3 DEF Splits
<1>4. CASE Forced = 0 /\ b >= SplitMin /\ Dense > 0
  BY <1>1, <1>4 DEF Splits
<1>5. CASE Forced = 0 /\ b >= SplitMin /\ Dense = 0
  <2>1. b \div SplitMin \in Nat /\ b \div SplitMin >= 1
    BY <1>1, <1>5
  <2>2. a >= SplitMin => /\ a \div SplitMin \in Nat /\ a \div SplitMin >= 1
                         /\ a \div SplitMin <= b \div SplitMin
    BY <1>1, <1>5
  <2> QED
    BY <1>1, <1>5, <2>1, <2>2 DEF Splits
<1> QED
  BY <1>1, <1>2, <1>3, <1>4, <1>5

-----------------------------------------------------------------------------
(* The rows of a forward                                                   *)

\* The rows are those of the text from the position on.
RowsOf(t, p, rows) ==
  /\ t \in Text /\ p \in Nat
  /\ rows \in Seq(Value) /\ Len(rows) >= 1 /\ p + Len(rows) <= Len(t)
  /\ \A i \in 1 .. Len(rows) : rows[i] = SubSeq(t, 1, p + i)

\* A state that holds the text before the rows absorbs them.
LEMMA AbsorbRows ==
  ASSUME NEW t, NEW p, NEW rows, RowsOf(t, p, rows),
         NEW m \in 1 .. Len(rows)
  PROVE  Absorb(SubSeq(t, 1, p), rows, m) = rows[m]
<1>1. t \in Text /\ p \in Nat /\ Len(rows) \in Nat /\ Len(t) \in Nat
  BY TextIsShort DEF RowsOf
<1>2. p \in 0 .. Len(t) /\ p + 1 \in 0 .. Len(t)
  BY <1>1 DEF RowsOf
<1>3. \A i \in 1 .. m : rows[i] # Stale
  <2>1. ASSUME NEW i \in 1 .. m
        PROVE  rows[i] # Stale
    <3>1. i \in 1 .. Len(rows) /\ p + i \in 0 .. Len(t)
      BY <1>1 DEF RowsOf
    <3>2. rows[i] = SubSeq(t, 1, p + i)
      BY <3>1 DEF RowsOf
    <3> QED
      BY <1>1, <3>1, <3>2, PrefixIsText
  <2> QED
    BY <2>1
<1>4. rows[1] = SubSeq(t, 1, p + 1)
  BY <1>1 DEF RowsOf
<1>5. Len(rows[1]) - 1 = p
  <2>1. Len(rows[1]) = p + 1
    BY <1>1, <1>2, <1>4, PrefixIsText
  <2> QED
    BY <1>1, <2>1
<1>6. SubSeq(rows[1], 1, p) = SubSeq(t, 1, p)
  BY <1>1, <1>2, <1>4, PrefixIsText
<1>7. SubSeq(t, 1, p) # Stale
  BY <1>1, <1>2, PrefixIsText
<1>8. m # 0
  OBVIOUS
<1> QED
  BY <1>3, <1>5, <1>6, <1>7, <1>8 DEF Absorb

\* In the middle of a forward the rows are those of its text.
LEMMA ForwardRows ==
  ASSUME TypeOK, ForwardInv, pc = "layers"
  PROVE  /\ RowsOf(text, pos, x)
         /\ Len(x) \in Nat /\ Len(text) \in 0 .. MaxCtx /\ DOMAIN x = 1 .. Len(x)
<1>1. /\ text \in Text /\ pos \in Nat /\ x \in Seq(Value)
      /\ Len(text) \in 0 .. MaxCtx
  BY TextIsShort DEF TypeOK
<1>2. \A i \in 1 .. Len(x) : x[i] = SubSeq(text, 1, pos + i)
  BY DEF ForwardInv
<1>3. Len(x) \in Nat /\ DOMAIN x = 1 .. Len(x)
  BY <1>1
<1>4. Len(x) >= 1 /\ pos + Len(x) <= Len(text)
  BY DEF ForwardInv
<1> QED
  BY <1>1, <1>2, <1>3, <1>4 DEF RowsOf

-----------------------------------------------------------------------------
(* A layer                                                                 *)

\* A recurrent layer gives back the rows it was given, and absorbs them.
LEMMA RecurrentIsExact ==
  ASSUME TypeOK, ForwardInv, pc = "layers", il \in Recurrent
  PROVE  /\ Convolved = x /\ Mixed = x
         /\ Absorb(conv[il], x, Len(x)) = SubSeq(text, 1, pos + Len(x))
         /\ Absorb(rec[il], Convolved, Len(x)) = SubSeq(text, 1, pos + Len(x))
<1>1. /\ RowsOf(text, pos, x)
      /\ Len(x) \in Nat /\ Len(text) \in 0 .. MaxCtx /\ DOMAIN x = 1 .. Len(x)
  BY ForwardRows
<1>2. x \in Seq(Value) /\ Len(x) >= 1
  BY <1>1 DEF RowsOf
<1>3. conv[il] = SubSeq(text, 1, pos) /\ rec[il] = SubSeq(text, 1, pos)
  <2>1. il \in Layer /\ ~(il < il)
    BY TrunkAssumption DEF TypeOK, Layer
  <2> QED
    BY <2>1 DEF ForwardInv, LayerHolds
<1>4. \A i \in 1 .. Len(x) : Absorb(SubSeq(text, 1, pos), x, i) = x[i]
  BY <1>1, AbsorbRows
<1>5. Convolved = x
  BY <1>1, <1>2, <1>3, <1>4 DEF Convolved
<1>6. Mixed = x
  BY <1>1, <1>2, <1>3, <1>4, <1>5 DEF Mixed
<1>7. Len(x) \in 1 .. Len(x) /\ x[Len(x)] = SubSeq(text, 1, pos + Len(x))
  BY <1>1, <1>2 DEF RowsOf
<1> QED
  BY <1>3, <1>4, <1>5, <1>6, <1>7

\* The text, the rows and the snapshot are untouched by the layers.
LEMMA LayersKeepInv ==
  ASSUME TrunkInv, pc = "layers", pc' = "layers", x' \in Seq(Value),
         UNCHANGED <<op, saved, rest, answer, asked, hist, mark>>,
         text' = text, ForwardInv', cpos' \in {-1, dpos'}
  PROVE  IdleInv' /\ SnapshotInv' /\ FreshAnswer'
         /\ (pc = "idle" => rest = <<>>)'
         /\ (pc = "prefill" => asked = hist \o rest)'
         /\ (pc = "layers" => asked = text \o rest)'
         /\ (pc = "prefill" => rest # <<>>)'
         /\ (hist = Stale => pc = "idle")'
<1>1. IdleInv' /\ FreshAnswer'
  BY DEF IdleInv, FreshAnswer
<1>2. SnapshotInv'
  BY DEF TrunkInv, SnapshotInv
<1>3. asked = text \o rest /\ hist # Stale
  BY DEF TrunkInv
<1> QED
  BY <1>1, <1>2, <1>3

LEMMA RecurrentKeepsInv == TrunkInv /\ RecurrentLayer => TrunkInv'
<1> SUFFICES ASSUME TrunkInv, RecurrentLayer
             PROVE  TrunkInv'
  OBVIOUS
<1>1. /\ TypeOK /\ ForwardInv /\ pc = "layers" /\ il \in Recurrent
      /\ cpos \in {-1, dpos}
  BY DEF TrunkInv, RecurrentLayer
<1>2. /\ RowsOf(text, pos, x)
      /\ Len(x) \in Nat /\ Len(text) \in 0 .. MaxCtx /\ DOMAIN x = 1 .. Len(x)
  BY <1>1, ForwardRows
<1> DEFINE all == SubSeq(text, 1, pos + Len(x))
<1>3. /\ x' = x /\ il' = il + 1
      /\ conv' = [conv EXCEPT ![il] = all] /\ rec' = [rec EXCEPT ![il] = all]
  <2>1. /\ Convolved = x /\ Mixed = x
        /\ Absorb(conv[il], x, Len(x)) = all
        /\ Absorb(rec[il], Convolved, Len(x)) = all
    BY <1>1, RecurrentIsExact
  <2> QED
    BY <2>1 DEF RecurrentLayer
<1>4. all \in Value
  <2>1. text \in Text /\ pos + Len(x) \in 0 .. Len(text)
    BY <1>2 DEF RowsOf
  <2> QED
    BY <2>1, PrefixIsText
<1>5. il \in 1 .. Layers /\ il' \in 1 .. Layers + 1 /\ Layers \in Nat
  BY <1>1, <1>3, TrunkAssumption DEF Layer
<1>6. TypeOK'
  <2>1. rec' \in [Recurrent -> Value] /\ conv' \in [Recurrent -> Value]
    BY <1>1, <1>3, <1>4 DEF TypeOK
  <2> QED
    BY <1>1, <1>3, <1>5, <2>1 DEF TypeOK, RecurrentLayer
<1>7. ForwardInv'
  <2>1. ASSUME NEW l \in Layer
        PROVE  LayerHolds(l, text, IF l < il THEN pos + Len(x) ELSE pos)
    BY <1>1 DEF ForwardInv
  <2>2. ASSUME NEW l \in Layer
        PROVE  LayerHolds(l, text, IF l < il THEN pos + Len(x) ELSE pos)'
    <3>1. CASE l = il
      <4>1. l < il' /\ l \in Recurrent /\ l \notin Attention
        BY <1>1, <1>3, <1>5, <3>1 DEF Attention
      <4>2. rec'[l] = all /\ conv'[l] = all
        BY <1>1, <1>3, <3>1, <4>1 DEF TypeOK
      <4> QED
        BY <1>1, <1>3, <4>1, <4>2 DEF LayerHolds, RecurrentLayer
    <3>2. CASE l # il
      <4>1. l < il' <=> l < il
        BY <1>3, <1>5, <3>2 DEF Layer
      <4>2. l \in Recurrent => rec'[l] = rec[l] /\ conv'[l] = conv[l]
        BY <1>1, <1>3, <3>2 DEF TypeOK
      <4> QED
        BY <1>3, <2>1, <4>1, <4>2 DEF LayerHolds, RecurrentLayer
    <3> QED
      BY <3>1, <3>2
  <2> QED
    BY <1>1, <1>3, <2>2 DEF ForwardInv, RecurrentLayer
<1>8. cpos' \in {-1, dpos'}
  BY <1>1 DEF RecurrentLayer
<1>9. /\ pc' = "layers" /\ text' = text /\ x' \in Seq(Value)
      /\ UNCHANGED <<op, saved, rest, answer, asked, hist, mark>>
  BY <1>1, <1>6 DEF RecurrentLayer, TypeOK
<1> QED
  BY <1>1, <1>6, <1>7, <1>8, <1>9, LayersKeepInv DEF TrunkInv

\* An attention layer writes the keys of its rows, turned by their positions,
\* and every row finds the keys of its whole text.
LEMMA AttentionIsExact ==
  ASSUME TypeOK, ForwardInv, pc = "layers", il \in Attention,
         cpos \in {-1, dpos}, Upload, kv' = Written(Keys)
  PROVE  /\ Keys = x /\ \A i \in 1 .. Len(x) : Attended(i) = x[i]
         /\ kv' \in [Attention -> [Position -> Value]]
         /\ \A l \in Attention : l # il => kv'[l] = kv[l]
         /\ \A p \in 0 .. pos + Len(x) - 1 : kv'[il][p] = SubSeq(text, 1, p + 1)
<1>1. /\ RowsOf(text, pos, x)
      /\ Len(x) \in Nat /\ Len(text) \in 0 .. MaxCtx /\ DOMAIN x = 1 .. Len(x)
  BY ForwardRows
<1>2. /\ x \in Seq(Value) /\ Len(x) >= 1 /\ text \in Text /\ pos \in Nat
      /\ pos + Len(x) <= Len(text) /\ MaxCtx \in Nat
      /\ \A i \in 1 .. Len(x) : x[i] = SubSeq(text, 1, pos + i)
  BY <1>1, TrunkAssumption DEF RowsOf
<1>3. op = "tokens" => dpos' = pos
  BY <1>2 DEF Upload
<1>4. Keys = x
  BY <1>1, <1>2, <1>3 DEF Keys
<1>5. kv \in [Attention -> [Position -> Value]]
  BY DEF TypeOK
<1>6. kv' = [kv EXCEPT ![il] = [p \in Position |->
               IF p \in pos .. pos + Len(x) - 1 THEN x[p - pos + 1]
               ELSE kv[il][p]]]
  BY <1>4 DEF Written
<1>7. \A p \in Position :
        kv'[il][p] = IF p \in pos .. pos + Len(x) - 1 THEN x[p - pos + 1]
                     ELSE kv[il][p]
  BY <1>5, <1>6
<1>8. ASSUME NEW p \in Position
      PROVE  (IF p \in pos .. pos + Len(x) - 1 THEN x[p - pos + 1] ELSE kv[il][p])
               \in Value
  <2>1. CASE p \in pos .. pos + Len(x) - 1
    <3>1. p - pos + 1 \in 1 .. Len(x)
      BY <1>1, <1>2, <2>1
    <3>2. x[p - pos + 1] \in Value
      BY <1>2, <3>1
    <3> QED
      BY <2>1, <3>2
  <2>2. CASE p \notin pos .. pos + Len(x) - 1
    BY <1>5, <2>2
  <2> QED
    BY <2>1, <2>2
<1>9. kv' \in [Attention -> [Position -> Value]]
  BY <1>5, <1>6, <1>8
<1>10. ASSUME NEW p \in 0 .. pos + Len(x) - 1
       PROVE  kv'[il][p] = SubSeq(text, 1, p + 1)
  <2>1. p \in Position
    BY <1>1, <1>2 DEF Position
  <2>2. CASE p < pos
    <3>1. il \in Layer /\ ~(il < il)
      BY TrunkAssumption DEF Attention, Layer
    <3>2. LayerHolds(il, text, pos)
      BY <3>1 DEF ForwardInv
    <3>3. p \in 0 .. pos - 1
      BY <1>2, <2>2
    <3>4. kv[il][p] = SubSeq(text, 1, p + 1)
      BY <3>2, <3>3 DEF LayerHolds
    <3> QED
      BY <1>2, <1>7, <2>1, <2>2, <3>4
  <2>3. CASE p >= pos
    <3>1. p \in pos .. pos + Len(x) - 1 /\ p - pos + 1 \in 1 .. Len(x)
      BY <1>1, <1>2, <2>3
    <3>2. x[p - pos + 1] = SubSeq(text, 1, pos + (p - pos + 1))
      BY <1>2, <3>1
    <3>3. pos + (p - pos + 1) = p + 1
      BY <1>2
    <3> QED
      BY <1>7, <2>1, <3>1, <3>2, <3>3
  <2> QED
    BY <1>2, <2>2, <2>3
<1>11. ASSUME NEW i \in 1 .. Len(x)
       PROVE  Attended(i) = x[i]
  <2>1. pos + i \in 0 .. Len(text) /\ x[i] = SubSeq(text, 1, pos + i)
    BY <1>1, <1>2
  <2>2. /\ x[i] # Stale
        /\ \A m \in 0 .. pos + i : SubSeq(x[i], 1, m) = SubSeq(text, 1, m)
    BY <1>2, <2>1, PrefixIsText
  <2>3. SplitsUsed(i) = Splits(pos + i)
    <3>1. pos + i \in Nat /\ pos + Len(x) \in Nat /\ pos + i <= pos + Len(x)
      BY <1>1, <1>2
    <3>2. ~(Splits(pos + Len(x)) > 1) => Splits(pos + i) = 1
      BY <3>1, SplitsMonotone
    <3> QED
      BY <3>2 DEF SplitsUsed
  <2>4. \A p \in 0 .. pos + i - 1 : kv'[il][p] = SubSeq(x[i], 1, p + 1)
    <3>1. ASSUME NEW p \in 0 .. pos + i - 1
          PROVE  kv'[il][p] = SubSeq(x[i], 1, p + 1)
      <4>1. p \in 0 .. pos + Len(x) - 1 /\ p + 1 \in 0 .. pos + i
        BY <1>1, <1>2
      <4> QED
        BY <1>10, <2>2, <4>1
    <3> QED
      BY <3>1
  <2> QED
    BY <1>4, <2>2, <2>3, <2>4 DEF Attended
<1>12. \A l \in Attention : l # il => kv'[l] = kv[l]
  BY <1>5, <1>6
<1> QED
  BY <1>4, <1>9, <1>10, <1>11, <1>12

LEMMA AttentionKeepsInv == TrunkInv /\ AttentionLayer => TrunkInv'
<1> SUFFICES ASSUME TrunkInv, AttentionLayer
             PROVE  TrunkInv'
  OBVIOUS
<1>1. /\ TypeOK /\ ForwardInv /\ pc = "layers" /\ il \in Attention
      /\ cpos \in {-1, dpos} /\ Upload /\ kv' = Written(Keys)
  BY DEF TrunkInv, AttentionLayer
<1>2. /\ kv' \in [Attention -> [Position -> Value]]
      /\ \A i \in 1 .. Len(x) : Attended(i) = x[i]
      /\ \A l \in Attention : l # il => kv'[l] = kv[l]
      /\ \A p \in 0 .. pos + Len(x) - 1 : kv'[il][p] = SubSeq(text, 1, p + 1)
  BY <1>1, AttentionIsExact
<1>3. x' = x /\ il' = il + 1
  <2>1. DOMAIN x = 1 .. Len(x) /\ x \in Seq(Value)
    BY <1>1, ForwardRows DEF TypeOK
  <2>2. x' = [i \in DOMAIN x |-> Attended(i)]
    BY DEF AttentionLayer
  <2> QED
    BY <1>2, <2>1, <2>2 DEF AttentionLayer
<1>4. il \in 1 .. Layers /\ il' \in 1 .. Layers + 1 /\ Layers \in Nat
  BY <1>1, <1>3, TrunkAssumption DEF Layer, Attention
<1>5. dpos' \in Nat /\ cpos' \in Nat \cup {-1} /\ cpos' \in {-1, dpos'}
  BY <1>1 DEF Upload, TypeOK
<1>6. TypeOK'
  BY <1>1, <1>2, <1>3, <1>4, <1>5 DEF TypeOK, AttentionLayer
<1>7. ForwardInv'
  <2>1. ASSUME NEW l \in Layer
        PROVE  LayerHolds(l, text, IF l < il THEN pos + Len(x) ELSE pos)
    BY <1>1 DEF ForwardInv
  <2>2. ASSUME NEW l \in Layer
        PROVE  LayerHolds(l, text, IF l < il THEN pos + Len(x) ELSE pos)'
    <3>1. CASE l = il
      <4>1. l < il' /\ l \notin Recurrent
        BY <1>1, <1>3, <1>4, <3>1 DEF Attention
      <4>2. text' = text /\ pos' = pos /\ Len(x') = Len(x)
        BY <1>3 DEF AttentionLayer
      <4>3. \A p \in 0 .. pos' + Len(x') - 1 : kv'[l][p] = SubSeq(text', 1, p + 1)
        BY <1>2, <3>1, <4>2
      <4>4. (IF l < il THEN pos + Len(x) ELSE pos)' = pos' + Len(x')
        BY <4>1
      <4>5. LayerHolds(l, text, pos + Len(x))'
        <5>1. /\ pos' \in Nat /\ Len(x') \in Nat /\ text' \in Seq(Id)
              /\ kv' \in [Attention -> [Position -> Value]]
          BY <1>6, TextIsShort DEF TypeOK
        <5> QED
          BY <4>1, <4>3, <5>1 DEF LayerHolds
      <4> QED
        BY <4>4, <4>5
    <3>2. CASE l # il
      <4>1. l < il' <=> l < il
        BY <1>3, <1>4, <3>2 DEF Layer
      <4>2. l \in Attention => kv'[l] = kv[l]
        BY <1>2, <3>2
      <4> QED
        BY <1>3, <2>1, <4>1, <4>2 DEF LayerHolds, AttentionLayer
    <3> QED
      BY <3>1, <3>2
  <2> QED
    BY <1>1, <1>3, <2>2 DEF ForwardInv, AttentionLayer
<1>8. /\ pc' = "layers" /\ text' = text /\ x' \in Seq(Value)
      /\ UNCHANGED <<op, saved, rest, answer, asked, hist, mark>>
  BY <1>1, <1>6 DEF AttentionLayer, TypeOK
<1> QED
  BY <1>1, <1>5, <1>6, <1>7, <1>8, LayersKeepInv DEF TrunkInv

-----------------------------------------------------------------------------
(* Failures                                                                *)

\* The empty text and the empty answer are of their types.
LEMMA EmptyTypes ==
  /\ <<>> \in Text /\ <<>> \in Value /\ <<>> \in Seq(Id) /\ <<>> \in Seq(Value)
  /\ None \in [hidden : Seq(Value), logits : Seq(Value)]
  /\ <<>> # Stale /\ Stale \in Value
  /\ 0 \in 0 .. MaxCtx /\ 1 \in 1 .. Layers + 1
<1>1. <<>> \in Seq(Id) /\ <<>> \in Seq(Value) /\ Len(<<>>) = 0
  OBVIOUS
<1>2. MaxCtx \in Nat /\ Layers \in Nat
  BY TrunkAssumption
<1>3. <<>> \in Text /\ <<>> \in Value /\ <<>> # Stale
  <2>1. PICK e \in Seq(Id) : e = <<>> /\ Len(e) = 0
    BY <1>1
  <2>2. Len(e) <= MaxCtx
    BY <1>2, <2>1
  <2>3. e \in Text /\ e \in Value /\ e # Stale
    BY <2>2, ShortIsText
  <2> QED
    BY <2>1, <2>3
<1>4. None \in [hidden : Seq(Value), logits : Seq(Value)]
  BY <1>1 DEF None
<1>5. Stale \in Value
  BY DEF Value
<1> QED
  BY <1>1, <1>2, <1>3, <1>4, <1>5

\* When a call has failed the invariant asks for little more than types.
LEMMA LostKeepsInv ==
  ASSUME TrunkInv, Lost,
         rec' \in [Recurrent -> Value], conv' \in [Recurrent -> Value],
         kv' \in [Attention -> [Position -> Value]],
         dpos' \in Nat, cpos' \in Nat \cup {-1}, cpos' \in {-1, dpos'},
         saved' \in [rec : [Recurrent -> Value], conv : [Recurrent -> Value]],
         (saved' = saved /\ mark' = mark) \/ mark' = Stale,
         want' \in BOOLEAN, argmax' \in Value
  PROVE  TrunkInv'
<1>1. /\ pc' = "idle" /\ hist' = Stale /\ rest' = <<>> /\ answer' = None
      /\ asked' = <<>> /\ op' = "tokens" /\ text' = <<>> /\ pos' = 0 /\ il' = 1
      /\ x' = <<>>
  BY DEF Lost, Return
<1>2. TypeOK'
  <2>1. mark' \in Value
    BY EmptyTypes DEF TrunkInv, TypeOK
  <2> QED
    BY <1>1, <2>1, EmptyTypes DEF TypeOK
<1>3. IdleInv' /\ ForwardInv' /\ FreshAnswer'
  BY <1>1 DEF IdleInv, ForwardInv, FreshAnswer
<1>4. SnapshotInv'
  BY <1>1 DEF TrunkInv, SnapshotInv
<1> QED
  BY <1>1, <1>2, <1>3, <1>4 DEF TrunkInv

LEMMA BrokenType == Broken \in [Recurrent -> Value]
BY EmptyTypes DEF Broken

LEMMA RecurrentFailsKeepsInv == TrunkInv /\ RecurrentLayerFails => TrunkInv'
<1> SUFFICES ASSUME TrunkInv, RecurrentLayerFails
             PROVE  TrunkInv'
  OBVIOUS
<1>1. /\ Lost /\ rec' = Broken /\ conv' = Broken
      /\ UNCHANGED <<kv, dpos, cpos, saved, want, argmax, mark>>
  BY DEF RecurrentLayerFails
<1>2. TypeOK /\ cpos \in {-1, dpos}
  BY DEF TrunkInv
<1> QED
  BY <1>1, <1>2, BrokenType, LostKeepsInv DEF TypeOK

LEMMA AttentionFailsKeepsInv == TrunkInv /\ AttentionLayerFails => TrunkInv'
<1> SUFFICES ASSUME TrunkInv, AttentionLayerFails
             PROVE  TrunkInv'
  OBVIOUS
<1>1. /\ Lost /\ rec' = Broken /\ conv' = Broken /\ pc = "layers"
      /\ il \in Attention
      /\ Upload \/ UNCHANGED <<dpos, cpos>>
      /\ kv' = Written([i \in DOMAIN x |-> Stale])
      /\ UNCHANGED <<saved, want, argmax, mark>>
  BY DEF AttentionLayerFails
<1>2. TypeOK /\ ForwardInv /\ cpos \in {-1, dpos}
  BY DEF TrunkInv
<1>3. dpos' \in Nat /\ cpos' \in Nat \cup {-1} /\ cpos' \in {-1, dpos'}
  BY <1>1, <1>2 DEF Upload, TypeOK
<1> DEFINE rows == [i \in DOMAIN x |-> Stale]
<1>4. /\ Len(x) \in Nat /\ DOMAIN x = 1 .. Len(x) /\ pos \in Nat
  BY <1>1, <1>2, ForwardRows DEF RowsOf
<1>5. Len(rows) = Len(x) /\ \A i \in 1 .. Len(x) : rows[i] = Stale
  BY <1>4
<1>6. kv' \in [Attention -> [Position -> Value]]
  <2>1. kv \in [Attention -> [Position -> Value]]
    BY <1>2 DEF TypeOK
  <2>2. ASSUME NEW p \in Position
        PROVE  (IF p \in pos .. pos + Len(rows) - 1 THEN rows[p - pos + 1]
                ELSE kv[il][p]) \in Value
    <3>1. CASE p \in pos .. pos + Len(rows) - 1
      <4>1. p - pos + 1 \in 1 .. Len(x)
        BY <1>4, <1>5, <3>1
      <4> QED
        BY <1>5, <3>1, <4>1, EmptyTypes
    <3>2. CASE p \notin pos .. pos + Len(rows) - 1
      BY <1>1, <2>1, <3>2
    <3> QED
      BY <3>1, <3>2
  <2> QED
    BY <1>1, <2>1, <2>2 DEF Written
<1>7. /\ saved' \in [rec : [Recurrent -> Value], conv : [Recurrent -> Value]]
      /\ want' \in BOOLEAN /\ argmax' \in Value /\ saved' = saved /\ mark' = mark
  BY <1>1, <1>2 DEF TypeOK
<1> QED
  BY <1>1, <1>3, <1>6, <1>7, BrokenType, LostKeepsInv

LEMMA FinishFailsKeepsInv == TrunkInv /\ FinishFails => TrunkInv'
<1> SUFFICES ASSUME TrunkInv, FinishFails
             PROVE  TrunkInv'
  OBVIOUS
<1>1. /\ Lost /\ pc = "layers"
      /\ argmax' \in {argmax} \cup IF TakesArgmax THEN {x[Len(x)]} ELSE {}
      /\ UNCHANGED <<caches, saved, want, mark>>
  BY DEF FinishFails
<1>2. TypeOK /\ ForwardInv /\ cpos \in {-1, dpos}
  BY DEF TrunkInv
<1>3. x[Len(x)] \in Value
  <2>1. x \in Seq(Value) /\ Len(x) >= 1
    BY <1>1, <1>2 DEF TypeOK, ForwardInv
  <2> QED
    BY <2>1
<1>4. argmax' \in Value
  BY <1>1, <1>2, <1>3 DEF TypeOK
<1> QED
  BY <1>1, <1>2, <1>4, LostKeepsInv DEF TypeOK, caches

LEMMA ResetFailsKeepsInv == TrunkInv /\ ResetFails => TrunkInv'
<1> SUFFICES ASSUME TrunkInv, ResetFails
             PROVE  TrunkInv'
  OBVIOUS
<1>1. /\ Lost /\ rec' = Broken /\ conv' = Broken
      /\ UNCHANGED <<kv, dpos, cpos, saved, want, argmax, mark>>
  BY DEF ResetFails
<1>2. TypeOK /\ cpos \in {-1, dpos}
  BY DEF TrunkInv
<1> QED
  BY <1>1, <1>2, BrokenType, LostKeepsInv DEF TypeOK

LEMMA RestoreFailsKeepsInv == TrunkInv /\ RestoreFails => TrunkInv'
<1> SUFFICES ASSUME TrunkInv, RestoreFails
             PROVE  TrunkInv'
  OBVIOUS
<1>1. /\ Lost /\ rec' = Broken /\ conv' = Broken
      /\ UNCHANGED <<kv, dpos, cpos, saved, want, argmax, mark>>
  BY DEF RestoreFails
<1>2. TypeOK /\ cpos \in {-1, dpos}
  BY DEF TrunkInv
<1> QED
  BY <1>1, <1>2, BrokenType, LostKeepsInv DEF TypeOK

LEMMA SnapshotFailsKeepsInv == TrunkInv /\ SnapshotFails => TrunkInv'
<1> SUFFICES ASSUME TrunkInv, SnapshotFails
             PROVE  TrunkInv'
  OBVIOUS
<1>1. /\ Lost /\ mark' = Stale /\ saved' = [rec |-> Broken, conv |-> Broken]
      /\ UNCHANGED <<caches, want, argmax>>
  BY DEF SnapshotFails
<1>2. TypeOK /\ cpos \in {-1, dpos}
  BY DEF TrunkInv
<1>3. saved' \in [rec : [Recurrent -> Value], conv : [Recurrent -> Value]]
  BY <1>1, BrokenType
<1> QED
  BY <1>1, <1>2, <1>3, LostKeepsInv DEF TypeOK, caches

-----------------------------------------------------------------------------
(* Calls                                                                   *)

\* A text that the caller knows is a token sequence.
LEMMA KnownText ==
  ASSUME TypeOK, hist # Stale
  PROVE  hist \in Text /\ hist \in Seq(Id) /\ Len(hist) \in 0 .. MaxCtx
<1>1. hist \in Text
  BY DEF TypeOK, Value
<1> QED
  BY <1>1, TextIsShort

\* A forward that is accepted begins on caches that hold the text before it.
LEMMA BeginKeepsInv ==
  ASSUME TrunkInv, pc # "layers", hist # Stale,
         NEW o \in {"tokens", "batch", "all"}, NEW ts \in Seq(Id),
         Accepted(o, ts), Begin(o, ts),
         rest' \in Seq(Id), asked' \in Seq(Id), asked' = (hist \o ts) \o rest',
         UNCHANGED <<caches, saved, want, argmax, hist, mark>>
  PROVE  TrunkInv'
<1>1. TypeOK /\ cpos \in {-1, dpos}
  BY DEF TrunkInv
<1>2. hist \in Text /\ hist \in Seq(Id) /\ Len(hist) \in 0 .. MaxCtx /\ MaxCtx \in Nat
  BY <1>1, KnownText, TrunkAssumption
<1> DEFINE n == IF o = "tokens" THEN 1 ELSE Len(ts)
<1>3. n \in 1 .. Len(ts) /\ Len(hist) + Len(ts) <= MaxCtx /\ Len(ts) \in Nat
  BY DEF Accepted, ChunkOk
<1>4. /\ text' = hist \o ts /\ pos' = Len(hist) /\ pc' = "layers" /\ op' = o
      /\ il' = 1 /\ answer' = None
      /\ x' = [i \in 1 .. n |-> SubSeq(text', 1, Len(hist) + i)]
  BY DEF Begin
<1>5. /\ text' \in Seq(Id) /\ Len(text') = Len(hist) + Len(ts)
      /\ \A m \in 0 .. Len(hist) : SubSeq(text', 1, m) = SubSeq(hist, 1, m)
  BY <1>2, <1>4, Extend
<1>6. text' \in Text
  BY <1>3, <1>5, ShortIsText
<1>7. ASSUME NEW i \in 1 .. n
      PROVE  SubSeq(text', 1, Len(hist) + i) \in Value
  <2>1. Len(hist) + i \in 0 .. Len(text')
    BY <1>2, <1>3, <1>5
  <2> QED
    BY <1>6, <2>1, PrefixIsText
<1>8. x' \in Seq(Value) /\ Len(x') = n
  <2>1. n \in Nat /\ x' \in [1 .. n -> Value]
    BY <1>3, <1>4, <1>7
  <2> QED
    BY <2>1, FunctionIsSeq
<1>9. TypeOK'
  <2>1. pos' \in 0 .. MaxCtx /\ il' \in 1 .. Layers + 1
    BY <1>2, <1>4, EmptyTypes
  <2> QED
    BY <1>1, <1>4, <1>6, <1>8, <2>1, EmptyTypes DEF TypeOK, caches
<1>10. hist = SubSeq(text', 1, Len(hist))
  <2>1. SubSeq(hist, 1, Len(hist)) = hist
    BY <1>2, WholeText
  <2> QED
    BY <1>2, <1>5, <2>1
<1>11. ForwardInv'
  <2>1. ASSUME NEW l \in Layer
        PROVE  LayerHolds(l, text, IF l < il THEN pos + Len(x) ELSE pos)'
    <3>1. ~(l < il')
      BY <1>4 DEF Layer
    <3>2. LayerHolds(l, hist, Len(hist))
      BY DEF TrunkInv, IdleInv
    <3>3. \A m \in 0 .. pos' : SubSeq(text', 1, m) = SubSeq(hist, 1, m)
      BY <1>4, <1>5
    <3>4. /\ pos' \in Nat
          /\ l \in Recurrent => rec'[l] = SubSeq(text', 1, pos') /\ conv'[l] = rec'[l]
      BY <1>2, <1>4, <3>2, <3>3 DEF LayerHolds, caches
    <3>5. ASSUME l \in Attention, NEW p \in 0 .. pos' - 1
          PROVE  kv'[l][p] = SubSeq(text', 1, p + 1)
      <4>1. p + 1 \in 0 .. pos' /\ p \in 0 .. Len(hist) - 1
        BY <1>2, <1>4
      <4>2. kv[l][p] = SubSeq(hist, 1, p + 1)
        BY <3>2, <3>5, <4>1 DEF LayerHolds
      <4> QED
        BY <3>3, <4>1, <4>2 DEF caches
    <3>6. LayerHolds(l, text, pos)'
      BY <3>4, <3>5 DEF LayerHolds
    <3> QED
      BY <3>1, <3>6
  <2>2. /\ pos' + Len(x') <= Len(text') /\ Len(x') >= 1
        /\ IF op' = "tokens" THEN Len(x') = 1
           ELSE pos' = Len(hist') /\ pos' + Len(x') = Len(text')
    BY <1>2, <1>3, <1>4, <1>5, <1>8
  <2>3. x' = [i \in 1 .. Len(x') |-> SubSeq(text', 1, pos' + i)]
    BY <1>4, <1>8
  <2>4. hist' # Stale /\ Len(hist') <= pos' /\ hist' = SubSeq(text', 1, Len(hist'))
    BY <1>2, <1>4, <1>10
  <2> QED
    BY <2>1, <2>2, <2>3, <2>4 DEF ForwardInv
<1>12. IdleInv' /\ FreshAnswer'
  BY <1>4 DEF IdleInv, FreshAnswer
<1>13. SnapshotInv'
  BY DEF TrunkInv, SnapshotInv
<1>14. asked' = text' \o rest' /\ cpos' \in {-1, dpos'}
  BY <1>1, <1>4 DEF caches
<1> QED
  BY <1>4, <1>9, <1>11, <1>12, <1>13, <1>14 DEF TrunkInv

LEMMA CallKeepsInv ==
  ASSUME TrunkInv, NEW ts \in Inputs, NEW o \in {"tokens", "batch", "all"},
         Call(o, ts)
  PROVE  TrunkInv'
<1>1. /\ pc = "idle" /\ hist # Stale
      /\ UNCHANGED <<caches, saved, want, argmax, rest, hist, mark>>
  BY DEF Call
<1>2. TypeOK /\ rest = <<>>
  BY <1>1 DEF TrunkInv
<1>3. ts \in Seq(Id) /\ hist \in Seq(Id)
  BY <1>1, <1>2, InputAssumption, KnownText
<1>4. CASE Accepted(o, ts)
  <2>1. Begin(o, ts) /\ asked' = hist \o ts
    BY <1>4 DEF Call
  <2>2. hist \o ts \in Seq(Id) /\ asked' = (hist \o ts) \o <<>>
    BY <1>3, <2>1
  <2>3. rest' = <<>> /\ rest' \in Seq(Id)
    BY <1>1, <1>2
  <2> QED
    BY <1>1, <1>3, <1>4, <2>1, <2>2, <2>3, BeginKeepsInv
<1>5. CASE ~Accepted(o, ts)
  <2>1. pc' = "idle" /\ answer' = None /\ asked' = <<>> /\ UNCHANGED forward
    BY <1>5 DEF Call
  <2>2. TypeOK'
    BY <1>1, <1>2, <2>1, EmptyTypes DEF TypeOK, caches, forward
  <2>3. IdleInv'
    BY <1>1, <2>1 DEF TrunkInv, IdleInv, LayerHolds, caches
  <2>4. SnapshotInv' /\ FreshAnswer' /\ ForwardInv'
    BY <1>1, <2>1 DEF TrunkInv, SnapshotInv, FreshAnswer, ForwardInv
  <2> QED
    BY <1>1, <1>2, <2>1, <2>2, <2>3, <2>4 DEF TrunkInv, caches
<1> QED
  BY <1>4, <1>5

LEMMA CallPrefillKeepsInv ==
  ASSUME TrunkInv, NEW ids \in Inputs, CallPrefill(ids)
  PROVE  TrunkInv'
<1>1. /\ pc = "idle" /\ hist # Stale /\ ids # <<>> /\ pc' = "prefill"
      /\ rest' = ids /\ answer' = None /\ asked' = hist \o ids
      /\ UNCHANGED <<caches, saved, want, argmax, forward, hist, mark>>
  BY DEF CallPrefill
<1>2. TypeOK
  BY DEF TrunkInv
<1>3. ids \in Seq(Id) /\ Len(ids) <= MaxTotal /\ hist \in Seq(Id)
  BY <1>1, <1>2, InputAssumption, KnownText
<1>4. TypeOK'
  <2>1. hist \o ids \in Seq(Id)
    BY <1>3
  <2> QED
    BY <1>1, <1>2, <1>3, <2>1, EmptyTypes DEF TypeOK, caches, forward
<1>5. IdleInv'
  BY <1>1 DEF TrunkInv, IdleInv, LayerHolds, caches
<1>6. SnapshotInv' /\ FreshAnswer' /\ ForwardInv'
  BY <1>1 DEF TrunkInv, SnapshotInv, FreshAnswer, ForwardInv
<1> QED
  BY <1>1, <1>3, <1>4, <1>5, <1>6 DEF TrunkInv, caches

\* A chunk that is refused fails the prefill.
LEMMA RefusedKeepsInv ==
  ASSUME TrunkInv, Lost, UNCHANGED <<caches, saved, want, argmax, mark>>
  PROVE  TrunkInv'
<1>1. TypeOK /\ cpos \in {-1, dpos}
  BY DEF TrunkInv
<1> QED
  BY <1>1, LostKeepsInv DEF TypeOK, caches

LEMMA PrefillChunkKeepsInv == TrunkInv /\ PrefillChunk => TrunkInv'
<1> SUFFICES ASSUME TrunkInv, PrefillChunk
             PROVE  TrunkInv'
  OBVIOUS
<1>1. /\ pc = "prefill" /\ rest \in Seq(Id) /\ rest # <<>> /\ hist # Stale
      /\ asked = hist \o rest /\ hist \in Seq(Id) /\ asked \in Seq(Id)
  BY KnownText DEF PrefillChunk, TrunkInv, TypeOK
<1>2. Len(rest) \in Nat \ {0}
  BY <1>1
<1> DEFINE n == Take(Cost, Len(rest))
           ts == SubSeq(rest, 1, n)
           o  == IF n = 1 THEN "tokens" ELSE "batch"
<1>3. n \in 1 .. Len(rest)
  BY <1>2, TakeFits
<1>4. /\ IF Accepted(o, ts)
         THEN /\ Begin(o, ts) /\ rest' = SubSeq(rest, n + 1, Len(rest))
              /\ UNCHANGED <<hist, asked>>
         ELSE Lost
      /\ UNCHANGED <<caches, saved, want, argmax, mark>>
  BY DEF PrefillChunk
<1>5. CASE ~Accepted(o, ts)
  BY <1>4, <1>5, RefusedKeepsInv
<1>6. CASE Accepted(o, ts)
  <2> HIDE DEF n
  <2>1. PICK s \in Seq(Id) : s = rest
    BY <1>1
  <2>2. n \in 0 .. Len(s) /\ Len(s) \in n .. Len(s)
    BY <1>2, <1>3, <2>1
  <2>3. ts \in Seq(Id) /\ rest' \in Seq(Id)
    <3>1. SubSeq(s, 1, n) \in Seq(Id) /\ SubSeq(s, n + 1, Len(s)) \in Seq(Id)
      BY <2>2, Prefix, Piecewise
    <3> QED
      BY <1>4, <1>6, <2>1, <3>1
  <2>4. ts \o rest' = rest
    <3>1. SubSeq(s, 1, n) \o SubSeq(s, n + 1, Len(s)) = SubSeq(s, 1, Len(s))
      BY <2>2, Join
    <3>2. SubSeq(s, 1, Len(s)) = s
      OBVIOUS
    <3> QED
      BY <1>4, <1>6, <2>1, <3>1, <3>2
  <2>5. (hist \o ts) \o rest' = hist \o (ts \o rest')
    <3> HIDE DEF ts
    <3> QED
      BY <1>1, <2>3, ConcatAssociative, SMTT(30)
  <2>6. asked' = (hist \o ts) \o rest' /\ asked' \in Seq(Id)
    BY <1>1, <1>4, <1>6, <2>4, <2>5
  <2>7. o \in {"tokens", "batch", "all"}
    OBVIOUS
  <2> HIDE DEF ts, o
  <2> QED
    BY <1>1, <1>4, <1>6, <2>3, <2>6, <2>7, BeginKeepsInv
<1> QED
  BY <1>5, <1>6

-----------------------------------------------------------------------------
(* After the layers                                                        *)

\* When the last layer is done every layer holds the text up to the last row.
LEMMA AllAbsorbed ==
  ASSUME TypeOK, ForwardInv, pc = "layers", il = Layers + 1
  PROVE  \A l \in Layer : LayerHolds(l, text, pos + Len(x))
<1>1. ASSUME NEW l \in Layer
      PROVE  l < il
  BY TrunkAssumption DEF Layer
<1> QED
  BY <1>1 DEF ForwardInv

LEMMA NextTokenKeepsInv == TrunkInv /\ NextToken => TrunkInv'
<1> SUFFICES ASSUME TrunkInv, NextToken
             PROVE  TrunkInv'
  OBVIOUS
<1>1. /\ pc = "layers" /\ il = Layers + 1 /\ op = "tokens" /\ pos + 1 < Len(text)
      /\ pos' = pos + 1 /\ il' = 1 /\ x' = <<SubSeq(text, 1, pos + 2)>>
      /\ UNCHANGED <<pc, op, text, caches, saved, want, argmax, rest, answer,
                     asked, hist, mark>>
  BY DEF NextToken, More
<1>2. TypeOK /\ ForwardInv /\ cpos \in {-1, dpos}
  BY DEF TrunkInv
<1>3. /\ text \in Text /\ pos \in Nat /\ Len(x) = 1 /\ Len(text) \in 0 .. MaxCtx
      /\ MaxCtx \in Nat
  BY <1>1, <1>2, ForwardRows, TrunkAssumption DEF RowsOf, ForwardInv
<1>4. SubSeq(text, 1, pos + 2) \in Value
  BY <1>1, <1>3, PrefixIsText
<1>5. x' \in Seq(Value) /\ Len(x') = 1 /\ pos' \in 0 .. MaxCtx
  BY <1>1, <1>3, <1>4
<1>6. TypeOK'
  BY <1>1, <1>2, <1>5, EmptyTypes DEF TypeOK, caches
<1>7. ForwardInv'
  <2>1. ASSUME NEW l \in Layer
        PROVE  LayerHolds(l, text, IF l < il THEN pos + Len(x) ELSE pos)'
    <3>1. ~(l < il')
      BY <1>1 DEF Layer
    <3>2. LayerHolds(l, text, pos + 1)
      BY <1>1, <1>2, <1>3, AllAbsorbed
    <3>3. LayerHolds(l, text, pos)'
      BY <1>1, <3>2 DEF LayerHolds, caches
    <3> QED
      BY <3>1, <3>3
  <2>2. x' = [i \in 1 .. Len(x') |-> SubSeq(text', 1, pos' + i)]
    BY <1>1, <1>3, <1>5
  <2>3. /\ hist # Stale /\ Len(hist) <= pos /\ hist = SubSeq(text, 1, Len(hist))
    BY <1>1, <1>2 DEF ForwardInv
  <2>4. Len(hist) \in Nat
    BY <1>2, <2>3, KnownText
  <2>5. Len(hist') <= pos' /\ pos' + Len(x') <= Len(text')
    BY <1>1, <1>3, <1>5, <2>3, <2>4
  <2> QED
    BY <1>1, <1>5, <2>1, <2>2, <2>3, <2>5 DEF ForwardInv
<1>8. cpos' \in {-1, dpos'}
  BY <1>1, <1>2 DEF caches
<1> QED
  BY <1>1, <1>2, <1>5, <1>6, <1>7, <1>8, LayersKeepInv DEF TrunkInv

\* What a forward that has ended returns.
LEMMA FinishAnswers ==
  ASSUME TrunkInv, Finish
  PROVE  /\ text \in Text /\ x[Len(x)] = text
         /\ \A l \in Layer : LayerHolds(l, text, Len(text))
         /\ answer' \in [hidden : Seq(Value), logits : Seq(Value)]
         /\ answer'.hidden = [i \in DOMAIN answer'.hidden |->
                  SubSeq(text, 1, Len(text) - Len(answer'.hidden) + i)]
         /\ answer'.logits \in {<<>>, answer'.hidden}
         /\ answer'.logits = <<>> => want /\ op # "all"
<1>1. /\ pc = "layers" /\ il = Layers + 1 /\ ~More /\ answer' = Outcome
      /\ TypeOK /\ ForwardInv
  BY DEF TrunkInv, Finish
<1>2. /\ x \in Seq(Value) /\ Len(x) >= 1 /\ text \in Text /\ pos \in Nat
      /\ Len(x) \in Nat /\ Len(text) \in Nat /\ DOMAIN x = 1 .. Len(x)
      /\ pos + Len(x) <= Len(text)
      /\ \A i \in 1 .. Len(x) : x[i] = SubSeq(text, 1, pos + i)
  BY <1>1, ForwardRows DEF RowsOf
<1>3. Len(text) = pos + Len(x)
  <2>1. CASE op = "tokens"
    BY <1>1, <1>2, <2>1 DEF ForwardInv, More
  <2>2. CASE op # "tokens"
    BY <1>1, <2>2 DEF ForwardInv
  <2> QED
    BY <2>1, <2>2
<1>4. x[Len(x)] = text
  <2>1. x[Len(x)] = SubSeq(text, 1, Len(text))
    BY <1>2, <1>3
  <2> QED
    BY <1>2, <2>1, WholeText
<1>5. \A l \in Layer : LayerHolds(l, text, Len(text))
  BY <1>1, <1>3, AllAbsorbed
<1> DEFINE last == <<x[Len(x)]>>
<1>6. last = <<text>> /\ last \in Seq(Value) /\ Len(last) = 1 /\ last # <<>>
  BY <1>2, <1>4, TextIsShort
<1>7. /\ x = [i \in DOMAIN x |-> SubSeq(text, 1, Len(text) - Len(x) + i)]
      /\ x # <<>>
  <2>1. \A i \in 1 .. Len(x) : x[i] = SubSeq(text, 1, Len(text) - Len(x) + i)
    BY <1>2, <1>3
  <2> QED
    BY <1>2, <2>1
<1>8. last = [i \in DOMAIN last |-> SubSeq(text, 1, Len(text) - Len(last) + i)]
  <2>1. SubSeq(text, 1, Len(text) - 1 + 1) = text
    BY <1>2, WholeText
  <2>2. DOMAIN last = {1} /\ last[1] = text
    BY <1>6
  <2> QED
    BY <1>6, <2>1, <2>2
<1>9. \/ answer' = [hidden |-> x, logits |-> x]
      \/ answer' = [hidden |-> last, logits |-> last]
      \/ answer' = [hidden |-> last, logits |-> <<>>] /\ want /\ op = "tokens"
  BY <1>1 DEF Outcome, TypeOK
<1> HIDE DEF last
<1> DEFINE Rows(h) == h = [i \in DOMAIN h |->
                             SubSeq(text, 1, Len(text) - Len(h) + i)]
<1>10. PICK h \in Seq(Value), g \in Seq(Value) :
         /\ answer' = [hidden |-> h, logits |-> g] /\ Rows(h) /\ g \in {<<>>, h}
         /\ g = <<>> => want /\ op # "all"
  <2>1. Rows(x) /\ Rows(last)
    BY <1>7, <1>8
  <2> HIDE DEF Rows
  <2> QED
    BY <1>2, <1>6, <1>7, <1>9, <2>1, EmptyTypes
<1>11. /\ answer'.hidden = h /\ answer'.logits = g
       /\ answer' \in [hidden : Seq(Value), logits : Seq(Value)]
  BY <1>10
<1> QED
  BY <1>2, <1>4, <1>5, <1>10, <1>11

LEMMA FinishKeepsInv == TrunkInv /\ Finish => TrunkInv'
<1> SUFFICES ASSUME TrunkInv, Finish
             PROVE  TrunkInv'
  OBVIOUS
<1>1. /\ pc = "layers" /\ il = Layers + 1 /\ hist' = text
      /\ pc' = IF rest = <<>> THEN "idle" ELSE "prefill"
      /\ argmax' = IF TakesArgmax THEN x[Len(x)] ELSE argmax
      /\ op' = op /\ text' = <<>> /\ pos' = 0 /\ il' = 1 /\ x' = <<>>
      /\ UNCHANGED <<caches, saved, want, rest, asked, mark>>
  BY DEF Finish, Return
<1>2. /\ TypeOK /\ ForwardInv /\ cpos \in {-1, dpos} /\ asked = text \o rest
      /\ rest \in Seq(Id) /\ rest' \in Seq(Id)
  BY <1>1 DEF TrunkInv, TypeOK
<1>3. /\ text \in Text /\ x[Len(x)] = text
      /\ \A l \in Layer : LayerHolds(l, text, Len(text))
      /\ answer' \in [hidden : Seq(Value), logits : Seq(Value)]
      /\ answer'.hidden = [i \in DOMAIN answer'.hidden |->
               SubSeq(text, 1, Len(text) - Len(answer'.hidden) + i)]
      /\ answer'.logits \in {<<>>, answer'.hidden}
      /\ answer'.logits = <<>> => want /\ op # "all"
  BY FinishAnswers
<1>4. text \in Seq(Id) /\ text \in Value /\ text # Stale
  BY <1>3, TextIsShort
<1>5. TypeOK'
  BY <1>1, <1>2, <1>3, <1>4, EmptyTypes DEF TypeOK, caches
<1>6. IdleInv'
  BY <1>1, <1>3 DEF IdleInv, LayerHolds, caches
<1>7. ForwardInv' /\ (hist = Stale => pc = "idle")'
  BY <1>1, <1>4 DEF ForwardInv
<1>8. FreshAnswer'
  <2>1. ASSUME pc' = "idle"
        PROVE  hist' = asked'
    BY <1>1, <1>2, <1>4, <2>1
  <2>2. want' /\ op' # "all" => argmax' = hist'
    BY <1>1, <1>3 DEF TakesArgmax
  <2> QED
    BY <1>1, <1>3, <2>1, <2>2 DEF FreshAnswer
<1>9. SnapshotInv'
  <2>1. ASSUME mark # Stale
        PROVE  Len(mark) <= Len(text) /\ mark = SubSeq(text, 1, Len(mark))
    <3>1. /\ hist # Stale /\ hist = SubSeq(text, 1, Len(hist))
          /\ Len(hist) <= pos /\ pos <= Len(text) /\ pos \in Nat
      BY <1>1, <1>2, ForwardRows DEF ForwardInv, RowsOf
    <3>2. /\ Len(mark) <= Len(hist) /\ mark = SubSeq(hist, 1, Len(mark))
      BY <2>1, <3>1 DEF TrunkInv, SnapshotInv
    <3>3. mark \in Text /\ Len(mark) \in Nat /\ Len(hist) \in Nat /\ Len(text) \in Nat
      BY <1>2, <1>3, <2>1, <3>1, TextIsShort DEF TypeOK, Value
    <3>4. SubSeq(SubSeq(text, 1, Len(hist)), 1, Len(mark)) = SubSeq(text, 1, Len(mark))
      BY <1>3, <3>1, <3>2, <3>3, PrefixIsText
    <3> QED
      BY <3>1, <3>2, <3>3, <3>4
  <2> QED
    BY <1>1, <2>1 DEF TrunkInv, SnapshotInv
<1>10. /\ cpos' \in {-1, dpos'}
       /\ pc' = "prefill" => asked' = hist' \o rest'
       /\ pc' = "prefill" => rest' # <<>>
       /\ pc' = "idle" => rest' = <<>>
       /\ pc' # "layers"
  BY <1>1, <1>2 DEF caches
<1> QED
  BY <1>5, <1>6, <1>7, <1>8, <1>9, <1>10 DEF TrunkInv

-----------------------------------------------------------------------------
(* The recurrent state                                                     *)

\* Between calls no forward runs and the caches hold the text the caller knows.
LEMMA AtRest ==
  ASSUME TrunkInv, pc = "idle"
  PROVE  /\ TypeOK /\ cpos \in {-1, dpos} /\ rest = <<>> /\ SnapshotInv
         /\ hist # Stale =>
              /\ hist \in Text /\ Len(hist) \in 0 .. MaxCtx
              /\ SubSeq(hist, 1, Len(hist)) = hist
              /\ \A l \in Layer : LayerHolds(l, hist, Len(hist))
<1>1. TypeOK /\ cpos \in {-1, dpos} /\ rest = <<>> /\ SnapshotInv /\ IdleInv
  BY DEF TrunkInv
<1>2. hist # Stale => /\ hist \in Text /\ Len(hist) \in 0 .. MaxCtx
                      /\ SubSeq(hist, 1, Len(hist)) = hist
  BY <1>1, KnownText, WholeText
<1> QED
  BY <1>1, <1>2 DEF IdleInv

\* A call that leaves the program at rest keeps the invariant if it keeps these.
LEMMA RestKeepsInv ==
  ASSUME TypeOK', pc' = "idle", rest' = <<>>, cpos' \in {-1, dpos'},
         IdleInv', SnapshotInv', FreshAnswer'
  PROVE  TrunkInv'
BY DEF TrunkInv, ForwardInv

LEMMA ZeroType ==
  /\ Zero \in [Recurrent -> Value]
  /\ \A l \in Recurrent : Zero[l] = <<>>
BY EmptyTypes DEF Zero

LEMMA InitInv == Init => TrunkInv
<1> SUFFICES ASSUME Init
             PROVE  TrunkInv
  OBVIOUS
<1>1. /\ pc = "idle" /\ hist = <<>> /\ mark = Stale /\ rest = <<>> /\ answer = None
      /\ asked = <<>> /\ text = <<>> /\ pos = 0 /\ il = 1 /\ x = <<>>
      /\ op = "tokens" /\ want \in BOOLEAN /\ argmax = Stale
      /\ dpos = 0 /\ cpos = -1 /\ rec = Zero /\ conv = Zero
      /\ saved = [rec |-> rec, conv |-> conv]
      /\ kv = [l \in Attention |-> [p \in Position |-> Stale]]
  BY DEF Init, Zero
<1>2. kv \in [Attention -> [Position -> Value]]
  BY <1>1, EmptyTypes
<1>3. saved \in [rec : [Recurrent -> Value], conv : [Recurrent -> Value]]
  BY <1>1, ZeroType
<1>4. TypeOK
  BY <1>1, <1>2, <1>3, ZeroType, EmptyTypes DEF TypeOK
<1>5. IdleInv
  <2>1. SubSeq(hist, 1, Len(hist)) = <<>> /\ Len(hist) = 0
    BY <1>1, EmptyTypes, WholeText
  <2>2. 0 .. Len(hist) - 1 = {}
    BY <2>1
  <2> QED
    BY <1>1, <2>1, <2>2, ZeroType DEF IdleInv, LayerHolds
<1>6. ForwardInv /\ SnapshotInv /\ FreshAnswer
  BY <1>1 DEF ForwardInv, SnapshotInv, FreshAnswer
<1> QED
  BY <1>1, <1>4, <1>5, <1>6, EmptyTypes DEF TrunkInv

LEMMA ResetKeepsInv == TrunkInv /\ Reset => TrunkInv'
<1> SUFFICES ASSUME TrunkInv, Reset
             PROVE  TrunkInv'
  OBVIOUS
<1>1. /\ pc = "idle" /\ rec' = Zero /\ conv' = Zero
      /\ hist' = <<>> /\ mark' = Stale /\ answer' = None /\ asked' = <<>>
      /\ UNCHANGED <<pc, kv, dpos, cpos, saved, want, argmax, forward, rest>>
  BY DEF Reset
<1>2. TypeOK /\ cpos \in {-1, dpos} /\ rest = <<>>
  BY <1>1, AtRest
<1>3. TypeOK'
  BY <1>1, <1>2, ZeroType, EmptyTypes DEF TypeOK, forward
<1>4. IdleInv'
  <2>1. SubSeq(hist', 1, Len(hist')) = <<>> /\ Len(hist') = 0
    BY <1>1, EmptyTypes, WholeText
  <2>2. 0 .. Len(hist') - 1 = {}
    BY <2>1
  <2> QED
    BY <1>1, <2>1, <2>2, ZeroType DEF IdleInv, LayerHolds
<1>5. SnapshotInv' /\ FreshAnswer'
  BY <1>1 DEF SnapshotInv, FreshAnswer
<1> QED
  BY <1>1, <1>2, <1>3, <1>4, <1>5, RestKeepsInv

LEMMA SnapshotKeepsInv == TrunkInv /\ Snapshot => TrunkInv'
<1> SUFFICES ASSUME TrunkInv, Snapshot
             PROVE  TrunkInv'
  OBVIOUS
<1>1. /\ pc = "idle" /\ hist # Stale
      /\ saved' = [rec |-> rec, conv |-> conv] /\ mark' = hist
      /\ UNCHANGED <<pc, caches, want, argmax, forward, rest, answer, asked, hist>>
  BY DEF Snapshot
<1>2. /\ TypeOK /\ cpos \in {-1, dpos} /\ rest = <<>>
      /\ hist \in Text /\ Len(hist) \in 0 .. MaxCtx
      /\ SubSeq(hist, 1, Len(hist)) = hist
      /\ \A l \in Layer : LayerHolds(l, hist, Len(hist))
  BY <1>1, AtRest
<1>3. TypeOK'
  BY <1>1, <1>2 DEF TypeOK, caches, forward
<1>4. IdleInv' /\ FreshAnswer'
  BY <1>1 DEF TrunkInv, IdleInv, LayerHolds, FreshAnswer, caches, forward
<1>5. SnapshotInv'
  <2>1. \A l \in Recurrent : rec[l] = hist /\ conv[l] = hist
    BY <1>2, TrunkAssumption DEF LayerHolds
  <2> QED
    BY <1>1, <1>2, <2>1 DEF SnapshotInv
<1> QED
  BY <1>1, <1>2, <1>3, <1>4, <1>5, RestKeepsInv DEF caches

LEMMA RestoreKeepsInv == TrunkInv /\ Restore => TrunkInv'
<1> SUFFICES ASSUME TrunkInv, Restore
             PROVE  TrunkInv'
  OBVIOUS
<1>1. /\ pc = "idle" /\ hist # Stale /\ mark # Stale
      /\ rec' = saved.rec /\ conv' = saved.conv
      /\ hist' = mark /\ answer' = None /\ asked' = <<>>
      /\ UNCHANGED <<pc, kv, dpos, cpos, saved, want, argmax, forward, rest, mark>>
  BY DEF Restore
<1>2. /\ TypeOK /\ cpos \in {-1, dpos} /\ rest = <<>> /\ SnapshotInv
      /\ hist \in Text /\ Len(hist) \in 0 .. MaxCtx
      /\ \A l \in Layer : LayerHolds(l, hist, Len(hist))
  BY <1>1, AtRest
<1>3. /\ mark \in Text /\ Len(mark) \in 0 .. MaxCtx
      /\ SubSeq(mark, 1, Len(mark)) = mark
  BY <1>1, <1>2, TextIsShort, WholeText DEF TypeOK, Value
<1>4. /\ Len(mark) <= Len(hist) /\ mark = SubSeq(hist, 1, Len(mark))
      /\ \A l \in Recurrent : saved.rec[l] = mark /\ saved.conv[l] = mark
  BY <1>1, <1>2 DEF SnapshotInv
<1>5. TypeOK'
  BY <1>1, <1>2, EmptyTypes DEF TypeOK, forward
<1>6. IdleInv'
  <2>1. ASSUME NEW l \in Layer
        PROVE  LayerHolds(l, hist, Len(hist))'
    <3>1. l \in Recurrent => rec'[l] = mark /\ conv'[l] = mark
      BY <1>1, <1>4
    <3>2. ASSUME l \in Attention, NEW p \in 0 .. Len(mark) - 1
          PROVE  kv'[l][p] = SubSeq(mark, 1, p + 1)
      <4>1. /\ p \in 0 .. Len(hist) - 1 /\ p + 1 \in 0 .. Len(mark)
            /\ Len(mark) \in 0 .. Len(hist)
        BY <1>2, <1>3, <1>4
      <4>2. kv[l][p] = SubSeq(hist, 1, p + 1)
        BY <1>2, <3>2, <4>1 DEF LayerHolds
      <4>3. SubSeq(SubSeq(hist, 1, Len(mark)), 1, p + 1) = SubSeq(hist, 1, p + 1)
        BY <1>2, <4>1, PrefixIsText
      <4> QED
        BY <1>1, <1>4, <4>2, <4>3
    <3> QED
      BY <1>1, <1>3, <3>1, <3>2 DEF LayerHolds
  <2> QED
    BY <2>1 DEF IdleInv
<1>7. FreshAnswer' /\ SnapshotInv'
  BY <1>1, <1>3, <1>4 DEF FreshAnswer, SnapshotInv
<1> QED
  BY <1>1, <1>2, <1>5, <1>6, <1>7, RestKeepsInv

LEMMA SetWantKeepsInv == TrunkInv /\ SetWant => TrunkInv'
<1> SUFFICES ASSUME TrunkInv, SetWant
             PROVE  TrunkInv'
  OBVIOUS
<1>1. /\ pc = "idle" /\ want' = ~want /\ answer' = None /\ asked' = <<>>
      /\ UNCHANGED <<pc, caches, saved, argmax, forward, rest, hist, mark>>
  BY DEF SetWant
<1>2. TypeOK /\ cpos \in {-1, dpos} /\ rest = <<>>
  BY <1>1, AtRest
<1>3. want' \in BOOLEAN
  BY <1>1
<1>4. TypeOK'
  BY <1>1, <1>2, <1>3, EmptyTypes DEF TypeOK, caches, forward
<1>5. IdleInv' /\ FreshAnswer' /\ SnapshotInv'
  BY <1>1 DEF TrunkInv, IdleInv, LayerHolds, FreshAnswer, SnapshotInv, caches
<1> QED
  BY <1>1, <1>2, <1>4, <1>5, RestKeepsInv DEF caches

LEMMA StutterKeepsInv == TrunkInv /\ UNCHANGED vars => TrunkInv'
<1> SUFFICES ASSUME TrunkInv, UNCHANGED vars
             PROVE  TrunkInv'
  OBVIOUS
<1>1. UNCHANGED <<pc, rec, conv, kv, dpos, cpos, saved, want, argmax, op, text, pos,
                  il, x, rest, answer, asked, hist, mark>>
  BY DEF vars, caches, forward
<1>2. TypeOK'
  BY <1>1 DEF TrunkInv, TypeOK
<1>3. IdleInv' /\ SnapshotInv' /\ FreshAnswer'
  BY <1>1 DEF TrunkInv, IdleInv, SnapshotInv, FreshAnswer, LayerHolds
<1>4. ForwardInv'
  BY <1>1 DEF TrunkInv, ForwardInv, LayerHolds
<1> QED
  BY <1>1, <1>2, <1>3, <1>4 DEF TrunkInv

-----------------------------------------------------------------------------
(* The theorems                                                            *)

\* TrunkInv is inductive, for every number and kind of layers, every chunk
\* size and every way of splitting the attention.
THEOREM InvHolds == Spec => []TrunkInv
<1>1. Init => TrunkInv
  BY InitInv
<1>2. TrunkInv /\ [Next]_vars => TrunkInv'
  <2> SUFFICES ASSUME TrunkInv, [Next]_vars
               PROVE  TrunkInv'
    OBVIOUS
  <2>1. ASSUME NEW ts \in Inputs, CallPrefill(ts)
        PROVE  TrunkInv'
    BY <2>1, CallPrefillKeepsInv
  <2>2. ASSUME NEW ts \in Inputs, NEW o \in {"tokens", "batch", "all"}, Call(o, ts)
        PROVE  TrunkInv'
    BY <2>2, CallKeepsInv
  <2>3. CASE PrefillChunk
    BY <2>3, PrefillChunkKeepsInv
  <2>4. CASE RecurrentLayer
    BY <2>4, RecurrentKeepsInv
  <2>5. CASE AttentionLayer
    BY <2>5, AttentionKeepsInv
  <2>6. CASE NextToken
    BY <2>6, NextTokenKeepsInv
  <2>7. CASE Finish
    BY <2>7, FinishKeepsInv
  <2>8. CASE RecurrentLayerFails
    BY <2>8, RecurrentFailsKeepsInv
  <2>9. CASE AttentionLayerFails
    BY <2>9, AttentionFailsKeepsInv
  <2>10. CASE FinishFails
    BY <2>10, FinishFailsKeepsInv
  <2>11. CASE Reset
    BY <2>11, ResetKeepsInv
  <2>12. CASE ResetFails
    BY <2>12, ResetFailsKeepsInv
  <2>13. CASE Snapshot
    BY <2>13, SnapshotKeepsInv
  <2>14. CASE SnapshotFails
    BY <2>14, SnapshotFailsKeepsInv
  <2>15. CASE Restore
    BY <2>15, RestoreKeepsInv
  <2>16. CASE RestoreFails
    BY <2>16, RestoreFailsKeepsInv
  <2>17. CASE SetWant
    BY <2>17, SetWantKeepsInv
  <2>18. CASE UNCHANGED vars
    BY <2>18, StutterKeepsInv
  <2> QED
    BY <2>1, <2>2, <2>3, <2>4, <2>5, <2>6, <2>7, <2>8, <2>9, <2>10, <2>11, <2>12,
       <2>13, <2>14, <2>15, <2>16, <2>17, <2>18 DEF Next
<1> QED
  BY <1>1, <1>2, PTL DEF Spec

\* Every variable of the token graph keeps to its type.
THEOREM TypeCorrect == Spec => []TypeOK
<1>1. TrunkInv => TypeOK
  BY DEF TrunkInv
<1> QED
  BY <1>1, InvHolds, PTL

\* Between calls every layer's caches hold the text the caller knows, whatever
\* chunks, rollbacks, resets and failed calls came before.
THEOREM CachesStayInStep == Spec => []InStep
<1>1. TrunkInv => InStep
  BY DEF TrunkInv, IdleInv, InStep
<1> QED
  BY <1>1, InvHolds, PTL

\* Every row a forward returns, from the per-token path, a chunk or a prefill,
\* is the row of its token after all the tokens before it.
THEOREM AnswersAreFresh == Spec => []FreshAnswer
<1>1. TrunkInv => FreshAnswer
  BY DEF TrunkInv
<1> QED
  BY <1>1, InvHolds, PTL

\* No call, not even one that fails, writes a cache row below the text.
THEOREM RowsStay == Spec => RowsBelowKept
<1> DEFINE Kept == hist # Stale =>
             \A l \in Attention : \A p \in 0 .. Len(hist) - 1 : kv'[l][p] = kv[l][p]
<1>1. ASSUME TrunkInv, pc = "layers", il \in Attention, NEW rows,
             Len(rows) \in Nat, kv' = Written(rows)
      PROVE  Kept
  <2>1. /\ kv \in [Attention -> [Position -> Value]] /\ pos \in 0 .. MaxCtx
        /\ hist # Stale /\ Len(hist) <= pos /\ MaxCtx \in Nat
    BY <1>1, TrunkAssumption DEF TrunkInv, TypeOK, ForwardInv
  <2>2. Len(hist) \in 0 .. MaxCtx
    BY <1>1, <2>1, KnownText DEF TrunkInv
  <2>3. ASSUME NEW l \in Attention, NEW p \in 0 .. Len(hist) - 1
        PROVE  kv'[l][p] = kv[l][p]
    <3>1. p \in Position /\ p < pos /\ p \notin pos .. pos + Len(rows) - 1
      BY <2>1, <2>2 DEF Position
    <3> QED
      BY <1>1, <2>1, <3>1 DEF Written
  <2> QED
    BY <2>3
<1>2. TrunkInv /\ [Next]_vars => [Kept]_vars
  <2> SUFFICES ASSUME TrunkInv, Next
               PROVE  Kept
    BY DEF vars, caches
  <2>1. CASE AttentionLayer
    <3>1. Len(Keys) \in Nat
      <4>1. DOMAIN x = 1 .. Len(x) /\ Len(x) \in Nat
        BY <2>1, ForwardRows DEF TrunkInv, AttentionLayer
      <4> QED
        BY <4>1 DEF Keys
    <3> QED
      BY <1>1, <2>1, <3>1 DEF AttentionLayer
  <2>2. CASE AttentionLayerFails
    <3>1. Len([i \in DOMAIN x |-> Stale]) \in Nat
      <4>1. DOMAIN x = 1 .. Len(x) /\ Len(x) \in Nat
        BY <2>2, ForwardRows DEF TrunkInv, AttentionLayerFails
      <4> QED
        BY <4>1
    <3> QED
      BY <1>1, <2>2, <3>1 DEF AttentionLayerFails
  <2>3. CASE UNCHANGED kv
    BY <2>3
  <2>4. AttentionLayer \/ AttentionLayerFails \/ UNCHANGED kv
    BY DEF Next, CallPrefill, Call, PrefillChunk, RecurrentLayer, NextToken, Finish,
           RecurrentLayerFails, FinishFails, Reset, ResetFails, Snapshot,
           SnapshotFails, Restore, RestoreFails, SetWant, caches
  <2> QED
    BY <2>1, <2>2, <2>3, <2>4
<1>3. TrunkInv /\ [Next]_vars => [hist # Stale =>
         \A l \in Attention : \A p \in 0 .. Len(hist) - 1 : kv'[l][p] = kv[l][p]]_vars
  BY <1>2
<1> QED
  BY <1>3, InvHolds, PTL DEF Spec, RowsBelowKept
=============================================================================
