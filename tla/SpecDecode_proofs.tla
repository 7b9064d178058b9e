-------------------------- MODULE SpecDecode_proofs --------------------------
(***************************************************************************)
(* Proofs about SpecDecode, for every vocabulary, model, prompt, context   *)
(* size, draft length and governor setting: DecodeInv is inductive, so     *)
(* the trunk's state is in step with the history at the top of every       *)
(* round, and every streamed token is the trunk's own choice.              *)
(* Speculative decoding implements plain greedy decoding: in the plain,    *)
(* score and serial modes whatever the head drafts, and in the batched     *)
(* mode as long as the head drafts no end-of-generation token.             *)
(* The last two sections prove what the output does not show: the          *)
(* acceptance governor's counters, and the draft head's own KV rows.       *)
(***************************************************************************)
EXTENDS SpecDecodeProps, SequenceFacts, TLAPS

-----------------------------------------------------------------------------
(* Texts                                                                   *)

\* A token sequence that fits the context is a text, and not Stale.
LEMMA ShortIsText ==
  ASSUME NEW s \in Seq(Token), Len(s) <= Ctx
  PROVE  s \in Text /\ s \in View /\ s # Stale
<1>1. s \in [1 .. Len(s) -> Token] /\ Len(s) \in 0 .. Ctx
  BY BoundAssumption
<1>2. s \in Text
  BY <1>1 DEF Text
<1> QED
  BY <1>2, TokenAssumption DEF View

\* A text is a token sequence that fits the context.
LEMMA TextIsShort ==
  ASSUME NEW s \in Text
  PROVE  s \in Seq(Token) /\ Len(s) \in 0 .. Ctx
<1>1. PICK n \in 0 .. Ctx : s \in [1 .. n -> Token]
  BY DEF Text
<1> QED
  BY <1>1, BoundAssumption

-----------------------------------------------------------------------------
(* A forward over tokens that continue the text is exact                   *)

\* The tokens toks at position at are the rest of the text H, and the recurrent
\* state and the KV rows are those of H before them.
Continues(H, toks, at, st) ==
  /\ H \in Seq(Token) /\ toks \in Seq(Token) /\ at \in Nat
  /\ Len(H) = at + Len(toks) /\ Len(H) <= Ctx /\ Len(toks) > 0
  /\ \A j \in 1 .. Len(toks) : toks[j] = H[at + j]
  /\ st = SubSeq(H, 1, at)
  /\ \A p \in 0 .. at - 1 : kv[p] = SubSeq(H, 1, p + 1)

\* Then a pass over them computes every row from H alone.
LEMMA ForwardExact ==
  ASSUME TypeOK, NEW H, NEW toks, NEW at, NEW st, Continues(H, toks, at, st)
  PROVE  /\ \A k \in 1 .. Len(toks) :
              /\ Row(st, toks, at, k) = SubSeq(H, 1, at + k)
              /\ Row(st, toks, at, k) \in View
         /\ Row(st, toks, at, Len(toks)) = H
         /\ Rows(st, toks, at) \in Seq(View)
         /\ Len(Rows(st, toks, at)) = Len(toks)
         /\ \A k \in 1 .. Len(toks) :
              Rows(st, toks, at)[k] = SubSeq(H, 1, at + k)
         /\ TrunkForward(st, toks, at) =>
              /\ rec' = H
              /\ kv' \in [Position -> View]
              /\ \A p \in 0 .. Len(H) - 1 : kv'[p] = SubSeq(H, 1, p + 1)
<1> USE DEF Continues
<1>1. at \in 0 .. Len(H) /\ st \in Seq(Token) /\ Len(st) = at
  BY Prefix
<1>2. st # Stale
  <2>1. Len(st) <= Ctx
    BY <1>1, BoundAssumption
  <2> QED
    BY <1>1, <2>1, ShortIsText
<1>3. \A p \in 0 .. at - 1 : kv[p] = SubSeq(st, 1, p + 1)
  BY <1>1, Prefix
<1>4. Base(st, at) = st
  BY <1>1, <1>2, <1>3 DEF Base
<1>5. ASSUME NEW k \in 1 .. Len(toks)
      PROVE  /\ Row(st, toks, at, k) = SubSeq(H, 1, at + k)
             /\ Row(st, toks, at, k) \in View
  <2>1. Row(st, toks, at, k) = st \o SubSeq(toks, 1, k)
    BY <1>2, <1>4 DEF Row
  <2>2. /\ SubSeq(toks, 1, k) \in Seq(Token) /\ Len(SubSeq(toks, 1, k)) = k
        /\ \A i \in 1 .. k : SubSeq(toks, 1, k)[i] = H[at + i]
    BY Prefix
  <2>3. /\ SubSeq(H, 1, at + k) \in Seq(Token)
        /\ Len(SubSeq(H, 1, at + k)) = at + k
        /\ \A i \in 1 .. at + k : SubSeq(H, 1, at + k)[i] = H[i]
    BY Prefix
  <2>4. \A i \in 1 .. at : st[i] = H[i]
    BY <1>1, Prefix
  <2>5. st \o SubSeq(toks, 1, k) = SubSeq(H, 1, at + k)
    BY <1>1, <2>2, <2>3, <2>4, ConcatIs
  <2>6. SubSeq(H, 1, at + k) \in View
    <3>1. Len(SubSeq(H, 1, at + k)) <= Ctx
      BY <2>3, BoundAssumption
    <3> QED
      BY <2>3, <3>1, ShortIsText
  <2> QED
    BY <2>1, <2>5, <2>6
<1>6. /\ Row(st, toks, at, Len(toks)) = H
      /\ Rows(st, toks, at) \in Seq(View)
      /\ Len(Rows(st, toks, at)) = Len(toks)
      /\ \A k \in 1 .. Len(toks) :
           Rows(st, toks, at)[k] = SubSeq(H, 1, at + k)
  <2>1. Row(st, toks, at, Len(toks)) = H
    BY <1>5
  <2>2. Rows(st, toks, at) \in [1 .. Len(toks) -> View]
    BY <1>5 DEF Rows
  <2>3. \A k \in 1 .. Len(toks) :
          Rows(st, toks, at)[k] = SubSeq(H, 1, at + k)
    BY <1>5 DEF Rows
  <2>4. Len(toks) \in Nat
    OBVIOUS
  <2>5. Rows(st, toks, at) \in Seq(View) /\ Len(Rows(st, toks, at)) = Len(toks)
    BY <2>2, <2>4, FunctionIsSeq
  <2> QED
    BY <2>1, <2>3, <2>5
<1>7. ASSUME TrunkForward(st, toks, at)
      PROVE  /\ rec' = H
             /\ kv' \in [Position -> View]
             /\ \A p \in 0 .. Len(H) - 1 : kv'[p] = SubSeq(H, 1, p + 1)
  <2>1. rec' = H
    BY <1>6, <1>7 DEF TrunkForward
  <2>2. kv' = [p \in Position |->
                IF p \in at .. at + Len(toks) - 1
                THEN Row(st, toks, at, p - at + 1) ELSE kv[p]]
    BY <1>7 DEF TrunkForward
  <2>3. ASSUME NEW p \in Position, p \in at .. at + Len(toks) - 1
        PROVE  kv'[p] = SubSeq(H, 1, p + 1) /\ kv'[p] \in View
    <3>1. p - at + 1 \in 1 .. Len(toks) /\ at + (p - at + 1) = p + 1
      BY <2>3 DEF Position
    <3>2. kv'[p] = Row(st, toks, at, p - at + 1)
      BY <2>2, <2>3
    <3> QED
      BY <1>5, <3>1, <3>2
  <2>4. ASSUME NEW p \in Position, p \notin at .. at + Len(toks) - 1
        PROVE  kv'[p] = kv[p] /\ kv'[p] \in View
    BY <2>2, <2>4 DEF TypeOK
  <2>5. kv' \in [Position -> View]
    BY <2>2, <2>3, <2>4
  <2>6. ASSUME NEW p \in 0 .. Len(H) - 1
        PROVE  kv'[p] = SubSeq(H, 1, p + 1)
    <3>1. p \in Position
      BY BoundAssumption DEF Position
    <3> QED
      BY <2>3, <2>4, <3>1
  <2> QED
    BY <2>1, <2>5, <2>6
<1> QED
  BY <1>5, <1>6, <1>7

-----------------------------------------------------------------------------
(* Bounds on the run                                                       *)

\* The clipped budget fits the context behind the prompt.
LEMMA LimitFits ==
  ASSUME TypeOK
  PROVE  /\ par.prompt \in Seq(Token) /\ PromptLen \in Nat
         /\ 0 < PromptLen /\ PromptLen < Ctx
         /\ Limit \in Nat /\ PromptLen + Limit <= Ctx
         /\ Ctx \in Nat
<1>1. par.prompt \in Text /\ Len(par.prompt) > 0 /\ Len(par.prompt) < Ctx
  BY BoundAssumption DEF TypeOK
<1>2. par.prompt \in Seq(Token) /\ Len(par.prompt) \in 0 .. Ctx
  BY <1>1, TextIsShort
<1>3. par.nPredict \in Nat
  BY BoundAssumption DEF TypeOK
<1> QED
  BY <1>1, <1>2, <1>3, BoundAssumption DEF PromptLen, Limit, Clip

\* A choice of the trunk is a token, and it is the greedy one for a text.
LEMMA SampledToken ==
  ASSUME TypeOK, NEW s \in Seq(Token), Len(s) <= Ctx
  PROVE  Sampled(s) = {Greedy(par.model, s)} /\ Greedy(par.model, s) \in Token
BY ShortIsText, TokenAssumption DEF Sampled, TypeOK

\* The invariant holds before the prefill.
LEMMA InitInv == Init => DecodeInv
<1> SUFFICES ASSUME Init PROVE DecodeInv
  OBVIOUS
<1>1. par.prompt \in Text /\ Len(par.prompt) > 0 /\ Len(par.prompt) < Ctx
  BY BoundAssumption DEF Init
<1>2. par.prompt \in Seq(Token) /\ Len(par.prompt) \in 0 .. Ctx
  BY <1>1, TextIsShort
<1>3. par.nPredict \in Nat /\ par.mode \in Mode
  BY BoundAssumption DEF Init
<1>4. <<>> \in View /\ Stale \in View
  <2>1. <<>> \in Seq(Token) /\ Len(<<>>) <= Ctx
    BY BoundAssumption
  <2> QED
    BY <2>1, ShortIsText DEF View
<1>5. par.prompt[1] \in Token
  BY <1>1, <1>2
<1>6. TypeOK
  <2>1. /\ kv \in [Position -> View]
        /\ hkv \in [Position -> [tok : Token, h : View]]
    BY <1>4, <1>5 DEF Init
  <2>2. gov \in [rounds : Nat, acc : Nat, drafted : Nat, cool : Nat]
    BY DEF Init, NoGov
  <2>3. par \in [model : Model, prompt : Prompt, mode : Mode, draft : DraftLen,
                  nPredict : NPredict, gov : BOOLEAN, chunked : BOOLEAN]
    BY DEF Init
  <2>4. npos \in 0 .. Ctx /\ deff \in Nat /\ idx \in Nat
    BY BoundAssumption DEF Init
  <2>5. /\ history \in Seq(Token) /\ gen \in Seq(Token)
        /\ draft \in Seq(Token) /\ round \in Seq(Token)
        /\ hrows \in Seq(View) /\ lrows \in Seq(View)
    BY <1>2 DEF Init
  <2>6. rec \in View /\ snap \in View /\ logits \in View /\ hprev \in View
    BY <1>4 DEF Init
  <2>7. /\ pc \in Phase /\ hitEos \in BOOLEAN
        /\ rejected \in BOOLEAN /\ eogNext \in BOOLEAN
    BY DEF Init, Phase
  <2> QED
    BY <2>1, <2>2, <2>3, <2>4, <2>5, <2>6, <2>7 DEF TypeOK
<1>7. SubSeq(par.prompt, 1, Len(par.prompt)) = par.prompt
      /\ SubSeq(par.prompt, 1, 0) = <<>>
  BY <1>2
<1>8. HistoryIsGreedy
  BY <1>1, <1>2, <1>3, <1>7, LimitFits, <1>6
     DEF Init, HistoryIsGreedy, PromptLen, Upto
<1>9. InPrefill /\ InDecide /\ InPlan /\ InJudge /\ InCommit /\ InRebuild
  BY <1>1, <1>2, <1>7 DEF Init, InPrefill, InDecide, InPlan, InJudge, InCommit, InRebuild,
     Upto, PromptLen, Canonical
<1> QED
  BY <1>6, <1>8, <1>9 DEF DecodeInv

-----------------------------------------------------------------------------
(* Every step preserves DecodeInv                                          *)

\* A run that stops leaves what it decided.
LEMMA StopKeepsInv ==
  ASSUME DecodeInv, BudgetUsed \/ ContextFull \/ SerialEog \/ Fail \/ Terminated
  PROVE  DecodeInv'
<1> USE DEF DecodeInv
<1>1. pc' \in {"done", "failed"}
  BY DEF BudgetUsed, ContextFull, SerialEog, Fail, Terminated, vars
<1>2. TypeOK'
  BY <1>1 DEF TypeOK, BudgetUsed, ContextFull, SerialEog, Fail, Terminated, vars,
     device, roundVars, Phase
<1>3. HistoryIsGreedy'
  BY DEF HistoryIsGreedy, PromptLen, Upto, Limit, BudgetUsed, ContextFull,
     SerialEog, Fail, Terminated, vars
<1>4. (InPrefill /\ InDecide /\ InPlan /\ InJudge /\ InCommit /\ InRebuild)'
  BY <1>1 DEF InPrefill, InDecide, InPlan, InJudge, InCommit, InRebuild
<1> QED
  BY <1>2, <1>3, <1>4

\* A chunk of the prefill forwards the next tokens of the prompt.
LEMMA ChunkExact ==
  ASSUME DecodeInv, PrefillChunk
  PROVE  LET chunk == SubSeq(par.prompt, npos + 1, npos + Take)
             H     == SubSeq(par.prompt, 1, npos + Take)
             rows  == Rows(rec, chunk, npos)
         IN  /\ npos \in Nat /\ npos < PromptLen
             /\ history = par.prompt /\ gen = <<>>
             /\ Take \in Nat /\ 1 <= Take /\ npos + Take <= PromptLen
             /\ chunk \in Seq(Token) /\ Len(chunk) = Take
             /\ \A j \in 1 .. Take : chunk[j] = par.prompt[npos + j]
             /\ H \in Seq(Token) /\ Len(H) = npos + Take
             /\ \A m \in 0 .. npos + Take : SubSeq(H, 1, m) = SubSeq(par.prompt, 1, m)
             /\ rows \in Seq(View) /\ Len(rows) = Take
             /\ \A k \in 1 .. Take : rows[k] \in View /\ rows[k] = SubSeq(par.prompt, 1, npos + k)
             /\ Last(rows) = H
             /\ rec' = H /\ kv' \in [Position -> View]
             /\ \A p \in 0 .. npos + Take - 1 : kv'[p] = SubSeq(H, 1, p + 1)
<1> DEFINE chunk == SubSeq(par.prompt, npos + 1, npos + Take)
           H     == SubSeq(par.prompt, 1, npos + Take)
           rows  == Rows(rec, chunk, npos)
<1> USE DEF DecodeInv
<1>1. /\ npos \in Nat /\ npos < PromptLen
      /\ history = par.prompt /\ gen = <<>>
      /\ rec = SubSeq(par.prompt, 1, npos)
      /\ \A p \in 0 .. npos - 1 : kv[p] = SubSeq(par.prompt, 1, p + 1)
  <2>1. npos \in Nat
    BY BoundAssumption DEF TypeOK
  <2>2. pc = "prefill" /\ npos < PromptLen
    BY DEF PrefillChunk, PromptLen
  <2> QED
    BY <2>1, <2>2 DEF InPrefill, Canonical, Upto
<1>2. Take \in Nat /\ 1 <= Take /\ npos + Take <= PromptLen
  <2>1. PromptLen - npos \in Nat /\ PromptLen - npos >= 1
    BY <1>1, LimitFits
  <2>2. CASE par.chunked
    <3> DEFINE Fits == {s \in PrefillSizes : s <= PromptLen - npos}
    <3>1. \E s \in PrefillSizes : /\ s <= PromptLen - npos
                                  /\ \A r \in PrefillSizes : r <= PromptLen - npos => r <= s
      BY <2>1 DEF PrefillSizes
    <3>2. Take \in PrefillSizes /\ Take <= PromptLen - npos
      BY <2>2, <3>1 DEF Take, PromptLen
    <3> QED
      BY <2>1, <3>2, <1>1, LimitFits DEF PrefillSizes
  <2>3. CASE ~par.chunked
    BY <2>1, <2>3, <1>1, LimitFits DEF Take
  <2> QED
    BY <2>2, <2>3
<1>3. /\ chunk \in Seq(Token) /\ Len(chunk) = Take
      /\ \A j \in 1 .. Take : chunk[j] = par.prompt[npos + j]
  BY <1>1, <1>2, LimitFits DEF PromptLen
<1>4. /\ H \in Seq(Token) /\ Len(H) = npos + Take
      /\ \A i \in 1 .. npos + Take : H[i] = par.prompt[i]
      /\ \A m \in 0 .. npos + Take : SubSeq(H, 1, m) = SubSeq(par.prompt, 1, m)
  BY <1>1, <1>2, LimitFits, Prefix DEF PromptLen
<1>5. /\ rows \in Seq(View) /\ Len(rows) = Take
      /\ \A k \in 1 .. Take : rows[k] \in View /\ rows[k] = SubSeq(H, 1, npos + k)
      /\ rows[Take] = H
      /\ rec' = H /\ kv' \in [Position -> View]
      /\ \A p \in 0 .. npos + Take - 1 : kv'[p] = SubSeq(H, 1, p + 1)
  <2>1. TrunkForward(rec, chunk, npos)
    BY DEF PrefillChunk
  <2> HIDE DEF chunk, H
  <2>2. Len(H) <= Ctx
    <3>1. PromptLen \in Nat /\ Ctx \in Nat /\ PromptLen < Ctx
      BY LimitFits
    <3>2. Len(H) = npos + Take /\ npos + Take <= PromptLen
          /\ npos \in Nat /\ Take \in Nat
      BY <1>1, <1>2, <1>4
    <3> HIDE DEF Take
    <3> QED
      BY <3>1, <3>2
  <2>3. \A j \in 1 .. Len(chunk) : chunk[j] = H[npos + j]
    <3> SUFFICES ASSUME NEW j \in 1 .. Take PROVE chunk[j] = H[npos + j]
      BY <1>3
    <3>1. npos + j \in 1 .. npos + Take
      BY <1>1, <1>2
    <3> QED
      BY <3>1, <1>3, <1>4
  <2>4. rec = SubSeq(H, 1, npos)
    BY <1>1, <1>2, <1>4
  <2>5. \A p \in 0 .. npos - 1 : kv[p] = SubSeq(H, 1, p + 1)
    BY <1>1, <1>2, <1>4, SMTT(30)
  <2>6. npos \in Nat /\ Len(H) = npos + Len(chunk) /\ Len(chunk) > 0
    BY <1>1, <1>2, <1>3, <1>4
  <2>7. /\ rows \in Seq(View) /\ Len(rows) = Len(chunk)
        /\ \A k \in 1 .. Len(chunk) : rows[k] = SubSeq(H, 1, npos + k)
        /\ rec' = H /\ kv' \in [Position -> View]
        /\ \A p \in 0 .. Len(H) - 1 : kv'[p] = SubSeq(H, 1, p + 1)
    <3>1. Continues(H, chunk, npos, rec)
      BY <1>3, <1>4, <2>2, <2>3, <2>4, <2>5, <2>6 DEF Continues
    <3> QED
      BY <2>1, <3>1, ForwardExact
  <2>8. \A k \in 1 .. Take : rows[k] \in View
    BY <1>3, <2>7
  <2>9. rows[Take] = H
    <3>1. Take \in 1 .. Len(chunk) /\ npos + Take = Len(H)
      BY <1>2, <1>3, <1>4
    <3>2. rows[Take] = SubSeq(H, 1, Len(H))
      BY <2>7, <3>1
    <3> QED
      BY <1>4, <3>2
  <2> HIDE DEF rows
  <2> QED
    BY <1>1, <1>2, <1>3, <1>4, <2>7, <2>8, <2>9
<1>6. \A k \in 1 .. Take : rows[k] = SubSeq(par.prompt, 1, npos + k)
  <2> HIDE DEF rows, H
  <2> SUFFICES ASSUME NEW k \in 1 .. Take PROVE rows[k] = SubSeq(par.prompt, 1, npos + k)
    OBVIOUS
  <2>1. npos + k \in 0 .. npos + Take
    BY <1>1, <1>2
  <2> QED
    BY <1>4, <1>5, <2>1
<1>7. Last(rows) = H
  <2> HIDE DEF rows, H
  <2> QED
    BY <1>5 DEF Last
<1> HIDE DEF rows, H, chunk
<1> QED
  BY <1>1, <1>2, <1>3, <1>4, <1>5, <1>6, <1>7 DEF rows, H, chunk

\* Prefill: each chunk continues the prompt.
LEMMA PrefillKeepsInv ==
  ASSUME DecodeInv, PrefillChunk
  PROVE  DecodeInv'
<1> DEFINE chunk == SubSeq(par.prompt, npos + 1, npos + Take)
           H     == SubSeq(par.prompt, 1, npos + Take)
           rows  == Rows(rec, chunk, npos)
<1> USE DEF DecodeInv
<1>1. /\ npos \in Nat /\ npos < PromptLen
      /\ history = par.prompt /\ gen = <<>>
  BY ChunkExact
<1>2. Take \in Nat /\ 1 <= Take /\ npos + Take <= PromptLen
  BY ChunkExact
<1>3. chunk \in Seq(Token) /\ Len(chunk) = Take
  BY ChunkExact
<1>4. /\ H \in Seq(Token) /\ Len(H) = npos + Take
      /\ \A m \in 0 .. npos + Take : SubSeq(H, 1, m) = SubSeq(par.prompt, 1, m)
  BY ChunkExact
<1>5. /\ rec' = H /\ kv' \in [Position -> View]
      /\ \A p \in 0 .. npos + Take - 1 : kv'[p] = SubSeq(H, 1, p + 1)
  BY ChunkExact
<1>6. H \in View
  <2> HIDE DEF H
  <2> QED
    BY <1>2, <1>4, ShortIsText, LimitFits
<1>7. Last(rows) = H /\ rows \in Seq(View) /\ Len(rows) = Take
      /\ \A k \in 1 .. Take : rows[k] \in View
  BY ChunkExact
<1>8. hprev' = H /\ logits' = H
  BY <1>7 DEF PrefillChunk
<1>9. hkv' \in [Position -> [tok : Token, h : View]]
  <2>1. CASE par.mode = "plain"
    BY <2>1 DEF PrefillChunk, TypeOK
  <2>2. CASE par.mode # "plain"
    <3>1. hkv' = [p \in Position |->
                    IF p \in npos .. npos + Take - 1
                    THEN [tok |-> chunk[p - npos + 1],
                          h |-> IF p - npos + 1 = 1 THEN hprev
                                ELSE rows[p - npos]]
                    ELSE hkv[p]]
      BY <2>2, <1>1, <1>2 DEF PrefillChunk
    <3>2. ASSUME NEW p \in npos .. npos + Take - 1
          PROVE  /\ chunk[p - npos + 1] \in Token
                 /\ p - npos + 1 # 1 => rows[p - npos] \in View
      <4> HIDE DEF chunk, rows
      <4>1. p - npos + 1 \in 1 .. Take
        BY <1>1, <1>2
      <4>2. p - npos + 1 # 1 => p - npos \in 1 .. Take
        BY <1>1, <1>2
      <4> QED
        BY <1>3, <1>7, <4>1, <4>2
    <3> HIDE DEF chunk, rows
    <3> QED
      BY <3>1, <3>2 DEF TypeOK
  <2> QED
    BY <2>1, <2>2
<1>10. npos' = npos + Take /\ npos' \in 0 .. Ctx
  BY <1>1, <1>2, LimitFits DEF PrefillChunk
<1> HIDE DEF chunk, H, rows
<1>11. TypeOK'
  BY <1>5, <1>6, <1>8, <1>9, <1>10 DEF TypeOK, PrefillChunk, roundVars, Phase
<1>12. HistoryIsGreedy'
  BY DEF PrefillChunk, HistoryIsGreedy, Upto, PromptLen, Limit
<1>13. CASE npos' = PromptLen
  <2>1. H = par.prompt
    BY <1>10, <1>13, LimitFits DEF H, PromptLen
  <2>2. pc' = "decide"
    BY <1>13 DEF PrefillChunk, PromptLen
  <2>3. history' = par.prompt /\ gen' = <<>> /\ par' = par
    BY <1>1 DEF PrefillChunk
  <2>4. \A p \in 0 .. npos' - 1 : kv'[p] = SubSeq(par.prompt, 1, p + 1)
    <3>1. npos' \in Nat /\ npos' = npos + Take
      BY <1>1, <1>2, <1>10
    <3> SUFFICES ASSUME NEW p \in 0 .. npos' - 1
                 PROVE  kv'[p] = SubSeq(par.prompt, 1, p + 1)
      OBVIOUS
    <3>2. p \in 0 .. npos + Take - 1
      BY <1>1, <1>2, <3>1
    <3> QED
      BY <1>5, <2>1, <3>2
  <2>5. rec' = par.prompt /\ logits' = par.prompt /\ hprev' = par.prompt
    BY <1>5, <1>8, <2>1
  <2>6. InDecide'
    BY <1>13, <2>3, <2>4, <2>5, LimitFits
       DEF InDecide, PromptLen, Canonical, Upto
  <2>7. (InPrefill /\ InPlan /\ InJudge /\ InCommit /\ InRebuild)'
    BY <2>2 DEF InPrefill, InPlan, InJudge, InCommit, InRebuild
  <2> QED
    BY <1>11, <1>12, <2>6, <2>7
<1>14. CASE npos' # PromptLen
  <2>1. pc' = "prefill"
    BY <1>14 DEF PrefillChunk, PromptLen
  <2>2. /\ npos' <= PromptLen /\ history' = par.prompt /\ gen' = <<>>
        /\ par' = par
    BY <1>1, <1>2, <1>10 DEF PrefillChunk
  <2>3. rec' = SubSeq(par.prompt, 1, npos')
    BY <1>5, <1>10 DEF H
  <2>4. \A p \in 0 .. npos' - 1 : kv'[p] = SubSeq(par.prompt, 1, p + 1)
    <3> SUFFICES ASSUME NEW p \in 0 .. npos' - 1
                 PROVE  kv'[p] = SubSeq(par.prompt, 1, p + 1)
      OBVIOUS
    <3>1. p \in 0 .. npos + Take - 1 /\ p + 1 \in 0 .. npos + Take
      BY <1>1, <1>2, <1>10
    <3> QED
      BY <1>4, <1>5, <3>1
  <2>5. InPrefill'
    BY <2>2, <2>3, <2>4 DEF InPrefill, PromptLen, Canonical, Upto
  <2>6. (InDecide /\ InPlan /\ InJudge /\ InCommit /\ InRebuild)'
    BY <2>1 DEF InDecide, InPlan, InJudge, InCommit, InRebuild
  <2> QED
    BY <1>11, <1>12, <2>5, <2>6
<1> QED
  BY <1>13, <1>14

\* A prefix of a sequence is a prefix of the sequence with one more element.
LEMMA AppendPrefix ==
  ASSUME NEW S, NEW s \in Seq(S), NEW t \in S
  PROVE  /\ Append(s, t) \in Seq(S) /\ Len(Append(s, t)) = Len(s) + 1
         /\ Append(s, t)[Len(s) + 1] = t
         /\ \A i \in 1 .. Len(s) : Append(s, t)[i] = s[i]
         /\ \A n \in 0 .. Len(s) : SubSeq(Append(s, t), 1, n) = SubSeq(s, 1, n)
         /\ SubSeq(s, 1, Len(s)) = s
OBVIOUS

\* The history may grow by what the trunk chooses after it, and the stream by
\* what the history already holds.
LEMMA HistoryGrows ==
  ASSUME TypeOK, HistoryIsGreedy, Len(history) < Ctx, par' = par,
         NEW t, t = Greedy(par.model, history), history' = Append(history, t),
         \/ gen' = gen
         \/ /\ gen' = Append(gen, t) /\ Len(gen) < Limit
            /\ Len(history) = PromptLen + Len(gen)
  PROVE  HistoryIsGreedy'
<1>1. history \in Seq(Token) /\ t \in Token
  <2>1. history \in Seq(Token) /\ Len(history) <= Ctx
    BY BoundAssumption DEF TypeOK
  <2> QED
    BY <2>1, SampledToken
<1>2. /\ history' \in Seq(Token) /\ Len(history') = Len(history) + 1
      /\ history'[Len(history) + 1] = t
      /\ \A i \in 1 .. Len(history) : history'[i] = history[i]
      /\ \A n \in 0 .. Len(history) :
           SubSeq(history', 1, n) = SubSeq(history, 1, n)
      /\ SubSeq(history, 1, Len(history)) = history
  BY <1>1, AppendPrefix
<1>3. PromptLen \in Nat /\ PromptLen <= Len(history) /\ PromptLen' = PromptLen
      /\ Limit' = Limit
  BY LimitFits DEF HistoryIsGreedy, PromptLen, Limit, Clip
<1> DEFINE pl == PromptLen
<1>8. /\ \A i \in pl + 1 .. Len(history) :
           history[i] = Greedy(par.model, SubSeq(history, 1, i - 1))
      /\ SubSeq(history, 1, pl) = par.prompt
      /\ pl \in Nat /\ pl <= Len(history) /\ Len(history) \in Nat
  BY <1>1, <1>3 DEF HistoryIsGreedy, Upto
<1> HIDE DEF pl
<1>4. \A i \in pl + 1 .. Len(history') :
        history'[i] = Greedy(par.model, SubSeq(history', 1, i - 1))
  <2> SUFFICES ASSUME NEW i \in pl + 1 .. Len(history')
               PROVE  history'[i] = Greedy(par.model, SubSeq(history', 1, i - 1))
    OBVIOUS
  <2>1. CASE i = Len(history) + 1
    <3>1. i - 1 = Len(history)
      BY <2>1, <1>1
    <3>2. SubSeq(history', 1, Len(history)) = history
      BY <1>1, <1>2
    <3>3. history'[i] = t
      BY <2>1, <1>2
    <3> QED
      BY <3>1, <3>2, <3>3
  <2>2. CASE i # Len(history) + 1
    <3>1. i \in pl + 1 .. Len(history) /\ i \in 1 .. Len(history)
          /\ i - 1 \in 0 .. Len(history)
      BY <2>2, <1>1, <1>2, <1>8
    <3>2. history'[i] = history[i]
      BY <3>1, <1>2
    <3>3. SubSeq(history', 1, i - 1) = SubSeq(history, 1, i - 1)
      BY <3>1, <1>2
    <3>4. history[i] = Greedy(par.model, SubSeq(history, 1, i - 1))
      BY <3>1, <1>8
    <3> QED
      BY <3>2, <3>3, <3>4
  <2> QED
    BY <2>1, <2>2
<1>5. SubSeq(history', 1, pl) = par.prompt
  <2>1. pl \in 0 .. Len(history)
    BY <1>8
  <2> QED
    BY <2>1, <1>2, <1>8
<1>6. /\ \A i \in 1 .. Len(gen') : gen'[i] = history'[PromptLen + i]
      /\ PromptLen + Len(gen') <= Len(history') /\ Len(gen') <= Limit
  <2>1. /\ gen \in Seq(Token) /\ Len(gen) <= Limit /\ Limit \in Nat
        /\ PromptLen + Len(gen) <= Len(history)
        /\ \A i \in 1 .. Len(gen) : gen[i] = history[PromptLen + i]
    BY LimitFits DEF HistoryIsGreedy, TypeOK
  <2>2. ASSUME NEW i \in 1 .. Len(gen)
        PROVE  gen[i] = history'[PromptLen + i]
    <3>1. PromptLen + i \in 1 .. Len(history)
      BY <1>1, <1>3, <2>1
    <3> QED
      BY <3>1, <1>2, <2>1
  <2>3. CASE gen' = gen
    BY <2>1, <2>2, <2>3, <1>1, <1>2, <1>3
  <2>4. CASE /\ gen' = Append(gen, t) /\ Len(gen) < Limit
             /\ Len(history) = PromptLen + Len(gen)
    <3>1. Len(gen') = Len(gen) + 1 /\ gen'[Len(gen) + 1] = t
          /\ \A i \in 1 .. Len(gen) : gen'[i] = gen[i]
      BY <2>1, <2>4, <1>1, AppendPrefix
    <3>2. ASSUME NEW i \in 1 .. Len(gen')
          PROVE  gen'[i] = history'[PromptLen + i]
      <4>1. CASE i = Len(gen) + 1
        <5>1. PromptLen + i = Len(history) + 1
          BY <4>1, <2>4, <2>1, <1>1, <1>3
        <5> QED
          BY <4>1, <5>1, <1>2, <3>1
      <4>2. CASE i # Len(gen) + 1
        <5>1. i \in 1 .. Len(gen)
          BY <4>2, <2>1, <3>1
        <5> QED
          BY <5>1, <2>2, <3>1
      <4> QED
        BY <4>1, <4>2
    <3> QED
      BY <3>1, <3>2, <2>1, <2>4, <1>1, <1>2, <1>3
  <2> QED
    BY <2>3, <2>4
<1>7. pl <= Len(history') /\ Len(history') <= Ctx
  BY <1>2, <1>8, BoundAssumption
<1> QED
  BY <1>3, <1>4, <1>5, <1>6, <1>7 DEF HistoryIsGreedy, Upto, pl

\* Streaming a decided token keeps the stream a beginning of the history.
LEMMA StreamGrows ==
  ASSUME TypeOK, HistoryIsGreedy, par' = par, history' = history,
         Len(gen) < Limit, PromptLen + Len(gen) < Len(history),
         gen' = Append(gen, history[PromptLen + Len(gen) + 1])
  PROVE  HistoryIsGreedy' /\ gen' \in Seq(Token) /\ Len(gen') = Len(gen) + 1
<1>1. /\ gen \in Seq(Token) /\ history \in Seq(Token)
      /\ PromptLen \in Nat /\ Limit \in Nat
      /\ PromptLen' = PromptLen /\ Limit' = Limit
  BY LimitFits DEF TypeOK, PromptLen, Limit, Clip
<1>2. history[PromptLen + Len(gen) + 1] \in Token
  BY <1>1
<1>3. /\ gen' \in Seq(Token) /\ Len(gen') = Len(gen) + 1
      /\ gen'[Len(gen) + 1] = history[PromptLen + Len(gen) + 1]
      /\ \A i \in 1 .. Len(gen) : gen'[i] = gen[i]
  BY <1>1, <1>2
<1>4. \A i \in 1 .. Len(gen') : gen'[i] = history[PromptLen + i]
  <2> SUFFICES ASSUME NEW i \in 1 .. Len(gen')
               PROVE  gen'[i] = history[PromptLen + i]
    OBVIOUS
  <2>1. CASE i = Len(gen) + 1
    BY <2>1, <1>1, <1>3
  <2>2. CASE i # Len(gen) + 1
    <3>1. i \in 1 .. Len(gen)
      BY <2>2, <1>1, <1>3
    <3> QED
      BY <3>1, <1>3 DEF HistoryIsGreedy
  <2> QED
    BY <2>1, <2>2
<1>5. PromptLen + Len(gen') <= Len(history) /\ Len(gen') <= Limit
  BY <1>1, <1>3
<1> QED
  BY <1>1, <1>3, <1>4, <1>5 DEF HistoryIsGreedy, Upto

\* One token that continues the text leaves the trunk in step with it.
LEMMA TrunkStepExact ==
  ASSUME TypeOK,
         NEW H \in Seq(Token), NEW at \in Nat, Len(H) = at + 1, Len(H) <= Ctx,
         rec = SubSeq(H, 1, at),
         \A p \in 0 .. at - 1 : kv[p] = SubSeq(H, 1, p + 1),
         NEW t, t = H[at + 1],
         TrunkStep(t, at)
  PROVE  /\ rec' = H /\ logits' = H /\ H \in View
         /\ kv' \in [Position -> View]
         /\ \A p \in 0 .. at : kv'[p] = SubSeq(H, 1, p + 1)
<1> DEFINE toks == <<t>>
<1>1. toks \in Seq(Token) /\ Len(toks) = 1 /\ toks[1] = H[at + 1]
  BY DEF toks
<1>2. \A j \in 1 .. Len(toks) : toks[j] = H[at + j]
  BY <1>1
<1>3. TrunkForward(rec, toks, at) /\ logits' = rec'
  BY DEF TrunkStep
<1> HIDE DEF toks
<1>4. /\ rec' = H /\ kv' \in [Position -> View]
      /\ \A p \in 0 .. Len(H) - 1 : kv'[p] = SubSeq(H, 1, p + 1)
  <2>1. Continues(H, toks, at, rec)
    BY <1>1, <1>2 DEF Continues
  <2> QED
    BY <1>3, <2>1, ForwardExact
<1> QED
  BY <1>3, <1>4, ShortIsText

\* The trunk decides the next token from the logits after the history.
LEMMA DecideKeepsInv ==
  ASSUME DecodeInv, Decide
  PROVE  DecodeInv'
<1> USE DEF DecodeInv
<1>1. /\ pc = "decide" /\ Len(gen) < Limit
      /\ npos = Len(history) /\ npos = PromptLen + Len(gen)
      /\ rec = history /\ logits = history /\ hprev = history
      /\ \A p \in 0 .. npos - 1 : kv[p] = SubSeq(history, 1, p + 1)
  BY DEF Decide, InDecide, Canonical, Upto
<1>2. /\ history \in Seq(Token) /\ gen \in Seq(Token) /\ Len(history) < Ctx
      /\ Len(history) \in Nat
  <2> HIDE DEF DecodeInv
  <2>1. TypeOK
    BY DEF DecodeInv
  <2>2. history \in Seq(Token) /\ gen \in Seq(Token)
    BY <2>1 DEF TypeOK
  <2>3. PromptLen \in Nat /\ Limit \in Nat /\ PromptLen + Limit <= Ctx /\ Ctx \in Nat
    BY <2>1, LimitFits
  <2>4. Len(history) \in Nat /\ Len(gen) \in Nat
    BY <2>2
  <2> QED
    BY <1>1, <2>2, <2>3, <2>4
<1>3. UNCHANGED <<par, npos, logits, hprev, gov, device, roundVars>>
  BY DEF Decide
<1>5. PICK t \in Sampled(logits) :
        IF t \in Eog
        THEN hitEos' = TRUE /\ pc' = "done" /\ UNCHANGED <<gen, history>>
        ELSE /\ gen' = Append(gen, t) /\ history' = Append(history, t)
             /\ pc' = "plan" /\ UNCHANGED hitEos
  BY DEF Decide
<1>6. t = Greedy(par.model, history) /\ t \in Token
  <2>1. Len(history) <= Ctx
    BY <1>2, BoundAssumption
  <2>2. t \in Sampled(history)
    BY <1>1, <1>5
  <2> QED
    BY <1>2, <2>1, <2>2, SampledToken
<1>7. CASE t \in Eog
  <2>1. TypeOK'
    BY <1>3, <1>5, <1>7 DEF TypeOK, Phase, device, roundVars
  <2>2. HistoryIsGreedy'
    BY <1>3, <1>5, <1>7 DEF HistoryIsGreedy, Upto, PromptLen, Limit
  <2>3. (InPrefill /\ InDecide /\ InPlan /\ InJudge /\ InCommit /\ InRebuild)'
    BY <1>5, <1>7 DEF InPrefill, InDecide, InPlan, InJudge, InCommit, InRebuild
  <2> QED
    BY <2>1, <2>2, <2>3
<1>8. CASE t \notin Eog
  <2>0. history' = Append(history, t) /\ gen' = Append(gen, t)
    BY <1>5, <1>8
  <2>1. /\ history' \in Seq(Token) /\ Len(history') = Len(history) + 1
        /\ history'[Len(history) + 1] = t
        /\ \A i \in 1 .. Len(history) : history'[i] = history[i]
        /\ \A n \in 0 .. Len(history) :
             SubSeq(history', 1, n) = SubSeq(history, 1, n)
        /\ SubSeq(history, 1, Len(history)) = history
    BY <1>2, <1>6, <2>0, AppendPrefix
  <2>2. gen' \in Seq(Token) /\ Len(gen') = Len(gen) + 1
        /\ gen'[Len(gen) + 1] = t
        /\ \A i \in 1 .. Len(gen) : gen'[i] = gen[i]
    BY <1>2, <1>6, <2>0, AppendPrefix
  <2>3. TypeOK'
    BY <1>3, <1>5, <1>8, <2>1, <2>2
       DEF TypeOK, Phase, device, roundVars
  <2>4. HistoryIsGreedy'
    <3>1. par' = par /\ gen' = Append(gen, t) /\ history' = Append(history, t)
          /\ Len(history) = PromptLen + Len(gen)
      BY <1>1, <1>3, <1>5, <1>8
    <3> QED
      BY <1>1, <1>2, <1>6, <3>1, HistoryGrows
  <2>5. InPlan'
    <3>1. pc' = "plan" /\ npos' = npos /\ rec' = rec /\ kv' = kv
          /\ PromptLen' = PromptLen
      BY <1>3, <1>5, <1>8 DEF device, PromptLen
    <3>2. npos + 1 = Len(history') /\ npos + 1 = PromptLen + Len(gen')
      <4>1. npos \in Nat /\ npos = Len(history)
        BY <1>1, <1>2
      <4>2. Len(gen) \in Nat
        BY <1>2
      <4>3. PromptLen \in Nat
        BY LimitFits
      <4> QED
        BY <4>1, <4>2, <4>3, <1>1, <2>1, <2>2
    <3>3. rec = SubSeq(history', 1, npos)
      BY <1>1, <1>2, <2>1
    <3>4. \A p \in 0 .. npos - 1 : kv[p] = SubSeq(history', 1, p + 1)
      BY <1>1, <1>2, <2>1
    <3> QED
      BY <3>1, <3>2, <3>3, <3>4 DEF InPlan, Canonical, Upto
  <2>6. (InPrefill /\ InDecide /\ InJudge /\ InCommit /\ InRebuild)'
    BY <1>5, <1>8 DEF InPrefill, InDecide, InJudge, InCommit, InRebuild
  <2> QED
    BY <2>3, <2>4, <2>5, <2>6
<1> QED
  BY <1>7, <1>8

\* The state of the trunk when a token has been decided but not absorbed.
LEMMA AtPlan ==
  ASSUME DecodeInv, pc \in {"plan", "draft"}
  PROVE  /\ npos \in Nat /\ history \in Seq(Token) /\ Len(history) = npos + 1
         /\ Len(history) <= Ctx /\ npos + 1 = PromptLen + Len(gen)
         /\ rec = SubSeq(history, 1, npos)
         /\ \A p \in 0 .. npos - 1 : kv[p] = SubSeq(history, 1, p + 1)
         /\ id = history[npos + 1] /\ id \in Token
<1>1. npos \in Nat /\ history \in Seq(Token) /\ npos + 1 = Len(history)
  BY BoundAssumption DEF DecodeInv, TypeOK, InPlan
<1>2. id = history[npos + 1] /\ id \in Token
  BY <1>1 DEF id, Last
<1> QED
  BY <1>1, <1>2 DEF DecodeInv, InPlan, HistoryIsGreedy, Canonical, Upto

\* A step of the draft head keeps the type of its cache.
LEMMA HeadStepType ==
  ASSUME TypeOK, NEW t \in Token, NEW p \in Nat, NEW h \in View,
         HeadStep(t, p, h)
  PROVE  hkv' \in [Position -> [tok : Token, h : View]]
BY BoundAssumption DEF HeadStep, TypeOK, Position

\* A decided token without a draft goes through the trunk alone.
LEMMA AdvanceKeepsInv ==
  ASSUME DecodeInv, PlainStep \/ ScoreStep \/ IdleStep
  PROVE  DecodeInv'
<1> USE DEF DecodeInv
<1>1. /\ pc = "plan" /\ Advance
      /\ UNCHANGED <<par, history, gen, hitEos, snap, roundVars>>
  BY DEF PlainStep, ScoreStep, IdleStep
<1>2. /\ npos \in Nat /\ history \in Seq(Token) /\ Len(history) = npos + 1
      /\ Len(history) <= Ctx /\ npos + 1 = PromptLen + Len(gen)
      /\ rec = SubSeq(history, 1, npos)
      /\ \A p \in 0 .. npos - 1 : kv[p] = SubSeq(history, 1, p + 1)
      /\ id = history[npos + 1] /\ id \in Token
  BY <1>1, AtPlan
<1>3. TrunkStep(id, npos) /\ hprev' = logits' /\ npos' = npos + 1
      /\ pc' = "decide"
  BY <1>1 DEF Advance
<1>4. /\ rec' = history /\ logits' = history /\ history \in View
      /\ kv' \in [Position -> View]
      /\ \A p \in 0 .. npos : kv'[p] = SubSeq(history, 1, p + 1)
  BY <1>2, <1>3, TrunkStepExact
<1>5. hkv' \in [Position -> [tok : Token, h : View]]
  <2>1. CASE PlainStep
    BY <2>1 DEF PlainStep, TypeOK
  <2>2. CASE ScoreStep \/ IdleStep
    <3>1. HeadStep(id, npos, hprev) /\ hprev \in View
      BY <2>2 DEF ScoreStep, IdleStep, TypeOK
    <3> QED
      BY <1>2, <3>1, HeadStepType
  <2> QED
    BY <1>1, <2>1, <2>2
<1>6. gov' \in [rounds : Nat, acc : Nat, drafted : Nat, cool : Nat]
  <2>1. CASE PlainStep \/ ScoreStep
    BY <2>1 DEF PlainStep, ScoreStep, TypeOK
  <2>2. CASE IdleStep
    <3>1. CASE Cooling
      <4>1. gov' = [gov EXCEPT !.cool = @ - 1] /\ gov.cool > 0
        BY <2>2, <3>1 DEF IdleStep, Cooling
      <4>2. gov.cool - 1 \in Nat
        BY <4>1 DEF TypeOK
      <4> QED
        BY <4>1, <4>2 DEF TypeOK
    <3>2. CASE ~Cooling
      BY <2>2, <3>2 DEF IdleStep, TypeOK
    <3> QED
      BY <3>1, <3>2
  <2> QED
    BY <2>1, <2>2
<1>7. npos' \in 0 .. Ctx
  BY <1>2, <1>3, BoundAssumption
<1>8. TypeOK'
  BY <1>1, <1>3, <1>4, <1>5, <1>6, <1>7 DEF TypeOK, Phase, roundVars
<1>9. HistoryIsGreedy'
  BY <1>1 DEF HistoryIsGreedy, Upto, PromptLen, Limit
<1>10. InDecide'
  <2>1. npos' = Len(history) /\ npos' = PromptLen + Len(gen)
        /\ PromptLen' = PromptLen
    BY <1>1, <1>2, <1>3 DEF PromptLen
  <2>2. \A p \in 0 .. npos' - 1 : kv'[p] = SubSeq(history, 1, p + 1)
    BY <1>2, <1>3, <1>4
  <2> QED
    BY <1>1, <1>3, <1>4, <2>1, <2>2 DEF InDecide, Canonical, Upto
<1>11. (InPrefill /\ InPlan /\ InJudge /\ InCommit /\ InRebuild)'
  BY <1>3 DEF InPrefill, InPlan, InJudge, InCommit, InRebuild
<1> QED
  BY <1>8, <1>9, <1>10, <1>11

\* A round starts with room for its drafts.
LEMMA StartKeepsInv ==
  ASSUME DecodeInv, StartRound
  PROVE  DecodeInv'
<1> USE DEF DecodeInv
<1>1. /\ pc = "plan" /\ Speculative(par.mode) /\ DraftRoom > 0
      /\ deff' = DraftRoom /\ draft' = <<>> /\ hrows' = <<>> /\ lrows' = <<>>
      /\ round' = <<>> /\ idx' = 0 /\ rejected' = FALSE /\ eogNext' = FALSE
      /\ pc' = "draft"
      /\ UNCHANGED <<par, npos, history, gen, hitEos, logits, hprev, gov, device>>
  BY DEF StartRound
<1>2. /\ npos \in Nat /\ npos + 1 = PromptLen + Len(gen) /\ Len(gen) \in Nat
  BY <1>1, AtPlan DEF TypeOK
<1>3. PromptLen \in Nat /\ Limit \in Nat /\ Ctx \in Nat
  BY LimitFits
<1>4. deff' \in Nat /\ npos + deff' + 1 <= Ctx
      /\ npos + deff' + 1 <= PromptLen + Limit
  <2>1. par.draft \in Nat
    BY BoundAssumption DEF TypeOK
  <2>2. npos <= Ctx
    BY BoundAssumption DEF TypeOK
  <2>3. Len(gen) <= Limit
    BY DEF HistoryIsGreedy
  <2>4. Room \in Nat /\ Pred(Room) \in Nat /\ (Room = 0 => Pred(Room) = 0)
        /\ (Room > 0 => Pred(Room) = Room - 1)
    BY <1>2, <1>3, <2>2 DEF Room, Pred
  <2>5. RoomPred \in Nat /\ Pred(RoomPred) \in Nat
        /\ (RoomPred > 0 => Pred(RoomPred) = RoomPred - 1)
        /\ (RoomPred = 0 => Pred(RoomPred) = 0)
    BY <1>2, <1>3, <2>3 DEF RoomPred, Pred
  <2>6. /\ DraftRoom \in Nat
        /\ DraftRoom <= Pred(Room) /\ DraftRoom <= Pred(RoomPred)
    BY <2>1, <2>4, <2>5 DEF DraftRoom, Smaller
  <2> QED
    BY <1>1, <1>2, <1>3, <2>2, <2>3, <2>4, <2>5, <2>6 DEF Room, RoomPred
<1>5. TypeOK'
  <2>1. /\ draft' \in Seq(Token) /\ round' \in Seq(Token)
        /\ hrows' \in Seq(View) /\ lrows' \in Seq(View)
    BY <1>1
  <2>2. idx' \in Nat
    BY <1>1
  <2>3. rejected' \in BOOLEAN /\ eogNext' \in BOOLEAN
    BY <1>1
  <2>4. pc' \in Phase
    BY <1>1 DEF Phase
  <2> QED
    BY <1>1, <1>4, <2>1, <2>2, <2>3, <2>4 DEF TypeOK, device
<1>6. HistoryIsGreedy'
  BY <1>1 DEF HistoryIsGreedy, Upto, PromptLen, Limit
<1>7. InPlan'
  <2>1. /\ npos' = npos /\ rec' = rec /\ kv' = kv /\ history' = history
        /\ gen' = gen /\ par' = par /\ PromptLen' = PromptLen /\ Limit' = Limit
    BY <1>1 DEF device, PromptLen, Limit
  <2>2. /\ npos + 1 = Len(history) /\ npos + 1 = PromptLen + Len(gen)
        /\ rec = Upto(npos) /\ Canonical(npos)
    BY <1>1 DEF InPlan
  <2>3. Canonical(npos)' /\ Upto(npos)' = Upto(npos)
    BY <2>1, <2>2 DEF Canonical, Upto
  <2>4. Len(draft') <= deff' /\ deff' > 0
    BY <1>1, <1>4
  <2> QED
    BY <1>1, <1>4, <2>1, <2>2, <2>3, <2>4 DEF InPlan, Speculative
<1>8. (InPrefill /\ InDecide /\ InJudge /\ InCommit /\ InRebuild)'
  BY <1>1 DEF InPrefill, InDecide, InJudge, InCommit, InRebuild
<1> QED
  BY <1>5, <1>6, <1>7, <1>8

\* Drafting touches nothing but the draft head's cache.
LEMMA DraftKeepsInv ==
  ASSUME DecodeInv, DraftStep
  PROVE  DecodeInv'
<1> USE DEF DecodeInv
<1>1. /\ pc = "draft" /\ Len(draft) < deff
      /\ UNCHANGED <<par, pc, npos, history, gen, hitEos, logits, hprev, gov,
                     rec, kv, snap, deff, hrows, lrows, round, idx, rejected,
                     eogNext>>
  BY DEF DraftStep
<1>2. PICK d \in Token : draft' = Append(draft, d)
  BY DEF DraftStep
<1>3. draft' \in Seq(Token) /\ Len(draft') = Len(draft) + 1
      /\ Len(draft') <= deff'
  BY <1>1, <1>2 DEF TypeOK
<1>4. hkv' \in [Position -> [tok : Token, h : View]]
  <2>1. npos \in Nat /\ id \in Token /\ hprev \in View /\ Stale \in View
    BY <1>1, AtPlan DEF TypeOK, View
  <2>2. CASE draft = <<>>
    <3>1. HeadStep(id, npos, hprev)
      BY <2>2 DEF DraftStep
    <3> QED
      BY <2>1, <3>1, HeadStepType
  <2>3. CASE draft # <<>>
    <3>1. HeadStep(Last(draft), npos + Len(draft), Stale)
      BY <2>3 DEF DraftStep
    <3>2. Last(draft) \in Token /\ npos + Len(draft) \in Nat
      BY <2>1, <2>3, TokenAssumption DEF TypeOK, Last
    <3> QED
      BY <2>1, <3>1, <3>2, HeadStepType
  <2> QED
    BY <2>2, <2>3
<1>5. TypeOK'
  BY <1>1, <1>3, <1>4 DEF TypeOK
<1>6. HistoryIsGreedy'
  BY <1>1 DEF HistoryIsGreedy, Upto, PromptLen, Limit
<1>7. InPlan'
  BY <1>1, <1>3 DEF InPlan, Upto, Canonical, PromptLen, Limit
<1>8. (InPrefill /\ InDecide /\ InJudge /\ InCommit /\ InRebuild)'
  BY <1>1 DEF InPrefill, InDecide, InJudge, InCommit, InRebuild
<1> QED
  BY <1>5, <1>6, <1>7, <1>8

\* The drafts the trunk agreed with make the verified text the history.
LEMMA VerifiedPrefix ==
  ASSUME NEW h \in Seq(Token), NEW d \in Seq(Token), NEW n \in Nat,
         NEW k \in 1 .. Len(d) + 1, Len(h) = n + k,
         \A j \in 1 .. k - 1 : h[n + 1 + j] = d[j]
  PROVE  /\ SubSeq(SubSeq(h, 1, n + 1) \o d, 1, n + k) = h
         /\ \A m \in 0 .. n + 1 :
              SubSeq(SubSeq(h, 1, n + 1) \o d, 1, m) = SubSeq(h, 1, m)
<1> DEFINE v == SubSeq(h, 1, n + 1) \o d
<1>1. /\ SubSeq(h, 1, n + 1) \in Seq(Token)
      /\ Len(SubSeq(h, 1, n + 1)) = n + 1
      /\ \A i \in 1 .. n + 1 : SubSeq(h, 1, n + 1)[i] = h[i]
  BY Prefix
<1>2. /\ v \in Seq(Token) /\ Len(v) = n + 1 + Len(d)
      /\ \A i \in 1 .. n + 1 : v[i] = h[i]
      /\ \A j \in 1 .. Len(d) : v[n + 1 + j] = d[j]
  BY <1>1
<1> HIDE DEF v
<1>3. \A i \in 1 .. n + k : v[i] = h[i]
  <2> SUFFICES ASSUME NEW i \in 1 .. n + k, i \notin 1 .. n + 1
               PROVE  v[i] = h[i]
    BY <1>2
  <2>1. i - (n + 1) \in 1 .. k - 1 /\ i - (n + 1) \in 1 .. Len(d)
        /\ n + 1 + (i - (n + 1)) = i
    OBVIOUS
  <2> QED
    BY <2>1, <1>2
<1>4. SubSeq(v, 1, n + k) = SubSeq(h, 1, n + k)
  BY <1>2, <1>3, SamePrefix
<1>5. SubSeq(h, 1, n + k) = h
  OBVIOUS
<1>6. ASSUME NEW m \in 0 .. n + 1 PROVE SubSeq(v, 1, m) = SubSeq(h, 1, m)
  <2>1. m \in Nat /\ m <= Len(v) /\ m <= Len(h) /\ \A i \in 1 .. m : v[i] = h[i]
    BY <1>2
  <2> QED
    BY <1>2, <2>1, SamePrefix
<1> QED
  BY <1>4, <1>5, <1>6 DEF v

\* A record of counters with three of them set.
LEMMA CountersOf ==
  ASSUME NEW A, NEW a \in A, NEW b \in A, NEW c \in A,
         NEW r \in [rounds : A, acc : A, drafted : A, cool : A]
  PROVE  [r EXCEPT !.rounds = a, !.acc = b, !.drafted = c]
           \in [rounds : A, acc : A, drafted : A, cool : A]
OBVIOUS

\* The governor counts in natural numbers.
LEMMA ObserveType ==
  ASSUME TypeOK, NEW acc \in Nat, ObserveRound(acc)
  PROVE  gov' \in [rounds : Nat, acc : Nat, drafted : Nat, cool : Nat]
<1> DEFINE seen == [gov EXCEPT !.rounds = @ + 1, !.acc = @ + acc,
                               !.drafted = @ + deff]
           G == [rounds : Nat, acc : Nat, drafted : Nat, cool : Nat]
<1>1. gov \in G /\ deff \in Nat /\ GovCool \in Nat
  BY BoundAssumption DEF TypeOK
<1>2. seen \in G
  <2>1. /\ gov.rounds + 1 \in Nat /\ gov.acc + acc \in Nat
        /\ gov.drafted + deff \in Nat /\ gov.cool \in Nat
    BY <1>1
  <2> QED
    BY <1>1, <2>1, CountersOf
<1>3. ASSUME NEW c \in Nat PROVE [NoGov EXCEPT !.cool = c] \in G
  BY DEF NoGov
<1>4. GovObserve(acc, deff) \in G
  <2>1. CASE seen.rounds < GovEpoch \/ seen.cool # 0
    BY <2>1, <1>2 DEF GovObserve
  <2>2. CASE ~(seen.rounds < GovEpoch \/ seen.cool # 0)
    <3>1. (IF GovDen * seen.acc < GovNum * seen.drafted
           THEN GovCool ELSE seen.cool) \in Nat
      <4>1. seen.cool \in Nat
        BY <1>2
      <4> HIDE DEF seen
      <4> QED
        BY <4>1, <1>1
    <3>2. GovObserve(acc, deff)
          = [NoGov EXCEPT !.cool = IF GovDen * seen.acc < GovNum * seen.drafted
                                   THEN GovCool ELSE seen.cool]
      BY <2>2 DEF GovObserve
    <3> QED
      BY <3>1, <3>2, <1>3
  <2> QED
    BY <2>1, <2>2
<1> QED
  BY <1>1, <1>4 DEF ObserveRound

\* The verification pass of a batched round forwards the history and the drafts.
LEMMA VerifyBatchKeepsInv ==
  ASSUME DecodeInv, VerifyBatch
  PROVE  DecodeInv'
<1> DEFINE toks == <<id>> \o draft
           H    == history \o draft
<1> USE DEF DecodeInv
<1>1. /\ pc = "draft" /\ Len(draft) = deff /\ par.mode = "batched"
      /\ snap' = rec /\ round' = <<id>> /\ pc' = "judge"
      /\ hrows' = Rows(rec, toks, npos) /\ lrows' = hrows'
      /\ TrunkForward(rec, toks, npos)
      /\ UNCHANGED <<par, npos, history, gen, hitEos, logits, hprev, hkv, gov,
                     deff, draft, idx, rejected, eogNext>>
  BY DEF VerifyBatch
<1>2. /\ npos \in Nat /\ history \in Seq(Token) /\ Len(history) = npos + 1
      /\ npos + 1 = PromptLen + Len(gen)
      /\ rec = SubSeq(history, 1, npos)
      /\ \A p \in 0 .. npos - 1 : kv[p] = SubSeq(history, 1, p + 1)
      /\ id = history[npos + 1] /\ id \in Token
  BY <1>1, AtPlan
<1>3. deff > 0 /\ ~rejected /\ npos + deff + 1 <= Ctx
      /\ npos + deff + 1 <= PromptLen + Limit
  BY <1>1 DEF InPlan
<1>4. draft \in Seq(Token) /\ deff \in Nat
  BY TokenAssumption DEF TypeOK
<1>5. /\ toks \in Seq(Token) /\ Len(toks) = deff + 1
      /\ H \in Seq(Token) /\ Len(H) = npos + deff + 1
      /\ toks[1] = history[npos + 1]
      /\ \A i \in 1 .. npos + 1 : H[i] = history[i]
      /\ \A j \in 1 .. deff : toks[j + 1] = draft[j] /\ H[npos + 1 + j] = draft[j]
  <2>1. /\ toks \in Seq(Token) /\ Len(toks) = deff + 1
        /\ toks[1] = id /\ \A j \in 1 .. deff : toks[j + 1] = draft[j]
    <3>1. draft \in Seq(Token) /\ id \in Token /\ Len(draft) = deff
      BY <1>1, <1>2, <1>4
    <3> QED
      BY <3>1
  <2>2. /\ H \in Seq(Token) /\ Len(H) = (npos + 1) + deff
        /\ \A i \in 1 .. npos + 1 : H[i] = history[i]
        /\ \A j \in 1 .. deff : H[npos + 1 + j] = draft[j]
    <3>0. history \in Seq(Token) /\ draft \in Seq(Token)
      BY <1>2, <1>4
    <3>1. /\ H \in Seq(Token) /\ Len(H) = Len(history) + Len(draft)
          /\ \A i \in 1 .. Len(history) : H[i] = history[i]
          /\ \A i \in 1 .. Len(draft) : H[Len(history) + i] = draft[i]
      BY <3>0, ConcatHas
    <3>2. Len(history) = npos + 1 /\ Len(draft) = deff
          /\ npos \in Nat /\ deff \in Nat
      BY <1>1, <1>2, <1>4
    <3> HIDE DEF H
    <3> QED
      BY <3>1, <3>2
  <2>3. toks[1] = history[npos + 1]
    BY <1>2, <2>1
  <2>4. Len(H) = npos + deff + 1
    BY <1>2, <1>4, <2>2
  <2> HIDE DEF toks, H, DecodeInv
  <2> QED
    BY <2>1, <2>2, <2>3, <2>4
<1> HIDE DEF toks, H
<1>6. \A j \in 1 .. Len(toks) : toks[j] = H[npos + j]
  <2> SUFFICES ASSUME NEW j \in 1 .. deff + 1 PROVE toks[j] = H[npos + j]
    BY <1>5
  <2>1. CASE j = 1
    BY <2>1, <1>2, <1>5
  <2>2. CASE j # 1
    <3>1. j - 1 \in 1 .. deff /\ (j - 1) + 1 = j /\ npos + 1 + (j - 1) = npos + j
      BY <2>2, <1>2, <1>4
    <3> QED
      BY <3>1, <1>5
  <2> QED
    BY <2>1, <2>2
<1>7. \A m \in 0 .. npos + 1 : SubSeq(H, 1, m) = SubSeq(history, 1, m)
  <2> SUFFICES ASSUME NEW m \in 0 .. npos + 1
               PROVE  SubSeq(H, 1, m) = SubSeq(history, 1, m)
    OBVIOUS
  <2>1. m \in Nat /\ m <= Len(H) /\ m <= Len(history)
        /\ \A i \in 1 .. m : H[i] = history[i]
    BY <1>2, <1>4, <1>5
  <2> QED
    BY <1>2, <1>5, <2>1, SamePrefix
<1>8. /\ Len(H) = npos + Len(toks) /\ Len(H) <= Ctx /\ Len(toks) > 0
      /\ rec = SubSeq(H, 1, npos)
      /\ \A p \in 0 .. npos - 1 : kv[p] = SubSeq(H, 1, p + 1)
  <2> HIDE DEF DecodeInv
  <2>1. Len(H) = npos + Len(toks) /\ Len(H) <= Ctx /\ Len(toks) > 0
    BY <1>2, <1>3, <1>4, <1>5
  <2>2. rec = SubSeq(H, 1, npos)
    <3>1. npos \in 0 .. npos + 1 /\ rec = SubSeq(history, 1, npos)
      BY <1>2
    <3>2. SubSeq(H, 1, npos) = SubSeq(history, 1, npos)
      BY <3>1, <1>7
    <3> QED
      BY <3>1, <3>2
  <2>3. ASSUME NEW p \in 0 .. npos - 1
        PROVE  kv[p] = SubSeq(H, 1, p + 1)
    <3>1. p + 1 \in 0 .. npos + 1
      BY <1>2
    <3> QED
      BY <1>2, <1>7, <3>1
  <2> QED
    BY <2>1, <2>2, <2>3
<1>9. /\ rec' = H /\ kv' \in [Position -> View]
      /\ \A p \in 0 .. Len(H) - 1 : kv'[p] = SubSeq(H, 1, p + 1)
      /\ hrows' \in Seq(View) /\ Len(hrows') = Len(toks)
      /\ \A k \in 1 .. Len(toks) : hrows'[k] = SubSeq(H, 1, npos + k)
  <2>1. Continues(H, toks, npos, rec)
    BY <1>2, <1>5, <1>6, <1>8 DEF Continues
  <2>2. TrunkForward(rec, toks, npos) /\ hrows' = Rows(rec, toks, npos)
    BY <1>1
  <2> QED
    BY <2>1, <2>2, ForwardExact
<1>10. /\ hrows' \in Seq(View) /\ Len(hrows') = deff + 1
       /\ \A k \in 1 .. deff + 1 : hrows'[k] = SubSeq(H, 1, npos + k)
  BY <1>5, <1>9
<1>11. H \in View
  BY <1>5, <1>8, ShortIsText
<1>12. round' \in Seq(Token) /\ Len(round') = 1 /\ round'[1] = id
  BY <1>1, <1>2
<1>13. TypeOK'
  BY <1>1, <1>9, <1>10, <1>11, <1>12 DEF TypeOK, Phase
<1>14. HistoryIsGreedy'
  BY <1>1 DEF HistoryIsGreedy, Upto, PromptLen, Limit
<1>15. RoundIsHistory'
  <2>1. npos' = npos /\ history' = history /\ deff' = deff /\ draft' = draft
        /\ par' = par /\ PromptLen' = PromptLen /\ Limit' = Limit
    BY <1>1 DEF PromptLen, Limit
  <2>2. \A j \in 1 .. Len(round') : round'[j] = history[npos + j]
    BY <1>2, <1>12
  <2> QED
    BY <1>1, <1>2, <1>3, <1>12, <2>1, <2>2 DEF RoundIsHistory
<1>16. PassIsVerified'
  <2>1. H = Verified /\ Verified' = Verified
    <3>1. SubSeq(history, 1, npos + 1) = history
      BY <1>2
    <3> QED
      BY <1>1, <3>1 DEF H, Verified, Upto
  <2>2. snap' = Upto(npos)' /\ npos' = npos /\ deff' = deff
    BY <1>1, <1>2 DEF Upto
  <2>3. \A p \in 0 .. npos + deff : kv'[p] = SubSeq(H, 1, p + 1)
    BY <1>2, <1>4, <1>5, <1>9
  <2>4. lrows' = hrows' /\ Len(round') = 1
    BY <1>1, <1>12
  <2>5. \A j \in 1 .. Len(round') - 1 : round'[j + 1] = draft'[j]
    BY <1>12
  <2> QED
    BY <1>9, <1>10, <2>1, <2>2, <2>3, <2>4, <2>5 DEF PassIsVerified
<1>17. InJudge'
  <2>1. npos' = npos /\ gen' = gen /\ deff' = deff /\ rejected' = rejected
        /\ PromptLen' = PromptLen /\ par' = par
    BY <1>1 DEF PromptLen
  <2>2. Len(round') <= deff
    BY <1>3, <1>4, <1>12
  <2> QED
    BY <1>1, <1>2, <1>3, <1>15, <1>16, <2>1, <2>2 DEF InJudge
<1>18. (InPrefill /\ InDecide /\ InPlan /\ InCommit /\ InRebuild)'
  BY <1>1 DEF InPrefill, InDecide, InPlan, InCommit, InRebuild
<1> QED
  BY <1>13, <1>14, <1>17, <1>18

\* What holds at every point of a round.
LEMMA InRound ==
  ASSUME DecodeInv, RoundIsHistory
  PROVE  /\ npos \in Nat /\ deff \in Nat /\ Len(round) \in Nat /\ Len(round) >= 1
         /\ history \in Seq(Token) /\ round \in Seq(Token) /\ gen \in Seq(Token)
         /\ draft \in Seq(Token) /\ Len(draft) = deff
         /\ Len(history) = npos + Len(round) /\ Len(history) <= Ctx
         /\ \A j \in 1 .. Len(round) : round[j] = history[npos + j]
         /\ npos + deff + 1 <= Ctx /\ npos + deff + 1 <= PromptLen + Limit
         /\ PromptLen \in Nat /\ Limit \in Nat /\ Ctx \in Nat
         /\ SubSeq(history, 1, Len(history)) = history
<1>1. npos \in Nat /\ deff \in Nat /\ round \in Seq(Token)
      /\ history \in Seq(Token) /\ gen \in Seq(Token)
  BY BoundAssumption DEF DecodeInv, TypeOK
<1>2. draft \in Seq(Token)
  BY TokenAssumption DEF DecodeInv, TypeOK
<1>3. PromptLen \in Nat /\ Limit \in Nat /\ Ctx \in Nat
  BY LimitFits DEF DecodeInv
<1>4. SubSeq(history, 1, Len(history)) = history
  BY <1>1
<1>5. Len(history) <= Ctx
  BY DEF DecodeInv, HistoryIsGreedy
<1>6. /\ Len(history) = npos + Len(round)
      /\ \A j \in 1 .. Len(round) : round[j] = history[npos + j]
      /\ Len(round) >= 1 /\ Len(draft) = deff
      /\ npos + deff + 1 <= Ctx /\ npos + deff + 1 <= PromptLen + Limit
  BY DEF RoundIsHistory
<1>7. Len(round) \in Nat
  BY <1>1
<1> QED
  BY <1>1, <1>2, <1>3, <1>4, <1>5, <1>6, <1>7

\* Committing a token grows the round and the history alike.
LEMMA RoundGrows ==
  ASSUME DecodeInv, RoundIsHistory, Len(round) <= deff, NEW t \in Token,
         round' = Append(round, t), history' = Append(history, t),
         UNCHANGED <<par, npos, deff, draft>>
  PROVE  /\ RoundIsHistory'
         /\ round' \in Seq(Token) /\ Len(round') = Len(round) + 1
         /\ history' \in Seq(Token) /\ Len(history') = Len(history) + 1
         /\ \A j \in 1 .. Len(round) : round'[j] = round[j]
         /\ round'[Len(round) + 1] = t
         /\ history'[Len(history) + 1] = t
         /\ \A i \in 1 .. Len(history) : history'[i] = history[i]
         /\ \A n \in 0 .. Len(history) :
              SubSeq(history', 1, n) = SubSeq(history, 1, n)
<1>1. /\ npos \in Nat /\ deff \in Nat /\ Len(round) \in Nat /\ Len(round) >= 1
      /\ history \in Seq(Token) /\ round \in Seq(Token)
      /\ Len(history) = npos + Len(round)
      /\ \A j \in 1 .. Len(round) : round[j] = history[npos + j]
  BY InRound
<1>2. /\ history' \in Seq(Token) /\ Len(history') = Len(history) + 1
      /\ history'[Len(history) + 1] = t
      /\ \A i \in 1 .. Len(history) : history'[i] = history[i]
      /\ \A n \in 0 .. Len(history) :
           SubSeq(history', 1, n) = SubSeq(history, 1, n)
  <2>1. history \in Seq(Token)
    BY <1>1
  <2> QED
    BY <2>1, AppendPrefix
<1>3. /\ round' \in Seq(Token) /\ Len(round') = Len(round) + 1
      /\ round'[Len(round) + 1] = t
      /\ \A i \in 1 .. Len(round) : round'[i] = round[i]
  <2>1. round \in Seq(Token)
    BY <1>1
  <2> QED
    BY <2>1, AppendPrefix
<1>4. \A j \in 1 .. Len(round') : round'[j] = history'[npos + j]
  <2> SUFFICES ASSUME NEW j \in 1 .. Len(round')
               PROVE  round'[j] = history'[npos + j]
    OBVIOUS
  <2>1. CASE j = Len(round) + 1
    <3>1. npos + j = Len(history) + 1
      BY <2>1, <1>1
    <3> QED
      BY <2>1, <3>1, <1>2, <1>3
  <2>2. CASE j # Len(round) + 1
    <3>1. j \in 1 .. Len(round) /\ npos + j \in 1 .. Len(history)
      BY <2>2, <1>1, <1>3
    <3> QED
      BY <3>1, <1>1, <1>2, <1>3
  <2> QED
    BY <2>1, <2>2
<1>5. Len(history') = npos + Len(round') /\ Len(round') >= 1
  BY <1>1, <1>2, <1>3
<1>6. PromptLen' = PromptLen /\ Limit' = Limit
  BY DEF PromptLen, Limit
<1>7. RoundIsHistory'
  BY <1>4, <1>5, <1>6 DEF RoundIsHistory
<1> QED
  BY <1>2, <1>3, <1>7

\* In a batched round the verified text begins with the history.
LEMMA VerifiedIsHistory ==
  ASSUME DecodeInv, pc = "judge", par.mode = "batched"
  PROVE  /\ SubSeq(Verified, 1, npos + Len(round)) = history
         /\ lrows[Len(round)] = history
         /\ Verified \in Seq(Token) /\ Len(Verified) = npos + deff + 1
         /\ \A m \in 0 .. npos + 1 : SubSeq(Verified, 1, m) = SubSeq(history, 1, m)
         /\ Len(round) \in 1 .. deff
<1>1. /\ RoundIsHistory /\ Len(round) <= deff /\ PassIsVerified
  BY DEF DecodeInv, InJudge
<1>2. /\ npos \in Nat /\ deff \in Nat /\ Len(round) \in Nat /\ Len(round) >= 1
      /\ history \in Seq(Token) /\ draft \in Seq(Token) /\ Len(draft) = deff
      /\ Len(history) = npos + Len(round)
      /\ \A j \in 1 .. Len(round) : round[j] = history[npos + j]
  BY <1>1, InRound
<1>3. \A j \in 1 .. Len(round) - 1 : history[npos + 1 + j] = draft[j]
  <2> SUFFICES ASSUME NEW j \in 1 .. Len(round) - 1
               PROVE  history[npos + 1 + j] = draft[j]
    OBVIOUS
  <2>1. j + 1 \in 1 .. Len(round) /\ npos + (j + 1) = npos + 1 + j
    BY <1>2
  <2>2. round[j + 1] = draft[j]
    BY <1>1 DEF PassIsVerified
  <2>3. round[j + 1] = history[npos + (j + 1)]
    BY <1>2, <2>1
  <2> QED
    BY <2>1, <2>2, <2>3
<1>4. Len(round) \in 1 .. Len(draft) + 1
  BY <1>1, <1>2
<1>5. /\ SubSeq(Verified, 1, npos + Len(round)) = history
      /\ \A m \in 0 .. npos + 1 : SubSeq(Verified, 1, m) = SubSeq(history, 1, m)
  <2> DEFINE k == Len(round)
  <2>1. /\ history \in Seq(Token) /\ draft \in Seq(Token) /\ npos \in Nat
        /\ k \in 1 .. Len(draft) + 1 /\ Len(history) = npos + k
        /\ \A j \in 1 .. k - 1 : history[npos + 1 + j] = draft[j]
    BY <1>2, <1>3, <1>4
  <2>2. Verified = SubSeq(history, 1, npos + 1) \o draft
    BY DEF Verified, Upto
  <2> HIDE DEF k
  <2>3. /\ SubSeq(SubSeq(history, 1, npos + 1) \o draft, 1, npos + k) = history
        /\ \A m \in 0 .. npos + 1 :
             SubSeq(SubSeq(history, 1, npos + 1) \o draft, 1, m)
               = SubSeq(history, 1, m)
    BY <2>1, VerifiedPrefix
  <2> QED
    BY <2>2, <2>3 DEF k
<1>6. Verified \in Seq(Token) /\ Len(Verified) = npos + deff + 1
  <2>1. Upto(npos + 1) \in Seq(Token) /\ Len(Upto(npos + 1)) = npos + 1
    BY <1>2 DEF Upto
  <2>2. Verified \in Seq(Token) /\ Len(Verified) = Len(Upto(npos + 1)) + Len(draft)
    BY <1>2, <2>1, ConcatHas DEF Verified
  <2> QED
    BY <1>2, <2>1, <2>2
<1>7. lrows[Len(round)] = SubSeq(Verified, 1, npos + Len(round))
  <2>1. Len(round) \in Len(round) .. deff + 1
    BY <1>1, <1>2
  <2> QED
    BY <1>1, <2>1 DEF PassIsVerified
<1> QED
  BY <1>1, <1>2, <1>5, <1>6, <1>7

\* A refused draft ends the round, an accepted one is the trunk's own choice.
LEMMA JudgeBatchKeepsInv ==
  ASSUME DecodeInv, JudgeBatch
  PROVE  DecodeInv'
<1> DEFINE k == Len(round)
<1> USE DEF DecodeInv
<1>1. /\ pc = "judge" /\ par.mode = "batched" /\ idx' = 1
      /\ UNCHANGED <<par, npos, gen, hitEos, logits, hprev, device, deff, draft,
                     hrows, lrows, eogNext>>
  BY DEF JudgeBatch
<1>2. RoundIsHistory /\ k <= deff /\ ~rejected /\ PassIsVerified
      /\ npos + 1 = PromptLen + Len(gen)
  BY <1>1 DEF InJudge
<1>3. /\ npos \in Nat /\ deff \in Nat /\ k \in Nat /\ k >= 1
      /\ history \in Seq(Token) /\ round \in Seq(Token)
      /\ Len(history) = npos + k /\ Len(history) <= Ctx
      /\ npos + deff + 1 <= Ctx /\ Ctx \in Nat
  BY <1>2, InRound
<1>4. /\ SubSeq(Verified, 1, npos + k) = history /\ lrows[k] = history
      /\ Verified \in Seq(Token) /\ Len(Verified) = npos + deff + 1
      /\ \A m \in 0 .. npos + 1 : SubSeq(Verified, 1, m) = SubSeq(history, 1, m)
  BY <1>1, VerifiedIsHistory
<1>5. Len(history) < Ctx
  BY <1>2, <1>3
<1>6. /\ snap = Upto(npos) /\ rec = Verified
      /\ \A p \in 0 .. npos + deff : kv[p] = SubSeq(Verified, 1, p + 1)
      /\ Len(hrows) = deff + 1 /\ Len(lrows) = deff + 1
      /\ \A j \in 1 .. deff + 1 : hrows[j] = SubSeq(Verified, 1, npos + j)
      /\ \A j \in k .. deff + 1 : lrows[j] = SubSeq(Verified, 1, npos + j)
      /\ \A j \in 1 .. k - 1 : round[j + 1] = draft[j]
  BY <1>2 DEF PassIsVerified
<1>7. PICK t \in Sampled(lrows[k]) :
        IF t # draft[k]
        THEN /\ rejected' = TRUE /\ pc' = "commit" /\ ObserveRound(k - 1)
             /\ UNCHANGED <<round, history>>
        ELSE /\ round' = Append(round, t) /\ history' = Append(history, t)
             /\ IF k = deff THEN pc' = "commit" /\ ObserveRound(k)
                            ELSE UNCHANGED <<pc, gov>>
             /\ UNCHANGED rejected
  BY DEF JudgeBatch
<1>8. t = Greedy(par.model, history) /\ t \in Token
  <2>1. t \in Sampled(history)
    BY <1>4, <1>7
  <2> QED
    BY <1>3, <2>1, SampledToken
<1>9. lrows' = lrows /\ lrows \in Seq(View) /\ Len(lrows) = deff + 1
  BY <1>1, <1>6 DEF TypeOK
<1>10. gov' \in [rounds : Nat, acc : Nat, drafted : Nat, cool : Nat]
  <2>1. k \in Nat /\ k - 1 \in Nat
    BY <1>3
  <2>2. ObserveRound(k - 1) \/ ObserveRound(k) \/ gov' = gov
    BY <1>7
  <2> HIDE DEF k
  <2> QED
    BY <2>1, <2>2, ObserveType DEF TypeOK
<1>11. /\ PromptLen' = PromptLen /\ Limit' = Limit /\ npos' = npos /\ gen' = gen
       /\ par' = par /\ deff' = deff /\ draft' = draft /\ hrows' = hrows
       /\ rec' = rec /\ snap' = snap /\ kv' = kv
  BY <1>1 DEF PromptLen, Limit, device
<1>12. CASE t # draft[k]
  <2>1. /\ rejected' = TRUE /\ pc' = "commit" /\ round' = round
        /\ history' = history
    BY <1>7, <1>12
  <2>2. TypeOK'
    BY <1>1, <1>9, <1>10, <2>1 DEF TypeOK, Phase, device
  <2>3. HistoryIsGreedy'
    BY <1>11, <2>1 DEF HistoryIsGreedy, Upto
  <2>4. RoundIsHistory'
    BY <1>2, <1>11, <2>1 DEF RoundIsHistory
  <2>5. \A p \in 0 .. npos - 1 : kv[p] = SubSeq(history, 1, p + 1)
    <3> SUFFICES ASSUME NEW p \in 0 .. npos - 1
                 PROVE  kv[p] = SubSeq(history, 1, p + 1)
      OBVIOUS
    <3>1. p \in 0 .. npos + deff /\ p + 1 \in 0 .. npos + 1
      BY <1>3
    <3> QED
      BY <3>1, <1>4, <1>6
  <2>6. k <= deff + 1 /\ idx' \in 1 .. k
    BY <1>1, <1>2, <1>3
  <2>7. InCommit'
    BY <1>1, <1>2, <1>6, <1>11, <2>1, <2>4, <2>5, <2>6
       DEF InCommit, Canonical, Upto
  <2>8. (InPrefill /\ InDecide /\ InPlan /\ InJudge /\ InRebuild)'
    BY <2>1 DEF InPrefill, InDecide, InPlan, InJudge, InRebuild
  <2> QED
    BY <2>2, <2>3, <2>7, <2>8
<1>13. CASE t = draft[k]
  <2>1. /\ round' = Append(round, t) /\ history' = Append(history, t)
        /\ IF k = deff THEN pc' = "commit" /\ ObserveRound(k)
                       ELSE UNCHANGED <<pc, gov>>
        /\ rejected' = rejected
    BY <1>7, <1>13
  <2>2. /\ RoundIsHistory'
        /\ round' \in Seq(Token) /\ Len(round') = k + 1
        /\ history' \in Seq(Token) /\ Len(history') = Len(history) + 1
        /\ \A j \in 1 .. k : round'[j] = round[j]
        /\ round'[k + 1] = t
        /\ \A n \in 0 .. Len(history) :
             SubSeq(history', 1, n) = SubSeq(history, 1, n)
    <3>1. UNCHANGED <<par, npos, deff, draft>>
      BY <1>1
    <3> QED
      BY <1>2, <1>8, <2>1, <3>1, RoundGrows
  <2>3. TypeOK'
    BY <1>1, <1>9, <1>10, <2>1, <2>2 DEF TypeOK, Phase, device
  <2>4. HistoryIsGreedy'
    BY <1>5, <1>8, <1>11, <2>1, HistoryGrows
  <2>5. Verified' = Verified
    <3>1. npos + 1 \in 0 .. Len(history)
      BY <1>3
    <3> QED
      BY <1>11, <2>2, <3>1 DEF Verified, Upto
  <2>6. \A j \in 1 .. Len(round') - 1 : round'[j + 1] = draft[j]
    <3> SUFFICES ASSUME NEW j \in 1 .. k PROVE round'[j + 1] = draft[j]
      BY <1>3, <2>2
    <3>1. CASE j = k
      BY <3>1, <1>13, <2>2
    <3>2. CASE j # k
      <4>1. j \in 1 .. k - 1 /\ j + 1 \in 1 .. k
        BY <3>2, <1>3
      <4> QED
        BY <4>1, <1>6, <2>2
    <3> QED
      BY <3>1, <3>2
  <2>7. \A j \in Len(round') .. deff + 1 :
          lrows'[j] = SubSeq(Verified, 1, npos + j)
    <3> SUFFICES ASSUME NEW j \in k + 1 .. deff + 1
                 PROVE  lrows[j] = SubSeq(Verified, 1, npos + j)
      BY <2>2, <1>9
    <3>1. j \in k .. deff + 1
      BY <1>3
    <3> QED
      BY <3>1, <1>6
  <2>8. CASE k # deff
    <3>1. pc' = "judge"
      BY <1>1, <2>1, <2>8
    <3>2. PassIsVerified'
      <4>1. snap' = Upto(npos)'
        <5>1. npos \in 0 .. Len(history)
          BY <1>3
        <5> QED
          BY <1>6, <1>11, <2>2, <5>1 DEF Upto
      <4> QED
        BY <1>6, <1>9, <1>11, <2>5, <2>6, <2>7, <4>1 DEF PassIsVerified
    <3>3. Len(round') <= deff
      BY <1>2, <1>3, <2>2, <2>8
    <3>4. InJudge'
      BY <1>1, <1>2, <1>11, <2>1, <2>2, <3>1, <3>2, <3>3 DEF InJudge
    <3>5. (InPrefill /\ InDecide /\ InPlan /\ InCommit /\ InRebuild)'
      BY <3>1 DEF InPrefill, InDecide, InPlan, InCommit, InRebuild
    <3> QED
      BY <2>3, <2>4, <3>4, <3>5
  <2>9. CASE k = deff
    <3>1. pc' = "commit" /\ rejected' = FALSE
      BY <1>2, <2>1, <2>9 DEF TypeOK
    <3>2. Verified = history'
      <4>1. history' = Append(history, t)
        BY <2>1
      <4>2. pc = "judge" /\ npos + deff + 1 = Len(history')
        BY <1>1, <1>3, <2>2, <2>9
      <4>3. \A i \in 1 .. Len(history) : Verified[i] = history[i]
        <5>1. npos + k \in 0 .. Len(Verified)
          BY <1>3, <1>4, <2>9
        <5>2. \A i \in 1 .. npos + k :
                SubSeq(Verified, 1, npos + k)[i] = Verified[i]
          BY <1>4, <5>1, Prefix
        <5> QED
          BY <1>3, <1>4, <5>2
      <4>4. Verified[Len(history) + 1] = t
        <5>1. Upto(npos + 1) \in Seq(Token) /\ Len(Upto(npos + 1)) = npos + 1
          BY <1>3 DEF Upto
        <5>2. draft \in Seq(Token) /\ Len(draft) = deff
          BY <1>2, InRound
        <5>3. Verified[Len(Upto(npos + 1)) + k] = draft[k]
          <6>1. k \in 1 .. Len(draft)
            BY <1>3, <2>9, <5>2
          <6> QED
            BY <5>1, <5>2, <6>1, ConcatHas DEF Verified
        <5>4. Len(Upto(npos + 1)) + k = Len(history) + 1
          BY <1>3, <5>1
        <5> QED
          BY <1>13, <5>3, <5>4
      <4>5. Len(Verified) = Len(history) + 1
        BY <1>3, <1>4, <2>9
      <4>6. \A i \in 1 .. Len(history) : history'[i] = history[i]
        BY <1>3, <1>8, <4>1, AppendPrefix
      <4>7. history'[Len(history) + 1] = t
        BY <1>3, <1>8, <4>1, AppendPrefix
      <4>8. \A i \in 1 .. Len(history) + 1 : Verified[i] = history'[i]
        BY <1>3, <4>3, <4>4, <4>6, <4>7
      <4>9. Verified \in Seq(Token) /\ history' \in Seq(Token)
            /\ Len(Verified) = Len(history')
            /\ \A i \in 1 .. Len(Verified) : Verified[i] = history'[i]
        BY <1>4, <2>2, <4>5, <4>8
      <4> QED
        BY <4>9, SameSeq
    <3>3. /\ rec' = history'
          /\ \A p \in 0 .. Len(history') - 1 : kv'[p] = SubSeq(history', 1, p + 1)
      BY <1>3, <1>6, <1>11, <2>2, <2>9, <3>2
    <3>4. Len(lrows') = Len(round') /\ Len(hrows') = Len(round')
      BY <1>6, <1>9, <1>11, <2>2, <2>9
    <3>5. SubSeq(Verified, 1, npos + Len(round')) = history'
      <4>1. npos + Len(round') = Len(history')
        BY <1>3, <2>2
      <4> QED
        BY <2>2, <3>2, <4>1
    <3>6. lrows'[Len(round')] = history' /\ hrows'[Len(round')] = history'
      <4>1. Len(round') \in Len(round') .. deff + 1
            /\ Len(round') \in 1 .. deff + 1
        BY <1>3, <2>2, <2>9
      <4> QED
        BY <1>6, <1>11, <2>7, <3>5, <4>1
    <3>7. idx' \in 1 .. Len(round') /\ Len(round') <= deff' + 1
      BY <1>1, <1>3, <1>11, <2>2, <2>9
    <3>8. npos' + idx' = PromptLen' + Len(gen')
      BY <1>1, <1>2, <1>11
    <3>9. InCommit'
      BY <1>1, <1>11, <2>2, <3>1, <3>3, <3>4, <3>6, <3>7, <3>8
         DEF InCommit, Canonical, Upto
    <3>10. (InPrefill /\ InDecide /\ InPlan /\ InJudge /\ InRebuild)'
      BY <3>1 DEF InPrefill, InDecide, InPlan, InJudge, InRebuild
    <3> QED
      BY <2>3, <2>4, <3>9, <3>10
  <2> QED
    BY <2>8, <2>9
<1> QED
  BY <1>12, <1>13

\* What holds while the round's tokens are streamed, and while the head's rows
\* are rebuilt.
LEMMA AtCommit ==
  ASSUME DecodeInv, pc = "commit"
  PROVE  /\ RoundIsHistory /\ Len(round) <= deff + 1 /\ idx \in 1 .. Len(round)
         /\ npos + idx = PromptLen + Len(gen)
         /\ par.mode = "batched" /\ rejected =>
              /\ snap = SubSeq(history, 1, npos)
              /\ \A p \in 0 .. npos - 1 : kv[p] = SubSeq(history, 1, p + 1)
         /\ par.mode = "batched" /\ ~rejected =>
              /\ rec = history
              /\ \A p \in 0 .. Len(history) - 1 :
                   kv[p] = SubSeq(history, 1, p + 1)
              /\ Len(lrows) = Len(round) /\ Len(hrows) = Len(round)
              /\ lrows[Len(round)] = history /\ hrows[Len(round)] = history
         /\ par.mode = "serial" /\ ~eogNext =>
              /\ rec = SubSeq(history, 1, Len(history) - 1)
              /\ \A p \in 0 .. Len(history) - 2 :
                   kv[p] = SubSeq(history, 1, p + 1)
              /\ Len(hrows) = Len(round) - 1 /\ Len(round) >= 2
<1>1. history \in Seq(Token)
  BY DEF DecodeInv, TypeOK
<1>2. Len(history) - 1 - 1 = Len(history) - 2
  BY <1>1
<1> QED
  BY <1>2 DEF DecodeInv, InCommit, Canonical, Upto

\* The round's tokens are streamed in order; nothing else changes.
LEMMA PushKeepsInv ==
  ASSUME DecodeInv, PushToken
  PROVE  DecodeInv'
<1> USE DEF DecodeInv
<1>1. /\ pc = "commit" /\ idx < Len(round)
      /\ gen' = Append(gen, round[idx + 1]) /\ idx' = idx + 1
      /\ UNCHANGED <<par, pc, npos, history, hitEos, logits, hprev, gov, device,
                     deff, draft, hrows, lrows, round, rejected, eogNext>>
  BY DEF PushToken
<1>2. /\ RoundIsHistory /\ Len(round) <= deff + 1 /\ idx \in 1 .. Len(round)
      /\ npos + idx = PromptLen + Len(gen)
  BY <1>1, AtCommit
<1>3. /\ npos \in Nat /\ deff \in Nat /\ Len(round) \in Nat
      /\ round \in Seq(Token) /\ history \in Seq(Token) /\ gen \in Seq(Token)
      /\ Len(history) = npos + Len(round)
      /\ \A j \in 1 .. Len(round) : round[j] = history[npos + j]
      /\ npos + deff + 1 <= PromptLen + Limit
      /\ PromptLen \in Nat /\ Limit \in Nat
  BY <1>2, InRound
<1>4. /\ round[idx + 1] = history[PromptLen + Len(gen) + 1]
      /\ Len(gen) < Limit /\ PromptLen + Len(gen) < Len(history)
  <2>1. idx + 1 \in 1 .. Len(round)
        /\ npos + (idx + 1) = PromptLen + Len(gen) + 1
    BY <1>1, <1>2, <1>3
  <2>2. round[idx + 1] = history[npos + (idx + 1)]
    BY <1>3, <2>1
  <2>3. Len(gen) \in Nat
    BY <1>3
  <2> QED
    BY <1>1, <1>2, <1>3, <2>1, <2>2, <2>3
<1>5. HistoryIsGreedy' /\ gen' \in Seq(Token) /\ Len(gen') = Len(gen) + 1
  <2>1. gen' = Append(gen, history[PromptLen + Len(gen) + 1])
        /\ par' = par /\ history' = history
    BY <1>1, <1>4
  <2> QED
    BY <1>4, <2>1, StreamGrows
<1>6. idx' \in 1 .. Len(round) /\ idx' \in Nat
  BY <1>1, <1>2, <1>3
<1>7. TypeOK'
  BY <1>1, <1>5, <1>6 DEF TypeOK, device
<1>8. npos + idx' = PromptLen + Len(gen')
  <2>1. Len(gen) \in Nat /\ idx \in Nat /\ npos \in Nat /\ PromptLen \in Nat
    BY <1>2, <1>3
  <2>2. /\ npos + idx = PromptLen + Len(gen)
        /\ idx' = idx + 1 /\ Len(gen') = Len(gen) + 1
    BY <1>1, <1>2, <1>5
  <2> QED
    BY <2>1, <2>2
<1>9. RoundIsHistory'
  BY <1>1, <1>2 DEF RoundIsHistory, PromptLen, Limit
<1>10. InCommit'
  <2>1. /\ rec' = rec /\ snap' = snap /\ kv' = kv /\ history' = history
        /\ round' = round /\ par' = par /\ npos' = npos /\ deff' = deff
        /\ rejected' = rejected /\ eogNext' = eogNext
        /\ hrows' = hrows /\ lrows' = lrows /\ PromptLen' = PromptLen
    BY <1>1 DEF device, PromptLen
  <2>2. InCommit
    OBVIOUS
  <2>3. /\ par.mode = "batched" /\ rejected => snap = Upto(npos) /\ Canonical(npos)
        /\ par.mode = "batched" /\ ~rejected =>
             /\ rec = history /\ Canonical(Len(history))
             /\ Len(lrows) = Len(round) /\ Len(hrows) = Len(round)
             /\ lrows[Len(round)] = history /\ hrows[Len(round)] = history
        /\ par.mode = "serial" /\ ~eogNext =>
             /\ rec = Upto(Len(history) - 1) /\ Canonical(Len(history) - 1)
             /\ Len(hrows) = Len(round) - 1 /\ Len(round) >= 2
    BY <1>1, <2>2 DEF InCommit
  <2> QED
    BY <1>2, <1>6, <1>8, <1>9, <2>1, <2>3 DEF InCommit, Canonical, Upto
<1>11. (InPrefill /\ InDecide /\ InPlan /\ InJudge /\ InRebuild)'
  BY <1>1 DEF InPrefill, InDecide, InPlan, InJudge, InRebuild
<1> QED
  BY <1>5, <1>7, <1>10, <1>11

\* With every draft accepted the verification pass already is the history's.
LEMMA KeepKeepsInv ==
  ASSUME DecodeInv, KeepBatch
  PROVE  DecodeInv'
<1> USE DEF DecodeInv
<1>1. /\ pc = "commit" /\ idx = Len(round) /\ par.mode = "batched" /\ ~rejected
      /\ idx' = 1 /\ pc' = "rebuild"
      /\ UNCHANGED <<par, npos, history, gen, hitEos, logits, hprev, gov, device,
                     deff, draft, hrows, lrows, round, rejected, eogNext>>
  BY DEF KeepBatch
<1>2. /\ RoundIsHistory /\ Len(round) <= deff + 1
      /\ npos + idx = PromptLen + Len(gen)
      /\ rec = history
      /\ \A p \in 0 .. Len(history) - 1 : kv[p] = SubSeq(history, 1, p + 1)
      /\ Len(lrows) = Len(round) /\ Len(hrows) = Len(round)
      /\ lrows[Len(round)] = history /\ hrows[Len(round)] = history
  BY <1>1, AtCommit
<1>3. Len(round) \in Nat /\ Len(round) >= 1 /\ Len(history) = npos + Len(round)
  BY <1>2, InRound
<1>4. TypeOK'
  BY <1>1 DEF TypeOK, Phase, device
<1>5. HistoryIsGreedy'
  BY <1>1 DEF HistoryIsGreedy, Upto, PromptLen, Limit
<1>6. RoundIsHistory'
  BY <1>1, <1>2 DEF RoundIsHistory, PromptLen, Limit
<1>7. idx' \in 1 .. Len(round)
  BY <1>1, <1>3
<1>8. InRebuild'
  BY <1>1, <1>2, <1>3, <1>6, <1>7
     DEF InRebuild, PromptLen, Canonical, Upto, device
<1>9. (InPrefill /\ InDecide /\ InPlan /\ InJudge /\ InCommit)'
  BY <1>1 DEF InPrefill, InDecide, InPlan, InJudge, InCommit
<1> QED
  BY <1>4, <1>5, <1>8, <1>9

\* Restoring the snapshot and replaying the committed tokens puts the trunk
\* where plain decoding of the history would have put it.
LEMMA ReplayKeepsInv ==
  ASSUME DecodeInv, Replay
  PROVE  DecodeInv'
<1> USE DEF DecodeInv
<1>1. /\ pc = "commit" /\ idx = Len(round) /\ par.mode = "batched" /\ rejected
      /\ TrunkForward(snap, round, npos)
      /\ hrows' = Rows(snap, round, npos) /\ lrows' = hrows'
      /\ idx' = 1 /\ pc' = "rebuild"
      /\ UNCHANGED <<par, npos, history, gen, hitEos, logits, hprev, snap, hkv,
                     gov, deff, draft, round, rejected, eogNext>>
  BY DEF Replay
<1>2. /\ RoundIsHistory /\ Len(round) <= deff + 1
      /\ npos + idx = PromptLen + Len(gen)
      /\ snap = SubSeq(history, 1, npos)
      /\ \A p \in 0 .. npos - 1 : kv[p] = SubSeq(history, 1, p + 1)
  BY <1>1, AtCommit
<1>3. /\ npos \in Nat /\ Len(round) \in Nat /\ Len(round) >= 1
      /\ history \in Seq(Token) /\ round \in Seq(Token)
      /\ Len(history) = npos + Len(round) /\ Len(history) <= Ctx
      /\ \A j \in 1 .. Len(round) : round[j] = history[npos + j]
      /\ SubSeq(history, 1, Len(history)) = history
  BY <1>2, InRound
<1>4. Continues(history, round, npos, snap)
  BY <1>2, <1>3 DEF Continues
<1>5. /\ rec' = history /\ kv' \in [Position -> View]
      /\ \A p \in 0 .. Len(history) - 1 : kv'[p] = SubSeq(history, 1, p + 1)
      /\ hrows' \in Seq(View) /\ Len(hrows') = Len(round)
      /\ \A k \in 1 .. Len(round) : hrows'[k] = SubSeq(history, 1, npos + k)
  BY <1>1, <1>4, ForwardExact
<1>6. hrows'[Len(round)] = history
  <2>1. Len(round) \in 1 .. Len(round)
    BY <1>3
  <2> QED
    BY <1>3, <1>5, <2>1
<1>7. history \in View
  BY <1>3, ShortIsText
<1>8. TypeOK'
  BY <1>1, <1>5, <1>7 DEF TypeOK, Phase
<1>9. HistoryIsGreedy'
  BY <1>1 DEF HistoryIsGreedy, Upto, PromptLen, Limit
<1>10. RoundIsHistory'
  BY <1>1, <1>2 DEF RoundIsHistory, PromptLen, Limit
<1>11. idx' \in 1 .. Len(round)
  BY <1>1, <1>3
<1>12. InRebuild'
  BY <1>1, <1>2, <1>3, <1>5, <1>6, <1>10, <1>11
     DEF InRebuild, PromptLen, Canonical, Upto
<1>13. (InPrefill /\ InDecide /\ InPlan /\ InJudge /\ InCommit)'
  BY <1>1 DEF InPrefill, InDecide, InPlan, InJudge, InCommit
<1> QED
  BY <1>8, <1>9, <1>12, <1>13

\* Rebuilding a row touches nothing but the draft head's cache.
LEMMA RebuildKeepsInv ==
  ASSUME DecodeInv, RebuildRow
  PROVE  DecodeInv'
<1> USE DEF DecodeInv
<1>1. /\ pc = "rebuild" /\ idx < Len(round)
      /\ HeadStep(round[idx + 1], npos + idx, hrows[idx])
      /\ idx' = idx + 1
      /\ UNCHANGED <<par, pc, npos, history, gen, hitEos, logits, hprev, gov,
                     rec, kv, snap, deff, draft, hrows, lrows, round, rejected,
                     eogNext>>
  BY DEF RebuildRow
<1>2. /\ RoundIsHistory /\ idx \in 1 .. Len(round) /\ Len(hrows) = Len(round)
  BY <1>1 DEF InRebuild
<1>3. npos \in Nat /\ Len(round) \in Nat /\ round \in Seq(Token)
  BY <1>2, InRound
<1>4. hkv' \in [Position -> [tok : Token, h : View]]
  <2>1. idx + 1 \in 1 .. Len(round) /\ npos + idx \in Nat
    BY <1>1, <1>2, <1>3
  <2>2. round[idx + 1] \in Token
    BY <1>3, <2>1
  <2>3. hrows[idx] \in View
    BY <1>2 DEF TypeOK
  <2> QED
    BY <1>1, <2>1, <2>2, <2>3, HeadStepType
<1>5. idx' \in 1 .. Len(round) /\ idx' \in Nat
  BY <1>1, <1>2, <1>3
<1>6. TypeOK'
  BY <1>1, <1>4, <1>5 DEF TypeOK
<1>7. HistoryIsGreedy'
  BY <1>1 DEF HistoryIsGreedy, Upto, PromptLen, Limit
<1>8. RoundIsHistory'
  BY <1>1, <1>2 DEF RoundIsHistory, PromptLen, Limit
<1>9. InRebuild'
  BY <1>1, <1>5, <1>8 DEF InRebuild, PromptLen, Canonical, Upto
<1>10. (InPrefill /\ InDecide /\ InPlan /\ InJudge /\ InCommit)'
  BY <1>1 DEF InPrefill, InDecide, InPlan, InJudge, InCommit
<1> QED
  BY <1>6, <1>7, <1>9, <1>10

\* A round ends with the trunk in step with the history.
LEMMA EndKeepsInv ==
  ASSUME DecodeInv, EndRound
  PROVE  DecodeInv'
<1> USE DEF DecodeInv
<1>1. /\ pc = "rebuild" /\ npos' = npos + Len(round) /\ hprev' = Last(hrows)
      /\ logits' = IF par.mode = "batched" THEN Last(lrows) ELSE logits
      /\ pc' = "decide"
      /\ UNCHANGED <<par, history, gen, hitEos, gov, device, roundVars>>
  BY DEF EndRound
<1>2. /\ RoundIsHistory /\ Len(history) = PromptLen + Len(gen)
      /\ rec = history
      /\ \A p \in 0 .. Len(history) - 1 : kv[p] = SubSeq(history, 1, p + 1)
      /\ Len(hrows) = Len(round) /\ hrows[Len(round)] = history
      /\ par.mode = "batched" => /\ Len(lrows) = Len(round)
                                 /\ lrows[Len(round)] = history
      /\ par.mode = "serial" => logits = history
  BY <1>1 DEF InRebuild, Canonical, Upto
<1>3. /\ npos \in Nat /\ Len(history) = npos + Len(round) /\ Len(history) <= Ctx
      /\ history \in Seq(Token) /\ Ctx \in Nat
      /\ par.mode \in {"serial", "batched"}
  BY <1>2, InRound DEF RoundIsHistory
<1>4. hprev' = history /\ logits' = history
  BY <1>1, <1>2, <1>3 DEF Last
<1>5. history \in View
  BY <1>3, ShortIsText
<1>6. npos' = Len(history) /\ npos' \in 0 .. Ctx
  BY <1>1, <1>3
<1>7. TypeOK'
  BY <1>1, <1>4, <1>5, <1>6 DEF TypeOK, Phase, device, roundVars
<1>8. HistoryIsGreedy'
  BY <1>1 DEF HistoryIsGreedy, Upto, PromptLen, Limit
<1>9. InDecide'
  BY <1>1, <1>2, <1>4, <1>6 DEF InDecide, PromptLen, Canonical, Upto, device
<1>10. (InPrefill /\ InPlan /\ InJudge /\ InCommit /\ InRebuild)'
  BY <1>1 DEF InPrefill, InPlan, InJudge, InCommit, InRebuild
<1> QED
  BY <1>7, <1>8, <1>9, <1>10

\* Serial: the decided token goes through the trunk before the drafts are judged.
LEMMA VerifyFirstKeepsInv ==
  ASSUME DecodeInv, VerifyFirst
  PROVE  DecodeInv'
<1> USE DEF DecodeInv
<1>1. /\ pc = "draft" /\ Len(draft) = deff /\ par.mode = "serial"
      /\ TrunkStep(id, npos) /\ hrows' = <<logits'>> /\ round' = <<id>>
      /\ pc' = "judge"
      /\ UNCHANGED <<par, npos, history, gen, hitEos, hprev, snap, hkv, gov,
                     deff, draft, lrows, idx, rejected, eogNext>>
  BY DEF VerifyFirst
<1>2. /\ npos \in Nat /\ history \in Seq(Token) /\ Len(history) = npos + 1
      /\ Len(history) <= Ctx /\ npos + 1 = PromptLen + Len(gen)
      /\ rec = SubSeq(history, 1, npos)
      /\ \A p \in 0 .. npos - 1 : kv[p] = SubSeq(history, 1, p + 1)
      /\ id = history[npos + 1] /\ id \in Token
  BY <1>1, AtPlan
<1>3. deff > 0 /\ deff \in Nat /\ ~rejected /\ npos + deff + 1 <= Ctx
      /\ npos + deff + 1 <= PromptLen + Limit
  BY <1>1 DEF InPlan, TypeOK
<1>4. /\ rec' = history /\ logits' = history /\ history \in View
      /\ kv' \in [Position -> View]
      /\ \A p \in 0 .. npos : kv'[p] = SubSeq(history, 1, p + 1)
  <2>1. TrunkStep(id, npos)
    BY <1>1
  <2> QED
    BY <1>2, <2>1, TrunkStepExact
<1>5. /\ round' \in Seq(Token) /\ Len(round') = 1 /\ round'[1] = history[npos + 1]
      /\ hrows' \in Seq(View) /\ Len(hrows') = 1
  BY <1>1, <1>2, <1>4
<1>6. TypeOK'
  BY <1>1, <1>4, <1>5 DEF TypeOK, Phase
<1>7. HistoryIsGreedy'
  BY <1>1 DEF HistoryIsGreedy, Upto, PromptLen, Limit
<1>8. RoundIsHistory'
  BY <1>1, <1>2, <1>3, <1>5 DEF RoundIsHistory, PromptLen, Limit
<1>9. InJudge'
  <2>1. \A p \in 0 .. Len(history) - 1 : kv'[p] = SubSeq(history, 1, p + 1)
    BY <1>2, <1>4
  <2>2. Len(round') <= deff
    BY <1>3, <1>5
  <2> QED
    BY <1>1, <1>2, <1>3, <1>4, <1>5, <1>8, <2>1, <2>2
       DEF InJudge, Canonical, Upto, PromptLen
<1>10. (InPrefill /\ InDecide /\ InPlan /\ InCommit /\ InRebuild)'
  BY <1>1 DEF InPrefill, InDecide, InPlan, InCommit, InRebuild
<1> QED
  BY <1>6, <1>7, <1>9, <1>10

\* Serial: the trunk's choice is committed whatever was drafted, and forwarded
\* only while the draft agrees with it.
LEMMA JudgeSerialKeepsInv ==
  ASSUME DecodeInv, JudgeSerial
  PROVE  DecodeInv'
<1> DEFINE k == Len(round)
<1> USE DEF DecodeInv
<1>1. /\ pc = "judge" /\ par.mode = "serial" /\ idx' = 1
      /\ UNCHANGED <<par, npos, gen, hitEos, hprev, snap, hkv, gov, deff, draft,
                     lrows, rejected>>
  BY DEF JudgeSerial
<1>2. /\ RoundIsHistory /\ k <= deff /\ ~rejected
      /\ npos + 1 = PromptLen + Len(gen)
      /\ rec = history /\ logits = history
      /\ \A p \in 0 .. Len(history) - 1 : kv[p] = SubSeq(history, 1, p + 1)
      /\ Len(hrows) = k
  BY <1>1 DEF InJudge, Canonical, Upto
<1>3. /\ npos \in Nat /\ deff \in Nat /\ k \in Nat /\ k >= 1
      /\ history \in Seq(Token) /\ Len(history) = npos + k
      /\ Len(history) < Ctx /\ npos + deff + 1 <= Ctx /\ Ctx \in Nat
      /\ SubSeq(history, 1, Len(history)) = history
  BY <1>2, InRound
<1>4. PICK t \in Sampled(logits) :
        \/ /\ t \in Eog
           /\ eogNext' = TRUE /\ pc' = "commit" /\ logits' = logits
           /\ UNCHANGED <<round, history, rec, kv, hrows>>
        \/ /\ t \notin Eog
           /\ round' = Append(round, t) /\ history' = Append(history, t)
           /\ UNCHANGED eogNext
           /\ IF t = draft[k] /\ k < deff
              THEN /\ TrunkStep(t, npos + k)
                   /\ hrows' = Append(hrows, logits')
                   /\ UNCHANGED pc
              ELSE /\ pc' = "commit" /\ logits' = logits
                   /\ UNCHANGED <<rec, kv, hrows>>
  BY DEF JudgeSerial
<1>5. t = Greedy(par.model, history) /\ t \in Token
  <2>1. t \in Sampled(history) /\ Len(history) <= Ctx
    BY <1>2, <1>3, <1>4
  <2> QED
    BY <1>3, <2>1, SampledToken
<1>7. /\ PromptLen' = PromptLen /\ Limit' = Limit /\ npos' = npos /\ gen' = gen
      /\ par' = par /\ deff' = deff /\ draft' = draft /\ rejected' = rejected
  BY <1>1 DEF PromptLen, Limit
<1>8. CASE t \in Eog
  <2>1. /\ eogNext' = TRUE /\ pc' = "commit" /\ logits' = logits
        /\ UNCHANGED <<round, history, rec, kv, hrows>>
    BY <1>4, <1>8
  <2>2. TypeOK'
    BY <1>1, <2>1 DEF TypeOK, Phase
  <2>3. HistoryIsGreedy'
    BY <1>7, <2>1 DEF HistoryIsGreedy, Upto
  <2>4. RoundIsHistory'
    BY <1>2, <1>7, <2>1 DEF RoundIsHistory
  <2>5. idx' \in 1 .. Len(round) /\ Len(round) <= deff + 1
    BY <1>1, <1>2, <1>3
  <2>6. InCommit'
    BY <1>1, <1>2, <1>7, <2>1, <2>4, <2>5 DEF InCommit
  <2>7. (InPrefill /\ InDecide /\ InPlan /\ InJudge /\ InRebuild)'
    BY <2>1 DEF InPrefill, InDecide, InPlan, InJudge, InRebuild
  <2> QED
    BY <2>2, <2>3, <2>6, <2>7
<1>9. CASE t \notin Eog
  <2>1. /\ round' = Append(round, t) /\ history' = Append(history, t)
        /\ eogNext' = eogNext
    BY <1>4, <1>9
  <2>2. /\ RoundIsHistory'
        /\ round' \in Seq(Token) /\ Len(round') = k + 1
        /\ history' \in Seq(Token) /\ Len(history') = Len(history) + 1
        /\ history'[Len(history) + 1] = t
        /\ \A n \in 0 .. Len(history) :
             SubSeq(history', 1, n) = SubSeq(history, 1, n)
    <3>1. UNCHANGED <<par, npos, deff, draft>>
      BY <1>1
    <3> QED
      BY <1>2, <1>5, <2>1, <3>1, RoundGrows
  <2>3. HistoryIsGreedy'
    BY <1>3, <1>5, <1>7, <2>1, HistoryGrows
  <2>4. /\ rec = SubSeq(history', 1, npos + k)
        /\ \A p \in 0 .. npos + k - 1 : kv[p] = SubSeq(history', 1, p + 1)
    <3>1. npos + k \in 0 .. Len(history)
      BY <1>3
    <3>2. SubSeq(history', 1, npos + k) = history
      BY <1>3, <2>2, <3>1
    <3>3. \A p \in 0 .. npos + k - 1 : p + 1 \in 0 .. Len(history)
      BY <1>3
    <3> QED
      BY <1>2, <1>3, <2>2, <3>2, <3>3
  <2>5. CASE t = draft[k] /\ k < deff
    <3>1. /\ TrunkStep(t, npos + k) /\ hrows' = Append(hrows, logits')
          /\ pc' = pc
      BY <1>4, <1>9, <2>5
    <3>2. /\ rec' = history' /\ logits' = history' /\ history' \in View
          /\ kv' \in [Position -> View]
          /\ \A p \in 0 .. npos + k : kv'[p] = SubSeq(history', 1, p + 1)
      <4> DEFINE H == history'
                 at == npos + k
      <4>1. /\ H \in Seq(Token) /\ at \in Nat /\ Len(H) = at + 1
            /\ Len(H) <= Ctx /\ t = H[at + 1]
        BY <1>2, <1>3, <2>2
      <4>2. rec = SubSeq(H, 1, at) /\ TrunkStep(t, at)
            /\ \A p \in 0 .. at - 1 : kv[p] = SubSeq(H, 1, p + 1)
        <5>1. at - 1 = npos + k - 1
          BY <1>3
        <5> QED
          BY <2>4, <3>1, <5>1
      <4> HIDE DEF H, at
      <4>3. /\ rec' = H /\ logits' = H /\ H \in View
            /\ kv' \in [Position -> View]
            /\ \A p \in 0 .. at : kv'[p] = SubSeq(H, 1, p + 1)
        BY <4>1, <4>2, TrunkStepExact
      <4> QED
        BY <4>3 DEF H, at
    <3>3. hrows' \in Seq(View) /\ Len(hrows') = k + 1
      <4>1. hrows \in Seq(View) /\ logits' \in View
        BY <3>2 DEF TypeOK
      <4> QED
        BY <1>2, <3>1, <4>1, AppendPrefix
    <3>4. eogNext' \in BOOLEAN /\ idx' \in Nat /\ pc' = "judge"
      BY <1>1, <2>1, <3>1 DEF TypeOK
    <3>5. TypeOK'
      BY <1>1, <2>2, <3>2, <3>3, <3>4 DEF TypeOK, Phase
    <3>6. InJudge'
      <4>1. \A p \in 0 .. Len(history') - 1 : kv'[p] = SubSeq(history', 1, p + 1)
        BY <1>3, <2>2, <3>2
      <4>2. Len(round') <= deff
        BY <1>3, <2>2, <2>5
      <4> QED
        BY <1>1, <1>2, <1>7, <2>2, <3>2, <3>3, <4>1, <4>2
           DEF InJudge, Canonical, Upto
    <3>7. (InPrefill /\ InDecide /\ InPlan /\ InCommit /\ InRebuild)'
      BY <3>4 DEF InPrefill, InDecide, InPlan, InCommit, InRebuild
    <3> QED
      BY <2>3, <3>5, <3>6, <3>7
  <2>6. CASE ~(t = draft[k] /\ k < deff)
    <3>1. /\ pc' = "commit" /\ logits' = logits
          /\ rec' = rec /\ kv' = kv /\ hrows' = hrows
      BY <1>4, <1>9, <2>6
    <3>2. eogNext' \in BOOLEAN /\ idx' \in Nat
      BY <1>1, <2>1 DEF TypeOK
    <3>3. TypeOK'
      BY <1>1, <2>2, <3>1, <3>2 DEF TypeOK, Phase
    <3>4. InCommit'
      <4>1. Len(history') - 1 = npos + k
        BY <1>3, <2>2
      <4>2. idx' \in 1 .. Len(round') /\ Len(round') <= deff + 1
            /\ Len(round') >= 2 /\ Len(hrows) = Len(round') - 1
        BY <1>1, <1>2, <1>3, <2>2
      <4>3. (Len(history') - 1) - 1 = npos + k - 1
        BY <1>3, <4>1
      <4>4. /\ rec' = SubSeq(history', 1, Len(history') - 1)
            /\ \A p \in 0 .. (Len(history') - 1) - 1 :
                 kv'[p] = SubSeq(history', 1, p + 1)
        BY <2>4, <3>1, <4>1, <4>3
      <4>5. npos' + idx' = PromptLen' + Len(gen') /\ par'.mode = "serial"
        BY <1>1, <1>2, <1>7
      <4>6. Len(round') <= deff' + 1 /\ Len(hrows') = Len(round') - 1
        BY <1>7, <3>1, <4>2
      <4> QED
        BY <2>2, <4>2, <4>4, <4>5, <4>6 DEF InCommit, Canonical, Upto
    <3>5. (InPrefill /\ InDecide /\ InPlan /\ InJudge /\ InRebuild)'
      BY <3>1 DEF InPrefill, InDecide, InPlan, InJudge, InRebuild
    <3> QED
      BY <2>3, <3>3, <3>4, <3>5
  <2> QED
    BY <2>5, <2>6
<1> QED
  BY <1>8, <1>9

\* Serial: the last decided token goes through the trunk.
LEMMA ForwardLastKeepsInv ==
  ASSUME DecodeInv, ForwardLast
  PROVE  DecodeInv'
<1> DEFINE agreed == Len(round) - 1
<1> USE DEF DecodeInv
<1>1. /\ pc = "commit" /\ idx = Len(round) /\ par.mode = "serial" /\ ~eogNext
      /\ TrunkStep(Last(round), npos + Len(round) - 1)
      /\ hrows' = Append(hrows, logits')
      /\ idx' = 1 /\ pc' = "rebuild"
      /\ UNCHANGED <<par, npos, history, gen, hitEos, hprev, snap, hkv, deff,
                     draft, lrows, round, rejected, eogNext>>
  BY DEF ForwardLast
<1>2. /\ RoundIsHistory /\ Len(round) <= deff + 1
      /\ npos + idx = PromptLen + Len(gen)
      /\ rec = SubSeq(history, 1, Len(history) - 1)
      /\ \A p \in 0 .. Len(history) - 2 : kv[p] = SubSeq(history, 1, p + 1)
      /\ Len(hrows) = Len(round) - 1 /\ Len(round) >= 2
  BY <1>1, AtCommit
<1>3. /\ npos \in Nat /\ Len(round) \in Nat
      /\ history \in Seq(Token) /\ round \in Seq(Token)
      /\ Len(history) = npos + Len(round) /\ Len(history) <= Ctx
      /\ \A j \in 1 .. Len(round) : round[j] = history[npos + j]
      /\ SubSeq(history, 1, Len(history)) = history
  BY <1>2, InRound
<1>4. /\ rec' = history /\ logits' = history /\ history \in View
      /\ kv' \in [Position -> View]
      /\ \A p \in 0 .. Len(history) - 1 : kv'[p] = SubSeq(history, 1, p + 1)
  <2> DEFINE at == npos + Len(round) - 1
             t  == Last(round)
  <2>1. at \in Nat /\ Len(history) = at + 1 /\ Len(history) - 1 = at
        /\ Len(history) - 2 = at - 1
    BY <1>2, <1>3
  <2>2. t = history[at + 1]
    <3>1. Last(round) = round[Len(round)] /\ Len(round) \in 1 .. Len(round)
      BY <1>2, <1>3 DEF Last
    <3>2. round[Len(round)] = history[npos + Len(round)]
      BY <1>3, <3>1
    <3> QED
      BY <1>3, <3>1, <3>2
  <2>3. TrunkStep(t, at)
    BY <1>1
  <2>4. rec = SubSeq(history, 1, at)
        /\ \A p \in 0 .. at - 1 : kv[p] = SubSeq(history, 1, p + 1)
    BY <1>2, <2>1
  <2> HIDE DEF at, t
  <2>5. /\ rec' = history /\ logits' = history /\ history \in View
        /\ kv' \in [Position -> View]
        /\ \A p \in 0 .. at : kv'[p] = SubSeq(history, 1, p + 1)
    BY <1>3, <2>1, <2>2, <2>3, <2>4, TrunkStepExact
  <2> QED
    BY <2>1, <2>5
<1>5. /\ hrows' \in Seq(View) /\ Len(hrows') = Len(round)
      /\ hrows'[Len(round)] = history
  <2>1. hrows \in Seq(View) /\ logits' \in View
    BY <1>4 DEF TypeOK
  <2>2. hrows' \in Seq(View) /\ Len(hrows') = Len(hrows) + 1
        /\ hrows'[Len(hrows) + 1] = logits'
    BY <1>1, <2>1, AppendPrefix
  <2>3. Len(hrows) + 1 = Len(round)
    BY <1>2, <1>3
  <2> QED
    BY <1>4, <2>2, <2>3
<1>6. gov' \in [rounds : Nat, acc : Nat, drafted : Nat, cool : Nat]
  <2>1. PICK n \in {agreed - 1, agreed} : ObserveRound(n)
    BY DEF ForwardLast
  <2>2. n \in Nat
    BY <1>2, <1>3
  <2> QED
    BY <2>1, <2>2, ObserveType
<1>7. TypeOK'
  BY <1>1, <1>4, <1>5, <1>6 DEF TypeOK, Phase
<1>8. HistoryIsGreedy'
  BY <1>1 DEF HistoryIsGreedy, Upto, PromptLen, Limit
<1>9. RoundIsHistory'
  BY <1>1, <1>2 DEF RoundIsHistory, PromptLen, Limit
<1>10. idx' \in 1 .. Len(round)
  BY <1>1, <1>2, <1>3
<1>11. InRebuild'
  BY <1>1, <1>2, <1>3, <1>4, <1>5, <1>9, <1>10
     DEF InRebuild, PromptLen, Canonical, Upto
<1>12. (InPrefill /\ InDecide /\ InPlan /\ InJudge /\ InCommit)'
  BY <1>1 DEF InPrefill, InDecide, InPlan, InJudge, InCommit
<1> QED
  BY <1>7, <1>8, <1>11, <1>12

-----------------------------------------------------------------------------
(* The theorems                                                            *)

\* A stuttering step preserves the invariant.
LEMMA StutterKeepsInv ==
  ASSUME DecodeInv, UNCHANGED vars
  PROVE  DecodeInv'
<1> USE DEF DecodeInv
<1>1. TypeOK'
  BY DEF TypeOK, vars, device, roundVars
<1>2. HistoryIsGreedy'
  BY DEF HistoryIsGreedy, Upto, PromptLen, Limit, vars
<1>3. (InPrefill /\ InDecide /\ InPlan)'
  BY DEF InPrefill, InDecide, InPlan, Canonical, Upto, PromptLen, Limit, vars,
     device, roundVars
<1>4. RoundIsHistory' = RoundIsHistory /\ PassIsVerified' = PassIsVerified
  BY DEF RoundIsHistory, PassIsVerified, Verified, Upto, PromptLen, Limit, vars,
     device, roundVars
<1>5. (InJudge /\ InCommit /\ InRebuild)'
  BY <1>4 DEF InJudge, InCommit, InRebuild, Canonical, Upto, PromptLen, vars,
     device, roundVars
<1> QED
  BY <1>1, <1>2, <1>3, <1>5

-----------------------------------------------------------------------------
(* The token that is decided                                               *)

\* At the top of the loop: the trunk's choice ends the loop or is streamed.
LEMMA DecideDoes ==
  ASSUME DecodeInv, Decide
  PROVE  LET t == Greedy(par.model, history)
         IN  /\ pc = "decide" /\ Len(gen) < Limit /\ t \in Token
             /\ Len(history) = PromptLen + Len(gen)
             /\ UNCHANGED <<par, draft, eogNext>>
             /\ \/ /\ t \in Eog /\ hitEos' = TRUE /\ pc' = "done"
                   /\ UNCHANGED <<gen, history>>
                \/ /\ t \notin Eog /\ gen' = Append(gen, t)
                   /\ history' = Append(history, t)
                   /\ pc' = "plan" /\ UNCHANGED hitEos
<1>1. /\ pc = "decide" /\ Len(gen) < Limit /\ logits = history
      /\ Len(history) = PromptLen + Len(gen)
  BY DEF Decide, DecodeInv, InDecide
<1>2. /\ history \in Seq(Token) /\ Len(history) <= Ctx /\ TypeOK
  BY DEF DecodeInv, TypeOK, HistoryIsGreedy
<1>3. Sampled(logits) = {Greedy(par.model, history)} /\ Greedy(par.model, history) \in Token
  BY <1>1, <1>2, SampledToken
<1>4. UNCHANGED <<par, draft, eogNext>>
  BY DEF Decide, roundVars
<1> QED
  BY <1>1, <1>3, <1>4 DEF Decide

\* In a batched round: only a draft that the trunk chose itself is decided.
LEMMA JudgeBatchDoes ==
  ASSUME DecodeInv, JudgeBatch
  PROVE  LET t == Greedy(par.model, history)
         IN  /\ pc = "judge" /\ par.mode = "batched" /\ t \in Token
             /\ pc' \in {"judge", "commit"}
             /\ UNCHANGED <<par, draft, eogNext, hitEos, gen>>
             /\ \/ UNCHANGED history
                \/ /\ history' = Append(history, t)
                   /\ \E k \in 1 .. Len(draft) : t = draft[k]
<1>1. /\ pc = "judge" /\ par.mode = "batched"
      /\ UNCHANGED <<par, draft, eogNext, hitEos, gen>>
  BY DEF JudgeBatch
<1>2. /\ lrows[Len(round)] = history /\ Len(round) \in 1 .. deff /\ Len(draft) = deff
      /\ RoundIsHistory
  BY <1>1, VerifiedIsHistory DEF DecodeInv, InJudge, RoundIsHistory
<1>3. /\ history \in Seq(Token) /\ Len(history) <= Ctx /\ TypeOK
  BY DEF DecodeInv, TypeOK, HistoryIsGreedy
<1>4. /\ Sampled(lrows[Len(round)]) = {Greedy(par.model, history)}
      /\ Greedy(par.model, history) \in Token
  BY <1>2, <1>3, SampledToken
<1>5. \/ UNCHANGED history
      \/ /\ history' = Append(history, Greedy(par.model, history))
         /\ Greedy(par.model, history) = draft[Len(round)]
  BY <1>4 DEF JudgeBatch
<1>6. pc' \in {"judge", "commit"}
  BY <1>1 DEF JudgeBatch
<1> QED
  BY <1>1, <1>2, <1>4, <1>5, <1>6

\* In a serial round: an end is not decided, it ends the round.
LEMMA JudgeSerialDoes ==
  ASSUME DecodeInv, JudgeSerial
  PROVE  LET t == Greedy(par.model, history)
         IN  /\ pc = "judge" /\ par.mode = "serial" /\ t \in Token
             /\ pc' \in {"judge", "commit"} /\ Len(round) <= deff
             /\ UNCHANGED <<par, draft, hitEos, gen, deff>>
             /\ \/ t \in Eog /\ UNCHANGED <<round, history>>
                \/ t \notin Eog /\ history' = Append(history, t) /\ UNCHANGED eogNext
<1>1. /\ pc = "judge" /\ par.mode = "serial"
      /\ UNCHANGED <<par, draft, hitEos, gen, deff>>
  BY DEF JudgeSerial
<1>2. logits = history /\ Len(round) <= deff
  BY <1>1 DEF DecodeInv, InJudge
<1>3. /\ history \in Seq(Token) /\ Len(history) <= Ctx /\ TypeOK
  BY DEF DecodeInv, TypeOK, HistoryIsGreedy
<1>4. Sampled(logits) = {Greedy(par.model, history)} /\ Greedy(par.model, history) \in Token
  BY <1>2, <1>3, SampledToken
<1>5. pc' \in {"judge", "commit"}
  BY <1>1 DEF JudgeSerial
<1> QED
  BY <1>1, <1>2, <1>4, <1>5 DEF JudgeSerial

\* Between the steps of a round the trunk's state matches the tokens decided so
\* far: the inductive invariant (mtp_gen.h:185-187).
THEOREM InvHolds == Spec => []DecodeInv
<1>1. Init => DecodeInv
  BY InitInv
<1>2. DecodeInv /\ [Next]_vars => DecodeInv'
  <2> SUFFICES ASSUME DecodeInv, [Next]_vars PROVE DecodeInv'
    OBVIOUS
  <2>1. CASE PrefillChunk
    BY <2>1, PrefillKeepsInv
  <2>2. CASE Decide
    BY <2>2, DecideKeepsInv
  <2>3. CASE PlainStep \/ ScoreStep \/ IdleStep
    BY <2>3, AdvanceKeepsInv
  <2>4. CASE StartRound
    BY <2>4, StartKeepsInv
  <2>5. CASE DraftStep
    BY <2>5, DraftKeepsInv
  <2>6. CASE VerifyBatch
    BY <2>6, VerifyBatchKeepsInv
  <2>7. CASE JudgeBatch
    BY <2>7, JudgeBatchKeepsInv
  <2>8. CASE KeepBatch
    BY <2>8, KeepKeepsInv
  <2>9. CASE Replay
    BY <2>9, ReplayKeepsInv
  <2>10. CASE VerifyFirst
    BY <2>10, VerifyFirstKeepsInv
  <2>11. CASE JudgeSerial
    BY <2>11, JudgeSerialKeepsInv
  <2>12. CASE ForwardLast
    BY <2>12, ForwardLastKeepsInv
  <2>13. CASE PushToken
    BY <2>13, PushKeepsInv
  <2>14. CASE RebuildRow
    BY <2>14, RebuildKeepsInv
  <2>15. CASE EndRound
    BY <2>15, EndKeepsInv
  <2>16. CASE BudgetUsed \/ ContextFull \/ SerialEog \/ Fail \/ Terminated
    BY <2>16, StopKeepsInv
  <2>17. CASE UNCHANGED vars
    BY <2>17, StutterKeepsInv
  <2> QED
    BY <2>1, <2>2, <2>3, <2>4, <2>5, <2>6, <2>7, <2>8, <2>9, <2>10, <2>11,
       <2>12, <2>13, <2>14, <2>15, <2>16, <2>17 DEF Next, Step
<1> QED
  BY <1>1, <1>2, PTL DEF Spec

\* Every variable keeps its type.
THEOREM TypeCorrect == Spec => []TypeOK
<1>1. DecodeInv => TypeOK
  BY DEF DecodeInv
<1> QED
  BY <1>1, InvHolds, PTL

\* The prompt and what was streamed are the beginning of the history.
LEMMA StreamText ==
  ASSUME DecodeInv, NEW n \in 0 .. Len(gen)
  PROVE  par.prompt \o SubSeq(gen, 1, n) = SubSeq(history, 1, PromptLen + n)
<1>1. /\ gen \in Seq(Token) /\ history \in Seq(Token)
      /\ par.prompt \in Seq(Token) /\ PromptLen \in Nat
  BY LimitFits DEF DecodeInv, TypeOK
<1>2. /\ SubSeq(history, 1, PromptLen) = par.prompt
      /\ PromptLen + Len(gen) <= Len(history)
      /\ \A i \in 1 .. Len(gen) : gen[i] = history[PromptLen + i]
  BY DEF DecodeInv, HistoryIsGreedy, Upto
<1>3. PromptLen \in 0 .. Len(history) /\ PromptLen + n \in 0 .. Len(history)
  BY <1>1, <1>2
<1> DEFINE s == par.prompt
           t == SubSeq(gen, 1, n)
           u == SubSeq(history, 1, PromptLen + n)
<1>4. /\ t \in Seq(Token) /\ Len(t) = n
      /\ \A j \in 1 .. n : t[j] = gen[j]
  BY <1>1, Prefix
<1>5. /\ u \in Seq(Token) /\ Len(u) = PromptLen + n
      /\ \A j \in 1 .. PromptLen + n : u[j] = history[j]
  BY <1>1, <1>3, Prefix
<1>6. /\ s \in Seq(Token) /\ Len(s) = PromptLen
      /\ \A j \in 1 .. PromptLen : s[j] = history[j]
  BY <1>1, <1>2, <1>3, Prefix
<1> HIDE DEF s, t, u
<1>7. Len(u) = Len(s) + Len(t)
  BY <1>1, <1>4, <1>5, <1>6
<1>8. \A j \in 1 .. Len(s) : s[j] = u[j]
  <2> SUFFICES ASSUME NEW j \in 1 .. PromptLen PROVE s[j] = u[j]
    BY <1>6
  <2>1. j \in 1 .. PromptLen + n
    BY <1>1
  <2> QED
    BY <2>1, <1>5, <1>6
<1>9. \A j \in 1 .. Len(t) : t[j] = u[Len(s) + j]
  <2> SUFFICES ASSUME NEW j \in 1 .. n PROVE t[j] = u[PromptLen + j]
    BY <1>4, <1>6
  <2>1. j \in 1 .. Len(gen) /\ PromptLen + j \in 1 .. PromptLen + n
    BY <1>1
  <2> QED
    BY <2>1, <1>2, <1>4, <1>5
<1>10. s \o t = u
  BY <1>4, <1>5, <1>6, <1>7, <1>8, <1>9, ConcatIs
<1> QED
  BY <1>10 DEF s, t, u

\* Whatever the draft head proposes, every streamed token is the trunk's own
\* first choice after the prompt and the tokens streamed before it.
THEOREM StreamIsGreedy == Spec => []CommittedIsGreedy
<1>1. DecodeInv => CommittedIsGreedy
  <2> SUFFICES ASSUME DecodeInv, NEW i \in 1 .. Len(gen)
               PROVE  gen[i] = Greedy(par.model,
                                      par.prompt \o SubSeq(gen, 1, i - 1))
    BY DEF CommittedIsGreedy
  <2>1. gen \in Seq(Token) /\ history \in Seq(Token) /\ PromptLen \in Nat
    BY LimitFits DEF DecodeInv, TypeOK
  <2>2. /\ PromptLen + Len(gen) <= Len(history)
        /\ \A n \in 1 .. Len(gen) : gen[n] = history[PromptLen + n]
        /\ \A n \in PromptLen + 1 .. Len(history) :
             history[n] = Greedy(par.model, SubSeq(history, 1, n - 1))
    BY DEF DecodeInv, HistoryIsGreedy, Upto
  <2> DEFINE n == i - 1
             m == PromptLen + i
  <2>3. /\ n \in 0 .. Len(gen) /\ m \in PromptLen + 1 .. Len(history)
        /\ m - 1 = PromptLen + n
    BY <2>1, <2>2
  <2>4. gen[i] = history[m]
    BY <2>2
  <2> HIDE DEF n, m
  <2>5. par.prompt \o SubSeq(gen, 1, n) = SubSeq(history, 1, PromptLen + n)
    BY <2>3, StreamText
  <2>6. history[m] = Greedy(par.model, SubSeq(history, 1, m - 1))
    BY <2>2, <2>3
  <2> QED
    BY <2>3, <2>4, <2>5, <2>6 DEF n
<1> QED
  BY <1>1, InvHolds, PTL

\* At the top of every round the recurrent state, the KV rows, the logits and h
\* are those of the history, whatever was drafted, refused or replayed.
THEOREM TrunkStaysInStep == Spec => []TrunkInStep
<1>1. DecodeInv => TrunkInStep
  BY DEF DecodeInv, InDecide, TrunkInStep, Canonical, Upto
<1> QED
  BY <1>1, InvHolds, PTL

\* No round leaves the context or outgrows the token budget.
THEOREM RoundsFit == Spec => []RoundFits
<1>1. DecodeInv => RoundFits
  <2> SUFFICES ASSUME DecodeInv PROVE RoundFits
    OBVIOUS
  <2>1. Len(gen) <= Limit
    BY DEF DecodeInv, HistoryIsGreedy
  <2>2. CASE pc \in {"judge", "commit"}
    <3>1. RoundIsHistory /\ Len(round) <= deff + 1
      <4>1. deff \in Nat /\ Len(round) \in Nat
        BY DEF DecodeInv, TypeOK
      <4> QED
        BY <2>2, <4>1 DEF DecodeInv, InJudge, InCommit
    <3>2. npos + deff + 1 <= Ctx /\ npos + deff + 1 <= PromptLen + Limit
      BY <3>1, InRound
    <3> QED
      BY <2>1, <2>2, <3>1, <3>2 DEF RoundFits, PromptLen
  <2>3. CASE pc = "draft"
    BY <2>1, <2>3 DEF RoundFits, PromptLen, DecodeInv, InPlan
  <2> QED
    BY <2>1, <2>2, <2>3 DEF RoundFits
<1> QED
  BY <1>1, InvHolds, PTL

-----------------------------------------------------------------------------
(* What is known of ends of generation                                     *)

\* Nothing after the prompt is an end, nor is a draft of the batched mode.
NoEndDecided == \A i \in PromptLen + 1 .. Len(history) : history[i] \notin Eog

NoEndDrafted == par.mode = "batched" => \A i \in 1 .. Len(draft) : draft[i] \notin Eog

\* The flags are set only where the trunk has chosen an end of generation.
EndIsChosen ==
  /\ hitEos => pc = "done"
  /\ pc \in {"draft", "judge"} => ~eogNext
  /\ pc = "commit" /\ par.mode = "serial" /\ eogNext =>
       Len(round) <= deff /\ Greedy(par.model, history) \in Eog

EogInv == NoEndDecided /\ NoEndDrafted /\ EndIsChosen

\* It holds before the prefill.
LEMMA EogInit == Init => EogInv
<1> SUFFICES ASSUME Init PROVE EogInv
  OBVIOUS
<1>1. history = par.prompt /\ draft = <<>> /\ pc = "prefill" /\ hitEos = FALSE
      /\ eogNext = FALSE
  BY DEF Init
<1>2. PromptLen \in Nat /\ Len(history) = PromptLen
  BY <1>1, InitInv, LimitFits DEF DecodeInv, PromptLen
<1> QED
  BY <1>1, <1>2 DEF EogInv, NoEndDecided, NoEndDrafted, EndIsChosen

\* A token the trunk chose that is not an end may be added to the history.
LEMMA DecidedGrows ==
  ASSUME TypeOK, NoEndDecided, par' = par, NEW t \in Token, t \notin Eog,
         history' = Append(history, t)
  PROVE  NoEndDecided'
<1>1. history \in Seq(Token) /\ PromptLen \in Nat /\ PromptLen' = PromptLen
  BY LimitFits DEF TypeOK, PromptLen
<1>2. /\ Len(history') = Len(history) + 1 /\ history'[Len(history) + 1] = t
      /\ \A i \in 1 .. Len(history) : history'[i] = history[i]
  BY <1>1, AppendPrefix
<1>3. ASSUME NEW i \in PromptLen + 1 .. Len(history')
      PROVE  history'[i] \notin Eog
  <2>1. CASE i = Len(history) + 1
    BY <1>2, <2>1
  <2>2. CASE i # Len(history) + 1
    <3>1. i \in PromptLen + 1 .. Len(history) /\ i \in 1 .. Len(history)
      BY <1>1, <1>2, <2>2
    <3> QED
      BY <1>2, <3>1 DEF NoEndDecided
  <2> QED
    BY <2>1, <2>2
<1> QED
  BY <1>1, <1>3 DEF NoEndDecided

\* Steps that decide or draft nothing.
LEMMA SameDecided ==
  ASSUME UNCHANGED <<par, history>>, NoEndDecided
  PROVE  NoEndDecided'
BY DEF NoEndDecided, PromptLen

LEMMA SameDrafted ==
  ASSUME UNCHANGED <<par, draft>>, NoEndDrafted
  PROVE  NoEndDrafted'
BY DEF NoEndDrafted

\* Every step keeps it, if the batched mode's head drafts no end.
LEMMA EogKept ==
  ASSUME "batched" \notin EogDrafts, DecodeInv, EogInv, [Next]_vars
  PROVE  EogInv'
<1>1. /\ TypeOK /\ NoEndDecided /\ NoEndDrafted /\ EndIsChosen
      /\ history \in Seq(Token) /\ draft \in Seq(Token)
      /\ hitEos \in BOOLEAN /\ eogNext \in BOOLEAN
  BY DEF DecodeInv, EogInv, TypeOK
<1> USE DEF EndIsChosen
<1>2. ASSUME UNCHANGED <<par, history, draft>>, EndIsChosen'
      PROVE  EogInv'
  BY <1>1, <1>2, SameDecided, SameDrafted DEF EogInv
<1>3. CASE PrefillChunk
  BY <1>1, <1>2, <1>3 DEF PrefillChunk, roundVars
<1>4. CASE Decide
  <2>0. /\ pc = "decide" /\ UNCHANGED <<par, draft, eogNext>>
        /\ pc' \in {"done", "plan"} /\ (pc' = "plan" => UNCHANGED hitEos)
    BY <1>4, DecideDoes
  <2>1. EndIsChosen' /\ NoEndDrafted'
    BY <1>1, <2>0, SameDrafted
  <2>2. NoEndDecided'
    BY <1>1, <1>4, DecideDoes, DecidedGrows, SameDecided
  <2> QED
    BY <2>1, <2>2 DEF EogInv
<1>5. CASE BudgetUsed \/ ContextFull
  BY <1>1, <1>2, <1>5 DEF BudgetUsed, ContextFull, roundVars
<1>6. CASE PlainStep \/ ScoreStep \/ IdleStep
  BY <1>1, <1>2, <1>6 DEF PlainStep, ScoreStep, IdleStep, Advance, roundVars
<1>7. CASE StartRound
  <2>1. pc' = "draft" /\ draft' = <<>> /\ eogNext' = FALSE /\ UNCHANGED <<par, history, hitEos>>
        /\ pc = "plan"
    BY <1>7 DEF StartRound
  <2> QED
    BY <1>1, <2>1, SameDecided DEF EogInv, NoEndDrafted
<1>8. CASE DraftStep
  <2>1. UNCHANGED <<par, pc, history, hitEos, eogNext, deff, round>> /\ pc = "draft"
    BY <1>8 DEF DraftStep
  <2>2. PICK d \in Token : (d \in Eog => par.mode \in EogDrafts) /\ draft' = Append(draft, d)
    BY <1>8 DEF DraftStep
  <2>3. ASSUME par.mode = "batched", NEW i \in 1 .. Len(draft') PROVE draft'[i] \notin Eog
    BY <1>1, <2>2, <2>3, AppendPrefix DEF NoEndDrafted
  <2> QED
    BY <1>1, <2>1, <2>3, SameDecided DEF EogInv, NoEndDrafted
<1>9. CASE VerifyBatch \/ VerifyFirst
  <2>1. pc = "draft" /\ pc' = "judge" /\ UNCHANGED <<par, history, hitEos, eogNext, draft>>
    BY <1>9 DEF VerifyBatch, VerifyFirst
  <2> QED
    BY <1>1, <1>2, <2>1
<1>10. CASE JudgeBatch
  <2>1. EndIsChosen' /\ NoEndDrafted'
    BY <1>1, <1>10, JudgeBatchDoes, SameDrafted
  <2>2. NoEndDecided'
    BY <1>1, <1>10, JudgeBatchDoes, DecidedGrows, SameDecided DEF NoEndDrafted
  <2> QED
    BY <2>1, <2>2 DEF EogInv
<1>11. CASE JudgeSerial
  <2>0. /\ pc = "judge" /\ pc' \in {"judge", "commit"} /\ Len(round) <= deff
        /\ UNCHANGED <<par, draft, hitEos, deff>>
        /\ \/ Greedy(par.model, history) \in Eog /\ UNCHANGED <<round, history>>
           \/ UNCHANGED eogNext
    BY <1>11, JudgeSerialDoes
  <2>3. pc' = "judge" => UNCHANGED eogNext
    BY <1>11 DEF JudgeSerial
  <2>4. ~eogNext /\ ~hitEos
    BY <1>1, <2>0
  <2>5. ASSUME UNCHANGED eogNext PROVE EndIsChosen'
    BY <2>0, <2>4, <2>5
  <2>6. ASSUME Greedy(par.model, history) \in Eog, UNCHANGED <<round, history>>
        PROVE  EndIsChosen'
    BY <2>0, <2>3, <2>4, <2>6
  <2>1. EndIsChosen' /\ NoEndDrafted'
    BY <1>1, <2>0, <2>5, <2>6, SameDrafted
  <2>2. NoEndDecided'
    BY <1>1, <1>11, JudgeSerialDoes, DecidedGrows, SameDecided
  <2> QED
    BY <2>1, <2>2 DEF EogInv
<1>12. CASE PushToken
  BY <1>1, <1>2, <1>12 DEF PushToken
<1>13. CASE KeepBatch \/ Replay \/ ForwardLast \/ RebuildRow \/ EndRound
  <2>1. UNCHANGED <<par, history, draft, hitEos>> /\ pc \notin {"done"} /\ pc' \in {"rebuild", "decide"}
    BY <1>13 DEF KeepBatch, Replay, ForwardLast, RebuildRow, EndRound, roundVars
  <2> QED
    BY <1>1, <1>2, <2>1
<1>14. CASE SerialEog \/ Fail
  BY <1>1, <1>2, <1>14 DEF SerialEog, Fail, roundVars
<1>15. CASE Terminated \/ UNCHANGED vars
  BY <1>1, <1>2, <1>15 DEF Terminated, vars, roundVars
<1> QED
  BY <1>3, <1>4, <1>5, <1>6, <1>7, <1>8, <1>9, <1>10, <1>11, <1>12, <1>13, <1>14,
     <1>15 DEF Next, Step

\* It is an invariant together with DecodeInv.
LEMMA EogHolds ==
  ASSUME "batched" \notin EogDrafts
  PROVE  Spec => [](DecodeInv /\ EogInv)
<1>1. Init => EogInv
  BY EogInit
<1>2. DecodeInv /\ EogInv /\ [Next]_vars => EogInv'
  BY EogKept
<1> QED
  BY <1>1, <1>2, InvHolds, PTL DEF Spec

\* An end-of-generation token "ends the sequence, never committed"
\* (mtp_gen.h:487), unless the batched mode's head drafts one.
THEOREM EndsAreNotStreamed ==
  ASSUME "batched" \notin EogDrafts
  PROVE  Spec => []EogNeverStreamed
<1>1. DecodeInv /\ EogInv => EogNeverStreamed
  <2> SUFFICES ASSUME DecodeInv, EogInv, NEW i \in 1 .. Len(gen)
               PROVE  gen[i] \notin Eog
    BY DEF EogNeverStreamed
  <2>1. PromptLen \in Nat /\ gen \in Seq(Token) /\ history \in Seq(Token)
    BY LimitFits DEF DecodeInv, TypeOK
  <2>2. PromptLen + Len(gen) <= Len(history) /\ gen[i] = history[PromptLen + i]
    BY DEF DecodeInv, HistoryIsGreedy
  <2>3. PromptLen + i \in PromptLen + 1 .. Len(history)
    BY <2>1, <2>2
  <2> QED
    BY <2>2, <2>3 DEF EogInv, NoEndDecided
<1> QED
  BY <1>1, EogHolds, PTL

-----------------------------------------------------------------------------
(* The refinement                                                          *)

Task == [model |-> par.model, prompt |-> par.prompt, limit |-> Limit]
Status == IF pc = "done" THEN (IF hitEos THEN "eos" ELSE "limit")
          ELSE IF pc = "failed" THEN "failed" ELSE "running"

\* Plain decoding's next choice, when nothing is decided that was not streamed.
LEMMA ChoiceIs ==
  ASSUME DecodeInv
  PROVE  /\ Len(gen) \in Nat /\ PromptLen \in Nat /\ Limit \in Nat
         /\ Len(gen) <= Limit
         /\ Len(history) = PromptLen + Len(gen) =>
              Plain!Choice = Greedy(par.model, history)
         /\ Len(history) > PromptLen + Len(gen) =>
              Plain!Choice = history[PromptLen + Len(gen) + 1]
<1>1. /\ gen \in Seq(Token) /\ history \in Seq(Token) /\ PromptLen \in Nat /\ Limit \in Nat
      /\ Len(gen) <= Limit
  BY LimitFits DEF DecodeInv, TypeOK, HistoryIsGreedy
<1>2. par.prompt \o gen = SubSeq(history, 1, PromptLen + Len(gen))
  <2>1. SubSeq(gen, 1, Len(gen)) = gen /\ Len(gen) \in 0 .. Len(gen)
    BY <1>1
  <2> QED
    BY <2>1, StreamText
<1>3. Plain!Choice = Greedy(par.model, SubSeq(history, 1, PromptLen + Len(gen)))
  BY <1>2 DEF Plain!Choice
<1>4. ASSUME Len(history) = PromptLen + Len(gen)
      PROVE  SubSeq(history, 1, PromptLen + Len(gen)) = history
  BY <1>1, <1>4
<1>5. ASSUME Len(history) > PromptLen + Len(gen)
      PROVE  history[PromptLen + Len(gen) + 1]
               = Greedy(par.model, SubSeq(history, 1, PromptLen + Len(gen)))
  <2> DEFINE m == PromptLen + Len(gen) + 1
  <2>1. m \in PromptLen + 1 .. Len(history) /\ m - 1 = PromptLen + Len(gen)
    BY <1>1, <1>5
  <2>2. \A n \in PromptLen + 1 .. Len(history) :
          history[n] = Greedy(par.model, SubSeq(history, 1, n - 1))
    BY DEF DecodeInv, HistoryIsGreedy, Upto
  <2> HIDE DEF m
  <2>3. history[m] = Greedy(par.model, SubSeq(history, 1, m - 1))
    BY <2>1, <2>2
  <2>4. history[m] = Greedy(par.model, SubSeq(history, 1, PromptLen + Len(gen)))
    BY <2>1, <2>3
  <2> QED
    BY <2>4 DEF m
<1>6. ASSUME Len(history) = PromptLen + Len(gen)
      PROVE  Plain!Choice = Greedy(par.model, history)
  BY <1>3, <1>4, <1>6
<1>7. ASSUME Len(history) > PromptLen + Len(gen)
      PROVE  Plain!Choice = history[PromptLen + Len(gen) + 1]
  BY <1>3, <1>5, <1>7
<1>8. Len(gen) \in Nat
  BY <1>1
<1> QED
  BY <1>1, <1>6, <1>7, <1>8

\* A run starts as a plain run with the same task.
LEMMA PlainInit == ASSUME Init PROVE Plain!DInit
<1>1. DecodeInv
  BY InitInv
<1>2. par.model \in Model /\ par.prompt \in Seq(Token) /\ Limit \in Nat
  BY <1>1, LimitFits DEF DecodeInv, TypeOK
<1> QED
  BY <1>2 DEF Init, Plain!DInit

\* Every step is a step of plain decoding, or one it does not see.
LEMMA StepRefines ==
  ASSUME DecodeInv, EogInv, [Next]_vars
  PROVE  Plain!DNext \/ UNCHANGED Plain!dvars
<1> USE DEF Plain!dvars
<1>1. /\ hitEos \in BOOLEAN /\ gen \in Seq(Token) /\ history \in Seq(Token)
      /\ hitEos => pc = "done"
  BY DEF DecodeInv, TypeOK, EogInv, EndIsChosen
<1>2. UNCHANGED <<par, Limit>>
  BY DEF Next, Step, vars, Limit, PrefillChunk, Decide, BudgetUsed, ContextFull, PlainStep,
     ScoreStep, IdleStep, StartRound, DraftStep, VerifyBatch, JudgeBatch, KeepBatch,
     Replay, VerifyFirst, JudgeSerial, SerialEog, ForwardLast, PushToken, RebuildRow,
     EndRound, Fail, Terminated
<1>3. ASSUME UNCHANGED <<gen, hitEos>>, pc \notin {"done", "failed"},
             pc' \notin {"done", "failed"}
      PROVE  UNCHANGED Plain!dvars
  BY <1>2, <1>3
<1>4. CASE Decide
  <2>1. CASE pc' = "done"
    <3>1. Plain!StopAtEog
      BY <1>2, <1>4, <2>1, DecideDoes, ChoiceIs DEF Plain!StopAtEog
    <3> QED
      BY <3>1 DEF Plain!DNext
  <2>2. CASE pc' # "done"
    <3>1. Plain!Emit
      BY <1>1, <1>2, <1>4, <2>2, DecideDoes, ChoiceIs DEF Plain!Emit
    <3> QED
      BY <3>1 DEF Plain!DNext
  <2> QED
    BY <2>1, <2>2
<1>5. CASE BudgetUsed
  <2>1. /\ pc = "decide" /\ UNCHANGED <<gen, hitEos>> /\ ~hitEos
        /\ Len(gen) = Limit /\ pc' = "done"
    BY <1>1, <1>5, ChoiceIs DEF BudgetUsed
  <2> QED
    BY <1>2, <2>1 DEF Plain!DNext, Plain!StopAtLimit
<1>6. CASE ContextFull
  <2>1. /\ pc = "plan" /\ UNCHANGED <<gen, hitEos>> /\ ~hitEos /\ pc' = "done"
        /\ Len(history) >= Ctx
    BY <1>1, <1>6 DEF ContextFull
  <2>2. Len(gen) = Limit
    <3>1. Len(history) = PromptLen + Len(gen) /\ PromptLen + Limit <= Ctx /\ Ctx \in Nat
      BY <2>1, AtPlan, LimitFits DEF DecodeInv
    <3> QED
      BY <2>1, <3>1, ChoiceIs
  <2> QED
    BY <1>2, <2>1, <2>2 DEF Plain!DNext, Plain!StopAtLimit
<1>7. CASE PushToken
  <2>1. /\ pc = "commit" /\ idx < Len(round) /\ gen' = Append(gen, round[idx + 1])
        /\ UNCHANGED <<pc, hitEos>>
    BY <1>7 DEF PushToken
  <2>2. /\ RoundIsHistory /\ Len(round) <= deff + 1 /\ idx \in 1 .. Len(round)
        /\ npos + idx = PromptLen + Len(gen)
    BY <2>1, AtCommit
  <2>3. /\ npos \in Nat /\ deff \in Nat /\ Len(round) \in Nat
        /\ Len(history) = npos + Len(round)
        /\ \A j \in 1 .. Len(round) : round[j] = history[npos + j]
        /\ npos + deff + 1 <= PromptLen + Limit
    BY <2>2, InRound
  <2>4. Len(history) > PromptLen + Len(gen) /\ Len(gen) < Limit
    BY <2>1, <2>2, <2>3, ChoiceIs
  <2>5. round[idx + 1] = history[PromptLen + Len(gen) + 1]
    BY <2>1, <2>2, <2>3, ChoiceIs, SMTT(30)
  <2>6. PromptLen + Len(gen) + 1 \in PromptLen + 1 .. Len(history)
    BY <2>3, <2>4, ChoiceIs
  <2>7. history[PromptLen + Len(gen) + 1] \notin Eog
    BY <2>6 DEF EogInv, NoEndDecided
  <2>8. Plain!Emit
    BY <1>2, <2>1, <2>4, <2>5, <2>7, ChoiceIs DEF Plain!Emit
  <2> QED
    BY <2>8 DEF Plain!DNext
<1>8. CASE SerialEog
  <2>1. /\ pc = "commit" /\ idx = Len(round) /\ par.mode = "serial" /\ eogNext
        /\ hitEos' = TRUE /\ pc' = "done" /\ UNCHANGED gen
    BY <1>8 DEF SerialEog
  <2>2. /\ RoundIsHistory /\ npos + idx = PromptLen + Len(gen)
    BY <2>1, AtCommit
  <2>3. /\ npos \in Nat /\ deff \in Nat /\ Len(round) \in Nat
        /\ Len(history) = npos + Len(round)
        /\ npos + deff + 1 <= PromptLen + Limit
    BY <2>2, InRound
  <2>4. Len(round) <= deff /\ Greedy(par.model, history) \in Eog
    BY <2>1 DEF EogInv, EndIsChosen
  <2>5. Len(history) = PromptLen + Len(gen) /\ Len(gen) < Limit
    BY <2>1, <2>2, <2>3, <2>4, ChoiceIs
  <2> QED
    BY <1>2, <2>1, <2>4, <2>5, ChoiceIs DEF Plain!DNext, Plain!StopAtEog
<1>9. CASE Fail
  <2>1. pc \notin {"done", "failed"} /\ pc' = "failed" /\ UNCHANGED gen
    BY <1>9 DEF Fail
  <2> QED
    BY <1>2, <2>1 DEF Plain!DNext, Plain!Abort
<1>10. CASE Terminated \/ UNCHANGED vars
  BY <1>2, <1>10 DEF Terminated, vars
<1>11. CASE PrefillChunk \/ PlainStep \/ ScoreStep \/ IdleStep \/ StartRound
  BY <1>3, <1>11 DEF PrefillChunk, PlainStep, ScoreStep, IdleStep, Advance, StartRound
<1>12. CASE DraftStep \/ VerifyBatch \/ VerifyFirst \/ JudgeBatch \/ JudgeSerial
  <2>1. CASE DraftStep \/ VerifyBatch \/ VerifyFirst
    BY <1>3, <2>1 DEF DraftStep, VerifyBatch, VerifyFirst
  <2>2. CASE JudgeBatch
    BY <1>3, <2>2, JudgeBatchDoes
  <2>3. CASE JudgeSerial
    BY <1>3, <2>3, JudgeSerialDoes
  <2> QED
    BY <1>12, <2>1, <2>2, <2>3
<1>13. CASE KeepBatch \/ Replay \/ ForwardLast \/ RebuildRow \/ EndRound
  BY <1>3, <1>13 DEF KeepBatch, Replay, ForwardLast, RebuildRow, EndRound
<1> QED
  BY <1>4, <1>5, <1>6, <1>7, <1>8, <1>9, <1>10, <1>11, <1>12, <1>13 DEF Next, Step

\* "the output is exactly plain greedy decode" (mtp_gen.h:21-22): the same
\* tokens and the same stop, unless the batched mode's head drafts an end of
\* generation.
THEOREM RefinesPlainGreedy ==
  ASSUME "batched" \notin EogDrafts
  PROVE  Spec => IsPlainGreedy
<1>1. Init => Plain!DInit
  BY PlainInit
<1>2. DecodeInv /\ EogInv /\ [Next]_vars => [Plain!DNext]_Plain!dvars
  BY StepRefines
<1> QED
  BY <1>1, <1>2, EogHolds, PTL DEF Spec, IsPlainGreedy, Plain!DSpec

-----------------------------------------------------------------------------
(* The governor                                                            *)

\* The counters of an epoch; without the governor they are never touched.
Counts ==
  /\ gov.rounds < GovEpoch /\ gov.acc <= gov.drafted
  /\ gov.cool > 0 => gov.rounds = 0
  /\ ~par.gov => gov = NoGov

\* No round runs, and none is observed, during a cooldown.
GovInv ==
  /\ Counts
  /\ pc \in {"draft", "judge"} => gov.cool = 0
  /\ pc = "commit" /\ par.mode = "serial" => gov.cool = 0

LEMMA GovFields ==
  ASSUME TypeOK
  PROVE  /\ gov.rounds \in Nat /\ gov.acc \in Nat /\ gov.drafted \in Nat /\ gov.cool \in Nat
         /\ GovEpoch \in Nat /\ GovEpoch > 0 /\ GovCool \in Nat
         /\ NoGov.rounds = 0 /\ NoGov.acc = 0 /\ NoGov.drafted = 0 /\ NoGov.cool = 0
BY BoundAssumption DEF TypeOK, NoGov

LEMMA SetCounters ==
  ASSUME TypeOK, NEW r, NEW a, NEW d
  PROVE  LET g == [gov EXCEPT !.rounds = r, !.acc = a, !.drafted = d]
         IN  g.rounds = r /\ g.acc = a /\ g.drafted = d /\ g.cool = gov.cool
BY DEF TypeOK

LEMMA SetCool ==
  ASSUME TypeOK, NEW c
  PROVE  /\ LET g == [NoGov EXCEPT !.cool = c]
            IN  g.rounds = 0 /\ g.acc = 0 /\ g.drafted = 0 /\ g.cool = c
         /\ LET g == [gov EXCEPT !.cool = c]
            IN  /\ g.rounds = gov.rounds /\ g.acc = gov.acc /\ g.drafted = gov.drafted
                /\ g.cool = c
BY DEF TypeOK, NoGov

\* What a round that is observed outside a cooldown leaves.
LEMMA Observed ==
  ASSUME TypeOK, Counts, gov.cool = 0, UNCHANGED par,
         NEW acc \in Nat, deff \in Nat, acc <= deff, ObserveRound(acc)
  PROVE  Counts'
<1> DEFINE r == gov.rounds + 1
           a == gov.acc + acc
           d == gov.drafted + deff
           seen == [gov EXCEPT !.rounds = r, !.acc = a, !.drafted = d]
           c == IF GovDen * a < GovNum * d THEN GovCool ELSE 0
<1>1. /\ gov.acc <= gov.drafted /\ GovEpoch \in Nat /\ GovEpoch > 0
      /\ r \in Nat /\ a \in Nat /\ d \in Nat /\ a <= d
      /\ NoGov.rounds = 0 /\ NoGov.acc = 0 /\ NoGov.drafted = 0
  BY GovFields DEF Counts
<1>2. /\ seen.rounds = r /\ seen.acc = a /\ seen.drafted = d /\ seen.cool = 0
  BY SetCounters
<1>3. GovObserve(acc, deff) = IF r < GovEpoch THEN seen ELSE [NoGov EXCEPT !.cool = c]
  <2>1. GovObserve(acc, deff)
          = IF seen.rounds < GovEpoch \/ seen.cool # 0 THEN seen
            ELSE [NoGov EXCEPT !.cool =
                    IF GovDen * seen.acc < GovNum * seen.drafted THEN GovCool
                    ELSE seen.cool]
    BY DEF GovObserve
  <2> HIDE DEF seen
  <2> QED
    BY <1>2, <2>1
<1> HIDE DEF seen, r, a, d, c
<1>4. CASE ~par.gov
  BY <1>4 DEF ObserveRound, Counts
<1>5. CASE par.gov
  <2>1. gov' = GovObserve(acc, deff)
    BY <1>5 DEF ObserveRound
  <2>2. CASE r < GovEpoch
    BY <1>1, <1>2, <1>3, <1>5, <2>1, <2>2 DEF Counts
  <2>3. CASE ~(r < GovEpoch)
    <3>1. gov' = [NoGov EXCEPT !.cool = c]
      BY <1>3, <2>1, <2>3
    <3>2. gov'.rounds = 0 /\ gov'.acc = 0 /\ gov'.drafted = 0
      BY <3>1, SetCool
    <3> QED
      BY <1>1, <1>5, <3>2 DEF Counts
  <2> QED
    BY <2>2, <2>3
<1> QED
  BY <1>4, <1>5

LEMMA GovKept ==
  ASSUME DecodeInv, GovInv, [Next]_vars
  PROVE  GovInv'
<1>1. TypeOK /\ deff \in Nat /\ Counts
  BY DEF DecodeInv, TypeOK, GovInv
<1> USE DEF GovInv
<1>2. ASSUME UNCHANGED <<par, gov>>
      PROVE  Counts'
  BY <1>1, <1>2 DEF Counts
<1>3. ASSUME UNCHANGED <<par, gov>>, pc' \notin {"draft", "judge", "commit"}
      PROVE  GovInv'
  BY <1>2, <1>3
<1>4. ASSUME UNCHANGED <<par, gov>>, pc \in {"draft", "judge", "commit"}, pc' = pc
      PROVE  GovInv'
  BY <1>2, <1>4
<1>5. CASE PrefillChunk \/ Decide \/ BudgetUsed \/ ContextFull \/ PlainStep \/ ScoreStep
  <2>1. UNCHANGED <<par, gov>> /\ pc' \notin {"draft", "judge", "commit"}
    BY <1>5 DEF PrefillChunk, Decide, BudgetUsed, ContextFull, PlainStep, ScoreStep, Advance
  <2> QED
    BY <1>3, <2>1
<1>6. CASE IdleStep
  <2>1. pc' = "decide" /\ UNCHANGED par
        /\ gov' = IF Cooling THEN [gov EXCEPT !.cool = @ - 1] ELSE gov
    BY <1>6 DEF IdleStep, Advance
  <2>2. CASE ~Cooling
    BY <1>3, <2>1, <2>2
  <2>3. CASE Cooling
    <3>1. par.gov /\ gov.cool > 0
      BY <2>3 DEF Cooling
    <3>2. gov' = [gov EXCEPT !.cool = gov.cool - 1]
      BY <2>1, <2>3
    <3>3. UNCHANGED <<gov.rounds, gov.acc, gov.drafted>>
      BY <1>1, <3>2, SetCool
    <3> QED
      BY <1>1, <2>1, <3>1, <3>3 DEF Counts
  <2> QED
    BY <2>2, <2>3
<1>7. CASE StartRound
  <2>1. pc' = "draft" /\ UNCHANGED <<par, gov>> /\ ~Cooling /\ DraftRoom > 0
    BY <1>7 DEF StartRound
  <2>2. gov.cool = 0
    <3>1. CASE par.gov
      BY <1>1, <2>1, <3>1, GovFields DEF Cooling
    <3>2. CASE ~par.gov
      BY <1>1, <3>2, GovFields DEF Counts
    <3> QED
      BY <3>1, <3>2
  <2> QED
    BY <1>2, <2>1, <2>2
<1>8. CASE DraftStep \/ VerifyBatch \/ VerifyFirst
  <2>1. pc = "draft" /\ pc' \in {"draft", "judge"} /\ UNCHANGED <<par, gov>>
    BY <1>8 DEF DraftStep, VerifyBatch, VerifyFirst
  <2> QED
    BY <1>2, <2>1
<1>9. CASE JudgeBatch
  <2>1. pc = "judge" /\ par.mode = "batched" /\ UNCHANGED <<par, deff>>
    BY <1>9 DEF JudgeBatch
  <2>2. gov.cool = 0 /\ Len(round) \in Nat /\ Len(round) >= 1 /\ Len(round) <= deff
    BY <2>1, InRound DEF DecodeInv, InJudge
  <2>3. \/ pc' = "commit" /\ ObserveRound(Len(round) - 1)
        \/ pc' = "commit" /\ ObserveRound(Len(round))
        \/ pc' = "judge" /\ UNCHANGED gov
    <3> DEFINE k == Len(round)
    <3>1. PICK t \in Sampled(lrows[k]) :
            IF t # draft[k]
            THEN pc' = "commit" /\ ObserveRound(k - 1)
            ELSE IF k = deff THEN pc' = "commit" /\ ObserveRound(k)
                             ELSE UNCHANGED <<pc, gov>>
      BY <1>9 DEF JudgeBatch
    <3> HIDE DEF k
    <3>2. \/ pc' = "commit" /\ ObserveRound(k - 1)
          \/ pc' = "commit" /\ ObserveRound(k)
          \/ UNCHANGED <<pc, gov>>
      BY <3>1
    <3> QED
      BY <2>1, <3>2 DEF k
  <2>4. Len(round) - 1 \in Nat /\ Len(round) - 1 <= deff
    BY <1>1, <2>2
  <2>5. Counts'
    BY <1>1, <1>2, <2>1, <2>2, <2>3, <2>4, Observed
  <2> QED
    BY <2>1, <2>2, <2>3, <2>5
<1>10. CASE JudgeSerial
  <2>1. pc = "judge" /\ pc' \in {"judge", "commit"} /\ UNCHANGED <<par, gov>>
    BY <1>10 DEF JudgeSerial
  <2> QED
    BY <1>2, <2>1
<1>11. CASE ForwardLast
  <2>1. pc = "commit" /\ par.mode = "serial" /\ ~eogNext /\ UNCHANGED <<par, deff>>
        /\ pc' = "rebuild"
    BY <1>11 DEF ForwardLast
  <2>2. gov.cool = 0 /\ Len(round) \in Nat /\ Len(round) >= 2 /\ Len(round) <= deff + 1
    BY <2>1, AtCommit, InRound DEF DecodeInv
  <2>3. ObserveRound(Len(round) - 2) \/ ObserveRound(Len(round) - 1)
    <3>1. (Len(round) - 1) - 1 = Len(round) - 2
      BY <2>2
    <3> QED
      BY <1>11, <3>1 DEF ForwardLast
  <2>4. /\ Len(round) - 1 \in Nat /\ Len(round) - 1 <= deff
        /\ Len(round) - 2 \in Nat /\ Len(round) - 2 <= deff
    BY <1>1, <2>2
  <2>5. Counts'
    BY <1>1, <2>1, <2>2, <2>3, <2>4, Observed
  <2> QED
    BY <2>1, <2>5
<1>12. CASE PushToken
  <2>1. pc = "commit" /\ pc' = pc /\ UNCHANGED <<par, gov>>
    BY <1>12 DEF PushToken
  <2> QED
    BY <1>4, <2>1
<1>13. CASE KeepBatch \/ Replay \/ RebuildRow \/ EndRound \/ SerialEog \/ Fail
  <2>1. pc' \notin {"draft", "judge", "commit"} /\ UNCHANGED <<par, gov>>
    BY <1>13 DEF KeepBatch, Replay, RebuildRow, EndRound, SerialEog, Fail
  <2> QED
    BY <1>3, <2>1
<1>14. CASE Terminated \/ UNCHANGED vars
  BY <1>1, <1>2, <1>14 DEF Terminated, vars
<1> QED
  BY <1>5, <1>6, <1>7, <1>8, <1>9, <1>10, <1>11, <1>12, <1>13, <1>14 DEF Next, Step

\* The governor's epochs never outgrow their length, count no more accepted than
\* drafted tokens, and no round runs during a cooldown (mtp_gen.h:104, 286).
THEOREM GovernorStaysSane == Spec => []GovernorSane
<1>1. Init => GovInv
  BY GovFields, InitInv DEF Init, DecodeInv, GovInv, Counts
<1>2. DecodeInv /\ GovInv /\ [Next]_vars => GovInv'
  BY GovKept
<1>3. GovInv => GovernorSane
  BY DEF GovInv, Counts, GovernorSane
<1> QED
  BY <1>1, <1>2, <1>3, InvHolds, PTL DEF Spec

-----------------------------------------------------------------------------
(* The draft head's rows                                                   *)

\* The head's rows below n are those of the history.
HeadRows(n) == \A p \in 0 .. n - 1 : hkv[p] = [tok |-> history[p + 1], h |-> Upto(p)]

\* The first n of the round's trunk rows are those of the history.
RowsAre(n) == \A j \in 1 .. n : hrows[j] = Upto(npos + j)

\* What the rows are built from, and how far they have been built, at each
\* place of a round.
HeadInv ==
  /\ pc \in {"prefill", "plan", "draft"} => hprev = Upto(npos)
  /\ pc = "judge" /\ par.mode = "serial" => RowsAre(Len(round))
  /\ pc = "commit" /\ par.mode = "batched" /\ ~rejected => RowsAre(Len(round))
  /\ pc = "commit" /\ par.mode = "serial" /\ ~eogNext => RowsAre(Len(round) - 1)
  /\ pc = "rebuild" => RowsAre(Len(round))
  /\ par.mode # "plain" =>
       /\ pc \in {"prefill", "decide", "plan"} => HeadRows(npos)
       /\ pc = "draft" => HeadRows(npos + IF draft = <<>> THEN 0 ELSE 1)
       /\ pc \in {"judge", "commit"} => HeadRows(npos + 1)
       /\ pc = "rebuild" => HeadRows(npos + idx)

LEMMA HeadStepRow ==
  ASSUME TypeOK, NEW t, NEW p \in Nat, NEW h, HeadStep(t, p, h)
  PROVE  /\ p \in Position /\ hkv'[p] = [tok |-> t, h |-> h]
         /\ \A q \in Position : q # p => hkv'[q] = hkv[q]
BY BoundAssumption DEF TypeOK, HeadStep, Position

\* What is decided later does not change what was decided before.
LEMMA HistorySame ==
  ASSUME history \in Seq(Token),
         UNCHANGED history \/ \E t \in Token : history' = Append(history, t)
  PROVE  /\ \A i \in 1 .. Len(history) : history'[i] = history[i]
         /\ \A n \in 0 .. Len(history) : SubSeq(history', 1, n) = SubSeq(history, 1, n)
BY AppendPrefix

LEMMA RowsSame ==
  ASSUME history \in Seq(Token),
         UNCHANGED history \/ \E t \in Token : history' = Append(history, t),
         NEW n \in Nat, n <= Len(history), HeadRows(n),
         \A p \in 0 .. n - 1 : hkv'[p] = hkv[p]
  PROVE  \A p \in 0 .. n - 1 : hkv'[p] = [tok |-> history'[p + 1], h |-> SubSeq(history', 1, p)]
<1> SUFFICES ASSUME NEW p \in 0 .. n - 1
             PROVE  hkv'[p] = [tok |-> history'[p + 1], h |-> SubSeq(history', 1, p)]
  OBVIOUS
<1>1. p + 1 \in 1 .. Len(history) /\ p \in 0 .. Len(history)
  OBVIOUS
<1>2. hkv[p] = [tok |-> history[p + 1], h |-> SubSeq(history, 1, p)]
  BY DEF HeadRows, Upto
<1> QED
  BY <1>1, <1>2, HistorySame

\* The head absorbs the next token of the history with the trunk's h before it.
LEMMA RowAdded ==
  ASSUME TypeOK, UNCHANGED history, NEW n \in Nat, HeadRows(n),
         NEW t, NEW h, HeadStep(t, n, h), t = history[n + 1], h = Upto(n)
  PROVE  \A p \in 0 .. n : hkv'[p] = [tok |-> history'[p + 1], h |-> SubSeq(history', 1, p)]
<1> SUFFICES ASSUME NEW p \in 0 .. n
             PROVE  hkv'[p] = [tok |-> history'[p + 1], h |-> SubSeq(history', 1, p)]
  OBVIOUS
<1>1. n \in Position /\ hkv'[n] = [tok |-> t, h |-> h]
      /\ \A q \in Position : q # n => hkv'[q] = hkv[q]
  BY HeadStepRow
<1>2. CASE p = n
  BY <1>1, <1>2 DEF Upto
<1>3. CASE p # n
  <2>1. p \in 0 .. n - 1 /\ p \in Position
    BY <1>1, <1>3, BoundAssumption DEF Position
  <2> QED
    BY <1>1, <1>3, <2>1 DEF HeadRows, Upto
<1> QED
  BY <1>2, <1>3

LEMMA HeadInit == ASSUME Init PROVE HeadInv
<1>1. /\ pc = "prefill" /\ npos = 0 /\ hprev = <<>> /\ history = par.prompt
  BY DEF Init
<1>2. history \in Seq(Token)
  BY InitInv DEF DecodeInv, TypeOK
<1>3. SubSeq(history, 1, 0) = <<>>
  BY <1>2
<1> QED
  BY <1>1, <1>3 DEF HeadInv, HeadRows, Upto

LEMMA HeadPrefill ==
  ASSUME DecodeInv, HeadInv, PrefillChunk
  PROVE  HeadInv'
<1> DEFINE chunk == SubSeq(par.prompt, npos + 1, npos + Take)
           H     == SubSeq(par.prompt, 1, npos + Take)
           rows  == Rows(rec, chunk, npos)
<1>1. /\ npos \in Nat /\ Take \in Nat /\ 1 <= Take /\ npos + Take <= Len(par.prompt)
      /\ history = par.prompt /\ Len(chunk) = Take
      /\ \A j \in 1 .. Take : chunk[j] = par.prompt[npos + j]
      /\ \A k \in 1 .. Take : rows[k] = SubSeq(par.prompt, 1, npos + k)
      /\ Last(rows) = H
  BY ChunkExact DEF PromptLen
<1>2. /\ pc = "prefill" /\ pc' \in {"prefill", "decide"} /\ npos' = npos + Take
      /\ hprev' = Last(rows) /\ UNCHANGED <<par, history>>
  BY DEF PrefillChunk
<1>3. hprev = SubSeq(par.prompt, 1, npos) /\ (par.mode # "plain" => HeadRows(npos))
  BY <1>1, <1>2 DEF HeadInv, Upto
<1>4. ASSUME par.mode # "plain"
      PROVE  hkv' = [p \in Position |->
                       IF p \in npos .. npos + Take - 1
                       THEN [tok |-> chunk[p - npos + 1],
                             h |-> IF p - npos + 1 = 1 THEN hprev ELSE rows[p - npos]]
                       ELSE hkv[p]]
  <2>1. hkv' = [p \in Position |->
                  IF p \in npos .. npos + Take - 1
                  THEN [tok |-> chunk[p - npos + 1],
                        h |-> IF p - npos + 1 = 1 THEN hprev ELSE rows[(p - npos + 1) - 1]]
                  ELSE hkv[p]]
    BY <1>4, ZenonT(60) DEF PrefillChunk
  <2>2. ASSUME NEW p \in Position
        PROVE  (p - npos + 1) - 1 = p - npos
    BY <1>1, BoundAssumption DEF Position
  <2> HIDE DEF chunk, H, rows
  <2> QED
    BY <2>1, <2>2, SMTT(60)
<1>5. hprev' = SubSeq(par.prompt, 1, npos')
  BY <1>1, <1>2
<1> HIDE DEF chunk, H, rows
<1>6. ASSUME par.mode # "plain", NEW p \in 0 .. npos' - 1
      PROVE  hkv'[p] = [tok |-> par.prompt[p + 1], h |-> SubSeq(par.prompt, 1, p)]
  <2>1. p \in Position
    <3>1. npos + Take <= Ctx /\ npos' = npos + Take /\ npos' \in Nat /\ Ctx \in Nat
      <4>1. PromptLen \in Nat /\ PromptLen < Ctx /\ Ctx \in Nat
        BY LimitFits DEF DecodeInv
      <4> QED
        BY <1>1, <1>2, <4>1 DEF PromptLen
    <3> QED
      BY <3>1 DEF Position
  <2>2. CASE p \in npos .. npos + Take - 1
    <3>1. p - npos + 1 \in 1 .. Take /\ npos + (p - npos + 1) = p + 1
      BY <1>1, <2>2
    <3>2. chunk[p - npos + 1] = par.prompt[p + 1]
      BY <1>1, <3>1
    <3>3. hkv'[p] = [tok |-> chunk[p - npos + 1],
                     h |-> IF p - npos + 1 = 1 THEN hprev ELSE rows[p - npos]]
      BY <1>4, <1>6, <2>1, <2>2
    <3>4. CASE p = npos
      BY <1>1, <1>3, <3>2, <3>3, <3>4
    <3>5. CASE p # npos
      <4>1. p - npos \in 1 .. Take /\ npos + (p - npos) = p /\ p - npos + 1 # 1
        BY <1>1, <2>2, <3>5
      <4>2. rows[p - npos] = SubSeq(par.prompt, 1, p)
        BY <1>1, <4>1
      <4> QED
        BY <3>2, <3>3, <4>1, <4>2
    <3> QED
      BY <3>4, <3>5
  <2>3. CASE p \notin npos .. npos + Take - 1
    <3>1. p \in 0 .. npos - 1
      BY <1>1, <1>2, <2>3
    <3>2. hkv'[p] = hkv[p]
      BY <1>4, <1>6, <2>1, <2>3
    <3> QED
      BY <1>1, <1>3, <1>6, <3>1, <3>2 DEF HeadRows, Upto
  <2> QED
    BY <2>2, <2>3
<1> QED
  BY <1>1, <1>2, <1>5, <1>6 DEF HeadInv, HeadRows, Upto

LEMMA HeadDecide ==
  ASSUME DecodeInv, HeadInv, Decide
  PROVE  HeadInv'
<1>1. /\ pc = "decide" /\ UNCHANGED <<par, npos, hprev, hkv>>
      /\ pc' \in {"done", "plan"}
  BY DEF Decide, device
<1>2. /\ npos = Len(history) /\ hprev = history /\ history \in Seq(Token)
  BY <1>1 DEF DecodeInv, InDecide, TypeOK
<1>3. UNCHANGED history \/ \E t \in Token : history' = Append(history, t)
  BY DecideDoes
<1>4. SubSeq(history', 1, npos) = SubSeq(history, 1, npos)
  BY <1>2, <1>3, HistorySame
<1>5. hprev' = SubSeq(history', 1, npos)
  BY <1>1, <1>2, <1>4
<1>6. par.mode # "plain" => HeadRows(npos)
  BY <1>1 DEF HeadInv
<1>7. npos \in Nat /\ npos <= Len(history)
  BY <1>2
<1>8. ASSUME par.mode # "plain"
      PROVE  \A p \in 0 .. npos - 1 :
               hkv'[p] = [tok |-> history'[p + 1], h |-> SubSeq(history', 1, p)]
  BY <1>1, <1>2, <1>3, <1>6, <1>7, <1>8, RowsSame
<1> QED
  BY <1>1, <1>5, <1>8 DEF HeadInv, HeadRows, Upto

\* The steps of one token: the head, where there is one, absorbs it too.
LEMMA HeadOneToken ==
  ASSUME DecodeInv, HeadInv, PlainStep \/ ScoreStep \/ IdleStep
  PROVE  HeadInv'
<1>1. /\ pc = "plan" /\ pc' = "decide" /\ npos' = npos + 1 /\ UNCHANGED <<par, history>>
  BY DEF PlainStep, ScoreStep, IdleStep, Advance
<1>2. /\ TypeOK /\ npos \in Nat /\ id = history[npos + 1]
  BY <1>1, AtPlan DEF DecodeInv
<1>3. hprev = Upto(npos) /\ (par.mode # "plain" => HeadRows(npos))
  BY <1>1 DEF HeadInv
<1>4. ASSUME par.mode # "plain"
      PROVE  \A p \in 0 .. npos : hkv'[p] = [tok |-> history'[p + 1], h |-> SubSeq(history', 1, p)]
  <2>1. HeadStep(id, npos, hprev)
    BY <1>4 DEF PlainStep, ScoreStep, IdleStep
  <2> QED
    BY <1>1, <1>2, <1>3, <1>4, <2>1, RowAdded
<1> QED
  BY <1>1, <1>2, <1>4 DEF HeadInv, HeadRows, Upto

LEMMA HeadDraft ==
  ASSUME DecodeInv, HeadInv, StartRound \/ DraftStep
  PROVE  HeadInv'
<1>1. CASE StartRound
  <2>1. /\ pc = "plan" /\ pc' = "draft" /\ draft' = <<>>
        /\ UNCHANGED <<par, npos, history, hprev, hkv>>
    BY <1>1 DEF StartRound, device
  <2>2. npos \in Nat
    BY <2>1, AtPlan
  <2> QED
    BY <2>1, <2>2 DEF HeadInv, HeadRows, Upto
<1>2. CASE DraftStep
  <2>1. /\ pc = "draft" /\ pc' = "draft" /\ UNCHANGED <<par, npos, history, hprev>>
    BY <1>2 DEF DraftStep
  <2>2. /\ TypeOK /\ npos \in Nat /\ id = history[npos + 1] /\ Len(history) = npos + 1
        /\ history \in Seq(Token) /\ draft \in Seq(Token)
    BY <2>1, AtPlan DEF DecodeInv, TypeOK
  <2>3. draft' # <<>>
    <3>1. PICK d \in Token : draft' = Append(draft, d)
      BY <1>2 DEF DraftStep
    <3> QED
      BY <2>2, <3>1
  <2>4. CASE draft = <<>>
    <3>1. HeadStep(id, npos, hprev) /\ hprev = Upto(npos)
      BY <1>2, <2>1, <2>4 DEF DraftStep, HeadInv
    <3>2. par.mode # "plain" => HeadRows(npos)
      BY <2>1, <2>2, <2>4 DEF HeadInv
    <3>3. ASSUME par.mode # "plain"
          PROVE  \A p \in 0 .. npos : hkv'[p] = [tok |-> history'[p + 1], h |-> SubSeq(history', 1, p)]
      BY <2>1, <2>2, <3>1, <3>2, <3>3, RowAdded
    <3> QED
      BY <2>1, <2>2, <2>3, <3>1, <3>3 DEF HeadInv, HeadRows, Upto
  <2>5. CASE draft # <<>>
    <3>1. HeadStep(Last(draft), npos + Len(draft), Stale)
      BY <1>2, <2>5 DEF DraftStep
    <3>2. npos + Len(draft) \in Nat /\ npos + Len(draft) >= npos + 1
      BY <2>2, <2>5
    <3>3. /\ npos + Len(draft) \in Position
          /\ \A q \in Position : q # npos + Len(draft) => hkv'[q] = hkv[q]
      BY <2>2, <3>1, <3>2, HeadStepRow
    <3>4. ASSUME NEW p \in 0 .. npos PROVE hkv'[p] = hkv[p]
      <4>1. p \in Position /\ p # npos + Len(draft)
        BY <2>2, <3>2, <3>3, BoundAssumption DEF Position
      <4> QED
        BY <3>3, <4>1
    <3>5. par.mode # "plain" => HeadRows(npos + 1)
      BY <2>1, <2>5 DEF HeadInv
    <3> QED
      BY <2>1, <2>2, <2>3, <3>4, <3>5 DEF HeadInv, HeadRows, Upto
  <2> QED
    BY <2>4, <2>5
<1> QED
  BY <1>1, <1>2

LEMMA HeadVerify ==
  ASSUME DecodeInv, DecodeInv', HeadInv, VerifyBatch \/ VerifyFirst
  PROVE  HeadInv'
<1>1. /\ pc = "draft" /\ pc' = "judge" /\ Len(draft) = deff
      /\ UNCHANGED <<par, npos, history, hkv>>
  BY DEF VerifyBatch, VerifyFirst
<1>2. draft # <<>> /\ npos \in Nat /\ Len(history) = npos + 1 /\ history \in Seq(Token)
  BY <1>1, AtPlan DEF DecodeInv, TypeOK, InPlan
<1>3. par.mode # "plain" => HeadRows(npos + 1)
  BY <1>1, <1>2 DEF HeadInv
<1>4. ASSUME par.mode = "serial"
      PROVE  Len(round') = 1 /\ hrows'[1] = SubSeq(history', 1, npos + 1)
  <2>1. hrows' = <<logits'>> /\ round' = <<id>>
    BY <1>4 DEF VerifyBatch, VerifyFirst
  <2>2. logits' = history'
    BY <1>1, <1>4 DEF DecodeInv, InJudge
  <2>3. SubSeq(history, 1, npos + 1) = history
    BY <1>2
  <2> QED
    BY <1>1, <2>1, <2>2, <2>3
<1>5. ASSUME par.mode # "plain"
      PROVE  HeadRows(npos + 1)'
  BY <1>1, <1>2, <1>3, <1>5 DEF HeadRows, Upto
<1>6. ASSUME par.mode = "serial"
      PROVE  RowsAre(Len(round))'
  <2>1. ASSUME NEW j \in 1 .. Len(round')
        PROVE  hrows'[j] = SubSeq(history', 1, npos' + j)
    <3>1. j \in 1 .. 1
      BY <1>4, <1>6, <2>1
    <3>2. j = 1 /\ npos' + j = npos + 1
      BY <1>1, <1>2, <3>1
    <3> QED
      BY <1>4, <1>6, <3>2
  <2> QED
    BY <2>1 DEF RowsAre, Upto
<1> QED
  BY <1>1, <1>5, <1>6 DEF HeadInv

\* A decided token leaves the rows of those before it.
LEMMA HeadJudge ==
  ASSUME DecodeInv, DecodeInv', HeadInv, JudgeBatch \/ JudgeSerial
  PROVE  HeadInv'
<1>1. /\ pc = "judge" /\ pc' \in {"judge", "commit"} /\ UNCHANGED <<par, npos, hkv, deff>>
      /\ history \in Seq(Token)
      /\ UNCHANGED history \/ \E t \in Token : history' = Append(history, t)
  <2>1. UNCHANGED <<par, npos, hkv, deff>>
    BY DEF JudgeBatch, JudgeSerial, device
  <2> QED
    BY <2>1, JudgeBatchDoes, JudgeSerialDoes DEF DecodeInv, TypeOK
<1>2. /\ RoundIsHistory /\ Len(round) <= deff
  BY <1>1 DEF DecodeInv, InJudge
<1>3. /\ npos \in Nat /\ Len(round) \in Nat /\ Len(round) >= 1 /\ round \in Seq(Token)
      /\ Len(history) = npos + Len(round)
  BY <1>2, InRound
<1>4. par.mode # "plain" => HeadRows(npos + 1)
  BY <1>1 DEF HeadInv
<1>5. ASSUME par.mode # "plain"
      PROVE  \A p \in 0 .. npos : hkv'[p] = [tok |-> history'[p + 1], h |-> SubSeq(history', 1, p)]
  <2>1. npos + 1 \in Nat /\ npos + 1 <= Len(history) /\ (npos + 1) - 1 = npos
    BY <1>3
  <2> QED
    BY <1>1, <1>4, <1>5, <2>1, RowsSame
<1>6. ASSUME par.mode # "plain"
      PROVE  HeadRows(npos + 1)'
  <2>1. npos' = npos /\ (npos + 1) - 1 = npos
    BY <1>1, <1>3
  <2> QED
    BY <1>5, <1>6, <2>1 DEF HeadRows, Upto
<1>7. CASE JudgeBatch
  <2>1. par.mode = "batched" /\ PassIsVerified /\ UNCHANGED <<rec, hrows>>
    BY <1>7 DEF JudgeBatch, device, DecodeInv, InJudge
  <2>2. ASSUME pc' = "commit", ~rejected'
        PROVE  /\ history' = Verified /\ Len(round') <= deff + 1
               /\ \A j \in 1 .. deff + 1 : hrows[j] = SubSeq(Verified, 1, npos + j)
    <3>1. rec' = history' /\ Len(round') <= deff' + 1
      BY <1>1, <2>1, <2>2 DEF DecodeInv, InCommit
    <3>2. rec = Verified
      BY <2>1 DEF PassIsVerified
    <3> QED
      BY <1>1, <2>1, <3>1, <3>2 DEF PassIsVerified
  <2>3. ASSUME pc' = "commit", ~rejected', NEW j \in 1 .. Len(round')
        PROVE  hrows'[j] = SubSeq(history', 1, npos + j)
    <3>1. Len(round') \in Nat /\ deff \in Nat
      BY <1>1 DEF DecodeInv, TypeOK
    <3>2. j \in 1 .. deff + 1
      BY <2>2, <2>3, <3>1
    <3> QED
      BY <2>1, <2>2, <2>3, <3>2
  <2>4. ASSUME pc' = "commit", ~rejected'
        PROVE  RowsAre(Len(round))'
    BY <1>1, <2>3, <2>4 DEF RowsAre, Upto
  <2> QED
    BY <1>1, <1>6, <2>1, <2>4 DEF HeadInv
<1>8. CASE JudgeSerial
  <2>1. /\ par.mode = "serial" /\ Len(hrows) = Len(round) /\ RowsAre(Len(round))
        /\ hrows \in Seq(View) /\ logits' \in View
    BY <1>1, <1>8 DEF JudgeSerial, DecodeInv, InJudge, HeadInv, TypeOK
  <2>2. \A j \in 1 .. Len(round) : hrows[j] = SubSeq(history', 1, npos + j)
    <3> SUFFICES ASSUME NEW j \in 1 .. Len(round)
                 PROVE  hrows[j] = SubSeq(history', 1, npos + j)
      OBVIOUS
    <3>1. npos + j \in 0 .. Len(history)
      BY <1>3
    <3>2. hrows[j] = SubSeq(history, 1, npos + j)
      BY <2>1 DEF RowsAre, Upto
    <3> QED
      BY <1>1, <3>1, <3>2, HistorySame
  <2>3. \/ pc' = "commit" /\ eogNext' = TRUE
        \/ \E t \in Token :
             /\ round' = Append(round, t) /\ history' = Append(history, t)
             /\ \/ hrows' = Append(hrows, logits') /\ pc' = "judge"
                \/ hrows' = hrows /\ pc' = "commit"
    <3>1. Sampled(logits) \subseteq Token
      <4>1. logits = history /\ Len(history) <= Ctx /\ TypeOK
        BY <1>1, <2>1 DEF DecodeInv, InJudge, HistoryIsGreedy
      <4> QED
        BY <1>1, <4>1, SampledToken
    <3>2. PICK t \in Sampled(logits) :
            \/ eogNext' = TRUE /\ pc' = "commit"
            \/ /\ round' = Append(round, t) /\ history' = Append(history, t)
               /\ \/ hrows' = Append(hrows, logits') /\ pc' = pc
                  \/ hrows' = hrows /\ pc' = "commit"
      BY <1>8 DEF JudgeSerial
    <3> QED
      BY <1>1, <3>1, <3>2
  <2>4. CASE pc' = "commit" /\ eogNext' = TRUE
    BY <1>1, <1>6, <2>1, <2>4 DEF HeadInv
  <2>5. CASE \E t \in Token :
               /\ round' = Append(round, t) /\ history' = Append(history, t)
               /\ \/ hrows' = Append(hrows, logits') /\ pc' = "judge"
                  \/ hrows' = hrows /\ pc' = "commit"
    <3>1. PICK t \in Token :
               /\ round' = Append(round, t) /\ history' = Append(history, t)
               /\ \/ hrows' = Append(hrows, logits') /\ pc' = "judge"
                  \/ hrows' = hrows /\ pc' = "commit"
      BY <2>5
    <3>2. /\ Len(round') = Len(round) + 1 /\ Len(round') - 1 = Len(round)
          /\ Len(history') = npos + Len(round) + 1 /\ history' \in Seq(Token)
      BY <1>1, <1>3, <3>1, AppendPrefix
    <3>3. CASE pc' = "commit"
      <4>1. hrows' = hrows
        BY <3>1, <3>3
      <4>2. RowsAre(Len(round) - 1)'
        BY <1>1, <2>2, <3>2, <4>1 DEF RowsAre, Upto
      <4> QED
        BY <1>1, <1>6, <2>1, <3>3, <4>2 DEF HeadInv
    <3>4. CASE pc' = "judge"
      <4>1. logits' = history'
        BY <1>1, <2>1, <3>4 DEF DecodeInv, InJudge
      <4>2. hrows' = Append(hrows, logits')
        BY <3>1, <3>4
      <4>3. /\ hrows'[Len(round) + 1] = history'
            /\ \A j \in 1 .. Len(round) : hrows'[j] = hrows[j]
        BY <2>1, <4>1, <4>2, AppendPrefix
      <4>4. history' = SubSeq(history', 1, npos + (Len(round) + 1))
        BY <1>3, <3>2
      <4>5. \A j \in 1 .. Len(round') : hrows'[j] = SubSeq(history', 1, npos + j)
        <5> SUFFICES ASSUME NEW j \in 1 .. Len(round')
                     PROVE  hrows'[j] = SubSeq(history', 1, npos + j)
          OBVIOUS
        <5>1. j \in 1 .. Len(round) \/ j = Len(round) + 1
          BY <1>3, <3>2
        <5> QED
          BY <2>2, <4>3, <4>4, <5>1
      <4>6. RowsAre(Len(round))'
        BY <1>1, <4>5 DEF RowsAre, Upto
      <4> QED
        BY <1>1, <1>6, <2>1, <3>4, <4>6 DEF HeadInv
    <3> QED
      BY <1>1, <3>3, <3>4
  <2> QED
    BY <2>3, <2>4, <2>5
<1> QED
  BY <1>7, <1>8

\* Streaming a token and keeping an accepted batch touch no row.
LEMMA HeadCommit ==
  ASSUME DecodeInv, HeadInv, PushToken \/ KeepBatch
  PROVE  HeadInv'
<1>1. /\ pc = "commit" /\ UNCHANGED <<par, npos, history, hprev, hkv, hrows, round, rejected, eogNext>>
  BY DEF PushToken, KeepBatch, device
<1>2. CASE PushToken
  <2>1. pc' = "commit"
    BY <1>1, <1>2 DEF PushToken
  <2> QED
    BY <1>1, <2>1 DEF HeadInv, HeadRows, RowsAre, Upto
<1>3. CASE KeepBatch
  <2>1. pc' = "rebuild" /\ idx' = 1 /\ par.mode = "batched" /\ ~rejected
    BY <1>3 DEF KeepBatch
  <2> QED
    BY <1>1, <2>1 DEF HeadInv, HeadRows, RowsAre, Upto
<1> QED
  BY <1>2, <1>3

\* The replay recomputes the row of every committed token.
LEMMA HeadReplay ==
  ASSUME DecodeInv, HeadInv, Replay
  PROVE  HeadInv'
<1>1. /\ pc = "commit" /\ pc' = "rebuild" /\ idx' = 1 /\ par.mode = "batched" /\ rejected
      /\ UNCHANGED <<par, npos, history, hkv, round>>
      /\ hrows' = Rows(snap, round, npos)
  BY DEF Replay
<1>2. TypeOK /\ RoundIsHistory
  BY <1>1, AtCommit DEF DecodeInv
<1>3. Continues(history, round, npos, snap)
  BY <1>1, <1>2, AtCommit, InRound, SMTT(30) DEF Continues
<1>4. \A k \in 1 .. Len(round) : hrows'[k] = SubSeq(history, 1, npos + k)
  BY <1>1, <1>2, <1>3, ForwardExact
<1>5. par.mode # "plain" => HeadRows(npos + 1)
  BY <1>1 DEF HeadInv
<1> QED
  BY <1>1, <1>4, <1>5 DEF HeadInv, HeadRows, RowsAre, Upto

\* The last decided token's forward completes the rows of a serial round.
LEMMA HeadForwardLast ==
  ASSUME DecodeInv, DecodeInv', HeadInv, ForwardLast
  PROVE  HeadInv'
<1>1. /\ pc = "commit" /\ pc' = "rebuild" /\ idx' = 1 /\ par.mode = "serial" /\ ~eogNext
      /\ UNCHANGED <<par, npos, history, hkv, round>>
      /\ hrows' = Append(hrows, logits')
  BY DEF ForwardLast
<1>2. RoundIsHistory /\ Len(hrows) = Len(round) - 1 /\ hrows \in Seq(View)
  BY <1>1, AtCommit DEF DecodeInv, TypeOK
<1>3. /\ npos \in Nat /\ Len(round) \in Nat /\ Len(round) >= 1
      /\ Len(history) = npos + Len(round) /\ SubSeq(history, 1, Len(history)) = history
  BY <1>2, InRound
<1>4. logits' = history
  BY <1>1 DEF DecodeInv, InRebuild
<1>5. logits' \in View
  BY DEF DecodeInv, TypeOK
<1>6. /\ hrows'[Len(round)] = history
      /\ \A j \in 1 .. Len(round) - 1 : hrows'[j] = hrows[j]
  <2>1. Len(hrows) + 1 = Len(round)
    BY <1>2, <1>3
  <2> QED
    BY <1>1, <1>2, <1>4, <1>5, <2>1, AppendPrefix
<1>7. RowsAre(Len(round) - 1)
  BY <1>1 DEF HeadInv
<1>8. ASSUME NEW j \in 1 .. Len(round)
      PROVE  hrows'[j] = SubSeq(history, 1, npos + j)
  <2>1. j \in 1 .. Len(round) - 1 \/ j = Len(round)
    BY <1>3
  <2> QED
    BY <1>3, <1>6, <1>7, <2>1 DEF RowsAre, Upto
<1>9. HeadRows(npos + 1)
  BY <1>1 DEF HeadInv
<1> QED
  BY <1>1, <1>8, <1>9 DEF HeadInv, HeadRows, RowsAre, Upto

\* One row of the head is rebuilt from the trunk's h.
LEMMA HeadRebuild ==
  ASSUME DecodeInv, HeadInv, RebuildRow
  PROVE  HeadInv'
<1>1. /\ pc = "rebuild" /\ pc' = "rebuild" /\ idx' = idx + 1 /\ idx < Len(round)
      /\ UNCHANGED <<par, npos, history, round, hrows>>
      /\ HeadStep(round[idx + 1], npos + idx, hrows[idx])
  BY DEF RebuildRow
<1>2. TypeOK /\ RoundIsHistory /\ idx \in 1 .. Len(round)
  BY <1>1 DEF DecodeInv, InRebuild
<1>3. /\ npos \in Nat /\ Len(round) \in Nat
      /\ \A j \in 1 .. Len(round) : round[j] = history[npos + j]
  BY <1>2, InRound
<1>4. /\ npos + idx \in Nat /\ npos + (idx + 1) = (npos + idx) + 1
      /\ round[idx + 1] = history[(npos + idx) + 1]
      /\ (npos + idx') - 1 = npos + idx
  BY <1>1, <1>2, <1>3
<1>5. RowsAre(Len(round)) /\ (par.mode # "plain" => HeadRows(npos + idx))
  BY <1>1 DEF HeadInv
<1>6. hrows[idx] = Upto(npos + idx)
  BY <1>2, <1>5 DEF RowsAre
<1>7. ASSUME par.mode # "plain"
      PROVE  \A p \in 0 .. npos + idx :
               hkv'[p] = [tok |-> history'[p + 1], h |-> SubSeq(history', 1, p)]
  BY <1>1, <1>2, <1>4, <1>5, <1>6, <1>7, RowAdded
<1> QED
  BY <1>1, <1>4, <1>5, <1>7 DEF HeadInv, HeadRows, RowsAre, Upto

LEMMA HeadEnd ==
  ASSUME DecodeInv, HeadInv, EndRound
  PROVE  HeadInv'
<1>1. /\ pc = "rebuild" /\ pc' = "decide" /\ idx = Len(round) /\ npos' = npos + Len(round)
      /\ UNCHANGED <<par, history, hkv>>
  BY DEF EndRound, device
<1>2. par.mode # "plain" => HeadRows(npos + idx)
  BY <1>1 DEF HeadInv
<1> QED
  BY <1>1, <1>2 DEF HeadInv, HeadRows, Upto

LEMMA HeadKept ==
  ASSUME DecodeInv, DecodeInv', HeadInv, [Next]_vars
  PROVE  HeadInv'
<1>1. CASE PrefillChunk \/ Decide
  BY <1>1, HeadPrefill, HeadDecide
<1>2. CASE PlainStep \/ ScoreStep \/ IdleStep
  BY <1>2, HeadOneToken
<1>3. CASE StartRound \/ DraftStep
  BY <1>3, HeadDraft
<1>4. CASE VerifyBatch \/ VerifyFirst
  BY <1>4, HeadVerify
<1>5. CASE JudgeBatch \/ JudgeSerial
  BY <1>5, HeadJudge
<1>6. CASE PushToken \/ KeepBatch
  BY <1>6, HeadCommit
<1>7. CASE Replay \/ ForwardLast
  BY <1>7, HeadReplay, HeadForwardLast
<1>8. CASE RebuildRow \/ EndRound
  BY <1>8, HeadRebuild, HeadEnd
<1>9. CASE BudgetUsed \/ ContextFull \/ SerialEog \/ Fail
  <2>1. pc' \in {"done", "failed"}
    BY <1>9 DEF BudgetUsed, ContextFull, SerialEog, Fail
  <2> QED
    BY <2>1 DEF HeadInv
<1>10. CASE Terminated \/ UNCHANGED vars
  <2>1. UNCHANGED vars
    BY <1>10 DEF Terminated
  <2>2. UNCHANGED <<par, pc, npos, history, hprev, hkv, draft, hrows, round, idx, rejected, eogNext>>
    BY <2>1 DEF vars, device, roundVars
  <2> QED
    BY <2>2 DEF HeadInv, HeadRows, RowsAre, Upto
<1> QED
  BY <1>1, <1>2, <1>3, <1>4, <1>5, <1>6, <1>7, <1>8, <1>9, <1>10 DEF Next, Step

\* At the top of the loop the draft head's row of every position holds that
\* position's token and the trunk's h before it, whatever was drafted, refused
\* or replayed (mtp_gen.h:421-428, 521-524).
THEOREM HeadStaysInStep == Spec => []HeadInStep
<1>1. Init => HeadInv
  BY HeadInit
<1>2. DecodeInv /\ DecodeInv' /\ HeadInv /\ [Next]_vars => HeadInv'
  BY HeadKept
<1>3. HeadInv => HeadInStep
  BY DEF HeadInv, HeadRows, Upto, HeadInStep
<1> QED
  BY <1>1, <1>2, <1>3, InvHolds, PTL DEF Spec

=============================================================================
