-------------------------------- MODULE Trunk --------------------------------
(***************************************************************************)
(* The token graph on the device (include/rdna4/graph.cuh): forward_run,   *)
(* one token at a time through every layer, forward_batch and              *)
(* forward_batch_all, a chunk of tokens through one layer at a time,       *)
(* prefill, reset_state, state_snapshot and state_restore.                 *)
(*                                                                         *)
(* What a layer computes for a token is represented by the text up to that *)
(* token if it is what the weights give for that text, and by Stale if a   *)
(* state, a cache row or a position of anything else went into it.  The    *)
(* parts of a layer that work on one row alone, and the heads of a row,    *)
(* are not told apart; nor is the rounding of the tiled matrix product.    *)
(***************************************************************************)
EXTENDS PrefillPlan

CONSTANTS
  Id,        \* token ids callers may send
  Vocab,     \* the rows of token_embd
  Layers,    \* the number of layers
  Recurrent, \* the recurrent (GDN) layers; the others are full attention
  MaxCtx,    \* max_ctx_
  BatchOps,  \* RD_PREFILL_BATCH
  SplitMin, MaxSplits, \* kAttnSplitMin, kAttnMaxSplits
  Forced,    \* RD_ATTN_SPLITS, 0 for automatic
  Dense,     \* the splits of a cache that is not quantised, 0 if it is
  Failing,   \* launches, copies and uploads may fail
  Stale

Layer == 1 .. Layers
Attention == Layer \ Recurrent
Position == 0 .. MaxCtx - 1
Text == UNION {[1 .. n -> Id] : n \in 0 .. MaxCtx}

ASSUME TrunkAssumption ==
  /\ Vocab \subseteq Id /\ Layers \in Nat /\ Recurrent \subseteq Layer
  /\ MaxCtx \in Nat /\ BatchOps \in BOOLEAN
  /\ SplitMin \in Nat \ {0} /\ MaxSplits \in Nat \ {0}
  /\ Forced \in Nat /\ Dense \in Nat /\ Failing \in BOOLEAN
  /\ Stale \notin Text

VARIABLES
  rec, conv,   \* d_state_, d_convst_: the text each layer has absorbed
  kv,          \* d_k_, d_v_: the rows of each attention layer, Stale where
               \* the key and the value are not of the same text
  dpos, cpos,  \* d_pos_ and pos_cached_
  saved,       \* d_state_snap_, d_convst_snap_
  want,        \* want_argmax_
  argmax,      \* the row last_argmax_ was computed from
  pc, op,      \* the place in a call, and the forward that runs
  rest,        \* the tokens prefill has still to forward
  text,        \* the text with the tokens of this forward
  pos,         \* position of the first of the rows x
  il,          \* the layer
  x,           \* the rows being computed, d_x_ or d_xb_
  answer,      \* what the last forward returned
  asked,       \* the text at the end of the call, <<>> if nothing is answered
  hist,        \* the text callers know was absorbed, Stale after a failure
  mark         \* the text of the snapshot, Stale if there is none

caches == <<rec, conv, kv, dpos, cpos>>
forward == <<op, text, pos, il, x>>
vars ==
  <<pc, caches, saved, want, argmax, forward, rest, answer, asked, hist, mark>>

None == [hidden |-> <<>>, logits |-> <<>>]

Init ==
  /\ pc = "idle" /\ hist = <<>> /\ mark = Stale
  /\ rec = [l \in Recurrent |-> <<>>] /\ conv = rec
  /\ kv = [l \in Attention |-> [p \in Position |-> Stale]]
  /\ dpos = 0 /\ cpos = -1
  /\ saved = [rec |-> rec, conv |-> rec]
  /\ want \in BOOLEAN /\ argmax = Stale
  /\ op = "tokens" /\ text = <<>> /\ pos = 0 /\ il = 1 /\ x = <<>>
  /\ rest = <<>> /\ answer = None /\ asked = <<>>

-----------------------------------------------------------------------------
(* Calls                                                                   *)

\* The locals of a forward are gone when it returns.
Return(o) == op' = o /\ text' = <<>> /\ pos' = 0 /\ il' = 1 /\ x' = <<>>

\* The device no longer holds a text anybody knows.
Lost ==
  /\ pc' = "idle" /\ hist' = Stale /\ rest' = <<>> /\ answer' = None
  /\ asked' = <<>> /\ Return("tokens")

\* Variant: the end of the context is not checked.
AcceptedAnywhere(o, ts) ==
  /\ \A i \in DOMAIN ts : ts[i] \in Vocab
  /\ IF o = "tokens" THEN ts # <<>> ELSE ChunkOk(Len(ts))

\* The checks at the head of forward_tokens and forward_batch.
Accepted(o, ts) ==
  /\ \A i \in DOMAIN ts : ts[i] \in Vocab
  /\ Len(hist) + Len(ts) <= MaxCtx
  /\ IF o = "tokens" THEN ts # <<>> ELSE ChunkOk(Len(ts))

\* The embedding rows of the first token, or of the whole chunk.
Begin(o, ts) ==
  /\ pc' = "layers" /\ op' = o /\ il' = 1
  /\ text' = hist \o ts /\ pos' = Len(hist)
  /\ x' = [i \in 1 .. IF o = "tokens" THEN 1 ELSE Len(ts) |->
             SubSeq(text', 1, Len(hist) + i)]
  /\ answer' = None

\* A caller continues the text it knows; a refused call changes nothing.
Call(o, ts) ==
  /\ pc = "idle" /\ hist # Stale
  /\ IF Accepted(o, ts) THEN Begin(o, ts) /\ asked' = hist \o ts
     ELSE pc' = "idle" /\ answer' = None /\ asked' = <<>> /\ UNCHANGED forward
  /\ UNCHANGED <<caches, saved, want, argmax, rest, hist, mark>>

CallPrefill(ids) ==
  /\ pc = "idle" /\ hist # Stale /\ ids # <<>>
  /\ pc' = "prefill" /\ rest' = ids /\ answer' = None
  /\ asked' = hist \o ids
  /\ UNCHANGED <<caches, saved, want, argmax, forward, hist, mark>>

\* Variant: the chunks are cut from the end of the prompt.
PrefillChunkFromEnd ==
  /\ pc = "prefill"
  /\ \E n \in {Take(Cost, Len(rest))} :
       LET ts == SubSeq(rest, Len(rest) - n + 1, Len(rest))
           o  == IF n = 1 THEN "tokens" ELSE "batch"
       IN IF Accepted(o, ts)
          THEN /\ Begin(o, ts) /\ rest' = SubSeq(rest, 1, Len(rest) - n)
               /\ UNCHANGED <<hist, asked>>
          ELSE Lost
  /\ UNCHANGED <<caches, saved, want, argmax, mark>>

\* The next chunk of the plan, a single token by the per-token path.
PrefillChunk ==
  /\ pc = "prefill"
  /\ \E n \in {Take(Cost, Len(rest))} :
       LET ts == SubSeq(rest, 1, n)
           o  == IF n = 1 THEN "tokens" ELSE "batch"
       IN IF Accepted(o, ts)
          THEN /\ Begin(o, ts) /\ rest' = SubSeq(rest, n + 1, Len(rest))
               /\ UNCHANGED <<hist, asked>>
          ELSE Lost
  /\ UNCHANGED <<caches, saved, want, argmax, mark>>

-----------------------------------------------------------------------------
(* The layers                                                              *)

\* The text absorbed by a state s after the first m of the rows.
Absorb(s, rows, m) ==
  IF m = 0 THEN s
  ELSE IF /\ s # Stale /\ \A i \in 1 .. m : rows[i] # Stale
          /\ s = SubSeq(rows[1], 1, Len(rows[1]) - 1)
       THEN rows[m] ELSE Stale

\* The rows after the convolution, and after the recurrence.
Convolved == [i \in DOMAIN x |-> Absorb(conv[il], x, i)]
Mixed == [i \in DOMAIN x |-> Absorb(rec[il], Convolved, i)]

\* Every launch of a layer takes a row alone, but not every chunk.
Runs == op = "tokens" \/ Launchable(Len(x))

\* A launch that has no kernel always fails.
MayFail == Failing \/ ~Runs

\* gdn_layer, or its half of forward_batch_layer.
RecurrentLayer ==
  /\ pc = "layers" /\ il \in Recurrent /\ Runs
  /\ conv' = [conv EXCEPT ![il] = Absorb(@, x, Len(x))]
  /\ rec' = [rec EXCEPT ![il] = Absorb(@, Convolved, Len(x))]
  /\ x' = Mixed /\ il' = il + 1
  /\ UNCHANGED <<pc, op, text, pos, kv, dpos, cpos, saved, want, argmax,
                 rest, answer, asked, hist, mark>>

\* attn_splits_for: over how many blocks the keys are divided.
Splits(keys) ==
  IF Forced > 0 THEN IF Forced > MaxSplits THEN MaxSplits ELSE Forced
  ELSE IF keys < SplitMin THEN 1
  ELSE LET sp == IF Dense > 0 THEN Dense ELSE keys \div SplitMin
       IN IF sp > MaxSplits THEN MaxSplits ELSE sp

\* Variant: a chunk is split like its last token.
SplitsUsedLast(i) == Splits(pos + Len(x))

\* The splits the attention of row i really uses: a chunk whose last token
\* needs no split is not split at all, and is else taken run by run.
SplitsUsed(i) ==
  IF op = "tokens" \/ ~BatchOps \/ Splits(pos + Len(x)) > 1
  THEN Splits(pos + i) ELSE 1

\* The position on the device is uploaded when it is not the one noted.
Upload ==
  IF op = "tokens" /\ pos # cpos THEN dpos' = pos /\ cpos' = pos
  ELSE UNCHANGED <<dpos, cpos>>

\* The keys, turned by the position on the device.
Keys == [i \in DOMAIN x |-> IF op = "tokens" /\ dpos' # pos THEN Stale ELSE x[i]]

\* Variant: the rows are written one position too early.
WrittenEarly(rows) ==
  [kv EXCEPT ![il] = [p \in Position |->
     IF p \in pos - 1 .. pos + Len(rows) - 2 THEN rows[p - pos + 2] ELSE kv[il][p]]]

\* kv_write_batch, kv_write: rows replaces the rows from pos on.
Written(rows) ==
  [kv EXCEPT ![il] = [p \in Position |->
     IF p \in pos .. pos + Len(rows) - 1 THEN rows[p - pos + 1] ELSE kv[il][p]]]

\* Row i attends to every row up to its own.
Attended(i) ==
  IF /\ Keys[i] # Stale /\ SplitsUsed(i) = Splits(pos + i)
     /\ \A p \in 0 .. pos + i - 1 : kv'[il][p] = SubSeq(x[i], 1, p + 1)
  THEN x[i] ELSE Stale

\* full_attn, or its half of forward_batch_layer.
AttentionLayer ==
  /\ pc = "layers" /\ il \in Attention /\ Runs
  /\ Upload
  /\ kv' = Written(Keys)
  /\ x' = [i \in DOMAIN x |-> Attended(i)] /\ il' = il + 1
  /\ UNCHANGED <<pc, op, text, pos, rec, conv, saved, want, argmax, rest,
                 answer, asked, hist, mark>>

\* A launch, a copy or an upload fails: some layers have absorbed the rows and
\* others have not, and what was being written may hold anything.
Broken == [l \in Recurrent |-> Stale]

RecurrentLayerFails ==
  /\ MayFail /\ pc = "layers" /\ il \in Recurrent
  /\ rec' = Broken /\ conv' = Broken
  /\ Lost
  /\ UNCHANGED <<kv, dpos, cpos, saved, want, argmax, mark>>

\* Variant: the position is noted before it is uploaded.
AttentionLayerFailsNoted ==
  /\ MayFail /\ pc = "layers" /\ il \in Attention
  /\ Upload \/ (cpos' = pos /\ UNCHANGED dpos)
  /\ kv' = Written([i \in DOMAIN x |-> Stale])
  /\ rec' = Broken /\ conv' = Broken
  /\ Lost
  /\ UNCHANGED <<saved, want, argmax, mark>>

AttentionLayerFails ==
  /\ MayFail /\ pc = "layers" /\ il \in Attention
  /\ Upload \/ UNCHANGED <<dpos, cpos>>
  /\ kv' = Written([i \in DOMAIN x |-> Stale])
  /\ rec' = Broken /\ conv' = Broken
  /\ Lost
  /\ UNCHANGED <<saved, want, argmax, mark>>

-----------------------------------------------------------------------------
(* After the layers                                                        *)

More == op = "tokens" /\ pos + 1 < Len(text)

NextToken ==
  /\ pc = "layers" /\ il = Layers + 1 /\ More
  /\ pos' = pos + 1 /\ il' = 1 /\ x' = <<SubSeq(text, 1, pos + 2)>>
  /\ UNCHANGED <<pc, op, text, caches, saved, want, argmax, rest, answer, asked,
                 hist, mark>>

\* What the call gives back: the hidden state and the logits of every token,
\* or of the last one, whose logits stay on the device as an argmax.
Outcome ==
  LET last == <<x[Len(x)]>>
  IN CASE op = "all"    -> [hidden |-> x, logits |-> x]
       [] op = "batch"  -> [hidden |-> last, logits |-> last]
       [] op = "tokens" -> [hidden |-> last,
                            logits |-> IF want THEN <<>> ELSE last]

\* Variant: the per-token path takes the argmax, the batch only copies.
TakesArgmaxTokens == want /\ op = "tokens"

TakesArgmax == want /\ op # "all"

Finish ==
  /\ pc = "layers" /\ il = Layers + 1 /\ ~More /\ Runs
  /\ answer' = Outcome
  /\ argmax' = IF TakesArgmax THEN x[Len(x)] ELSE argmax
  /\ hist' = text
  /\ pc' = IF rest = <<>> THEN "idle" ELSE "prefill"
  /\ Return(op)
  /\ UNCHANGED <<caches, saved, want, rest, asked, mark>>

FinishFails ==
  /\ MayFail /\ pc = "layers" /\ il = Layers + 1
  /\ argmax' \in {argmax} \cup IF TakesArgmax THEN {x[Len(x)]} ELSE {}
  /\ Lost
  /\ UNCHANGED <<caches, saved, want, mark>>

-----------------------------------------------------------------------------
(* The recurrent state                                                     *)

Zero == [l \in Recurrent |-> <<>>]

\* Variant: the window of the convolution is kept.
ResetStateOnly ==
  /\ pc = "idle"
  /\ rec' = Zero
  /\ hist' = <<>> /\ mark' = Stale /\ answer' = None /\ asked' = <<>>
  /\ UNCHANGED <<pc, conv, kv, dpos, cpos, saved, want, argmax, forward, rest>>

\* reset_state; the cache rows stay.
Reset ==
  /\ pc = "idle"
  /\ rec' = Zero /\ conv' = Zero
  /\ hist' = <<>> /\ mark' = Stale /\ answer' = None /\ asked' = <<>>
  /\ UNCHANGED <<pc, kv, dpos, cpos, saved, want, argmax, forward, rest>>

ResetFails ==
  /\ Failing /\ pc = "idle"
  /\ rec' = Broken /\ conv' = Broken
  /\ Lost
  /\ UNCHANGED <<kv, dpos, cpos, saved, want, argmax, mark>>

Snapshot ==
  /\ pc = "idle" /\ hist # Stale
  /\ saved' = [rec |-> rec, conv |-> conv] /\ mark' = hist
  /\ UNCHANGED <<pc, caches, want, argmax, forward, rest, answer, asked, hist>>

SnapshotFails ==
  /\ Failing /\ pc = "idle" /\ hist # Stale
  /\ saved' = [rec |-> Broken, conv |-> Broken] /\ mark' = Stale
  /\ Lost
  /\ UNCHANGED <<caches, want, argmax>>

\* Variant: the window of the convolution is not rolled back.
RestoreStateOnly ==
  /\ pc = "idle" /\ hist # Stale /\ mark # Stale
  /\ rec' = saved.rec
  /\ hist' = mark /\ answer' = None /\ asked' = <<>>
  /\ UNCHANGED <<pc, conv, kv, dpos, cpos, saved, want, argmax, forward, rest,
                 mark>>

\* state_restore: back to the snapshot; the cache rows stay.
Restore ==
  /\ pc = "idle" /\ hist # Stale /\ mark # Stale
  /\ rec' = saved.rec /\ conv' = saved.conv
  /\ hist' = mark /\ answer' = None /\ asked' = <<>>
  /\ UNCHANGED <<pc, kv, dpos, cpos, saved, want, argmax, forward, rest, mark>>

RestoreFails ==
  /\ Failing /\ pc = "idle" /\ hist # Stale /\ mark # Stale
  /\ rec' = Broken /\ conv' = Broken
  /\ Lost
  /\ UNCHANGED <<kv, dpos, cpos, saved, want, argmax, mark>>

SetWant ==
  /\ pc = "idle"
  /\ want' = ~want /\ answer' = None /\ asked' = <<>>
  /\ UNCHANGED <<pc, caches, saved, argmax, forward, rest, hist, mark>>

-----------------------------------------------------------------------------

CONSTANT Inputs  \* the token sequences callers send
ASSUME InputAssumption == \A ts \in Inputs : ts \in Seq(Id) /\ Len(ts) <= MaxTotal

Next ==
  \/ \E ts \in Inputs :
       CallPrefill(ts) \/ \E o \in {"tokens", "batch", "all"} : Call(o, ts)
  \/ PrefillChunk
  \/ RecurrentLayer \/ AttentionLayer \/ NextToken \/ Finish
  \/ RecurrentLayerFails \/ AttentionLayerFails \/ FinishFails
  \/ Reset \/ ResetFails \/ Snapshot \/ SnapshotFails
  \/ Restore \/ RestoreFails \/ SetWant

Spec == Init /\ [][Next]_vars
=============================================================================
