----------------------------- MODULE TrunkProps -----------------------------
(* What the decode loops rely on when they call the token graph. *)
EXTENDS Trunk

Value == Text \cup {Stale}

TypeOK ==
  /\ pc \in {"idle", "prefill", "layers"} /\ op \in {"tokens", "batch", "all"}
  /\ rec \in [Recurrent -> Value] /\ conv \in [Recurrent -> Value]
  /\ kv \in [Attention -> [Position -> Value]]
  /\ dpos \in Nat /\ cpos \in Nat \cup {-1}
  /\ saved \in [rec : [Recurrent -> Value], conv : [Recurrent -> Value]]
  /\ want \in BOOLEAN /\ argmax \in Value
  /\ rest \in Seq(Id) /\ text \in Text /\ pos \in 0 .. MaxCtx
  /\ il \in 1 .. Layers + 1 /\ x \in Seq(Value)
  /\ answer \in [hidden : Seq(Value), logits : Seq(Value)]
  /\ asked \in Seq(Id) /\ hist \in Value /\ mark \in Value

\* The buffers hold the text t up to position n in layer l.
LayerHolds(l, t, n) ==
  /\ l \in Recurrent => rec[l] = SubSeq(t, 1, n) /\ conv[l] = rec[l]
  /\ l \in Attention =>
       \A p \in 0 .. n - 1 : kv[l][p] = SubSeq(t, 1, p + 1)

\* Between calls the caches of every layer hold the text the caller knows,
\* whatever chunks, restores, failures and requests came before; this is what
\* the decode loops take the trunk for (rec and kv of SpecDecode, absorbed of
\* Generate).
InStep ==
  pc = "idle" /\ hist # Stale => \A l \in Layer : LayerHolds(l, hist, Len(hist))

\* "BIT-IDENTICAL to calling forward_tokens() once per token" (graph.cuh:192)
\* and "prefill can be split arbitrarily" (graph.cuh:152): every row returned,
\* from whichever path, is the one of its token after all the tokens before
\* (the text before the call and then the tokens it was called with);
\* so is the argmax ("both must leave last_argmax_ consistent", graph.cuh:120).
FreshAnswer ==
  pc = "idle" /\ answer # None =>
    /\ hist = asked
    /\ answer.hidden = [i \in DOMAIN answer.hidden |->
                          SubSeq(hist, 1, Len(hist) - Len(answer.hidden) + i)]
    /\ answer.logits \in {<<>>, answer.hidden}
    /\ want /\ op # "all" => argmax = hist
    /\ answer.logits = <<>> => want /\ op # "all"

\* A rollback restores the recurrent state only (graph.cuh:328-333), so no
\* forward may touch a cache row of the text before it.
RowsBelowKept ==
  [][hist # Stale =>
       \A l \in Attention : \A p \in 0 .. Len(hist) - 1 :
         kv'[l][p] = kv[l][p]]_vars
-----------------------------------------------------------------------------
(* The inductive invariant                                                 *)

IdleInv == pc # "layers" /\ hist # Stale =>
             \A l \in Layer : LayerHolds(l, hist, Len(hist))

\* In the middle of a forward the layers below il have absorbed the rows x.
ForwardInv ==
  pc = "layers" =>
    /\ hist # Stale /\ Len(hist) <= pos /\ hist = SubSeq(text, 1, Len(hist))
    /\ Len(x) >= 1 /\ pos + Len(x) <= Len(text)
    /\ IF op = "tokens" THEN Len(x) = 1
       ELSE pos = Len(hist) /\ pos + Len(x) = Len(text)
    /\ x = [i \in 1 .. Len(x) |-> SubSeq(text, 1, pos + i)]
    /\ \A l \in Layer :
         LayerHolds(l, text, IF l < il THEN pos + Len(x) ELSE pos)

\* The snapshot holds the text of its mark, from which the text has only grown.
SnapshotInv ==
  mark # Stale =>
    /\ \A l \in Recurrent : saved.rec[l] = mark /\ saved.conv[l] = mark
    /\ hist # Stale => Len(mark) <= Len(hist) /\ mark = SubSeq(hist, 1, Len(mark))

TrunkInv ==
  /\ TypeOK /\ IdleInv /\ ForwardInv /\ SnapshotInv /\ FreshAnswer
  /\ cpos \in {-1, dpos}
  /\ pc = "idle" => rest = <<>>
  /\ pc = "prefill" => asked = hist \o rest
  /\ pc = "layers" => asked = text \o rest
  /\ pc = "prefill" => rest # <<>>
  /\ hist = Stale => pc = "idle"
=============================================================================
