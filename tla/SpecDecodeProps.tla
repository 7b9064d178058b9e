--------------------------- MODULE SpecDecodeProps ---------------------------
(***************************************************************************)
(* What speculative decoding must never get wrong, whatever the draft head *)
(* proposes.                                                               *)
(***************************************************************************)
EXTENDS SpecDecode

View == Text \cup {Stale}

\* Every variable has the type mtp_generate gives it.
TypeOK ==
  /\ par \in [model : Model, prompt : Prompt, mode : Mode, draft : DraftLen,
              nPredict : NPredict, gov : BOOLEAN, chunked : BOOLEAN]
  /\ pc \in Phase
  /\ npos \in 0 .. Ctx
  /\ history \in Seq(Token) /\ gen \in Seq(Token)
  /\ hitEos \in BOOLEAN
  /\ rec \in View /\ snap \in View /\ logits \in View /\ hprev \in View
  /\ kv \in [Position -> View]
  /\ hkv \in [Position -> [tok : Token, h : View]]
  /\ deff \in Nat /\ draft \in Seq(Token)
  /\ hrows \in Seq(View) /\ lrows \in Seq(View)
  /\ round \in Seq(Token)
  /\ idx \in Nat
  /\ rejected \in BOOLEAN /\ eogNext \in BOOLEAN
  /\ gov \in [rounds : Nat, acc : Nat, drafted : Nat, cool : Nat]

\* The correctness contract of mtp_gen.h:24-26: every streamed token is the
\* trunk's own first choice after the prompt and the tokens streamed before it,
\* in all four modes and whatever was drafted, snapshotted or replayed.
CommittedIsGreedy ==
  \A i \in 1 .. Len(gen) :
    gen[i] = Greedy(par.model, par.prompt \o SubSeq(gen, 1, i - 1))

\* The invariant stated at mtp_gen.h:185-187: at the top of the loop the trunk
\* has absorbed exactly the history, its KV rows are those of the history, and
\* logits and h are those of the last position (a rejected draft leaves nothing
\* behind).
TrunkInStep ==
  pc = "decide" =>
    /\ npos = Len(history)
    /\ rec = history /\ logits = history /\ hprev = history
    /\ \A p \in 0 .. npos - 1 : kv[p] = SubSeq(history, 1, p + 1)

\* The draft head's cache at the top of the loop: row p is token p with the
\* trunk's h of p - 1, never a chained h nor a row of a refused draft
\* (mtp_gen.h:421-428, 521-524).
HeadInStep ==
  pc = "decide" /\ par.mode # "plain" =>
    \A p \in 0 .. npos - 1 :
      hkv[p] = [tok |-> history[p + 1], h |-> SubSeq(history, 1, p)]

\* The room a round is clamped to (mtp_gen.h:271-285) keeps every trunk pass
\* and head step inside the context, and the stream inside the budget, at every
\* point of a round and not only at its end.
RoundFits ==
  /\ Len(gen) <= Limit
  /\ pc \in {"draft", "judge", "commit"} =>
       /\ npos + deff + 1 <= Ctx
       /\ npos + deff + 1 <= Len(par.prompt) + Limit
       /\ pc # "draft" => Len(round) <= deff + 1

\* A round never starts while the governor cools down, so a cooldown is not
\* extended by what it was meant to skip, and an epoch never outgrows its
\* length (mtp_gen.h:286, 104).
GovernorSane ==
  /\ pc \in {"draft", "judge"} => gov.cool = 0
  /\ gov.rounds < GovEpoch
  /\ gov.cool > 0 => gov.rounds = 0
  /\ gov.acc <= gov.drafted

\* An end-of-generation token "ends the sequence, never committed"
\* (mtp_gen.h:487).
EogNeverStreamed == \A i \in 1 .. Len(gen) : gen[i] \notin Eog

\* The loop ends: every round makes progress.
Terminates == <>(pc \in {"done", "failed"})

-----------------------------------------------------------------------------
(* Why they hold: the invariant that every step preserves                  *)

Upto(n) == SubSeq(history, 1, n)
PromptLen == Len(par.prompt)

\* The trunk's KV rows below n are those of the history.
Canonical(n) == \A p \in 0 .. n - 1 : kv[p] = Upto(p + 1)

\* The tokens of the verification pass of a batched round.
Verified == Upto(npos + 1) \o draft

\* Everything decided is the trunk's choice, and the stream is its beginning.
HistoryIsGreedy ==
  /\ PromptLen <= Len(history) /\ Upto(PromptLen) = par.prompt
  /\ \A i \in PromptLen + 1 .. Len(history) :
       history[i] = Greedy(par.model, Upto(i - 1))
  /\ PromptLen + Len(gen) <= Len(history)
  /\ \A i \in 1 .. Len(gen) : gen[i] = history[PromptLen + i]
  /\ Len(history) <= Ctx /\ Len(gen) <= Limit

\* The round's tokens are the end of the history.
RoundIsHistory ==
  /\ Len(history) = npos + Len(round)
  /\ \A j \in 1 .. Len(round) : round[j] = history[npos + j]
  /\ Len(round) >= 1
  /\ npos + deff + 1 <= Ctx /\ npos + deff + 1 <= PromptLen + Limit
  /\ Len(draft) = deff
  /\ par.mode \in {"serial", "batched"}

\* The verification pass and the snapshot taken before it.
PassIsVerified ==
  /\ snap = Upto(npos)
  /\ rec = Verified
  /\ \A p \in 0 .. npos + deff : kv[p] = SubSeq(Verified, 1, p + 1)
  /\ Len(hrows) = deff + 1 /\ Len(lrows) = deff + 1
  /\ \A j \in 1 .. deff + 1 : hrows[j] = SubSeq(Verified, 1, npos + j)
  /\ \A j \in Len(round) .. deff + 1 : lrows[j] = SubSeq(Verified, 1, npos + j)
  /\ \A j \in 1 .. Len(round) - 1 : round[j + 1] = draft[j]

InPrefill ==
  pc = "prefill" =>
    /\ npos <= PromptLen /\ history = par.prompt /\ gen = <<>>
    /\ rec = Upto(npos) /\ Canonical(npos)

InDecide ==
  pc = "decide" =>
    /\ npos = Len(history) /\ npos = PromptLen + Len(gen)
    /\ rec = history /\ logits = history /\ hprev = history /\ Canonical(npos)

InPlan ==
  pc \in {"plan", "draft"} =>
    /\ npos + 1 = Len(history) /\ npos + 1 = PromptLen + Len(gen)
    /\ rec = Upto(npos) /\ Canonical(npos)
    /\ pc = "draft" => /\ deff > 0 /\ Len(draft) <= deff /\ ~rejected
                       /\ npos + deff + 1 <= Ctx
                       /\ npos + deff + 1 <= PromptLen + Limit
                       /\ par.mode \in {"serial", "batched"}

InJudge ==
  pc = "judge" =>
    /\ RoundIsHistory /\ Len(round) <= deff /\ ~rejected
    /\ npos + 1 = PromptLen + Len(gen)
    /\ par.mode = "batched" => PassIsVerified
    /\ par.mode = "serial" => /\ rec = history /\ logits = history
                              /\ Canonical(Len(history))
                              /\ Len(hrows) = Len(round)

InCommit ==
  pc = "commit" =>
    /\ RoundIsHistory /\ Len(round) <= deff + 1
    /\ idx \in 1 .. Len(round)
    /\ npos + idx = PromptLen + Len(gen)
    /\ par.mode = "batched" /\ rejected =>
         snap = Upto(npos) /\ Canonical(npos)
    /\ par.mode = "batched" /\ ~rejected =>
         /\ rec = history /\ Canonical(Len(history))
         /\ Len(lrows) = Len(round) /\ Len(hrows) = Len(round)
         /\ lrows[Len(round)] = history /\ hrows[Len(round)] = history
    /\ par.mode = "serial" /\ ~eogNext =>
         /\ rec = Upto(Len(history) - 1) /\ Canonical(Len(history) - 1)
         /\ Len(hrows) = Len(round) - 1 /\ Len(round) >= 2

InRebuild ==
  pc = "rebuild" =>
    /\ RoundIsHistory /\ Len(round) <= deff + 1
    /\ idx \in 1 .. Len(round)
    /\ Len(history) = PromptLen + Len(gen)
    /\ rec = history /\ Canonical(Len(history))
    /\ Len(hrows) = Len(round) /\ hrows[Len(round)] = history
    /\ par.mode = "batched" => /\ Len(lrows) = Len(round)
                               /\ lrows[Len(round)] = history /\ hrows[Len(round)] = history
    /\ par.mode = "serial" => logits = history

\* Between the steps of a round the trunk's state always matches the tokens
\* decided so far (mtp_gen.h:185-187, generalised to every point of a round).
DecodeInv ==
  /\ TypeOK
  /\ HistoryIsGreedy
  /\ InPrefill /\ InDecide /\ InPlan /\ InJudge /\ InCommit /\ InRebuild

-----------------------------------------------------------------------------

\* The run seen from outside is plain greedy decoding: same tokens, same stop.
Plain == INSTANCE GreedyDecode WITH
  task   <- [model |-> par.model, prompt |-> par.prompt, limit |-> Limit],
  out    <- gen,
  status <- IF pc = "done" THEN (IF hitEos THEN "eos" ELSE "limit")
            ELSE IF pc = "failed" THEN "failed" ELSE "running"

\* mtp_gen.h:21-22: "the output is exactly plain greedy decode".
IsPlainGreedy == Plain!DSpec

=============================================================================
