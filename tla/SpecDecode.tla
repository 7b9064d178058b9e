----------------------------- MODULE SpecDecode -----------------------------
(***************************************************************************)
(* Speculative greedy decoding: mtp_prefill_batched and mtp_generate       *)
(* (include/rdna4/mtp_gen.h) over the trunk's caches (graph.cuh) and the   *)
(* draft head's own KV cache (mtp.cuh).                                    *)
(*                                                                         *)
(* Numbers on the device are abstracted to the tokens they were computed   *)
(* from.  A hidden state, a row of logits or a KV row is the sequence of   *)
(* tokens that determined it; Stale stands for anything else: a row that   *)
(* is not consistent with the tokens before it.  Sampling such a row may   *)
(* give any token at all, so a path that reads a wrong row is caught by    *)
(* the tokens it commits.                                                  *)
(***************************************************************************)
EXTENDS Naturals, Sequences, SequencesExt

CONSTANTS
  Token,         \* the vocabulary
  Eog,           \* the end-of-generation tokens
  Model,         \* the weights that may be loaded
  Greedy(_, _),  \* Greedy(m, s): first choice of model m after the tokens s
  EogDrafts,     \* the modes in which the draft head may propose an end
  Prompt,        \* the prompts a run may start from
  Mode,          \* a subset of {"plain", "score", "serial", "batched"}
  DraftLen,      \* values of --draft
  NPredict,      \* values of -n, before it is clipped to the context
  Ctx,           \* Graph::max_ctx
  GovEpoch,      \* RD_MTP_GOV_EPOCH
  GovCool,       \* RD_MTP_GOV_COOL
  GovNum, GovDen, \* RD_MTP_GOV_MIN = GovNum / GovDen
  Stale

\* The token sequences that fit the context.
Text == UNION {[1 .. n -> Token] : n \in 0 .. Ctx}

ASSUME TokenAssumption ==
  /\ Eog \subseteq Token
  /\ EogDrafts \subseteq Mode
  /\ \A m \in Model : \A s \in Text : Greedy(m, s) \in Token
  /\ Stale \notin Text

ASSUME BoundAssumption ==
  /\ Ctx \in Nat
  /\ Prompt \subseteq {p \in Text : Len(p) > 0 /\ Len(p) < Ctx}
  /\ DraftLen \subseteq Nat
  /\ NPredict \subseteq Nat
  /\ Mode \subseteq {"plain", "score", "serial", "batched"}
  /\ {GovEpoch, GovCool, GovDen} \subseteq Nat \ {0}
  /\ GovNum \in Nat

VARIABLES
  par,      \* what the run was started with; never changes
  pc,       \* where mtp_generate stands
  npos,     \* position of the next token the trunk absorbs (the code's pos + 1)
  history,  \* prompt and every decided token
  gen,      \* the tokens streamed to the caller
  hitEos,
  rec,      \* the GDN state: the tokens it has absorbed
  kv,       \* kv[p]: the tokens the trunk's KV row p was computed from
  snap,     \* the snapshot of rec
  logits,   \* the host row the next decision is sampled from
  hprev,    \* the trunk's h at position npos - 1
  hkv,      \* hkv[p]: token and h the draft head's KV row p was built from
  deff,     \* D_eff of the round
  draft,    \* the round's drafted tokens
  hrows,    \* the trunk's h at npos, npos + 1, ... of the round
  lrows,    \* the verification logits of the round, same rows
  round,    \* the tokens the round decided (ftoks, decisions)
  idx,      \* loop index over round
  rejected, \* a draft of the round was refused (batched path)
  eogNext,  \* the trunk chose an end-of-generation token (serial path)
  gov       \* the acceptance governor

device == <<rec, kv, snap, hkv>>
roundVars == <<deff, draft, hrows, lrows, round, idx, rejected, eogNext>>
vars == <<par, pc, npos, history, gen, hitEos, logits, hprev, gov,
          device, roundVars>>

Position == 0 .. Ctx - 1
Phase == {"prefill", "decide", "plan", "draft", "judge", "commit",
          "rebuild", "done", "failed"}

Smaller(a, b) == IF a <= b THEN a ELSE b


-----------------------------------------------------------------------------
(* The trunk and the draft head                                            *)

\* What a forward at position at builds on, the recurrent state being st: st,
\* provided it has absorbed exactly the tokens the KV rows below at stand for.
Base(st, at) ==
  IF /\ st # Stale
     /\ Len(st) = at
     /\ \A p \in 0 .. at - 1 : kv[p] = SubSeq(st, 1, p + 1)
  THEN st ELSE Stale

\* h and logits of the k-th of the tokens toks forwarded at position at.
Row(st, toks, at, k) ==
  IF Base(st, at) = Stale THEN Stale ELSE Base(st, at) \o SubSeq(toks, 1, k)

Rows(st, toks, at) == [k \in 1 .. Len(toks) |-> Row(st, toks, at, k)]

\* One trunk pass over toks at positions at, at + 1, ...: every row is written,
\* and the recurrent state ends after the last one.
TrunkForward(st, toks, at) ==
  /\ at + Len(toks) <= Ctx
  /\ rec' = Row(st, toks, at, Len(toks))
  /\ kv' = [p \in Position |->
              IF p \in at .. at + Len(toks) - 1
              THEN Row(st, toks, at, p - at + 1) ELSE kv[p]]

\* The draft head's row for the token t at position p, built from h.
HeadStep(t, p, h) ==
  /\ p < Ctx
  /\ hkv' = [hkv EXCEPT ![p] = [tok |-> t, h |-> h]]

\* What the sampler may return for a row of logits.
Sampled(row) == IF row = Stale THEN Token ELSE {Greedy(par.model, row)}

-----------------------------------------------------------------------------
(* The acceptance governor                                                 *)

NoGov == [rounds |-> 0, acc |-> 0, drafted |-> 0, cool |-> 0]

\* Variant: an epoch's counters are never cleared.
GovObserveNoReset(acc, drafted) ==
  LET seen == [gov EXCEPT !.rounds = @ + 1, !.acc = @ + acc,
                          !.drafted = @ + drafted]
  IN  IF seen.rounds < GovEpoch \/ seen.cool # 0 THEN seen
      ELSE [seen EXCEPT !.cool = GovCool]

GovObserve(acc, drafted) ==
  LET seen == [gov EXCEPT !.rounds = @ + 1, !.acc = @ + acc,
                          !.drafted = @ + drafted]
      low  == GovDen * seen.acc < GovNum * seen.drafted
  IN  IF seen.rounds < GovEpoch \/ seen.cool # 0 THEN seen
      ELSE [NoGov EXCEPT !.cool = IF low THEN GovCool ELSE seen.cool]

\* Called once per verified round with the number of accepted drafts.
ObserveRound(acc) ==
  gov' = IF par.gov THEN GovObserve(acc, deff) ELSE gov

-----------------------------------------------------------------------------
(* Start and prefill                                                       *)

\* -n as the command line clips it to what is left of the context.
Clip(n, len) == IF len + n > Ctx THEN Ctx - len ELSE n
Limit == Clip(par.nPredict, Len(par.prompt))

Speculative(m) == m \in {"serial", "batched"}

\* The caches may hold rows of an earlier sequence: reset_state clears the
\* recurrent state only.
Init ==
  /\ par \in [model : Model, prompt : Prompt, mode : Mode, draft : DraftLen,
              nPredict : NPredict, gov : BOOLEAN, chunked : BOOLEAN]
  /\ par.gov => Speculative(par.mode) /\ par.draft > 0
  /\ pc = "prefill" /\ npos = 0
  /\ history = par.prompt /\ gen = <<>> /\ hitEos = FALSE
  /\ rec = <<>> /\ snap = Stale
  /\ kv = [p \in Position |-> Stale]
  /\ hkv = [p \in Position |-> [tok |-> par.prompt[1], h |-> Stale]]
  /\ logits = Stale /\ hprev = <<>>
  /\ deff = 0 /\ draft = <<>> /\ hrows = <<>> /\ lrows = <<>>
  /\ round = <<>> /\ idx = 0 /\ rejected = FALSE /\ eogNext = FALSE
  /\ gov = NoGov

PrefillSizes == {16, 8, 4, 3, 2, 1}

\* The largest size that fits what is left of the prompt; the per-token
\* prefill always takes one.
Take ==
  LET left == Len(par.prompt) - npos
  IN  IF par.chunked
      THEN CHOOSE s \in PrefillSizes :
             /\ s <= left
             /\ \A r \in PrefillSizes : r <= left => r <= s
      ELSE 1

\* One chunk through the trunk, then the head's row of each of its tokens,
\* from the trunk's h one position earlier.
PrefillChunk ==
  /\ pc = "prefill" /\ npos < Len(par.prompt)
  /\ LET chunk == SubSeq(par.prompt, npos + 1, npos + Take)
         rows  == Rows(rec, chunk, npos)
         hBefore(t) == IF t = 1 THEN hprev ELSE rows[t - 1]
     IN  /\ TrunkForward(rec, chunk, npos)
         /\ hkv' = IF par.mode = "plain" THEN hkv
                   ELSE [p \in Position |->
                           IF p \in npos .. npos + Take - 1
                           THEN [tok |-> chunk[p - npos + 1],
                                 h |-> hBefore(p - npos + 1)]
                           ELSE hkv[p]]
         /\ hprev' = Last(rows)
         /\ logits' = Last(rows)
         /\ npos' = npos + Take
  /\ pc' = IF npos' = Len(par.prompt) THEN "decide" ELSE "prefill"
  /\ UNCHANGED <<par, history, gen, hitEos, snap, roundVars, gov>>

-----------------------------------------------------------------------------
(* The top of the loop                                                     *)

\* Variant: an end-of-generation token is committed like any other.
DecideAnyToken ==
  /\ pc = "decide" /\ Len(gen) < Limit
  /\ \E t \in Sampled(logits) :
       gen' = Append(gen, t) /\ history' = Append(history, t)
  /\ pc' = "plan"
  /\ UNCHANGED <<par, npos, hitEos, logits, hprev, gov, device, roundVars>>

\* The trunk decides the next token.  The sampler reads the row and filters a
\* copy of it.
Decide ==
  /\ pc = "decide" /\ Len(gen) < Limit
  /\ \E t \in Sampled(logits) :
       IF t \in Eog
       THEN /\ hitEos' = TRUE /\ pc' = "done"
            /\ UNCHANGED <<gen, history>>
       ELSE /\ gen' = Append(gen, t)
            /\ history' = Append(history, t)
            /\ pc' = "plan"
            /\ UNCHANGED hitEos
  /\ UNCHANGED <<par, npos, logits, hprev, gov, device, roundVars>>

BudgetUsed ==
  /\ pc = "decide" /\ Len(gen) >= Limit
  /\ pc' = IF Len(gen) > Limit THEN "failed" ELSE "done"
  /\ UNCHANGED <<par, npos, history, gen, hitEos, logits, hprev, gov,
                 device, roundVars>>

ContextFull ==
  /\ pc = "plan" /\ Len(history) >= Ctx
  /\ pc' = "done"
  /\ UNCHANGED <<par, npos, history, gen, hitEos, logits, hprev, gov,
                 device, roundVars>>

id == Last(history)

\* One token through the trunk: logits and h of its position.
TrunkStep(t, at) ==
  /\ TrunkForward(rec, <<t>>, at)
  /\ logits' = rec'

Advance ==
  /\ TrunkStep(id, npos)
  /\ hprev' = logits'
  /\ npos' = npos + 1
  /\ pc' = "decide"

PlainStep ==
  /\ pc = "plan" /\ Len(history) < Ctx /\ par.mode = "plain"
  /\ Advance
  /\ UNCHANGED <<par, history, gen, hitEos, snap, hkv, gov, roundVars>>

\* Score mode and rounds without a draft keep the head's cache in step.
ScoreStep ==
  /\ pc = "plan" /\ Len(history) < Ctx /\ par.mode = "score"
  /\ HeadStep(id, npos, hprev)
  /\ Advance
  /\ UNCHANGED <<par, history, gen, hitEos, snap, gov, roundVars>>

\* How many drafts the context, the budget and the batch sizes leave room for.
Room == Ctx - npos
\* Variant: the budget forgets what has been streamed.
RoomPredWhole == Limit

RoomPred == Limit - Len(gen)
Pred(n) == IF n > 0 THEN n - 1 ELSE 0
DraftRoom ==
  LET cap == IF par.mode = "batched" THEN Smaller(par.draft, 3) ELSE par.draft
  IN  Smaller(cap, Smaller(Pred(Room), Pred(RoomPred)))

\* Variant: a cooldown that never ends.
CoolingForever == par.gov /\ DraftRoom > 0

Cooling == par.gov /\ DraftRoom > 0 /\ gov.cool > 0

IdleStep ==
  /\ pc = "plan" /\ Len(history) < Ctx /\ Speculative(par.mode)
  /\ Cooling \/ DraftRoom = 0
  /\ gov' = IF Cooling THEN [gov EXCEPT !.cool = @ - 1] ELSE gov
  /\ HeadStep(id, npos, hprev)
  /\ Advance
  /\ UNCHANGED <<par, history, gen, hitEos, snap, roundVars>>

StartRound ==
  /\ pc = "plan" /\ Len(history) < Ctx /\ Speculative(par.mode)
  /\ ~Cooling /\ DraftRoom > 0
  /\ deff' = DraftRoom
  /\ draft' = <<>> /\ hrows' = <<>> /\ lrows' = <<>> /\ round' = <<>>
  /\ idx' = 0 /\ rejected' = FALSE /\ eogNext' = FALSE
  /\ pc' = "draft"
  /\ UNCHANGED <<par, npos, history, gen, hitEos, logits, hprev, gov, device>>

-----------------------------------------------------------------------------
(* A round: draft, verify, commit, rebuild the head's rows                 *)

\* The first draft is built from the trunk's h, the others from the head's
\* own output, which is not a trunk h.
DraftStep ==
  /\ pc = "draft" /\ Len(draft) < deff
  /\ IF draft = <<>> THEN HeadStep(id, npos, hprev)
                     ELSE HeadStep(Last(draft), npos + Len(draft), Stale)
  /\ \E d \in Token :
       /\ d \in Eog => par.mode \in EogDrafts
       /\ draft' = Append(draft, d)
  /\ UNCHANGED <<par, pc, npos, history, gen, hitEos, logits, hprev, gov,
                 rec, kv, snap, deff, hrows, lrows, round, idx, rejected,
                 eogNext>>

\* Variant: the snapshot is taken after the pass.
VerifyBatchLateSnapshot ==
  /\ pc = "draft" /\ Len(draft) = deff /\ par.mode = "batched"
  /\ TrunkForward(rec, <<id>> \o draft, npos)
  /\ snap' = rec'
  /\ hrows' = Rows(rec, <<id>> \o draft, npos)
  /\ lrows' = hrows'
  /\ round' = <<id>>
  /\ pc' = "judge"
  /\ UNCHANGED <<par, npos, history, gen, hitEos, logits, hprev, hkv, gov,
                 deff, draft, idx, rejected, eogNext>>

\* Batched: snapshot the recurrent state, then one pass over id and all drafts.
VerifyBatch ==
  /\ pc = "draft" /\ Len(draft) = deff /\ par.mode = "batched"
  /\ snap' = rec
  /\ TrunkForward(rec, <<id>> \o draft, npos)
  /\ hrows' = Rows(rec, <<id>> \o draft, npos)
  /\ lrows' = hrows'
  /\ round' = <<id>>
  /\ pc' = "judge"
  /\ UNCHANGED <<par, npos, history, gen, hitEos, logits, hprev, hkv, gov,
                 deff, draft, idx, rejected, eogNext>>

\* The trunk's own choice at the next drafted position.  A draft it disagrees
\* with ends the round uncommitted; one it agrees with is committed.
JudgeBatch ==
  /\ pc = "judge" /\ par.mode = "batched"
  /\ LET k == Len(round)
     IN  /\ \E t \in Sampled(lrows[k]) :
              IF t # draft[k]
              THEN /\ rejected' = TRUE
                   /\ pc' = "commit"
                   /\ ObserveRound(k - 1)
                   /\ UNCHANGED <<round, history>>
              ELSE /\ round' = Append(round, t)
                   /\ history' = Append(history, t)
                   /\ IF k = deff
                      THEN pc' = "commit" /\ ObserveRound(k)
                      ELSE UNCHANGED <<pc, gov>>
                   /\ UNCHANGED rejected
  /\ idx' = 1
  /\ UNCHANGED <<par, npos, gen, hitEos, logits, hprev, device, deff, draft,
                 hrows, lrows, eogNext>>

\* Serial: forward id, then each draft only once the trunk has agreed with it.
VerifyFirst ==
  /\ pc = "draft" /\ Len(draft) = deff /\ par.mode = "serial"
  /\ TrunkStep(id, npos)
  /\ hrows' = <<logits'>>
  /\ round' = <<id>>
  /\ pc' = "judge"
  /\ UNCHANGED <<par, npos, history, gen, hitEos, hprev, snap, hkv, gov,
                 deff, draft, lrows, idx, rejected, eogNext>>

JudgeSerial ==
  /\ pc = "judge" /\ par.mode = "serial"
  /\ LET k == Len(round)
     IN  \E t \in Sampled(logits) :
           \/ /\ t \in Eog
              /\ eogNext' = TRUE /\ pc' = "commit"
              /\ UNCHANGED <<round, history, rec, kv, logits, hrows>>
           \/ /\ t \notin Eog
              /\ round' = Append(round, t) /\ history' = Append(history, t)
              /\ UNCHANGED eogNext
              /\ IF t = draft[k] /\ k < deff
                 THEN /\ TrunkStep(t, npos + k)
                      /\ hrows' = Append(hrows, logits')
                      /\ UNCHANGED pc
                 ELSE /\ pc' = "commit"
                      /\ UNCHANGED <<rec, kv, logits, hrows>>
  /\ idx' = 1
  /\ UNCHANGED <<par, npos, gen, hitEos, hprev, snap, hkv, gov, deff, draft,
                 lrows, rejected>>

\* Tokens the round decided are streamed one by one.
PushToken ==
  /\ pc = "commit" /\ idx < Len(round)
  /\ gen' = Append(gen, round[idx + 1])
  /\ idx' = idx + 1
  /\ UNCHANGED <<par, pc, npos, history, hitEos, logits, hprev, gov, device,
                 deff, draft, hrows, lrows, round, rejected, eogNext>>

\* Variant: the head's rows of an accepted round are not rebuilt.
KeepBatchNoRebuild ==
  /\ pc = "commit" /\ idx = Len(round) /\ par.mode = "batched" /\ ~rejected
  /\ pc' = "rebuild"
  /\ UNCHANGED <<par, npos, history, gen, hitEos, logits, hprev, gov, device,
                 deff, draft, hrows, lrows, round, idx, rejected, eogNext>>

\* Batched, every draft accepted: the verification pass stands.
KeepBatch ==
  /\ pc = "commit" /\ idx = Len(round) /\ par.mode = "batched" /\ ~rejected
  /\ idx' = 1 /\ pc' = "rebuild"
  /\ UNCHANGED <<par, npos, history, gen, hitEos, logits, hprev, gov, device,
                 deff, draft, hrows, lrows, round, rejected, eogNext>>

\* Variant: the snapshot is not restored before the replay.
ReplayNoRestore ==
  /\ pc = "commit" /\ idx = Len(round) /\ par.mode = "batched" /\ rejected
  /\ TrunkForward(rec, round, npos)
  /\ hrows' = Rows(rec, round, npos)
  /\ lrows' = hrows'
  /\ idx' = 1 /\ pc' = "rebuild"
  /\ UNCHANGED <<par, npos, history, gen, hitEos, logits, hprev, snap, hkv,
                 gov, deff, draft, round, rejected, eogNext>>

\* Batched, a draft refused: restore the snapshot, run the committed tokens.
Replay ==
  /\ pc = "commit" /\ idx = Len(round) /\ par.mode = "batched" /\ rejected
  /\ TrunkForward(snap, round, npos)
  /\ hrows' = Rows(snap, round, npos)
  /\ lrows' = hrows'
  /\ idx' = 1 /\ pc' = "rebuild"
  /\ UNCHANGED <<par, npos, history, gen, hitEos, logits, hprev, snap, hkv,
                 gov, deff, draft, round, rejected, eogNext>>

SerialEog ==
  /\ pc = "commit" /\ idx = Len(round) /\ par.mode = "serial" /\ eogNext
  /\ hitEos' = TRUE /\ pc' = "done"
  /\ UNCHANGED <<par, npos, history, gen, logits, hprev, gov, device,
                 roundVars>>

\* Serial: the last decided token has not been forwarded yet.
ForwardLast ==
  /\ pc = "commit" /\ idx = Len(round) /\ par.mode = "serial" /\ ~eogNext
  /\ TrunkStep(Last(round), npos + Len(round) - 1)
  /\ hrows' = Append(hrows, logits')
  /\ LET agreed == Len(round) - 1
         missed == round[Len(round)] # draft[agreed]
     IN  ObserveRound(IF missed THEN agreed - 1 ELSE agreed)
  /\ idx' = 1 /\ pc' = "rebuild"
  /\ UNCHANGED <<par, npos, history, gen, hitEos, hprev, snap, hkv, deff,
                 draft, lrows, round, rejected, eogNext>>

\* Variant: the loop over the rows never advances.
RebuildRowStuck ==
  /\ pc = "rebuild" /\ idx < Len(round)
  /\ HeadStep(round[idx + 1], npos + idx, hrows[idx])
  /\ UNCHANGED <<par, pc, npos, history, gen, hitEos, logits, hprev, gov, idx,
                 rec, kv, snap, deff, draft, hrows, lrows, round, rejected,
                 eogNext>>

\* The head's rows of the committed tokens, from the trunk's h instead of the
\* chained one.  The row of id needs no rebuild: the first draft wrote it.
RebuildRow ==
  /\ pc = "rebuild" /\ idx < Len(round)
  /\ HeadStep(round[idx + 1], npos + idx, hrows[idx])
  /\ idx' = idx + 1
  /\ UNCHANGED <<par, pc, npos, history, gen, hitEos, logits, hprev, gov,
                 rec, kv, snap, deff, draft, hrows, lrows, round, rejected,
                 eogNext>>

\* Variant: h and logits are those of the round's first token.
EndRoundFirstRow ==
  /\ pc = "rebuild" /\ idx = Len(round)
  /\ npos' = npos + Len(round)
  /\ hprev' = Head(hrows)
  /\ logits' = IF par.mode = "batched" THEN Head(lrows) ELSE logits
  /\ pc' = "decide"
  /\ UNCHANGED <<par, history, gen, hitEos, gov, device, roundVars>>

EndRound ==
  /\ pc = "rebuild" /\ idx = Len(round)
  /\ npos' = npos + Len(round)
  /\ hprev' = Last(hrows)
  /\ logits' = IF par.mode = "batched" THEN Last(lrows) ELSE logits
  /\ pc' = "decide"
  /\ UNCHANGED <<par, history, gen, hitEos, gov, device, roundVars>>

-----------------------------------------------------------------------------

\* A device call or the sampler fails: mtp_generate returns false and the
\* caller exits, so nothing reads the caches afterwards.
Fail ==
  /\ \/ pc \in {"prefill", "draft", "judge"}
     \/ pc = "decide" /\ Len(gen) < Limit
     \/ pc = "plan" /\ Len(history) < Ctx
     \/ pc = "commit" /\ idx = Len(round) /\ (rejected \/ ~eogNext)
     \/ pc = "rebuild" /\ idx < Len(round)
  /\ pc' = "failed"
  /\ UNCHANGED <<par, npos, history, gen, hitEos, logits, hprev, gov, device,
                 roundVars>>

Terminated ==
  /\ pc \in {"done", "failed"}
  /\ UNCHANGED vars

Step ==
  \/ PrefillChunk
  \/ Decide \/ BudgetUsed \/ ContextFull
  \/ PlainStep \/ ScoreStep \/ IdleStep \/ StartRound
  \/ DraftStep
  \/ VerifyBatch \/ JudgeBatch \/ KeepBatch \/ Replay
  \/ VerifyFirst \/ JudgeSerial \/ SerialEog \/ ForwardLast
  \/ PushToken \/ RebuildRow \/ EndRound

Next == Step \/ Fail \/ Terminated

Spec == Init /\ [][Next]_vars

\* The loop is one host thread; a blocking device call returns.
FairSpec == Spec /\ WF_vars(Step)

=============================================================================
