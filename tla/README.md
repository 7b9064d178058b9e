# A verification of rdna4-infer in TLA+

rdna4-infer runs one family of language models (Qwen3.8 27B in GGUF) on one GPU,
from a command line or behind an OpenAI-compatible HTTP server. This directory
holds TLA+ models of the parts whose correctness is a matter of *control* or of
*indexing*: which token is committed, which cache row belongs to which token, what a
client is sent, when a server stops, which bit of a block reaches which weight, and
which thread adds which term when. The models are checked with TLC on small
instances; what matters most is proved with TLAPS for every value of the constants.

## 1. Inventory

| part | source | state it keeps | operations | talks to |
|---|---|---|---|---|
| Speculative decode loop | `include/rdna4/mtp_gen.h` | history, streamed tokens, position, governor counters | prefill, decide, draft, verify, commit, rebuild | trunk, draft head, sampler |
| Trunk (token graph) | `include/rdna4/graph.cuh` | recurrent (GDN) state, convolution state, KV rows, one snapshot | `forward_tokens`, `forward_batch_all`, `prefill`, `reset_state`, `state_snapshot/restore` | device memory, kernels |
| Draft head | `include/rdna4/mtp.cuh` | its own KV rows, pending h | `step_host`, `step_chained` | trunk's h |
| Sampler | `src/backend/sampler.cpp` | random state | `filter`, `sample` | logits, history |
| HTTP server | `src/server/http.cpp`, `include/rdna4/server.h` | listening socket, self-pipe, one connection at a time, `g_stop` | accept, read, dispatch, send, stream, stop | signals, handlers, sockets |
| Serving application | `src/server/serve.hip` | one engine, slot of the current request | `/v1/completions`, `/v1/chat/completions`, `/v1/models`, health | HTTP responder, engine, tokenizer |
| GPU lock | `scripts/gpu-lock.sh` | lock file, environment of the job, VRAM in use | acquire, wait, run, nested run | other jobs on the same card |
| Container, loader, geometry | `src/backend/{gguf,loader,model}.cpp` | mapped file, tensor table, counters | open, parse, plan layers | command line, graph |
| Tokenizer, Unicode | `src/backend/{tokenizer,unicode}.cpp` | vocabulary, merge ranks | encode, decode | server, command line |
| Chat template, tools | `src/backend/chat.cpp` | none | render messages, parse tool calls | server |
| JSON | `src/server/json.cpp` | none | parse, write | server |
| KV quantisation, budget | `include/rdna4/{kv.h,device.h}` | device allocations | block layout, chunk size, fits/does not fit | graph |
| Quantised formats | `include/rdna4/{quants.h,dequant,dequant_row,vecdotq}.cuh` | none | three readers of a block: dequantize, dot product, GEMM staging | matvec, tiled product |
| Attention kernels | `include/rdna4/{attn,attn_fa2}.cuh` | KV rows (read), query rows (overwritten) | per token, per chunk, split and merged, tiled | graph |
| Norm and elementwise kernels | `include/rdna4/nn.cuh`, parts of `gdn.cuh`, `attn.cuh` | argmax candidates between calls | norms, fused adds, gates, RoPE, argmax | graph |
| Gated delta net kernels | `include/rdna4/gdn.cuh` | recurrent state, convolution window | per token, per chunk, scalar / ILP / resident forms | graph |
| Matrix products | `include/rdna4/{matvec,gemm}.cuh`, `tuning.h` | LDS tables and tiles | one token, a batch, tiles of dp4a and WMMA; the choice between them | graph |

Where it is hard:

* **Speculation.** A round writes the recurrent state, the trunk's KV rows and the
  head's KV rows for tokens that may be refused. The recurrent state cannot be
  rewound, so it is snapshotted and replayed; the KV rows are left behind and must
  be overwritten before they are read. Stop rules (end of generation, context,
  budget) are repeated on each of five commit paths.
* **Serving.** The server is single-threaded, and a request can be cut by the client
  going away, by a signal, by a stop string split over several tokens or by the
  context. Signals reach a blocked `poll` only through a self-pipe.
* **Kernels.** Warps of a CTA meet at barriers and share LDS that still holds what the
  CTA before left; CTAs of a grid come in any order; a chunk must be bit for bit the
  tokens one by one although other kernels compute it; results overwrite operands.
* **Formats.** Fourteen block formats are read by three independently optimised readers,
  with signs, scales and grid indices scattered over words.
* **Queueing.** Jobs of several processes share a card whose memory is released some
  time after a job ends; jobs can start jobs.
* **Boundaries.** Chunk sizes of prefill, the room left in the context, UTF-8 split
  over tokens.

What makes each part correct: for the decode loop, that the stream is plain greedy
decoding whatever is drafted; for the trunk, that a forward only ever builds on
rows of the same history; for the HTTP server, one well-formed answer per
connection and a shutdown that always comes; for the serving application, that the
text sent is the text generated up to a stop and that every stream is closed; for
the readers of the quantised formats, that they read the same weight at the same place
of the row, once; for the kernels, that whatever the order of CTAs and the interleaving
of warps the memory holds what the plain computation leaves, with the sums in the order
the comments promise; for the pure parts (plans), agreement with a reference definition.

## 2. Speculative decoding

### Modules

| module | what it is |
|---|---|
| `GreedyDecode` | the promise: plain greedy decoding, one token at a time, no caches |
| `SpecDecode` | `mtp_prefill_batched` and `mtp_generate` over trunk, snapshot and draft head |
| `SpecDecodeProps` | its properties, the inductive invariant, the refinement mapping |
| `SpecDecode_proofs` | proofs: the invariant, what it says of stream, trunk and bounds, the refinement, the governor and the head's rows |
| `MCSpecDecode` | small instances for TLC |

State and code: `npos` is `pos + 1`; `history`, `gen`, `logits`, `hidden`/`h_prev`
(one variable `hprev`) and the governor's counters are the code's own; `rec` is the
recurrent and convolution state, `kv` the trunk's rows, `hkv` the head's, `snap` the
snapshot; `hrows`, `lrows`, `draft`, `round` are `h_rows`, `l_rows`, `draft` and
`ftoks` (batched) or `decisions` (serial). `pc` is the place in the loop.

A number on the device is represented by the sequence of tokens it was computed
from. A forward at position `p` gives a meaningful row only if the recurrent state
has absorbed exactly `p` tokens and the KV rows below `p` stand for the same tokens;
otherwise it gives `Stale`, and sampling a stale row may give *any* token. So if the
code read a wrong row anywhere, the model would stream a wrong token.
`mtp_generate`'s failures (a device call or the sampler reports an error) are the
action `Fail`, enabled at the places where the code makes such a call.

### Runs

| run | question | result |
|---|---|---|
| `spec_modes` | the four modes, with and without governor, chunked and per-token prefill; the head drafts anything but, in the batched mode, an end of generation | all properties hold, it is plain greedy decoding, the loop ends |
| `spec_eog` | batched, the head may draft an end of generation | violation, see *Findings* |

Bounds: three tokens, one of them end of generation; eight models whose choice
depends on every token of the text, so that two different histories of the same
length are told apart; prompts of 1, 2, 3 and 5 tokens (chunks 1, 2, 3 and 4+1);
context 7, so that context, budget and draft room each become the binding limit;
drafts of 1, 2 and 3 and `--draft 5` for the cap of the batched path; an epoch of two
rounds and a cooldown of one. These reach every commit path, rounds refused at
every index, and rounds clamped by every limit. Nothing in the batched round looks at whether a draft is an end, so
for its caches and its progress an end drafted there is a token like the others; all theorems
but `EndsAreNotStreamed` and `RefinesPlainGreedy` hold with it too.

Fairness: `FairSpec` assumes only that the single host thread keeps taking steps,
that is, that a blocking device call returns.

### Proof

`DecodeInv` is inductive. `TrunkInStep` alone is not, since it says nothing inside
a round; the invariant adds, for each place in the loop, what the trunk's state
stands for there: in `judge` (batched) the recurrent state and the rows are those of
the whole verification pass and the snapshot is the history before it; in `commit`
after a refusal only the snapshot and the rows below the round matter; in `rebuild`
the state is the history again. `HistoryIsGreedy` says that everything decided is
the trunk's choice. Each action has one lemma with a step per disturbed conjunct;
the row algebra is in lemmas on sequences (`AppendPrefix`, `ForwardExact`, ...).
Proved for all values of the constants, from `TokenAssumption` and `BoundAssumption`
only: `TypeCorrect`, `InvHolds`, `StreamIsGreedy`, `TrunkStaysInStep`, `RoundsFit`.
`Terminates` is liveness and stays with TLC.

A second part of `SpecDecode_proofs` shows that `SpecDecode` implements `GreedyDecode`. Beside
`DecodeInv` it needs `EogInv`: nothing decided after the prompt is an end of generation,
no draft of the batched mode is one, and `hit_eos` and the serial path's end flag are set
only where the trunk has chosen an end. Prefill, drafting, verification, replay and
rebuild are stutters of the abstract machine; `Decide` and `PushToken` emit, and the ways
to stop map to its own. The theorems `EndsAreNotStreamed` and `RefinesPlainGreedy` assume
`"batched" \notin EogDrafts`; `spec_eog` shows that without it they are false, so the
assumption marks the boundary of the finding below and hides nothing else.

Its last part is about what the output does not show. `HeadInv` says from which
trunk rows the head's rows are built, and how far, at each place of a round: a drafted
position is overwritten only from the second draft on, which is why the row of the
round's first token is never rebuilt (`mtp_gen.h:421-438` starts at 1). `GovInv` adds to
`GovernorSane` what a cooldown excludes at the places where a round is observed. That a
cooldown is not used up by rounds without room for a draft is the guard of `Cooling`
(`mtp_gen.h:286`) in the model; no property states it.

### Finding

The batched path commits an accepted draft without asking `is_eog`
(`mtp_gen.h:363-376`). If the head proposes the end-of-generation token and the
trunk agrees, it is streamed and generation continues after it, while plain greedy
decoding, and the serial path, stop there and never commit it (`mtp_gen.h:235-238`,
`486-490`, and the promise at `23-24`). `spec_eog` shows it; `spec_modes` shows that
this is the only difference from plain greedy decoding.

## 3. HTTP server

| module | what it is |
|---|---|
| `HttpServer` | the one thread of `serve()`, its connection, signals, clients |
| `HttpServerProps` | what the server owes its clients, when it stops; the inductive invariant |
| `HttpServer_proofs`, `SequenceFacts` | the proofs |
| `MCHttpServer` | one request of every kind that is treated differently |

State and code: `Open` is the start-up (address, socket, `bind`, `listen`), any of which
may fail; `pc` is the place in `serve()`, `handle_connection`, `read_request`
or the handler; `blocked` says that the thread sleeps in `poll()` or `recv()`, and
`intr` that a signal has interrupted that call, so that every instant of a signal
relative to the test of `g_stop` and to the call is there; `pipe` is the self-pipe
and `stop` is `g_stop`; `wire` is what was written to the connection, in items (the
head, a chunk, a terminator), `"cut"` being one of which only some bytes went out;
`gone` is the responder's `gone_`. `late` counts what is still done after a stop.
Clients (`Arrive`, `ClientActs`) and the listen backlog are external and modelled
from what the code asks of them.

| run | question | result |
|---|---|---|
| `http_pipe` | requests of every kind, clients that send, fall silent, close or break at any moment, write failures at every item, signals at every instant | one complete answer per request, no token for a client known to be gone, one connection and one token at most after a stop, no hang, a shutdown that always comes |
| `http_cut` | is anything written after a chunk that went out in part? | violation, see below |

Bounds: two connections (one being served, one in the backlog), two signals (one
before and one inside a call), two tokens (a stop between two). Requests are read in
at most two `recv` calls for head and body, so that each of them can be the one that
is interrupted, times out or sees the client close.

Fairness: weak fairness of the server thread (`FairSpec`), and none for clients or
signals. It is justified because no call blocks for ever by itself: `SO_RCVTIMEO` and
`SO_SNDTIMEO` bound `recv` and `send`, which the model gives the outcome *timed out*,
and a step that stands for a blocked call is enabled only when something the code
waits for has happened. `poll` has no timeout; only a connection or the pipe ends it,
and this is why `Shutdown` needs the pipe.

Finding: the items that close a stream are written without asking whether the one
before was written whole (`serve.hip:1181-1199`; `stream_chunk` looks at `started_` and
`finished_` only), so bytes of a second chunk may follow the first half of another.

`HasPipe` is a constant because `install_signal_handlers` goes on when `pipe()` fails
(`http.cpp:126-128, 617-622`). With `HasPipe = FALSE` TLC refutes `Shutdown`: a stop that
is set just before `poll` is entered, or from another thread, is never noticed, though
`server.h:115` and `server.h:130` promise that `serve()` returns. The runs take TRUE.

Proof: `ServeInv` is inductive for every set of requests, every number of connections,
signals and tokens, with and without the pipe. `AnsweredOnce` speaks of the moment of
closing only; the invariant says at every place that what the client was sent and what
is about to be written (`Due`) are together one answer, or the beginning of a stream
while tokens are generated (`GenerateInv`, `WriteInv`); that nothing but an interim
`100 Continue` precedes the handler (`ReadInv`); and that what was done since a stop was
done before the thread could see it (`StopInv`). From it follow `OneAnswer`,
`StopsPromptly` and the action property `NobodyIsServed`, from `RequestAssumption` and
`BoundAssumption` only. `Shutdown` and `NeverHangs` are liveness and stay with TLC.

## 4. Completion text

| module | what it is |
|---|---|
| `Generate` | `Engine::generate` with `fit_context` and `utf8_keep_len` |
| `GenerateProps` | properties, inductive invariant |
| `Generate_proofs` | the proofs |
| `MCGenerate` | a vocabulary whose pieces cut characters and stop strings |

State and code: `all`, `emitted`, `stopAt`, `pos`, `gen`, `history`, `finish`, `gone`
are `text`, `emitted`, `stop_at`, `pos`, `generated_ids`, `history`, `finish_reason`
and `client_gone`; `sent` is what `on_delta` accepted. `absorbed` is the trunk's
recurrent state, `row` what the last argmax and the last logits were computed from
and `want` the trunk's argmax-only mode; all three begin as an earlier request left
them. The text is a sequence of bytes of which only the role in UTF-8 matters.

| run | question | result |
|---|---|---|
| `generate_text` | every token sequence of a vocabulary with pieces of 0, 1 and 2 bytes, a stop or a lost client at every point | all properties hold |
| `generate_utf8` | may the returned text be invalid UTF-8? | violation, see below |

Bounds: a context of 5 and prompts of 1, 2 and 5 tokens (room for four tokens,
for three, and for the one token that `fit_context` always leaves); at most four tokens of
at most two bytes, which is longer than each stop string (one to three bytes) and
reaches a stop string in one, two or three pieces, two stop strings whose beginnings
compete, a stop string behind half a character, one that is only the middle of a character, and characters of two to four bytes
cut at every byte.

Proof: `GenInv` is inductive for every vocabulary, context and request. `TypeOK`;
`EngineInStep` says at each place of the loop which tokens the recurrent state and
the rows stand for; `Budget` ties `history`, `gen` and `max_tokens`; `TextInStep` is the
core: no stop string lies in the text before `stopAt`, and as long as none was found
what has been sent ends at least as far before the end as a stop string that is still
incomplete may begin (`Limit`), so that what is found later never begins before
`emitted`; `ReasonInStep` says what may be said of the finish reason. From it follow
`StopStringsStayInside`, `NothingRetracted`, `RowIsFresh`, `CompletionFits`,
`ReasonIsTrue`. They rest on the module's three assumptions only.

`WholeCharacters` and `Prompt` speak of bytes rather than of tokens and take two more
invariants. `WholeInv`: until a stop string is found the text is all that was generated, and
what was sent ends with a whole character. The step that sends the text in front of a stop
string is where this could fail, and `WholeBeforeStop` is the reason that it does not: a stop
string that is text begins with a byte that begins a character. The property has that premise
because without it TLC finds a counterexample: a stop string that is a mere continuation byte, which
the JSON reader lets through, is found in the middle of a character (`MCGenerate` keeps
such a stop string). `HeldInv`: at most one byte less than the longest stop string is held back for
its sake, and at most three for an incomplete character, so a delta waits for no more than that.

Finding: only an incomplete character at the very *end* of the text is cut
(`serve.hip:632`, `stream.h:26-41`). Stray bytes, and half a character in front of a
stop string, reach the JSON body, which `docs/servidor-openai.md:138` and
`serve.hip:628` say is valid UTF-8.

## 5. Token graph and prefill

| module | what it is |
|---|---|
| `PrefillPlan` | `chunk_ok`, `prefill_chunk_sizes`, `prefill_plan`, and which chunks `proj_batch` has kernels for |
| `PrefillPlanProps` | the two loops of `prefill_plan`, the table of costs and the plan that is written down with it, and what the plan must be |
| `PrefillPlan_proofs` | proofs: the dynamic programme is correct, and `Trunk` follows it |
| `Trunk` | the caches of every layer under the per-token and the batched forward, prefill, reset, snapshot and rollback |
| `TrunkProps` | properties, inductive invariant |
| `Trunk_proofs`, `SequenceFacts` | proofs, and the facts about sequences all proofs share |
| `MCTrunk` | two layers, two tokens and one outside the vocabulary |

State and code: `rec`, `conv` are `d_state_` and `d_convst_` per recurrent layer, `kv`
the rows of `d_k_`/`d_v_` per attention layer, `dpos`/`cpos` are `d_pos_` and
`pos_cached_`, `saved` the snapshot, `argmax` what `last_argmax_` was computed from,
`x` the rows in flight. A state, row or output is the text it stands for, or `Stale`:
a layer turns the row of a text into the row of that text only if its own caches stand
for the tokens before, if the key was turned by the right position and if the
attention was split over as many blocks as the per-token path would (the sums are
ordered differently otherwise). `hist` and `mark` are what the *caller* believes the
caches and the snapshot hold; the callers (`SpecDecode`, `Generate`) only continue,
roll back or reset such a text. An answer always has the hidden row, which the code copies
to the host only for a caller that asked for it (`want_hidden_`). After a failed launch, copy or upload the recurrent
buffers count as lost, which is the worst they can be.

| run | question | result |
|---|---|---|
| `trunk_calls` | single tokens, chunks, verification, prefill, reset, snapshot and rollback in every order, each of which may fail at every layer | caches in step, answers fresh, rows below the text untouched |
| `prefill_plan` | a cap of 24, whose halvings 12 and 6 the batched path refuses, and every prompt up to 60 tokens | accepted, best, tail at the end |
| `prefill_chunk` | a cap of 21 | violation, see below |

Bounds: a recurrent layer in front of an attention layer; a context of 3 with chunks of 2, so
that a chunk begins at 0 and at 1, a prefill has two chunks, and a prompt is too long by one; the
attention is split from the third key on, so that a chunk is unsplit or has rows of both kinds; two
tokens, so that a row left by another text differs from the right one.

Proof: `TrunkInv` is inductive. `InStep` speaks of the time between calls only;
`ForwardInv` adds that in the middle of a forward the layers below `il` have absorbed the
rows in flight and the others have not, and that the rows are those of the text
(`RecurrentIsExact` and `AttentionIsExact` say that a layer then gives its rows back
unchanged); `SnapshotInv` that the snapshot's text is a prefix of the present one, whose
cache rows `RowsStay` shows are never written again, so that `Restore` need not touch
them; and `cpos \in {-1, dpos}` that the position noted is never ahead of the one on the
device. `SplitsMonotone` is why a chunk whose last token needs no split may be left
unsplit, `TakeFits` that the plan always takes between one token and what is left.
Proved from the modules' assumptions for all layers, contexts, chunk sizes, plans, splits
and inputs: `TypeCorrect`, `InvHolds`, `CachesStayInStep`, `AnswersAreFresh`, `RowsStay`.

`PrefillPlan_proofs` proves that the plan is the *best* one, for every cap, set of compiled sizes
and length of the prompt. `PlanInv` says that the entries worked out are the least cost of any
sequence of accepted sizes with that sum (`Solved`), that what is planned and what is
left cost together what the whole prompt does (`Balance`), and that the last chunk is the one the
table gives for what was left then (`LastTaken`), which is why no larger one follows it.
That an entry is the *least* cost takes the exchange argument of the programme: the last
size of any other sequence leaves a sum whose entry is known. `PlanIsBest` is stated without
the table, by the sums of k sizes (`Sums`); a lemma ties these to sequences by induction
on k. `Trunk` takes its chunks from `Cost`, the finished table as one recursive function;
`TrunkFollowsThePlan` proves that it is the table the loop works out, so that what is said of the plan
is said of the prefill. `DefaultCapRuns` marks the boundary of the finding below: with the
default cap every chunk of every plan has a kernel.

The model does not contain the tiled product of chunks above 16 and the f16
flash-attention chunk of 512, whose results differ by a declared tolerance, lazy
allocations, the diagnostic hooks, and `reinit_kv`.

Finding: `chunk_ok` accepts every chunk from 17 to the cap, but where the tiled
product does not cover a weight type `proj_batch` cuts the chunk into 16s and a rest for
which there may be no kernel (`graph.cuh:1399`, `matvec.cuh:1027-1038`): with
`RD_PREFILL_CHUNK=21` a prompt of 21 tokens fails. The default cap of 512 is not
affected.

## 6. Quantised formats

| module | what it is |
|---|---|
| `SymbolicWord` | 32-bit words whose bits are symbols: shifts, masks, xor, multiplication, byte permutation |
| `Dequant` | the fourteen block formats and the reference reader (`dequantize_*` under `dequant_row_launch`) |
| `VecDot` | the dot products of `vecdotq.cuh`, every body of each |
| `GemmSolver` | the solvers of the tiled product: load, store, raw records, scales |
| `QuantLayout` | the readers at work on one unit of weights, and what they must agree on |

State and code: `job` is a reader of a format in one of its forms, `call` the thread, the
pair `(kbx, iqs)` or the sub-block it is at, `got` what its calls have read. A block's bits
are symbols, a bit of a word is the exclusive or of a set of them, and an addition or a
multiplication that would carry gives the symbol `Clash`, which equals nothing. So one run
covers *every* content of a block: if two readers agree on the symbols they agree on all
values. A `Read` is one product: the place of the activation in the row, the weight's code
(or the entry and lane of a grid table, and the sign) and the bits of its scale and minimum.

`quant_layout` takes every format, every body of its dot products (vendored, permuted,
table, linear, prepared) and every staging of the tiled product. It shows that each
multiplies each activation exactly once by the weight that the dequantizer reads there
(`SameWeight`, `EachOnce`), and that the dequantizers read every bit of the fields, which
are the bytes `dtype_block_bytes` counts (`EveryBitRead`). There is no bound: a block is a
block. Left out are the fp16 factors (the same for all weights of a block), the values in
the grid tables (data; an entry is its table, index and lane) and the integer rounding
`(ls*sumi + sumi/2)/4` at the end of the iq2/iq3 dot products, which the code itself treats
as a tolerance.

## 7. Kernels

| module | what it is |
|---|---|
| `Cta` | what kernels run on: grids, CTAs, warps, barriers, LDS, device memory |
| `Attention` | `attn.cuh`, `attn_fa2.cuh` |
| `Norms` | the row reductions of `nn.cuh`, the argmax with `Graph::finish_argmax` |
| `Elementwise` | the elementwise kernels of `nn.cuh` and `gdn.cuh`, RoPE |
| `GatedDelta` | the convolution and the delta rule in all their forms |
| `Matvec` | quantisation of activations, the matrix-vector product, `tuning.h`, the launchers |
| `Gemm` | the tiled products, their choice, `Graph::proj_batch` |
| `KernelProps` | the plain computations, and that the kernels leave what they leave |
| `GatedDelta_proofs` | proof that every kernel of the delta rule leaves what the recurrence does |
| `Attention_proofs` | proof that every attention kernel sums each key once, in the order of the plain launch |
| `MCKernels` | small launches |

State and code: `job` is the argument list of a launcher, `stream` the grids it has queued,
`cta` the CTA that runs, `at` the phase of each of its warps, `regs` what a warp keeps in
registers, `lds` and `mem` the cells of LDS and device memory written so far. A cell nobody
wrote since the launch holds what it held before (`Raw`); the LDS keeps the values of the CTA
that ran before, so that a read without its barrier sees them. A launcher is one action
that checks what the code checks and queues its grids; a kernel is one action per phase
between barriers.

Values are the *terms* they were computed from, and a sum is the sequence of its
addends. Two results that differ in the order of a floating-point sum are therefore
different, which is what the "bit-exact" comments are about; rounding itself needs no model.

| run | question | result |
|---|---|---|
| `kernels` | small launches of every launcher, CTAs in every order, warps interleaved in every way between barriers | memory is what the plain computation leaves |
| `kernels_argmax` | is the id the device picks that of the host scan? | violation, see below |

`AttentionExact`: each key up to the token's position once, from the right kv head, summed in
the order of the single-token launch with as many splits. `FusedExact`: fused and
batched launches leave what the launches they replace leave, also where the result
overwrites an operand. Its part `GreedyAgrees` says that the device's argmax is the host scan's id if and
only if that id is not `Overtaken` by an equal logit in its CTA, and has its value in every case.
`RecurrenceExact`: the state and every output are those of the
recurrence a token at a time, in all six kernels. `ProductExact`: every block of a row once
per token, in the order of the single product, through tables and tiles staged whole.

Abstractions. CTAs of one grid run one at a time (they share only memory they do not
write); a phase between two barriers is atomic, because within it warps write cells no
other warp touches, and what crosses warps does so over a barrier that the model
guards (drop a guard, and the properties fail: the mutants do that). Sizes are scaled:
4 lanes for 32, tiles of 2 to 8 for 16 to 128, tables of a few words, an eighth
of the slots of a block; the tuning tables of `tuning.h` are the real ones, so that the rows,
warps, unrolls and accumulators of each type are those of the program. The bounds are chosen
so that rows do not fill the last CTA, columns do not divide by the unroll, some splits have no
key, tiles have a rest in both directions, a chunk needs sub-batches with a rest, and windows are
1, 2, 3 and more. The elementwise kernels' grid-stride loop runs once, as their grids make it. `key_dim` is
`nkh * S`, as `graph.cuh` passes it. `BenchTile` stands for the bench tiles of `gemm_launch_cfg` 1, 3, 4,
6, 7 and 8, and `WmmaOn` for both environment switches. Prefetches, launch bounds, occupancy and
attribute queries and the bandwidth kernels compute nothing and are left out.

Proof: `RecurrenceHolds` is `RecurrenceExact` for every number of value and key heads, row size,
length of a chunk, lanes of a warp, rows of a CTA and shape of the vector kernel. The invariant
(`KernelsInv`) says of every row of every head that memory has its state, and its outputs, after as
many tokens as its warp has *stored* (`Stored`, `Taken`): none while the CTA waits in the
stream, the phase of its warp while it runs, all of them when it has retired. For the kernels that keep
the rows in LDS, `TileHas` adds what a tile and the registers hold at each phase: in the two-pass
kernel the row after the tokens so far, in the fused one the row already decayed for the next token,
and its delta. The rows and outputs of different heads and rows are different cells
(`Quotient`, `OneAnswer`), every row has one CTA and warp (`GridFacts`), and all other launches leave the
invariant alone because they have no shape. TLC checked the invariant on the launches of `kernels`
before it was proved. It rests on `LanesAssumption`, `DeltaAssumption` (the vector kernel's
threads have the row between them: the five instances compiled at `gdn.cuh:343-360` are all for
128 rows), `DeltaJobsAssumption` (the single launches are of one token) and `ShapeAssumption` (the
argument list of another launcher is not taken for one of these).

`AttentionHolds` is `AttentionExact` for every number of heads, kv heads, row size, positions,
splits, warps and cached keys, every size of tile and of a group, and every kernel: the scan of one
token and of a chunk, the split scan with its merge, the tiled kernel. `AttentionExact` speaks of
finished launches only; its invariant `LaunchInv` says three things of a launch at work.
`Scheduled`: which grids are still queued, that the merge waits as long as a CTA of the splits
runs, and in which phases its warps may be. `Memory`: a row is the query until a warp that
is past the phase that writes it has made it the result, and a cell of a split's part is there as
soon as its one warp (`PartWarp`) has written it, so that a chunk reads the query it
overwrites in time and the merge finds every part. `Local`: what each warp has left in the LDS. For
the split scan these are the slices, their maximum and the weights of every warp that has
passed the phase, of the CTA that runs and not of the one before; for the tiled kernel, that the
rows of a tile are those of the pass and step the loading warps are at, that a warp has seen the
keys of the tiles it has consumed (`KeysSeen`), and that no warp is more than one barrier ahead of
another (`Near`), which is why a row is never replaced while it is still read. What remains is
about sequences: the strided walk of a warp is the ascending sequence of its residue class
(`Ascending`), and the walks of all splits and warps are together each key once, because a
remainder and a quotient determine a number. It rests on `AttnAssumption` (sizes are not zero),
`AttnJobsAssumption` (positions are numbers, and the tiled kernel is given a cache that holds
every key a query sees, as `graph.cuh:1483` does) and `HeadsAssumption`, which like
`ShapeAssumption` tells the launchers apart. `DimsOk` and the other checks of the launchers are part
of the model and not assumed.

Finding: of equal maxima the device may pick the greater id. `nn.cuh:174-178` calls its result
"identical to the host argmax and not merely equivalent to it", with the lower id of a tie "both inside a
thread's stride and when combining partial results"; `graph.cuh:116-118` and `2156-2159` repeat it,
and `main.hip:1298` asks that runs with and without it "must produce the same ids". It holds in a
thread (`Better`) and over CTAs (`Preferred`), but the fold in between (`nn.cuh:213-221`, `FoldBest`)
compares values only, and threads do not meet in the order of their ids. With equal maxima at
1 and 128, thread 128 replaces thread 0 in the first halving and thread 0 then keeps its place against
thread 1: the device answers 128. With equal maxima at 129 and 16385 thread 1 keeps 16385.
`kernels_argmax` shows it in small (8 threads, 2 CTAs). `GreedyAgrees`, part of `FusedExact` in `kernels`, says exactly when:
the fold prefers, of two tied threads, the one with the lower residue by the first power of two
that tells them apart (`FoldPrefers`). So MTP, which scans on the host, and plain decoding, which
does not, may differ where the largest logits are equal. `SpecDecode` and `Generate` take the choice as one
function of the text and do not see this.

`GreedyAgrees` and `GreedyIsHostScan` are checked where every CTA sees a number or the row begins
with NaN. A CTA that sees none leaves the candidate of an earlier call in place (`nn.cuh:224`),
which takes a whole stripe of NaN.

`attn_launch_split_wpb` also returns false for a number of warps other than 8, 16 and 32
(`attn.cuh:616-627`); only a bench calls it, and that check is not modelled.

## 8. What is proved, and what is not

Each theorem holds for all values of the constants that satisfy the named assumptions of
the module it is about; TLC evaluates those assumptions in every run.

| module | theorem | property |
|---|---|---|
| `SpecDecode_proofs` | `TypeCorrect` | `TypeOK` |
| | `InvHolds` | `DecodeInv`, the inductive invariant |
| | `StreamIsGreedy` | `CommittedIsGreedy` |
| | `TrunkStaysInStep` | `TrunkInStep` |
| | `RoundsFit` | `RoundFits` |
| | `EndsAreNotStreamed` | `EogNeverStreamed` (no end drafted in the batched mode) |
| | `RefinesPlainGreedy` | `IsPlainGreedy` (same condition) |
| | `GovernorStaysSane` | `GovernorSane` |
| | `HeadStaysInStep` | `HeadInStep` |
| `HttpServer_proofs` | `TypeCorrect` | `TypeOK` |
| | `InvHolds` | `ServeInv`, the inductive invariant |
| | `OneAnswer` | `AnsweredOnce` |
| | `StopsPromptly` | `StopIsPrompt` |
| | `NobodyIsServed` | `NothingForNobody` |
| `Generate_proofs` | `TypeCorrect` | `TypeOK` |
| | `GenInvHolds` | `GenInv`, the inductive invariant |
| | `StopStringsStayInside` | `NoStopSent` |
| | `NothingRetracted` | `NeverRetracted` |
| | `RowIsFresh` | `FreshRow` |
| | `CompletionFits` | `TokensFit` |
| | `ReasonIsTrue` | `FinishReason` |
| | `CharactersStayWhole` | `WholeCharacters` |
| | `DeltasArePrompt` | `Prompt` |
| `Trunk_proofs` | `TypeCorrect` | `TypeOK` |
| | `InvHolds` | `TrunkInv`, the inductive invariant |
| | `CachesStayInStep` | `InStep` |
| | `AnswersAreFresh` | `FreshAnswer` |
| | `RowsStay` | `RowsBelowKept` |
| `PrefillPlan_proofs` | `PlanStays` | `PlanInv`, the inductive invariant |
| | `PlanCoversThePrompt` | `PlanCovers` |
| | `PlanIsLargerFirst` | `LargerFirst` |
| | `PlanIsOptimal` | `PlanIsBest` |
| | `TrunkFollowsThePlan` | the chunk planned next is the one `Trunk` takes |
| | `DefaultCapRuns` | with the default cap every candidate is launchable |
| `GatedDelta_proofs` | `RecurrenceHolds` | `RecurrenceExact` |
| `Attention_proofs` | `AttentionHolds` | `AttentionExact` |

`SequenceFacts` holds the lemmas that the proofs share. Those on induction are stated with a
set in place of a predicate (`Induction`: a set of numbers that contains 0 and the successor of each
of its members contains all of them), because the provers cannot instantiate the library's
theorems, which take an operator; each use defines the set of the numbers that have the
property. With them a recursive function can be unfolded (`Iterate`, `IterateTo`) and two of them
compared (`SameRecursion`), which is how the tables of the prefill plan and the recurrence
of the delta rule are reasoned about.

Model-checked only: the fused and elementwise launches and the matrix products
(`FusedExact`, `ProductExact`), about forty kernels and launchers each of which would need an
invariant of its own as the delta rule's and the attention's do, with sums whose order
`SelectSeq` and `SetToSortSeq` define; and the
formats (`SameWeight`, `EachOnce`, `EveryBitRead`), a finite check of symbolic words that is already
complete, so that there is nothing to generalise.

Out of the prover's reach: `Terminates`, `Shutdown` and `NeverHangs`, which are liveness under
fairness.

## 9. Not modelled

| part | why |
|---|---|
| GPU lock (`scripts/gpu-lock.sh`) | a 60-line wrapper around `flock`, not part of the program; its waiting depends on tools that report VRAM |
| JSON, tokenizer, chat template, command line | pure, sequential text processing with unit tests of their own; `Generate` takes tokens, their bytes and the rendered prompt as given |
| GGUF container and loader | a parser of a trusted file with a check at each offset; no state after `open()` |
| Sampler's random branch | pure filters over floating-point values; the greedy branch is in `SpecDecode` and is the reference of the argmax |
| Vision preprocessing | not connected to the server; compared with golden files |
| KV quantisation | lossy block encodings, read by the kernels as values |
| Unicode tables | data |
| `reinit_kv`, lazy allocations, diagnostics | sequential start-up and measuring code |

Divergences met on the way that no run shows: the router (`http.cpp:454-526`) answers 405 without
the `Allow` the documentation lists; `serve.hip:800` says that 0 means the default and 806
rejects it; `device.h` has a default of 512 where its comment says 128; when the second of two
scratch allocations fails (`graph.cuh:2080, 2161`) the next call finds the first pointer set and
goes on without the second; the single-buffer variant of the tiled product that only
a bench selects (`gemm.cuh:1101-1117`, configuration 2) never stages its first window, which is
why `ProductExact` claims nothing of that window; the attributes that `matvec_batch_kernel_attrs`
reports are those of another unroll than the launch uses.
