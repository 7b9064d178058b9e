------------------------------ MODULE Generate ------------------------------
(***************************************************************************)
(* One call of Engine::generate (src/server/serve.hip), from the clipping  *)
(* of max_tokens to the text that is returned: the token loop, the search  *)
(* for stop strings, the bytes that are held back and the deltas that are  *)
(* handed to the client.                                                   *)
(*                                                                         *)
(* Text is a sequence of bytes, of which only the role in UTF-8 matters:   *)
(* two one-byte characters, the lead bytes and the continuation byte "c".  *)
(***************************************************************************)
EXTENDS Integers, Sequences

CONSTANTS
  Token,     \* the vocabulary
  Eog,       \* its end-of-generation tokens
  Piece,     \* the bytes of each token; none for a special token
  Request,   \* the requests that may come in
  Ctx,       \* the context size
  LeftBehind \* what an earlier request may have left in the recurrent state

\* The length a byte announces.  The code reaches a "c" here only after three
\* others, where any need is met.
Need == [x |-> 1, y |-> 1, c |-> 1, l2 |-> 2, l3 |-> 3, l4 |-> 4]
Byte == DOMAIN Need
Text == Seq(Byte)

ASSUME VocabularyAssumption == Eog \subseteq Token /\ Piece \in [Token -> Text]

\* max is max_tokens, -1 if the server's default is "until the context ends".
\* Neither a request nor the command line may set it to 0.
\* Of the stop strings, at most 16, one is longest.
ASSUME RequestAssumption ==
  \A q \in Request :
    /\ q \in [prompt : Seq(Token) \ {<<>>}, max : (Nat \ {0}) \cup {-1},
              stops : SUBSET (Text \ {<<>>}), ignoreEos : BOOLEAN,
              greedy : BOOLEAN]
    /\ q.stops # {} =>
         \E s \in q.stops : \A t \in q.stops : Len(t) <= Len(s)
ASSUME EngineAssumption == Ctx \in Nat /\ LeftBehind \subseteq Seq(Token)

VARIABLES
  pc,
  r,         \* the request
  stop,      \* stop_requested()
  absorbed,  \* the tokens the recurrent state has absorbed
  want,      \* Graph::set_want_argmax
  row,       \* the tokens the last argmax and the last logits were computed from
  history,   \* the prompt and what was generated
  gen,       \* generated_ids
  all,       \* their text
  emitted,   \* bytes of it handed to on_delta
  sent,      \* bytes the client took
  stopAt,    \* where a stop string was found, or -1
  pos,
  finish,    \* finish_reason
  gone       \* client_gone

engine == <<absorbed, want, row>>
text == <<all, emitted, sent, stopAt>>
vars == <<pc, r, stop, engine, history, gen, text, pos, finish, gone>>

Init ==
  /\ pc = "fit" /\ r \in Request /\ stop = FALSE
  /\ absorbed \in LeftBehind /\ want \in BOOLEAN
  /\ row = [argmax |-> absorbed, logits |-> <<>>]
  /\ history = <<>> /\ gen = <<>> /\ pos = 0
  /\ all = <<>> /\ emitted = 0 /\ sent = <<>> /\ stopAt = -1
  /\ finish = "length" /\ gone = FALSE

StopRequested ==
  /\ ~stop /\ stop' = TRUE
  /\ UNCHANGED <<pc, r, engine, history, gen, text, pos, finish, gone>>

-----------------------------------------------------------------------------
(* Before the loop                                                         *)

Room == Ctx - Len(r.prompt)

\* Variant: one token more than there is room for.
FitOneMore ==
  /\ pc = "fit"
  /\ IF Room <= 0 THEN pc' = "refused" /\ UNCHANGED r
     ELSE /\ pc' = "reset"
          /\ r' = IF r.max < 0 \/ r.max > Room + 1
                  THEN [r EXCEPT !.max = Room + 1] ELSE r
  /\ UNCHANGED <<stop, engine, history, gen, text, pos, finish, gone>>

\* fit_context: refuse the prompt, or clip max_tokens to the room left.
Fit ==
  /\ pc = "fit"
  /\ IF Room <= 0 THEN pc' = "refused" /\ UNCHANGED r
     ELSE /\ pc' = "reset"
          /\ r' = IF r.max < 0 \/ r.max > Room
                  THEN [r EXCEPT !.max = Room] ELSE r
  /\ UNCHANGED <<stop, engine, history, gen, text, pos, finish, gone>>

\* Variant: the recurrent state of the last request is kept.
ResetForgotten ==
  /\ pc = "reset"
  /\ want' = r.greedy
  /\ pc' = "prefill"
  /\ UNCHANGED <<r, stop, absorbed, row, history, gen, text, pos, finish, gone>>

Reset ==
  /\ pc = "reset"
  /\ want' = r.greedy
  /\ \/ pc' = "prefill" /\ absorbed' = <<>>
     \/ pc' = "failed" /\ UNCHANGED absorbed
  /\ UNCHANGED <<r, stop, row, history, gen, text, pos, finish, gone>>

\* A forward of the tokens ts at position p.  Its row is of use only if the
\* state has absorbed exactly the p tokens before it; it is kept on the device
\* as an argmax, or copied to the host as logits.
Forward(ts, p) ==
  /\ absorbed' = absorbed \o ts
  /\ LET fresh == IF p = Len(absorbed) THEN absorbed' ELSE <<>>
     IN row' = IF want THEN [row EXCEPT !.argmax = fresh]
               ELSE [row EXCEPT !.logits = fresh]

Prefill ==
  /\ pc = "prefill"
  /\ \/ /\ pc' = "top" /\ Forward(r.prompt, 0)
        /\ history' = r.prompt /\ pos' = Len(r.prompt)
     \/ pc' = "failed" /\ UNCHANGED <<absorbed, row, history, pos>>
  /\ UNCHANGED <<r, stop, want, gen, text, finish, gone>>
-----------------------------------------------------------------------------
(* Stop strings and UTF-8                                                  *)

\* Variant: the bytes held back are those of the shortest stop string.
HoldShortest ==
  IF r.stops = {} THEN 0
  ELSE Len(CHOOSE s \in r.stops : \A t \in r.stops : Len(s) <= Len(t)) - 1

\* Variant: a byte too many, even without stop strings.
HoldTooMany ==
  IF r.stops = {} THEN 1
  ELSE Len(CHOOSE s \in r.stops : \A t \in r.stops : Len(t) <= Len(s))

\* The bytes that might turn out to begin a stop string.
Hold ==
  IF r.stops = {} THEN 0
  ELSE Len(CHOOSE s \in r.stops : \A t \in r.stops : Len(t) <= Len(s)) - 1

\* Where a stop string begins in the text t, counted from 0.
Hits(t) ==
  {p \in 0 .. Len(t) : \E s \in r.stops :
     p + Len(s) <= Len(t) /\ SubSeq(t, p + 1, p + Len(s)) = s}

\* Variant: only a stop string that ends the text is found.
FirstHitAtEnd(t) ==
  LET atEnd == {p \in Hits(t) : SubSeq(t, p + 1, Len(t)) \in r.stops}
  IN IF atEnd = {} THEN -1
     ELSE CHOOSE p \in atEnd : \A q \in atEnd : p <= q

FirstHit(t) ==
  IF Hits(t) = {} THEN -1
  ELSE CHOOSE p \in Hits(t) : \A q \in Hits(t) : p <= q

\* How many continuation bytes the text ends with, as far as the code looks.
Continuations(t) ==
  CHOOSE n \in 0 .. 3 :
    /\ n <= Len(t) /\ \A i \in Len(t) - n + 1 .. Len(t) : t[i] = "c"
    /\ n = 3 \/ n = Len(t) \/ t[Len(t) - n] # "c"

\* utf8_keep_len: without the incomplete character at the end.
KeepLen(t) ==
  LET n == Continuations(t)
      i == Len(t) - n
  IN IF i = 0 \/ n + 1 >= Need[t[i]] THEN Len(t) ELSE i - 1

-----------------------------------------------------------------------------
(* The loop                                                                *)

\* Variant: max_tokens counts the bytes of the text.
TopCountsBytes ==
  /\ pc = "top"
  /\ IF Len(all) >= r.max THEN pc' = "end" /\ UNCHANGED finish
     ELSE IF stop THEN pc' = "end" /\ finish' = "cancelled"
     ELSE pc' = "sample" /\ UNCHANGED finish
  /\ UNCHANGED <<r, stop, engine, history, gen, text, pos, gone>>

Top ==
  /\ pc = "top"
  /\ IF Len(gen) = r.max THEN pc' = "end" /\ UNCHANGED finish
     ELSE IF stop THEN pc' = "end" /\ finish' = "cancelled"
     ELSE pc' = "sample" /\ UNCHANGED finish
  /\ UNCHANGED <<r, stop, engine, history, gen, text, pos, gone>>

\* The sampler may give any token, or none.
SampleNothing ==
  /\ pc = "sample" /\ pc' = "failed"
  /\ UNCHANGED <<r, stop, engine, history, gen, text, pos, finish, gone>>

SampleEog ==
  /\ pc = "sample" /\ ~r.ignoreEos /\ Eog # {}
  /\ pc' = "end" /\ finish' = "stop"
  /\ UNCHANGED <<r, stop, engine, history, gen, text, pos, gone>>

\* The generated prefix is decoded again, and searched.
SampleToken ==
  /\ pc = "sample"
  /\ \E id \in IF r.ignoreEos THEN Token ELSE Token \ Eog :
       /\ history' = Append(history, id) /\ gen' = Append(gen, id)
       /\ all' = all \o Piece[id]
  /\ stopAt' = FirstHit(all')
  /\ finish' = IF stopAt' >= 0 THEN "stop" ELSE finish
  /\ pc' = "emit"
  /\ UNCHANGED <<r, stop, engine, emitted, sent, pos, gone>>

\* flush_upto: hand the bytes up to keep to the client, who may be gone.
FlushUpto(keep) ==
  IF keep <= emitted THEN UNCHANGED <<emitted, sent, gone>>
  ELSE /\ emitted' = keep
       /\ \/ sent' = sent \o SubSeq(all, emitted + 1, keep) /\ UNCHANGED gone
          \/ gone' = TRUE /\ UNCHANGED sent

Limit == IF Len(all) > Hold THEN Len(all) - Hold ELSE 0

\* Variant: everything that is not held back is sent.
EmitHalves ==
  /\ pc = "emit"
  /\ FlushUpto(IF stopAt >= 0 THEN stopAt ELSE Limit)
  /\ IF gone' THEN pc' = "end" /\ finish' = "client_disconnected"
     ELSE /\ pc' = IF stopAt >= 0 THEN "end" ELSE "forward"
          /\ UNCHANGED finish
  /\ UNCHANGED <<r, stop, engine, history, gen, all, stopAt, pos>>

Emit ==
  /\ pc = "emit"
  /\ FlushUpto(IF stopAt >= 0 THEN stopAt ELSE KeepLen(SubSeq(all, 1, Limit)))
  /\ IF gone' THEN pc' = "end" /\ finish' = "client_disconnected"
     ELSE /\ pc' = IF stopAt >= 0 THEN "end" ELSE "forward"
          /\ UNCHANGED finish
  /\ UNCHANGED <<r, stop, engine, history, gen, all, stopAt, pos>>

ForwardToken ==
  /\ pc = "forward"
  /\ IF pos >= Ctx
     THEN pc' = "end" /\ finish' = "length" /\ UNCHANGED <<absorbed, row, pos>>
     ELSE /\ UNCHANGED finish
          /\ \/ /\ pc' = "top" /\ pos' = pos + 1
                /\ Forward(<<gen[Len(gen)]>>, pos)
             \/ pc' = "failed" /\ UNCHANGED <<absorbed, row, pos>>
  /\ UNCHANGED <<r, stop, want, history, gen, text, gone>>

-----------------------------------------------------------------------------
(* After the loop                                                          *)

\* Variant: the text that is returned still has the stop string.
EndKeepsStop ==
  /\ pc = "end" /\ pc' = "done"
  /\ IF stopAt >= 0 \/ gone
     THEN UNCHANGED <<all, emitted, sent, gone, finish>>
     ELSE /\ all' = SubSeq(all, 1, KeepLen(all))
          /\ FlushUpto(KeepLen(all))
          /\ finish' = IF gone' THEN "client_disconnected" ELSE finish
  /\ UNCHANGED <<r, stop, engine, history, gen, stopAt, pos>>

\* Cut the text at the stop string, or send what is still held back.  all is
\* the text returned.
End ==
  /\ pc = "end" /\ pc' = "done"
  /\ IF stopAt >= 0 \/ gone
     THEN /\ all' = IF stopAt >= 0 THEN SubSeq(all, 1, stopAt) ELSE all
          /\ UNCHANGED <<emitted, sent, gone, finish>>
     ELSE /\ all' = SubSeq(all, 1, KeepLen(all))
          /\ FlushUpto(KeepLen(all))
          /\ finish' = IF gone' THEN "client_disconnected" ELSE finish
  /\ UNCHANGED <<r, stop, engine, history, gen, stopAt, pos>>

Terminated == pc \in {"refused", "failed", "done"} /\ UNCHANGED vars

Step ==
  \/ Fit \/ Reset \/ Prefill
  \/ Top \/ SampleNothing \/ SampleEog \/ SampleToken
  \/ Emit \/ ForwardToken \/ End

Next == Step \/ StopRequested \/ Terminated

Spec == Init /\ [][Next]_vars
=============================================================================
