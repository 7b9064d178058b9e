---------------------------- MODULE GenerateProps ----------------------------
(* What a completion's text and its deltas owe the client. *)
EXTENDS Generate, SequencesExt

\* What the model generated, as text.
Generated == FlattenSeq([i \in DOMAIN gen |-> Piece[gen[i]]])

Loop == {"top", "sample", "emit", "forward", "end"}
Reasons == {"length", "stop", "cancelled", "client_disconnected"}

TypeOK ==
  /\ pc \in Loop \cup {"fit", "reset", "prefill", "refused", "failed", "done"}
  /\ r \in [prompt : Seq(Token) \ {<<>>}, max : (Nat \ {0}) \cup {-1},
            stops : SUBSET (Text \ {<<>>}), ignoreEos : BOOLEAN,
            greedy : BOOLEAN]
  /\ stop \in BOOLEAN /\ want \in BOOLEAN /\ gone \in BOOLEAN
  /\ absorbed \in Seq(Token)
  /\ row \in [argmax : Seq(Token), logits : Seq(Token)]
  /\ history \in Seq(Token) /\ gen \in Seq(Token) /\ pos \in Nat
  /\ all \in Text /\ sent \in Text
  /\ emitted \in 0 .. Len(all) /\ stopAt \in -1 .. Len(all)
  /\ finish \in Reasons

\* "The KV cache needs no clearing" but the recurrent state does, and a greedy
\* request reads the device's argmax while the others read the host's logits
\* (serve.hip:498-506, 568): whatever the last request left behind, the next
\* token is chosen by what was computed from exactly this request's tokens.
FreshRow ==
  pc = "sample" => (IF r.greedy THEN row.argmax ELSE row.logits) = history

\* "Nothing has to be retracted" (serve.hip:539): what a client was sent is
\* always a prefix of the text, also of the text finally returned, which by
\* then it has all been sent unless it is gone.
NeverRetracted ==
  /\ IsPrefix(sent, all)
  /\ pc = "done" /\ ~gone => sent = all

\* "A stop sequence split across two tokens is never emitted" (serve.hip:538):
\* neither what is sent nor the text returned contains a stop string.
NoStopSent == Hits(sent) = {} /\ (pc = "done" => Hits(all) = {})

\* A character that starts before i reaches to i.
Covered(t, i) == \E j \in 1 .. i - 1 : Need[t[j]] > i - j

\* The text is the beginning of well-formed UTF-8.
Utf8Able(t) == \A i \in 1 .. Len(t) : (t[i] = "c") <=> Covered(t, i)

\* It ends with a whole character.
Whole(t) == \A i \in 1 .. Len(t) : i + Need[t[i]] - 1 <= Len(t)

\* "A multibyte character split across two tokens" is never sent "half-formed"
\* (serve.hip:583-584): if what the model generates is the beginning of
\* well-formed UTF-8, and the stop strings are, so is what is sent, and it ends
\* with a whole character.  (A stop string that is a mere continuation byte,
\* which the JSON reader lets through, is found inside a character.)
WholeCharacters ==
  Utf8Able(Generated) /\ (\A s \in r.stops : Utf8Able(s)) =>
    Whole(sent) /\ (pc = "done" /\ ~gone => Whole(all))

\* Every reason to finish tells the truth, and no delta follows it.
FinishReason ==
  pc = "done" =>
    CASE finish = "client_disconnected" -> gone
      [] finish = "cancelled" -> stop /\ ~gone /\ stopAt = -1
      [] finish = "length" -> Len(gen) = r.max /\ stopAt = -1 /\ ~gone
      [] finish = "stop" -> /\ ~gone
                            /\ stopAt >= 0 \/ Len(gen) < r.max

\* "Nothing ever overflows the cache" (docs/servidor-openai.md:155): prompt and
\* completion fit the context, and every forward is at a position inside it.
TokensFit == Len(r.prompt) + Len(gen) <= Ctx \/ pc \in {"fit", "refused"}

\* "A token's text leaves the process as soon as it is decoded"
\* (docs/servidor-openai.md:85): when the next token is asked for, no more is
\* held back than may begin a stop string or a character.
Prompt ==
  pc = "top" =>
    Len(all) - emitted <= Max({1} \cup {Len(s) : s \in r.stops}) - 1 + 3

\* "A JSON body must be valid UTF-8" (docs/servidor-openai.md:138).
BodyIsUtf8 == pc = "done" /\ ~gone => Utf8Able(all) /\ Whole(all)
-----------------------------------------------------------------------------
(* The inductive invariant                                                 *)

\* What the recurrent state and the row stand for, place by place.
EngineInStep ==
  /\ pc \notin {"fit", "refused", "reset"} => want = r.greedy
  /\ pc = "prefill" => absorbed = <<>>
  /\ pc \in {"top", "sample"} =>
       /\ absorbed = history /\ pos = Len(history)
       /\ (IF want THEN row.argmax ELSE row.logits) = history
  /\ pc \in {"emit", "forward"} =>
       /\ gen # <<>> /\ pos = Len(absorbed)
       /\ history = Append(absorbed, gen[Len(gen)])

\* How much may still be generated.
Budget ==
  /\ pc \notin {"fit", "refused"} => r.max \in 1 .. Room /\ Len(gen) <= r.max
  /\ pc \in {"fit", "refused", "reset", "prefill"} => gen = <<>>
  /\ pc \in Loop => history = r.prompt \o gen
  /\ pc = "sample" => Len(gen) < r.max

\* What was sent is the beginning of the text; no stop string lies before the
\* one that was found, none is there while the loop goes on, and what is held
\* back covers any that might begin in the text so far.
TextInStep ==
  /\ \E q \in Request : q.stops = r.stops
  /\ Len(sent) <= emitted /\ sent = SubSeq(all, 1, Len(sent))
  /\ IF gone THEN pc \in {"end", "done"} ELSE Len(sent) = emitted
  /\ pc \in {"fit", "refused", "reset", "prefill"} => all = <<>>
  /\ pc \in {"top", "sample", "forward"} => stopAt = -1
  /\ pc \in {"top", "sample", "emit", "forward"} /\ stopAt = -1 =>
       emitted <= Limit
  /\ stopAt = -1 => /\ Hits(all) = {}
                    /\ pc # "done" => emitted <= KeepLen(all)
  /\ stopAt >= 0 /\ pc # "done" =>
       /\ pc \in {"emit", "end"} /\ (pc = "end" => emitted = stopAt)
       /\ emitted <= stopAt /\ stopAt \in Hits(all)
       /\ \A q \in Hits(all) : stopAt <= q
  /\ pc = "done" => Hits(all) = {} /\ (gone \/ emitted = Len(all))

\* What may be said of the reason at each place.
ReasonInStep ==
  /\ (finish = "client_disconnected") = gone
  /\ pc \notin {"emit", "end", "done"} => finish = "length"
  /\ pc = "emit" => finish = IF stopAt >= 0 THEN "stop" ELSE "length"
  /\ pc \in {"end", "done"} =>
       CASE finish = "length" -> Len(gen) = r.max /\ stopAt = -1
         [] finish = "cancelled" -> stop /\ stopAt = -1
         [] finish = "stop" -> stopAt >= 0 \/ Len(gen) < r.max
         [] OTHER -> TRUE

GenInv == TypeOK /\ EngineInStep /\ Budget /\ TextInStep /\ ReasonInStep
=============================================================================
