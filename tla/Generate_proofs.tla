--------------------------- MODULE Generate_proofs ---------------------------
(***************************************************************************)
(* Proofs about Generate, for every vocabulary, context size, request and  *)
(* set of stop strings: GenInv is inductive, so nothing that was sent is   *)
(* ever retracted and no stop string reaches the client.                   *)
(***************************************************************************)
EXTENDS GenerateProps, SequenceFacts, TLAPS

-----------------------------------------------------------------------------
(* Stop strings                                                            *)

\* The place found is the first.
LEMMA FirstIsFirst ==
  ASSUME NEW t \in Text
  PROVE  /\ Hits(t) = {} => FirstHit(t) = -1
         /\ Hits(t) # {} => /\ FirstHit(t) \in Hits(t)
                            /\ \A q \in Hits(t) : FirstHit(t) <= q
<1>1. Hits(t) \in SUBSET Nat
  BY DEF Hits, Text
<1>2. Hits(t) # {} => \E p \in Hits(t) : \A q \in Hits(t) : p <= q
  BY <1>1, Least
<1> QED
  BY <1>2 DEF FirstHit

\* A stop string in a prefix is in the text, at the same place, and ends in it.
LEMMA HitsOfPrefix ==
  ASSUME TypeOK, NEW t \in Text, NEW n \in 0 .. Len(t),
         NEW p \in Hits(SubSeq(t, 1, n))
  PROVE  p \in Hits(t) /\ p < n
<1> DEFINE u == SubSeq(t, 1, n)
<1>1. /\ u \in Text /\ Len(u) = n /\ Len(t) \in Nat
      /\ \A i \in 1 .. n : u[i] = t[i]
  BY Prefix DEF Text
<1>2. PICK s \in r.stops : p + Len(s) <= n /\ SubSeq(u, p + 1, p + Len(s)) = s
  BY <1>1 DEF Hits
<1>3. s \in Text /\ Len(s) \in Nat /\ Len(s) > 0 /\ p \in 0 .. n
  BY <1>1 DEF TypeOK, Text, Hits
<1> HIDE DEF u
<1>4. \A i \in p + 1 .. p + Len(s) : t[i] = u[i]
  BY <1>1, <1>2, <1>3
<1>5. SubSeq(t, p + 1, p + Len(s)) = SubSeq(u, p + 1, p + Len(s))
  BY <1>1, <1>2, <1>3, <1>4, SamePiece DEF Text
<1> QED
  BY <1>1, <1>2, <1>3, <1>5 DEF Hits

\* The longest stop string is one byte longer than what is held back.
LEMMA HoldIs ==
  ASSUME TypeOK, TextInStep
  PROVE  Hold \in Nat /\ \A s \in r.stops : Len(s) <= Hold + 1
<1>1. r.stops \in SUBSET (Text \ {<<>>})
  BY DEF TypeOK
<1>2. r.stops # {} => \E s \in r.stops : \A t \in r.stops : Len(t) <= Len(s)
  BY RequestAssumption DEF TextInStep
<1>3. CASE r.stops = {}
  BY <1>3 DEF Hold
<1>4. CASE r.stops # {}
  <2> DEFINE s == CHOOSE s \in r.stops : \A t \in r.stops : Len(t) <= Len(s)
  <2>1. s \in r.stops /\ \A t \in r.stops : Len(t) <= Len(s)
    BY <1>2, <1>4
  <2>2. Hold = Len(s) - 1
    BY <1>4 DEF Hold
  <2> HIDE DEF s
  <2>3. Len(s) \in Nat /\ Len(s) > 0
    BY <1>1, <2>1 DEF Text
  <2> QED
    BY <2>1, <2>2, <2>3
<1> QED
  BY <1>3, <1>4

\* A stop string that is completed by what is appended begins no earlier than
\* the bytes that are held back.
LEMMA NewHits ==
  ASSUME TypeOK, TextInStep, NEW t \in Text, NEW u \in Text, Hits(t) = {},
         NEW p \in Hits(t \o u)
  PROVE  p >= Len(t) - Hold
<1> DEFINE v == t \o u
<1>1. /\ v \in Text /\ Len(v) = Len(t) + Len(u)
      /\ \A i \in 1 .. Len(t) : v[i] = t[i]
  BY Extend DEF Text
<1>2. Len(t) \in Nat /\ Len(u) \in Nat
  BY DEF Text
<1> HIDE DEF v
<1>3. PICK s \in r.stops : p + Len(s) <= Len(v) /\ SubSeq(v, p + 1, p + Len(s)) = s
  BY DEF v, Hits
<1>4. s \in Text /\ Len(s) \in Nat /\ Len(s) > 0 /\ p \in Nat
  <2>1. s \in Seq(Byte) /\ s # <<>>
    BY DEF TypeOK, Text
  <2>2. p \in 0 .. Len(v)
    BY DEF Hits, v
  <2> QED
    BY <1>1, <1>2, <2>1, <2>2 DEF Text
<1>5. ~(p + Len(s) <= Len(t))
  <2> SUFFICES ASSUME p + Len(s) <= Len(t)
               PROVE  FALSE
    OBVIOUS
  <2>1. \A i \in p + 1 .. p + Len(s) : v[i] = t[i]
    BY <1>1, <1>2, <1>4
  <2>2. SubSeq(v, p + 1, p + Len(s)) = SubSeq(t, p + 1, p + Len(s))
    BY <1>1, <1>2, <1>3, <1>4, <2>1, SamePiece DEF Text
  <2>3. p \in Hits(t)
    BY <1>2, <1>3, <1>4, <2>2 DEF Hits
  <2> QED
    BY <2>3
<1> QED
  BY <1>2, <1>3, <1>4, <1>5, HoldIs

\* There is no stop string in an empty text.
LEMMA NoHits == ASSUME TypeOK PROVE Hits(<<>>) = {}
<1>1. \A s \in r.stops : s \in Seq(Byte) /\ Len(s) > 0
  BY DEF TypeOK, Text
<1> QED
  BY <1>1 DEF Hits

-----------------------------------------------------------------------------
(* UTF-8                                                                   *)

LEMMA NeedIs ==
  /\ \A b \in Byte : Need[b] \in 1 .. 4
  /\ Need["c"] = 1
  /\ {"x", "y", "c", "l2", "l3", "l4"} = Byte
BY DEF Need, Byte

\* The continuation bytes are counted as far as the third.
LEMMA ContinuationsIs ==
  ASSUME NEW t \in Text
  PROVE  LET n == Continuations(t)
         IN /\ n \in 0 .. 3 /\ n <= Len(t)
            /\ \A i \in Len(t) - n + 1 .. Len(t) : t[i] = "c"
            /\ n = 3 \/ n = Len(t) \/ t[Len(t) - n] # "c"
<1> DEFINE P(n) == /\ n <= Len(t)
                   /\ \A i \in Len(t) - n + 1 .. Len(t) : t[i] = "c"
                   /\ n = 3 \/ n = Len(t) \/ t[Len(t) - n] # "c"
<1>1. Len(t) \in Nat
  BY DEF Text
<1> DEFINE Q == \E n \in 0 .. 3 : P(n)
<1> HIDE DEF Q
<1>2. Q
  <2>1. CASE Len(t) = 0 \/ t[Len(t)] # "c"
    BY <1>1, <2>1, P(0) DEF Q
  <2>2. CASE Len(t) > 0 /\ t[Len(t)] = "c"
    <3>1. CASE Len(t) = 1 \/ t[Len(t) - 1] # "c"
      BY <1>1, <2>2, <3>1, P(1) DEF Q
    <3>2. CASE Len(t) > 1 /\ t[Len(t) - 1] = "c"
      <4>1. CASE Len(t) = 2 \/ t[Len(t) - 2] # "c"
        BY <1>1, <2>2, <3>2, <4>1, P(2) DEF Q
      <4>2. CASE Len(t) > 2 /\ t[Len(t) - 2] = "c"
        BY <1>1, <2>2, <3>2, <4>2, P(3) DEF Q
      <4>3. Len(t) = 2 \/ Len(t) > 2
        BY <1>1, <3>2
      <4> QED
        BY <4>1, <4>2, <4>3
    <3>3. Len(t) = 1 \/ Len(t) > 1
      BY <1>1, <2>2
    <3> QED
      BY <3>1, <3>2, <3>3
  <2>3. Len(t) = 0 \/ Len(t) > 0
    BY <1>1
  <2> QED
    BY <2>1, <2>2, <2>3
<1>3. Continuations(t) = CHOOSE n \in 0 .. 3 : P(n)
  BY DEF Continuations
<1>4. Continuations(t) \in 0 .. 3 /\ P(Continuations(t))
  BY <1>2, <1>3 DEF Q
<1> QED
  BY <1>4

\* At most the last three bytes are kept back.
LEMMA KeepLenBound ==
  ASSUME NEW t \in Text
  PROVE  KeepLen(t) \in 0 .. Len(t) /\ KeepLen(t) >= Len(t) - 3
<1> DEFINE n == Continuations(t)
           i == Len(t) - n
<1>1. n \in 0 .. 3 /\ n <= Len(t) /\ Len(t) \in Nat
  BY ContinuationsIs DEF Text
<1>2. KeepLen(t) = IF i = 0 \/ n + 1 >= Need[t[i]] THEN Len(t) ELSE i - 1
  BY DEF KeepLen
<1>3. i > 0 => t[i] \in Byte
  BY <1>1 DEF Text
<1> HIDE DEF n
<1>4. CASE i = 0 \/ n + 1 >= Need[t[i]]
  BY <1>1, <1>2, <1>4
<1>5. CASE ~(i = 0 \/ n + 1 >= Need[t[i]])
  <2>1. Need[t[i]] \in 1 .. 4
    BY <1>1, <1>3, <1>5, NeedIs
  <2> QED
    BY <1>1, <1>2, <1>5, <2>1
<1> QED
  BY <1>4, <1>5

\* More text never makes less of it fit to be sent.
LEMMA KeepLenMonotone ==
  ASSUME NEW t \in Text, NEW m \in 0 .. Len(t)
  PROVE  KeepLen(SubSeq(t, 1, m)) <= KeepLen(t)
<1> DEFINE u == SubSeq(t, 1, m)
           n == Continuations(t)
           k == Continuations(u)
           i == Len(t) - n
<1>1. /\ u \in Text /\ Len(u) = m /\ Len(t) \in Nat
      /\ \A j \in 1 .. m : u[j] = t[j]
  BY Prefix DEF Text
<1>2. /\ n \in 0 .. 3 /\ n <= Len(t)
      /\ \A j \in Len(t) - n + 1 .. Len(t) : t[j] = "c"
  BY ContinuationsIs
<1> HIDE DEF u, n
<1>3. /\ k \in 0 .. 3 /\ k <= m
      /\ \A j \in m - k + 1 .. m : u[j] = "c"
      /\ k = 3 \/ k = m \/ u[m - k] # "c"
  BY <1>1, ContinuationsIs
<1>4. KeepLen(t) = IF i = 0 \/ n + 1 >= Need[t[i]] THEN Len(t) ELSE i - 1
  BY DEF KeepLen, n
<1>5. KeepLen(u) = IF m - k = 0 \/ k + 1 >= Need[u[m - k]] THEN m ELSE m - k - 1
  BY <1>1 DEF KeepLen
<1>6. KeepLen(u) \in 0 .. m
  BY <1>1, KeepLenBound
<1> HIDE DEF k
<1> SUFFICES KeepLen(u) <= KeepLen(t)
  BY DEF u
<1>7. CASE i = 0 \/ n + 1 >= Need[t[i]]
  BY <1>1, <1>4, <1>6, <1>7
<1>8. CASE i # 0 /\ ~(n + 1 >= Need[t[i]])
  <2>1. i \in 1 .. Len(t) /\ t[i] \in Byte
    BY <1>1, <1>2, <1>8 DEF Text
  <2>2. Need[t[i]] \in 1 .. 4 /\ t[i] # "c" /\ n <= 2
    BY <1>2, <1>8, <2>1, NeedIs
  <2>3. CASE m < i
    BY <1>1, <1>2, <1>4, <1>6, <1>8, <2>1, <2>3
  <2>4. CASE m >= i
    <3>1. ~(k < m - i)
      BY <1>1, <1>2, <1>3, <2>1, <2>2, <2>4
    <3>2. ~(k > m - i)
      BY <1>1, <1>2, <1>3, <2>1, <2>2, <2>4
    <3>3. k = m - i /\ m - k = i /\ u[m - k] = t[i] /\ k <= n
      BY <1>1, <1>2, <1>3, <2>1, <2>4, <3>1, <3>2
    <3>4. ~(m - k = 0 \/ k + 1 >= Need[u[m - k]])
      <4>1. Need[u[m - k]] = Need[t[i]]
        BY <3>3
      <4>2. m - k # 0
        BY <1>8, <3>3
      <4>3. k <= n /\ k \in 0 .. 3 /\ n \in 0 .. 3
        BY <1>2, <1>3, <3>3
      <4>4. n + 1 < Need[t[i]]
        BY <1>2, <1>8, <2>2
      <4> QED
        BY <2>2, <4>1, <4>2, <4>3, <4>4
    <3> QED
      BY <1>4, <1>5, <1>8, <3>3, <3>4
  <2> QED
    BY <1>1, <2>1, <2>3, <2>4
<1> QED
  BY <1>7, <1>8

-----------------------------------------------------------------------------
(* The invariant                                                           *)

LEMMA InitInv == Init => GenInv
<1> SUFFICES ASSUME Init
             PROVE  GenInv
  OBVIOUS
<1> USE DEF Init
<1>1. /\ r \in [prompt : Seq(Token) \ {<<>>}, max : (Nat \ {0}) \cup {-1},
               stops : SUBSET (Text \ {<<>>}), ignoreEos : BOOLEAN,
               greedy : BOOLEAN]
  BY RequestAssumption
<1>2. absorbed \in Seq(Token)
  BY EngineAssumption
<1>3. TypeOK
  <2>1. /\ row \in [argmax : Seq(Token), logits : Seq(Token)]
        /\ history \in Seq(Token) /\ gen \in Seq(Token)
    BY <1>2
  <2>2. /\ all \in Text /\ sent \in Text
        /\ emitted \in 0 .. Len(all) /\ stopAt \in -1 .. Len(all)
    BY DEF Text
  <2> QED
    BY <1>1, <1>2, <2>1, <2>2 DEF TypeOK, Reasons
<1>4. EngineInStep
  BY DEF EngineInStep
<1>5. Budget
  BY <1>1 DEF Budget, Loop
<1>6. TextInStep
  <2>1. Hits(all) = {}
    BY <1>3, NoHits
  <2>2. emitted <= KeepLen(all)
    <3>1. all \in Text /\ emitted = 0
      BY DEF Text
    <3>2. KeepLen(all) \in 0 .. Len(all)
      BY <3>1, KeepLenBound
    <3> QED
      BY <3>1, <3>2 DEF Text
  <2>3. sent = SubSeq(all, 1, Len(sent)) /\ Len(sent) = 0
    OBVIOUS
  <2> QED
    BY <2>1, <2>2, <2>3 DEF TextInStep
<1>7. ReasonInStep
  BY DEF ReasonInStep
<1> QED
  BY <1>3, <1>4, <1>5, <1>6, <1>7 DEF GenInv

\* As long as the text and the request stay, so does all that is said of them.
LEMMA SameText ==
  ASSUME UNCHANGED <<text, r>>
  PROVE  /\ Hits(all)' = Hits(all) /\ Limit' = Limit
         /\ KeepLen(all)' = KeepLen(all)
BY DEF text, Hits, Limit, Hold, KeepLen, Continuations

LEMMA StopKeepsInv == GenInv /\ StopRequested => GenInv'
<1> SUFFICES ASSUME GenInv, StopRequested
             PROVE  GenInv'
  OBVIOUS
<1> USE DEF GenInv, StopRequested, engine, text
<1>1. TypeOK'
  BY DEF TypeOK
<1>2. EngineInStep'
  BY DEF EngineInStep
<1>3. Budget'
  BY DEF Budget, Room
<1>4. TextInStep'
  BY SameText DEF TextInStep
<1>5. ReasonInStep'
  BY DEF ReasonInStep
<1> QED
  BY <1>1, <1>2, <1>3, <1>4, <1>5

LEMMA StutterKeepsInv == GenInv /\ UNCHANGED vars => GenInv'
<1> SUFFICES ASSUME GenInv, UNCHANGED vars
             PROVE  GenInv'
  OBVIOUS
<1> USE DEF GenInv, vars, engine, text
<1>1. TypeOK'
  BY DEF TypeOK
<1>2. EngineInStep'
  BY DEF EngineInStep
<1>3. Budget'
  BY DEF Budget, Room
<1>4. TextInStep'
  BY SameText DEF TextInStep
<1>5. ReasonInStep'
  BY DEF ReasonInStep
<1> QED
  BY <1>1, <1>2, <1>3, <1>4, <1>5

LEMMA FitKeepsInv == GenInv /\ Fit => GenInv'
<1> SUFFICES ASSUME GenInv, Fit
             PROVE  GenInv'
  OBVIOUS
<1> USE DEF GenInv, engine, text
<1>1. /\ pc = "fit" /\ pc' \in {"refused", "reset"}
      /\ UNCHANGED <<stop, absorbed, want, row, history, gen, all, emitted,
                     sent, stopAt, pos, finish, gone>>
  BY DEF Fit
<1>2. Ctx \in Int /\ Len(r.prompt) \in Nat /\ Room \in Int
  BY EngineAssumption DEF TypeOK, Room
<1>3. /\ r' \in [prompt : Seq(Token) \ {<<>>}, max : (Nat \ {0}) \cup {-1},
                stops : SUBSET (Text \ {<<>>}), ignoreEos : BOOLEAN,
                greedy : BOOLEAN]
      /\ r'.prompt = r.prompt /\ r'.stops = r.stops
      /\ pc' = "reset" => r'.max \in 1 .. Room
  <2>1. /\ r.max \in (Nat \ {0}) \cup {-1}
        /\ r \in [prompt : Seq(Token) \ {<<>>}, max : (Nat \ {0}) \cup {-1},
                  stops : SUBSET (Text \ {<<>>}), ignoreEos : BOOLEAN,
                  greedy : BOOLEAN]
    BY DEF TypeOK, Budget
  <2>2. CASE r' = r
    BY <1>1, <1>2, <2>1, <2>2 DEF Fit
  <2>3. CASE r' = [r EXCEPT !.max = Room] /\ Room > 0
    BY <1>2, <2>1, <2>3
  <2> QED
    BY <1>2, <2>2, <2>3 DEF Fit
<1>4. TypeOK'
  BY <1>1, <1>3 DEF TypeOK
<1>5. EngineInStep'
  BY <1>1 DEF EngineInStep
<1>6. Budget'
  <2>1. gen = <<>>
    BY <1>1 DEF Budget
  <2>2. Room' = Room
    BY <1>3 DEF Room
  <2> QED
    BY <1>1, <1>2, <1>3, <2>1, <2>2 DEF Budget, Loop
<1>7. TextInStep'
  <2>1. Hits(all)' = Hits(all) /\ KeepLen(all)' = KeepLen(all)
    BY <1>1, <1>3 DEF Hits, KeepLen, Continuations
  <2> QED
    BY <1>1, <1>3, <2>1 DEF TextInStep
<1>8. ReasonInStep'
  BY <1>1 DEF ReasonInStep
<1> QED
  BY <1>4, <1>5, <1>6, <1>7, <1>8

LEMMA ResetKeepsInv == GenInv /\ Reset => GenInv'
<1> SUFFICES ASSUME GenInv, Reset
             PROVE  GenInv'
  OBVIOUS
<1> USE DEF GenInv
<1>1. /\ pc = "reset" /\ pc' \in {"prefill", "failed"} /\ want' = r.greedy
      /\ absorbed' = (IF pc' = "prefill" THEN <<>> ELSE absorbed)
      /\ UNCHANGED <<r, stop, row, history, gen, text, pos, finish, gone>>
  BY DEF Reset
<1>2. TypeOK'
  BY <1>1 DEF TypeOK, text
<1>3. EngineInStep'
  BY <1>1 DEF EngineInStep
<1>4. Budget'
  BY <1>1 DEF Budget, Room, Loop
<1>5. TextInStep'
  BY <1>1, SameText DEF TextInStep, text
<1>6. ReasonInStep'
  BY <1>1 DEF ReasonInStep, text
<1> QED
  BY <1>2, <1>3, <1>4, <1>5, <1>6

LEMMA PrefillKeepsInv == GenInv /\ Prefill => GenInv'
<1> SUFFICES ASSUME GenInv, Prefill
             PROVE  GenInv'
  OBVIOUS
<1> USE DEF GenInv
<1>1. /\ pc = "prefill" /\ pc' \in {"top", "failed"}
      /\ UNCHANGED <<r, stop, want, gen, text, finish, gone>>
  BY DEF Prefill
<1>2. r.prompt \in Seq(Token) /\ absorbed = <<>> /\ gen = <<>>
  BY <1>1 DEF TypeOK, EngineInStep, Budget
<1>3. CASE pc' = "failed"
  <2>1. UNCHANGED <<absorbed, row, history, pos>>
    BY <1>3 DEF Prefill
  <2>2. TypeOK'
    BY <1>1, <1>3, <2>1 DEF TypeOK, text
  <2>3. EngineInStep' /\ Budget'
    BY <1>1, <1>3, <2>1 DEF EngineInStep, Budget, Room, Loop
  <2>4. TextInStep'
    BY <1>1, <1>3, SameText DEF TextInStep, text
  <2>5. ReasonInStep'
    BY <1>1, <1>3 DEF ReasonInStep, text
  <2> QED
    BY <2>2, <2>3, <2>4, <2>5
<1>4. CASE pc' = "top"
  <2>1. /\ absorbed' = r.prompt /\ history' = r.prompt /\ pos' = Len(r.prompt)
        /\ row' = IF want THEN [row EXCEPT !.argmax = r.prompt]
                 ELSE [row EXCEPT !.logits = r.prompt]
    BY <1>2, <1>4 DEF Prefill, Forward
  <2>2. TypeOK'
    BY <1>1, <1>2, <1>4, <2>1 DEF TypeOK, text, Loop
  <2>3. EngineInStep'
    BY <1>1, <1>2, <1>4, <2>1 DEF EngineInStep, TypeOK
  <2>4. Budget'
    BY <1>1, <1>2, <1>4, <2>1 DEF Budget, Room, Loop
  <2>5. TextInStep'
    <3>1. all = <<>> /\ stopAt = -1 /\ emitted = 0
      <4>1. all = <<>> /\ Len(all) = 0
        BY <1>1 DEF TextInStep
      <4>2. emitted \in 0 .. 0 /\ stopAt \in -1 .. 0
        BY <4>1 DEF TypeOK
      <4>3. ~(stopAt >= 0)
        BY <1>1 DEF TextInStep
      <4> QED
        BY <4>1, <4>2, <4>3
    <3>2. 0 <= Limit
      BY <3>1, HoldIs DEF Limit
    <3> QED
      BY <1>1, <1>4, <3>1, <3>2, SameText DEF TextInStep, text
  <2>6. ReasonInStep'
    BY <1>1, <1>4 DEF ReasonInStep, text
  <2> QED
    BY <2>2, <2>3, <2>4, <2>5, <2>6
<1> QED
  BY <1>1, <1>3, <1>4

LEMMA TopKeepsInv == GenInv /\ Top => GenInv'
<1> SUFFICES ASSUME GenInv, Top
             PROVE  GenInv'
  OBVIOUS
<1> USE DEF GenInv
<1>1. /\ pc = "top" /\ pc' \in {"end", "sample"}
      /\ UNCHANGED <<r, stop, engine, history, gen, text, pos, gone>>
      /\ finish' \in {finish, "cancelled"}
  BY DEF Top
<1>2. /\ finish' = "cancelled" => pc' = "end" /\ stop
      /\ pc' = "end" /\ finish' # "cancelled" => Len(gen) = r.max
      /\ pc' = "sample" => Len(gen) # r.max
      /\ finish = "length" /\ ~gone /\ stopAt = -1
  BY <1>1 DEF Top, ReasonInStep, TextInStep
<1>3. TypeOK'
  BY <1>1 DEF TypeOK, text, engine, Loop, Reasons
<1>4. EngineInStep'
  BY <1>1 DEF EngineInStep, engine
<1>5. Budget'
  <2>1. Len(gen) \in Nat /\ Room \in Int
    BY EngineAssumption DEF TypeOK, Room
  <2> QED
    BY <1>1, <1>2, <2>1 DEF Budget, Room, Loop
<1>6. TextInStep'
  BY <1>1, <1>2, SameText DEF TextInStep, text
<1>7. ReasonInStep'
  BY <1>1, <1>2 DEF ReasonInStep, text
<1> QED
  BY <1>3, <1>4, <1>5, <1>6, <1>7

LEMMA SampleNothingKeepsInv == GenInv /\ SampleNothing => GenInv'
<1> SUFFICES ASSUME GenInv, SampleNothing
             PROVE  GenInv'
  OBVIOUS
<1> USE DEF GenInv
<1>1. /\ pc = "sample" /\ pc' = "failed"
      /\ UNCHANGED <<r, stop, engine, history, gen, text, pos, finish, gone>>
  BY DEF SampleNothing
<1>2. TypeOK'
  BY <1>1 DEF TypeOK, text, engine
<1>3. EngineInStep' /\ Budget'
  BY <1>1 DEF EngineInStep, Budget, Room, Loop, engine
<1>4. TextInStep'
  BY <1>1, SameText DEF TextInStep, text
<1>5. ReasonInStep'
  BY <1>1 DEF ReasonInStep, text
<1> QED
  BY <1>2, <1>3, <1>4, <1>5

LEMMA SampleEogKeepsInv == GenInv /\ SampleEog => GenInv'
<1> SUFFICES ASSUME GenInv, SampleEog
             PROVE  GenInv'
  OBVIOUS
<1> USE DEF GenInv
<1>1. /\ pc = "sample" /\ pc' = "end" /\ finish' = "stop"
      /\ UNCHANGED <<r, stop, engine, history, gen, text, pos, gone>>
  BY DEF SampleEog
<1>2. Len(gen) < r.max /\ ~gone /\ stopAt = -1
  BY <1>1 DEF Budget, TextInStep
<1>3. TypeOK'
  BY <1>1 DEF TypeOK, text, engine, Loop, Reasons
<1>4. EngineInStep'
  BY <1>1 DEF EngineInStep, engine
<1>5. Budget'
  BY <1>1 DEF Budget, Room, Loop
<1>6. TextInStep'
  BY <1>1, <1>2, SameText DEF TextInStep, text
<1>7. ReasonInStep'
  BY <1>1, <1>2 DEF ReasonInStep, text
<1> QED
  BY <1>3, <1>4, <1>5, <1>6, <1>7

LEMMA SampleTokenKeepsInv == GenInv /\ SampleToken => GenInv'
<1> SUFFICES ASSUME GenInv, SampleToken
             PROVE  GenInv'
  OBVIOUS
<1> USE DEF GenInv
<1>1. PICK id \in Token : /\ history' = Append(history, id)
                          /\ gen' = Append(gen, id)
                          /\ all' = all \o Piece[id]
  BY DEF SampleToken
<1>2. /\ pc = "sample" /\ pc' = "emit" /\ stopAt' = FirstHit(all')
      /\ finish' = IF stopAt' >= 0 THEN "stop" ELSE finish
      /\ UNCHANGED <<r, stop, engine, emitted, sent, pos, gone>>
  BY DEF SampleToken
<1>3. Piece[id] \in Text /\ all \in Text /\ Len(all) \in Nat
  BY VocabularyAssumption DEF TypeOK, Text
<1>4. /\ all' \in Text /\ Len(all') = Len(all) + Len(Piece[id])
      /\ Len(all') \in Nat /\ Len(all) <= Len(all')
      /\ \A n \in 0 .. Len(all) : SubSeq(all', 1, n) = SubSeq(all, 1, n)
  BY <1>1, <1>3, Extend DEF Text
<1>5. /\ finish = "length" /\ ~gone /\ stopAt = -1 /\ Hits(all) = {}
      /\ emitted <= Limit /\ emitted <= KeepLen(all)
      /\ Len(sent) = emitted /\ sent = SubSeq(all, 1, Len(sent))
  BY <1>2 DEF TextInStep, ReasonInStep
<1>6. emitted \in 0 .. Len(all) /\ emitted \in Nat
  BY <1>3 DEF TypeOK
<1>7. Hold \in Nat /\ Hold' = Hold /\ Hits(all)' = Hits(all')
  BY <1>2, HoldIs DEF Hold, Hits
<1>8. Hits(all') \subseteq 0 .. Len(all')
  BY DEF Hits
<1>9. /\ stopAt' \in -1 .. Len(all')
      /\ stopAt' = -1 => Hits(all') = {}
      /\ stopAt' >= 0 => /\ stopAt' \in Hits(all')
                         /\ \A q \in Hits(all') : stopAt' <= q
  BY <1>2, <1>4, <1>8, FirstIsFirst
<1>10. TypeOK'
  BY <1>1, <1>2, <1>4, <1>6, <1>9 DEF TypeOK, engine, Loop, Reasons
<1>11. EngineInStep'
  <2>1. gen \in Seq(Token)
    BY DEF TypeOK
  <2>2. gen' # <<>> /\ gen'[Len(gen')] = id
    BY <1>1, <2>1
  <2> QED
    BY <1>1, <1>2, <2>2 DEF EngineInStep, engine
<1>12. Budget'
  <2>1. Len(gen') = Len(gen) + 1 /\ Len(gen) \in Nat /\ Len(gen) < r.max
    BY <1>1, <1>2 DEF TypeOK, Budget
  <2>2. r.max \in 1 .. Room /\ Room \in Int
    BY <1>2, EngineAssumption DEF Budget, Room, TypeOK
  <2>3. history' = r.prompt \o gen'
    <3>1. PICK p \in Seq(Token) : p = r.prompt
      BY DEF TypeOK
    <3>2. gen \in Seq(Token) /\ history \in Seq(Token) /\ history = p \o gen
      BY <1>2, <3>1 DEF Budget, Loop, TypeOK
    <3>3. /\ gen' \in Seq(Token) /\ Len(gen') = Len(gen) + 1
          /\ gen'[Len(gen')] = id /\ \A i \in 1 .. Len(gen) : gen'[i] = gen[i]
      BY <1>1, <3>2
    <3>4. /\ history' \in Seq(Token) /\ Len(history') = Len(history) + 1
          /\ history'[Len(history')] = id
          /\ \A i \in 1 .. Len(history) : history'[i] = history[i]
      BY <1>1, <3>2
    <3>5. /\ Len(p) \in Nat /\ Len(gen) \in Nat
          /\ Len(history) = Len(p) + Len(gen)
          /\ \A i \in 1 .. Len(p) : history[i] = p[i]
          /\ \A i \in 1 .. Len(gen) : history[Len(p) + i] = gen[i]
      BY <3>2
    <3>6. Len(history') = Len(p) + Len(gen')
      BY <3>3, <3>4, <3>5
    <3>7. \A i \in 1 .. Len(p) : p[i] = history'[i]
      BY <3>4, <3>5
    <3>8. ASSUME NEW i \in 1 .. Len(gen')
          PROVE  gen'[i] = history'[Len(p) + i]
      <4>1. CASE i = Len(gen')
        BY <3>3, <3>4, <3>6, <4>1
      <4>2. CASE i # Len(gen')
        <5>1. i \in 1 .. Len(gen) /\ Len(p) + i \in 1 .. Len(history)
          BY <3>3, <3>5, <4>2
        <5> QED
          BY <3>3, <3>4, <3>5, <5>1
      <4> QED
        BY <4>1, <4>2
    <3>9. p \o gen' = history'
      BY <3>3, <3>4, <3>6, <3>7, <3>8, ConcatIs
    <3> QED
      BY <3>1, <3>9
  <2>4. Len(gen') <= r.max
    BY <2>1, <2>2
  <2> QED
    BY <1>2, <2>2, <2>3, <2>4 DEF Budget, Room, Loop
<1>13. TextInStep'
  <2>1. sent = SubSeq(all', 1, Len(sent))
    BY <1>4, <1>5, <1>6
  <2>2. emitted <= Limit'
    BY <1>3, <1>4, <1>5, <1>6, <1>7 DEF Limit
  <2>3. emitted <= KeepLen(all')
    <3>1. SubSeq(all', 1, Len(all)) = all
      BY <1>3, <1>4 DEF Text
    <3>2. KeepLen(all) <= KeepLen(all')
      <4>1. all' \in Text /\ Len(all) \in 0 .. Len(all')
        BY <1>3, <1>4
      <4>2. KeepLen(SubSeq(all', 1, Len(all))) <= KeepLen(all')
        BY <4>1, KeepLenMonotone
      <4> QED
        BY <3>1, <4>2
    <3>3. KeepLen(all) \in 0 .. Len(all) /\ KeepLen(all') \in 0 .. Len(all')
      BY <1>3, <1>4, KeepLenBound
    <3> QED
      BY <1>3, <1>4, <1>5, <1>6, <3>2, <3>3
  <2>4. stopAt' >= 0 => emitted <= stopAt'
    <3>1. stopAt' >= 0 => stopAt' >= Len(all) - Hold
      BY <1>1, <1>3, <1>5, <1>9, NewHits
    <3> QED
      BY <1>3, <1>5, <1>6, <1>7, <1>9, <3>1 DEF Limit
  <2>5. KeepLen(all)' = KeepLen(all')
    BY DEF KeepLen, Continuations
  <2> QED
    BY <1>2, <1>5, <1>7, <1>9, <2>1, <2>2, <2>3, <2>4, <2>5 DEF TextInStep
<1>14. ReasonInStep'
  BY <1>2, <1>5 DEF ReasonInStep
<1> QED
  BY <1>10, <1>11, <1>12, <1>13, <1>14

\* What a client that is still there has after a flush.
LEMMA FlushIs ==
  ASSUME all \in Text, sent \in Text, gone = FALSE, Len(sent) = emitted,
         sent = SubSeq(all, 1, Len(sent)), emitted \in 0 .. Len(all),
         NEW keep \in 0 .. Len(all), FlushUpto(keep)
  PROVE  /\ emitted' = IF keep <= emitted THEN emitted ELSE keep
         /\ emitted' \in 0 .. Len(all) /\ gone' \in BOOLEAN /\ sent' \in Text
         /\ Len(sent') <= emitted' /\ sent' = SubSeq(all, 1, Len(sent'))
         /\ ~gone' => Len(sent') = emitted'
<1>1. Len(all) \in Nat /\ emitted \in Nat /\ keep \in Nat
  BY DEF Text
<1>2. CASE keep <= emitted
  <2>1. emitted' = emitted /\ sent' = sent /\ gone' = gone
    BY <1>2 DEF FlushUpto
  <2>2. sent' = SubSeq(all, 1, Len(sent'))
    BY <2>1
  <2>3. sent' \in Text /\ Len(sent') = emitted' /\ gone' = FALSE
    BY <2>1
  <2>4. emitted' \in 0 .. Len(all) /\ Len(sent') <= emitted'
    BY <1>1, <2>1, <2>3
  <2> QED
    BY <1>2, <2>1, <2>2, <2>3, <2>4
<1>3. CASE ~(keep <= emitted)
  <2>1. emitted' = keep /\ emitted \in 0 .. Len(all) /\ keep \in emitted .. Len(all)
    BY <1>1, <1>3 DEF FlushUpto
  <2>2. CASE gone' = TRUE /\ UNCHANGED sent
    BY <1>1, <1>3, <2>1, <2>2
  <2>3. CASE sent' = sent \o SubSeq(all, emitted + 1, keep) /\ UNCHANGED gone
    <3>1. sent = SubSeq(all, 1, emitted)
      OBVIOUS
    <3>2. SubSeq(all, 1, emitted) \o SubSeq(all, emitted + 1, keep)
            = SubSeq(all, 1, keep)
      BY <2>1, Join DEF Text
    <3>3. sent' = SubSeq(all, 1, keep)
      BY <2>3, <3>1, <3>2
    <3>4. Len(sent') = keep /\ sent' \in Text
      BY <3>3, Prefix DEF Text
    <3>5. sent' = SubSeq(all, 1, Len(sent'))
      BY <3>3, <3>4
    <3>6. keep \in 0 .. Len(all) /\ keep <= keep
      BY <1>1
    <3> QED
      BY <1>3, <2>1, <2>3, <3>4, <3>5, <3>6
  <2> QED
    BY <1>3, <2>2, <2>3 DEF FlushUpto
<1> QED
  BY <1>2, <1>3

LEMMA EmitKeepsInv == GenInv /\ Emit => GenInv'
<1> SUFFICES ASSUME GenInv, Emit
             PROVE  GenInv'
  OBVIOUS
<1> USE DEF GenInv
<1> DEFINE keep == IF stopAt >= 0 THEN stopAt ELSE KeepLen(SubSeq(all, 1, Limit))
<1>1. /\ pc = "emit" /\ FlushUpto(keep)
      /\ IF gone' THEN pc' = "end" /\ finish' = "client_disconnected"
         ELSE /\ pc' = IF stopAt >= 0 THEN "end" ELSE "forward"
              /\ UNCHANGED finish
      /\ UNCHANGED <<r, stop, engine, history, gen, all, stopAt, pos>>
  BY DEF Emit
<1>2. /\ all \in Text /\ sent \in Text /\ Len(all) \in Nat
      /\ emitted \in 0 .. Len(all) /\ emitted \in Nat
      /\ stopAt \in -1 .. Len(all)
  BY DEF TypeOK, Text
<1>3. gone = FALSE /\ Len(sent) = emitted /\ sent = SubSeq(all, 1, Len(sent))
  BY <1>1 DEF TextInStep, TypeOK
<1>4. Limit \in 0 .. Len(all)
  BY <1>2, HoldIs DEF Limit
<1>5. /\ keep \in 0 .. Len(all)
      /\ stopAt = -1 => keep <= Limit /\ keep <= KeepLen(all)
  <2>1. CASE stopAt >= 0
    BY <1>2, <2>1
  <2>2. CASE stopAt = -1
    <3> DEFINE u == SubSeq(all, 1, Limit)
    <3>1. u \in Text /\ Len(u) = Limit
      BY <1>2, <1>4, Prefix DEF Text
    <3>2. KeepLen(u) <= KeepLen(all)
      BY <1>2, <1>4, KeepLenMonotone
    <3> HIDE DEF u
    <3>3. KeepLen(u) \in 0 .. Limit
      BY <3>1, KeepLenBound
    <3>4. keep = KeepLen(u)
      BY <2>2 DEF u
    <3> QED
      BY <1>2, <1>4, <2>2, <3>2, <3>3, <3>4
  <2> QED
    BY <1>2, <2>1, <2>2
<1>6. stopAt >= 0 => keep = stopAt
  OBVIOUS
<1> HIDE DEF keep
<1>7. /\ emitted' = IF keep <= emitted THEN emitted ELSE keep
      /\ emitted' \in 0 .. Len(all) /\ gone' \in BOOLEAN /\ sent' \in Text
      /\ Len(sent') <= emitted' /\ sent' = SubSeq(all, 1, Len(sent'))
      /\ ~gone' => Len(sent') = emitted'
  BY <1>1, <1>2, <1>3, <1>5, FlushIs
<1>8. /\ stopAt >= 0 => emitted' = stopAt
      /\ stopAt = -1 => emitted' <= Limit /\ emitted' <= KeepLen(all)
  <2>1. /\ stopAt >= 0 => emitted <= stopAt
        /\ stopAt = -1 => emitted <= Limit /\ emitted <= KeepLen(all)
    BY <1>1 DEF TextInStep
  <2>2. CASE keep <= emitted
    <3>1. emitted' = emitted
      BY <1>7, <2>2
    <3>2. stopAt >= 0 => emitted = stopAt
      BY <1>2, <1>6, <2>1, <2>2
    <3> QED
      BY <2>1, <3>1, <3>2
  <2>3. CASE ~(keep <= emitted)
    BY <1>5, <1>6, <1>7, <2>3
  <2> QED
    BY <2>2, <2>3
<1>9. /\ Hits(all)' = Hits(all) /\ Limit' = Limit
      /\ KeepLen(all)' = KeepLen(all)
  BY <1>1 DEF Hits, Limit, Hold, KeepLen, Continuations
<1>10. TypeOK'
  BY <1>1, <1>2, <1>7 DEF TypeOK, engine, Loop, Reasons
<1>11. EngineInStep'
  BY <1>1 DEF EngineInStep, engine
<1>12. Budget'
  BY <1>1 DEF Budget, Room, Loop
<1>13. TextInStep'
  <2>1. UNCHANGED <<r, all, stopAt>> /\ pc = "emit"
    BY <1>1
  <2>2. /\ Hits(all)' = Hits(all) /\ (stopAt = -1 => Hits(all) = {})
        /\ stopAt >= 0 => /\ stopAt \in Hits(all)
                          /\ \A q \in Hits(all) : stopAt <= q
    BY <1>1, <1>9 DEF TextInStep
  <2>3. CASE gone'
    <3>1. pc' = "end"
      BY <1>1, <2>3
    <3> QED
      BY <1>2, <1>7, <1>8, <1>9, <2>1, <2>2, <2>3, <3>1 DEF TextInStep
  <2>4. CASE ~gone' /\ stopAt >= 0
    <3>1. pc' = "end" /\ ~(stopAt = -1)
      BY <1>1, <2>4
    <3> QED
      BY <1>2, <1>7, <1>8, <1>9, <2>1, <2>2, <2>4, <3>1 DEF TextInStep
  <2>5. CASE ~gone' /\ stopAt = -1
    <3>1. pc' = "forward" /\ ~(stopAt >= 0)
      BY <1>1, <2>5
    <3> QED
      BY <1>2, <1>7, <1>8, <1>9, <2>1, <2>2, <2>5, <3>1 DEF TextInStep
  <2> QED
    BY <1>2, <2>3, <2>4, <2>5
<1>14. ReasonInStep'
  <2>1. /\ finish = IF stopAt >= 0 THEN "stop" ELSE "length"
        /\ UNCHANGED stopAt
    BY <1>1 DEF ReasonInStep
  <2>2. CASE gone'
    <3>1. pc' = "end" /\ finish' = "client_disconnected" /\ gone' = TRUE
      BY <1>1, <1>7, <2>2
    <3> QED
      BY <3>1 DEF ReasonInStep
  <2>3. CASE ~gone' /\ stopAt >= 0
    <3>1. pc' = "end" /\ finish' = "stop" /\ gone' = FALSE
      BY <1>1, <1>7, <2>1, <2>3
    <3> QED
      BY <2>1, <2>3, <3>1 DEF ReasonInStep
  <2>4. CASE ~gone' /\ stopAt = -1
    <3>1. ~(stopAt >= 0)
      BY <2>4
    <3>2. pc' = "forward" /\ finish' = "length" /\ gone' = FALSE
      BY <1>1, <1>7, <2>1, <2>4, <3>1
    <3> QED
      BY <3>2 DEF ReasonInStep
  <2> QED
    BY <1>2, <2>2, <2>3, <2>4
<1> QED
  BY <1>10, <1>11, <1>12, <1>13, <1>14

LEMMA ForwardTokenKeepsInv == GenInv /\ ForwardToken => GenInv'
<1> SUFFICES ASSUME GenInv, ForwardToken
             PROVE  GenInv'
  OBVIOUS
<1> USE DEF GenInv
<1>1. /\ pc = "forward" /\ finish = "length" /\ ~gone /\ stopAt = -1
      /\ UNCHANGED <<r, stop, want, history, gen, text, gone>>
  BY DEF ForwardToken, ReasonInStep, TextInStep
<1>2. pos = Len(absorbed) /\ history = Append(absorbed, gen[Len(gen)])
  BY <1>1 DEF EngineInStep
<1>3. absorbed \in Seq(Token) /\ history \in Seq(Token) /\ gen \in Seq(Token)
  BY DEF TypeOK
<1>4. ~(pos >= Ctx)
  <2>1. PICK p \in Seq(Token) : p = r.prompt
    BY DEF TypeOK
  <2>2. history = p \o gen
    BY <1>1, <2>1 DEF Budget, Loop
  <2>3. Len(history) = Len(p) + Len(gen)
    BY <1>3, <2>2
  <2>6. Len(history) = pos + 1
    BY <1>2, <1>3
  <2>4. Len(gen) <= r.max /\ r.max \in 1 .. Ctx - Len(p)
    BY <1>1, <2>1 DEF Budget, Room
  <2>5. Len(p) \in Nat /\ Len(gen) \in Nat /\ Ctx \in Nat /\ pos \in Nat
    BY <1>3, EngineAssumption DEF TypeOK
  <2> QED
    BY <2>3, <2>4, <2>5, <2>6
<1>5. CASE pc' = "failed" /\ UNCHANGED <<absorbed, row, pos, finish>>
  <2>1. TypeOK'
    BY <1>1, <1>5 DEF TypeOK, text
  <2>2. EngineInStep' /\ Budget'
    BY <1>1, <1>5 DEF EngineInStep, Budget, Room, Loop
  <2>3. TextInStep'
    BY <1>1, <1>5, SameText DEF TextInStep, text
  <2>4. ReasonInStep'
    BY <1>1, <1>5 DEF ReasonInStep, text
  <2> QED
    BY <2>1, <2>2, <2>3, <2>4
<1>6. CASE /\ pc' = "top" /\ pos' = pos + 1 /\ UNCHANGED finish
           /\ Forward(<<gen[Len(gen)]>>, pos)
  <2>1. absorbed' = absorbed \o <<gen[Len(gen)]>>
    BY <1>6 DEF Forward
  <2>2. absorbed' = history
    BY <1>2, <1>3, <2>1
  <2>3. row' = IF want THEN [row EXCEPT !.argmax = history]
               ELSE [row EXCEPT !.logits = history]
    BY <1>2, <1>6, <2>2 DEF Forward
  <2>4. pos' = Len(history) /\ pos' \in Nat
    BY <1>2, <1>3, <1>6
  <2>5. TypeOK'
    BY <1>1, <1>3, <1>6, <2>2, <2>3, <2>4 DEF TypeOK, text, Loop
  <2>6. EngineInStep'
    BY <1>1, <1>6, <2>2, <2>3, <2>4 DEF EngineInStep, TypeOK
  <2>7. Budget'
    BY <1>1, <1>6 DEF Budget, Room, Loop
  <2>8. TextInStep'
    BY <1>1, <1>6, SameText DEF TextInStep, text
  <2>9. ReasonInStep'
    BY <1>1, <1>6 DEF ReasonInStep, text
  <2> QED
    BY <2>5, <2>6, <2>7, <2>8, <2>9
<1> QED
  BY <1>4, <1>5, <1>6 DEF ForwardToken

LEMMA EndKeepsInv == GenInv /\ End => GenInv'
<1> SUFFICES ASSUME GenInv, End
             PROVE  GenInv'
  OBVIOUS
<1> USE DEF GenInv
<1>1. /\ pc = "end" /\ pc' = "done"
      /\ UNCHANGED <<r, stop, engine, history, gen, stopAt, pos>>
  BY DEF End
<1>2. /\ all \in Text /\ sent \in Text /\ Len(all) \in Nat
      /\ emitted \in 0 .. Len(all) /\ emitted \in Nat
      /\ stopAt \in -1 .. Len(all) /\ gone \in BOOLEAN
      /\ finish \in Reasons
  BY DEF TypeOK, Text
<1>3. /\ Len(sent) <= emitted /\ sent = SubSeq(all, 1, Len(sent))
      /\ ~gone => Len(sent) = emitted
      /\ stopAt = -1 => Hits(all) = {} /\ emitted <= KeepLen(all)
      /\ stopAt >= 0 => /\ emitted = stopAt /\ stopAt \in Hits(all)
                        /\ \A q \in Hits(all) : stopAt <= q
  BY <1>1 DEF TextInStep
<1> DEFINE n == Len(all')
\* What the three ways out of the loop have in common.
<1>4. /\ n \in 0 .. Len(all) /\ all' = SubSeq(all, 1, n)
      /\ emitted' \in 0 .. n /\ sent' \in Text /\ Len(sent') <= emitted'
      /\ sent' = SubSeq(all, 1, Len(sent'))
      /\ gone' \in BOOLEAN /\ (~gone' => Len(sent') = emitted')
      /\ stopAt >= 0 => n = stopAt
      /\ gone' \/ emitted' = n
  <2>1. CASE stopAt >= 0
    <3>1. all' = SubSeq(all, 1, stopAt) /\ UNCHANGED <<emitted, sent, gone>>
      BY <2>1 DEF End
    <3>2. stopAt \in 0 .. Len(all)
      BY <1>2, <2>1
    <3>3. n = stopAt
      BY <1>2, <3>1, <3>2, Prefix DEF Text
    <3> HIDE DEF n
    <3>4. sent' = SubSeq(all, 1, Len(sent'))
      BY <1>3, <3>1
    <3>5. sent' \in Text /\ gone' \in BOOLEAN /\ Len(sent') <= emitted'
      BY <1>2, <1>3, <3>1
    <3>6. (~gone' => Len(sent') = emitted') /\ emitted' = n
      BY <1>3, <2>1, <3>1, <3>3
    <3>7. all' = SubSeq(all, 1, n) /\ n \in 0 .. Len(all) /\ emitted' \in 0 .. n
      BY <1>2, <3>1, <3>2, <3>3, <3>6
    <3> QED
      BY <3>3, <3>4, <3>5, <3>6, <3>7
  <2>2. CASE stopAt = -1 /\ gone
    <3>1. all' = all /\ emitted' = emitted /\ sent' = sent /\ gone' = gone
      BY <2>2 DEF End
    <3>2. n = Len(all) /\ ~(stopAt >= 0)
      BY <2>2, <3>1
    <3> HIDE DEF n
    <3>3. all' = SubSeq(all, 1, n)
      BY <1>2, <3>1, <3>2 DEF Text
    <3>4. sent' = SubSeq(all, 1, Len(sent'))
      BY <1>3, <3>1
    <3>5. sent' \in Text /\ gone' \in BOOLEAN /\ Len(sent') <= emitted' /\ gone'
      BY <1>2, <1>3, <2>2, <3>1
    <3>6. n \in 0 .. Len(all) /\ emitted' \in 0 .. n
      BY <1>2, <3>1, <3>2
    <3> QED
      BY <3>2, <3>3, <3>4, <3>5, <3>6
  <2>3. CASE stopAt = -1 /\ gone = FALSE
    <3> DEFINE keep == KeepLen(all)
    <3>1. all' = SubSeq(all, 1, keep) /\ FlushUpto(keep) /\ ~(stopAt >= 0)
      BY <2>3 DEF End
    <3>2. keep \in 0 .. Len(all) /\ emitted <= keep
      BY <1>2, <1>3, <2>3, KeepLenBound
    <3> HIDE DEF keep
    <3>3. n = keep
      BY <1>2, <3>1, <3>2, Prefix DEF Text
    <3> HIDE DEF n
    <3>4. /\ emitted' = IF keep <= emitted THEN emitted ELSE keep
          /\ emitted' \in 0 .. Len(all) /\ gone' \in BOOLEAN /\ sent' \in Text
          /\ Len(sent') <= emitted' /\ sent' = SubSeq(all, 1, Len(sent'))
          /\ ~gone' => Len(sent') = emitted'
      BY <1>2, <1>3, <2>3, <3>1, <3>2, FlushIs
    <3>5. emitted' = n
      <4>1. keep <= emitted => emitted = keep
        BY <1>2, <3>2
      <4> QED
        BY <3>3, <3>4, <4>1
    <3>6. all' = SubSeq(all, 1, n) /\ n \in 0 .. Len(all) /\ emitted' \in 0 .. n
      BY <1>2, <3>1, <3>2, <3>3, <3>5
    <3> QED
      BY <3>1, <3>4, <3>5, <3>6
  <2>4. stopAt >= 0 \/ stopAt = -1
    BY <1>2
  <2>5. gone = TRUE \/ gone = FALSE
    BY <1>2
  <2> HIDE DEF n
  <2> QED
    BY <2>1, <2>2, <2>3, <2>4, <2>5
<1> HIDE DEF n
<1>5. all' \in Text /\ Len(all') = n /\ n \in Nat
  <2>1. SubSeq(all, 1, n) \in Text /\ Len(SubSeq(all, 1, n)) = n
    BY <1>2, <1>4, Prefix DEF Text
  <2> QED
    BY <1>2, <1>4, <2>1
<1>6. sent' = SubSeq(all', 1, Len(sent'))
  <2>1. Len(sent') \in 0 .. n
    BY <1>4, <1>5 DEF Text
  <2>2. SubSeq(SubSeq(all, 1, n), 1, Len(sent')) = SubSeq(all, 1, Len(sent'))
    BY <1>2, <1>4, <2>1, Prefix DEF Text
  <2> QED
    BY <1>4, <2>2
<1>7. Hits(all') = {} /\ Hits(all)' = Hits(all')
  <2>1. ASSUME NEW p \in Hits(all')
        PROVE  p \in Hits(all) /\ p < n
    BY <1>2, <1>4, HitsOfPrefix
  <2>2. ASSUME NEW p \in Hits(all')
        PROVE  FALSE
    <3>1. CASE stopAt = -1
      BY <1>3, <2>1, <3>1
    <3>2. CASE stopAt >= 0
      <4>1. p \in Hits(all) /\ p < n
        BY <2>1
      <4>2. p \in Nat
        BY <1>2, <4>1 DEF Hits
      <4>3. stopAt <= p
        BY <1>3, <3>2, <4>1
      <4> QED
        BY <1>2, <1>4, <3>2, <4>1, <4>2, <4>3
    <3> QED
      BY <1>2, <3>1, <3>2
  <2>3. Hits(all)' = Hits(all')
    BY <1>1 DEF Hits
  <2> QED
    BY <2>2, <2>3
<1>8. /\ finish' \in Reasons
      /\ (finish' = "client_disconnected") = gone'
      /\ ~gone' => finish' = finish
  <2>1. (finish = "client_disconnected") = gone
    BY DEF ReasonInStep
  <2>2. CASE stopAt >= 0 \/ gone = TRUE
    <3>1. finish' = finish /\ gone' = gone
      BY <2>2 DEF End
    <3> QED
      BY <1>2, <2>1, <3>1
  <2>3. CASE ~(stopAt >= 0) /\ gone = FALSE
    <3>1. finish' = IF gone' THEN "client_disconnected" ELSE finish
      BY <2>3 DEF End
    <3>2. CASE gone' = TRUE
      BY <3>1, <3>2 DEF Reasons
    <3>3. CASE gone' = FALSE
      BY <1>2, <2>1, <2>3, <3>1, <3>3
    <3> QED
      BY <1>4, <3>2, <3>3
  <2> QED
    BY <1>2, <2>2, <2>3
<1>9. TypeOK'
  BY <1>1, <1>2, <1>4, <1>5, <1>8 DEF TypeOK, engine
<1>10. EngineInStep'
  BY <1>1 DEF EngineInStep, engine
<1>11. Budget'
  BY <1>1 DEF Budget, Room, Loop
<1>12. TextInStep'
  BY <1>1, <1>3, <1>4, <1>5, <1>6, <1>7 DEF TextInStep
<1>13. ReasonInStep'
  <2>1. CASE gone' = TRUE
    <3>1. finish' = "client_disconnected"
      BY <1>8, <2>1
    <3> QED
      BY <1>1, <2>1, <3>1 DEF ReasonInStep
  <2>2. CASE gone' = FALSE
    <3>1. finish' = finish /\ finish # "client_disconnected"
      BY <1>8, <2>2
    <3> QED
      BY <1>1, <2>2, <3>1 DEF ReasonInStep
  <2> QED
    BY <1>4, <2>1, <2>2
<1> QED
  BY <1>9, <1>10, <1>11, <1>12, <1>13

-----------------------------------------------------------------------------
(* What a client may rely on                                               *)

\* The invariant is one of every reachable state.
THEOREM GenInvHolds == Spec => []GenInv
<1>1. Init => GenInv
  BY InitInv
<1>2. GenInv /\ [Next]_vars => GenInv'
  BY StopKeepsInv, StutterKeepsInv, FitKeepsInv, ResetKeepsInv,
     PrefillKeepsInv, TopKeepsInv, SampleNothingKeepsInv, SampleEogKeepsInv,
     SampleTokenKeepsInv, EmitKeepsInv, ForwardTokenKeepsInv, EndKeepsInv
     DEF Next, Step, Terminated
<1> QED
  BY <1>1, <1>2, PTL DEF Spec

\* Every variable keeps its type.
THEOREM TypeCorrect == Spec => []TypeOK
<1>1. GenInv => TypeOK
  BY DEF GenInv
<1> QED
  BY <1>1, GenInvHolds, PTL

\* Every token is sampled from a row computed from this request's tokens alone.
THEOREM RowIsFresh == Spec => []FreshRow
<1>1. GenInv => FreshRow
  BY DEF GenInv, EngineInStep, FreshRow
<1> QED
  BY <1>1, GenInvHolds, PTL

\* No delta is ever contradicted by the text that is returned.
THEOREM NothingRetracted == Spec => []NeverRetracted
<1>1. GenInv => NeverRetracted
  <2> SUFFICES ASSUME GenInv
               PROVE  NeverRetracted
    OBVIOUS
  <2>1. /\ all \in Seq(Byte) /\ sent \in Seq(Byte) /\ emitted \in 0 .. Len(all)
        /\ Len(sent) \in Nat /\ Len(all) \in Nat
    BY DEF GenInv, TypeOK, Text
  <2>2. Len(sent) <= emitted /\ sent = SubSeq(all, 1, Len(sent))
    BY DEF GenInv, TextInStep
  <2>3. SubSeq(sent, 1, Len(sent)) = sent /\ SubSeq(all, 1, Len(all)) = all
    BY <2>1
  <2>4. IsPrefix(sent, all)
    BY <2>1, <2>2, <2>3 DEF IsPrefix
  <2>5. pc = "done" /\ ~gone => Len(sent) = Len(all)
    BY DEF GenInv, TextInStep
  <2> QED
    BY <2>2, <2>3, <2>4, <2>5 DEF NeverRetracted
<1> QED
  BY <1>1, GenInvHolds, PTL

\* Whatever pieces a stop string is split into, no part of the text a client
\* has received contains one.
THEOREM StopStringsStayInside == Spec => []NoStopSent
<1>1. GenInv => NoStopSent
  <2> SUFFICES ASSUME GenInv
               PROVE  NoStopSent
    OBVIOUS
  <2> USE DEF GenInv
  <2>1. /\ all \in Text /\ Len(sent) \in 0 .. Len(all) /\ Len(sent) <= emitted
        /\ sent = SubSeq(all, 1, Len(sent)) /\ stopAt \in -1 .. Len(all)
        /\ emitted \in Nat
    <3>1. /\ all \in Seq(Byte) /\ sent \in Seq(Byte) /\ Len(all) \in Nat
          /\ Len(sent) \in Nat /\ emitted \in 0 .. Len(all)
          /\ stopAt \in -1 .. Len(all)
      BY DEF TypeOK, Text
    <3>2. Len(sent) <= emitted /\ sent = SubSeq(all, 1, Len(sent))
      BY DEF TextInStep
    <3>3. Len(sent) \in 0 .. Len(all)
      BY <3>1, <3>2
    <3> QED
      BY <3>1, <3>2, <3>3 DEF Text
  <2>2. ASSUME NEW p \in Hits(sent)
        PROVE  FALSE
    <3>1. p \in Hits(all) /\ p < Len(sent)
      BY <2>1, HitsOfPrefix
    <3>2. pc # "done" /\ stopAt >= 0
      <4>1. stopAt # -1 /\ pc # "done"
        BY <3>1 DEF TextInStep
      <4> QED
        BY <2>1, <4>1
    <3>3. emitted <= stopAt /\ stopAt <= p
      BY <3>1, <3>2 DEF TextInStep
    <3>4. p \in Nat
      BY <3>1 DEF Hits
    <3> QED
      BY <2>1, <3>1, <3>2, <3>3, <3>4
  <2> QED
    BY <2>2 DEF NoStopSent, TextInStep
<1> QED
  BY <1>1, GenInvHolds, PTL

\* Prompt and completion never outgrow the context.
THEOREM CompletionFits == Spec => []TokensFit
<1>1. GenInv => TokensFit
  <2> SUFFICES ASSUME GenInv, pc \notin {"fit", "refused"}
               PROVE  Len(r.prompt) + Len(gen) <= Ctx
    BY DEF TokensFit
  <2>1. PICK p \in Seq(Token) : p = r.prompt
    BY DEF GenInv, TypeOK
  <2>2. r.max \in 1 .. Ctx - Len(p) /\ Len(gen) <= r.max
    BY <2>1 DEF GenInv, Budget, Room
  <2>3. Len(p) \in Nat /\ Len(gen) \in Nat /\ Ctx \in Nat
    BY <2>1, EngineAssumption DEF GenInv, TypeOK
  <2>4. Len(p) + Len(gen) <= Ctx
    BY <2>2, <2>3
  <2> QED
    BY <2>1, <2>4
<1> QED
  BY <1>1, GenInvHolds, PTL

\* The reason a completion gives for its end is the true one.
THEOREM ReasonIsTrue == Spec => []FinishReason
<1>1. GenInv => FinishReason
  <2> SUFFICES ASSUME GenInv, pc = "done"
               PROVE  CASE finish = "client_disconnected" -> gone
                        [] finish = "cancelled" -> stop /\ ~gone /\ stopAt = -1
                        [] finish = "length" ->
                             Len(gen) = r.max /\ stopAt = -1 /\ ~gone
                        [] finish = "stop" ->
                             ~gone /\ (stopAt >= 0 \/ Len(gen) < r.max)
    BY DEF FinishReason
  <2>1. /\ finish \in Reasons /\ gone \in BOOLEAN
        /\ (finish = "client_disconnected") = gone
    BY DEF GenInv, TypeOK, ReasonInStep
  <2>2. CASE finish = "client_disconnected"
    BY <2>1, <2>2
  <2>3. CASE finish = "cancelled"
    BY <2>1, <2>3 DEF GenInv, ReasonInStep
  <2>4. CASE finish = "length"
    BY <2>1, <2>4 DEF GenInv, ReasonInStep
  <2>5. CASE finish = "stop"
    BY <2>1, <2>5 DEF GenInv, ReasonInStep
  <2> QED
    BY <2>1, <2>2, <2>3, <2>4, <2>5 DEF Reasons
<1> QED
  BY <1>1, GenInvHolds, PTL

-----------------------------------------------------------------------------
(* Whole characters                                                        *)

\* The text of some tokens, and of one more.
LEMMA FlattenIs ==
  /\ FlattenSeq(<<>>) = <<>>
  /\ \A ss \in Seq(Text), u \in Text :
       /\ FlattenSeq(ss) \in Text
       /\ FlattenSeq(Append(ss, u)) = FlattenSeq(ss) \o u
<1> DEFINE body(ss, f, i) == IF i = 1 THEN ss[i] ELSE f[i - 1] \o ss[i]
           flat(ss) == CHOOSE g : g = [i \in 1 .. Len(ss) |-> body(ss, g, i)]
<1>1. FlattenSeq(<<>>) = <<>>
  BY DEF FlattenSeq
<1>2. ASSUME NEW ss \in Seq(Text), Len(ss) # 0
      PROVE  /\ FlattenSeq(ss) = flat(ss)[Len(ss)]
             /\ flat(ss)[1] = ss[1]
             /\ \A i \in 2 .. Len(ss) : flat(ss)[i] = flat(ss)[i - 1] \o ss[i]
             /\ \A i \in 1 .. Len(ss) : flat(ss)[i] \in Text
  <2> DEFINE n == Len(ss)
             step == [i \in 1 .. n |-> [t \in Text |-> t \o ss[i]]]
  <2>1. n \in Nat /\ n >= 1 /\ \A i \in 1 .. n : ss[i] \in Text
    BY <1>2
  <2>2. /\ step \in [1 .. n -> [Text -> Text]]
        /\ \A i \in 1 .. n : \A t \in Text : step[i][t] = t \o ss[i]
    <3>1. \A t \in Text, u \in Text : t \o u \in Text
      BY DEF Text
    <3> QED
      BY <2>1, <3>1
  <2> HIDE DEF step
  <2>e. <<>> \in Text
    BY DEF Text
  <2>3. PICK f : IteratesTo(f, n, Text, <<>>, step)
    BY <2>1, <2>2, <2>e, IterateTo
  <2>4. /\ f \in [0 .. n -> Text] /\ f[0] = <<>>
        /\ \A i \in 1 .. n : f[i] = step[i][f[i - 1]]
    BY <2>3 DEF IteratesTo
  <2> DEFINE h == [i \in 1 .. n |-> f[i]]
  <2>5. ASSUME NEW i \in 1 .. n
        PROVE  h[i] = body(ss, h, i)
    <3>1. f[i - 1] \in Text /\ f[i] = step[i][f[i - 1]]
      BY <2>1, <2>4
    <3>2. f[i] = f[i - 1] \o ss[i]
      BY <3>1, <2>2
    <3>3. CASE i = 1
      <4>0. f[i - 1] = <<>> /\ ss[i] \in Text
        BY <3>3, <2>1, <2>4
      <4>1. f[i] = <<>> \o ss[i] /\ ss[i] \in Text
        BY <3>2, <4>0
      <4>2. \A t \in Text : <<>> \o t = t
        BY DEF Text
      <4> QED
        BY <4>1, <4>2, <3>3
    <3>4. CASE i # 1
      <4>1. i - 1 \in 1 .. n
        BY <3>4, <2>1
      <4> QED
        BY <4>1, <3>2, <3>4
    <3> QED
      BY <3>3, <3>4
  <2>6. h = [i \in 1 .. n |-> body(ss, h, i)]
    <3>1. h = [i \in 1 .. n |-> h[i]]
      OBVIOUS
    <3> HIDE DEF body, n, h
    <3> QED
      BY <3>1, <2>5
  <2>7. flat(ss) = [i \in 1 .. n |-> body(ss, flat(ss), i)]
    <3> HIDE DEF body, h
    <3> QED
      BY <2>6
  <2> HIDE DEF flat
  <2>8. flat(ss)[1] = ss[1]
    BY <2>7, <2>1
  <2>9. ASSUME NEW i \in 2 .. n
        PROVE  flat(ss)[i] = flat(ss)[i - 1] \o ss[i]
    <3>1. i \in 1 .. n /\ i # 1
      BY <2>1
    <3>2. flat(ss)[i] = body(ss, flat(ss), i)
      <4> HIDE DEF body, n
      <4> QED
        BY <2>7, <3>1
    <3> QED
      BY <3>1, <3>2
  <2>10. \A i \in 1 .. n : flat(ss)[i] \in Text
    <3> DEFINE S == {k \in Nat : k + 1 <= n => flat(ss)[k + 1] \in Text}
    <3>1. 0 \in S
      BY <2>1, <2>8
    <3>2. ASSUME NEW k \in Nat, k \in S
          PROVE  k + 1 \in S
      <4>1. SUFFICES ASSUME (k + 1) + 1 <= n
                     PROVE  flat(ss)[(k + 1) + 1] \in Text
        OBVIOUS
      <4>2. /\ (k + 1) + 1 \in 2 .. n /\ ((k + 1) + 1) - 1 = k + 1
            /\ (k + 1) + 1 \in 1 .. n
        BY <4>1, <2>1
      <4>3. flat(ss)[k + 1] \in Text /\ ss[(k + 1) + 1] \in Text
        BY <3>2, <4>1, <4>2, <2>1
      <4>4. flat(ss)[(k + 1) + 1] = flat(ss)[k + 1] \o ss[(k + 1) + 1]
        BY <2>9, <4>2
      <4>5. \A t \in Text, u \in Text : t \o u \in Text
        BY DEF Text
      <4> QED
        BY <4>3, <4>4, <4>5
    <3>3. Nat \subseteq S
      <4> HIDE DEF S
      <4> QED
        BY <3>1, <3>2, Induction
    <3> TAKE i \in 1 .. n
    <3>4. i - 1 \in Nat /\ (i - 1) + 1 = i /\ i <= n
      BY <2>1
    <3> QED
      BY <3>3, <3>4
  <2>11. FlattenSeq(ss) = flat(ss)[n]
    BY <1>2 DEF FlattenSeq, flat
  <2> QED
    BY <2>8, <2>9, <2>10, <2>11
<1> HIDE DEF flat
<1>3. ASSUME NEW ss \in Seq(Text), NEW u \in Text
      PROVE  /\ FlattenSeq(ss) \in Text
             /\ FlattenSeq(Append(ss, u)) = FlattenSeq(ss) \o u
  <2> DEFINE vs == Append(ss, u)
             n == Len(ss)
  <2>1. /\ vs \in Seq(Text) /\ n \in Nat /\ Len(vs) = n + 1 /\ Len(vs) # 0
        /\ vs[n + 1] = u /\ \A i \in 1 .. n : vs[i] = ss[i]
    OBVIOUS
  <2> HIDE DEF vs
  <2>2. /\ FlattenSeq(vs) = flat(vs)[n + 1] /\ flat(vs)[1] = vs[1]
        /\ \A i \in 2 .. n + 1 : flat(vs)[i] = flat(vs)[i - 1] \o vs[i]
    BY <1>2, <2>1
  <2>3. CASE n = 0
    <3>1. ss = <<>>
      BY <2>3
    <3>2. FlattenSeq(ss) = <<>> /\ FlattenSeq(vs) = u
      BY <3>1, <1>1, <2>1, <2>2, <2>3
    <3>3. <<>> \in Text /\ \A t \in Text : <<>> \o t = t
      BY DEF Text
    <3> QED
      BY <3>2, <3>3 DEF vs
  <2>4. CASE n # 0
    <3> HIDE DEF n
    <3>1. /\ FlattenSeq(ss) = flat(ss)[n] /\ flat(ss)[1] = ss[1]
          /\ \A i \in 2 .. n : flat(ss)[i] = flat(ss)[i - 1] \o ss[i]
          /\ \A i \in 1 .. n : flat(ss)[i] \in Text
      <4>1. Len(ss) # 0
        BY <2>4 DEF n
      <4> QED
        BY <4>1, <1>2 DEF n
    <3> DEFINE f == [i \in 0 .. n |-> IF i = 0 THEN <<>> ELSE flat(vs)[i]]
               g == [i \in 0 .. n |-> IF i = 0 THEN <<>> ELSE flat(ss)[i]]
    <3>2. ASSUME NEW i \in 1 .. n, f[i - 1] = g[i - 1]
          PROVE  f[i] = g[i]
      <4>1. i \in 0 .. n /\ i - 1 \in 0 .. n /\ i # 0
        BY <2>1
      <4>2. CASE i = 1
        BY <4>1, <4>2, <2>1, <2>2, <3>1
      <4>3. CASE i # 1
        <5>1. i \in 2 .. n /\ i \in 2 .. n + 1 /\ i - 1 # 0
          BY <4>3, <2>1
        <5>2. flat(vs)[i - 1] = flat(ss)[i - 1]
          BY <3>2, <4>1, <5>1
        <5>3. flat(vs)[i] = flat(ss)[i]
          BY <5>1, <5>2, <2>1, <2>2, <3>1
        <5> QED
          BY <5>3, <4>1
      <4> QED
        BY <4>2, <4>3
    <3>3. f[0] = g[0]
      BY <2>1
    <3>4. f[n] = g[n]
      <4> HIDE DEF f, g
      <4>1. StepsAgree(f, g, n)
        BY <3>2 DEF StepsAgree
      <4>2. \A i \in 0 .. n : f[i] = g[i]
        BY <2>1, <3>3, <4>1, SameRecursion
      <4> QED
        BY <2>1, <4>2
    <3>5. flat(vs)[n] = flat(ss)[n]
      BY <3>4, <2>1, <2>4
    <3>6. flat(vs)[n + 1] = flat(vs)[n] \o u
      <4>1. n + 1 \in 2 .. n + 1 /\ (n + 1) - 1 = n
        BY <2>1, <2>4
      <4> QED
        BY <4>1, <2>1, <2>2
    <3>7. n \in 1 .. n
      BY <2>1, <2>4
    <3> QED
      BY <3>1, <3>5, <3>6, <3>7, <2>2 DEF vs
  <2> QED
    BY <2>3, <2>4
<1> QED
  BY <1>1, <1>3

\* The text of the tokens generated, and of one more.
LEMMA GeneratedGrows ==
  ASSUME gen \in Seq(Token), NEW id \in Token, gen' = Append(gen, id)
  PROVE  Generated \in Text /\ Generated' = Generated \o Piece[id]
<1> DEFINE ss == [i \in DOMAIN gen |-> Piece[gen[i]]]
           vs == [i \in DOMAIN gen' |-> Piece[gen'[i]]]
<1>1. Piece \in [Token -> Text]
  BY VocabularyAssumption
<1>2. ss \in Seq(Text) /\ Piece[id] \in Text
  BY <1>1
<1>3. vs = Append(ss, Piece[id])
  <2> DEFINE n == Len(gen)
  <2>1. /\ n \in Nat /\ DOMAIN gen = 1 .. n /\ DOMAIN gen' = 1 .. n + 1
        /\ gen'[n + 1] = id /\ \A i \in 1 .. n : gen'[i] = gen[i]
    OBVIOUS
  <2>2. /\ vs \in Seq(Text) /\ Len(vs) = n + 1
        /\ Append(ss, Piece[id]) \in Seq(Text) /\ Len(Append(ss, Piece[id])) = n + 1
    BY <1>1, <1>2, <2>1
  <2>3. ASSUME NEW i \in 1 .. n + 1
        PROVE  vs[i] = Append(ss, Piece[id])[i]
    BY <2>1, <1>2
  <2> HIDE DEF vs, ss, n
  <2> QED
    BY <2>1, <2>2, <2>3, SameSeq
<1>4. Generated = FlattenSeq(ss) /\ Generated' = FlattenSeq(vs)
  BY DEF Generated
<1> HIDE DEF ss, vs
<1> QED
  BY <1>2, <1>3, <1>4, FlattenIs

\* A beginning of well-formed text is one too.
LEMMA AblePrefix ==
  ASSUME NEW t \in Text, Utf8Able(t), NEW n \in 0 .. Len(t)
  PROVE  Utf8Able(SubSeq(t, 1, n))
<1> DEFINE u == SubSeq(t, 1, n)
<1>1. Len(u) = n /\ n \in Nat /\ \A i \in 1 .. n : u[i] = t[i] /\ i \in 1 .. Len(t)
  BY Prefix DEF Text
<1> HIDE DEF u
<1>2. ASSUME NEW i \in 1 .. n
      PROVE  Covered(u, i) <=> Covered(t, i)
  <2>1. \A j \in 1 .. i - 1 : u[j] = t[j]
    BY <1>1
  <2> QED
    BY <2>1 DEF Covered
<1>3. Utf8Able(u)
  BY <1>1, <1>2 DEF Utf8Able
<1> QED
  BY <1>3 DEF u

\* In front of a byte that begins a character, the text is whole.
LEMMA WholeBefore ==
  ASSUME NEW t \in Text, Utf8Able(t), NEW n \in 0 .. Len(t),
         n < Len(t) => t[n + 1] # "c"
  PROVE  n < Len(t) => Whole(SubSeq(t, 1, n))
<1> SUFFICES ASSUME n < Len(t)
             PROVE  Whole(SubSeq(t, 1, n))
  OBVIOUS
<1> DEFINE u == SubSeq(t, 1, n)
<1>1. /\ Len(u) = n /\ n \in Nat /\ n + 1 \in 1 .. Len(t)
      /\ \A i \in 1 .. n : u[i] = t[i] /\ t[i] \in Byte
  BY Prefix DEF Text
<1>2. ~Covered(t, n + 1)
  BY <1>1 DEF Utf8Able
<1> HIDE DEF u
<1>3. ASSUME NEW i \in 1 .. n
      PROVE  i + Need[u[i]] - 1 <= n
  <2>1. i \in 1 .. (n + 1) - 1
    BY <1>1
  <2>2. ~(Need[t[i]] > (n + 1) - i)
    BY <1>2, <2>1 DEF Covered
  <2>3. Need[t[i]] \in Nat /\ u[i] = t[i]
    BY <1>1, NeedIs
  <2> QED
    BY <1>1, <2>2, <2>3
<1>4. Whole(u)
  BY <1>1, <1>3 DEF Whole
<1> QED
  BY <1>4 DEF u

\* What utf8_keep_len keeps of well-formed text ends with a whole character.
LEMMA KeptIsWhole ==
  ASSUME NEW t \in Text, Utf8Able(t)
  PROVE  Whole(SubSeq(t, 1, KeepLen(t)))
<1> DEFINE n == Continuations(t)
           i == Len(t) - n
<1>1. /\ n \in 0 .. 3 /\ n <= Len(t) /\ Len(t) \in Nat
      /\ \A j \in Len(t) - n + 1 .. Len(t) : t[j] = "c"
      /\ n = 3 \/ n = Len(t) \/ t[Len(t) - n] # "c"
  BY ContinuationsIs DEF Text
<1>2. KeepLen(t) = IF i = 0 \/ n + 1 >= Need[t[i]] THEN Len(t) ELSE i - 1
  BY DEF KeepLen
<1>3. \A j \in 1 .. Len(t) : t[j] \in Byte /\ Need[t[j]] \in 1 .. 4
  BY NeedIs DEF Text
<1> HIDE DEF n
<1>4. i \in 0 .. Len(t)
  BY <1>1
<1>5. CASE i = 0
  <2>1. Len(t) = 0
    <3>1. SUFFICES ASSUME Len(t) > 0
                   PROVE  FALSE
      BY <1>1
    <3>2. t[1] = "c" /\ 1 \in 1 .. Len(t)
      BY <1>1, <1>5, <3>1
    <3>3. Covered(t, 1)
      BY <3>2 DEF Utf8Able
    <3> QED
      BY <3>3 DEF Covered
  <2>2. KeepLen(t) = 0 /\ Len(SubSeq(t, 1, 0)) = 0
    BY <2>1, <1>2, <1>5
  <2> QED
    BY <2>2 DEF Whole
<1>6. CASE i # 0
  <2>0. i \in 1 .. Len(t) /\ i \in Nat
    BY <1>4, <1>6
  <2>1. t[i] # "c"
    <3>1. SUFFICES ASSUME t[i] = "c"
                   PROVE  FALSE
      OBVIOUS
    <3>2. n = 3
      BY <1>1, <1>6, <3>1
    <3>3. \A j \in i .. Len(t) : t[j] = "c"
      BY <1>1, <3>1
    <3>4. Len(t) \in 1 .. Len(t) /\ Len(t) = i + 3
      BY <1>1, <2>0, <3>2
    <3>5. Covered(t, Len(t))
      <4>1. t[Len(t)] = "c"
        BY <3>3, <3>4, <2>0
      <4> QED
        BY <3>4, <4>1 DEF Utf8Able
    <3>6. PICK j \in 1 .. Len(t) - 1 : Need[t[j]] > Len(t) - j
      BY <3>5 DEF Covered
    <3>7. j >= i
      <4>1. j \in 1 .. Len(t)
        BY <1>1
      <4>2. Need[t[j]] \in 1 .. 4
        BY <4>1, <1>3
      <4> QED
        BY <4>1, <4>2, <3>4, <3>6, <2>0
    <3>8. Need[t[j]] = 1
      BY <3>3, <3>4, <3>6, <3>7, NeedIs
    <3> QED
      BY <3>4, <3>6, <3>8
  <2>2. \A j \in 1 .. i - 1 : j + Need[t[j]] - 1 <= i - 1
    <3> TAKE j \in 1 .. i - 1
    <3>1. ~Covered(t, i)
      BY <2>0, <2>1 DEF Utf8Able
    <3>2. ~(Need[t[j]] > i - j)
      BY <3>1 DEF Covered
    <3>3. Need[t[j]] \in 1 .. 4
      BY <1>3, <2>0
    <3> QED
      BY <3>2, <3>3, <2>0
  <2>3. CASE n + 1 >= Need[t[i]]
    <3>1. KeepLen(t) = Len(t) /\ SubSeq(t, 1, Len(t)) = t
      BY <1>2, <2>3 DEF Text
    <3>2. ASSUME NEW j \in 1 .. Len(t)
          PROVE  j + Need[t[j]] - 1 <= Len(t)
      <4>1. CASE j < i
        BY <4>1, <2>2, <2>0, <1>3
      <4>2. CASE j = i
        BY <4>2, <2>3, <2>0, <1>1, <1>3
      <4>3. CASE j > i
        <5>1. t[j] = "c"
          BY <4>3, <1>1, <2>0
        <5> QED
          BY <5>1, NeedIs
      <4> QED
        BY <4>1, <4>2, <4>3, <2>0
    <3> QED
      BY <3>1, <3>2 DEF Whole
  <2>4. CASE ~(n + 1 >= Need[t[i]])
    <3>1. KeepLen(t) = i - 1 /\ i - 1 \in 0 .. Len(t)
      BY <1>2, <1>6, <2>0, <2>4
    <3>2. (i - 1) + 1 = i /\ i - 1 < Len(t)
      BY <2>0
    <3> QED
      BY <3>1, <3>2, <2>1, WholeBefore
  <2> QED
    BY <2>3, <2>4
<1> QED
  BY <1>5, <1>6

\* Bytes handed over up to a place where the text is whole leave what was sent
\* whole.
LEMMA FlushWhole ==
  ASSUME all \in Text, sent \in Text, Len(sent) = emitted, emitted \in 0 .. Len(all),
         sent = SubSeq(all, 1, Len(sent)), Whole(sent),
         NEW keep \in 0 .. Len(all), Whole(SubSeq(all, 1, keep)), FlushUpto(keep)
  PROVE  Whole(sent')
<1>1. CASE sent' = sent
  BY <1>1
<1>2. CASE sent' # sent
  <2>1. ~(keep <= emitted) /\ sent' = sent \o SubSeq(all, emitted + 1, keep)
    BY <1>2 DEF FlushUpto
  <2>2. emitted \in 0 .. Len(all) /\ keep \in emitted .. Len(all)
    BY <2>1 DEF Text
  <2>3. SubSeq(all, 1, emitted) \o SubSeq(all, emitted + 1, keep) = SubSeq(all, 1, keep)
    BY <2>2, Join DEF Text
  <2> QED
    BY <2>1, <2>3
<1> QED
  BY <1>1, <1>2

Premise == Utf8Able(Generated) /\ (\A s \in r.stops : Utf8Able(s))

\* The text is what was generated until it is cut, and what was sent is whole.
WholeInv ==
  /\ pc # "done" => all = Generated
  /\ Premise => Whole(sent)

\* A stop string that is text begins where the text in front of it is whole.
LEMMA WholeBeforeStop ==
  ASSUME TypeOK, Utf8Able(all), \A s \in r.stops : Utf8Able(s), NEW p \in Hits(all)
  PROVE  Whole(SubSeq(all, 1, p))
<1>1. PICK s \in r.stops : p + Len(s) <= Len(all) /\ SubSeq(all, p + 1, p + Len(s)) = s
  BY DEF Hits
<1>2. s \in Seq(Byte) /\ Len(s) \in Nat /\ Len(s) >= 1 /\ p \in 0 .. Len(all)
  BY DEF TypeOK, Text, Hits
<1>3. all \in Seq(Byte) /\ Len(all) \in Nat
  BY DEF TypeOK, Text
<1>4. s[1] # "c"
  <2>1. ~Covered(s, 1)
    BY DEF Covered
  <2> QED
    BY <2>1, <1>2 DEF Utf8Able
<1>5. s[1] = all[p + 1]
  <2>1. p + Len(s) \in p .. Len(all) /\ (p + Len(s)) - p = Len(s)
    BY <1>1, <1>2, <1>3
  <2>2. \A i \in 1 .. Len(s) : SubSeq(all, p + 1, p + Len(s))[i] = all[p + i]
    BY <1>2, <1>3, <2>1, Piecewise
  <2> QED
    BY <1>1, <1>2, <2>2
<1>6. p < Len(all)
  BY <1>1, <1>2, <1>3
<1> QED
  BY <1>2, <1>3, <1>4, <1>5, <1>6, WholeBefore DEF Text

\* Steps that hand nothing over and generate nothing.
LEMMA QuietKeepsWhole ==
  ASSUME WholeInv, UNCHANGED <<gen, all, sent>>, r'.stops = r.stops,
         pc' # "done" => pc # "done"
  PROVE  WholeInv'
<1>1. Generated' = Generated
  BY DEF Generated
<1>2. Premise' = Premise
  BY <1>1 DEF Premise
<1> QED
  BY <1>1, <1>2 DEF WholeInv

LEMMA SampleTokenKeepsWhole == GenInv /\ WholeInv /\ SampleToken => WholeInv'
<1> SUFFICES ASSUME GenInv, WholeInv, SampleToken
             PROVE  WholeInv'
  OBVIOUS
<1>1. PICK id \in Token : gen' = Append(gen, id) /\ all' = all \o Piece[id]
  BY DEF SampleToken
<1>2. pc = "sample" /\ pc' = "emit" /\ sent' = sent /\ r' = r
  BY DEF SampleToken
<1>3. Generated \in Text /\ Generated' = Generated \o Piece[id] /\ Piece[id] \in Text
  <2>1. gen \in Seq(Token)
    BY DEF GenInv, TypeOK
  <2> QED
    BY <1>1, <2>1, GeneratedGrows, VocabularyAssumption
<1>4. all' = Generated'
  BY <1>1, <1>2, <1>3 DEF WholeInv
<1>5. Premise' => Premise
  <2>1. SUFFICES ASSUME Utf8Able(Generated')
                 PROVE  Utf8Able(Generated)
    BY <1>2 DEF Premise
  <2>2. /\ Generated' \in Text /\ Len(Generated) \in 0 .. Len(Generated')
        /\ SubSeq(Generated', 1, Len(Generated)) = Generated
    <3>1. Len(Generated) \in Nat /\ Len(Piece[id]) \in Nat
      BY <1>3 DEF Text
    <3>2. /\ Generated \o Piece[id] \in Text
          /\ Len(Generated \o Piece[id]) = Len(Generated) + Len(Piece[id])
          /\ SubSeq(Generated \o Piece[id], 1, Len(Generated)) = SubSeq(Generated, 1, Len(Generated))
      BY <1>3, <3>1, Extend DEF Text
    <3>3. SubSeq(Generated, 1, Len(Generated)) = Generated
      BY <1>3 DEF Text
    <3> QED
      BY <1>3, <3>1, <3>2, <3>3
  <2> HIDE DEF Generated
  <2> QED
    BY <2>1, <2>2, AblePrefix
<1> QED
  BY <1>2, <1>4, <1>5 DEF WholeInv

LEMMA EmitKeepsWhole == GenInv /\ WholeInv /\ Emit => WholeInv'
<1> SUFFICES ASSUME GenInv, WholeInv, Emit
             PROVE  WholeInv'
  OBVIOUS
<1> DEFINE keep == IF stopAt >= 0 THEN stopAt ELSE KeepLen(SubSeq(all, 1, Limit))
<1>1. /\ pc = "emit" /\ r' = r /\ gen' = gen /\ all' = all /\ FlushUpto(keep)
      /\ pc' \in {"end", "forward"}
  BY DEF Emit
<1>2. /\ all \in Text /\ sent \in Text /\ Len(all) \in Nat
      /\ emitted \in 0 .. Len(all) /\ stopAt \in -1 .. Len(all)
  BY DEF GenInv, TypeOK, Text
<1>3. Len(sent) = emitted /\ sent = SubSeq(all, 1, Len(sent))
  BY <1>1 DEF GenInv, TextInStep
<1>4. Generated' = Generated /\ Premise' = Premise /\ all = Generated
  <2>1. Generated' = Generated
    BY <1>1 DEF Generated
  <2> QED
    BY <2>1, <1>1 DEF Premise, WholeInv
<1>5. ASSUME Premise
      PROVE  Whole(sent')
  <2>1. Utf8Able(all) /\ Whole(sent) /\ \A s \in r.stops : Utf8Able(s)
    BY <1>4, <1>5 DEF WholeInv, Premise
  <2>2. keep \in 0 .. Len(all) /\ Whole(SubSeq(all, 1, keep))
    <3>1. CASE stopAt >= 0
      <4>1. stopAt \in Hits(all)
        BY <1>1, <3>1 DEF GenInv, TextInStep
      <4> QED
        BY <4>1, <3>1, <2>1, <1>2, WholeBeforeStop DEF GenInv
    <3>2. CASE ~(stopAt >= 0)
      <4> DEFINE u == SubSeq(all, 1, Limit)
      <4>1. Limit \in 0 .. Len(all)
        BY <1>2, HoldIs DEF Limit, GenInv
      <4>2. u \in Text /\ Len(u) = Limit /\ Utf8Able(u)
        BY <4>1, <1>2, <2>1, Prefix, AblePrefix DEF Text
      <4>3. KeepLen(u) \in 0 .. Limit /\ Whole(SubSeq(u, 1, KeepLen(u)))
        <5> HIDE DEF u
        <5> QED
          BY <4>2, KeepLenBound, KeptIsWhole
      <4>4. SubSeq(u, 1, KeepLen(u)) = SubSeq(all, 1, KeepLen(u))
        BY <4>1, <4>3, <1>2, Prefix DEF Text
      <4>5. keep = KeepLen(u) /\ KeepLen(u) \in 0 .. Len(all)
        BY <3>2, <4>1, <4>3, <1>2
      <4> QED
        BY <4>3, <4>4, <4>5
    <3> QED
      BY <3>1, <3>2
  <2> HIDE DEF keep
  <2> QED
    BY <2>1, <2>2, <1>1, <1>2, <1>3, FlushWhole
<1> QED
  BY <1>1, <1>4, <1>5 DEF WholeInv

LEMMA EndKeepsWhole == GenInv /\ WholeInv /\ End => WholeInv'
<1> SUFFICES ASSUME GenInv, WholeInv, End
             PROVE  WholeInv'
  OBVIOUS
<1>1. pc = "end" /\ pc' = "done" /\ r' = r /\ gen' = gen
  BY DEF End
<1>2. /\ all \in Text /\ sent \in Text /\ emitted \in 0 .. Len(all)
      /\ stopAt \in -1 .. Len(all) /\ gone \in BOOLEAN
  BY DEF GenInv, TypeOK, Text
<1>3. ~gone => Len(sent) = emitted /\ sent = SubSeq(all, 1, Len(sent))
  BY <1>1 DEF GenInv, TextInStep
<1>4. Premise' = Premise /\ all = Generated
  <2>1. Generated' = Generated
    BY <1>1 DEF Generated
  <2> QED
    BY <2>1, <1>1 DEF Premise, WholeInv
<1>5. ASSUME Premise
      PROVE  Whole(sent')
  <2>1. Utf8Able(all) /\ Whole(sent)
    BY <1>4, <1>5 DEF WholeInv, Premise
  <2>2. CASE stopAt >= 0 \/ gone
    BY <2>1, <2>2 DEF End
  <2>3. CASE ~(stopAt >= 0 \/ gone)
    <3>1. FlushUpto(KeepLen(all))
      BY <2>3 DEF End
    <3>2. KeepLen(all) \in 0 .. Len(all) /\ Whole(SubSeq(all, 1, KeepLen(all)))
      BY <1>2, <2>1, KeepLenBound, KeptIsWhole
    <3> QED
      BY <2>1, <2>3, <3>1, <3>2, <1>2, <1>3, FlushWhole
  <2> QED
    BY <2>2, <2>3
<1> QED
  BY <1>1, <1>4, <1>5 DEF WholeInv

\* Nothing a client is sent ends inside a character, nor does the text that is
\* returned, however the characters are split over tokens, stop strings and
\* held-back bytes.
THEOREM CharactersStayWhole == Spec => []WholeCharacters
<1>1. Init => WholeInv
  <2> SUFFICES ASSUME Init
               PROVE  WholeInv
    OBVIOUS
  <2>1. Generated = <<>>
    <3>1. [i \in DOMAIN gen |-> Piece[gen[i]]] = <<>>
      BY DEF Init
    <3> QED
      BY <3>1, FlattenIs DEF Generated
  <2>2. Whole(<<>>)
    BY DEF Whole
  <2> QED
    BY <2>1, <2>2 DEF Init, WholeInv
<1>2. GenInv /\ WholeInv /\ [Next]_vars => WholeInv'
  <2> SUFFICES ASSUME GenInv, WholeInv, [Next]_vars
               PROVE  WholeInv'
    OBVIOUS
  <2>1. CASE Fit
    <3>1. r'.stops = r.stops
      BY <2>1 DEF Fit, GenInv, TypeOK
    <3> QED
      BY <2>1, <3>1, QuietKeepsWhole DEF Fit, text
  <2>2. CASE Reset \/ Prefill \/ Top \/ SampleNothing \/ SampleEog \/ ForwardToken
    <3>1. r' = r /\ UNCHANGED <<gen, all, sent>> /\ pc # "done"
      BY <2>2 DEF Reset, Prefill, Top, SampleNothing, SampleEog, ForwardToken, text
    <3> QED
      BY <3>1, QuietKeepsWhole
  <2>3. CASE StopRequested \/ UNCHANGED vars
    <3>1. r' = r /\ pc' = pc /\ UNCHANGED <<gen, all, sent>>
      BY <2>3 DEF StopRequested, vars, text
    <3> QED
      BY <3>1, QuietKeepsWhole
  <2> QED
    BY <2>1, <2>2, <2>3, SampleTokenKeepsWhole, EmitKeepsWhole, EndKeepsWhole
       DEF Next, Step, Terminated
<1>3. GenInv /\ WholeInv /\ NeverRetracted => WholeCharacters
  BY DEF WholeInv, WholeCharacters, NeverRetracted, Premise
<1>4. Spec => []WholeInv
  BY <1>1, <1>2, GenInvHolds, PTL DEF Spec
<1> QED
  BY <1>3, <1>4, GenInvHolds, NothingRetracted, PTL

-----------------------------------------------------------------------------
(* What is held back                                                       *)

HeldInv == pc \in {"top", "forward"} => Len(all) - emitted <= Hold + 3

\* No more is held back than the longest stop string may need.
LEMMA HoldIsLongest ==
  ASSUME TypeOK, TextInStep
  PROVE  Hold = Max({1} \cup {Len(s) : s \in r.stops}) - 1
<1> DEFINE L == {1} \cup {Len(s) : s \in r.stops}
<1>1. \A s \in r.stops : Len(s) \in Nat /\ Len(s) >= 1
  <2>1. \A s \in r.stops : s \in Seq(Byte) /\ s # <<>>
    BY DEF TypeOK, Text
  <2> QED
    BY <2>1
<1>2. Max(L) = CHOOSE x \in L : \A y \in L : x >= y
  BY DEF Max
<1>3. CASE r.stops = {}
  <2>1. L = {1}
    BY <1>3
  <2> HIDE DEF L
  <2>2. Max(L) = 1
    BY <1>2, <2>1
  <2>3. Hold = 0
    BY <1>3 DEF Hold
  <2> QED
    BY <2>2, <2>3 DEF L
<1>4. CASE r.stops # {}
  <2> DEFINE long == CHOOSE s \in r.stops : \A t \in r.stops : Len(t) <= Len(s)
  <2>1. \E s \in r.stops : \A t \in r.stops : Len(t) <= Len(s)
    BY <1>4, RequestAssumption DEF TextInStep
  <2>2. long \in r.stops /\ \A t \in r.stops : Len(t) <= Len(long)
    BY <2>1
  <2>3. Hold = Len(long) - 1
    BY <1>4 DEF Hold
  <2> HIDE DEF long
  <2>4. Len(long) \in L /\ \A y \in L : Len(long) >= y
    BY <1>1, <2>2
  <2>5. \A y \in L : y \in Nat
    BY <1>1
  <2> HIDE DEF L
  <2>6. Max(L) \in L /\ \A y \in L : Max(L) >= y
    BY <1>2, <2>4
  <2>7. Max(L) = Len(long)
    BY <2>4, <2>5, <2>6
  <2> QED
    BY <2>3, <2>7 DEF L
<1> QED
  BY <1>3, <1>4

LEMMA EmitKeepsHeld == GenInv /\ Emit => HeldInv'
<1> SUFFICES ASSUME GenInv, Emit, pc' = "forward"
             PROVE  Len(all') - emitted' <= Hold' + 3
  BY DEF HeldInv, Emit
<1> DEFINE keep == KeepLen(SubSeq(all, 1, Limit))
<1>1. /\ stopAt = -1 /\ r' = r /\ all' = all /\ FlushUpto(keep)
  <2>1. stopAt \in -1 .. Len(all) /\ Len(all) \in Nat
    BY DEF GenInv, TypeOK, Text
  <2>2. ~(stopAt >= 0)
    BY DEF Emit
  <2> QED
    BY <2>1, <2>2 DEF Emit
<1>2. /\ all \in Text /\ Len(all) \in Nat /\ emitted \in Nat
  BY DEF GenInv, TypeOK, Text
<1>3. Hold \in Nat /\ Hold' = Hold
  <2>1. Hold \in Nat
    BY HoldIs DEF GenInv
  <2>2. Hold' = Hold
    BY <1>1 DEF Hold
  <2> QED
    BY <2>1, <2>2
<1>4. Limit \in 0 .. Len(all) /\ Limit >= Len(all) - Hold
  BY <1>2, <1>3 DEF Limit
<1>5. keep >= Limit - 3 /\ keep \in Nat
  <2>1. SubSeq(all, 1, Limit) \in Text /\ Len(SubSeq(all, 1, Limit)) = Limit
    BY <1>2, <1>4, Prefix DEF Text
  <2>2. keep \in 0 .. Limit /\ keep >= Limit - 3
    BY <2>1, KeepLenBound
  <2> QED
    BY <1>4, <2>2
<1> HIDE DEF keep
<1>6. emitted' >= keep /\ emitted' \in Nat
  BY <1>1, <1>2, <1>5 DEF FlushUpto
<1> QED
  BY <1>1, <1>2, <1>3, <1>4, <1>5, <1>6

\* When the next token is asked for, no more bytes are held back than the
\* longest stop string and a character may still need.
THEOREM DeltasArePrompt == Spec => []Prompt
<1>1. Init => HeldInv
  BY DEF Init, HeldInv
<1>2. GenInv /\ HeldInv /\ [Next]_vars => HeldInv'
  <2> SUFFICES ASSUME GenInv, HeldInv, [Next]_vars
               PROVE  HeldInv'
    OBVIOUS
  <2>1. CASE Fit \/ Reset \/ Top \/ SampleNothing \/ SampleEog \/ SampleToken \/ End
    BY <2>1 DEF Fit, Reset, Top, SampleNothing, SampleEog, SampleToken, End, HeldInv
  <2>2. CASE Prefill
    <3>1. r' = r /\ all' = all /\ emitted' = emitted /\ all = <<>> /\ emitted \in 0 .. Len(all)
      BY <2>2 DEF Prefill, text, GenInv, TypeOK, TextInStep
    <3>2. Hold' = Hold /\ Hold \in Nat /\ emitted = 0 /\ Len(all) = 0
      BY <3>1, HoldIs DEF Hold, GenInv
    <3> QED
      BY <3>1, <3>2 DEF HeldInv
  <2>3. CASE ForwardToken \/ StopRequested \/ UNCHANGED vars
    <3>1. r' = r /\ all' = all /\ emitted' = emitted
      BY <2>3 DEF ForwardToken, StopRequested, text, vars
    <3>2. Hold' = Hold
      BY <3>1 DEF Hold
    <3>3. pc' = pc \/ pc = "forward"
      BY <2>3 DEF ForwardToken, StopRequested, vars
    <3> QED
      BY <3>1, <3>2, <3>3 DEF HeldInv
  <2> QED
    BY <2>1, <2>2, <2>3, EmitKeepsHeld DEF Next, Step, Terminated
<1>3. GenInv /\ HeldInv => Prompt
  BY HoldIsLongest DEF GenInv, HeldInv, Prompt
<1>4. Spec => []HeldInv
  BY <1>1, <1>2, GenInvHolds, PTL DEF Spec
<1> QED
  BY <1>3, <1>4, GenInvHolds, PTL
=============================================================================
