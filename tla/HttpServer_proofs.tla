-------------------------- MODULE HttpServer_proofs --------------------------
(***************************************************************************)
(* Proofs about HttpServer, for every set of requests and whether or not   *)
(* the pipe could be made: ServeInv is inductive, so a client that took    *)
(* what it was sent has one complete answer, and a stop is prompt.         *)
(***************************************************************************)
EXTENDS HttpServerProps, SequenceFacts, TLAPS

USE DEF conn, world

-----------------------------------------------------------------------------
(* Requests and items                                                      *)

LEMMA Requests ==
  ASSUME TypeOK
  PROVE  /\ req.kind \in Kind /\ req.head \in Nat /\ req.head > 0 /\ req.body \in Nat
         /\ \A q \in Request : q.head \in Nat /\ q.head > 0 /\ q.kind \in Kind
BY RequestAssumption DEF TypeOK

\* A request that is handled is answered, generated for, or streamed to.
LEMMA Handled ==
  ASSUME TypeOK, ReadInv, Handle
  PROVE  /\ pc = "handle" /\ UNCHANGED <<late, wire, gone, tokens, req, left>>
         /\ \/ req.kind \in {"fixed", "mute"} /\ Write(Answer, "close")
            \/ req.kind = "complete" /\ pc' = "generate" /\ UNCHANGED <<out, then>>
            \/ req.kind = "stream" /\ Write(Opening, "generate")
<1>1. pc = "handle" /\ UNCHANGED <<late, wire, gone, tokens, req, left>>
  BY DEF Handle
<1>2. req.kind \in {"fixed", "mute", "complete", "stream"}
  BY <1>1, Requests DEF ReadInv, Kind
<1>3. CASE req.kind \in {"fixed", "mute"}
  BY <1>1, <1>3 DEF Handle
<1>4. CASE req.kind = "complete"
  BY <1>1, <1>4 DEF Handle
<1>5. CASE req.kind = "stream"
  BY <1>1, <1>5 DEF Handle, Opening
<1> QED
  BY <1>1, <1>2, <1>3, <1>4, <1>5

LEMMA Items ==
  /\ {Answer, <<"100">>, <<"delta">>, Failing, Opening, Closing, <<>>} \subseteq Seq(Item)
  /\ Len(Answer) = 2 /\ Len(Failing) = 3 /\ Len(Opening) \in 1..2
  /\ Len(Closing) \in 3..4
<1>1. /\ Answer \in Seq(Item) /\ Len(Answer) = 2
      /\ Failing \in Seq(Item) /\ Len(Failing) = 3
  BY DEF Answer, Failing, Item
<1>2. <<"100">> \in Seq(Item) /\ <<"delta">> \in Seq(Item) /\ <<>> \in Seq(Item)
  BY DEF Item
<1>3. Opening \in Seq(Item) /\ Len(Opening) \in 1..2
  <2>1. CASE req.chat
    <3>1. Opening = <<"sse", "role">>
      BY <2>1 DEF Opening
    <3> QED
      BY <3>1 DEF Item
  <2>2. CASE ~req.chat
    <3>1. Opening = <<"sse">>
      BY <2>2 DEF Opening
    <3> QED
      BY <3>1 DEF Item
  <2> QED
    BY <2>1, <2>2
<1>4. Closing \in Seq(Item) /\ Len(Closing) \in 3..4
  <2>1. CASE req.usage
    <3>1. Closing = <<"finish", "usage", "done", "end">>
      BY <2>1 DEF Closing
    <3> QED
      BY <3>1 DEF Item
  <2>2. CASE ~req.usage
    <3>1. Closing = <<"finish", "done", "end">>
      BY <2>2 DEF Closing
    <3> QED
      BY <3>1 DEF Item
  <2> QED
    BY <2>1, <2>2
<1> QED
  BY <1>1, <1>2, <1>3, <1>4

\* A sequence that is not empty is its head and its tail.
LEMMA HeadAndTail ==
  ASSUME NEW S, NEW s \in Seq(S), s # <<>>
  PROVE  /\ Head(s) \in S /\ Tail(s) \in Seq(S) /\ Head(s) = s[1]
         /\ Len(s) \in Nat /\ Len(s) > 0 /\ Len(Tail(s)) = Len(s) - 1
         /\ \A i \in 1 .. Len(s) - 1 : Tail(s)[i] = s[i + 1]
         /\ Tail(s) = <<>> => Len(s) = 1
         /\ Len(s) = 1 => Tail(s) = <<>>
<1>1. Len(s) \in Nat /\ Len(s) > 0 /\ Head(s) = s[1] /\ s[1] \in S
  OBVIOUS
<1>2. /\ Tail(s) \in Seq(S) /\ Len(Tail(s)) = Len(s) - 1
      /\ \A i \in 1 .. Len(s) - 1 : Tail(s)[i] = s[i + 1]
  BY <1>1
<1>3. Tail(s) = <<>> <=> Len(Tail(s)) = 0
  BY <1>2, SMTT(30)
<1> QED
  BY <1>1, <1>2, <1>3

-----------------------------------------------------------------------------
(* A stop                                                                  *)

\* No step makes the thread take up work after a stop but what it was at.
LEMMA StopKept ==
  ASSUME TypeOK, ReadInv, StopInv, StopIsPrompt, [Next]_vars
  PROVE  StopInv' /\ StopIsPrompt'
<1>1. late \in [conns : Nat, tokens : Nat] /\ stop \in BOOLEAN
  BY DEF TypeOK
<1>2. then \notin {"open", "poll", "accept", "step"}
  BY DEF TypeOK
<1> USE DEF StopInv, StopIsPrompt
<1>3. CASE UNCHANGED <<pc, stop, late>>
  BY <1>3
<1>4. CASE Arrive \/ ClientActs \/ Terminated \/ Enter \/ UNCHANGED vars
  BY <1>3, <1>4 DEF Arrive, ClientActs, Terminated, Enter, vars
<1>5. CASE Signal
  BY <1>1, <1>5 DEF Signal
<1>6. CASE Open \/ SocketFails \/ PollStop \/ PollReady
  BY <1>1, <1>6 DEF Open, SocketFails, PollStop, PollReady
<1>7. CASE AcceptAborted \/ Close
  BY <1>1, <1>7 DEF AcceptAborted, Close, NextTurn
<1>8. CASE Accept
  BY <1>1, <1>8 DEF Accept
<1>9. CASE RecvHead
  BY <1>1, <1>9 DEF RecvHead, Parsed, Write, Silence
<1>10. CASE Drain \/ BodyRead \/ RecvBody
  BY <1>1, <1>10 DEF Drain, BodyRead, RecvBody, Write, Silence
<1>11. CASE Handle
  <2>1. pc' \notin {"open", "poll", "accept", "step"}
    BY <1>11, Handled DEF Write
  <2>2. UNCHANGED <<late, stop>>
    BY <1>11 DEF Handle
  <2> QED
    BY <1>1, <2>1, <2>2
<1>12. CASE LoopTop \/ Flush \/ Finish \/ GenerationFails
  BY <1>1, <1>12 DEF LoopTop, Flush, Finish, GenerationFails, Only, Goto, Write
<1>13. CASE Step
  BY <1>1, <1>13 DEF Step, Only, Goto, Write
<1>14. CASE WriteItem \/ WriteFails
  BY <1>1, <1>2, <1>14 DEF WriteItem, WriteFails
<1> QED
  BY <1>4, <1>5, <1>6, <1>7, <1>8, <1>9, <1>10, <1>11, <1>12, <1>13, <1>14
     DEF Next, Server
-----------------------------------------------------------------------------
(* Types                                                                   *)

LEMMA TypeKept ==
  ASSUME TypeOK, QueueInv, ReadInv, GenerateInv, WriteInv, [Next]_vars
  PROVE  TypeOK' /\ QueueInv'
<1> USE DEF TypeOK, QueueInv
<1>a. MaxConn \in Nat /\ MaxSignal \in Nat /\ MaxTokens \in Nat /\ HasPipe \in BOOLEAN
  BY BoundAssumption
<1>b. then \in {"close", "body", "generate", "flush", "finish"}
  OBVIOUS
<1>1. CASE Arrive
  BY <1>a, <1>1 DEF Arrive
<1>2. CASE Signal
  BY <1>a, <1>2 DEF Signal
<1>3. CASE ClientActs
  BY <1>3 DEF ClientActs
<1>4. CASE Enter \/ Terminated \/ UNCHANGED vars
  <2>1. CASE Enter
    BY <2>1 DEF Enter
  <2>2. CASE UNCHANGED vars
    BY <2>2 DEF vars
  <2> QED
    BY <1>4, <2>1, <2>2 DEF Terminated
<1>5. CASE Open \/ PollStop \/ PollReady
  <2>1. CASE Open
    BY <2>1 DEF Open
  <2>2. CASE PollStop \/ PollReady
    BY <2>2 DEF PollStop, PollReady, Return
  <2> QED
    BY <1>5, <2>1, <2>2
<1>6. CASE SocketFails
  BY <1>6 DEF SocketFails, Return
<1>7. CASE AcceptAborted
  BY <1>a, <1>7 DEF AcceptAborted, NextTurn
<1>8. CASE Accept
  <2>1. PICK q \in Request : req' = q /\ left' = q.head
    BY <1>8 DEF Accept
  <2>2. q.head \in Nat
    BY <2>1, Requests
  <2>3. late' \in [conns : Nat, tokens : Nat]
    BY <1>8 DEF Accept
  <2>4. queue' = queue - 1 /\ queue > 0
    BY <1>8 DEF Accept
  <2>5. /\ pc' = "head" /\ out' = <<>> /\ then' = "close" /\ wire' = <<>>
        /\ peer' = "quiet" /\ gone' = FALSE /\ tokens' = 0
        /\ UNCHANGED <<blocked, intr, world>>
    BY <1>8 DEF Accept
  <2>6. queue' \in 0 .. MaxConn /\ queue' <= arrived
    BY <1>a, <2>4
  <2>7. out' \in Seq(Item) /\ wire' \in Seq(Item)
    BY <2>5, Items
  <2>8. left' \in Nat /\ req' \in Request
    BY <2>1, <2>2
  <2>9. stop' \in BOOLEAN /\ pipe' \in BOOLEAN /\ signals' \in 0 .. MaxSignal
        /\ arrived' \in 0 .. MaxConn /\ arrived' = arrived
        /\ blocked' \in BOOLEAN /\ intr' \in BOOLEAN
    BY <2>5
  <2>10. tokens' \in 0 .. MaxTokens
    <3>1. tokens' = 0
      BY <2>5
    <3> QED
      BY <1>a, <3>1
  <2>11. gone' \in BOOLEAN
    BY <2>5
  <2> QED
    BY <2>3, <2>5, <2>6, <2>7, <2>8, <2>9, <2>10, <2>11
<1>9. CASE Close
  BY <1>9 DEF Close, NextTurn
<1>10. CASE RecvHead
  <2>1. pc = "head" /\ left \in Nat /\ UNCHANGED <<queue, late, world, req, wire, gone, tokens>>
    BY <1>10 DEF RecvHead
  <2>2. peer' = "quiet" /\ blocked' = FALSE /\ intr' = FALSE
    BY <1>10 DEF RecvHead, Return
  <2>3. pc' \in {"head", "write", "drain", "body", "close"} /\ left' \in Nat
    BY <1>10, <2>1, Requests DEF RecvHead, Parsed, Write, Silence
  <2>4. \/ UNCHANGED <<out, then>>
        \/ out' \in {Answer, <<"100">>} /\ then' \in {"close", "body"}
    BY <1>10 DEF RecvHead, Parsed, Write, Silence
  <2> QED
    BY <2>1, <2>2, <2>3, <2>4, Items, ZenonT(40)
<1>11. CASE Drain
  BY <1>11, Items, SMTT(40) DEF Drain, Write
<1>12. CASE BodyRead
  BY <1>12 DEF BodyRead
<1>13. CASE RecvBody
  <2>1. /\ pc = "body" /\ left \in Nat /\ UNCHANGED <<queue, late, world, req, wire, gone, tokens>>
        /\ peer' = "quiet" /\ blocked' = FALSE /\ intr' = FALSE
    BY <1>13 DEF RecvBody, Return
  <2>2. pc' \in {"body", "write", "close"} /\ left' \in Nat
    BY <1>13, <2>1 DEF RecvBody, Write, Silence
  <2>3. UNCHANGED <<out, then>> \/ (out' = Answer /\ then' = "close")
    BY <1>13 DEF RecvBody, Write, Silence
  <2> QED
    BY <2>1, <2>2, <2>3, Items
<1>14. CASE Handle
  <2>1. UNCHANGED <<blocked, intr, queue, late, world, req, peer, left, wire, gone, tokens>>
    BY <1>14 DEF Handle
  <2> QED
    BY <1>14, <2>1, Handled, Items DEF Write
<1>15. CASE LoopTop
  BY <1>15 DEF LoopTop, Only, Goto
<1>16. CASE Step
  <2>1. /\ pc = "step" /\ tokens < MaxTokens
        /\ UNCHANGED <<blocked, intr, queue, world, req, peer, left, wire, gone>>
    BY <1>16 DEF Step, Only, GenerateInv
  <2>2. tokens' \in 0 .. MaxTokens /\ late' \in [conns : Nat, tokens : Nat]
    BY <1>a, <1>16, <2>1, SMTT(30) DEF Step
  <2>3. \/ pc' \in {"generate", "flush", "finish"} /\ UNCHANGED <<out, then>>
        \/ pc' = "write" /\ out' = <<"delta">> /\ then' \in {"generate", "flush", "finish"}
    BY <1>16 DEF Step, Goto, Write
  <2> QED
    BY <2>1, <2>2, <2>3, Items, ZenonT(40)
<1>17. CASE Flush \/ Finish \/ GenerationFails
  BY <1>17, Items, ZenonT(40) DEF Flush, Finish, GenerationFails, Only, Goto, Write, Failing
<1>18. CASE WriteItem
  <2>1. /\ pc = "write" /\ out # <<>>
        /\ UNCHANGED <<blocked, intr, queue, late, world, req, peer, left, then, gone, tokens>>
    BY <1>18 DEF WriteItem, WriteInv
  <2>2. wire' = Append(wire, Head(out)) /\ out' = Tail(out) /\ pc' \in {then, pc}
    BY <1>18 DEF WriteItem
  <2>3. wire' \in Seq(Item) /\ out' \in Seq(Item)
    BY <2>1, <2>2, HeadAndTail
  <2> QED
    BY <2>1, <2>2, <2>3
<1>19. CASE WriteFails
  <2>1. /\ pc = "write" /\ out # <<>>
        /\ UNCHANGED <<blocked, intr, queue, late, world, req, peer, left, tokens>>
    BY <1>19 DEF WriteFails, WriteInv
  <2>2. /\ wire' \in {wire, Append(wire, "cut")} /\ gone' = TRUE
        /\ out' \in {<<>>, Tail(out)} /\ pc' \in {"close", pc} /\ then' = then
    BY <1>19 DEF WriteFails
  <2>3. wire' \in Seq(Item)
    BY <2>2, SMTT(30) DEF Item
  <2>4. out' \in Seq(Item)
    <3>1. Tail(out) \in Seq(Item)
      BY <2>1, HeadAndTail
    <3> QED
      BY <2>2, <3>1, Items
  <2> QED
    BY <2>1, <2>2, <2>3, <2>4
<1> QED
  BY <1>1, <1>2, <1>3, <1>4, <1>5, <1>6, <1>7, <1>8, <1>9, <1>10, <1>11, <1>12, <1>13,
     <1>14, <1>15, <1>16, <1>17, <1>18, <1>19 DEF Next, Server
-----------------------------------------------------------------------------
(* Answers                                                                 *)

AnswerInv == ReadInv /\ GenerateInv /\ WriteInv /\ AnsweredOnce

LEMMA DeltasIs ==
  ASSUME NEW n \in Nat
  PROVE  /\ Deltas(n) \in Seq(Item) /\ Len(Deltas(n)) = n
         /\ Deltas(n) \o <<"delta">> = Deltas(n + 1)
<1>1. ASSUME NEW m \in Nat
      PROVE  /\ Deltas(m) \in Seq(Item) /\ Len(Deltas(m)) = m
             /\ \A i \in 1 .. m : Deltas(m)[i] = "delta"
  <2>1. Deltas(m) \in [1 .. m -> Item]
    BY DEF Deltas, Item
  <2> QED
    BY <2>1, FunctionIsSeq DEF Deltas
<1>2. <<"delta">> \in Seq(Item) /\ Len(<<"delta">>) = 1 /\ <<"delta">>[1] = "delta"
  BY DEF Item
<1>3. \A i \in 1 .. n : Deltas(n)[i] = Deltas(n + 1)[i]
  BY <1>1
<1>4. \A i \in 1 .. 1 : <<"delta">>[i] = Deltas(n + 1)[n + i]
  BY <1>1, <1>2
<1>5. /\ Deltas(n) \in Seq(Item) /\ Len(Deltas(n)) = n
      /\ Deltas(n + 1) \in Seq(Item) /\ Len(Deltas(n + 1)) = n + 1
  BY <1>1
<1> QED
  BY <1>2, <1>3, <1>4, <1>5, ConcatIs

\* What a sequence of items is once it is the beginning of a stream.
LEMMA StreamGrows ==
  ASSUME NEW r \in Seq(Item), Streamed(r)
  PROVE  /\ Streamed(r \o <<"delta">>)
         /\ Streaming => Complete(r \o Closing) /\ Complete(r \o Failing)
<1>1. PICK n \in 0 .. Len(r) : r = Opening \o Deltas(n)
  BY DEF Streamed
<1>2. /\ Opening \in Seq(Item) /\ Closing \in Seq(Item) /\ Failing \in Seq(Item)
      /\ <<"delta">> \in Seq(Item) /\ n \in Nat
  BY Items
<1>3. Deltas(n) \in Seq(Item) /\ Deltas(n) \o <<"delta">> = Deltas(n + 1)
  BY <1>2, DeltasIs
<1>4. r \o <<"delta">> = Opening \o Deltas(n + 1)
  <2>1. (Opening \o Deltas(n)) \o <<"delta">> = Opening \o (Deltas(n) \o <<"delta">>)
    BY <1>2, <1>3
  <2> QED
    BY <1>1, <1>3, <2>1
<1>5. /\ Len(r \o <<"delta">>) = Len(r) + 1
      /\ Len(r \o Closing) >= Len(r) /\ Len(r \o Failing) >= Len(r)
      /\ Len(r) \in Nat
  BY <1>2
<1>6. Streamed(r \o <<"delta">>)
  <2>1. n + 1 \in 0 .. Len(r \o <<"delta">>)
    BY <1>5
  <2> QED
    BY <1>4, <2>1 DEF Streamed
<1>7. ASSUME Streaming, NEW end \in {Closing, Failing}
      PROVE  Complete(r \o end)
  <2>1. r \o end = Opening \o Deltas(n) \o end
    BY <1>1
  <2>2. n \in 0 .. Len(r \o end)
    BY <1>2, <1>5, <1>7
  <2> QED
    BY <1>7, <2>1, <2>2 DEF Complete
<1> QED
  BY <1>6, <1>7

LEMMA OpeningStreams == Streamed(Opening)
<1>1. Opening \in Seq(Item) /\ Deltas(0) \in Seq(Item) /\ Len(Deltas(0)) = 0
  BY Items, DeltasIs
<1>2. Deltas(0) = <<>>
  BY <1>1
<1>3. Opening \o <<>> = Opening
  BY <1>1
<1> QED
  BY <1>1, <1>2, <1>3 DEF Streamed

\* An item that is written goes from what is due to what was sent.
LEMMA Written ==
  ASSUME NEW w \in Seq(Item), NEW o \in Seq(Item), o # <<>>, o[1] # "100"
  PROVE  /\ Proper(w) \in Seq(Item)
         /\ Proper(Append(w, Head(o))) \o Tail(o) = Proper(w) \o o
<1> DEFINE x == Head(o)
<1>1. x \in Item /\ x # "100" /\ Tail(o) \in Seq(Item)
  BY HeadAndTail
<1>2. o = <<x>> \o Tail(o)
  <2>1. <<x>> \in Seq(Item) /\ Len(<<x>>) = 1 /\ <<x>>[1] = o[1]
    BY <1>1, HeadAndTail
  <2>2. Len(o) = 1 + Len(Tail(o)) /\ \A i \in 1 .. Len(Tail(o)) : Tail(o)[i] = o[1 + i]
    BY HeadAndTail
  <2> QED
    BY <1>1, <2>1, <2>2, ConcatIs
<1>3. Proper(w) \in Seq(Item)
  BY HeadAndTail DEF Proper
<1>4. Proper(Append(w, x)) = Proper(w) \o <<x>>
  <2> HIDE DEF x
  <2>1. CASE w = <<>>
    <3>1. Append(w, x) = <<x>> /\ <<x>> # <<>> /\ Head(<<x>>) = x
      BY <1>1, <2>1
    <3>2. Proper(w) \o <<x>> = <<x>>
      BY <1>1, <2>1 DEF Proper
    <3> QED
      BY <1>1, <3>1, <3>2 DEF Proper
  <2>2. CASE w # <<>>
    <3>1. Append(w, x) # <<>> /\ Head(Append(w, x)) = Head(w)
      BY <1>1, <2>2
    <3>2. Append(w, x) = w \o <<x>>
      BY <1>1
    <3>3. Tail(Append(w, x)) = Tail(w) \o <<x>>
      BY <1>1, <2>2
    <3> QED
      BY <2>2, <3>1, <3>2, <3>3 DEF Proper
  <2> QED
    BY <2>1, <2>2
<1> HIDE DEF x
<1>5. (Proper(w) \o <<x>>) \o Tail(o) = Proper(w) \o (<<x>> \o Tail(o))
  BY <1>1, <1>3
<1> QED
  BY <1>2, <1>3, <1>4, <1>5 DEF x
\* What the thread plans to write ends with an item whose write is checked,
\* and only what closes a stream has items whose write is not.
LEMMA Plans ==
  /\ \A o \in {Answer, Opening, Closing, Failing, <<"delta">>} :
       /\ o \in Seq(Item) /\ o # <<>> /\ o[Len(o)] \notin Unchecked
       /\ \A i \in 1 .. Len(o) : o[i] # "100"
  /\ \A o \in {Opening, <<"delta">>, <<"100">>} : \A i \in 1 .. Len(o) : o[i] \notin Unchecked
<1> DEFINE Plan(o) == /\ o \in Seq(Item) /\ o # <<>> /\ o[Len(o)] \notin Unchecked
                      /\ \A i \in 1 .. Len(o) : o[i] # "100"
<1>1. Plan(Answer)
  BY Items DEF Answer, Unchecked
<1>2. Plan(Failing)
  BY Items DEF Failing, Unchecked
<1>3. Plan(<<"delta">>)
  BY Items DEF Unchecked
<1>4. Plan(Opening) /\ \A i \in 1 .. Len(Opening) : Opening[i] \notin Unchecked
  <2>1. Opening = <<"sse", "role">> \/ Opening = <<"sse">>
    BY DEF Opening
  <2> QED
    BY <2>1, Items DEF Unchecked
<1>5. Plan(Closing)
  <2>1. CASE Closing = <<"finish", "usage", "done", "end">>
    BY <2>1, Items DEF Unchecked
  <2>2. CASE Closing = <<"finish", "done", "end">>
    BY <2>2, Items DEF Unchecked
  <2> QED
    BY <2>1, <2>2 DEF Closing
<1>6. \A o \in {<<"delta">>, <<"100">>} : \A i \in 1 .. Len(o) : o[i] \notin Unchecked
  BY DEF Unchecked
<1> QED
  BY <1>1, <1>2, <1>3, <1>4, <1>5, <1>6

\* What depends on the request only.
LEMMA SameRequest ==
  ASSUME UNCHANGED req
  PROVE  UNCHANGED <<Opening, Closing>> /\ (Streaming' <=> Streaming)
BY DEF Opening, Closing, Streaming

\* A step that leaves the connection alone.
LEMMA AnswerUnchanged ==
  ASSUME AnswerInv, UNCHANGED <<req, left, out, then, wire, gone, tokens>>,
         UNCHANGED pc \/ pc' \in {"poll", "accept", "stopped", "failed"}
  PROVE  AnswerInv'
<1>1. UNCHANGED <<Reply, Due>>
  BY DEF Reply, Due, Proper
<1>2. (Streamed(Reply)' <=> Streamed(Reply)) /\ (Streamed(Due)' <=> Streamed(Due))
  BY <1>1, SameRequest DEF Streamed
<1>3. (Complete(Reply)' <=> Complete(Reply)) /\ (Complete(Due)' <=> Complete(Due))
  BY <1>1, SameRequest DEF Complete
<1>4. CASE UNCHANGED pc
  BY <1>1, <1>2, <1>3, <1>4, SameRequest
     DEF AnswerInv, ReadInv, GenerateInv, WriteInv, AnsweredOnce
<1>5. CASE pc' \in {"poll", "accept", "stopped", "failed"}
  BY <1>5 DEF AnswerInv, ReadInv, GenerateInv, WriteInv, AnsweredOnce
<1> QED
  BY <1>4, <1>5

\* A step that plans to write the rest of an answer after what was sent.
LEMMA AnswerPlanned ==
  ASSUME TypeOK, UNCHANGED <<req, wire, gone>>, NEW o \in {Answer, Closing, Failing},
         Write(o, "close"), Complete(Reply \o o)
  PROVE  AnswerInv'
<1>1. UNCHANGED Reply /\ out' = o /\ pc' = "write" /\ then' = "close"
  BY DEF Reply, Proper, Write
<1>2. Due' = Reply \o o
  BY <1>1 DEF Due
<1>3. Complete(Due)'
  BY <1>2, SameRequest DEF Complete
<1>4. /\ o # <<>> /\ o[Len(o)] \notin Unchecked
      /\ \A i \in 1 .. Len(o) : o[i] # "100"
  BY Plans
<1> QED
  BY <1>1, <1>3, <1>4 DEF AnswerInv, ReadInv, GenerateInv, WriteInv, AnsweredOnce, Unchecked
\* A whole answer planned where nothing was sent yet, or at the end of a stream.
LEMMA AnswerFromNothing ==
  ASSUME TypeOK, UNCHANGED <<req, wire, gone>>, Reply = <<>>, Write(Answer, "close")
  PROVE  AnswerInv'
<1>1. Reply \o Answer = Answer
  BY Items
<1>2. Complete(Reply \o Answer)
  BY <1>1 DEF Complete
<1> QED
  BY <1>2, AnswerPlanned

LEMMA StreamEnds ==
  ASSUME TypeOK, UNCHANGED <<req, wire, gone>>, Streaming, Streamed(Reply),
         NEW o \in {Closing, Failing}, Write(o, "close")
  PROVE  AnswerInv'
<1>1. Reply \in Seq(Item)
  BY HeadAndTail DEF TypeOK, Reply, Proper
<1>2. Complete(Reply \o o)
  BY <1>1, StreamGrows
<1> QED
  BY <1>2, AnswerPlanned

\* A stream that goes on.
LEMMA StreamPlanned ==
  ASSUME TypeOK, UNCHANGED <<req, wire, gone>>, ~gone, Streaming,
         NEW o \in {Opening, <<"delta">>}, Streamed(Reply \o o),
         NEW c \in {"generate", "flush", "finish"}, Write(o, c)
  PROVE  AnswerInv'
<1>1. UNCHANGED Reply /\ out' = o /\ pc' = "write" /\ then' = c
  BY DEF Reply, Proper, Write
<1>2. Due' = Reply \o o
  BY <1>1 DEF Due
<1>3. Streamed(Due)' /\ Streaming'
  BY <1>2, SameRequest DEF Streamed
<1>4. /\ o # <<>> /\ o[Len(o)] \notin Unchecked
      /\ \A i \in 1 .. Len(o) : o[i] # "100" /\ o[i] \notin Unchecked
  BY Plans
<1> QED
  BY <1>1, <1>3, <1>4 DEF AnswerInv, ReadInv, GenerateInv, WriteInv, AnsweredOnce

-----------------------------------------------------------------------------
(* One lemma for the steps of each place                                   *)

LEMMA ReadSteps ==
  ASSUME TypeOK, AnswerInv,
         Accept \/ RecvHead \/ Drain \/ BodyRead \/ RecvBody
  PROVE  AnswerInv'
<1> USE DEF AnswerInv, ReadInv
<1>0. Proper(<<>>) = <<>>
  BY DEF Proper
<1>1. CASE Accept
  <2>1. PICK q \in Request : req' = q /\ left' = q.head
    BY <1>1 DEF Accept
  <2>2. left' > 0 /\ pc' = "head" /\ wire' = <<>> /\ ~gone'
    BY <1>1, <2>1, Requests DEF Accept
  <2> QED
    BY <2>2 DEF GenerateInv, WriteInv, AnsweredOnce
<1>2. CASE RecvHead
  <2>1. /\ pc = "head" /\ wire = <<>> /\ left > 0 /\ left \in Nat
        /\ UNCHANGED <<req, wire, gone, tokens>> /\ Reply = <<>> /\ ~gone
    BY <1>0, <1>2 DEF RecvHead, Reply, TypeOK
  <2>2. CASE peer = "data" /\ left > 1 /\ left' = left - 1 /\ UNCHANGED <<pc, out, then>>
    BY <2>1, <2>2 DEF GenerateInv, WriteInv, AnsweredOnce
  <2>3. CASE Silence /\ UNCHANGED left
    BY <1>0, <2>1, <2>3 DEF Silence, GenerateInv, WriteInv, AnsweredOnce, Reply
  <2>4. CASE Write(Answer, "close")
    BY <2>1, <2>4, AnswerFromNothing
  <2>5. CASE req.kind = "toolarge" /\ pc' = "drain"
    BY <2>1, <2>5 DEF GenerateInv, WriteInv, AnsweredOnce
  <2>6. CASE req.kind \notin {"malformed", "toolarge"} /\ pc' = "body"
    BY <1>0, <2>1, <2>6 DEF GenerateInv, WriteInv, AnsweredOnce, Reply
  <2>7. CASE req.kind \notin {"malformed", "toolarge"} /\ Write(<<"100">>, "body")
    <3>1. out' # <<>> /\ Len(out') = 1 /\ out'[1] = "100" /\ "100" \notin Unchecked
      BY <2>7 DEF Write, Unchecked
    <3>2. ~gone'
      BY <2>1
    <3> QED
      BY <2>1, <2>7, <3>1, <3>2 DEF Write, GenerateInv, WriteInv, AnsweredOnce
  <2> QED
    BY <1>2, <2>2, <2>3, <2>4, <2>5, <2>6, <2>7 DEF RecvHead, Parsed
<1>3. CASE Drain
  <2>1. UNCHANGED <<req, wire, gone>> /\ wire = <<>> /\ Reply = <<>>
    BY <1>0, <1>3 DEF Drain, Reply
  <2>2. CASE Write(Answer, "close")
    BY <2>1, <2>2, AnswerFromNothing
  <2>3. CASE UNCHANGED <<pc, out, then>>
    BY <1>3, <2>1, <2>3 DEF Drain, GenerateInv, WriteInv, AnsweredOnce
  <2> QED
    BY <1>3, <2>2, <2>3 DEF Drain
<1>4. CASE BodyRead
  <2>1. /\ pc = "body" /\ pc' = "handle"
        /\ UNCHANGED <<req, wire, gone>> /\ UNCHANGED Reply
    BY <1>4 DEF BodyRead, Reply, Proper
  <2> QED
    BY <2>1 DEF GenerateInv, WriteInv, AnsweredOnce
<1>5. CASE RecvBody
  <2>1. /\ pc = "body" /\ left > 0 /\ UNCHANGED <<req, wire, gone>>
        /\ Reply = <<>> /\ UNCHANGED Reply
    BY <1>5 DEF RecvBody, Reply, Proper
  <2>2. CASE Write(Answer, "close")
    BY <2>1, <2>2, AnswerFromNothing
  <2>3. CASE Silence /\ UNCHANGED left
    BY <2>1, <2>3 DEF Silence, GenerateInv, WriteInv, AnsweredOnce
  <2>4. CASE UNCHANGED <<pc, out, then>>
    BY <2>1, <2>4 DEF GenerateInv, WriteInv, AnsweredOnce
  <2> QED
    BY <1>5, <2>2, <2>3, <2>4 DEF RecvBody
<1> QED
  BY <1>1, <1>2, <1>3, <1>4, <1>5

LEMMA HandleSteps ==
  ASSUME TypeOK, AnswerInv, Handle
  PROVE  AnswerInv'
<1> USE DEF AnswerInv
<1>1. /\ pc = "handle" /\ Reply = <<>> /\ ~gone
      /\ UNCHANGED <<req, wire, gone, tokens, left>>
  BY Handled DEF ReadInv
<1>2. UNCHANGED Reply
  BY <1>1 DEF Reply, Proper
<1>3. CASE Write(Answer, "close")
  BY <1>1, <1>3, AnswerFromNothing
<1>4. CASE req.kind = "complete" /\ pc' = "generate"
  BY <1>1, <1>2, <1>4, SameRequest
     DEF ReadInv, GenerateInv, WriteInv, AnsweredOnce, Streaming
<1>5. CASE req.kind = "stream" /\ Write(Opening, "generate")
  <2>1. Reply \o Opening = Opening
    BY <1>1, Items
  <2>2. Streaming /\ Streamed(Reply \o Opening)
    BY <1>5, <2>1, OpeningStreams DEF Streaming
  <2> QED
    BY <1>1, <1>5, <2>2, StreamPlanned
<1> QED
  BY <1>3, <1>4, <1>5, Handled

\* The steps of a generation: what is written of a stream continues it.
LEMMA GenerateSteps ==
  ASSUME TypeOK, AnswerInv,
         LoopTop \/ Step \/ Flush \/ Finish \/ GenerationFails
  PROVE  AnswerInv'
<1> USE DEF AnswerInv
<1>1. /\ pc \in {"generate", "step", "flush", "finish"}
      /\ UNCHANGED <<req, wire, gone, left>>
  BY DEF LoopTop, Step, Flush, Finish, GenerationFails, Only
<1>2. /\ ~gone /\ req.kind \in {"complete", "stream"}
      /\ Streaming => Streamed(Reply)
      /\ ~Streaming => Reply = <<>>
  BY <1>1 DEF GenerateInv
<1>3. Reply \in Seq(Item)
  BY HeadAndTail DEF TypeOK, Reply, Proper
<1>4. UNCHANGED Reply /\ (Streamed(Reply)' <=> Streamed(Reply))
  BY <1>1, SameRequest DEF Streamed, Reply, Proper
<1>5. ASSUME pc' \in {"generate", "step", "flush", "finish"},
             pc' = "step" => tokens' < MaxTokens
      PROVE  AnswerInv'
  BY <1>1, <1>2, <1>4, <1>5, SameRequest
     DEF ReadInv, GenerateInv, WriteInv, AnsweredOnce
<1>6. ASSUME Streaming, NEW c \in {"generate", "flush", "finish"},
             Write(<<"delta">>, c)
      PROVE  AnswerInv'
  BY <1>1, <1>2, <1>3, <1>6, StreamGrows, StreamPlanned
<1>7. ASSUME NEW o \in {Closing, Failing},
             Write(IF Streaming THEN o ELSE Answer, "close")
      PROVE  AnswerInv'
  BY <1>1, <1>2, <1>7, StreamEnds, AnswerFromNothing
<1>8. CASE LoopTop
  <2>1. tokens # MaxTokens => tokens < MaxTokens
    BY BoundAssumption DEF TypeOK
  <2> QED
    BY <1>5, <1>8, <2>1 DEF LoopTop, Goto
<1>9. CASE Step
  BY <1>5, <1>6, <1>9 DEF Step, Goto
<1>10. CASE Flush
  BY <1>5, <1>6, <1>10 DEF Flush, Goto
<1>11. CASE Finish
  BY <1>7, <1>11 DEF Finish
<1>12. CASE GenerationFails
  BY <1>7, <1>12 DEF GenerationFails, Failing
<1> QED
  BY <1>8, <1>9, <1>10, <1>11, <1>12

\* What is left of a plan once its first item is written or has failed.
LEMMA RestOfPlan ==
  ASSUME NEW o \in Seq(Item), o # <<>>, Tail(o) # <<>>
  PROVE  /\ Tail(o)[Len(Tail(o))] = o[Len(o)]
         /\ \A i \in 1 .. Len(Tail(o)) : \E j \in 1 .. Len(o) : Tail(o)[i] = o[j]
<1>1. /\ Len(o) \in Nat /\ Len(o) > 0 /\ Len(Tail(o)) = Len(o) - 1
      /\ \A i \in 1 .. Len(o) - 1 : Tail(o)[i] = o[i + 1]
      /\ Len(o) # 1
  BY HeadAndTail
<1>2. Len(o) - 1 \in 1 .. Len(o) - 1
  BY <1>1
<1>3. Tail(o)[Len(Tail(o))] = o[Len(o)]
  BY <1>1, <1>2
<1>4. ASSUME NEW i \in 1 .. Len(Tail(o))
      PROVE  \E j \in 1 .. Len(o) : Tail(o)[i] = o[j]
  <2>1. i + 1 \in 1 .. Len(o) /\ Tail(o)[i] = o[i + 1]
    BY <1>1
  <2> QED
    BY <2>1
<1> QED
  BY <1>3, <1>4

LEMMA WriteSteps ==
  ASSUME TypeOK, AnswerInv, WriteItem
  PROVE  AnswerInv'
<1> USE DEF AnswerInv
<1>1. /\ pc = "write" /\ wire' = Append(wire, Head(out)) /\ out' = Tail(out)
      /\ pc' = IF Tail(out) = <<>> THEN then ELSE "write"
      /\ UNCHANGED <<req, left, then, gone, tokens>>
  BY DEF WriteItem
<1>2. /\ out \in Seq(Item) /\ wire \in Seq(Item) /\ out # <<>>
      /\ out[Len(out)] \notin Unchecked
      /\ then # "close" => ~gone /\ \A i \in 1 .. Len(out) : out[i] \notin Unchecked
  BY <1>1 DEF TypeOK, WriteInv
<1>3. /\ Head(out) = out[1] /\ Len(out) \in Nat /\ 1 \in 1 .. Len(out)
      /\ Tail(out) \in Seq(Item) /\ (Len(out) = 1 => Tail(out) = <<>>)
  BY <1>2, HeadAndTail
<1>4. CASE gone
  <2>1. then = "close" /\ gone'
    BY <1>1, <1>2, <1>4
  <2>2. CASE Tail(out) = <<>>
    BY <1>1, <2>1, <2>2 DEF ReadInv, GenerateInv, WriteInv, AnsweredOnce
  <2>3. CASE Tail(out) # <<>>
    <3>1. out'[Len(out')] \notin Unchecked
      BY <1>1, <1>2, <2>3, RestOfPlan
    <3> QED
      BY <1>1, <2>1, <2>3, <3>1 DEF ReadInv, GenerateInv, WriteInv, AnsweredOnce
  <2> QED
    BY <2>2, <2>3
<1>5. CASE ~gone /\ then = "body"
  <2>1. wire = <<>> /\ out = <<"100">> /\ req.kind \notin {"malformed", "toolarge"}
    BY <1>1, <1>5 DEF WriteInv
  <2>2. wire' = <<"100">> /\ out' = <<>> /\ pc' = "body"
    BY <1>1, <1>5, <2>1
  <2>3. Reply' = <<>>
    BY <2>2 DEF Reply, Proper
  <2> QED
    BY <1>1, <1>5, <2>1, <2>2, <2>3 DEF ReadInv, GenerateInv, WriteInv, AnsweredOnce
<1>6. CASE ~gone /\ then # "body"
  <2>1. /\ \A i \in 1 .. Len(out) : out[i] # "100"
        /\ IF then = "close" THEN Complete(Due) ELSE Streaming /\ Streamed(Due)
    BY <1>1, <1>6 DEF WriteInv
  <2>2. out[1] # "100"
    BY <1>3, <2>1
  <2>3. Due' = Due /\ Reply' \in Seq(Item)
    <3>1. wire' \in Seq(Item) /\ Reply \in Seq(Item)
      BY <1>1, <1>2, <1>3, HeadAndTail DEF Reply, Proper
    <3>2. Reply' \in Seq(Item)
      BY <3>1, HeadAndTail DEF Reply, Proper
    <3> QED
      BY <1>1, <1>2, <2>2, <3>2, Written DEF Due, Reply
  <2>4. IF then = "close" THEN Complete(Due)' ELSE Streaming' /\ Streamed(Due)'
    BY <1>1, <2>1, <2>3, SameRequest DEF Complete, Streamed
  <2>5. CASE Tail(out) = <<>>
    <3>1. Due' = Reply' /\ pc' = then
      <4>1. Due' = Reply' \o <<>>
        BY <1>1, <2>5 DEF Due
      <4>2. Reply' \o <<>> = Reply'
        BY <2>3
      <4> QED
        BY <1>1, <2>5, <4>1, <4>2
    <3>2. IF then = "close" THEN Complete(Reply)' ELSE Streaming' /\ Streamed(Reply)'
      BY <2>4, <3>1 DEF Complete, Streamed
    <3>3. then \in {"close", "generate", "flush", "finish"}
      BY <1>6 DEF TypeOK
    <3>4. Streaming' => req'.kind \in {"complete", "stream"}
      BY DEF Streaming
    <3> QED
      BY <1>1, <1>6, <3>1, <3>2, <3>3, <3>4
         DEF ReadInv, GenerateInv, WriteInv, AnsweredOnce
  <2>6. CASE Tail(out) # <<>>
    <3>1. /\ out' # <<>> /\ out'[Len(out')] \notin Unchecked
          /\ \A i \in 1 .. Len(out') : out'[i] # "100"
          /\ then' # "close" => \A i \in 1 .. Len(out') : out'[i] \notin Unchecked
      BY <1>1, <1>2, <2>1, <2>6, RestOfPlan
    <3> QED
      BY <1>1, <1>6, <2>4, <2>6, <3>1 DEF ReadInv, GenerateInv, WriteInv, AnsweredOnce
  <2> QED
    BY <2>5, <2>6
<1> QED
  BY <1>4, <1>5, <1>6

LEMMA FailedSteps ==
  ASSUME TypeOK, AnswerInv, WriteFails
  PROVE  AnswerInv'
<1> USE DEF AnswerInv
<1>1. pc = "write" /\ gone' /\ UNCHANGED <<req, left, then, tokens>>
  BY DEF WriteFails
<1>2. /\ out \in Seq(Item) /\ out # <<>> /\ out[Len(out)] \notin Unchecked
      /\ then # "close" => \A i \in 1 .. Len(out) : out[i] \notin Unchecked
  BY <1>1 DEF TypeOK, WriteInv
<1>3. /\ Head(out) = out[1] /\ Len(out) \in Nat /\ 1 \in 1 .. Len(out)
      /\ (Tail(out) = <<>> => Len(out) = 1)
  BY <1>2, HeadAndTail
<1>4. CASE Head(out) \in Unchecked
  <2>1. out' = Tail(out) /\ pc' = "write"
    BY <1>1, <1>4 DEF WriteFails
  <2>2. then = "close" /\ Tail(out) # <<>>
    BY <1>2, <1>3, <1>4
  <2>3. out'[Len(out')] \notin Unchecked
    BY <1>2, <2>1, <2>2, RestOfPlan
  <2> QED
    BY <1>1, <2>1, <2>2, <2>3 DEF ReadInv, GenerateInv, WriteInv, AnsweredOnce
<1>5. CASE Head(out) \notin Unchecked
  <2>1. pc' = "close"
    BY <1>5 DEF WriteFails
  <2> QED
    BY <1>1, <2>1 DEF ReadInv, GenerateInv, WriteInv, AnsweredOnce
<1> QED
  BY <1>4, <1>5

-----------------------------------------------------------------------------
(* The specification                                                       *)

LEMMA AnswerKept ==
  ASSUME TypeOK, AnswerInv, [Next]_vars
  PROVE  AnswerInv'
<1> DEFINE Connection == UNCHANGED <<req, left, out, then, wire, gone, tokens>>
<1>1. CASE Arrive \/ Signal \/ ClientActs \/ Enter \/ UNCHANGED vars
  <2>1. Connection /\ UNCHANGED pc
    BY <1>1 DEF Arrive, Signal, ClientActs, Enter, vars
  <2> QED
    BY <2>1, AnswerUnchanged
<1>2. CASE Open \/ PollStop \/ PollReady \/ SocketFails \/ AcceptAborted \/ Close
  <2>1. Connection
    BY <1>2 DEF Open, PollStop, PollReady, SocketFails, AcceptAborted, Close
  <2>2. pc' \in {"poll", "accept", "stopped", "failed"}
    BY <1>2 DEF Open, PollStop, PollReady, SocketFails, AcceptAborted, Close, NextTurn
  <2> QED
    BY <2>1, <2>2, AnswerUnchanged
<1>3. CASE Accept \/ RecvHead \/ Drain \/ BodyRead \/ RecvBody
  BY <1>3, ReadSteps
<1>4. CASE Handle
  BY <1>4, HandleSteps
<1>5. CASE LoopTop \/ Step \/ Flush \/ Finish \/ GenerationFails
  BY <1>5, GenerateSteps
<1>6. CASE WriteItem
  BY <1>6, WriteSteps
<1>7. CASE WriteFails
  BY <1>7, FailedSteps
<1> QED
  BY <1>1, <1>2, <1>3, <1>4, <1>5, <1>6, <1>7 DEF Next, Server, Terminated

\* The server starts with nothing served.
LEMMA InitHolds == ASSUME Init PROVE ServeInv
<1>1. TypeOK
  <2>1. 0 \in 0 .. MaxConn /\ 0 \in 0 .. MaxSignal /\ 0 \in 0 .. MaxTokens
    BY BoundAssumption
  <2>2. <<>> \in Seq(Item)
    OBVIOUS
  <2>3. out \in Seq(Item) /\ wire \in Seq(Item)
    BY <2>2 DEF Init
  <2>4. /\ signals \in 0 .. MaxSignal /\ tokens \in 0 .. MaxTokens
        /\ arrived \in 0 .. MaxConn /\ queue \in 0 .. MaxConn
    BY <2>1 DEF Init
  <2> QED
    BY <2>3, <2>4 DEF Init, TypeOK
<1>2. AnswerInv
  BY DEF Init, AnswerInv, ReadInv, GenerateInv, WriteInv, AnsweredOnce
<1>3. QueueInv /\ StopInv /\ StopIsPrompt
  BY DEF Init, QueueInv, StopInv, StopIsPrompt
<1> QED
  BY <1>1, <1>2, <1>3 DEF ServeInv, AnswerInv

\* Every step keeps it.
LEMMA StepHolds == ASSUME ServeInv, [Next]_vars PROVE ServeInv'
<1>1. TypeOK /\ QueueInv /\ AnswerInv /\ StopInv /\ StopIsPrompt
  BY DEF ServeInv, AnswerInv
<1>2. TypeOK' /\ QueueInv'
  BY <1>1, TypeKept DEF AnswerInv
<1>3. AnswerInv'
  BY <1>1, AnswerKept
<1>4. StopInv' /\ StopIsPrompt'
  BY <1>1, StopKept DEF AnswerInv
<1> QED
  BY <1>2, <1>3, <1>4 DEF ServeInv, AnswerInv

\* Wherever the thread stands, what the client was sent and what is about to be
\* written make up one answer to its request.
THEOREM InvHolds == Spec => []ServeInv
<1>1. Init => ServeInv
  BY InitHolds
<1>2. ServeInv /\ [Next]_vars => ServeInv'
  BY StepHolds
<1> QED
  BY <1>1, <1>2, PTL DEF Spec

\* Every variable keeps its type; a connection is accepted only when one waits.
THEOREM TypeCorrect == Spec => [](TypeOK /\ QueueInv)
<1>1. ServeInv => TypeOK /\ QueueInv
  BY DEF ServeInv
<1> QED
  BY <1>1, InvHolds, PTL

\* A client that took what it was sent has one complete answer when its
\* connection is closed (SocketResponder, HttpServer::handle_connection).
THEOREM OneAnswer == Spec => []AnsweredOnce
<1>1. ServeInv => AnsweredOnce
  BY DEF ServeInv
<1> QED
  BY <1>1, InvHolds, PTL

\* After a stop at most one connection is accepted and one token generated
\* (HttpServer::serve, Engine::generate).
THEOREM StopsPromptly == Spec => []StopIsPrompt
<1>1. ServeInv => StopIsPrompt
  BY DEF ServeInv
<1> QED
  BY <1>1, InvHolds, PTL

\* No token is generated for a client that a write has shown to be gone
\* (SocketResponder::write_all, Engine::generate).
THEOREM NobodyIsServed == Spec => NothingForNobody
<1>1. ASSUME ServeInv, [Next]_vars, gone, gone'
      PROVE  tokens' = tokens
  <2>1. pc # "step"
    BY <1>1 DEF ServeInv, GenerateInv
  <2>2. CASE Arrive \/ Signal \/ ClientActs \/ Enter \/ UNCHANGED vars
    BY <2>2 DEF Arrive, Signal, ClientActs, Enter, vars
  <2>3. CASE Open \/ PollStop \/ PollReady \/ SocketFails \/ AcceptAborted \/ Close
    BY <2>3 DEF Open, PollStop, PollReady, SocketFails, AcceptAborted, Close
  <2>4. CASE Accept
    BY <1>1, <2>4 DEF Accept
  <2>5. CASE RecvHead \/ Drain \/ BodyRead \/ RecvBody \/ WriteItem \/ WriteFails
    BY <2>5 DEF RecvHead, Drain, BodyRead, RecvBody, WriteItem, WriteFails
  <2>6. CASE Handle
    BY <2>6 DEF Handle
  <2>7. CASE LoopTop \/ Step \/ Flush \/ Finish
    BY <2>1, <2>7 DEF LoopTop, Step, Flush, Finish, Only
  <2>8. CASE GenerationFails
    BY <2>8 DEF GenerationFails
  <2> QED
    BY <1>1, <2>2, <2>3, <2>4, <2>5, <2>6, <2>7, <2>8 DEF Next, Server, Terminated
<1>2. ServeInv /\ ServeInv' /\ [Next]_vars => [gone /\ gone' => tokens' = tokens]_vars
  BY <1>1
<1> QED
  BY <1>2, InvHolds, PTL DEF Spec, NothingForNobody
=============================================================================
