----------------------------- MODULE HttpServer -----------------------------
(***************************************************************************)
(* The blocking HTTP server (src/server/http.cpp) with the handlers of     *)
(* src/server/serve.hip: one thread that polls, accepts, reads one request,*)
(* answers it and closes, while signals and clients act at any moment.     *)
(*                                                                         *)
(* What is written to a connection is a sequence of items: "100" (the      *)
(* interim 100 Continue), "head" and "body" of a plain answer, "sse" (the  *)
(* head of a stream) and the stream's chunks.  "cut" is an item of which   *)
(* only some bytes were written.                                           *)
(***************************************************************************)
EXTENDS Naturals, Sequences

CONSTANTS
  Request,    \* the requests a client may send
  HasPipe,    \* pipe() succeeded in install_signal_handlers
  MaxConn,    \* bound on connections
  MaxSignal,  \* bound on signals and request_stop() calls
  MaxTokens   \* max_tokens of a completion

Kind == {"malformed", "toolarge", "fixed", "mute", "complete", "stream"}

\* head and body are the recv calls it takes to read them; expect is
\* Expect: 100-continue; chat and usage shape a stream.
ASSUME RequestAssumption ==
  Request \subseteq [kind : Kind, head : Nat \ {0}, body : Nat,
                     expect : BOOLEAN, chat : BOOLEAN, usage : BOOLEAN]
ASSUME BoundAssumption ==
  HasPipe \in BOOLEAN /\ {MaxConn, MaxSignal, MaxTokens} \subseteq Nat

VARIABLES
  pc,        \* where the server thread stands
  blocked,   \* it is inside poll() or recv()
  intr,      \* a signal has interrupted that call
  stop,      \* g_stop
  pipe,      \* the stop pipe is readable
  signals,   \* signals so far
  arrived,   \* connections so far
  queue,     \* connections in the listen backlog
  req,       \* the request of the connection being served
  peer,      \* what the client has done that recv() has not seen yet
  left,      \* recv calls until the part being read is complete
  out,       \* items the server is about to write
  then,      \* where it goes on afterwards
  wire,      \* items written to this connection
  gone,      \* a write failed (SocketResponder::gone_, or the interim's)
  tokens,    \* tokens generated for this request
  late       \* connections accepted and tokens generated since the stop

conn == <<req, peer, left, out, then, wire, gone, tokens>>
world == <<stop, pipe, signals, arrived>>
vars == <<pc, blocked, intr, queue, late, world, conn>>

Init ==
  /\ pc = "open" /\ blocked = FALSE /\ intr = FALSE
  /\ stop = FALSE /\ pipe = FALSE /\ signals = 0
  /\ arrived = 0 /\ queue = 0
  /\ req \in Request /\ left = 0 /\ out = <<>> /\ then = "close"
  /\ peer = "quiet" /\ wire = <<>> /\ gone = FALSE /\ tokens = 0
  /\ late = [conns |-> 0, tokens |-> 0]

-----------------------------------------------------------------------------
(* The world outside                                                       *)

Arrive ==
  /\ arrived < MaxConn /\ pc \notin {"open", "stopped", "failed"}
  /\ arrived' = arrived + 1 /\ queue' = queue + 1
  /\ UNCHANGED <<pc, blocked, intr, stop, pipe, signals, late, conn>>

\* Variant: the handler does not write to the pipe.
SignalFlagOnly ==
  /\ signals < MaxSignal
  /\ signals' = signals + 1 /\ stop' = TRUE
  /\ intr' \in {intr, blocked}
  /\ UNCHANGED <<pc, blocked, pipe, arrived, queue, late, conn>>

\* SIGINT or SIGTERM, which interrupts a blocked call of this thread, or
\* request_stop() from another thread, which does not.
Signal ==
  /\ signals < MaxSignal
  /\ signals' = signals + 1 /\ stop' = TRUE
  /\ pipe' = HasPipe
  /\ intr' \in {intr, blocked}
  /\ UNCHANGED <<pc, blocked, arrived, queue, late, conn>>

\* The client sends some more, closes its side, or the connection breaks.
ClientActs ==
  /\ pc \in {"head", "body"} /\ left > 0 /\ peer = "quiet"
  /\ peer' \in {"data", "closed", "broken"}
  /\ UNCHANGED <<pc, blocked, intr, queue, late, world, req, left, out, then,
                 wire, gone, tokens>>

-----------------------------------------------------------------------------
(* The accept loop                                                         *)

\* open(): the handlers are installed before the socket is bound; a stop that
\* comes in between is found by the first poll().
Open ==
  /\ pc = "open"
  /\ pc' \in {"poll", "failed"}
  /\ UNCHANGED <<blocked, intr, queue, late, world, conn>>

\* The thread enters poll() or recv().  A signal before this point only sets
\* the flag and fills the pipe.
Enter ==
  /\ pc \in {"poll", "head", "body"} /\ ~blocked
  /\ blocked' = TRUE
  /\ UNCHANGED <<pc, intr, queue, late, world, conn>>

Return == blocked /\ blocked' = FALSE /\ intr' = FALSE

PollStop ==
  /\ pc = "poll" /\ Return
  /\ pipe \/ (intr /\ stop)
  /\ pc' = "stopped"
  /\ UNCHANGED <<queue, late, world, conn>>

PollReady ==
  /\ pc = "poll" /\ Return
  /\ ~pipe /\ queue > 0
  /\ pc' = "accept"
  /\ UNCHANGED <<queue, late, world, conn>>

\* poll() or accept() fails for good: serve() returns false.
SocketFails ==
  /\ \/ pc = "poll" /\ Return
     \/ pc = "accept" /\ UNCHANGED <<blocked, intr>>
  /\ pc' = "failed"
  /\ UNCHANGED <<queue, late, world, conn>>

NextTurn == IF stop THEN "stopped" ELSE "poll"

AcceptAborted ==
  /\ pc = "accept"
  /\ queue' = queue - 1
  /\ pc' = NextTurn
  /\ UNCHANGED <<blocked, intr, late, world, conn>>

Accept ==
  /\ pc = "accept"
  /\ queue' = queue - 1
  /\ \E r \in Request : req' = r /\ left' = r.head
  /\ out' = <<>> /\ then' = "close" /\ wire' = <<>>
  /\ peer' = "quiet" /\ gone' = FALSE /\ tokens' = 0
  /\ late' = IF stop THEN [late EXCEPT !.conns = @ + 1] ELSE late
  /\ pc' = "head"
  /\ UNCHANGED <<blocked, intr, world>>

Close ==
  /\ pc = "close"
  /\ pc' = NextTurn
  /\ UNCHANGED <<blocked, intr, queue, late, world, conn>>

-----------------------------------------------------------------------------
(* read_request                                                            *)

\* The thread starts to write the items o and goes on at c.
Write(o, c) == pc' = "write" /\ out' = o /\ then' = c

Answer == <<"head", "body">>
Silence == pc' = "close" /\ UNCHANGED <<out, then>>

\* What follows once the head is complete.
Parsed ==
  CASE req.kind = "malformed" -> Write(Answer, "close") /\ left' = 0
    [] req.kind = "toolarge"  -> /\ pc' = "drain" /\ left' = req.body
                                 /\ UNCHANGED <<out, then>>
    [] OTHER -> /\ left' = req.body
                /\ IF req.expect THEN Write(<<"100">>, "body")
                   ELSE pc' = "body" /\ UNCHANGED <<out, then>>

\* recv() returns because of what the client did, because a signal came in
\* while it waited, or because SO_RCVTIMEO is over.
RecvHead ==
  /\ pc = "head" /\ Return
  /\ \/ peer = "data" /\ left > 1 /\ left' = left - 1
        /\ UNCHANGED <<pc, out, then>>
     \/ peer = "data" /\ left = 1 /\ Parsed
     \/ /\ \/ peer = "broken"
           \/ intr /\ stop
           \/ peer = "closed" /\ left = req.head
        /\ Silence /\ UNCHANGED left
     \/ peer = "closed" /\ left < req.head           \* 400
        /\ Write(Answer, "close") /\ UNCHANGED left
     \/ peer = "quiet" /\ ~intr                      \* 408
        /\ Write(Answer, "close") /\ UNCHANGED left
  /\ peer' = "quiet"
  /\ UNCHANGED <<queue, late, world, req, wire, gone, tokens>>

\* A refused body is read for a moment, so that the answer is not lost.
Drain ==
  /\ pc = "drain"
  /\ \/ left > 0 /\ left' = left - 1 /\ UNCHANGED <<pc, out, then>>
     \/ UNCHANGED left /\ Write(Answer, "close")
  /\ UNCHANGED <<blocked, intr, queue, late, world, req, peer, wire, gone,
                 tokens>>

BodyRead ==
  /\ pc = "body" /\ left = 0
  /\ pc' = "handle"
  /\ blocked' = FALSE /\ intr' = FALSE
  /\ UNCHANGED <<queue, late, world, conn>>

\* Variant: recv() has no timeout.
RecvBodyNoTimeout ==
  /\ pc = "body" /\ left > 0 /\ Return
  /\ \/ peer = "data" /\ left' = left - 1 /\ UNCHANGED <<pc, out, then>>
     \/ intr /\ stop /\ Silence /\ UNCHANGED left
     \/ peer \in {"closed", "broken"} /\ Write(Answer, "close") /\ UNCHANGED left
  /\ peer' = "quiet"
  /\ UNCHANGED <<queue, late, world, req, wire, gone, tokens>>

RecvBody ==
  /\ pc = "body" /\ left > 0 /\ Return
  /\ \/ peer = "data" /\ left' = left - 1 /\ UNCHANGED <<pc, out, then>>
     \/ intr /\ stop /\ Silence /\ UNCHANGED left
     \/ peer # "data" /\ Write(Answer, "close") /\ UNCHANGED left  \* 408, 400
  /\ peer' = "quiet"
  /\ UNCHANGED <<queue, late, world, req, wire, gone, tokens>>

-----------------------------------------------------------------------------
(* The handlers                                                            *)

\* A handler that writes nothing ("mute") is answered with a 500.
Handle ==
  /\ pc = "handle"
  /\ CASE req.kind \in {"fixed", "mute"} -> Write(Answer, "close")
       [] req.kind = "complete" -> pc' = "generate" /\ UNCHANGED <<out, then>>
       [] req.kind = "stream"   ->
            Write(IF req.chat THEN <<"sse", "role">> ELSE <<"sse">>, "generate")
  /\ UNCHANGED <<blocked, intr, queue, late, world, req, peer, left, wire, gone,
                 tokens>>

Streaming == req.kind = "stream"

\* A step that leaves everything of the connection but the plan alone.
Only(p) == /\ pc = p
           /\ UNCHANGED <<blocked, intr, queue, world, req, peer, left, wire,
                          gone>>
Goto(p) == pc' = p /\ UNCHANGED <<out, then>>

\* Variant: the loop does not ask for a stop.
LoopTopDeaf ==
  /\ Only("generate") /\ UNCHANGED <<late, tokens>>
  /\ Goto(IF tokens = MaxTokens THEN "flush" ELSE "step")

\* Variant: one token more than asked for.
LoopTopOneMore ==
  /\ Only("generate") /\ UNCHANGED <<late, tokens>>
  /\ Goto(IF stop \/ tokens > MaxTokens THEN "flush" ELSE "step")

\* The top of the generation loop.
LoopTop ==
  /\ Only("generate") /\ UNCHANGED <<late, tokens>>
  /\ Goto(IF stop \/ tokens = MaxTokens THEN "flush" ELSE "step")

\* One token: end of generation, or text of which some may be streamed, and
\* then the loop goes on, ends with the context, or ends at a stop string,
\* after which nothing is left to flush.
Step ==
  /\ Only("step")
  /\ \/ Goto("flush") /\ UNCHANGED <<late, tokens>>
     \/ /\ tokens' = tokens + 1
        /\ late' = IF stop THEN [late EXCEPT !.tokens = @ + 1] ELSE late
        /\ \E next \in {"generate", "flush", "finish"} :
             Goto(next) \/ (Streaming /\ Write(<<"delta">>, next))

\* The text still held back.
Flush ==
  /\ Only("flush") /\ UNCHANGED <<late, tokens>>
  /\ Goto("finish") \/ (Streaming /\ Write(<<"delta">>, "finish"))

Closing == IF req.usage THEN <<"finish", "usage", "done", "end">>
                        ELSE <<"finish", "done", "end">>

Finish ==
  /\ Only("finish") /\ UNCHANGED <<late, tokens>>
  /\ Write(IF Streaming THEN Closing ELSE Answer, "close")

\* Variant: a failed stream is dropped without its terminator.
GenerationFailsDropped ==
  /\ Only("generate") \/ Only("step")
  /\ UNCHANGED <<late, tokens>>
  /\ Write(IF Streaming THEN <<"error">> ELSE Answer, "close")

\* The prefill or the forward of the last token fails (before the top of the
\* loop), or the sampler does: an error event in a stream, else a 500.
GenerationFails ==
  /\ Only("generate") \/ Only("step")
  /\ UNCHANGED <<late, tokens>>
  /\ Write(IF Streaming THEN <<"error", "done", "end">> ELSE Answer, "close")

-----------------------------------------------------------------------------
(* SocketResponder                                                         *)

WriteItem ==
  /\ pc = "write"
  /\ wire' = Append(wire, Head(out))
  /\ out' = Tail(out)
  /\ pc' = IF out' = <<>> THEN then ELSE pc
  /\ UNCHANGED <<blocked, intr, queue, late, world, req, peer, left, then, gone,
                 tokens>>

\* The chunks that end a stream are written one after the other, whatever
\* became of the one before; every other failed write ends the request.
Unchecked == {"finish", "usage", "error", "done"}

\* Variant: the handler keeps generating for a client that is gone.
WriteFailsIgnored ==
  /\ pc = "write"
  /\ wire' \in {wire, Append(wire, "cut")}
  /\ gone' = TRUE
  /\ out' = Tail(out)
  /\ pc' = IF out' = <<>> THEN then ELSE pc
  /\ UNCHANGED <<blocked, intr, queue, late, world, req, peer, left, then, tokens>>

\* The write times out, the client has gone, or a stop interrupts it.
WriteFails ==
  /\ pc = "write"
  /\ wire' \in {wire, Append(wire, "cut")}
  /\ gone' = TRUE
  /\ IF Head(out) \in Unchecked
     THEN out' = Tail(out) /\ UNCHANGED <<pc, then>>
     ELSE out' = <<>> /\ pc' = "close" /\ UNCHANGED then
  /\ UNCHANGED <<blocked, intr, queue, late, world, req, peer, left, tokens>>

-----------------------------------------------------------------------------

Terminated == pc \in {"stopped", "failed"} /\ UNCHANGED vars

\* What the server thread does.
Server ==
  \/ Open \/ Enter \/ PollStop \/ PollReady
  \/ AcceptAborted \/ Accept \/ Close
  \/ RecvHead \/ Drain \/ BodyRead \/ RecvBody
  \/ Handle \/ LoopTop \/ Step \/ Flush \/ Finish \/ GenerationFails
  \/ WriteItem \/ WriteFails

Next == Server \/ SocketFails \/ Arrive \/ Signal \/ ClientActs \/ Terminated

Spec == Init /\ [][Next]_vars

\* Every call of the server thread returns: recv and send have timeouts, poll
\* returns when a connection or the pipe is ready.
FairSpec == Spec /\ WF_vars(Server)
=============================================================================
