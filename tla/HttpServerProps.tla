--------------------------- MODULE HttpServerProps ---------------------------
(* What the server owes its clients, and when it stops. *)
EXTENDS HttpServer

Item == {"100", "head", "body", "sse", "role", "delta", "finish", "usage",
         "error", "done", "end", "cut"}

TypeOK ==
  /\ pc \in {"open", "poll", "accept", "head", "drain", "body", "handle",
             "generate", "step", "flush", "finish", "write", "close", "stopped", "failed"}
  /\ blocked \in BOOLEAN /\ intr \in BOOLEAN /\ stop \in BOOLEAN
  /\ pipe \in BOOLEAN /\ signals \in 0 .. MaxSignal
  /\ arrived \in 0 .. MaxConn /\ queue \in 0 .. MaxConn
  /\ req \in Request /\ left \in Nat
  /\ peer \in {"quiet", "data", "closed", "broken"}
  /\ out \in Seq(Item)
  /\ then \in {"close", "body", "generate", "flush", "finish"}
  /\ wire \in Seq(Item) /\ gone \in BOOLEAN /\ tokens \in 0 .. MaxTokens
  /\ late \in [conns : Nat, tokens : Nat]

\* The answer proper: what follows an interim 100 Continue.
Proper(w) == IF w # <<>> /\ Head(w) = "100" THEN Tail(w) ELSE w
Reply == Proper(wire)

Opening == IF req.chat THEN <<"sse", "role">> ELSE <<"sse">>
Deltas(n) == [i \in 1 .. n |-> "delta"]
Failing == <<"error", "done", "end">>

\* A stream so far, and a whole answer.
Streamed(r) == \E n \in 0 .. Len(r) : r = Opening \o Deltas(n)
Complete(r) ==
  \/ r = Answer
  \/ /\ Streaming
     /\ \E n \in 0 .. Len(r), end \in {Closing, Failing} : r = Opening \o Deltas(n) \o end

\* "Writes exactly one response" (server.h:50): a client whose request was
\* read and that took everything it was sent has, when its connection is
\* closed, exactly one complete answer; a stream has its opening, its deltas,
\* its last chunk or the error, and both terminators, however the generation
\* ended.  A request that was not read is answered once or not at all.
AnsweredOnce ==
  pc = "close" /\ ~gone => Complete(Reply) \/ (Reply = <<>> /\ left > 0)

\* After a stop at most the connection that poll() had already announced is
\* accepted, and the running generation makes at most the token it was at
\* (http.cpp:632, 649; serve.hip:560).
StopIsPrompt == late.conns <= 1 /\ late.tokens <= 1

\* "the generation loop in serve.hip aborts on it instead of burning GPU time
\* for nobody" (server.h:20).
NothingForNobody == [][gone /\ gone' => tokens' = tokens]_vars

\* serve() returns "when stop_requested() becomes true" (server.h:115),
\* whatever the server is doing and whatever its client does.
Shutdown == stop ~> pc \in {"stopped", "failed"}

\* "a slow or vanished client must not hang the server" (server.h:17).
NeverHangs == pc = "head" ~> pc = "close"

\* "Writes exactly one response" (server.h:50): what follows a chunk of which
\* only a part was written is no longer part of any, since the client takes it
\* for the rest of that chunk.  After a failed write nothing is written:
\* "Either way the client is not reading" (http.cpp:228).
NothingAfterCut == \A i \in 1 .. Len(wire) : wire[i] = "cut" => i = Len(wire)

-----------------------------------------------------------------------------
(* Why they hold: the invariant that every step preserves                  *)

\* What has been written and what is about to be, of the answer.
Due == Reply \o out

ReadInv ==
  /\ pc \in {"head", "drain", "body", "handle"} => ~gone
  /\ pc = "head" => wire = <<>> /\ left > 0
  /\ pc = "drain" => wire = <<>>
  /\ pc \in {"body", "handle"} =>
       Reply = <<>> /\ req.kind \notin {"malformed", "toolarge"}

GenerateInv ==
  pc \in {"generate", "step", "flush", "finish"} =>
    /\ ~gone /\ req.kind \in {"complete", "stream"}
    /\ IF Streaming THEN Streamed(Reply) ELSE Reply = <<>>
    /\ pc = "step" => tokens < MaxTokens

WriteInv ==
  pc = "write" =>
    /\ out # <<>> /\ out[Len(out)] \notin Unchecked
    /\ then # "close" => ~gone /\ \A i \in 1 .. Len(out) : out[i] \notin Unchecked
    /\ ~gone =>
         IF then = "body"
         THEN /\ wire = <<>> /\ out = <<"100">>
              /\ req.kind \notin {"malformed", "toolarge"}
         ELSE /\ \A i \in 1 .. Len(out) : out[i] # "100"
              /\ IF then = "close" THEN Complete(Due) ELSE Streaming /\ Streamed(Due)

\* What was done since a stop was done before the thread could know of it.
StopInv ==
  /\ ~stop => late = [conns |-> 0, tokens |-> 0]
  /\ pc \in {"open", "poll", "accept"} => late.conns = 0
  /\ pc = "step" => late.tokens = 0

QueueInv == queue <= arrived /\ (pc = "accept" => queue > 0)

\* At each place of the thread: what the client has been sent is the beginning
\* of one answer, whose rest is what is about to be written.
ServeInv ==
  /\ TypeOK
  /\ QueueInv /\ ReadInv /\ GenerateInv /\ WriteInv
  /\ AnsweredOnce /\ StopInv /\ StopIsPrompt
=============================================================================
