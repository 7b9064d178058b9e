---------------------------- MODULE MCHttpServer ----------------------------
(* HttpServer with one request of every kind that is treated differently. *)
EXTENDS HttpServerProps

Plain(kind, head, body, expect) ==
  [kind |-> kind, head |-> head, body |-> body, expect |-> expect,
   chat |-> FALSE, usage |-> FALSE]
Stream(chat, usage) ==
  [kind |-> "stream", head |-> 1, body |-> 1, expect |-> FALSE,
   chat |-> chat, usage |-> usage]

MCRequest ==
  {Plain("malformed", 2, 0, FALSE), Plain("toolarge", 1, 1, FALSE),
   Plain("fixed", 1, 0, FALSE), Plain("mute", 1, 0, FALSE),
   Plain("complete", 2, 2, TRUE), Stream(TRUE, TRUE), Stream(FALSE, FALSE)}
=============================================================================
