---------------------------- MODULE GreedyDecode ----------------------------
(***************************************************************************)
(* Plain greedy decoding, the promise every decode loop of the engine is   *)
(* held to: one token at a time, each the model's first choice after the   *)
(* prompt and everything emitted so far, until the model chooses an        *)
(* end-of-generation token, the token budget is used up, or a device call  *)
(* fails.  It keeps no caches, no drafts and no positions.                 *)
(*                                                                         *)
(* It is the loop of mtp_generate with mtp == nullptr (mtp_gen.h:228-251)  *)
(* seen from outside.                                                      *)
(***************************************************************************)
EXTENDS Naturals, Sequences

CONSTANTS
  Token,        \* the vocabulary
  Eog,          \* the end-of-generation tokens (Tokenizer::is_eog)
  Model,        \* the loaded weights
  Greedy(_, _)  \* Greedy(m, s): first choice of model m after the tokens s

VARIABLES
  task,    \* [model, prompt, limit]: what was asked for
  out,     \* the tokens emitted so far
  status   \* "running", "eos", "limit" or "failed"

dvars == <<task, out, status>>

-----------------------------------------------------------------------------

DInit ==
  /\ task \in [model : Model, prompt : Seq(Token), limit : Nat]
  /\ out = <<>>
  /\ status = "running"

Choice == Greedy(task.model, task.prompt \o out)

Emit ==
  /\ status = "running"
  /\ Len(out) < task.limit
  /\ Choice \notin Eog
  /\ out' = Append(out, Choice)
  /\ UNCHANGED <<task, status>>

StopAtEog ==
  /\ status = "running"
  /\ Len(out) < task.limit
  /\ Choice \in Eog
  /\ status' = "eos"
  /\ UNCHANGED <<task, out>>

StopAtLimit ==
  /\ status = "running"
  /\ Len(out) = task.limit
  /\ status' = "limit"
  /\ UNCHANGED <<task, out>>

Abort ==
  /\ status = "running"
  /\ status' = "failed"
  /\ UNCHANGED <<task, out>>

DNext == Emit \/ StopAtEog \/ StopAtLimit \/ Abort

DSpec == DInit /\ [][DNext]_dvars

=============================================================================
