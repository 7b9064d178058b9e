---------------------------- MODULE MCSpecDecode ----------------------------
(***************************************************************************)
(* SpecDecode on small instances: three tokens, of which 2 ends the        *)
(* generation, and models whose first choice depends on every token of the *)
(* text before it.                                                         *)
(***************************************************************************)
EXTENDS SpecDecodeProps

\* A model is a table indexed by a checksum of the text.
MCGreedy(m, s) == m[(FoldSeq(LAMBDA t, sum : 2 * sum + t + 1, 0, s)) % 5]

\* Every first choice is possible; end of generation comes early, late, never.
MCModel == {[i \in 0 .. 4 |-> IF i = a THEN 2 ELSE (i + b) % 2] :
              a \in {0, 2, 4, 5}, b \in {0, 1}}

MCPrompt == {<<0>>, <<0, 1>>, <<1, 1, 0>>, <<1, 0, 0, 1, 1>>}
=============================================================================
