------------------------------ MODULE MCTrunk ------------------------------
(* Trunk with two layers, two tokens and one that is not in the vocabulary. *)
EXTENDS TrunkProps

MCId == {"a", "b", "unknown"}
MCVocab == {"a", "b"}
MCInputs ==
  {<<>>, <<"a">>, <<"b", "a">>, <<"b", "b", "a">>, <<"a", "unknown">>,
   <<"a", "b", "a", "a">>}
=============================================================================
