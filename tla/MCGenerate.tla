----------------------------- MODULE MCGenerate -----------------------------
(* Generate with a vocabulary whose pieces cut characters and stop strings. *)
EXTENDS GenerateProps

MCToken ==
  {"x", "xy", "y", "lead2", "lead3", "lead4", "cont", "special", "eog"}
MCEog == {"eog"}
MCPiece ==
  [t \in MCToken |->
     CASE t = "x" -> <<"x">>
       [] t = "xy" -> <<"x", "y">>
       [] t = "y" -> <<"y">>
       [] t = "lead2" -> <<"l2">>
       [] t = "lead3" -> <<"y", "l3", "c">>
       [] t = "lead4" -> <<"l4", "c">>
       [] t = "cont" -> <<"c">>
       [] OTHER -> <<>>]

Stops == {{}, {<<"y">>}, {<<"x", "y", "x">>, <<"y", "y">>},
          {<<"l2", "c", "x">>}, {<<"c">>}}

Ask(prompt, max, stops, ignoreEos, greedy) ==
  [prompt |-> prompt, max |-> max, stops |-> stops, ignoreEos |-> ignoreEos,
   greedy |-> greedy]

MCRequest ==
  {Ask(<<"x">>, max, stops, FALSE, greedy) :
     max \in {-1, 2}, stops \in Stops, greedy \in BOOLEAN}
  \cup {Ask(<<"x", "x">>, 9, {<<"y">>}, TRUE, TRUE),
        Ask(<<"x", "y", "x", "y", "x">>, 1, {}, FALSE, FALSE)}

MCLeftBehind == {<<>>, <<"y">>}
=============================================================================
