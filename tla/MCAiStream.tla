------------------------------ MODULE MCAiStream ------------------------------
(***************************************************************************)
(* Instances of AiStream for TLC.  "same" is a chunk the prompt starts     *)
(* with that is too short for an echo, "echo" is the whole prompt, "tail"  *)
(* is what an echo may add to it.                                          *)
(***************************************************************************)
EXTENDS AiStream, TLC

CONSTANTS s1, s2

PromptOpenings == {<<"same">>, <<"echo">>}
PromptEchoes == {<<"echo">>, <<"echo", "tail">>}

Answers ==
  [perplexity |-> {<<"a", "b">>, <<"same">>, <<"echo">>, <<"echo", "tail">>, <<>>},
   mistral |-> {<<"a", "b">>, <<>>}]
=============================================================================
