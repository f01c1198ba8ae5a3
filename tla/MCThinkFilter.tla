--------------------------- MODULE MCThinkFilter ---------------------------
(***************************************************************************)
(* Instances of ThinkFilter for TLC: tags with the overlaps of <think> and *)
(* </think> (a common first character, no other repetition) and all the    *)
(* answers made of up to MaxTokens pieces.                                 *)
(***************************************************************************)
EXTENDS ThinkFilter

CONSTANT MaxTokens

ShortOpen  == <<"<", "t", ">">>
ShortClose == <<"<", "/", "t", ">">>

Letters == {"<", "/", "t", ">", "a", "b"}

\* whole tags, pieces of tags and ordinary characters
Tokens == {ShortOpen, ShortClose, <<"a">>, <<"b">>, <<"<">>, <<"<", "t">>}

Answers == UNION {{FlattenSeq(f) : f \in [1 .. n -> Tokens]} : n \in 0 .. MaxTokens}
=============================================================================
