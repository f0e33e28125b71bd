------------------------------- MODULE MCShell -------------------------------
(* The shell's parser on every line of up to MaxText characters, and its     *)
(* processes on a few of them, with a second line after each.                *)
EXTENDS Shell

CONSTANT MaxText

Char == {"a"} \cup Whitespace \cup Symbols
MCText == UNION {[1 .. n -> Char] : n \in 0 .. MaxText}

\* a  a|a|a  &;||  a|a&  (a;a)|a  a<a|a>>a  a&;a  (a|a)>a  (a|)<a>a  a)  cd a
MCLine ==
    <<{<<"a">>,
       <<"a", "|", "a", "|", "a">>,
       <<"&", ";", "|", "|">>,
       <<"a", "|", "a", "&">>,
       <<"(", "a", ";", "a", ")", "|", "a">>,
       <<"a", "<", "a", "|", "a", ">", ">", "a">>,
       <<"a", "&", ";", "a">>,
       <<"(", "a", "|", "a", ")", ">", "a">>,
       <<"(", "a", "|", ")", "<", "a", ">", "a">>,
       <<"a", ")">>,
       <<"c", "d", " ", "a">>},
      {<<"a">>}>>
=============================================================================
