------------------------------ MODULE MCSearch ------------------------------
(* Instances of SearchHistory for TLC: letters, texts and patterns. *)
EXTENDS SearchHistory

MCTexts == {<<"a", "a", "b", "a">>}
MCUnreadables == {{}, {1}}
MCPatterns == {<<"a">>, <<"a", "b">>, <<"a", "a">>, <<"a", Any, "a">>}
MCReplacements == {<<>>, <<"b">>, <<"b", "a", "b">>}
MCRanges == {<<1, 4>>}
MCTyped == {"a"}
=============================================================================
