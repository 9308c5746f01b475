----------------------------- MODULE MCConsole -----------------------------
(* A screen of three rows of four cells: the prompt and a line of six take *)
(* two rows, so that typing wraps, scrolls, and is erased over the wrap.   *)
EXTENDS Console

MCGlyphs == {"a", "b"}
MCPrompt == <<"$">>
MCBanner == <<"a">>
MCReplies == {<<>>, <<<<"a">>>>, <<<<"a", "b", "a", "b">>, <<"b">>>>}
=============================================================================
