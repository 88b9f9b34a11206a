---------------------------- MODULE MCFwUpdate ------------------------------
(***************************************************************************)
(* Instances of FwUpdate for TLC: words of three bytes, pages of one word, *)
(* a slot of two pages.                                                    *)
(***************************************************************************)
EXTENDS FwUpdate

(* One image that fills a word exactly, one with a tail, one whose tail    *)
(* looks erased, and one whose vector table is implausible.                *)
MCImages == {<<1, 1, 1>>, <<1, 1, 1, 1>>, <<1, 1, 1, 0>>, <<0, 1, 1>>}
MCPlausible == {s \in MCImages : s[1] = 1}

WholeChunks == {<<1>>, <<1, 1, 1>>, <<0>>, <<0, 1, 1>>}
ShortChunks == {<<1>>, <<1, 1>>}
=============================================================================
