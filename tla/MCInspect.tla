----------------------------- MODULE MCInspect -----------------------------
(* TLC instance of Inspect: two pages of two units and room for a third;    *)
(* pages that are sound, torn on disk (7, 8) or have a bad trailer (9); and *)
(* files of no page and of half a page more than one.                       *)
EXTENDS Inspect

MCInitialFile ==
  {<<a, b, c, c>> : a \in {0, 7}, b \in {0, 8, 9}, c \in {0, 9}}
  \cup {<<9, 9>>, <<0>>, <<0, 0, 0>>}
=============================================================================
