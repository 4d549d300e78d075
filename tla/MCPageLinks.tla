---------------------------- MODULE MCPageLinks ----------------------------
(* TLC instance of PageLinks: a store of four pages, one page number past   *)
(* its end, pages with up to two candidate blocks.                          *)
EXTENDS PageLinks

MCPageNumber == 0..PageCount

(* For each page: no block, a link to each page number, a block without a  *)
(* link, and blocks that come after a near miss or after another page's.   *)
Link(page, raw) == [number |-> page, shaped |-> TRUE, flag |-> 1, raw |-> raw]

MCContents ==
  {<<>>}
  \cup {<<Link(p, raw)>> : p \in MCPageNumber, raw \in MCPageNumber}
  \cup {<<[Link(p, 2) EXCEPT !.flag = 2], Link(p, 1)>> : p \in MCPageNumber}
  \cup {<<[Link(p, 2) EXCEPT !.shaped = FALSE], Link(p, 3)>> : p \in MCPageNumber}
  \cup {<<Link(p, 2), Link(p + 1, 3)>> : p \in 0..(PageCount - 1)}
=============================================================================
