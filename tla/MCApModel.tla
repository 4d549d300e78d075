----------------------------- MODULE MCApModel -----------------------------
(* TLC instance of ApModel: bytes of eight values, blocks of four pages,    *)
(* pages of one sector of three bytes and a last one of two.  Of the nine   *)
(* pages, in three blocks, six vary: two of the first block, which may      *)
(* differ, the three of the second that are sampled, which are alike, and   *)
(* the one of the third; the others are dense and do not calibrate.  A      *)
(* caller may hold images newer than the store, of a page that varies and   *)
(* of the page after the last.                                              *)
EXTENDS ApModel

Page(type, bv, by, first, last) ==
  [type |-> type, bv |-> bv, step |-> by,
   plain |-> [si \in Sector |-> IF si + 1 = SECTORS THEN last ELSE first]]

Dense == Page("E", 5, 3, <<1, 7, 2>>, <<3, 1>>)

Varied ==
  {Page("C", 0, 1, <<0, 0, 0>>, <<0, 0>>),
   Page("M", 3, 6, <<0, 0, 0>>, <<0, 0>>),
   Page("H", 0, 2, <<0, 5, 0>>, <<0, 0>>),
   Page("@", 3, 1, <<4, 4, 4>>, <<0, 1>>),
   Page("c", 6, 7, <<0, 0, 0>>, <<0, 0>>)}

MCStore ==
  {<<p0, Dense, p2, Dense, p4, p4, p4, Dense, p8>> :
     p0 \in Varied, p2 \in Varied, p4 \in Varied, p8 \in Varied}

MCNewer ==
  [pn : {2, 9}, raw : {Page("M", 2, 5, <<0, 0, 0>>, <<0, 0>>),
                       Page("c", 6, 7, <<0, 0, 0>>, <<0, 0>>),
                       Page("E", 2, 5, <<0, 0, 0>>, <<0, 0>>)}]

MCPeaks == [Step -> 1..SECTOR]
=============================================================================
