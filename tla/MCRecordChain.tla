--------------------------- MODULE MCRecordChain ---------------------------
(* TLC instance of RecordChain: pages of 24 bytes with a directory at       *)
(* offset 2 and up to two records.  The first page is sound; the second has *)
(* directory entries and length words around every bound.  A third key has  *)
(* no page, and no page has a record 2.                                     *)
EXTENDS RecordChain

T(key, id) == [resolver_key |-> key, record_id |-> id]

MCPageOf(entries, words, continued, next) ==
  LET at(f, default) == [i \in 0..24 |-> IF i \in DOMAIN f THEN f[i] ELSE default]
  IN  [len |-> 24, type |-> 4, record_count |-> Len(entries),
       entry |-> [id \in 0..(Len(entries) - 1) |-> entries[id + 1]],
       word |-> at(words, 2),
       continued |-> at(continued, FALSE), next |-> at(next, T("k1", 0))]

Records(w6, w15) == [i \in {6, 15} |-> IF i = 6 THEN w6 ELSE w15]

(* the records at offsets 6 and 15: absent, plain or continued *)
MCSound ==
  {MCPageOf(<<4, 13>>, Records(9, w), Records(TRUE, c), Records(t1, t2)) :
     w \in {3, 9}, c \in BOOLEAN, t1 \in {T("k2", 0), T("k2", 1)},
     t2 \in {T("k1", 0), T("k2", 0), T("k3", 0)}}

MCLinked ==
  {MCPageOf(e, Records(w6, 9), Records(TRUE, TRUE), Records(t1, t2)) :
     e \in {<<4, 13>>, <<4, 4>>}, w6 \in {2, 3, 8, 9},
     t1 \in {T("k1", 1), T("k2", 1)}, t2 \in {T("k1", 1), T("k2", 0), T("k2", 2)}}

MCMisfit ==
  {MCPageOf(e, [i \in {6, 15, 22} |->
                  CASE i = 6 -> w6 [] i = 15 -> w15 [] OTHER -> 2],
            Records(c, FALSE), Records(T("k1", 1), T("k1", 1))) :
     e \in UNION {[1..n -> {0, 3, 4, 13, 20, 21, 22, 23}] : n \in 0..2},
     w6 \in {1, 3, 9, 18, 19}, w15 \in {1, 3, 9, 10}, c \in BOOLEAN}

MCOdd ==
  LET sound == MCPageOf(<<4, 13>>, Records(3, 3), Records(FALSE, FALSE),
                        Records(T("k1", 1), T("k1", 1)))
      long == MCPageOf([i \in 1..12 |-> 0], Records(3, 3), Records(FALSE, FALSE),
                       Records(T("k1", 1), T("k1", 1)))
  IN  {[sound EXCEPT !.type = 3], long,
       [sound EXCEPT !.len = 23, !.word = [i \in 0..23 |-> 2],
                     !.continued = [i \in 0..23 |-> FALSE],
                     !.next = [i \in 0..23 |-> T("k1", 1)]]}

MCPage == MCSound \cup MCLinked \cup MCMisfit \cup MCOdd

MCStart ==
  MCPageOf(<<4, 13>>, Records(9, 3), Records(TRUE, FALSE),
           Records(T("k2", 1), T("k1", 0)))

MCContext ==
  {[k1 |-> p, k2 |-> q] : p \in MCSound, q \in MCLinked \cup MCOdd}
  \cup {[k1 |-> MCStart, k2 |-> q] : q \in MCMisfit}

MCInitialTarget == T("k1", 0)

MCLimits ==
  {[max_segments |-> n, max_total_payload_bytes |-> 9] : n \in {0, 1, 2, 3, 9}}
  \cup {[max_segments |-> 9, max_total_payload_bytes |-> 0]}
=============================================================================
