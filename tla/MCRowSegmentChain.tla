------------------------- MODULE MCRowSegmentChain -------------------------
(* TLC instance of RowSegmentChain: four targets, every way a header can be *)
(* wrong, payloads of zero and one byte.                                    *)
EXTENDS RowSegmentChain

CONSTANTS t1, t2, t3, t4

MCTarget == {t1, t2, t3, t4}

Plain(len, declared) ==
  [len |-> len, declared |-> declared, continued |-> FALSE, next |-> t1]

Continued(len, declared, next) ==
  [len |-> len, declared |-> declared, continued |-> TRUE, next |-> next]

(* two bytes; declared too short, too long, shorter than supplied; exact *)
MCBytes ==
  {Plain(2, 2), Plain(3, 2), Plain(3, 4), Plain(5, 4), Plain(3, 3), Plain(4, 4)}
  \cup {Continued(8, 8, t2), Continued(9, 8, t2), Continued(9, 10, t2), Continued(10, 9, t2)}
  \cup {Continued(n, n, t) : n \in {9, 10}, t \in MCTarget}

MCLimits ==
  [max_segments : 0..4, max_total_payload_bytes : 0..2]
=============================================================================
