------------------------- MODULE MCPagePermutation -------------------------
(* TLC instance of PagePermutation: bytes of four values, buffers of up to  *)
(* eight bytes and every active range, keys of both signs that vary every   *)
(* part the code takes from them.                                           *)
EXTENDS PagePermutation

ASSUME PowersOfTwo == \A n \in 0..70 : PowerOfTwo(n) <=> \E k \in 0..6 : n = 2^k

MCKey == {I32_MIN} \cup {s * k : s \in {-1, 1}, k \in {0, 1, 2, 3, 6, 9, 20, 37, 51, 70, 85, 114, 127}}

MCCall ==
  UNION {[sector : {FALSE}, len : {n}, start : 0..(n - 1), tail : 0..n, key : MCKey] :
            n \in {1, 2, 4, 8}}
  \cup [sector : {TRUE}, len : {4, 8}, start : {0, 1}, tail : {0}, key : {1, 51}]
  \cup [sector : {FALSE}, len : {0, 3, 6}, start : {0}, tail : {0, 1}, key : {1}]

MCImage == {[i \in 0..7 |-> i % 4], [i \in 0..7 |-> (i \div 3) % 4]}
=============================================================================
