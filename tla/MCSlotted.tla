----------------------------- MODULE MCSlotted -----------------------------
(* TLC instance of Slotted: bytes of four values, all pages of which the    *)
(* first six bytes are searched, directories of two live slots or more; and *)
(* callers' directories of up to four slots, unordered, repeated, deleted   *)
(* or beyond the row area.                                                  *)
EXTENDS Slotted

MCPage == [0..(SEARCH_LIMIT - 1) -> 0..(BYTE - 1)]

MCGivenSlots == UNION {[1..n -> {0, 3, 5, 9, 14, 15}] : n \in 0..4}
=============================================================================
