------------------------------- MODULE Argmax -------------------------------
(***************************************************************************)
(* Where a function of integers is largest.  max_by_key of an iterator     *)
(* keeps the last of equal maxima, a loop that replaces its best only by   *)
(* a better one keeps the first, and max_by_key over a HashMap any of them.*)
(***************************************************************************)
EXTENDS Integers

AnyMax(f) == {x \in DOMAIN f : \A y \in DOMAIN f : f[y] <= f[x]}

FirstMax(f) == CHOOSE x \in AnyMax(f) : \A y \in AnyMax(f) : x <= y

LastMax(f) == CHOOSE x \in AnyMax(f) : \A y \in AnyMax(f) : x >= y
=============================================================================
