----------------------------- MODULE MCRowValues -----------------------------
(* TLC instance of RowValues: every short token, tokens of up to two digits *)
(* that begin or end with zero or are at the limit, exponents that scale up *)
(* and down by up to two places, and decimals made with every sign; four    *)
(* hundred years up to and across year zero, where every sign of the date   *)
(* formula changes, and the years around the epochs.                        *)
EXTENDS RowValues

MCToken ==
  [exponent : 0..255, digits : {<<>>}]
  \cup [exponent : 190..194, digits : [1..1 -> {0, 7, 10, 99, 100}]
                                      \cup [1..2 -> {0, 7, 10, 99, 100}]]

MCMade ==
  [negative : BOOLEAN, coefficient : {<<0>>, <<5>>, <<1, 0>>, <<1, 0, 5>>}, scale : 0..5]

YearZero == -584387 * 1440
Century == 36525 * 1440

MCSpans ==
  {<<YearZero - 4 * Century - 1440, YearZero + 2 * 1440 * 366>>,
   <<-1440 * 800 - 7, 1440 * 800>>,
   <<1440 * 134900, 1440 * 136000>>}
=============================================================================
