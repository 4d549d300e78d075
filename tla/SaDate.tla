------------------------------- MODULE SaDate -------------------------------
(***************************************************************************)
(* SaDate of row_decoder.rs: the calendar date of a signed minute count,   *)
(* and a calendar that only knows the next day to compare it with.         *)
(***************************************************************************)
EXTENDS Integers

(* The quotient of `/`, which rounds towards zero. *)
Quotient(a, b) == IF a < 0 THEN -((-a) \div b) ELSE a \div b

(* div_euclid, which for a positive divisor rounds down. *)
Days(minutes) == minutes \div 1440

(* Mutant: the quotient before year zero is not rounded down. *)
MutEra(z) == Quotient(z, 146097)

Era(z) == Quotient(IF z >= 0 THEN z ELSE z - 146096, 146097)

Month(mp) == IF mp < 10 THEN mp + 3 ELSE mp - 9

(* Mutant: the epoch is a day off. *)
MutUnixDay(days) == days - 135080

UnixDay(days) == days - 135081

Ymd(minutes) ==
  LET z == UnixDay(Days(minutes)) + 719468
      doe == z - Era(z) * 146097
      yoe == Quotient(doe - Quotient(doe, 1460) + Quotient(doe, 36524)
                        - Quotient(doe, 146096), 365)
      doy == doe - (365 * yoe + Quotient(yoe, 4) - Quotient(yoe, 100))
      mp == Quotient(5 * doy + 2, 153)
      month == Month(mp)
  IN  [year |-> yoe + Era(z) * 400 + (IF month <= 2 THEN 1 ELSE 0),
       month |-> month,
       day |-> doy - Quotient(153 * mp + 2, 5) + 1]

---------------------------------------------------------------------------
(* The Gregorian calendar *)

IsLeap(year) == year % 4 = 0 /\ (year % 100 # 0 \/ year % 400 = 0)

LengthOf(year, month) ==
  CASE month = 2 -> IF IsLeap(year) THEN 29 ELSE 28
    [] month \in {4, 6, 9, 11} -> 30
    [] OTHER -> 31

DayAfter(d) ==
  CASE d.day < LengthOf(d.year, d.month) -> [d EXCEPT !.day = @ + 1]
    [] d.day = LengthOf(d.year, d.month) /\ d.month < 12 ->
         [year |-> d.year, month |-> d.month + 1, day |-> 1]
    [] OTHER -> [year |-> d.year + 1, month |-> 1, day |-> 1]
=============================================================================
