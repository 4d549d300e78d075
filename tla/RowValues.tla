----------------------------- MODULE RowValues -----------------------------
(***************************************************************************)
(* What row_decoder.rs makes of the bytes of numbers and dates.            *)
(* read_numeric_legacy makes a Decimal of a base-100 token and             *)
(* to_plain_string renders a Decimal; SaDate::ymd tells the date of a      *)
(* minute count.                                                           *)
(*                                                                         *)
(* A coefficient is a sequence of digits, and so is a rendered text, with  *)
(* a point and a sign beside it.  A behaviour renders one number, or asks  *)
(* for the dates of one time after the other, less than a day apart.       *)
(***************************************************************************)
EXTENDS Integers, Sequences, SequencesExt, SaDate

CONSTANTS
  Token,  \* the tokens in rows: exponent byte and base-100 digits
  Made,   \* the decimals that callers make, whose fields are public
  STEP,   \* minutes between the times looked at, fewer than a day
  Spans   \* the spans of minutes walked through, pairs <<first, last>>

ASSUME StepAssumption == STEP \in 1..1439
ASSUME SpanAssumption == Spans \subseteq Int \X Int

(* All tokens that can be in a row, and all decimals with a canonical       *)
(* coefficient.                                                             *)
Octets == 0..255

Tokens == [exponent : Octets, digits : Seq(Octets)]

ASSUME TokenAssumption == Token \subseteq Tokens

Canonicals ==
  {d \in [negative : BOOLEAN, coefficient : Seq(0..9), scale : Nat] :
     d.coefficient = <<0>> \/ (d.coefficient # <<>> /\ d.coefficient[1] # 0)}

ASSUME MadeAssumption == Made \subseteq Canonicals

VARIABLES
  value_pc,     \* "token", "decimal", "text", "failed" or "date"
  token,        \* what is decoded, if anything
  decimal,
  text,         \* what it is rendered as
  raw_minutes,
  date          \* ymd of raw_minutes

number == <<token, decimal, text>>
time == <<raw_minutes, date>>
valueVars == <<value_pc, number, time>>

Zeros(n) == [i \in 1..n |-> 0]

NoToken == [exponent |-> -1, digits |-> <<>>]
NoDecimal == [negative |-> FALSE, coefficient |-> <<0>>, scale |-> 0]
NoText == [negative |-> FALSE, whole |-> <<>>, fraction |-> <<>>]

ValueInit ==
  /\ \/ value_pc = "token" /\ token \in Token /\ decimal = NoDecimal /\ raw_minutes = 0
     \/ value_pc = "decimal" /\ token = NoToken /\ decimal \in Made /\ raw_minutes = 0
     \/ /\ value_pc = "date" /\ token = NoToken /\ decimal = NoDecimal
        /\ \E span \in Spans : raw_minutes = span[1]
  /\ text = NoText
  /\ date = Ymd(raw_minutes)

---------------------------------------------------------------------------
(* read_numeric_legacy                                                     *)

ShortValue == 128 - token.exponent

Abs(n) == IF n < 0 THEN -n ELSE n

(* Digits of a number below 1000, without leading zeros. *)
DigitsOf(n) ==
  IF n < 10 THEN <<n>>
  ELSE IF n < 100 THEN <<n \div 10, n % 10>>
  ELSE <<n \div 100, (n \div 10) % 10, n % 10>>

ReadShort ==
  /\ value_pc = "token" /\ token.digits = <<>>
  /\ decimal' = [negative |-> ShortValue < 0, coefficient |-> DigitsOf(Abs(ShortValue)),
                 scale |-> 0]
  /\ value_pc' = "decimal"
  /\ UNCHANGED <<token, text, time>>

InvalidDigit == \E i \in 1..Len(token.digits) : token.digits[i] > 99

RejectDigit ==
  /\ value_pc = "token" /\ InvalidDigit
  /\ value_pc' = "failed"
  /\ UNCHANGED <<number, time>>

(* Mutant: a digit is written without its leading zero. *)
MutPairs == FlattenSeq([i \in 1..Len(token.digits) |-> DigitsOf(token.digits[i])])

Pairs ==
  [i \in 1..(2 * Len(token.digits)) |->
     IF i % 2 = 1 THEN token.digits[(i + 1) \div 2] \div 10 ELSE token.digits[i \div 2] % 10]

FirstNonZero(s) ==
  CHOOSE i \in 1..Len(s) : s[i] # 0 /\ \A j \in 1..(i - 1) : s[j] = 0

Canonical(s) ==
  IF \A i \in 1..Len(s) : s[i] = 0 THEN <<0>> ELSE SubSeq(s, FirstNonZero(s), Len(s))

Shift == token.exponent - 192

ReadLong ==
  /\ value_pc = "token" /\ token.digits # <<>> /\ ~InvalidDigit
  /\ decimal' =
       [negative |-> FALSE,
        coefficient |-> Canonical(Pairs) \o Zeros(IF Shift >= 0 THEN 2 * Shift ELSE 0),
        scale |-> IF Shift >= 0 THEN 0 ELSE 2 * (-Shift)]
  /\ value_pc' = "decimal"
  /\ UNCHANGED <<token, text, time>>

---------------------------------------------------------------------------
(* to_plain_string                                                         *)

(* Mutant: one zero too few, none before the point. *)
MutPadding ==
  IF decimal.scale >= Len(decimal.coefficient)
    THEN decimal.scale - Len(decimal.coefficient) ELSE 0

Padding ==
  IF decimal.scale >= Len(decimal.coefficient)
    THEN decimal.scale + 1 - Len(decimal.coefficient) ELSE 0

Signed == decimal.negative /\ decimal.coefficient # <<0>>

Render ==
  /\ value_pc = "decimal"
  /\ LET digits == Zeros(Padding) \o decimal.coefficient
         split == Len(digits) - decimal.scale
     IN  text' = [negative |-> Signed, whole |-> SubSeq(digits, 1, split),
                  fraction |-> SubSeq(digits, split + 1, Len(digits))]
  /\ value_pc' = "text"
  /\ UNCHANGED <<token, decimal, time>>

---------------------------------------------------------------------------

(* A later time is asked for. *)
Later ==
  /\ value_pc = "date"
  /\ \E span \in Spans : raw_minutes >= span[1] /\ raw_minutes + STEP <= span[2]
  /\ raw_minutes' = raw_minutes + STEP
  /\ date' = Ymd(raw_minutes')
  /\ UNCHANGED <<value_pc, number>>

ValueNext == ReadShort \/ RejectDigit \/ ReadLong \/ Render \/ Later

ValueSpec == ValueInit /\ [][ValueNext]_valueVars

---------------------------------------------------------------------------

(* What digits stand for in a base, and a one with n zeros. *)
NumberIn(base, digits) ==
  LET upTo[i \in 0..Len(digits)] == IF i = 0 THEN 0 ELSE base * upTo[i - 1] + digits[i]
  IN  upTo[Len(digits)]

Power(base, n) == NumberIn(base, <<1>> \o Zeros(n))

Sign(negative) == IF negative THEN -1 ELSE 1

TextNumber == Sign(text.negative) * NumberIn(10, text.whole \o text.fraction)

(* What is rendered reads back as the number the token stands for: its      *)
(* base-100 digits scaled by a power of 100, or the biased short form.      *)
RenderingIsTheToken ==
  value_pc = "text" /\ token # NoToken =>
    IF token.digits = <<>> THEN TextNumber = ShortValue /\ text.fraction = <<>>
    ELSE TextNumber * Power(100, IF Shift < 0 THEN -Shift ELSE 0) =
           NumberIn(100, token.digits) * Power(100, IF Shift > 0 THEN Shift ELSE 0)
             * Power(10, Len(text.fraction))

(* The text is a plain decimal: a digit before the point, as many digits    *)
(* after it as the scale says, and the digits are the coefficient's; the    *)
(* sign is the decimal's, but "a decimal renderer must never expose a       *)
(* negative zero", at any scale and of any canonical coefficient.            *)
TextIsPlain ==
  value_pc = "text" =>
    /\ text.whole # <<>> /\ Len(text.fraction) = decimal.scale
    /\ NumberIn(10, text.whole \o text.fraction) = NumberIn(10, decimal.coefficient)
    /\ text.negative = (decimal.negative /\ NumberIn(10, decimal.coefficient) # 0)

(* The dates are those of the Gregorian calendar (SaDate::ymd).  "Raw day   *)
(* zero is 1600-02-29" and day 135081 is the first of 1970; and the date of *)
(* a later time is the same within a day and the next day's after midnight: *)
(* no day is skipped or repeated, before the epoch, before year zero and    *)
(* over every leap rule.                                                    *)
DatesAreGregorian ==
  /\ [](raw_minutes \in 0..1439 => date = [year |-> 1600, month |-> 2, day |-> 29])
  /\ [](raw_minutes \div 1440 = 135081 => date = [year |-> 1970, month |-> 1, day |-> 1])
  /\ [][date' = IF raw_minutes' \div 1440 = raw_minutes \div 1440
                  THEN date ELSE DayAfter(date)]_time
=============================================================================
